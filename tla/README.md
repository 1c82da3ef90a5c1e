# swim: TLA+ specifications

`swim` is a Caddy build with a few modules of its own. Its core logic is the
`github_preview` middleware: a request for `pr-42.preview.example` is served from the
zip of the GitHub Actions build of PR 42, which the handler finds, downloads, caches,
registers in Caddy's filesystem map and throws away again. Beside it stand a prerender
middleware and filesystems (layers merged into one, archives read from anywhere).

This directory specifies the preview handler, its parts and its configuration, two such handlers
in one Caddy, and a static site made of the other modules. TLC checks them on small
instances; TLAPS proves, for every instance, the safety of the artifact cache and of the read cache, the
handler's right use of the former, that no preview is registered with a build GitHub does not name for it, that known previews keep being
served while nothing is evicted, that requests one after the other find map, metadata and files in agreement, which
build a resolution finds, what finished downloads and the layers of a site hold, and what a configuration amounts to.

## 1. Inventory

| component | source | state | operations | interacts with |
|---|---|---|---|---|
| preview handler | `modules/github_preview/handler.go` | the two caches, the singleflight group, `refreshActive` and its wait group, `pruneStop`; its registrations in Caddy's global map | `ServeHTTP`, `resolveAndRegister`, `fullResolve`, `downloadAndCache`, `evictKey`, background refresh, `pruneOnce`, `Cleanup` | everything below |
| metadata cache | `cache.go` | key -> artifact ID, head SHA, `resolvedAt`, under an RWMutex | `get`, `set`, `touch`, `evict`, `snapshot` | called by the handler, the API and the pruner |
| artifact cache | `cache.go` | artifact ID -> filesystem, cleanup, `lastAccess`, under an RWMutex; `maxSize` | `get`, `set`, `evict`, `cleanupAll`, `staleEntries` | cleanups run after the unlock and touch the disk |
| read cache | `lrucache.go` | one per artifact: map and doubly linked list, `curBytes` | `Open` | reads the zip without its lock |
| download | `github.go` `DownloadArtifact`, `pkg/archive` | files under `TempDir`, one path per artifact ID | download, hash, open, cleanup | GitHub, the disk |
| resolution | `github.go` | none | `ResolvePR`, `ResolveBranch`, `GetPRState` | GitHub's PRs, branches, runs, artifacts |
| management API | `api.go` | none of its own | POST and DELETE `/refresh`, GET `/status` | singleflight group and caches of the handler |
| rate limiter | `ratelimit.go` | token bucket (library) | `wait` | each GitHub call |
| configuration | `config.go`, `Provision`, `handleAPI`, `extractKey` | the fields of `GithubPreview` | Caddyfile parsing, `parseByteSize`, defaults, which request goes where, the key of a host name | Caddy, the handler |
| debug page, error pages | `debug.go`, `templates.go` | - | read-only | metadata cache |
| prerender | `modules/prerender` | - | decide whether to prerender, ask the service, hand on its answer in an encoding the client takes | prerender service |
| mergefs | `modules/mergefs` | immutable list of layers | `Open`, `Stat`, `ReadDir` over the layers | Caddy filesystems |
| localfs, vfs | `modules/localfs`, `modules/vfs`, `pkg/archive` | a base path; an archive, and a memory its readers share | provision, read | disk, HTTP, S3, GCS |
| plugins, main | `plugin`, `main.go` | - | registration | Caddy |

What is hard in it:

* Goroutines: HTTP requests, one background refresh per key, the pruner, the
  goroutine that calls `Cleanup`. They share four locks, hold each for a few
  instructions only and keep what they read across GitHub calls that take seconds.
* One logical state (what a key serves) is kept in three places: the metadata, the
  artifact cache and Caddy's map. They are changed one after the other, and an
  artifact may belong to several keys.
* Files are closed and removed by cleanup functions that run after the unlock, and
  every download of an artifact uses the same path.
* GitHub fails, answers late, and its listing of runs may be stale.
* Caddy's map is global: what two handlers register there has the same names.
* JSON bypasses the checks of the Caddyfile, and `Provision` may fail half-way.
* Layers, replies and archives fail in part; who asked is not always told.

What makes each part correct:

* handler: what is served is registered and open, and a build of the preview asked for; a
  known preview keeps being served when GitHub fails; it never goes back to an older build by mistake; every request is
  answered; waiters have a leader; `Cleanup` ends and leaves nothing behind.
* artifact cache: bounded; what it hands out is open; each file is cleaned up exactly once.
* read cache: bounded in bytes, an LRU cache in the face of concurrent misses.
* download: verified bytes stay verified; no file stays behind; size limit.
* resolution: the build of the head commit is found whenever it can be; only builds
  of the right branch are served, the newest that is there.
* configuration: what is accepted is usable and means what it says; the API is there for who
  has the key and names previews as host names do.
* mergefs: the first layer wins; listings and lookups agree.
* prerender: the page is whole, of the right scheme, and labelled as what it is.
* vfs: what cannot be fetched is refused; what is kept in memory is whole.

The hazards, each at its line and with the properties meant to catch it, are listed in
`PROJECT.json`.

## 2. Modules

| module | what it is |
|---|---|
| `ArtifactCache` | `ArtifactCache` of `cache.go`, used by any goroutines in any way; the abstract specification for the handler's use of it |
| `ArtifactCacheProofs` | its safety, proved |
| `GithubPreview` | the handler: metadata cache, artifact cache (instance of `ArtifactCache`), Caddy's map, singleflight, background refreshes, pruner, shutdown |
| `GithubPreviewProofs` | its waiters, its refresh marks, its use of the artifact cache, and that a preview is only ever registered with a build of its own, proved |
| `PreviewKeepProofs` | under the restrictions of the runs, proved: a handler that never evicts serves and registers what it knows; if its keys share no artifacts either, no cleanup is lost and no older build comes back; with one request after the other, evictions included, what is served is open and what the metadata name; a shutdown leaves nothing behind |
| `TwoPreviews` | two instances of `GithubPreview` over one filesystem map |
| `PreviewConfig` | parsing, provisioning, the routing of requests and the keys of previews |
| `PreviewConfigProofs` | limits, sizes, keys and the guard of the API, proved |
| `ReadCache`, `LruCacheFs` | the promise of the read cache, and its implementation with pointers |
| `LruCacheFsProofs` | that the pointers keep the promise, proved |
| `ArtifactDownload` | `DownloadArtifact` and `DownloadZipFs` on a file system of inodes and paths |
| `ArtifactDownloadProofs` | verified files, the size limit and the freeing of paths, proved |
| `GithubResolve` | artifact resolution against a changing GitHub |
| `GithubResolveProofs` | the build of the head, the right branch, the newest of a listing, proved |
| `Mergefs`, `Prerender`, `Vfs` | the merged filesystem, the prerender middleware and the opening of archives, as operators |
| `Site` | the three composed: a site is configured layer by layer, then read by clients |
| `SiteProofs` | the order of layers, listings, encodings, the refusal of broken archives and the memory of a vfs layer, proved |
| `MC*` | small instances for TLC: concrete functions and symmetry sets |

### ArtifactCache

A *handle* is one filesystem returned by `DownloadArtifact`: an open file and its
cleanup. `entries` is the map, `older` the order of `lastAccess` (times are not
modelled, only their order: `get` and `set` make an artifact the newest), `open` the
handles whose file is open. Between a download and `set` a handle is in `held`; between
an eviction and the cleanup, which runs after the unlock, it is in `todo`. The locked
part of each method is one step, its cleanups are another. The operators `Get`,
`EvictionSet`, `Put`, `Drop` and `Cleanups` are the bodies of the methods; `GithubPreview`
uses the same ones. Handles may be used again once nothing refers to them.

### GithubPreview

One step is one critical section (of `metadataCache.mu`, `artifactCache.mu`, `refreshMu`,
the singleflight mutex, Caddy's map) or one GitHub call. `th` holds for each goroutine a
program counter and the local variables that matter: the metadata entry
`resolveAndRegister` started from (`meta`), one read later (`seen`), the artifact to
install (`id`), how it was found (`via`: `"head"` for `ExactHead`), its filesystem (`fs`)
and the cleanups to run (`todo`). The actions follow the code from top to bottom:
`Lookup`, `Fresh`, `Swr`, `Trigger`, `Do` are `resolveAndRegister`; `Resolve`, `Guard`,
`Keep`, `Have` are `fullResolve`; `Download`, `Store`, `Clean`, `SetMeta`, `Register` are
`downloadAndCache` (and the last two the branches of `fullResolve` that install a cached
artifact); `ErrGet`, `ErrArt`, `ErrTouch`, `ErrReg` the fallback after an error;
`EvGet`, `EvArt`, `EvClean`, `EvMeta`, `EvUnreg` are `evictKey`, and from `EvArt` on the
evictions of `pruneOnce`; `Tick`, `Check`, `Checked`, `AgeNext`, `AgeKey` are the pruner;
`Stop`, `Drained`, `Unregister`, `CleanupAll`, `Purge` are `Cleanup`. `Return` is how
`fullResolve` ends for each kind of caller.

The end of a singleflight call, its `Forget` on errors and the waking of the waiters are
one step: between them the leader changes nothing that is shared, so a waiter that wakes
later is a waiter that is slow to go on. The goroutine of a background refresh is named by its key,
because `refreshActive` allows one per key; `RefreshMarked` checks that this is so.

`Holds` and `Cleans` are the refinement mapping to `ArtifactCache`: the filesystem a goroutine
has at `"store"`, and the cleanups in its `todo`. `CacheUsedRight` says that under this mapping
the handler is one of the programs that `ArtifactCache` admits.

GitHub is arbitrary here: `Resolve` answers any artifact the key may have, of the head
or of the listing, finds the PR closed, or fails; `Download` fails or not. `metadata_ttl`
may be over at any time (`Expire`). The variable `cooling` is history: keys whose last
re-resolve failed less than a TTL ago. The file server is external: it uses a request's
name some time while `pc` is `"serve"`. `Cleanup` is called once the HTTP server has
drained its requests, which is what Caddy does without a grace period.

POST `/refresh` reads the artifact it reports from the metadata once the singleflight call is over
(`Report`), and answers `conflict` when the caller expected another one (`Respond`).

### TwoPreviews

The handlers `A` and `B` are instances of `GithubPreview` that have everything of their own, and
different artifacts, but the variable `fsmap`: `registerFs` names a filesystem by the key alone.
Both are of one Caddy configuration, which has a map of its own: after a reload the old handler and the new one
share no registrations, only the paths of the downloads.

### PreviewConfig

Texts are abstracted to whether their reader (a regular expression, a template, the code that
splits a repository name) accepts them, and to whether they stand for an environment
variable; numbers are real, and sizes wrap around at `Limit` as int64 does at 2^63. A
configuration comes as a Caddyfile, option by option through `ReadText`, `ReadCount`, `ReadSize` and
so on, which check and compute, or as JSON, which goes into the same fields unchecked.
`ProvisionRefuses`, `BadHostRe`, `BadTemplate` and `Provision` are the exits of `Provision` in their order;
`made` tells what exists by then, because Caddy calls `Cleanup` on a handler whose `Provision` has failed.
A path is the sequence of its segments, and `Route` what `ServeHTTP` and `handleAPI` do with a request:
a prefix test of texts that ends at a segment is a prefix test of sequences. `HostKey` is `extractKey`
after the regular expression, `ApiKey` the key of a body; `Atoi` and `Decimal` stand for Go's conversions, about
which only that reading back a number that was written gives that number is assumed.

### ReadCache and LruCacheFs

`LruCacheFs` keeps the fields of `lruCacheFs` in one record and translates
`addLocked`, `touchLocked` and `evictLocked` pointer by pointer; the loop of `addLocked` is a
recursive function of the number of its turns (`MakeRoom`, one turn being `EvictTail`). `ReadCache` is a
sequence of names and a byte limit. `Order` walks the list; with it as refinement
mapping `LruCacheFs` implements `ReadCache` (`ReadCacheSpec`).

### ArtifactDownload

`link` is the directory (artifact ID -> inode), `file` the blocks of an inode; `os.Create`
truncates, `os.Remove` unlinks, descriptors keep inodes. The body is written block by
block at the writer's own offset, so two writers of one inode overwrite each other and
a truncation leaves a hole. `Refuse` is every failure before the file is created.

### GithubResolve

GitHub's side moves all the time: pushes, force-pushes and reverts move the head, builds
upload, artifacts expire. `ByHead` is a consistent lookup; `ByBranch` answers any subset
of the branch's runs, those of forks whose branch has the same name included. Listings are sorted as `listRuns` does (`Sorted`
is the sequence of the runs that `Newer` orders; the comparison is the code's, the algorithm the library's) and scanned
one call per run, each of which may fail. Two variables are history: `due`, the runs of the branch that have had
their artifact since the resolution began and that no look at them has failed for, and `listed`, the runs of the last answer.

### Mergefs, Prerender, Vfs and Site

`Mergefs` gives each layer a function from paths to kinds, and translates the stack of copy-on-write
filesystems (afero, a library) that `buildAfero` makes: `Stat` and `Open` ask a layer and, for want of an
answer, what is below; `Listing` unites directories. A layer can also fail (`"denied"`). `Prerender` has
`ShouldPrerender`, the scheme of `BuildURL`, and the encodings of `PreRenderHandler`: an encoding is the set of codings
a body went through, of which gzip is the only one the code knows. `Vfs` has the
ways to open an archive by scheme, type and settings, with what each does about failures.

In `Site` a configuration with layers of any kind is loaded (`Configure`, `LoadLocal`, `LoadMerge`, `LoadVfs`, `Run`). Then
clients send requests, which go to the prerender service or to the file server. Nobody writes the layers. What
concurrent requests share is the memory into which a vfs layer copies each file when it is first read
(afero's `CacheOnReadFs`): `BeginCopy`, `CreateCopy`, `EndCopy` and the reopening are separate steps, because
no lock covers them, and the copy may fail. A copy knows whose it is: a reader that creates it again
takes the name from the one who is still writing.

## 3. Runs

The cfg file of `preview_keep` is `GithubPreview_keep.cfg`, and so on; `cache`, `readcache`, `download`, `resolve`,
`config`, `site` and `two_handlers` are `ArtifactCache.cfg`, `LruCacheFs.cfg`, `ArtifactDownload.cfg`,
`GithubResolve.cfg`, `PreviewConfig.cfg`, `Site.cfg` and `TwoPreviews_found_mixed.cfg`.

| run | instance | shows |
|---|---|---|
| `cache` | 2 goroutines, 3 artifacts, room for 2, 5 handles | the bound, open files, one cleanup each; a file is lost only where `set` overwrites its entry |
| `preview_keep` | 2 branches with 3 builds, room for all, 2 requests and API refreshes, no evictions | waiters have a leader; known previews are served whatever GitHub does; known names are registered; no cleanup is lost; no preview gets another one's build; the listing brings back nothing older |
| `preview_sequential` | 2 keys with 3 builds, room for 2, one request at a time (serve, refresh, evict) | what is served, and what the API reports as cached, is registered and open; map and metadata agree between requests; retries only after the TTL |
| `preview_prune` | 1 PR with 1 build, which may close, 2 requests, the pruner with `max_artifact_age`, a shutdown | local variables are set where they are used; right use of the cache; requests that wait for another one's call are answered; `Cleanup` returns and the pruner ends |
| `preview_stop` | 2 branches, background refreshes, a shutdown at any time | the refresh marks; `Cleanup` waits for the refreshes, returns, and leaves no name registered and no file open |
| `readcache` | 6 paths, 3 bytes, 2 goroutines | the byte count, the list, the refinement of `ReadCache` |
| `download` | 2 downloads of one artifact, zips of 2 blocks, limit 3 | a file alone with its path is what was verified, and within the limit; no file is left |
| `resolve` | 5 runs, 3 commits, 2 branches, 1 fork | a build of the head is found when there is one, right branch, none that is listed and there is passed over for an older one |
| `config` | 4 lines of 12 options, Caddyfile or JSON, integers of 8 bits | limits usable, sizes as written, no operation of the API without the right key, one key for API and host |
| `site` | 3 layers, 2 paths, every tree in local layers, archives or a merged layer in between, 2 clients | the first layer wins, listings can be opened, gzip and its absence are labelled as what they are, failed archives are refused, copies kept in memory are whole |

The properties of `preview_keep`, `preview_sequential` and `preview_stop` other than `NoOrphanWaiter`, `OwnBuildsOnly`,
`RefreshMarked` and `ShutdownEnds` hold only under the restriction the section of `GithubPreview` they stand in states (no
eviction, or one request at a time). Without it they are false.

Two runs show where the code does not keep what its documentation says; each is a finding in `PROJECT.json`:

| run | what happens |
|---|---|
| `preview_found_regress` | an API refresh passes the guard with an artifact of the listing, the background refresh of the key installs a newer one, and the API refresh replaces it: "it never replaces a cached artifact with an older one" |
| `two_handlers` | two handlers for two repositories: visitors of one site get the other one's PR, though the prefix of the names is "used to namespace our entries" |

The other cfg files with `found` in their names are kept for a reader who wants to see a restriction fail or a
surprise of the code at work. They are not among the runs; TLC finds each property violated:

| file | property | what happens |
|---|---|---|
| `GithubPreview_found_closed_fs.cfg` | `ServedFsOpen` | two keys share an artifact: after an eviction and a new download one of them stays on the closed filesystem |
| `GithubPreview_found_no_touch.cfg` | `RetryAfterTTL` | a failed background refresh does not touch the metadata: with stale-while-revalidate a failing GitHub is asked on every request |
| `GithubPreview_found_unregistered.cfg` | `ServedKeyRegistered` | the metadata is set before the registration: a second request gets an unregistered name |
| `GithubPreview_found_evict_race.cfg` | `FreshKeyRegistered` | `unregisterFs` after a concurrent registration: unregistered for a whole TTL |
| `GithubPreview_found_leak.cfg` | `NoFileLeaked` | two keys of one artifact download it at once: the overwritten cache entry loses its cleanup |
| `GithubPreview_found_leak_swr.cfg` | `NoFileLeaked` | the same with one key and stale-while-revalidate: an API refresh and the background refresh of the key download the same artifact |
| `GithubPreview_found_closed_early.cfg` | `ClosedWhenUnneeded` | an eviction closes a file in use |
| `GithubPreview_found_stray.cfg` | `StopLeavesNothing` | a name without metadata survives `Cleanup` |
| `GithubPreview_found_age.cfg` | `AgeEvictsOldest` | an artifact that has just been accessed is evicted as stale |
| `ArtifactDownload_found_truncated.cfg` | `AlwaysIntact` | a second download truncates the verified file in use |
| | `AlwaysBounded` | a second download with a longer body writes past the limit into the file in use |
| `GithubResolve_found.cfg` | `RightRepo` | the listing takes the build of a fork whose branch is called the same |
| | `ExactByLookup`, `QueriesByBranch` | the comments on `ExactHead` and on `ResolvePR` say something else than the code does |
| `PreviewConfig_found.cfg` | `NeverPanics` | a bad `host_re` makes `Cleanup`, a negative `prune_interval` the pruner panic |
| | `OneKeyPerPR` | `pr-042` is another preview than `pr-42` |
| | `TrailingSlashIgnored` | with `api_path /api/` the API is at `/api//refresh` |
| `PreviewConfig_found_sample.cfg` | `SampleProvisions` | the sample of the readme lacks the required `workflow` |
| `Site_found.cfg` | `FilesWhole` | a reader who comes during the copy of a file gets the part that is there |
| | `NeverBroken` | a zip at a URL with a query is taken for a tar, and a tar that is none for a filesystem |
| | `SampleObject` | the S3 sample of the readme takes the bucket for the endpoint |
| | `ListingComplete` | a file of a layer cuts the listings of the layers around it, but not their lookups |
| | `DeniedStaysDenied` | what the first layer may not read is served from a layer below |
| | `SuccessIsWhole` | the prerender service fails and the crawler gets an empty page with status 200 |
| | `LabelComplete` | a service that sends `br` unasked: the page is gzipped on top and labelled `gzip` only |
| | `RightScheme` | a visitor over TLS without a proxy gets the page of http |
| | `NeverPanics` | JSON without a `prerender_url` panics on the first crawler |

A file with several properties names the others in comments: TLC stops at the first it finds violated.

### Bounds

Two requests show every interleaving of two actors; the background refresh, the pruner or the
shutdown joins where its interference matters. Two keys, with two and one builds, are the least
for an older and a newer build of one key and for an eviction by another key; `max_artifacts` is 1
or 2 where evictions are wanted, so that they happen in nearly every download, and 3 where they
are excluded. `Copies` bounds the filesystems of one artifact that something still refers to, not
their number over time: those nothing refers to are used again. Were all of them in use,
`Download` could only fail, which it may do anyway. TTLs, ticks and failures may occur any number
of times, and no behaviour is cut off. In `preview_prune` there is one artifact and `Copies`
has one element, so that the two requests, the pruner and the shutdown, whose progress is checked, stay within reach: a goroutine
that would download while another copy is still in use or about to be closed fails instead. That `CacheUsedRight` holds with
any number of copies and artifacts is proved. Two requests are a leader and a waiter.

`MaxLines` is 4: three lines suffice for each way `Provision` ends, the fourth gives an option twice or sets one
beside them. With 8-bit integers and K = 4 the largest size that can be written, 2 GB, is just one that wraps
around. Three layers have a top, a middle that is overlay and base at once, and a bottom; a directory and a file
in it are where a listing and a lookup may differ. A layer that is merged itself has one of the trees a single layer
may have, and its layers are on the disk: what a union of layers makes of its directories is checked one level up. Two clients are a reader and the one who copies; a third could
only be another one of these.

### Fairness

Weak fairness of each goroutine's own steps: locks are held for a few instructions, GitHub
calls end by their contexts and the client's timeout. Nothing makes a request, a tick, an expiry or
a shutdown happen. `PrunerExit` is strongly fair: the `select` of `runPruner` picks at random
among ready cases, so that a closed `pruneStop` is taken in the end even if the ticker
is ready again each time. The other modules state no fairness and check no liveness.

## 4. Proofs

Assumptions: `max_artifacts` is positive (`CaddyfileLimitsUsable` proves that it is when the handler is
configured by a Caddyfile; nothing checks JSON: see the hazards), the artifact IDs
are a finite set of integers, the goroutines have different names, and `None` is none of the values
it stands beside (nor, in `GithubPreview`, one of the metadata entries). `GithubResolve` has finitely many runs,
`PreviewConfig` paths of known segments and a default API path that is not empty, `Site` as many layers in each of its trees as it
is built for. What holds only for some configurations of the handler says so in the theorem's `ASSUME`, and the run it belongs to
has such a configuration.

`ArtifactCacheProofs` proves, for any artifact IDs, any handles, any goroutines and any
`max_artifacts`: `TypeOK`, `CachedFsOpen`, `CleanupOnce`, `CacheBounded`, `RecencyIsTotal`, `LostByOverwriteOnly`.
That a cached filesystem is open is not inductive: a cleanup that runs late could close a
handle that has been cached meanwhile. The inductive invariant `Inv` is ownership: a
handle belongs to one cache entry, or to the one goroutine that has downloaded it, or
to the one that is about to clean it up; owned handles are open. `set` and `evict`
only hand handles over, and only their owner closes them. One way to lose an owner is left, the entry that `set` overwrites;
that there is no other (`NothingElseLost`) rests on one goroutine having its cleanups to itself (`OneTask`). The bound needs the loop's exit
condition (`EvictionSet`) and the cardinality of finite sets; recency is proved by two lemmas
about orders, restriction (evictions) and appending a greatest element (accesses).

`GithubPreviewProofs` proves, for any keys, artifacts, requests and options and under every
interleaving: `TypeOK` (no step uses a local variable that is not set), `NoOrphanWaiter`,
`RefreshMarked` and the safety refinement `CacheUsedRight`. So each property of
`ArtifactCacheProofs` holds in the handler. The inductive invariant is `IInv`:

* `Task`: which kind of goroutine can be at which place, on whose behalf, and which locals it has
  then. Without it nothing excludes that a goroutine which leads no call ends one, or that a
  background refresh gets to the error path of requests.
* `Flights`: a leader works on the key of its flight, on behalf of a request. With `Task` it
  gives that a request on the fresh path, which downloads outside the group, wakes nobody, and
  that a leader which returns wakes exactly the waiters of its key.
* `Sweep`: the keys the pruner visits have an artifact in its snapshot, and it goes on to the next
  stale artifact only when no keys are left.
* `CacheData`: `lastAccess` is known only of cached artifacts, so that evicting what is not there
  changes nothing.

Most actions move one goroutine by itself (`Local`); one lemma (`LocalStep`) covers the waiters and the
marks for all of them. The ends of singleflight calls and of refreshes are `ReturnRefresh`,
`ReturnLeader` and `ReturnFresh`, one for each kind of caller.

It also proves `OwnBuildsOnly` for any keys and artifacts, shared or not. That adds to `IInv` that
metadata, snapshot, registrations and every goroutine name builds of their own key only (`OwnTasks`, `OwnMeta`), and that
a cached filesystem is one of its artifact (`OwnCache`). The hard places are those where one goroutine acts for another:
a leader that wakes waiters, the pruner that evicts for keys it has not looked at, and a cache shared by all keys,
in which an artifact is found by its ID alone.

`PreviewKeepProofs` proves `KeepServing` and `RegisteredIfKnown` for any keys, shared artifacts, requests and
background refreshes, under `NoEviction`: no evict requests, closed PRs, pruner or shutdown, and room for all artifacts.
(For one more than there are, in fact: `set` makes room before it looks whether it overwrites an entry. The run has
just the room, because there nothing is ever overwritten.) Neither property is inductive, since a request fails
because of what was in the caches when it looked, several steps before. The invariant `Kept` says that metadata name a cached
artifact (`MetaCached`), that what a goroutine has read of the caches is still there (`KeepTasks`), that whoever is
in `fullResolve` or `downloadAndCache` leads a singleflight call, so that an error is not final (`InFlight`), and that a key
with metadata is registered or about to be (`MapKept`). It is preserved because the caches only grow (`CachesGrow`), which
needs that `set` evicts nothing where there is room (`RoomForAll`, from the cardinality of finite sets).

In the same module `NoFileLeaked` and `NoFallbackRegress` are proved under `Separate`: besides `NoEviction`, no
stale-while-revalidate and no artifact of two keys. Without evictions too, `GithubPreview_found_leak.cfg` breaks the first
with a shared artifact and `GithubPreview_found_leak_swr.cfg` with background refreshes, and `preview_found_regress` the second with background refreshes. The argument is `OneAtWork`: two goroutines between the guard and the metadata
are never at the same key (one leads its call) and so never at the same artifact. Therefore what a goroutine has looked
up stays true until it acts on it (`Lone`): the artifact it downloads is not in the cache, and the one it installs from the
listing is no older than the metadata, whole downloads after the guard. `OpenUsed` adds that each open file is cached or on its way there.

The third part of `PreviewKeepProofs` is about requests one after the other (`Sequential`: one request at a time, no stale-while-revalidate,
pruner or shutdown, no artifact of two keys, as in `preview_sequential`; but any keys and artifacts, and any `max_artifacts`, so that
every download may evict): `ServedFsOpen`, `MapFollowsMetadata`, `RefreshReportsServed` and `RetryAfterTTL`. The properties speak of
single moments; the invariant `SeqInv` says what holds in between. A key nobody works on is `Settled`: the map serves the artifact its
metadata name (`Named`), from the very filesystem in the cache if it is still there (`Linked`: an artifact that was evicted and
downloaded again has another), and a pause after a failed resolve goes with metadata that count as fresh (`Paused`). `Progress` says which of
these the request at work has not restored yet, from `Store` to `Register`, from `EvMeta` to `EvUnreg` and from the failure to `ErrTouch`,
and what its local variables have to do with the caches meanwhile; `Files` that what is cached is open and is not among
the files about to be closed. A download evicts artifacts of other keys, and `Settled` is stated so that this leaves it true. `GithubPreview_found_closed_fs.cfg`
shows why artifacts must not be shared: then the download for one key changes what another one has registered.

The fourth part proves `StopLeavesNothing` under `Stoppable`: no evict requests, closed PRs or pruner, room for every artifact, no artifact
of two keys, and either no stale-while-revalidate and any number of requests and API refreshes, or stale-while-revalidate
and one request at a time beside the background refreshes, as in `preview_stop`. `Cleanup` unregisters the keys that have metadata and closes the files of the cached artifacts,
so the invariant `StopInv` says that nothing escapes this. As long as goroutines work, a registered key has metadata, and these name a cached artifact
(`Before`); an open file is in the cache, on its way into it, or in the hands of `Cleanup` (`OpenReached`). From then on requests rest, and once `refreshWg.Wait` is over
the background refreshes do too, so that nothing is added behind its back (`After`). The hard place is `set`, which forgets what it overwrites: no
two goroutines may download the same artifact. Requests of one key are in one singleflight call; what keeps a request and the background refresh of its key apart, which
know nothing of each other, is in `Bound` and `RefreshKnown`: a refresh only begins for a key with metadata, and a request that has seen these and a cached
artifact does not resolve. That is where the restriction comes from: with stale-while-revalidate a second request may be on its
way to a call since before there were metadata, or may come from the API, and a file is lost that `Cleanup` does not find (`GithubPreview_found_leak_swr.cfg`).

`LruCacheFsProofs` proves, for any files, sizes, limit and openers: `TypeOK`, `BytesAccounted`, `ListConsistent` and the refinement
`ReadCacheSpec`. The invariant is that the list is a sequence without repetitions of exactly the names in the map, of which `next` and `prev`
are the successor and predecessor functions. From it follow, by induction on the length, what `Order` computes, and by induction on
the turns of the loop that `MakeRoom` takes away the shortest tail that makes room. `curBytes` is a sum over a finite set, of which only
adding and removing an element is used.

`GithubResolveProofs` proves `HeadServed`, `RightBranch` and `NewestServed` for any finite set of runs, whatever happens at GitHub between the calls.
The invariant says of the runs still to be scanned that they are sorted, of the branch and, if asked for by commit, of the commit (`Listed`,
`Descending`), and of the builds that have been ready since the resolution began that, if the answer had them, they have not been
scanned yet (`DueLeft`), and that the answer by commit has those of the head unless a listing has failed (`HeadLeft`). With the order this gives that
none of them is newer than the run that is taken.
That a finite set of runs can be sorted at all is proved by taking out the newest.

`ArtifactDownloadProofs` proves, for any number of downloads, artifacts, blocks and limits: `VerifiedIntact`, `LiveBounded` and
`NoFileLeft`. While several are at work on one path nothing can be said of the file there, for they truncate, overwrite and remove it.
But each ends by removing the name. So whoever is alone with a file that still has its path has made that file itself
(`OwnFiles`), and what it has hashed nobody has changed since (`Checked`).

`SiteProofs` proves all properties of the run for any number of layers, trees, archives and clients. `FirstLayerWins` and `ListedOpens` are
about the stack of copy-on-write filesystems: by induction from the bottom layer up, `Stat` and `Open` answer what the first layer
answers that knows the path, and a listing names what one of the layers has below it. The invariant (`AnswersInv`) is that what
a client was told came from such a lookup in the layers as they were loaded, which no step changes. `EncodingHonest` is a case analysis
of what the service may send, in any codings, and the client may take. `FaultsReported` is a
property of `Configure` and of each way to open an archive; `MemoryWhole` needs that a copy which is not whole has a client
at work who is still in possession of the name (`CopiesOwned`), however often it was created again.

`PreviewConfigProofs` proves, for any numbers, defaults, width of integers, paths and labels: `LimitsUsable`, `SizesAsWritten`,
`ApiNamesHost` and `ApiGuarded`. The invariant says of each phase what the numbers are by then: as parsed, with 0 for none, then with the defaults.
A size that fits is unchanged by `Wrap`, one that does not is excluded by the property. The guard of the API is proved from `Route` alone, for any key given and any key
configured, once `path` is known not to be empty.

The other theorems are instances of these or parts of them (`PROJECT.json` lists them). `Ownership`, `TypeCorrect` of the cache and
`Recency` have no run of their own: their mutations already break the properties that rest on them.

Model-checked only: liveness and everything under fairness, that is `RequestsAnswered` and `ShutdownEnds`:
the prover has neither fairness nor ENABLED. Every invariant and every action property of the passing runs is
proved, under the assumptions on the constants that the text above names.

Induction over data (the list of the read cache, the turns of its loop, sorted listings, the stack of layers) is done without the
induction rules of the library, which the provers cannot instantiate: a set of counterexamples that is not empty
would have a least element (`WFMin` over the naturals or over the subsets of a finite set), and that leads to a contradiction.

## 5. Not modelled, and what is left

* What GET `/status` and the debug page print, and the texts of error pages: two snapshots and a lookup, without
  effect on anything. When they answer is in `PreviewConfig`.
* The rate limiter: a wrapper of a library. A call waits for a token or fails with its context, and both are
  among what `Resolve` and `Download` may do.
* The options of vfs in the Caddyfile, the clients of S3 and GCS, and the content of archives: input and output.
* The tar and in-memory readers of `pkg/archive` for artifacts, which keep no state.
* GitHub's paging (`per_page`): a listing in the model is any subset of the runs, which covers one that is cut off.
* `plugin` and `main.go`: registration with Caddy.
* Time limits of the fetch of an archive and of the call of the prerender service: there are none, so nothing is
  said about when a configuration is loaded or a crawler answered.
* Crash recovery: there is none. Caches are in memory and a download truncates the file it finds.

Disagreements of the code with its texts too small for a run: the log of `Provision` without an `api_key` says
403 (`handler.go:153`), the answer is 401; the sample for mergefs names its layer `local`, the module is `localfs`.

Left to do: a reload of the configuration, where the old handler's `Cleanup` closes and removes the files of artifacts
that the new one may be downloading to the same paths.
