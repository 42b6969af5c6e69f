# A TLA+ model of mvt-rs

mvt-rs is a vector tile server: it turns PostGIS tables ("layers") into Mapbox
vector tiles, caches the tiles in Redis or on disk, and lets an administrator edit
layers, categories, styles, groups and users over HTML forms and a JSON API. Several
server processes can run side by side.

This directory holds TLA+ modules that model the parts of mvt-rs in which order,
failure and concurrency matter, TLC configurations that check them on small
instances, and theorems about them for instances of any size, proved with TLAPS.
Paths below are relative to the repository; `main.rs` and the like are under
`src/`. `PROJECT.json` names, for every definition that models code, the lines
it stands for.

## The system

### Parts, their state and their operations

| Part | State | Operations | What is hard |
|---|---|---|---|
| Configuration store (`config/*.rs`) | rows in SQLite, `system_settings.config_version` | insert, update, delete of a row, then `bump_config_version` | two statements, no transaction, either may fail |
| In-memory states (`main.rs`, `models/*.rs`, `auth/models.rs`) | `CATALOG`, `CATEGORIES`, `AUTH`, `STYLES`, each in a tokio `RwLock` | read by every request, refreshed by the handler of an edit, replaced by the watcher | order of row, lock and memory differs from state to state; deadlock |
| Cluster (`cluster/*.rs`) | the watcher's `known` version | poll, fetch a snapshot, swap four states, retry; a client's bootstrap from the owner | snapshots that are not atomic, failures, start-up |
| Tile cache (`cache/*.rs`) | tiles by layer key and address, one version counter per layer | look up, write, expire, increment the version, delete a layer's tiles | counters on disk, partial failure, requests in flight |
| Tile requests (`services/tiles/*.rs`) | a clone of the layer, a version, an ETag | 304, cache hit, query and cache write | every value may be stale when it is used |
| Invalidation (`main.rs`) | spawned tasks that sleep | clear at once, or after a delay in a cluster | the delay stands for "all peers have reloaded" |
| Admin pages and API (`html/admin/*.rs`, `api/*.rs`) | none | sequences of the operations above under locks | lock order, references that are checked and used later |
| Authentication (`auth/*.rs`) | sessions and tokens at the client | login, session lookup, group checks | takes the `AUTH` lock inside other locks |
| Query filters and plugins (`filters/*.rs`, `plugins/mod.rs`, `services/tiles/builder.rs`) | the plugins loaded at the start | parse and number the parameters, join clauses, bind, decide whether the cache may be used | text that is joined, a decision taken in two places |
| Owner and clients (`cluster/{api,bootstrap,backend}.rs`) | the client's snapshot and known version | a client blocks until it has a snapshot, then polls | retries, restarts of either side, what survives JSON |
| TileJSON, styles, legends (`services/`) | none | render a document | - |
| Monitor, settings, routes, i18n, pages | counters, constants | rendering, counting | - |

### How they interact

An edit arrives at a handler. It writes the row, bumps the version and refreshes the
memory of its own process (under the state's write lock, or taking it last), and for
layers starts an invalidation. The watcher of every other process sees the version
rise, reads all states from SQLite (or from the owner's HTTP API) and swaps them in.
Tile requests copy their layer out of the catalog, compare an ETag that contains the
layer's version, and read and write the tile cache all processes share.

### What makes each part correct

* Replication: an acknowledged version is complete; every published edit reaches
  every watcher, although statements fail, processes crash and snapshots are torn.
* Tile cache: after the clear that follows an edit, no tile of the older
  configuration is served from the cache, and no ETag from before it is confirmed.
* Locks: no set of requests waits for each other; every request has its turn.
* Store: a reference between rows resolves, memory shows what the rows say, a layer is
  found under its category's name; and where the code gives this up, only there.
* Layer keys: a layer never shows what another one left under its key; a 304 confirms
  only what the browser would be given now.
* Queries: every placeholder has its value, a tile has the rows that were asked for, what
  the layer's filter and the plugins restrict stays restricted, and what was narrowed for one
  is never kept for all.
* Client bootstrap: a client that reaches its owner starts.

`PROJECT.json` lists every part with what is modelled of it, and under "hazards" what
can go wrong in this code that a test would hardly reach, each at its line.

## Modules

| Module | Models | Checked by | Proofs |
|---|---|---|---|
| `ReplicatedConfig` | abstract: what replication promises, without rows, locks, snapshots, polls | as a property of `ConfigSync` | `ConfigSyncRefinement` |
| `ConfigSync` | rows, version, memory, watchers, start-up of processes on one SQLite file | `MCConfigSync`, two runs | `ConfigSyncProofs` |
| `ClientBootstrap` | an owner, its internal API, clients that start and poll | `MCClientBootstrap`, one run | |
| `TileCache` | the cached tiles of one layer, tile requests, invalidation, browsers | `MCTileCache`, two runs | `TileCacheProofs` |
| `LayerTiles` | the tiles and versions of a catalog of layers, composite and category tiles | `MCLayerTiles`, one run | `LayerTilesProofs` |
| `TileQuery` | one request from its parameters to the rows: keys, filters, plugins, bindings, cache | `MCTileQuery`, two runs | `TileQueryProofs` |
| `RwLocks` | fair read/write locks and tasks that follow lock scripts | with `HandlerLocks` | `RwLocksProofs` |
| `HandlerLocks` | the lock scripts of mvt-rs's handlers | `MCRwLocks`, `MCRwLocksOrdered`, two runs | `RwLocksProofs` |
| `AdminStore` | layers, styles, categories, groups and users: their rows, their lists in memory, the references between them | `MCAdminStore`, two runs | `AdminStoreProofs` |

`ConfigSync` implements `ReplicatedConfig`. The other modules are independent: each leaves
out what the others model and says what it takes for granted. `TileCache`'s `Reload` is what `ConfigSync` shows a watcher to do;
`ConfigSync`'s locks are the two it needs, `RwLocks` has all of them; `AdminStore` has the
edits of one process in full, of which `ConfigSync` keeps the order of row, bump and memory.

### ConfigSync

The content of a state is the number of the last edit it reflects; edits are numbered
as their rows are committed. `db`, `version` are SQLite; `mem`, `up`, `admin` belong to
a process and its requests in flight; `wpc`, `known`, `current`, `snap`, `todo` are the
locals of `start_config_watcher`.

* `WriteRow`, `Bump`, `BumpFails`: the two statements of every function of `config/`
  that writes. Between them other processes run.
* `UpdateMemory`, `ReadBack`, `ReadBackFails`: memory of the serving process. Three
  disciplines are in the code. "locked": `Catalog` and `Auth` methods are called on a
  write guard that is held from before the row is written. "unlocked": `Category` and
  `Group` write first and take the lock afterwards. "reload": styles are read back from
  SQLite, then swapped in.
* `FirstVersion`, `Poll`, `ReadTable`, `FetchFails`, `Swap`: the watcher. The four reads
  and the four swaps are steps of their own.
* `Crash`, `Restart`, `Load`: a process dies at any point and reads the states anew,
  one at a time; its watcher starts last.

Simplifications: `create_user` and `update_user` refresh memory before the row is
written (seen from outside only when the row fails, which the model does not let
happen); an edit of a category also rewrites the category inside the layers and
reloads the styles, here it is an edit of `categories` alone; of the state `auth`
the users are "locked" and the groups "unlocked", so the runs take one or the other.

Two updates of one "unlocked" entity on one process can reach memory in the opposite order
of their rows, and no reload repairs it, as the watcher may have seen both versions before
the late write. So `AcknowledgedIsHeld`, `WatchersCatchUp` and the refinement are claimed of
"locked" states.

### ReplicatedConfig and the refinement

`ReplicatedConfig` has what a reader of the documentation may expect of a cluster: edits
are committed, versions published, and a replica shows committed contents that are never
behind the version it has acknowledged; a crash makes it forget. Its `Show` lets a replica
go back to an older content, but not behind its acknowledgment: that is what a torn snapshot
can do.

`ConfigSync`'s instance `R` gives the mapping: the log restricted to the locked states; the
version counter; `known` as the acknowledgment once a watcher has reloaded (`synced`), 0
before; the process's memory as its view. `WriteRow` of a locked state maps to `Commit`,
`Bump` to `Publish`, `UpdateMemory`, `Swap`, the last step of a reload and `Load` to `Show`,
`Crash` to `Lose`; everything else stutters. `ImplementsReplicatedConfig` is `R!Spec`.

### ClientBootstrap

One owner and its clients, with one HTTP call each. `StartOwner` (with `init_sqlite`'s user
admin), `Listen`, `StopOwner`, `EditUsers`, `Answer` are the owner; `Send`, `Lose`,
`Receive`, `RestartClient` a client, whose answer goes to `Bootstrap` while it starts and
to `FirstVersion`, `Poll` and `Reload`, the watcher's three uses of it, when it serves. Of
the configuration only the users are kept: they decide whether the JSON of a snapshot can be
decoded (`Decodes`). Otherwise the watcher of a client takes `ConfigSync`'s steps.

### TileCache

The configuration of the layer is a generation; a tile's body is the generation whose
SQL made it; an ETag is the pair of tile and version it hashes. `mode` is "shared"
(Redis, deferred clear) or "disk" (one process, immediate clear).

* Requests: `Start` (clone of the layer), `NotModified`, `ReadVersion`,
  `VersionUnread`, `Hit`, `Miss`, `Unread`, `Store`, `StoreFails`, one step per await of
  `get_single_layer_tile` and `get_tile`.
* Invalidation: `EditLayer`, `ClearCache`, `DelayEnds`, the increment
  (`IncrementVersion` on Redis; `ReadCounter`, `CounterUnread`, `Truncate`, `Rewrite` on disk;
  `IncrementLost` on either), `List`, `Delete` one tile at a time, `Finish`, `ClearFails`.
* `Reload`, `Expire`, `Crash`.

`floor`, `bumps`, `degraded` and `stragglers` are history: the newest generation whose
invalidation has completed, the increments that were due, whether the counter has
misled anyone, and which cached tiles were written by a request whose process had
reloaded since it copied the layer.

The delay is modelled as what it stands for: the clear starts when every process has
reloaded the edit (`PeersConverged`). The code waits a fixed time, so a process that
reloads later than that is outside the model; the properties hold under this
assumption, and the violations do not need it to fail. Responses are the handler's:
the router keeps them five more seconds in a memory cache by URL
(`build_cache_middleware` in `routes.rs`), which belongs to the web framework.

A request that copied the layer before the edit can write the old tile back behind the
clear, and it stays. docs/clustering.md:53-55 hopes otherwise; `StaleTilesAreStragglers`
names this as the one way a stale tile can be left.

### LayerTiles

`TileCache` is about one key; `LayerTiles` is about who holds a key, on one process. A key
is `category_name`, so a name is modelled as the sequence of its words and `Key` joins two
of them: category `a_b` with layer `c` has the key of category `a` with layer `b_c`.

* `Ask` clones the layers of the URL (`Candidates`: a list of names, or a category), then
  `ReadVersion` reads one version after the other, `NotModified` or `FetchTiles`, then
  `LookUp`, `Store`, `LayerFails` for each layer in any order (`join_all`), and `Respond`.
* `AddLayer`, `UpdateLayer`, `DeleteLayer`, `SwitchPublished`, `RenameCategory` and
  `ClearCache` are the edits; only `UpdateLayer` (under the key of the form, `EditedKey`)
  and `ClearCache` invalidate: `IncrementVersion`, then `DeleteTiles`.
* `Restart` forgets requests and invalidations and wipes what `delete_cache_on_start` finds:
  the key in Redis, a directory with the bare name on disk (`WipedKey`).

History: `unswept` and `unbumped` are the keys a holder left without an invalidation, or
whose invalidation a restart cut off; `stragglers` the keys whose tile was written by a
request older than an edit. The properties except them, and nothing else: the code has no
other way to show a tile of another layer or to confirm an outdated one. Leaving these keys
alone is what the code does: docs/superpowers/specs/2026-07-29-admin-api-completion-phase3-design.md
calls the deletion a known gap.

### TileQuery

A text is modelled as SQL reads it: OR binds weaker than AND, so it is a sequence (OR) of
sequences (AND) of conditions. A clause is the same of literals: a text in brackets
(`Bracketed`), NOT of one (`Negated`), or the conditions of a text that stands as it is
(`Bare`). `And` joins two clauses as the code does, without brackets: the AND is between the
last conjunction of one and the first of the other. Conditions carry the numbers of their
placeholders; `ClauseHolds` is what PostgreSQL makes of a clause, its binds and a row.

The key of a parameter becomes the left side of its condition as it came, so it is SQL like
any other: its last piece is the field that is compared, `also` what it joins to that by
AND, `either` what it puts before an OR (`ConditionText`). `Tile` puts the whole behind
the WHERE of the template, of which the envelope and `IS NOT NULL` are one condition.

* `Ask`, then `Build` for one parameter after the other in any order (the parameters come
  from a HashMap), sorted into AND, OR and NOT parts and numbered as they come.
* `Hit`, or `AddLayerFilter`, `CallPlugins`, `Query`, `Answer`; `QueryFails`.
* `Forget` and `Restart`, which loads the plugins that are there now while the cached tile
  stays.

What `validate_filter` accepts is an attribute of a text, and what a plugin answers is any
of a set of answers, an error included (`call_single_filter` counts it as no answer).

### RwLocks and HandlerLocks

tokio's `RwLock` is fair: requests are served in the order they arrive, so a reader
waits behind a writer that waits. A lock is one queue of guards and requests; a request
is `Granted` when nothing ahead of it conflicts. That is the library's behaviour and
marked external. A handler is a script of guards taken and dropped; the queries in
between are left out, and `Leave` lets it return early at any point where it does not
wait, since every step has a `?` behind it; its guards are then dropped one by one.

`HandlerLocks` writes the scripts down from the source: middleware, handler and the
functions it calls, one script for the handlers that take the same guards.
`OrderedScript` has those that take the locks in the order categories, catalog, auth and
styles, `OtherScript` the rest. A composite tile and the TileJSON index check every
restricted layer they name; their scripts check two. Left out: handlers cancelled when
their client disconnects.

### AdminStore

One standalone process. `db` has what the rows say of each other: a layer's category,
groups and `published`, a style's category, a user's groups, the unique names of
categories. `mem` has the same in the lists the process serves from, where a layer also
carries a copy of its category's name. `task` has the handlers under way, each with what
it has read so far.

* Layers: `LookUpForLayer` (the category's row), `ResolveGroups` (AUTH), `SaveLayer`;
  `LayerNotFound`, `SaveLayerFails`, `DeleteLayer`, `SwitchPublished`, `EditLayerFails`.
  Row and memory are one step, made under the write guard of the catalog.
* Styles: `LookUpForStyle`, `LookUpStyleToDelete`, `WriteStyle`, then `ReadStyles` and
  `SwapStyles` (`reload_styles_cache`), each with its failure. `ReadStylesFails` also has
  the panic of `row.get("category_id")` on a style without a category.
* Categories: `NewCategory`, `PushCategory`; `LookUpCategory`, `WriteCategory`,
  `UpdateCategory` and the reload of the styles; `CopyLayers`, `CheckCategory`,
  `DeleteCategory`, `RemoveCategory`.
* Groups: `NewGroup`, `PushGroup`; `FindGroup`, `UpdateGroup`; `CopyLayersForGroup`,
  `DeleteGroup`.
* Users: `CreateUser`, `UpdateUser`, `DeleteUser` and their failures, each one step under
  the write guard of AUTH. The API pushes a new user before it writes the row.
* `Restart`: memory is loaded from the rows again, if they can be read; `init_sqlite` may
  add an administrator.

A failing statement changes nothing and ends the handler, so a failure is modelled where
it leaves something behind: the version bump behind a committed row (memory is not
refreshed then), a reload, a user pushed too early. The locks are modelled where they
matter between steps: `AuthFree`, `CatalogFree`. Ids a page or an answer may have shown
(`shown`) are what a handler can be given.

The rest of the variables is history, the exceptions of the properties: `torn`, entities a
statement failed for since the last start; `missed`, references that the deletion of their
target could not see in memory; `outdated`, layers saved with another name of their
category than memory has; `lingering`, groups that memory still lists, or lists again,
though their row is gone. A property that holds outside them says that the code has no
other way to go wrong.

## Runs

Bounds are named in each `.cfg`; a bound limits how often something may happen, never
where. Symmetry is used only where the permuted values are interchangeable and no
liveness property is checked.

| Run | Checks | Result |
|---|---|---|
| `sync_safety` | `TypeOK`, `AcknowledgedIsHeld`, `ImplementsReplicatedConfig`, `WatchersCatchUp` | holds, 440 000 states |
| `sync_restart` | `EditPropagates` with a crash | violated |
| `client_start` | `ClientStarts` | violated |
| `cache_clear` | `TypeOK`, `StaleTilesAreStragglers`, `PurgedEtagIsDead` | holds, 1 030 000 states |
| `cache_revalidate` | `RevalidatedIsFresh` | violated |
| `layer_tiles` | `TypeOK`, `TilesBelongToTheirLayer`, `ConfirmedTilesAreCurrent` | holds, 1 580 000 states |
| `tile_query` | `TypeOK`, `PlaceholdersAreBound`, `FiltersAreConjoined`, `SharedTilesAreUnfiltered` | holds, 316 000 states |
| `query_keys` | `RestrictionsHold` | violated |
| `locks_ordered` | `NoDeadlock`, `RequestsEnd` | holds, 60 000 states |
| `locks_reentrant` | `NoDeadlock` over restricted tiles | violated |
| `store_refs` | `TypeOK`, `ReferencesResolve`, `LockedListsMirrorRows`, `LayersFollowRenames` | holds, 424 000 states |
| `store_readable` | `StoreIsReadable` | violated |

**sync_safety.** Two processes, an admin request on each, two states ("locked" and
"reload"), two edits, one failure, one crash. Two edits are needed for one to be missed
and carried along by the next; the failure hits the bump, the first version, the fetch
or the style reload, the crash any point of them. `AcknowledgedIsHeld` speaks of
watchers that have reloaded once since start-up, because of what `sync_restart` shows,
and of "locked" states. `ImplementsReplicatedConfig` adds what no invariant says: a replica
never goes back behind what it has acknowledged, and shows nothing that was not committed.
`WatchersCatchUp` is liveness: a watcher that lacks a published edit gets it, also behind a
failed bump, poll or fetch and beside a crash; like `AcknowledgedIsHeld` it speaks of watchers
that have reloaded since start-up. Edits are bounded (`MaxEdits`), so none keeps it behind.

**sync_restart.** A process starts: `main()` reads the four states, an edit of the other
process commits and bumps, and only then does the watcher's task read its first version.
The edit is counted as known and is not loaded until somebody edits again.

**client_start.** An owner with its user admin, a second user, a client with the owner's
secret and one without, two edits of users, one crash, lost call or error. The owner stays
up, the client asks, the snapshot has a user and no password in it, the client cannot decode
it and asks again, for ever. In the same model without users, or with a field that can be
read back, it starts.

**cache_clear.** Two processes, a browser that keeps its response, two tiles, an edit, a
manual clear, one failure or crash, on Redis and on disk. Two tiles are needed for a
listing that misses one, two invalidations for increments that overlap on disk; a request
that outlives the clear beside one that does not may be the same browser's, as it can begin
anew. The theorems cover more browsers.

**cache_revalidate.** A request with the old layer reads the version after the increment.
Its browser keeps the old body under the new ETag and is told 304 after the clear has
completed, for as long as the version stays.

**layer_tiles.** A browser with one URL, in two settings (`Setups`): a composite tile of two
layers over Redis, and the tile of a category, of one layer at first, over disk. Two
categories, renamed to names of which one is the beginning of another's keys: of the six
keys two are the same (category `a_b` with layer `c`, category `a` with layer `b_c`), so an
edit can bring a layer under a key another one holds or has left. Two edits, enough for one
layer to leave a key and another to come; an invalidation, one layer that fails or one
restart. One browser is enough, as a stale tile under a key is left for every browser and an
ETag is the browser's own.

**tile_query.** Two requests, so that one can run while the other stores; parameters of each
logic, with several values, none, an unknown operator or a value that is refused, and with
keys that have an AND or an OR of their own or name a placeholder; layer filters with and
without an OR, or refused; plugins that answer with either, fail, come and go.
`FiltersAreConjoined` compares what PostgreSQL makes of the query with what was asked for (the
envelope, the parameters, the filter, each plugin's text), on every row of a table that
tells the queries apart. It covers keys with an OR under `or__` and `not__`, where
`SqlQueryBuilder::build` sets brackets. It is not claimed of a query in which an OR stands
without brackets: in a filter, in what a plugin answers, or in the key of an AND parameter. Nothing
sets brackets there, and even an OR in a layer's only filter takes the envelope apart. Nor is
it claimed of a key that names another parameter's placeholder (`Borrows`).

**query_keys.** What an OR in a key does to others, with a layer's filter and plugin answers that
have none. A parameter whose key puts another condition before an OR is joined by AND to the filter;
the filter then belongs to the last branch only, and the tile has rows that do not meet it.
TUTORIAL.md:635-655 and docs/plugins.md:151-160 say that both are joined by AND to what the user
asks for.

**locks_ordered.** Three tasks, the fewest for two handlers and a writer queued between
them, or for two readers that could starve a writer, in any mixture of renaming a category
(three locks, held together), deleting one (three locks, one after the other) and switching
a layer. Deadlock in TLC's sense is checked too: a task can always begin or go on. With it
TLC evaluates `HandlersAreOrdered`: which handlers keep to the order, and which do not.

**locks_reentrant.** A circle that exists in the code; it needs a writer of `AUTH` (a login
over the API is one) to queue at the wrong moment. A second circle, of the form of a layer
(`AUTH`, then the catalog) and the page behind it (the catalog, then `AUTH`), is why
`layer_form` is in `OtherScript`.

**store_refs.** Two handlers at a time, two categories and groups, one layer and style, two
users, four edits, one failure or restart (it also holds with two, in three minutes). Two
handlers are the fewest that overlap; four edits let an entity be created, used, and its
target deleted behind a third edit.
`ReferencesResolve`: a deletion leaves no reference behind that it could have seen.
`LockedListsMirrorRows`: layers and users in memory are what a restart would load, but for
an entity a statement failed for. `LayersFollowRenames`: memory's layers carry the name
memory's categories have, though renames, reloads and saves overlap.

**store_readable.** Without any failure: a deletion of a category looks at layers and styles
in memory and finds none; a style that looked its category up before commits its row; the
category's row is deleted. From then on every read of the styles panics, and so does the
next start.

Deadlock checking is off only for `ConfigSync`, `AdminStore` and `ClientBootstrap`, where
everything rests once the bounded edits have been made.

Every property of a passing run has a mutant in `PROJECT.json`: a bug put into one
definition (a lost increment, a reload recorded though it failed, a write that replaces
the other tiles, locks taken in the opposite order, readers that overtake writers) under
which TLC finds the property violated.

## Fairness

`ConfigSync`: weak fairness of every step of a request in flight and of the watcher.
tokio polls every task that is ready, and the watcher loops on a timer for ever.
Neither edits, crashes, failures nor restarts are assumed to happen; failures are
bounded, as a liveness claim under failures without end would be false. `RwLocks`: weak
fairness of each running handler's next step, which includes that a query ends.
`TileCache` has no liveness property: a clear need not complete (its task dies with the
process). `AdminStore` has none either: its handlers may fail at every statement.
`ClientBootstrap`: weak fairness of the owner's start (an operator or supervisor restarts
it), of its answers and of each client's next call and its handling, which
`bootstrap_from_owner`'s loop gives; the claim itself assumes an owner that stays up.
`LayerTiles` and `TileQuery` have safety properties only.

## Theorems

All are proved for any number of processes, requests, states, tiles, locks, layers, entities
and bounds, from the assumptions the modules name, which TLC evaluates in every run:

* `ConfigSyncAssumption`, `TileCacheAssumption`, `LayerTilesAssumption`, `ScriptAssumption`:
  the types of the constants.
* `AdminStoreAssumption`: a store has its first category, group and user; ids of different
  kinds are different (they are UUIDs), and "no row" is none of the values.
* `TileQueryAssumption`: the template has its eight binds; the field of a parameter is not
  the condition `1=0`, nor is the envelope; keys, filters and answers are texts; a layer's
  filter or a plugin's clause is text of its own, which names no placeholder beyond those of
  the template.

**`ConfigSyncProofs`.** `AcknowledgedIsAlwaysHeld`: `Spec => []AcknowledgedIsHeld`. The
property is not inductive: it says nothing of a watcher between its poll and its last
swap. The invariant `IInv` adds, for each stage, which edits must be where: an edit
committed before the version a watcher has read is in the rows it has yet to read, in the
snapshot it has read, or in the memory it has swapped; while a
handler holds the lock of a state, no newer edit of that state counts as acknowledged. `TypeCorrect` is
the type invariant.

**`ConfigSyncRefinement`.** `Refinement`: `Spec => ImplementsReplicatedConfig`. Beside
`IInv` it needs `Genuine`: what is in a process's memory, in a snapshot under construction or
on its way from a row to memory is an edit in the log (or the initial content). Without it a `Swap` could show
contents that were never committed. Each action is then shown to be a step of the abstract
specification or a stutter of its variables.

**`TileQueryProofs`.** `PlaceholdersAreAlwaysBound`: by induction over the parameters that
have been built, each condition's slots are the next numbers behind the bindings before it,
and later parameters only append. `SharedTilesAreAlwaysUnfiltered`: what is cached or kept
has the layer's own filter as its clause and no bindings; the invariant says that a request
that may use the cache has no clause of its own and no plugin's, at every point of it.
`TypeCorrect` is the type invariant.

`FiltersAreAlwaysConjoined`: `Spec => []FiltersAreConjoined`, for any parameters, keys, texts
and rows. A second invariant, `ClauseInv`, says what the parts of the user's clause mean
while they are built: for every list of binds and every row, the AND parts hold when the
text of each AND condition made so far does, the OR parts when one of the OR texts does, the NOT
parts when none of the NOT texts does. It is about meaning and not about shape, since
a key may add conditions and, under OR and NOT, branches; for the AND parts it speaks of keys
without an OR, and then they are one conjunction. With the placeholders bound, the text of a
parameter selects what the parameter asks for (`EntryMeans`), and the user's clause what
`Wanted` says (`FilterMeans`). Behind `AddLayerFilter`
and `CallPlugins` it keeps that the clause is the user's, the layer's and the two plugins'
texts, in that order. The rest is about the operators: what a bracketed, negated or bare text
means in a clause, that `And` of two single conjunctions, empty or not, holds when both do, and
that a text which names only the template's placeholders means the same behind the user's
bindings as without them. The template's conjunction comes in front in the same way.

**`LayerTilesProofs`.** `TilesStayWithTheirLayer` and `ConfirmedTilesStayCurrent`. The first
is not inductive: a tile under a key nobody holds may come into view when a layer takes the
key. `TilesAreHeld` therefore speaks of every key with tiles, held or not: they are the
holder's, or an invalidation of the key is under way, or the key is one of the exceptions.
For the second, an entry of an ETag is `Vouched` for if its version is in the past, or the
layer it was read for still has its key and configuration, but for the exceptions; that
holds of each version from the moment a request reads it (`RequestsAreVouched`), and of the
copies browsers keep (`CopiesAreVouched`). A new holder, a new configuration or an
invalidation either leaves it so or comes with a bump that is due. `TypeCorrect` needs that
a request reads one version for each layer and ends with one part for each.

**`AdminStoreProofs`.** `ListsAlwaysMirrorRows` and `LayersAlwaysFollowRenames` follow from
the write guards, which make row and memory one step for layers and users, and from what a
handler has looked up. `ReferencesAlwaysResolve` needs the most: between its look at memory
and its statement, a deletion relies on what it saw (`DeletionsLooked`: whatever refers to
the category or group now is among the references it could not have seen), on ids being
shown before anything can refer to them (`RefersToShown`), and on memory knowing every row
and group that was ever shown (`ShownRowsAreListed`, `GroupsAreKnown`). `NewIdsFit` says
that an id between its row and its list is with one handler. `TypeCorrect` is the type
invariant, with what each handler carries.

**`TileCacheProofs`.** `StaleTilesAreAlwaysStragglers`: `Spec => []StaleTilesAreStragglers`.
The invariant follows an invalidation: what it has still to list or delete may be old,
what it has deleted can come back only from a straggler, since every process had reloaded
before the clear began. `PurgedEtagsStayDead`: `Spec => PurgedEtagIsDead`, from an
invariant that ties the counter to the increments that were due and every ETag to the era
in which its version was read. `TypeCorrect` is the type invariant.

**`RwLocksProofs`.** `OrderedHandlersDoNotDeadlock`: if there is a level for every lock such
that each script takes a lock only while all it holds are of a higher level, then
`Spec => []NoDeadlock`, with fair queues, any number of tasks and early returns anywhere.
`InductiveInvariant` says that the queues hold exactly what the scripts have taken and not
dropped, each once, and that a waiting handler stands right behind its last request. In a
deadlock, take the lowest lock anybody in it waits for and the first such waiter in its
queue: what is ahead of it is a guard, and the guard's owner waits for a lower lock.
`ServerDoesNotDeadlock` is the same of mvt-rs itself: a process that runs the handlers of
`OrderedScript` (24 scripts), any number of each at a time, with the four locks of main.rs. Its
hypothesis, that each script is ordered, is proved by putting scripts together
(`OrderedServer` names the locks and the handlers; `Followed`: behind a script that holds nothing at its end, an ordered one may follow).
The other seven scripts, those of the layer form, the page for a new layer and restricted
layers, are not ordered, which TLC evaluates (`HandlersAreOrdered`), and `locks_reentrant`
shows what follows.

Every safety property of the passing runs is the subject of a theorem. Only model-checked:
`WatchersCatchUp`, `RequestsEnd` and `ClientStarts` (liveness under fairness is out of the
prover's reach) and all violations. The theorems about `AdminStore` and
`LayerTiles` say nothing beyond the exceptions their properties name.

## Not modelled, and why

* In `AdminStore`: names and keys of layers and styles, names of groups (and their copies
  in users and layers, which a rename of a group leaves behind), emails, the other processes
  of a cluster, whose watchers can carry a row into memory that its own handler did not.
* In `LayerTiles`: expiry, failures of the cache and processes that lag (`TileCache` has
  them for one key), restricted layers, zoom limits.
* In `TileQuery`: columns that are NULL (a NOT of an unknown comparison), brackets and quotes
  in a key that are not paired (a key is taken as a text that is complete on its own), the casts of
  IN lists, the rest of the SQL template, the random sample of `max_records`, what a script
  computes. `validate_filter` and `normalize_name` are functions of characters.
* In `LayerTiles`, `AddLayer` and `UpdateLayer` look their category up and write the layer in
  one step (api/catalog.rs:155, html/admin/catalog.rs:210 look it up before), and
  in `AdminStore`, `CopyLayers` has the lookup of html/admin/categories.rs:164 and the copy of
  models/category.rs:94-96: a rename between lookup and write is `AdminStore`'s subject, and the
  deletion uses the copy only.
* In `ConfigSync`, a panic of the fetch (`row.get` on a dangling row, see `store_readable`): it ends
  the watcher's task, and its process would not reload until it starts again.
* The lifetime of sessions and tokens, and access to restricted layers.
* Half-written tiles on disk and a `SET` without its `EXPIRE`: one tile write is one step.
* Library behaviour: sessions, tokens, password hashes, the response cache, the rate
  limiter, connection pools.
* Templates, translations, metrics, settings: input and output without a protocol.

## Plan

Every component with a protocol of its own has a module, and every safety property a
theorem. What would come next:

1. A safety property of `ClientBootstrap` for clients that do serve.
2. An abstract specification of the tile cache which `TileCache` implements.
