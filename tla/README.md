# cxpak in TLA+

cxpak indexes a repository and answers questions about it: once from the
command line, or from a resident process (`cxpak serve --mcp`, `serve`, `lsp`,
`watch`) that keeps its index fresh while files change. The index itself is the
work of pure functions. What is hard is everything around it: an index shared by
threads that each replace it, edits that arrive through a bounded channel, graphs
brought up to date by edge deltas, caches on disk written by several processes,
a client that respawns its server, and one server process per repository that
sessions start, share and abandon at any moment. These modules specify that part,
and the two algorithms whose outcome depends most on the order of their steps.

All paths below are relative to the repository root.

## 1. Inventory

| Component | Source | State it keeps | Operations | Interacts with | What makes it correct | Module |
|---|---|---|---|---|---|---|
| MCP readiness cell | `src/commands/serve.rs` | one `Arc<RwLock<IndexReadiness>>`, `ConventionsStatus` | first build, mining and republish, enrichment, batch, overflow rebuild, snapshot | watcher, caches, embeddings | a snapshot never changes; no file is shown in an older version, and none leaves without a cause; embeddings fit their index; `Building` ends; every edit is served, or is a named loss | `ReadinessCell` |
| Shared index server | `src/daemon/index_server.rs`, `ipc.rs` | flock, socket path, pid file; client count, idle and failed clocks | discover, spawn, probe, attach, accept, idle and failed exit | sessions, the cell | one server in service; an exit strands nobody; slots are counted; every session gets a backend; unused servers end | `IndexServer` |
| Session over the server | `src/commands/serve.rs` (`SharedSession`) | backend: unresolved, remote, local | first call, fallback | server, cell | falls back once, never half way | `IndexServer` |
| File watcher | `src/daemon/watcher.rs`, `mod.rs` | bounded channel, overflow flag | notify callback, drain, `collect_debounced`, `take_overflow` | cell, HTTP, LSP, `watch` | an event is taken in, or the flag is set | `WatchedIndex`, `ReadinessCell` |
| HTTP server, LSP server, `watch` | `src/commands/serve.rs`, `src/lsp/`, `src/commands/watch.rs` | an index, its graph, a watcher | debounce, batch, delta or rebuild, overflow rebuild | file watcher, graph | what differs from the disk is on its way | `WatchedIndex` |
| Core index, dependency graph | `src/core_graph/`, `src/index/` | two adjacency maps | `add_edge`, `remove_edges_for`, `rebuild_graph`, `rebuild_graph_delta` | all | a delta is a rebuild; the maps mirror each other | `DependencyGraph`, `GraphBuild` |
| Derived cache, post-commit hook, git | `src/cache/mod.rs`, `src/commands/hook.rs`, `src/git/mod.rs` | `derived.json`: fingerprint, graph, `base_commit` | load by fingerprint, stamp, save, load for delta | builds, mining, the user's edits and commits | a hit is for the content it names; a stamp names its tree; a delta equals a full build | `DerivedCache` |
| Cache files, artifact store | `src/cache/mod.rs`, `src/cache/artifacts.rs` | `cache.lock`, the files and their temporary names | lock, load, merge, write, rename | every process of a repository | concurrent updates merge; no reader sees half a file | `CacheFile`, `MergedStore` |
| RMCP client | `src/client.rs` | connection, child, `SpawnBackoff` | connect, call, poll, evict, drop | MCP server | gives up after three useless children, and only then; leaves no child | `RmcpClient`, `ChildSlot` |
| Token budget, degradation | `src/context_quality/degradation.rs`, `pack_context` in `serve.rs` | none across a call | select, allocate, degrade, drop, answer | index | detail is given up in order, and only as needed | `PackContext` |
| Blast radius | `src/intelligence/blast_radius.rs` | none across a call | search, rank, categorise | graph | all dependents, nothing else, at their risk | `BlastRadius` |
| Conventions, git mining, embeddings, schema | `src/conventions/`, `src/embeddings/`, `src/schema/` | none | extract, mine, embed | cell, graph | | parts, in the modules above |
| Relevance, auto context, other intelligence, scanner, parsers, plugins, capability, visual, output, bench, CLI | rest of `src/` | none across a call | | | | none (section 6) |

Hard behaviours: the threads of the cell interleave freely and publish with three
different disciplines (unconditional write, compare-and-swap, in-place mutation);
events may be dropped; files are read one at a time under an editor's hands; a rebuild
may fail or panic; HEAD, the tree's state and the cache are read at different
moments; a process crashes with the lock or half a file; a server dies or retires
while a session is connecting; a call's future is dropped at any await; a counter
and a timer are updated in two steps. `PROJECT.json` lists each hazard at its line.

## 2. Modules

Dependencies: `FreshIndex` is the abstract specification of `ReadinessCell`,
`MergedStore` that of `CacheFile`, `ChildSlot` that of `RmcpClient`. `GraphBuild` extends `DependencyGraph`;
`WatchedIndex` and `DerivedCache` extend `GraphBuild` and are two compositions of
the graph with the processes that change it. `IndexServer`, `RmcpClient`,
`PackContext` and `BlastRadius` stand alone. Each `MC...` module instantiates one of
them for TLC, each `...Proofs` module holds its theorems.
Definitions under a comment `Mutant:` are plausible mistakes in the definition
that follows; no specification uses them. Each property is known to fail when its mutant
takes the place of the definition.

### FreshIndex: what a session is promised

Five variables: the version of each file on disk, the files with a reported removal that is
still to be applied (`removals`), the content last served, the version of each file that was last shown,
and whether calls are answered at all. `Serve` may show of a file only a version that is
no older than any shown before and no newer than the disk (`MayShow`). It may leave a file out only if it was not there, if it was
edited since, or if a removal is due (`MayMiss`): a removal that was reported before the file came back takes it out again. `Withdraw` stops
answering; `Discard` ends a batch without effect. There are no threads, locks or references in it.

### ReadinessCell: the cell of `serve --mcp`

An index is reduced to what the properties tell apart: `content` (the version of
every file it was built from), `conventions` (the content its file patterns were
extracted from, and whether its git-mined half is the prior snapshot's or mined)
and `embedded` (the content its embeddings were computed from). An `Arc` is an
identity from `ArcIds`; every holder keeps the identity together with the index it
sees through it, so that mutating a shared allocation shows as two holders that
disagree.

| Code | Model |
|---|---|
| `IndexReadiness` cell, `ConventionsStatus` | `tag`, `arc`, `index`, `status` |
| `derived.json` | `derived`: fingerprint and content of the graph |
| working tree; notify callback, channel, overflow flag | `disk`, `form`, `Write`, `Delete`, `MoveAway`; `Report`, `watching`, `chan`, `overflow` |
| `build_index_pending_with`, `classify_reported_outcome` | `BuildReadFile`, `BuildPublish`, `BuildFail` |
| deferred mining, `republish_conventions_with`, `republish_in_place` | `TakeMiningBase`, `SkipMining`, `Mine`, `MinePanic`, `RepublishInPlace`, `RepublishClone`, `RepublishSwap`, `RepublishLastResort` |
| `enrich_ready_with_embeddings`, `publish_ready_enriched` | `TakeEnrichBase`, `EnrichNothing`, `EnrichPublish` |
| `spawn_mcp_watcher`, batch | `WatcherWake`, `InstallWatch`, `CollectDebounced`, `TakeBatchBase`, `ApplyBatch` (`Applied`), `ApplyNothing`, `PublishBatch`, `WatcherPanic` |
| `spawn_mcp_watcher`, overflow | `TakeOverflow`, `RebuildReadFile`, `RebuildPublish`, `RebuildFail` |
| `snapshot_ready_index` and the end of the handler | `CallBegin`, `CallEnd` |

Files are read one at a time in both builds, so an edit may fall between two
reads. A file that is missing or cannot be read is left out of a build, and so is one that does not settle,
which takes an edit while the build runs. A batch is a set of events of two kinds, as `classify_changes` has them. Removals are
applied first and without a look at the disk; then the written files are read; one that cannot be read keeps the entry the
copy has. If nothing was removed or read, the update count is 0 and nothing is published (`ApplyNothing`).
A batch's files are read in one step here (`WatchedIndex` reads them one by one).
History variables: `served` and `shown`, the content last made queryable and the version of each
file that last was; `unseen`, the files whose last edit no watch was there to report; `moved`, those whose absence was
reported as a modification; `outrun`, those that a rebuild read while their removal was still in the channel; `touched`, those
edited since a rebuild began.

Abstracted: an edit and its event are one step, and so is the installation of the
watch; the derived fingerprint is the content alone (`DerivedCache` adds the HEAD
commit). Left out: lock poisoning and the shutdown
flag; files over the size that builds accept (`CXPAK_MAX_FILE_BYTES`, `index/mod.rs:96`), which a batch reads all the same
(`watch.rs:276`; they are left out of `WatchedIndex` too), and reads of a good file that fail once; the artifact store saved at the end of the build is `CacheFile`'s. The `already_fresh` checks of
the republish are left out as well: the status is local to the build thread,
which sets it once.

### IndexServer: sessions and servers

A client is a session with a program counter through `connect_for_session` and
`ensure_server`; a server is a process with one through `run_index_server`; each
pair has a connection thread. The file system is the flock (`lock`), what the socket path
names (`sock`: who bound it, who last changed its mode, which is what
`FileIdentity` distinguishes) and the pid file. `link` is the server at the other
end of a session's stream, `conn` what the server has made of it, `reply` the
handshake reply not read yet.

| Code | Model |
|---|---|
| `SharedSession::tools_call` | `FirstCall`, `FallBack`, `RequestTimeout`, `EndSession` |
| `lock_exclusive` with a wait | `TakeLock`, `LockTimeout` |
| `ensure_server` | `Probe`, `RemoveStale`, `SpawnServer`, `DiscoveryError`, `PollConnect`, `PollExited`, `PollExpired` |
| `client_handshake`, one retry | `Attach`, `AwaitClosed`, `AwaitTimeout` |
| start of `run_index_server` | `Bind`, `Chmod`, `Identify`, `WritePid`, `Die` |
| its loop | `LoopAccept`, `NotDue`, `DecideDue`, `TryLock`, `DrainOne`, `StayOn`, `DecideExit`, `UnlinkIfOurs`, `RemovePid`, `ExitDone` |
| connection thread, `ClientGuard` | `ServerHandshake`, `GuardCount`, `GuardTimer` |
| `idle_since`, `failed_since` | `IdleElapses`, `GraceElapses` |

A process that dies or a session that is killed gives up its lock and its streams
and leaves its files. Timeouts and elapsed periods are steps that may happen whenever
their guard holds. `abandoned` is a history variable: servers whose spawner
let go of the lock before they had bound. Left out: the opt-out switch, errors of
`accept` itself, a lock file the exiting server cannot open, a connect that blocks on a
full backlog, and the requests on an attached connection (only its end is there).

### DependencyGraph and GraphBuild: the graph and its two updates

`DependencyGraph` is the typed file graph: `edges` and `reverse` as two separate
sets of triples, `AddEdges`, `RemoveEdgesFor` as the code walks them, `ContainsNode`,
and import resolution (`FirstIn`: the first candidate path that is indexed).
`GraphBuild` adds what `finish_build` computes: `Bridges` (a call of a route that one other
file serves), `SchemaOf`, `FullGraph` (`rebuild_graph`) and `DeltaGraph`
(`rebuild_graph_delta`), with the test `Structural` that decides between them.
A content is what those analyses see of it; of the detected bridges only HTTP routes
are there, the other kinds (gRPC, FFI, commands ...) being added and removed in the same way.

### WatchedIndex: HTTP, LSP and `watch`

One process (`kind`) with its index, graph and event loop, and an editor.

| Code | Model |
|---|---|
| notify callback, channel, flag (`daemon/watcher.rs`) | `Report`, in `Write`, `Delete`, `MoveAway`; `chan`, `overflow` |
| `FileWatcher::new` | `Install`, `InstallFail` |
| `collect_debounced` (http), one drain (lsp), the cap (watch) | `Receive`, `ReceiveNothing`, `DrainHttp`, `DrainLsp`, `DrainWatch`, `DrainWatchCap` |
| `classify_changes`, `apply_incremental_update` | `StartApply`, `ReadModified` |
| `process_watcher_changes`, swap | `Collected`, `Publish` |
| `take_overflow`, `build_index` | `TakeOverflow`, `ReadRebuild`, `SkipUnsettled`, `RebuildPublish`, `RebuildFail` |

Time is reduced to slices: a debounce may end after any of them, and the watch command's
cap is `MaxSlices`. `touched`, `dropped`, `moved`, `outrun` and `lost` are history
variables: they name the ways an event can be without effect, which `Excused` lists.

### DerivedCache: builds, the hook and the cache they share

The user edits and commits; builders and hook runs are processes with a job each. A job scans,
reads files one at a time, then HEAD, then the tree's state, then loads or saves; anything may happen in between.

| Code | Model |
|---|---|
| the working tree, commits | `disk`, `commits`; `Edit`, `Commit` |
| `working_tree_clean`, `changed_paths_in_head`, `head_parent_oid` | `Clean`, `ChangedInHead`, `RemovedInHead`, `HeadParent` |
| `build_index_pending_with` | `StartBuild`, `Read`, `BuildHit`, `BuildMiss`, `BuildSave`, `BuildDefer` |
| `PendingConventions::mine` | `MineSave` |
| `run_post_commit`, `build_artifact` | `StartHook`, `Read`, `HookHead`, `HookParent`, `HookClean`, `HookGraph` |
| `persist_derived_cache` | `HookStamp`, `HookSave` |

Abstracted: each file is read once (`read_indexable_settled` reads one twice if it changes), history is linear, what is
staged is committed at once, a load and a save are one step each (`CacheFile` shows why
that is sound). `sound`, `delta`, `ends` and `replaced` are history:
whether the tree stood still during the job, and what its graph was made from.

### CacheFile and MergedStore: one file, many writers

`CacheFile` has the three files that are written under a fixed temporary name and
renamed: the artifact store and `derived.json` under `cache.lock`, `graph.edges` without a
lock. Names, inodes, the two halves of a write, failed writes and crashes are steps:
`Acquire`, `LoadMerge`, `Open`, `WriteFirst`, `WriteSecond`, `WriteFail`, `Rename`,
`Crash`. `MergedStore` is the promise of ADR-0210: every save that ends merges its batch, once,
into all that was saved before; `Merged` is `merge_store_entries` and the call sites of
`PendingStore::save`.

### RmcpClient and ChildSlot: calls over a child

| Code | Model |
|---|---|
| `call`, the connection under the mutex | `Enter`, `UseConn`, `GiveUp`, `SpawnFail`, `Spawn`, `HandshakeDone`, `HandshakeFail` |
| `call`, the polling loop without it | `Send`, `ReceiveIndexing`, `ReceiveText`, `ReceiveJson`, `StoreServed`, `CallFail` |
| `call`, a broken connection; `SpawnBackoff::record_exit` | `Evict`, `RecordExit` |
| a dropped future, `Drop` | `Cancel`, `Close` |
| the child | `ChildAnswers`, `ChildEnds` |

A connection is the number of the spawn attempt it came from. `closed` is set by `Drop`, which
no call can outlive; the check for it in a call is therefore unreachable. `exits` and `some` are history.
`ChildSlot` is what the calls together are to promise, with no calls in it: one slot whose child starts, is ready, serves and is lost, and
the strikes of `SpawnBackoff`. It speaks of the child in use: one that was given up may still be ending while the next one starts
(`NoChildLeft` says that each child that runs on has an owner). `ChildNow` is the mapping: who holds the mutex over a handshake makes the slot `starting`,
a connection makes it `ready`, and its flag is what the child is remembered for.

### PackContext and BlastRadius

`PackContext` is `allocate_with_degradation` step by step, a rendering and the check of the total
each, between the selection of targets and the answer of `pack_context`. A file is its token counts; symbols that
render to 0 tokens are taken for none (the code asks the symbols for the content and their tokens for the count).
`BlastRadius` is the queue of `compute_blast_radius`, one entry or edge a step, with the
order of edges given by `Edges`; `Linked` are the files that `test_map` may name, whose idea of a test path is not this file's; `Reach`, `Distance` and `Nearest` are the reference
definitions its outcome is compared with.

## 3. Runs

| Run | Instance | Shows |
|---|---|---|
| `Cell` | 2 files, 3 edits, channel of 1, 1 call, 5 allocations | `TypeOK`; `SharedArcsAgree` (the in-place republish changes nothing anyone else holds), `EmbeddingMatchesIndex`, `BatchBaseIsCurrent` (a batch changes the files of its events and no others); the refinement `ImplementsFreshIndex`; under fairness `LeavesBuilding`, `WatchedEditsServed` (every edit gets there, but for those of `Excused`), `MinedAreServed` (liveness) |
| `Server` | 2 sessions in different environments, 2 servers, cap of 1 | `TypeOK`, `ClientsCounted`, `OneServerUnlessAbandoned`, `IdleExitStrandsNobody` |
| `ServerLive` | 2 sessions, 1 server | `SessionResolves`, `ServersRetire` |
| `Watched` | 3 files, 3 edits, channel of 1, 1 slice, all three kinds | `GraphMirrored`; `DeltaExactOffBridges` (a delta gives a file the edges of a rebuild); `StaleIsPending` (what differs from the disk has its event under way, or is a named loss); `ReportedIsIndexed` (and gets there) |
| `Derived` | 2 files, 2 edits, 3 commits, 1 builder and 1 hook, each again and again | `StampedIsCommitted`, `HitIsHonest`, `DeltaImportsExact` |
| `CacheFiles` | 3 processes, 2 paths, all three files | `NeverTorn`, `SitesMatch`, the refinement `ImplementsMergedStore`, `SavesEnd` |
| `Client` | 2 callers, 2 strikes, 3 spawns, 2 polls | the refinement `ImplementsChildSlot`, `NoChildLeft`, `CountedOnce`, `NewerConnStays`, `ServedIsNoStrike`, `CallsReturn` |
| `Pack` | 3 files, 3 sizes and 2 ranks for each, 9 budgets, 7 requests | `SelectedLast`, `LowestFirst`, `OverOnlyAtTheFloor`, `AnswerFits`, `GivesUpOnlyWhenOver` |
| `Blast` | 6 nodes, every subgraph of 12 edges, depths 0 to 3, 2 rankings | `BackedByEdges`, `AllDependents`, `WorstOfTheNearest`, `StrongIsDirect` |
| `HookDelta`, `WatchedRemoval`, `PackDropped` | as above or smaller | one statement of the repository each that the code does not keep |

Why the bounds are enough.

- `Cell`: with two files a build or rebuild can read one before and the other after an edit,
  and a batch can hold one and not the other. Three edits and a channel of one reach an overflow, an edit
  during the rebuild and a batch after it; each compare-and-swap of the republish that is lost takes a batch, and a batch an
  edit, so three edits lose all three attempts. One call in flight is one more strong reference than the threads hold,
  which is what the in-place republish depends on. `EditsOf` gives one file an edit of any kind and then a write (it comes
  back, can be read again, or is changed twice), which is all that an overtaken removal, a spoiled file or a skipped read needs,
  and the other one write; both are texts at the start (`StartForms`). The proofs cover any number of edits of any kind. Each
  exception of `Excused` and `MayMiss` is reached: without it the run fails. Five allocations are one more than can be referred to at once
  (`EnoughArcs`, evaluated by TLC and assumed by the proofs).
- `Server`: two sessions and a cap of one give a full server, a rejected environment, a race for the lock
  and a session that connects while a server retires; two servers give a successor while the first is still
  ending; a third would follow the second as it followed the first. Servers are interchangeable (symmetry). `ServerLive` has
  one server because the question is whether a session or a server can be stuck, not who follows whom.
- `Watched`: three files are an importer, what it imports and a candidate that appears before or disappears; the start
  trees have a bridge, or a schema. Three edits are a deletion, a creation and a change between a rebuild's reads; a
  channel of one loses the second event; one slice reaches the watch command's cap.
- `Derived`: two files carry an import and what it resolves to. Three commits are a stamped base, a delta on it and a delta on that; two
  edits and one builder beside the hook change the tree and the cache between any two of the hook's reads. The
  proofs cover what is larger.
- `CacheFiles`: two writers race, a third comes between or after a crash; one path changes and one is no longer scanned.
- `Client`: two callers fail on one connection while a third attempt is made; strikes reach their limit with a spawn left.
- `Pack`: two dependencies and a selected file, or the reverse, for every order of priorities with ties;
  one size has symbols that cost more than the text, one has symbols that grow at a lower level, one has no symbols. The
  budgets lie between all sums that occur.
- `Blast`: two changed files, two files in a cycle, a column node, a test; a file has edges of different types from different
  depths, which is where the order in the queue could matter; `test_map` may name the test and a file. The larger depths reach every path of the graph.

Deadlock is not checked: the systems come to rest when no one edits, calls or
connects, or when a save or an answer is done. What should not come to rest is stated as liveness.

Fairness. The build thread and the watcher thread of the cell are operating-system threads whose
loops end only where the code returns: `FairSpec` of `ReadinessCell` is weak
fairness of each. No edit has to happen and no call has to start or end.
In `IndexServer` the steps a session takes by itself, the server's loop, the connection
threads and the idle clock are weakly fair; first calls, ends of sessions, deaths,
failed builds and the timeouts of a peer that does not answer are not.
`SessionResolves` holds without relying on the handshake
timeout: a server never waits for the lock that the session holds.
In `WatchedIndex` the loop (`LoopStep`) and the installation of the watch are weakly fair; failures and unsettled reads
may happen or not. In `CacheFile` each process runs on unless it crashes, and the kernel gives a released lock to
one that waits. In `RmcpClient` a call's own steps and its timers are weakly fair,
waiting for the mutex is strongly fair (tokio's mutex is first come, first served), and a child ends at the end of its input;
a handshake does not have to succeed and a child does not have to answer.

### What the code does not keep

Three statements of the repository are refuted by a run each; `PROJECT.json` quotes them.

- `ArtifactIsFull` (run `HookDelta`, `src/commands/hook.rs:273`): a commit that takes a route away
  from its handler's file leaves the caller's bridge in the artifact and in the cache, since the delta redoes the edges of the files the
  commit changed and no others.
- `OnDiskIsIndexed` (run `WatchedRemoval`, `src/commands/serve.rs:1776`): the overflow rebuild reads a file's new content while
  its old removal is still queued; the next batch takes the file out of the index.
- `DroppedAreGone` (run `PackDropped`, `src/commands/serve.rs:4440`): a dependency that the allocation drops is answered with its
  whole text.

The properties that do hold name these and the following as exceptions. Each can be seen in the models, by
stating the property without the exception:

- The cell: the watcher writes its batch without a compare, so a batch that cloned the index before the mining was
  republished puts the prior conventions back under the status `Fresh` (`serve.rs:3397`; `MinedAreServed` says
  that mined conventions reach the cell, not that they stay). The deferred mining saves the analysis of the index the cell
  holds by then, perhaps edited, under the fingerprint of the files the build had read (`serve.rs:281`;
  `replaced` in `HitIsHonest`). A panic in the overflow rebuild ends the watcher and leaves `Building` (`serve.rs:3351`).
  Edits between the build's read and the watch are served by nobody (`serve.rs:3307`; `unseen`). The removal that the run
  `WatchedRemoval` shows for HTTP happens here too: one that is still in the channel when an overflow rebuild reads the file's new
  content takes it out of the index again (`serve.rs:3351`; `outrun`, `MayMiss`). A rebuild leaves out a file that it finds unreadable or that does not settle, until
  its next event; a batch keeps the entry of one that it cannot read or that was moved away (`watch.rs:276`; `moved`).
- Stamps and keys: an edit or a commit between a build's reads and its look at HEAD (`serve.rs:588`) is excepted by
  `StampedIsCommitted` and, with the late mining above, by `HitIsHonest`; no property covers those two races.
- Servers: a spawner gives up the lock before its child has bound, and the next session takes the late
  socket for a stale one and starts another server (`index_server.rs:340`; `abandoned`). The last guard's
  drop lowers the count before it restarts the idle timer (`index_server.rs:509`). `failed_since` is never
  reset (`index_server.rs:581`).
- Watch loops: a failed HTTP rebuild has consumed the flag and the batch (`serve.rs:1785`); the watch command drops the slice it has
  drained at its cap (`watch.rs:49`); LSP and watch never read the overflow flag (`lsp/backend.rs:327`); a file
  moved away is reported as modified, and a path that cannot be read keeps its entry, so the entry stays (ADR-0166, line 47, says
  "Renames present as delete + add → full rebuild"). These are the disjuncts of `Excused`.
- Deltas: a path that is a node only because a bridge ends in it hides that it is new, so importers keep what
  they resolved to before (`index/mod.rs:752`; `DeltaExactOffBridges`). The working tree counts as clean with untracked files in it
  (`git/mod.rs:95`), which the hook's scan sees and the commit does not name: a delta misses
  what other files would now resolve to (`hook.rs:263`; `AsCommitted` in `DeltaImportsExact`).
- `graph.edges` is written under a fixed temporary name without a lock (`hook.rs:337-345`): two hooks at once can put half a
  file in place (`NeverTorn` excepts the kind).
- The budget: the fast path compares the texts' tokens and answers with symbols, which may be more; files without symbols count
  nothing and are answered whole (`AnswerFits` says what is left). A file that is selected after another
  selected file pulled it in stays a dependency (ADR-0073, line 56), and may be dropped; `SelectedLast` is about the role.
- Blast radius: a file with a weak edge from a changed file that is also reached over two strong ones is listed as transitive
  (ADR-0084, line 19, gives direct dependents priority); `StrongIsDirect` is what holds.
- The client: a value that arrives while another call evicts the connection comes too late for the exit
  to be no strike, as long as the flag is not set; the recorded pid is signalled after the child may have been reaped.
- HTTP clients share one snapshot slot (`serve.rs:2220`): a `context_diff` is against whichever client asked last.
- The cache directory of a workspace named `root` is that of the whole repository (`cache/mod.rs:191`).

## 4. Proofs

The theorems hold for every number of files, edits, calls, sessions, servers, processes and commits, every
channel bound, cap, graph, import relation and budget, under the named assumptions of the modules, all of which TLC
evaluates on the instances: `CellAssumption`, `EditorAssumption`, `NoneAssumption`, `EnoughArcs`; `ServerAssumption`; `ContentAssumption`,
`WatchAssumption`, `DerivedAssumption`; `StoreAssumption`, `SitesAssumption` (a build's entries carry call sites of their own
content or none), `ProcAssumption`; `ClientAssumption`; `PackAssumption`; `BlastAssumption`. They say
which sets are numbers, sequences and records, and that special values are not ordinary ones. Proofs are checked to the
last leaf by `tlapm` with Z3, Zenon and LS4. Each module proves that its `IInv` (or the
invariant named below) is inductive, and derives the theorems.

`ReadinessCellProofs`: `Invariance`, `TypeCorrect`, `ArcsNeverTorn`,
`EmbeddingsNeverStale`, `BatchesApplyToTheServedIndex`, `Implements`. None of the properties is
inductive. `SharedArcsAgree` needs to know of every holder that it sees what the cell sees while
the cell still has its allocation. The refinement needs `FromDisk` (what an index says of a file was read: it is no newer than the
last edit, and is text if it is that very one), `ServedIsIndex` (what was last served is what
the cell has, and what is there was never shown in a newer version), `Follows` for a batch ready to be published (`BatchFromDisk`: no file older than it was shown, none
missing without a cause), and that no one else changes the content while a batch or rebuild is under way: the build
thread publishes content once, before the watcher wakes (`BuildIsAlone`), and a rebuild starts from a
withheld cell that no one else fills (`RebuildIsAlone`, which also says that what the rebuild left out was edited since). `BatchBaseIsCurrent` is then what makes the
watcher's unconditional write safe for content, though not for conventions.
`WatcherHoldsBase`, `TouchedInRebuild` and `TriesLeft` say which references, notes and counters go with which step.

`IndexServerProofs`: `Invariance`, `TypeCorrect`, `SlotsNeverLeak`, `OneServerInService`,
`NobodyStranded`. `LockHeld` places the holder of the lock at the steps that hold it; `Links` ties a session's
stream to the server's record of it; with these an exiting server that has drained its backlog and counts no
guard has no session left, because a live one in its handshake would hold the lock
(`NobodyStranded`). `Solo` is the argument for one server, under the proviso that nothing is abandoned:
`SpawnedAwaited` (a child that has not bound is awaited by a session that holds the lock),
`UpOwnsPath` (a server that is up is the one its path names), `OwnerUpOrGone` (the path's owner
is up or dead) and `NoneBehind` (nobody removes the path of a server that is up).

`WatchedIndexProofs`: `TypeCorrect`, `MapsMirrored`, `DeltasExact`, `StaleArePending`. `GraphInv` says that the graph has,
for every file off the ends of bridges, the edges of a full rebuild, and that without a schema its nodes are indexed files or ends of bridges; so
a path that is new is no node, and a batch that is not structural cannot change what an untouched file resolves to. `WorkInv` ties the copy being made to the index
and the batch. `StaleArePending` rests on `PlaceInv` (which fields of the loop are in use), `OrderInv` (a queued removal of
a path that exists again has a write behind it) and `FreshInv` (where the event of a stale entry has got to, step by step).

`DerivedCacheProofs`: `TypeCorrect`, `StampsTrue`, `HitsHonest`, `DeltasExact`. `ReadOf` is the heart: a job during which nothing was
edited or committed has read the tree and HEAD as they still are, so a stamp put on after it saw a clean tree
names the commit its files are those of; `GraphOf` says that a graph no delta made is that of the job's files. `DeltasExact`
adds `DeltaInv`, an invariant over the whole chain of deltas: a cached graph, however many deltas made it, gives every
file off the bridges' ends the imports of the commit it is stamped with, and its nodes are files of that commit or bridges' ends, which is
what lets `Structural` see that a path is new.

`CacheFileProofs`: `Invariance`, `TypeCorrect`, `LockedFilesWhole`, `SitesOfTheirContent`, `Implements`. Only the holder of the lock is at work on
a locked file (`LockInv`), so the temporary inode is its own until the rename (`TmpInv`); what is being written is what the name holds with
one batch merged in (`ValueInv`), so a rename is one `Save` of `MergedStore` and every other step a stutter. `EntriesOfSaves` is what
that refinement says of one entry of the file: it is for the content that one of the ended saves found, and for that of the start only if none of them
has anything to say of its path; so no save is forgotten and a build of a workspace disturbs nothing outside its scope.

`RmcpClientProofs`: `Invariance`, `TypeCorrect`, `ChildrenOwned`, `StrikesCountChildren`, `StaleErrorsHarmless`, `ServedNeverStrikes`,
`Implements`, `GivenUpHoldsNothing`, `GivesUpForGood`.
One call at most shakes hands, and then there is no connection (`MutexInv`); so an attempt is in one place only and is
counted on its way out (`CountInv`); a value comes with the flag (`ServedInv`). The refinement of `ChildSlot` needs besides that a child
that shakes hands is new to everyone else (`FreshInv`), or a late value would be taken for its own, and that nobody is in a call
of a closed client (`ClosedInv`). The last two theorems follow the client past its last strike: it has no connection,
no attempt under way and no child, and nothing that still comes home, a late flag or a late failure, changes that.

`PackContextProofs`: `TypeCorrect`, `SelectedProtected`, `PrioritiesKept`, `BudgetKeptIfItCan`, `NothingGivenUpInVain`,
`AnswerWithinBudget`, `TargetsDistinct`, `SelectionComplete`. `LoopInv`: a loop leaves behind
targets at its floor, has one in hand, and has not touched those of higher priority; `OverInv`: within the loops nothing fits. Sums of
tokens are compared and never computed, so nothing about sums is needed: an answer of symbols is the very function whose sum the
allocation was checked with (`PackedInv`). `ChosenInv` is about the selection: a file is taken up only when the dependencies
of the one before it are in, so at the end none is missing, whichever files bring each other in.

`BlastRadiusProofs`: `TypeCorrect`, `ReportsBacked`, `NothingMissed`, `WorstReported`, `StrongEdgeIsDirect`, `SearchAdvances`. `QueueInv` and
`TodoInv`: what is queued or about to be comes from an edge of a visited file at one hop less. For the comparison with the reference,
`Reach`, a recursive function over `Nat`, is first shown to be what its definition says (`ReachSteps`), from the least-element principle of
the naturals; `Induction`, over sets of naturals, comes from the same principle, and the facts about levels are proved with
it. `LevelInv` is that the search goes level by level, although a file may be queued many times: the queue holds entries of two
successive levels in order (`Levels`), an entry of level n is for a file in `Reach[n]` (`Sound`) and at most one hop too far
(`AtMost`), the dependents of a file that had its turn have had theirs, or are queued or about to be (`Closed`), and of each edge that leads
further the entry still waits, or what is reported is at least as bad (`Weighed`). With an empty queue these are the three properties;
`StrongIsDirect` adds the arithmetic of a risk that is divided by hops (`TwoHops`). `SearchAdvances` says that each
step leaves lexicographically less to do (phase, changed files, files never visited, edges to queue, queue), so circles of the
graph do not keep the search; that the steps are taken is not part of it.

Model-checked only: the liveness properties (`LeavesBuilding`, `WatchedEditsServed`, `MinedAreServed`, `SessionResolves`, `ServersRetire`,
`ReportedIsIndexed`, `SavesEnd`, `CallsReturn`), since the prover cannot reason from fairness over `ENABLED`, and the three refuted
statements. Every other property that a run checks is a theorem. The type invariants of `WatchedIndex`, `DerivedCache`, `CacheFile`, `RmcpClient`, `PackContext` and `BlastRadius` are proved and not run.
Neither are `EveryEntryOfASave`, `GivenUpIsDown`, `GivenUpForGood`, `EachStepLess`, `NoFileTwice` and `TargetsAreWhatWasAsked`, which the proof modules state. No
module has a `RECURSIVE` operator; `Reach` is a recursive function.

## 5. Plan

Done: the cell, servers, watch loops, graph deltas, derived cache with the hook, cache files, client, degradation
and blast radius, with their proofs. What would come next:

1. `IndexServer` composed with a cell per server and per local session, with requests, so that a call's answer is
   related to the index of the process that answers.
2. The parse cache of the command line (`FileCache`) and `incremental_rebuild` by modification time: content that changes
   within one clock tick.
3. Rank fusion and budget filling against reference definitions.
4. Abstract specifications of `IndexServer` (who serves a session, without locks and backlogs) and of `DerivedCache` (commits and the
   graph that is kept for each), with refinements.

## 6. Not modelled

About 124 thousand lines implement cxpak, and most of them keep no state: parsers for each language, schema and API
extraction, the scanner, scoring of relevance, health, risk and conventions, prompts, renderers, the bench, and the
tests that sit in the same files. They are pure functions of one file's text or of an immutable index; a model of
them would restate the code, and TLC would check it on nothing a unit test does not. Much of their output is
floating-point scores, about which neither TLC nor the prover can say much. The share of lines that
the modules stand for is therefore small, and is the share that keeps state, runs concurrently, fails or is retried. Beyond that:

- Plugins: one load and one call each, isolated from the rest.
- HTTP and LSP handlers, auto context, the capability registry: one pass over one snapshot.
- Installation of hooks and the merge driver, which unions lines.
- Single requests on an attached connection: a timed-out request drops its connection, so there is no next one to confuse it with (`ipc.rs:311`).
- Call graph, PageRank and test map after a delta: they are recomputed in full.
- Namespaces of workspaces, `FileCache`, remote embedding providers, git log queries.
