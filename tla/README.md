# A TLA+ verification of wyrd

wyrd (formerly archai) parses a Go repository into a graph of packages and
symbols and serves it: a review UI and JSON API over HTTP, tools for coding
agents over MCP, and the command `wyrd-check` for CI. Two sorts of code are
modelled. Around the long-running daemon, which keeps one parsed model per git
worktree, caches what is expensive to derive from it and reloads both while requests
are being answered, the models are about interleavings, crashes and retries. The
readers, graphs, gates and reports are functions of one or two snapshots; their
models are about what several such functions must agree on, for every program or
document of a small family.

Paths below are relative to `src/`; `serve/` and the other package names without
a root are under `src/internal/`.

## 1. The system

| Component | Code | State it keeps | Operations | What is hard | Modules |
|---|---|---|---|---|---|
| Worktree registry | `serve/multistate.go`, `worktree/discover.go`, dispatch in `adapter/http/multi.go` | entries, cached States, loads in flight, failures, watchers | refresh, ensure-known, get, loaded, load, close, set base ref | loads run without the lock while git adds, removes and moves worktrees | `MultiState`, `WorktreeLifecycle` |
| State and model cache | `serve/state.go`, `serve/model_cache.go` | packages, overlay, bus; `go-model.json` with stamps | load, reload package or overlay, snapshot; read, validate, write | stamps are taken after the parse; crash between edit and reload | `ModelReload` |
| Watcher | `serve/watcher.go` | watched directories, pending batch | add tree, debounce, deliver | lost and late events | `ModelReload` |
| Base trees | `serve/basetree.go` | materialised commits on disk and parsed | models, materialise, evict | eviction outside the lock; shared loads | `BaseTrees` |
| Report cache and bus | `adapter/http/archmotif_report*.go`, `plugin/eventbus.go` | one entry per worktree and base ref; subscribers | get, warm, drop, build; subscribe, publish | invalidation races with builds in flight | `ReportCache` |
| Retrieval index | `retrieval/service.go`, `adapter/vindex/brute`, `adapter/lindex/bm25` | vectors, documents, graph, progress flag | load, index, refresh, save | two passes at a time; files read twice; a restart from old indexes | `Retrieval` |
| Shared vector store | `adapter/vindex/vecstore` | one map and one file per namespace | get, put, save | several daemons merge into one file | `VecStore` |
| Daemons, auto-start, MCP clients | `serve/registry.go`, `daemon.go`, `autostart*.go`, `cmd/wyrd/daemon.go`, `adapter/mcp/client.go` | global record, start lock, child, resolved address | register, resolve, spawn, stop, restart, forward, retry | record files without a lock; two daemons of one repository | `Daemons` |
| Targets, diff, apply | `target/`, `diff`, `apply`, tools in `adapter/mcp/tools.go` | frozen models, CURRENT, spec files | lock, list, use, delete, compare, patch | check-then-act on files, kills between writes, two views of the code | `ModelDiff`, `Targets` |
| Event model and plugin | `eventmodel/`, `plugins/events/` | declarations on disk | compose, validate, project, generate | rules that overlap; a search with early exit | `EventModel`, `RefCycles`, `Events` |
| Overlay, policy, gates | `overlay/`, `policy/`, `check/` | documents on disk | compose, validate, check | precedence of fragments; paths and waypoints; partial scans | `Overlay`, `Policy`, `Gates` |
| Go reader | `adapter/golang/reader.go`, `calls.go` | none | parse | dependencies, implementations and calls across packages | `CodeModel` |
| Graphs and search answers | `adapter/archmotif/exporter.go`, `retrieval/graph.go`, `query.go` | none | export, build, expand, answer | two graphs of one model | `CodeGraphs` |
| Review report and canvas | `archreview/`, `adapter/uigraph/`, `publicapi` | none | report, mark | what a branch did, from two models | `ArchReview`, `UIGraph` |
| Diagrams | `adapter/d2/`, `service/{generate,split,compose}.go` | files | generate, read, split, compose | what a round trip keeps | `Diagrams` |
| Source editing | `adapter/http/source.go` | none | save a file | reloads beside the watcher | `ModelReload` |
| Event stream, HTTP, MCP tools, renderers, embedders, git, CLI, web UI | see section 6 | | | | none |

How they interact. An HTTP request names a worktree; the registry makes sure it
is known (re-running `git worktree list` at most every two seconds), starts or
joins the load of its State, and answers or waits. A load parses (through the
model cache), starts the retrieval index in the background, is committed to the
registry, is wired to the review base, fires the "loaded" hook (the report cache
warms the default report) and gets a filesystem watcher. The watcher reloads
packages, the overlay or the target and publishes a model event on the State's
bus; the report cache and the event streams subscribe to it. A report compares the
State with the models of the merge base, which come from another State or from
the base trees. Several daemons may run on one machine; they share the global
registry, the start lock and the vector store. MCP clients find the daemon through
the registry, start one if there is none, and forward each tool call to it.
Commands (`wyrd target`, `wyrd diff`, `wyrd-check`) work on the files without the
daemon.

## 2. How the project is built

Each module is one component, `MC<module>` gives it the instance its `.cfg` checks, and
`<module>_proofs` holds its theorems (`Search_proofs` those of `Retrieval` and `VecStore`,
`Checks_proofs` those of `Targets` and `Gates`, `Report_proofs` those of `CodeReview` and
`ReportCache`, `Events_proofs` also those of `RefCycles`). Modules that a
composition needs are extended by it: `Targets` extends `ModelDiff`; `Events` extends
`EventModel` and `RefCycles`; `Gates` extends `Policy`, which extends `Overlay`;
`CodeReview` extends `UIGraph`, `ArchReview`,
`CodeGraphs` and `CodeModel` in a chain and instantiates `Diagrams`. `MultiState`
implements the abstract `WorktreeLifecycle`.

The order was that of risk: the registry, the report cache, the base trees and the
model with its watcher first (each proved), then the other state of the daemon (the
vector store, search, the registry of daemons, targets), then the functions: event
model, gates, and what is derived from Go code. Two abstract specifications one could
expect are not stated, because the code does not meet them: "a commit's models, or an
error" for the base trees (see section 4), and "the last model" for search.

What is left: two saves in the review UI from one base; a second daemon on one
repository's base trees; a proof that diagrams agree with the code; and what section 6
lists.

## 3. Modules

### `MultiState` and `WorktreeLifecycle`

`WorktreeLifecycle` is what a transport may rely on: a worktree is registered or
not, and a registered one is cold, loading, ready or failed. `MultiState` is
`serve/multistate.go`, one action per critical section of `MultiState.mu` or call
between two of them. The variables carry the names of the fields (`entries`,
`states`, `loading`, `failures`, `watchers`, `baseRef`); `None` stands for a
missing map key. A State, its `stateLoad` handle and its watcher are identified by
the load that made them, so `states[n]` is a member of `Loads`. A load's
goroutine is `stage`, `name`, `path` and `ref`:

| Action | Code |
|---|---|
| `Request`, `SkipRefresh`, `Discover`, `Recheck` | `EnsureKnown`, `refreshOnMiss` under `refreshMu`, `worktree.Discover` |
| `ApplyScan`, `EndRefresh` | `Refresh`: its critical section, and the closing of dropped watchers after it |
| `AnswerNow`, `JoinLoad`, `BeginLoad`, `WaitDone`, `Cancel` | `Get` and `Loaded` over `ensureLoad`; `stateLoad.wait` |
| `LoaderReturns`, `CommitState`, `ReadBaseRef`, `SetResolver`, `InstallWatcher`, `RegisterWatcher`, `FinishLoad` | `runLoad`, `wireBaseResolver`, `finishLoad` |
| `SetReviewBaseRef`, `Rewire`, `Close`, `CloseWatcher` | the functions of those names, before and after they release the lock |
| `RetryWindowElapses`, `DebounceElapses` | `loadRetryInterval`, `refreshDebounce`: a timer may elapse at any time |
| `AddOrRemoveWorktree` | external: `git worktree add` and `remove` |

`Paths` with one name each (`NameOf`) let a name vanish and come back in another
directory. A git failure makes `Discover` report the root alone, as
`worktree/discover.go` does. Not modelled: the display order of names, the choice
of the merge base in `ReviewBase`, log output. The loaded hook appears in
`ReportCache`.

### `ReportCache`

The cache of review reports, the goroutine that builds each (`Run`), the
subscription to a State's bus, and the readers of `/api/archmotif/report`. `entry`
is `reportCache.entries`, a build is a `reportEntry` with its goroutine, `newer[k]`
is the order of `usedAt`. `WatchModel` and `Subscribe` are the two halves of
`watchModel`; `Publish` captures the subscribers, `HandleDrop` and `HandleWarm` are
the handler's two calls. Of a model only its version is kept, of a report only
the State and the version it shows (`source`, `seen`). `told[s]` and `floor[r]` are
history: the version at the last drop, and the versions a reader's answer may
not be older than. `Load` and `Drop` stand for the registry. `run`'s critical
section and the `close` after it are one action, since only waiting readers can
tell, and a reader may always be late. Not modelled: the content of a report,
and reports of single-worktree daemons (the same cache with one State that is
never dropped).

### `BaseTrees`

`serve/basetree.go`: `loads` and `order` are the fields of `baseTrees`, a member of
`Loads` is a `baseTreeLoad` with the goroutine that fills it. `Start` and `Join` are
the critical section of `Models`; `OpenVictim`, `RemoveFile` and `RemoveDir` the
`os.RemoveAll` after it, one file at a time and without the lock; `Stat` to `Restat`
are `materialize`, `Parse`, `ParseFails` and `WriteCache` the `readAll` of a State
rooted in the directory, `CloseDone` and `Forget` the end of the goroutine, and
`Answer` and `Cancel` are `waitBaseTree`. `exists` and `tree` are the directories;
only they survive `Restart`. A load runs under the context of the caller that
started it (`owner`): once that request is over, a parse can only succeed from the
model cache. Not modelled: a second daemon of the same repository on the same
directories, the content of a model, `ReviewBase`'s choice of the revision.

### `ModelReload`

One worktree from an edit to what a subscriber sees: `State.Load` and
`ReloadPackage` (`serve/state.go`), the model cache (`serve/model_cache.go`), the
watcher (`serve/watcher.go`) and its handler (`buildHandler`), and the saves of the
review UI (`adapter/http/source.go`), which reload beside it. A source is a package
(the Go files of one directory) or the overlay document, and only its version is
kept; `own` is the version each was read from, `seen` the packages into which a
package's calls and interface edges lead, `cown`, `cseen` and `cstamp` are
`go-model.json`. Load, watcher and handler are one goroutine at a time, at `stage`; a save
takes `State.mu` for itself (`storing`, while the cache is written), between its write
(`saves`) and its publication (`unsaid`):

| Action | Code |
|---|---|
| `Scan`, `ReadStale`, `ReadAll`, `SaveAll` | `readModelCache` and `readAllUncached`: the scan, the parse and the write are three moments |
| `ReadOverlay`, `Watch` | the end of `Load`; `NewWatcher` |
| `TakeDir`, `TakeFile`, `Flush` | `Watcher.Run`: one event, or the end of the debounce window |
| `Reload`, `ReloadFails`, `Save` | `ReloadPackage`: the read, and the write with the stamps of that moment |
| `Publish`, `ReloadOverlay`, `EndBatch` | the rest of `buildHandler` |
| `SaveFile` | `saveSourceFile` up to the write of the file |
| `SaveReloads`, `SaveReloadFails`, `SaveIsNobodys`, `SaveStores`, `SavePublishes` | `reloadSourceOwner`: the owner, `ReloadPackage` in two moments, the event |
| `Cancel`, `Exit`, `Crash` | the end of the context, the drain and return of `Run`, the end of the process |
| `Write`, `Remove`, `MakeDir`, `RemoveDir` | external: editors and git, with inotify's events |

`FindOwningPackage` (`Owner`) walks up from the changed file to the nearest directory
with Go files, on the tree as it is then. `excused` is history: it marks what the
daemon cannot know, a source that changed where no watch was (while the daemon was
loading, or in a new directory), one whose last read failed, or one that came from
a cache stamped with a version nobody parsed. Not modelled: the active target, the
review settings of the primary checkout, the retrieval indexes, two Go files of
one directory as separate things, and two saves of one package at a time.

### `VecStore`

`adapter/vindex/vecstore`, by several daemons on one file. `vectors`, `dirty` and
`opened` are the fields of a cache; `snap` is what a `Save` carries from its snapshot
through `Merge` (the read of the file) to `Rename`, since no lock spans these three, and
`Fail` is an error of any of them. A vector stands for the namespace (embedder and
recipe) that computed it; the namespaces share a file name, so that only the header
keeps them apart. `stored` and `overtaken` are history: what a daemon has put into the
file, and whether another write came between its read and its rename.

### `Retrieval`

The search indexes of one worktree (`retrieval/service.go`, `adapter/vindex/brute`,
`adapter/lindex/bm25`) and the two goroutines that fill them: the full index a load starts
in the background and the refresh of a package reload, each a worker whose loops
(`remove`, `lex`, `hash`, `prune`, `cached`, `chunk`) visit one node per step. The text
of a node is the pair of the shape the model has (signature, documentation, span) and
of the version its body is read with, since the code reads the file anew; hash and
embedded text are two reads. `Embed` and `EmbedFails` are the embedder's answers; the
three files are saved one by one, and `Exit` (a stop or a crash) may come between any two.
`overlapped` is history: a refresh ran before the background index was over. Not
modelled: ranking and scores, chunks of one text.

### `Daemons`

One repository's daemons and whoever looks for them. A daemon goes through `stage`
(starting, listening, serving, closing, closed, zombie, gone) by `Serve` of
`serve/daemon.go`. A client goes through `at`: discovery, the lock, the re-check, the spawn
and the poll of `AutoStartRepoDaemon`; calls and retries of the MCP client; find, wait and
clear of `wyrd daemon stop` and `restart`. `Read` and what is done with the record are
separate steps, because no lock covers the record. A child that ended and whose parent
lives is a zombie, and `PIDAlive` takes it for alive. `crashed` and `lost` are history.
Not modelled: the per-worktree `serve.json` of old daemons, reuse of process ids.

### `ModelDiff` and `Targets`

`ModelDiff` is `diff.Compute` and `apply.Apply` on packages that map keys (a symbol with
its kind, or a dependency) to the definitions listed under them. `Targets` uses it: the
spec files of the packages, the targets made from them, the CURRENT pointer, the
daemon's MCP tools and the CLI's commands, each file of an operation a step of its own,
with commands that are killed and a daemon that restarts. A tool takes the snapshot of the
code for the code, a command the spec files when there are any. `Stored` is what YAML
makes of a definition (it drops type parameters), and pub.yaml is read over
internal.yaml. `calm` is history: nothing else changed files since the operation began.

### `EventModel`, `RefCycles` and `Events`

`EventModel` translates the composition, each rule of `Validate`, the projected graph
with the health of kinds, and the flows of the canvas. Kinds are sequences of words,
subject patterns sequences of segments, schemas sets of `$ref`s with the path of
keywords that leads to each. `RefCycles` is the depth-first search of `validateRefCycles`, one
visit per step, in any order of successors (the code ranges over a map) and with the
code's end of the search from a root at the first cycle. `Events` lets people edit the
declarations and configure source directories, and runs the search as `Validate` does.
Not modelled: the empty state schema, two files with one component id, rendering.

### `Overlay`, `Policy` and `Gates`

A document is a set of clauses, so that precedence shows as rules about sets:
composition of the root with the fragments, validation, layers by glob, what a layer may
import (`Overlay`); the rules, the graph they see, paths with waypoints, cohesion of
components, deny by default (`Policy`). `findPath` is a breadth-first search that is
written as in the code and compared with reachability. `Gates` is `wyrd-check` on documents
and imports that people edit, on all or some of the packages. Not modelled: the spelling
of globs and rules; the drift gate is `Targets`' comparison, its baseline is not modelled.

### `CodeModel`, `CodeGraphs`, `ArchReview`, `UIGraph`, `Diagrams` and `CodeReview`

A program is a set of declarations, with fields, methods, signature types and the calls
of each body. A type is the names it is built from and a shape, because the reader treats
shapes differently: `Converted` forgets the names in a slice of maps, `Unnamed` are the
types whose constants and variables depend on nothing, `Localised` takes a type of the
module's root package (`Root`) for one of the package that mentions it, and `Loaded`
looks into everything but function types. `CodeModel` is what the Go reader makes of a
program with these: dependencies in the order
it finds them, implementations by method sets with promotion (the method at the
shallowest depth of embedding), calls with the interface's implementers. `CodeGraphs` builds the typed graph that the reviews use and
the graph behind search, and answers expansions. `ArchReview` is the report, a section
at a time, and the model diff behind it: `Shape` is what `normalizeStruct` and its like
leave of a declaration (no file, no bodies, no methods of typedefs), `SymbolChanges` matches
declarations by kind and name in packages both sides have, `DepChanges` matches
dependencies by key, `ModelChanges` adds the packages one side lacks. `Spanned` is the text
under the span of a node, which a hunk must meet; `TouchedPackages` compares paths by
prefix as the code does, hence `Dotted`, the pairs of packages of which one has the path of
the other, a dot and more. `UIGraph` the canvas with its marks and the public surface; `Diagrams` what
D2 documents say and how they are read, composed and split. `CodeReview` starts with a
base, lets the worktree differ from it in a few declarations (programs that compile), and
states what these views must agree on. `FamilyAssumption` says what Go's grammar makes of
a declaration: a function is its own one method, members have different names (blank fields
apart), and a name says by its first letter whether it is exported. Not modelled: positions, doc comments, wording,
order and caps of rows, the numeric lenses of the archmotif library.

## 4. Runs

| Run | Instance | Question |
|---|---|---|
| `multistate_safety` | 3 paths (two share a name), 2 loads, 1 request, paths of one name symmetric | What may be cached, closed and committed when a worktree goes, comes back or moves under a load; single flight; refinement of the life cycle |
| `multistate_live` | 2 paths, 1 load, 2 requests, fair | Requests advance; what two requests for one load share |
| `report_cache` | 2 keys in a cache of 1, 2 builds, 1 reader, 1 change, fair | Freshness of cache and answers, failures, sharing; readers are answered |
| `base_trees` | 2 revisions in a cache of 1, 2 loads, 1 caller, 2 files, restarts, fair | Whole exports, sharing; callers are answered |
| `model_reload` | a root package and one below it, 2 edits (those of the inner one also saves), 1 stop or crash, fair | No noticed edit is lost, subscribers know the model, the cache is as new as it; edits are served |
| `vecstore` | 3 daemons (two of one namespace), 2 namespaces in one file, 2 hashes, symmetry | Vectors answer only for their namespace, are never forgotten unsaved, and leave the file only by a race |
| `retrieval` | 1 node, 2 versions of different shape, 2 edits, restarts, fair | Search follows the model once it settles; it settles |
| `daemons` | 2 daemon processes, an MCP client with 1 retry, a command, fair | One daemon per repository; clean exits take their record along; calls are answered |
| `targets` | 1 package, 2 keys, 3 shapes (one YAML cannot hold), 1 target, 1 tool, 1 command, 4 operations | CURRENT names a target; a locked target matches; an applied diff is gone |
| `events` | 3 components (one imported), 2 kinds, 3 items | A clean model is wired; two computations of health agree; every cycle is found |
| `gates` | 3 packages, all import graphs, 13 root and 6 fragment clauses, at most 2 beside module and layers | Paths are exact; scans of parts only miss; a forbid survives fragments |
| `code_review` | 8 families of programs, up to 2 or 3 differences between base and worktree | Graphs, report, canvas and diagrams agree with each other and with the program |

Why the bounds are enough. The registry's conflicts are between at most one
dropped and one current incarnation of a name, hence two loads; a second request
is needed only for what requests share. A report's conflicts are between the
build from before a change and the one after it; one change separates the two,
and a second key in a cache of one entry makes every launch evict. The base trees
are the same: with a limit of one every request of the other revision evicts, so two
loads meet in every order; the caller that leaves and comes back makes a second one
of itself. For the model, one edit makes the daemon's view old and a second one
meets it at any later moment; a save is an edit with its own reload; one stop or crash
is enough to start from what any moment left in the cache (`MaxEdits` is the last version,
and the first is 1). The inner package calls the root, and the root satisfies an interface of
the inner one without importing it. The proofs lift these safety properties to every size.

A race in the vector file needs a reader, an overtaking writer and, for the header, a
stranger: three daemons. A node's documents and vectors do not depend on other nodes
except for the graph, which is set as a whole; two edits are one before and one during a
pass, or a change and its removal. Two processes and two clients are what it takes to
violate "one daemon"; `MaxRetries` is 2 in the code, and 1 already tells the last retry
from the others; a command never forwards calls, and a client never stops a daemon. Four
operations are an edit, a lock, a second edit or a kill, and an apply. Two native
components can be edited and graded and reference each other; the third is the imported
one, which Validate does not grade. In this instance the search never ends early with nodes
that stay grey: `CyclesAreDetected` is the statement about that (section 5). The clauses of `gates` were chosen so that each op and
section meets a rule it conflicts with; two at a time, since a violation involves a rule
and at most one clause that lifts it. The families of `code_review` are each built around one feature that the
views spell differently (embedding and promotion, typedefs and channels, groups of
packages, forms of a member, files and parameters of a diagram, names that mean two
things, types whose names the reader loses, package paths that begin alike). `edits` of a
family bounds the declarations on which base and worktree differ (a rewritten one counts
twice): two are an addition with a removal, or one change of one type; `Paths` has three,
since there a package changes beside the declaration whose callers are reported.

Fairness. Goroutines of loads, builds and workers and runnable requests are weakly
fair: the Go scheduler is, and parsing, git and embedding return. Taking `refreshMu` is
strongly fair: Go's mutex hands the lock to a waiter that starves. The watcher with
its handler is one fair goroutine, and a handler of a save runs on; that a debounce window ends rests on the bound on
edits, since events that never stop coming would restart it for ever. In `Daemons`
the steps of a client are weakly fair and its time-outs strongly, since polling goes on
between two looks at the clock. Nothing is assumed of git users, editors, timers, clients,
daemons, of restarts, or of a request giving up.

### What the models say about comments and documents

The runs state what holds. Writing the models also showed places where a comment or a
document promises more than the code does; a property above is stated so that it excludes the
case, and its comment or a history variable names it.

*Registry.* A watcher registered after `Refresh` dropped its name is overwritten by that of
the name's next load and never closed (`serve/multistate.go:698`, against `:28`). A name that
moves to another directory keeps the old State (`:423`, against `:375`). A load that fails
after its worktree was removed records the failure (`:716`), which a re-created worktree
inherits although `:431` says it is retried at once. One failing `git` makes `Discover` report
the root alone, so `Refresh` drops every other worktree although `:518` promises an unchanged
set. `SetReviewBaseRef` wires a State which a load in flight, having read the old (empty)
reference, then clears again (`:155`, `:187`).

*Reports.* A build skips the subscription another one has only announced, and misses a
change (`adapter/http/archmotif_report.go:133`, against `:62`). A re-created worktree is
answered with the removed one's report (`:117`, against `:22`).

*Base trees.* A revision may be evicted while its load parses: half a tree is answered
and cached (`serve/basetree.go:90`, against `:70`). A load that writes its model cache after its
directory was removed makes a directory with only that file, which the next load takes
for the tree. A request between `close(load.done)` and the critical section after it
still inherits the failure (`:97`). After a restart the directories on disk are in no map
and are never evicted, although `:18` speaks of a cap on what is on disk.

*Model.* A reload of one package loses calls and interface edges that a full build finds
(`adapter/golang/calls.go:36`, `reader.go:1805`). The batch drained at shutdown is handled
under a cancelled context: its packages are dropped, and the cache says they are current
(`serve/state.go:456`, against `watcher.go:102`). A save whose client hangs up while it
waits for `State.mu` reloads under a cancelled context, and drops a package that the
watcher's batch has just read (`adapter/http/source.go:144`). A package whose last file is deleted is not
dropped (`state.go:440`). Files written into a new directory before its watch are missed
(`watcher.go:127`), and so are changes between `Load` and `NewWatcher`. The handler's case for
`.arch/.worktree/<name>/CURRENT` waits for events from a directory the walk skips.

*Search.* An edit inside a span that keeps its length leaves the model equal, so nothing
is refreshed and the vector stays that of the old text until a restart. A refresh during
the background index breaks the indexes (`serve/state.go:355`), hence `overlapped`. Documents
of nodes that vanished while no daemon ran stay in the lexical index
(`retrieval/service.go:264`). Two saves of the vector index share one temporary name.

*Daemons.* A zombie passes for a live daemon and is adopted (`serve/registry.go:127`,
`worktree/worktree.go:244`). The global record is removed by whoever read it before another
daemon wrote its own (`registry.go:130`, `daemon.go:369`): that daemon is lost.

*Targets.* The same diff applied twice appends its symbols twice, and a dependency listed
twice keeps its drift (`apply/apply.go:475`). YAML drops type parameters. The daemon does not
see `wyrd target use` if the directory of the pointer existed when it started. A kill between `RemoveAll` and the writes of
an apply leaves a target that is listed and empty; one in `Lock` a directory that is
neither listed nor can be locked again. `Use` and `Delete` race and leave CURRENT dangling.

*Event model.* A reference cycle may be reported that is none, because the path of an
ended search stays grey (`eventmodel/validate.go:660`). A `$ref` directly under `items` or
`additionalProperties` is never visited. "OK: N component(s) validated" counts imported
ones. Ambiguous health is documented as "more than one" input, and none counts, too. A component
that lists an exclusive kind on two slots is two consumers.

*Gates.* `*` under `/...` is literal in layer globs and a wildcard in selectors. A rule that
names an unknown layer passes. The kinds of a rule are read and never enforced. A fragment may
reassign layers and so lift a forbid of the root, hence the premise of
`ForbidsSurviveFragments`; other sections of a fragment are dropped silently.

*Views of the code.* A branch that changes bodies only is reported as a repository, not as
a review (`archreview/report.go:86`). Interface methods never get inbound edges in the
orphan search (`review.go:478`); types used only by variables, constants, channels or function
types count as unused. On the canvas an edge carries the last change of its pair
(`uigraph/resolve.go:47`), removed declarations are never drawn, and implementations, calls
and typedefs are never marked. Structs with two blank fields give duplicate ids. A call of
a promoted method is named after the package of the method and the type it is called on
(`adapter/golang/calls.go:304`), which in that package may be another symbol. A package
whose path is one word counts as external (`reader.go:1708`), so that a use of it is no use.
A type that a branch starts to name in a signature gets no mark if a body or a type
argument named it before. The last three are premises of properties, and were found by
proving it. Of a slice of maps the reader keeps neither key nor value
(`reader.go:932`), so an export used only there is unused for the report. A type of the
module's root package loses its package (`reader.go:962`) and becomes a symbol of the package
that names it (`:1697`): no edge leads to the root package. The report takes a package for touched
when a change lies in one whose path goes on with a dot (`review.go:417`), and drops its
calls from the impact. The model diff does not see that an embedded field became
a named one, that a declaration moved to another file, or that a method of a typedef
changed (`diff/compute.go:356`).

*Diagrams.* Specifications made by `split` name no files, so `compose` rejects them, which
README.md:389-390 and docs/features/us4-compose/plan.md:518 recommend; they have no
arrows. Blocks of constants, variables and errors read back as structs. A parameter called `shape`
or `stereotype` makes its function vanish. Plain typedefs vanish, and a package that
exports nothing else makes `compose` of everything fail. Dotted paths and the root package
lose their arrows across packages. `reader.go:312` says exported is preserved; it is not.

## 5. Proofs

`MultiState_proofs` proves for all paths, names, loads and requests:
`TypeCorrect`; `Invariance`, that `IInv` is inductive; and from it the theorems for
`SingleFlight`, `CachedAreKnown`, `FailureMeansCold`, `ClosersAreExclusive` and
`WaitersAreServed`, the action properties `CacheIsStable` and `CommitsAreCurrent`,
and `Refinement` to `WorktreeLifecycle`. None of the five invariants is inductive
by itself: `LoadsAgree` adds what a load may find in the cache under its name (its
own State or none), and `WatchersAgree` at which point of a load its watcher
exists. Assumptions: the root is a path, every path has a name, and `None` is none
of the values.

`Report_proofs` is about what a review shows and about its cache. For `ReportCache` it
does the same for all keys, States, builds and readers:
`TypeCorrect`, `Invariance`, and from it `NothingOutlivesItsEvent`,
`AnswersAreFresh`, `FailuresAreForgotten` and `EntriesAreShared`. `IInv` adds to
these `EntriesAgree` (a cached build is built for the key it is cached under),
`MarksArePast` (a drop or a refresh is never marked with a version the State has
not reached) and `OffersAreFresh` (an entry in the map is as new as the last drop,
so a reader who joins it later is too).

For `CodeReview` the theorems are about all programs: every family of finitely many
declarations, any number of edits, every grouping of packages, every limit on answers.
`ProgramsCompile` is the invariant, `ReviewIInv`: base and worktree are made of the
declarations of one family, and compile. Every other theorem holds of each two such
programs, by lemmas about the functions that the views are made of:

- `GraphsAgreeHolds`: an edge of the export joins nodes it has, since a program that
  compiles declares what it names (`ExportSucceeds`); a call that both graphs resolve
  resolves to one node in both (`CalleesMatch`); and the levels of the expansion's breadth
  first search are the balls in which diffusion is cut off (`LevelsAreReach`), so each finds
  what the other does, and mutually (`ReachIsMutual`).
- `CyclesAreReportedHolds`: of the group cycles of the base, the one that overlaps most
  with a cycle of the worktree lacks one of two newly mutual groups; and had the cycle no new
  package edge inside, its members would have followed each other in the base
  (`InnerPaths`).
- `ImpactReachesHolds` and `UsedExportsAreKeptHolds` follow a call and a signature from the
  declaration through the reader (`CallIsRead`, `SignaturesAreDeps`), the typed graph
  (`CallIsDrawn`, `DepIsDrawn`) and the side of the report (`UsesComeIn`). Of the types in a
  signature only those with a name that stays survive the reader (`NamesInside`); a package is
  untouched when nothing differs in it and in the packages whose path goes on with a dot
  (`QuietIsUntouched`).
- `DeclarationsAreMarkedHolds`: what the diff compares tells whether a declaration changed, as
  long as the reader loses no name of it (`LegibleTypes`, `ShapesTell`, `PartsTell`), and the
  marks of the public surface and of the model diff are one word wherever both exist
  (`PublicMembers`, `MemberIsMarked`).
- `DependenciesAreDrawnHolds`: a key that one side lacks has changes of one word only
  (`OneSided`), hence one mark survives (`EdgesAreMarked`, `RelationsAreMarked`); and of
  the dependencies with one key the first is public if one that is open comes first
  (`FieldsArePublic`, `MethodsArePublic`).

The lemmas about sequences (`FlattenAll`, `FlattenKeepsOrder`, `CandidatesAll`,
`FirstsAll`) are by induction over natural numbers, by way of the least counterexample
(`LeastNumber`). Assumptions: `FamilyAssumption` (section 3) and `MaxGraphNodes \in Nat`.

`BaseTrees_proofs` covers all revisions, files, loads, callers and limits:
`TypeCorrect`, `Invariance`, and from it `OrderListsLoads`, `FailuresAreForgotten`,
`ExportsAreAtomic` and the action property `LoadsAreShared`. `IInv` adds
`LoadsAgree` (a load is filed under its own revision, and only failed ones forget),
`VictimsAreEvicted` (only evicted revisions are removed from disk) and
`LoadsFindTrees` (what a load of a never-evicted revision has found is whole). The
order rests on two lemmas about sequences, `WithoutDrops` and `TouchedLists`: taking
a revision out and putting it last keeps the others, each once.

`ModelReload_proofs` covers all packages, imports, calls and bounds: `TypeCorrect`,
`Invariance`, and from it `NoEditIsLost`, `SubscribersAreTold` and
`NextStartIsCurrent`. The last two follow from what `IInv` adds: `BatchKnows` (a
package the subscribers were not told of is in the running batch or in the hands of a
save) and
`CacheHoldsModel` (except between a change and its save, the cache holds the model).
`LoadsAreRight` and `NothingIsWatched` carry the edits made during a load, when no
watch is there to notice them.

`Search_proofs` is about the two levels of semantic search. For `VecStore`, with all
daemons, namespaces and hashes, it proves `StoreTypeCorrect`, `StoreInvariance`, and from
it `VectorsAreOwn`, `UnsavedIsFlagged` and the action property `LossNeedsARace`, whose
invariant says that a save in flight that was not overtaken holds all that the file holds
under its header. For `Retrieval`, with all nodes, versions and shapes, it proves
`IndexInvariance` and from it `IndexesFollowTheModel`. Half of `IndexInv` holds at any time,
also when workers overlap and after a restart: hash and vector of a node or of a cache entry
are of one shape (`VectorsFit`), and a worker's loops, hashes and texts keep to the nodes it
was given (`WorkFits`). The other half is about a lone worker: what it has yet to see to is
stale or left over, and everything else follows the model (`DocsFollow`, `VectorsFollow`,
`GraphFollows`). `OneWorks` shows why `overlapped` is in the property: only without an
overlap does the worker hold the model of now.

`Daemons_proofs` covers all processes, clients, commands and retries: `TypeCorrect`,
`Invariance`, and from it `OneDaemonPerRepo` and `CleanExitLeavesNoRecord`. The first is
far from inductive. That two daemons which are not lost never serve together follows from
`ServersAreRecorded` (each would be the one on record); that none serves while another
starts from `StartersPoll` (a starting one is polled for by the holder of the lock) and
`HolderFinds`: whoever holds the lock while a daemon serves is still before its re-check,
has just found that daemon there, or started it. `HolderFinds` is where the re-check under
the lock is needed. `RecordsAreOwn` says whose record may be on disk.

`Checks_proofs` is about `Targets` and `Gates`. For `Targets` it covers all packages,
keys, definitions, targets, tools and commands. Its first part is about functions: `FreshDiffIsCleared` says that a diff just computed,
applied to a target that lists everything once, written and read again, leaves nothing to
compare, if YAML can hold the code. It goes key by key: `apply` changes the first
definition of a key, `diff` compares the last, hence the premise, and the code must list
equal definitions under one key (`Uniform`). The second part is `TypeCorrect`,
`Invariance`, and from it `CurrentIsATarget` and the action properties `LockedTargetsMatch`
and `AppliedDiffIsGone`. `IInv` follows a run from its call to its last file: `CopiesMatch`
and `WritesMatch` say what is in the target for the packages it is done with, and
`CalmAlone` that nobody else is at work as long as the run counts as undisturbed.
`DeletesWatch` is what makes a dangling CURRENT visible. Assumptions: `Stored`, what YAML
keeps of a definition, changes nothing the second time; there is a package; `None` is
neither a target nor a package's content.

For `Gates` the third part covers all packages, graphs of imports, documents and
fragments. `FoundIsAPath` and `FindPathIsExact` say that the search of `findPath` is sound
and complete: what it returns is a path of imports around the waypoints, and it returns
one exactly if a target is in every set of packages that holds the start and is closed
under the imports around the waypoints. The invariant of the search (`SearchInv`) is of
its steps: the queue and what is dealt with are what was visited, each package once; each
visited package is on a path from the start; and what is dealt with has its successors
visited, hence the visited set is closed once the queue is empty, which it is after as
many steps as there are packages squared. `PathsAreExactHolds` follows for every rule.
`NarrowScansOnlyMissHolds` goes rule by rule: a smaller graph has fewer edges, fewer
resolved packages and the same layers and components. `ForbidsSurviveFragmentsHolds` shows
that a composed document has all clauses of its root in the sections rules are made of.
Assumption: `PkgOrder`, the order in which packages are visited, lists the packages.

`Events_proofs` is about every set of components, kinds, subjects and references. For the
search it proves for every graph `SearchInvariant` and from it `CyclesAreDetected`: a
search that is over has reported something exactly when there is a cycle
(`CyclesOfModelsAreFound` says so of the composed system). That each reported sequence is
a cycle is not claimed and is false (section 4). `HealthAgreesWithFindingsHolds` and
`CleanModelsAreWiredHolds` are about two functions of one model, for all declarations that
can be edited together: the first compares counts of listed slots with findings, kind by
kind; the second derives from the absence of each finding the flow it would have missed.
The invariant beneath them is the type of the declarations on disk. Assumptions: slots and
schemas name known kinds, components and types, and the nodes of the search are the
components.

`RegistryIsConsistentHolds` and `CacheStepsAreSoundHolds` collect, for the names the
registry's run checks, the theorems on its conjuncts.

Only model-checked: liveness (outside this prover's reach: `ReadersAreAnswered`,
`CallersAreAnswered`, `EditsAreServed`, `RequestsAdvance`, `SearchSettles` and
`CallsAreAnswered`), and `DiagramsAgreeWithCode`, a statement about documents that are
written, read, composed and split by some seventy functions; its premises (names that the
reader of D2 takes for attributes, labels that make a document look like another) are
about spelling, which the eight families exercise.

## 6. Not modelled

- *Source editing*: the handler compares the base hash and writes the file without a lock
  in between, so two saves with one base may both succeed and the first is lost; in
  `ModelReload` the two are one step.
- *MCP tools* answer queries over one snapshot; those with effects are in `Targets`.
- *HTTP routing, the event stream, rendering of YAML, Mermaid, sequence diagrams and event
  models*: text.
- *Embedders and the git adapter*: one request or command each, whose failures are
  outcomes in the modules that call them.
- *Clustering, heat, trophic levels, the drift gate's baseline*: arithmetic on one
  snapshot, most of it in a library.
- *Plugin host*: registration at start-up, by one goroutine. *CLI*: flags and printing.
- *`domain/archgraph`* is imported by no program. *Web UI*: a client in TypeScript.
