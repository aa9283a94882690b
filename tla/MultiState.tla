------------------------------ MODULE MultiState ------------------------------
(***************************************************************************)
(* The daemon's registry of worktrees (internal/serve/multistate.go): the  *)
(* set of known checkouts, the lazily loaded State of each, the in-flight   *)
(* and the failed loads, and the file watcher attached to every State.      *)
(*                                                                         *)
(* One action is one critical section of MultiState.mu, or one call made   *)
(* between two of them.  A State, its load and its watcher are identified  *)
(* by the load that made them, so a cached State is a member of Loads.     *)
(* Loads is a pool: a load nothing refers to any more may be reused, the   *)
(* way the garbage collector reuses it.                                    *)
(***************************************************************************)
EXTENDS FiniteSets

CONSTANTS
  Paths,    \* directories a checkout can live in
  Root,     \* the checkout the daemon was started from
  Names,    \* worktree names: the base names of the paths
  NameOf,   \* the base name of each path
  Wanted,   \* the names requests ask for
  Loads,    \* the pool of stateLoad handles
  Callers,  \* request goroutines
  None      \* "no such entry"

ASSUME RootAssumption  == Root \in Paths
ASSUME NameAssumption  == NameOf \in [Paths -> Names]
ASSUME WantedAssumption == Wanted \subseteq Names
ASSUME NoneAssumption  == None \notin Paths \cup Names \cup Loads \cup Callers

VARIABLES
  disk,      \* paths `git worktree list` reports now
  entries,   \* MultiState.entries: the path of each known name, or None
  states,    \* MultiState.states: the load whose State is cached, or None
  loading,   \* MultiState.loading: the in-flight load, or None
  failures,  \* MultiState.failures: "none", "recent" or "expired"
  watchers,  \* MultiState.watchers: the load whose watcher is tracked, or None
  stage,     \* where each load's runLoad stands
  name,      \* the worktree each load is for
  path,      \* the path its loader parses
  ref,       \* the base ref wireBaseResolver read for it, if any
  open,      \* loads whose fsnotify watcher is running
  baseRef,   \* MultiState.baseRef # ""
  resolver,  \* loads whose State has a base resolver
  rewire,    \* States SetReviewBaseRef has listed and still has to wire
  refresher, \* holder of MultiState.refreshMu, or None
  scan,      \* what Discover returned to the refresher
  dropped,   \* closers Refresh collected under mu and has not closed yet
  closers,   \* the same for Close
  debounced, \* lastRefresh is younger than refreshDebounce
  pc,        \* where each request is
  req,       \* the name it asks for, or None
  wait       \* the load it waits on, or None

vars == <<disk, entries, states, loading, failures, watchers, stage, name,
          path, ref, open, baseRef, resolver, rewire, refresher, scan, dropped,
          closers, debounced, pc, req, wait>>

registryVars == <<entries, states, loading, failures, watchers>>
loadVars     == <<stage, name, path, ref>>
baseVars     == <<baseRef, resolver, rewire>>
refreshVars  == <<refresher, scan, dropped, debounced>>
callerVars   == <<pc, req, wait>>

-----------------------------------------------------------------------------
(* Loads. *)

\* Where runLoad stands: waiting for the loader; the loader succeeded; the
\* State is committed; the base ref was read; the State is wired; its watcher
\* is installed; finishing with and without a State.
Running == {"loading", "loaded", "committed", "wiring", "wired", "watching",
            "resolving", "failing"}
Committed == {"committed", "wiring", "wired", "watching", "resolving"}
Stage == Running \cup {"done", "failed"}

\* stateLoad.done is closed.  (ResolvedIfLoaded: only a load that succeeded
\* closes it.)
ResolvedIfLoaded(l) == stage[l] = "done"
Resolved(l) == stage[l] \in {"done", "failed"}

\* No goroutine, map or waiter refers to l.
Unreferenced(l) ==
  /\ Resolved(l)
  /\ l \notin open \cup dropped \cup closers \cup rewire
  /\ \A n \in Names : states[n] # l /\ watchers[n] # l /\ loading[n] # l
  /\ \A c \in Callers : wait[c] # l

At(l, from) == stage[l] = from
Goto(l, to) == stage' = [stage EXCEPT ![l] = to] /\ UNCHANGED <<name, path, ref>>

Known(n)     == entries[n] # None
Cached(n)    == Known(n) /\ states[n] # None
InFlight(n)  == Known(n) /\ states[n] = None /\ loading[n] # None

\* ensureLoad has to start a load itself.  (ColdUnlessCached: it does not look at
\* the loads in flight.)
ColdUnlessCached(n) == Known(n) /\ states[n] = None
Cold(n)             == Known(n) /\ states[n] = None /\ loading[n] = None

Throttled(n) == Cold(n) /\ failures[n] = "recent"

\* ensureLoad drops the failure record of a load it retries.
ClearFailure(n) == [failures EXCEPT ![n] = "none"]

\* ensureLoad, when it has to start a load: the failure record is dropped and
\* a fresh handle registered in one critical section, then runLoad is spawned.
StartLoad(n, l) ==
  /\ Cold(n) /\ ~Throttled(n)
  /\ Unreferenced(l)
  /\ failures' = ClearFailure(n)
  /\ loading' = [loading EXCEPT ![n] = l]
  /\ stage' = [stage EXCEPT ![l] = "loading"]
  /\ name' = [name EXCEPT ![l] = n]
  /\ path' = [path EXCEPT ![l] = entries[n]]
  /\ UNCHANGED ref
  /\ resolver' = resolver \ {l}
  /\ UNCHANGED <<disk, entries, states, watchers, open, baseRef, rewire,
                 closers, refreshVars>>

\* runLoad: the loader parses the checkout, with or without success.
LoaderReturns(l) ==
  /\ At(l, "loading")
  /\ \E to \in {"loaded", "failing"} : Goto(l, to)
  /\ UNCHANGED <<disk, registryVars, open, baseVars, refreshVars, closers, callerVars>>

\* runLoad's recheck under mu: the name still stands for the path that was parsed.
\* (NoRecheck: there is none.  StillKnown: it looks at the name only.)
NoRecheck(l)    == l \in Loads
StillKnown(l)   == Known(name[l])
StillCurrent(l) == entries[name[l]] = path[l]

\* runLoad: cache the State, unless the name was dropped or moved meanwhile.
CommitState(l) ==
  LET n == name[l] IN
  /\ At(l, "loaded")
  /\ IF StillCurrent(l)
       THEN /\ states' = [states EXCEPT ![n] = l]
            /\ Goto(l, "committed")
       ELSE /\ Goto(l, "failing")
            /\ UNCHANGED states
  /\ UNCHANGED <<disk, entries, loading, failures, watchers, open, baseVars,
                 refreshVars, closers, callerVars>>

\* wireBaseResolver, its critical section: read the base ref ...
ReadBaseRef(l) ==
  /\ At(l, "committed")
  /\ stage' = [stage EXCEPT ![l] = "wiring"]
  /\ ref' = [ref EXCEPT ![l] = baseRef]
  /\ UNCHANGED <<name, path, disk, registryVars, open, baseVars, refreshVars, closers,
                 callerVars>>

\* ... and outside it, set or clear the State's resolver by what was read.
SetResolver(l) ==
  /\ At(l, "wiring")
  /\ resolver' = IF ref[l] THEN resolver \cup {l} ELSE resolver \ {l}
  /\ Goto(l, "wired")
  /\ UNCHANGED <<disk, registryVars, open, baseRef, rewire, refreshVars, closers,
                 callerVars>>

\* runLoad calls the watcher hook.  A hook that fails leaves the State usable.
InstallWatcher(l) ==
  /\ At(l, "wired")
  /\ \/ open' = open \cup {l} /\ Goto(l, "watching")
     \/ Goto(l, "resolving") /\ UNCHANGED open
  /\ UNCHANGED <<disk, registryVars, baseVars, refreshVars, closers, callerVars>>

\* runLoad tracks the closer; whatever was tracked under the name is replaced.
RegisterWatcher(l) ==
  /\ At(l, "watching")
  /\ watchers' = [watchers EXCEPT ![name[l]] = l]
  /\ Goto(l, "resolving")
  /\ UNCHANGED <<disk, entries, states, loading, failures, open, baseVars,
                 refreshVars, closers, callerVars>>

\* finishLoad forgets the handle if it is still the registered one.
ForgetLoading(l) ==
  [n \in Names |-> IF n = name[l] /\ loading[n] = l THEN None ELSE loading[n]]

\* finishLoad: forget the in-flight handle, record or clear the failure, wake
\* the waiters.  All of it is one critical section.
FinishLoad(l) ==
  LET n == name[l] IN
  /\ stage[l] \in {"resolving", "failing"}
  /\ loading' = ForgetLoading(l)
  /\ failures' = [failures EXCEPT ![n] = IF At(l, "failing") THEN "recent" ELSE "none"]
  /\ stage' = [stage EXCEPT ![l] = IF At(l, "failing") THEN "failed" ELSE "done"]
  /\ ref' = [ref EXCEPT ![l] = FALSE]
  /\ UNCHANGED <<name, path, disk, entries, states, watchers, open, baseVars, refreshVars,
                 closers, callerVars>>

RunLoad(l) ==
  \/ LoaderReturns(l)  \/ CommitState(l)     \/ ReadBaseRef(l) \/ SetResolver(l)
  \/ InstallWatcher(l) \/ RegisterWatcher(l) \/ FinishLoad(l)

-----------------------------------------------------------------------------
(* Requests: dispatchWorktree calls EnsureKnown, then Get or Loaded. *)

Reply(c) ==
  /\ pc' = [pc EXCEPT ![c] = "idle"]
  /\ req' = [req EXCEPT ![c] = None]
  /\ wait' = [wait EXCEPT ![c] = None]

Step(c, to) ==
  /\ pc' = [pc EXCEPT ![c] = to]
  /\ UNCHANGED <<req, wait>>

\* EnsureKnown, first Has.
Request(c, n) ==
  /\ pc[c] = "idle"
  /\ pc' = [pc EXCEPT ![c] = IF Known(n) THEN "known" ELSE "miss"]
  /\ req' = [req EXCEPT ![c] = n]
  /\ UNCHANGED <<disk, registryVars, loadVars, open, baseVars, refreshVars, closers, wait>>

\* refreshOnMiss inside the debounce window: refreshMu is taken and released.
SkipRefresh(c) ==
  /\ pc[c] = "miss" /\ refresher = None /\ debounced
  /\ Step(c, "recheck")
  /\ UNCHANGED <<disk, registryVars, loadVars, open, baseVars, refreshVars, closers>>

\* refreshOnMiss takes refreshMu and Refresh calls Discover.  When git fails,
\* Discover reports no error but the project root as the only worktree.
Discover(c) ==
  /\ pc[c] = "miss" /\ refresher = None /\ ~debounced
  /\ refresher' = c
  /\ scan' \in {disk, {Root}}
  /\ Step(c, "refresh")
  /\ UNCHANGED <<disk, registryVars, loadVars, open, baseVars, dropped, debounced, closers>>

Duplicates(S) == \E p, q \in S : p # q /\ NameOf[p] = NameOf[q]
EntriesOf(S) ==
  [n \in Names |-> IF \E p \in S : NameOf[p] = n
                     THEN CHOOSE p \in S : NameOf[p] = n
                     ELSE None]

\* Refresh drops the States of the names the scan no longer lists.
VanishedState(next) == {n \in Names : states[n] # None /\ next[n] = None}

\* Refresh leaves the loads in flight alone.
KeepLoads(next)   == loading

\* Refresh, its critical section.  Two worktrees of one name make it return
\* without a change; otherwise the entries are replaced, and what belongs to a
\* name that is gone is dropped: its State with its watcher, its failure.
ApplyScan(c) ==
  LET next == EntriesOf(scan)
      Drop == VanishedState(next)
  IN
  /\ pc[c] = "refresh"
  /\ IF Duplicates(scan)
       THEN UNCHANGED <<registryVars, dropped>>
       ELSE /\ entries' = next
            /\ states' = [n \in Names |-> IF n \in Drop THEN None ELSE states[n]]
            /\ dropped' = {watchers[n] : n \in Drop} \ {None}
            /\ watchers' = [n \in Names |-> IF n \in Drop THEN None ELSE watchers[n]]
            /\ failures' = [n \in Names |-> IF next[n] = None THEN "none" ELSE failures[n]]
            /\ loading' = KeepLoads(next)
  /\ scan' = {}
  /\ Step(c, "close")
  /\ UNCHANGED <<disk, loadVars, open, baseVars, refresher, debounced, closers>>

\* Refresh closes what it dropped, outside mu; refreshOnMiss then stamps
\* lastRefresh and releases refreshMu.
EndRefresh(c) ==
  /\ pc[c] = "close"
  /\ open' = open \ dropped
  /\ dropped' = {}
  /\ debounced' = TRUE
  /\ refresher' = None
  /\ Step(c, "recheck")
  /\ UNCHANGED <<disk, registryVars, loadVars, baseVars, scan, closers>>

\* EnsureKnown, second Has.
Recheck(c) ==
  /\ pc[c] = "recheck"
  /\ IF Known(req[c]) THEN Step(c, "known") ELSE Reply(c)
  /\ UNCHANGED <<disk, registryVars, loadVars, open, baseVars, refreshVars, closers>>

\* Get and Loaded: unknown, cached and throttled names are answered at once.
AnswerNow(c) ==
  /\ pc[c] = "known"
  /\ ~Known(req[c]) \/ Cached(req[c]) \/ Throttled(req[c])
  /\ Reply(c)
  /\ UNCHANGED <<disk, registryVars, loadVars, open, baseVars, refreshVars, closers>>

\* ensureLoad found a load in flight: Get waits on it, Loaded returns.
JoinLoad(c) ==
  /\ pc[c] = "known" /\ InFlight(req[c])
  /\ \/ /\ pc' = [pc EXCEPT ![c] = "waiting"]
        /\ wait' = [wait EXCEPT ![c] = loading[req[c]]]
        /\ UNCHANGED req
     \/ Reply(c)
  /\ UNCHANGED <<disk, registryVars, loadVars, open, baseVars, refreshVars, closers>>

\* ensureLoad started one: the same choice.
BeginLoad(c, l) ==
  /\ pc[c] = "known"
  /\ StartLoad(req[c], l)
  /\ \/ /\ pc' = [pc EXCEPT ![c] = "waiting"]
        /\ wait' = [wait EXCEPT ![c] = l]
        /\ UNCHANGED req
     \/ Reply(c)

\* stateLoad.wait: the load is done ...
WaitDone(c) ==
  /\ pc[c] = "waiting"
  /\ Resolved(wait[c])
  /\ Reply(c)
  /\ UNCHANGED <<disk, registryVars, loadVars, open, baseVars, refreshVars, closers>>

\* ... or the request's context is cancelled first.
Cancel(c) ==
  /\ pc[c] = "waiting"
  /\ Reply(c)
  /\ UNCHANGED <<disk, registryVars, loadVars, open, baseVars, refreshVars, closers>>

-----------------------------------------------------------------------------
(* The rest of the daemon, the clock and the world. *)

\* SetReviewBaseRef, its critical section: once, while requests already run.
SetReviewBaseRef ==
  /\ ~baseRef
  /\ baseRef' = TRUE
  /\ rewire' = {states[n] : n \in Names} \ {None}
  /\ UNCHANGED <<disk, registryVars, loadVars, open, resolver, refreshVars, closers, callerVars>>

\* SetReviewBaseRef then wires each State it listed.
Rewire(l) ==
  /\ l \in rewire
  /\ rewire' = rewire \ {l}
  /\ resolver' = resolver \cup {l}
  /\ UNCHANGED <<disk, registryVars, loadVars, open, baseRef, refreshVars, closers, callerVars>>

\* The watchers map Close leaves behind.  (KeepWatchers: the old one.)
KeepWatchers == watchers
NoWatchers   == [n \in Names |-> None]

\* Close takes the tracked watchers under mu ...
Close ==
  /\ closers = {}
  /\ closers' = {watchers[n] : n \in Names} \ {None}
  /\ watchers' = NoWatchers
  /\ UNCHANGED <<disk, entries, states, loading, failures, loadVars, open, baseVars,
                 refreshVars, callerVars>>

\* ... and closes them outside it.
CloseWatcher(l) ==
  /\ l \in closers
  /\ closers' = closers \ {l}
  /\ open' = open \ {l}
  /\ UNCHANGED <<disk, registryVars, loadVars, baseVars, refreshVars, callerVars>>

RetryWindowElapses(n) ==
  /\ failures[n] = "recent"
  /\ failures' = [failures EXCEPT ![n] = "expired"]
  /\ UNCHANGED <<disk, entries, states, loading, watchers, loadVars, open, baseVars,
                 refreshVars, closers, callerVars>>

DebounceElapses ==
  /\ debounced
  /\ debounced' = FALSE
  /\ UNCHANGED <<disk, registryVars, loadVars, open, baseVars, refresher, scan,
                 dropped, closers, callerVars>>

\* `git worktree add` and `git worktree remove`, by hand.
AddOrRemoveWorktree(p) ==
  /\ p # Root
  /\ disk' = IF p \in disk THEN disk \ {p} ELSE disk \cup {p}
  /\ UNCHANGED <<registryVars, loadVars, open, baseVars, refreshVars, closers, callerVars>>

-----------------------------------------------------------------------------
\* The daemon after its start-up Refresh, before it answers the first request.
Init ==
  /\ disk \in {S \in SUBSET Paths : Root \in S /\ ~Duplicates(S)}
  /\ entries = EntriesOf(disk)
  /\ states = [n \in Names |-> None]
  /\ loading = [n \in Names |-> None]
  /\ failures = [n \in Names |-> "none"]
  /\ watchers = [n \in Names |-> None]
  /\ stage = [l \in Loads |-> "done"]
  /\ name = [l \in Loads |-> NameOf[Root]]
  /\ path = [l \in Loads |-> Root]
  /\ ref = [l \in Loads |-> FALSE]
  /\ open = {}
  /\ baseRef = FALSE /\ resolver = {} /\ rewire = {}
  /\ refresher = None /\ scan = {} /\ dropped = {} /\ debounced = FALSE
  /\ closers = {}
  /\ pc = [c \in Callers |-> "idle"]
  /\ req = [c \in Callers |-> None]
  /\ wait = [c \in Callers |-> None]

RefreshStep(c) == Discover(c) \/ ApplyScan(c) \/ EndRefresh(c)
CallerStep(c) ==
  \/ SkipRefresh(c) \/ RefreshStep(c) \/ Recheck(c) \/ AnswerNow(c)
  \/ JoinLoad(c) \/ (\E l \in Loads : BeginLoad(c, l)) \/ WaitDone(c)

Next ==
  \/ \E l \in Loads : RunLoad(l) \/ Rewire(l) \/ CloseWatcher(l)
  \/ \E c \in Callers : CallerStep(c) \/ Cancel(c) \/ \E n \in Wanted : Request(c, n)
  \/ \E n \in Names : RetryWindowElapses(n)
  \/ \E p \in Paths : AddOrRemoveWorktree(p)
  \/ SetReviewBaseRef \/ Close \/ DebounceElapses

Spec == Init /\ [][Next]_vars

-----------------------------------------------------------------------------
(* Properties. *)

TypeOK ==
  /\ disk \subseteq Paths
  /\ entries \in [Names -> Paths \cup {None}]
  /\ states \in [Names -> Loads \cup {None}]
  /\ loading \in [Names -> Loads \cup {None}]
  /\ failures \in [Names -> {"none", "recent", "expired"}]
  /\ watchers \in [Names -> Loads \cup {None}]
  /\ stage \in [Loads -> Stage]
  /\ name \in [Loads -> Names]
  /\ path \in [Loads -> Paths]
  /\ ref \in [Loads -> BOOLEAN]
  /\ open \subseteq Loads
  /\ baseRef \in BOOLEAN
  /\ resolver \subseteq Loads
  /\ rewire \subseteq Loads
  /\ refresher \in Callers \cup {None}
  /\ scan \subseteq Paths
  /\ dropped \subseteq Loads
  /\ closers \subseteq Loads
  /\ debounced \in BOOLEAN
  /\ pc \in [Callers -> {"idle", "miss", "refresh", "close", "recheck", "known", "waiting"}]
  /\ req \in [Callers -> Names \cup {None}]
  /\ wait \in [Callers -> Loads \cup {None}]
  /\ \A c \in Callers : pc[c] # "idle" => req[c] # None

\* The comment on MultiState.loading: concurrent first requests never run the
\* expensive load twice.  A name's loading entry is its one unresolved runLoad,
\* however often the name is dropped and rediscovered meanwhile.
SingleFlight ==
  \A n \in Names, l \in Loads :
    loading[n] = l <=> stage[l] \in Running /\ name[l] = n

\* Refresh and runLoad together: the State of a worktree Refresh no longer lists
\* is never left in the cache, not even by a load that was in flight.
CachedAreKnown == \A n \in Names : states[n] # None => Known(n)

\* LoadError's contract: a recorded failure means the worktree is neither
\* loaded nor loading, so a transport answering "failed" never hides a model.
FailureMeansCold ==
  \A n \in Names : failures[n] # "none" => states[n] = None /\ loading[n] = None

\* A watcher Refresh or Close takes is running and is taken by one of them
\* only; a tracked watcher belongs to the name it is tracked under.
ClosersAreExclusive ==
  /\ \A n \in Names : watchers[n] # None =>
       /\ watchers[n] \in open \ (dropped \cup closers)
       /\ name[watchers[n]] = n
  /\ dropped \cup closers \subseteq open
  /\ dropped \cap closers = {}

\* A request that waits, waits on a load that is running or resolved: nothing
\* strands it on a handle that was abandoned or reused for another name.
WaitersAreServed ==
  \A c \in Callers : pc[c] = "waiting" =>
    /\ wait[c] # None
    /\ name[wait[c]] = req[c]
    /\ stage[wait[c]] \in Running =>  loading[req[c]] = wait[c]

\* Lazy caches survive a refresh: a cached State is never replaced by another,
\* and only a scan that no longer lists its name removes it.
StableStep ==
  \A n \in Names : states[n] # None /\ states'[n] # states[n] =>
    states'[n] = None /\ entries'[n] = None

CacheIsStable == [][StableStep]_vars

\* runLoad's recheck: a State enters the cache only while the registry maps the
\* name to the path it was parsed from.
CurrentCommitStep ==
  \A n \in Names : states[n] = None /\ states'[n] # None =>
    entries'[n] = path[states'[n]] /\ loading[n] = states'[n]

CommitsAreCurrent == [][CurrentCommitStep]_vars

\* What the registry keeps under its names agrees: what is cached is known, what failed
\* is cold, watchers are closed once and waiters wait for a load of their name (Refresh,
\* LoadError, Close, Get).
RegistryIsConsistent ==
  CachedAreKnown /\ FailureMeansCold /\ ClosersAreExclusive /\ WaitersAreServed

\* What changes in the cache changes for a reason: a scan for what leaves it, a load of
\* the path the name stands for for what enters (Refresh, runLoad).
CacheStepsAreSound == [][StableStep /\ CurrentCommitStep]_vars

-----------------------------------------------------------------------------
(* The inductive invariant. *)

\* What a load may find in the cache under its name, and where a load stands
\* whose State is cached.
LoadsAgree ==
  /\ \A l \in Loads :
       /\ stage[l] \in {"loading", "loaded", "failing"} => states[name[l]] = None
       /\ stage[l] \in Running => states[name[l]] \in {None, l}
  /\ \A n \in Names : states[n] # None =>
       name[states[n]] = n /\ stage[states[n]] \in Committed \cup {"done"}

\* A watcher runs from its installation on, and only a registered one is tracked
\* or handed to a closer.
Registered(l) == stage[l] \in {"resolving", "done"}
WatchersAgree ==
  /\ \A l \in open : At(l, "watching") \/ Registered(l)
  /\ \A l \in dropped \cup closers : Registered(l)
  /\ \A n \in Names : watchers[n] # None => Registered(watchers[n])
  /\ \A l \in Loads : At(l, "watching") => l \in open

\* The invariant that a step preserves: the properties above and the two
\* agreements they rest on.
IInv ==
  /\ TypeOK
  /\ SingleFlight /\ LoadsAgree
  /\ CachedAreKnown /\ FailureMeansCold
  /\ ClosersAreExclusive /\ WatchersAgree
  /\ WaitersAreServed

-----------------------------------------------------------------------------
(* The abstraction. *)

StatusOf(n) ==
  IF states[n] # None THEN "ready"
  ELSE IF loading[n] # None THEN "loading"
  ELSE IF failures[n] # "none" THEN "failed"
  ELSE "cold"

Lifecycle == INSTANCE WorktreeLifecycle WITH
  registered <- {n \in Names : Known(n)},
  status <- [n \in Names |-> StatusOf(n)]

\* Whatever Refresh, the loads and the requests interleave to, a transport sees
\* a name move through cold, loading, ready and failed as the abstract registry
\* allows: never ready without a load, never from ready to failed.
ImplementsLifecycle == Lifecycle!Spec

-----------------------------------------------------------------------------
(* Liveness. *)

\* Goroutines run and the loader returns; Go's mutex hands a starving waiter
\* the lock, so a request that keeps missing gets refreshMu in the end.
Fairness ==
  /\ \A l \in Loads : WF_vars(RunLoad(l))
  /\ \A c \in Callers : WF_vars(CallerStep(c)) /\ SF_vars(SkipRefresh(c) \/ Discover(c))

FairSpec == Spec /\ Fairness

\* A request neither waits nor searches for ever: the load it waits on resolves
\* whatever Refresh does to its name meanwhile, refreshMu is always released, and
\* EnsureKnown comes to a verdict.
RequestsAdvance ==
  \A c \in Callers : pc[c] \notin {"idle", "known"} ~> pc[c] \in {"idle", "known"}

=============================================================================
