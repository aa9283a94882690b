----------------------------- MODULE ReportCache -----------------------------
(***************************************************************************)
(* The review reports of the HTTP server: reportCache                       *)
(* (adapter/http/archmotif_report_cache.go), the build it runs and the      *)
(* subscription that invalidates it (archmotif_report.go), and the event    *)
(* bus between a State and that subscription (plugin/eventbus.go).          *)
(*                                                                         *)
(* A key is a worktree and a base ref.  A build is an entry of the cache    *)
(* with the goroutine that fills it; Builds is a pool of them.  What the    *)
(* registry of worktrees does (MultiState) appears as Load and Drop: it     *)
(* caches a State of a worktree, or forgets it.                             *)
(***************************************************************************)
EXTENDS Naturals, FiniteSets

CONSTANTS
  Worktrees,
  Keys,        \* reportKey
  WorktreeOf,  \* reportKey.worktree
  DefaultKey,  \* the key of a worktree's default base ref
  States,      \* State values that may be loaded, each one once
  HomeOf,      \* the worktree of a State
  Builds,      \* the pool of reportEntry values
  Readers,     \* handlers of GET /api/archmotif/report
  MaxReports,  \* maxCachedReports
  MaxVersion,  \* bound: how often the model of one State changes
  None

ASSUME KeyAssumption ==
  /\ Keys # {}
  /\ WorktreeOf \in [Keys -> Worktrees]
  /\ DefaultKey \in [Worktrees -> Keys]
  /\ \A w \in Worktrees : WorktreeOf[DefaultKey[w]] = w
ASSUME StateAssumption == States # {} /\ HomeOf \in [States -> Worktrees]
ASSUME BoundAssumption == MaxReports \in Nat \ {0} /\ MaxVersion \in Nat
ASSUME NoneAssumption  == None \notin Keys \cup States \cup Builds

VARIABLES
  loaded,      \* States that have been loaded
  live,        \* States the registry serves
  version,     \* how often each State's model changed
  unpublished, \* changes of a State its bus was not told of yet
  subs,        \* subscriptions of the cache to each State's bus
  calls,       \* handler calls Publish still has to make, by State
  warming,     \* reportCache.warm calls a handler still has to make, by worktree
  hook,        \* where the WarmWorktree call for a State stands
  watched,     \* Server.watched: the State subscribed to, by worktree
  entry,       \* reportCache.entries
  newer,       \* reportEntry.usedAt: the keys used since each key was
  stage,       \* where each build stands
  key,         \* its key
  source,      \* the State it reads
  seen,        \* the version of that State its snapshot shows
  told,        \* the version of each State at the last drop its events made
  pc,          \* where each reader is
  asked,       \* the key it asks for
  wait,        \* the build it waits on
  floor        \* the versions its answer may not be older than

modelVars  == <<loaded, live, version, unpublished>>
busVars    == <<subs, calls, warming, told>>
buildVars  == <<stage, key, source, seen>>
cacheVars  == <<entry, newer>>
readerVars == <<pc, asked, wait, floor>>
vars == <<loaded, live, version, unpublished, subs, calls, warming, told, hook, watched,
          entry, newer, stage, key, source, seen, pc, asked, wait, floor>>

-----------------------------------------------------------------------------
(* The cache. *)

Building == {"resolve", "watch", "subscribe", "snapshot", "base", "built", "broken"}
Stage    == Building \cup {"done", "failed"}

\* What the build's snapshot shows is decided.
Snapped(b) == stage[b] \in {"base", "built", "done"}
Closed(b)  == stage[b] \in {"done", "failed"}

Unreferenced(b) ==
  /\ Closed(b)
  /\ \A k \in Keys : entry[k] # b
  /\ \A r \in Readers : wait[r] # b

Cached == {k \in Keys : entry[k] # None}

\* evictLocked's victim once k is in: the least recently used other key.
Oldest(k) ==
  CHOOSE x \in Cached : \A y \in Cached \ {x} : y \in newer[x]
Evicted(k) == IF Cardinality(Cached \cup {k}) > MaxReports THEN {Oldest(k)} ELSE {}

\* usedAt of k becomes the latest.
Used(k) == [x \in Keys |-> IF x = k \/ entry[x] = None THEN {} ELSE newer[x] \cup {k}]

\* reportCache.start when k is cached: one more use.
Reuse(k) ==
  /\ entry[k] # None
  /\ newer' = Used(k)
  /\ UNCHANGED <<entry, buildVars>>

\* reportCache.start when it is not: a new entry, maybe one eviction, and a
\* goroutine that builds.
Launch(k, b) ==
  /\ entry[k] = None
  /\ Unreferenced(b)
  /\ entry' = [x \in Keys |-> IF x = k THEN b ELSE IF x \in Evicted(k) THEN None ELSE entry[x]]
  /\ newer' = Used(k)
  /\ stage' = [stage EXCEPT ![b] = "resolve"]
  /\ key' = [key EXCEPT ![b] = k]
  /\ UNCHANGED <<source, seen>>

\* The entries drop leaves.  (DropSettled: it spares the builds in flight.)
DropSettled(w) ==
  [k \in Keys |-> IF WorktreeOf[k] = w /\ entry[k] # None /\ Closed(entry[k])
                    THEN None ELSE entry[k]]
DropEntries(w) == [k \in Keys |-> IF WorktreeOf[k] = w THEN None ELSE entry[k]]

\* run's clean-up of a failed build.  (ForgetKey: it does not compare the entry.)
ForgetKey(b)    == [entry EXCEPT ![key[b]] = None]
ForgetFailed(b) == [entry EXCEPT ![key[b]] = IF @ = b THEN None ELSE @]

-----------------------------------------------------------------------------
(* The build: reportCache.run and Server.buildReport. *)

At(b, from) == stage[b] = from
Goto(b, to) == stage' = [stage EXCEPT ![b] = to] /\ UNCHANGED <<key, source, seen>>

\* reportState: the State the registry serves, or an error when there is none.
ReportState(b) ==
  /\ At(b, "resolve")
  /\ \/ \E s \in live :
          /\ HomeOf[s] = WorktreeOf[key[b]]
          /\ source' = [source EXCEPT ![b] = s]
          /\ stage' = [stage EXCEPT ![b] = "watch"]
          /\ UNCHANGED <<key, seen>>
     \/ /\ \A s \in live : HomeOf[s] # WorktreeOf[key[b]]
        /\ Goto(b, "broken")
  /\ UNCHANGED <<modelVars, busVars, hook, watched, cacheVars, readerVars>>

\* watchModel, its critical section: the State is recorded as watched ...
WatchModel(b) ==
  LET s == source[b] IN
  /\ At(b, "watch")
  /\ Goto(b, IF watched[HomeOf[s]] = s THEN "snapshot" ELSE "subscribe")
  /\ watched' = [watched EXCEPT ![HomeOf[s]] = s]
  /\ UNCHANGED <<modelVars, busVars, hook, cacheVars, readerVars>>

\* ... and only then subscribed to.
Subscribe(b) ==
  /\ At(b, "subscribe")
  /\ subs' = [subs EXCEPT ![source[b]] = @ + 1]
  /\ Goto(b, "snapshot")
  /\ UNCHANGED <<modelVars, calls, warming, told, hook, watched, cacheVars, readerVars>>

Snapshot(b) ==
  /\ At(b, "snapshot")
  /\ seen' = [seen EXCEPT ![b] = version[source[b]]]
  /\ stage' = [stage EXCEPT ![b] = "base"]
  /\ UNCHANGED <<key, source, modelVars, busVars, hook, watched, cacheVars, readerVars>>

\* reviewBase, git.Diff and archreview.Build: any of the first two may fail.
CompareToBase(b) ==
  /\ At(b, "base")
  /\ \E to \in {"built", "broken"} : Goto(b, to)
  /\ UNCHANGED <<modelVars, busVars, hook, watched, cacheVars, readerVars>>

\* run's critical section and the close after it.  Nothing but a waiting reader
\* can tell them apart, and a reader may always be late.  (SettleQuietly: a
\* failed build is never closed.)
SettleQuietly(b) ==
  /\ At(b, "built") /\ Goto(b, "done") /\ UNCHANGED <<entry, newer>>
Settle(b) ==
  \/ At(b, "built") /\ Goto(b, "done") /\ UNCHANGED <<entry, newer>>
  \/ At(b, "broken") /\ Goto(b, "failed") /\ entry' = ForgetFailed(b) /\ UNCHANGED newer

FinishBuild(b) ==
  /\ Settle(b)
  /\ UNCHANGED <<modelVars, busVars, hook, watched, readerVars>>

Run(b) ==
  \/ ReportState(b) \/ WatchModel(b) \/ Subscribe(b) \/ Snapshot(b)
  \/ CompareToBase(b) \/ FinishBuild(b)

-----------------------------------------------------------------------------
(* Models, their events, and the handler watchModel subscribes. *)

\* MultiState caches a State and starts its loaded hook, Server.WarmWorktree.
Load(s) ==
  /\ s \notin loaded
  /\ \A t \in live : HomeOf[t] # HomeOf[s]
  /\ loaded' = loaded \cup {s}
  /\ live' = live \cup {s}
  /\ hook' = [hook EXCEPT ![s] = "watch"]
  /\ UNCHANGED <<version, unpublished, busVars, watched, cacheVars, buildVars, readerVars>>

\* The /api/warm ping for a loaded worktree makes the same call.
WarmPing(s) ==
  /\ s \in live /\ hook[s] = "idle"
  /\ hook' = [hook EXCEPT ![s] = "watch"]
  /\ UNCHANGED <<modelVars, busVars, watched, cacheVars, buildVars, readerVars>>

\* MultiState.Refresh drops the State of a worktree that is gone.
Drop(s) ==
  /\ s \in live
  /\ live' = live \ {s}
  /\ UNCHANGED <<loaded, version, unpublished, busVars, hook, watched, cacheVars, buildVars,
                 readerVars>>

\* ReloadPackage, ReloadOverlay or SwitchTarget replaces the model ...
Change(s) ==
  /\ s \in loaded /\ version[s] < MaxVersion
  /\ version' = [version EXCEPT ![s] = @ + 1]
  /\ unpublished' = [unpublished EXCEPT ![s] = @ + 1]
  /\ UNCHANGED <<loaded, live, busVars, hook, watched, cacheVars, buildVars, readerVars>>

\* ... and then publishes it: the handlers subscribed now will be called.
Publish(s) ==
  /\ unpublished[s] > 0
  /\ unpublished' = [unpublished EXCEPT ![s] = @ - 1]
  /\ calls' = [calls EXCEPT ![s] = @ + subs[s]]
  /\ UNCHANGED <<loaded, live, version, subs, warming, told, hook, watched, cacheVars,
                 buildVars, readerVars>>

\* The handler drops every report of the worktree ...
HandleDrop(s) ==
  /\ calls[s] > 0
  /\ calls' = [calls EXCEPT ![s] = @ - 1]
  /\ entry' = DropEntries(HomeOf[s])
  /\ told' = [told EXCEPT ![s] = version[s]]
  /\ warming' = [warming EXCEPT ![HomeOf[s]] = @ + 1]
  /\ UNCHANGED <<modelVars, subs, hook, watched, newer, buildVars, readerVars>>

\* ... and warms the one against the default base.
HandleWarm(w) ==
  /\ warming[w] > 0
  /\ warming' = [warming EXCEPT ![w] = @ - 1]
  /\ Reuse(DefaultKey[w]) \/ \E b \in Builds : Launch(DefaultKey[w], b)
  /\ UNCHANGED <<modelVars, subs, calls, told, hook, watched, readerVars>>

\* WarmWorktree: watchModel in its two parts, then warm.
HookWatch(s) ==
  /\ hook[s] = "watch"
  /\ hook' = [hook EXCEPT ![s] = IF watched[HomeOf[s]] = s THEN "warm" ELSE "subscribe"]
  /\ watched' = [watched EXCEPT ![HomeOf[s]] = s]
  /\ UNCHANGED <<modelVars, busVars, cacheVars, buildVars, readerVars>>

HookSubscribe(s) ==
  /\ hook[s] = "subscribe"
  /\ subs' = [subs EXCEPT ![s] = @ + 1]
  /\ hook' = [hook EXCEPT ![s] = "warm"]
  /\ UNCHANGED <<modelVars, calls, warming, told, watched, cacheVars, buildVars, readerVars>>

HookWarm(s) ==
  /\ hook[s] = "warm"
  /\ hook' = [hook EXCEPT ![s] = "idle"]
  /\ LET k == DefaultKey[HomeOf[s]] IN Reuse(k) \/ \E b \in Builds : Launch(k, b)
  /\ UNCHANGED <<modelVars, busVars, watched, readerVars>>

-----------------------------------------------------------------------------
(* Readers: handleArchMotifReport. *)

Oblivious == [s \in States |-> 0]

\* A plain request may be answered from the cache as its last drop left it.
Ask(r, k) ==
  /\ pc[r] = "idle"
  /\ pc' = [pc EXCEPT ![r] = "get"]
  /\ asked' = [asked EXCEPT ![r] = k]
  /\ floor' = [floor EXCEPT ![r] = told]
  /\ UNCHANGED <<wait, modelVars, busVars, hook, watched, cacheVars, buildVars>>

\* What dropKey leaves.  (KeepKey: everything.)
KeepKey(k)  == entry
WithoutKey(k) == [entry EXCEPT ![k] = None]

\* The panel's refresh button drops the key first: the answer has to show the
\* model as it is now.
AskAfresh(r, k) ==
  /\ pc[r] = "idle"
  /\ pc' = [pc EXCEPT ![r] = "get"]
  /\ asked' = [asked EXCEPT ![r] = k]
  /\ floor' = [floor EXCEPT ![r] = version]
  /\ entry' = WithoutKey(k)
  /\ UNCHANGED <<wait, modelVars, busVars, hook, watched, newer, buildVars>>

Join(r, b) ==
  /\ pc' = [pc EXCEPT ![r] = "wait"]
  /\ wait' = [wait EXCEPT ![r] = b]
  /\ UNCHANGED <<asked, floor>>

\* reportCache.get: use the entry there is, or launch one, and wait on it.
Get(r) ==
  LET k == asked[r] IN
  /\ pc[r] = "get"
  /\ \/ Reuse(k) /\ Join(r, entry[k])
     \/ \E b \in Builds : Launch(k, b) /\ Join(r, b)
  /\ UNCHANGED <<modelVars, busVars, hook, watched>>

Leave(r) ==
  /\ pc' = [pc EXCEPT ![r] = "idle"]
  /\ wait' = [wait EXCEPT ![r] = None]
  /\ asked' = [asked EXCEPT ![r] = None]
  /\ floor' = [floor EXCEPT ![r] = Oblivious]
  /\ UNCHANGED <<modelVars, busVars, hook, watched, cacheVars, buildVars>>

\* The build is closed: its report, or its error, is the answer.
Answer(r) == pc[r] = "wait" /\ Closed(wait[r]) /\ Leave(r)

\* The client goes away first.
GiveUp(r) == pc[r] = "wait" /\ Leave(r)

-----------------------------------------------------------------------------
\* An HTTP server that has just been built over a registry without States.
Init ==
  /\ loaded = {} /\ live = {}
  /\ version = [s \in States |-> 0]
  /\ unpublished = [s \in States |-> 0]
  /\ subs = [s \in States |-> 0]
  /\ calls = [s \in States |-> 0]
  /\ warming = [w \in Worktrees |-> 0]
  /\ told = [s \in States |-> 0]
  /\ hook = [s \in States |-> "idle"]
  /\ watched = [w \in Worktrees |-> None]
  /\ entry = [k \in Keys |-> None]
  /\ newer = [k \in Keys |-> {}]
  /\ stage = [b \in Builds |-> "failed"]
  /\ key = [b \in Builds |-> CHOOSE k \in Keys : TRUE]
  /\ source = [b \in Builds |-> CHOOSE s \in States : TRUE]
  /\ seen = [b \in Builds |-> 0]
  /\ pc = [r \in Readers |-> "idle"]
  /\ asked = [r \in Readers |-> None]
  /\ wait = [r \in Readers |-> None]
  /\ floor = [r \in Readers |-> Oblivious]

Next ==
  \/ \E b \in Builds : Run(b)
  \/ \E s \in States :
       \/ Load(s) \/ WarmPing(s) \/ Drop(s) \/ Change(s) \/ Publish(s)
       \/ HandleDrop(s) \/ HookWatch(s) \/ HookSubscribe(s) \/ HookWarm(s)
  \/ \E w \in Worktrees : HandleWarm(w)
  \/ \E r \in Readers :
       \/ Get(r) \/ Answer(r) \/ GiveUp(r)
       \/ \E k \in Keys : Ask(r, k) \/ AskAfresh(r, k)

Spec == Init /\ [][Next]_vars

-----------------------------------------------------------------------------
(* Properties. *)

TypeOK ==
  /\ loaded \subseteq States /\ live \subseteq loaded
  /\ version \in [States -> 0..MaxVersion]
  /\ unpublished \in [States -> Nat]
  /\ subs \in [States -> Nat] /\ calls \in [States -> Nat]
  /\ warming \in [Worktrees -> Nat]
  /\ told \in [States -> Nat]
  /\ hook \in [States -> {"idle", "watch", "subscribe", "warm"}]
  /\ watched \in [Worktrees -> States \cup {None}]
  /\ entry \in [Keys -> Builds \cup {None}]
  /\ newer \in [Keys -> SUBSET Keys]
  /\ stage \in [Builds -> Stage]
  /\ key \in [Builds -> Keys] /\ source \in [Builds -> States]
  /\ seen \in [Builds -> Nat]
  /\ pc \in [Readers -> {"idle", "get", "wait"}]
  /\ asked \in [Readers -> Keys \cup {None}]
  /\ wait \in [Readers -> Builds \cup {None}]
  /\ floor \in [Readers -> [States -> Nat]]
  /\ \A r \in Readers : pc[r] = "wait" <=> wait[r] # None
  /\ \A r \in Readers : pc[r] = "get" => asked[r] # None

\* reportCache.drop: once the event of a change was handled, no report of a model
\* older than the change is in the cache, not even one still being built then.
NothingOutlivesItsEvent ==
  \A k \in Keys : LET b == entry[k] IN
    b # None /\ Snapped(b) => seen[b] >= told[source[b]]

\* reportCache.drop, "never served to anyone who asked after the change", and
\* dropKey: whoever presses refresh is not handed what the cache stored before,
\* nor a build that had looked at the model already.
AnswersAreFresh ==
  \A r \in Readers : LET b == wait[r] IN
    b # None /\ Snapped(b) => seen[b] >= floor[r][source[b]]

\* reportCache.run, "a failure is not an answer worth keeping": no request is
\* ever answered by an error that was there before it asked.
FailuresAreForgotten == \A k \in Keys : entry[k] # None => stage[entry[k]] # "failed"

\* reportCache, "one entry per key, computed once however many callers want it":
\* an entry that callers could share leaves the cache only by an event of its
\* worktree, a refresh of its key, an eviction by a full cache, or its own failure.
SharedStep ==
  \A k \in Keys : entry[k] # None /\ entry'[k] # entry[k] =>
    \/ calls'  # calls
    \/ \E r \in Readers : pc[r] = "idle" /\ asked'[r] = k
    \/ \E x \in Keys \ {k} : /\ entry[x] = None /\ entry'[x] # None
                             /\ Cardinality(Cached \cup {x}) > MaxReports
    \/ stage'[entry[k]] = "failed"

EntriesAreShared == [][SharedStep]_vars

-----------------------------------------------------------------------------
(* The inductive invariant. *)

\* An entry is filed under its own key, and reads a State of that key's worktree.
EntriesAgree ==
  /\ \A k \in Keys : entry[k] # None => key[entry[k]] = k
  /\ \A b \in Builds : stage[b] \notin {"resolve", "failed", "broken"} =>
       HomeOf[source[b]] = WorktreeOf[key[b]]

\* The marks of past versions.
MarksArePast ==
  /\ \A s \in States : told[s] <= version[s]
  /\ \A r \in Readers, s \in States : floor[r][s] <= version[s]

\* What a reader that has asked would find in the cache.
OffersAreFresh ==
  \A r \in Readers : pc[r] = "get" =>
    LET b == entry[asked[r]] IN b # None /\ Snapped(b) => seen[b] >= floor[r][source[b]]

IInv ==
  /\ TypeOK
  /\ EntriesAgree /\ MarksArePast
  /\ NothingOutlivesItsEvent /\ OffersAreFresh /\ AnswersAreFresh
  /\ FailuresAreForgotten

-----------------------------------------------------------------------------
(* Liveness. *)

\* Build goroutines run and their git commands return; a reader is a goroutine.
Fairness ==
  /\ \A b \in Builds : WF_vars(Run(b))
  /\ \A r \in Readers : WF_vars(Answer(r))

FairSpec == Spec /\ Fairness

\* Whatever drops or evicts the entry a reader waits on, its build closes it.
ReadersAreAnswered == \A r \in Readers : pc[r] = "wait" ~> pc[r] = "idle"

=============================================================================
