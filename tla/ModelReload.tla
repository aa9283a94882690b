----------------------------- MODULE ModelReload -----------------------------
(***************************************************************************)
(* How the model of one worktree follows its sources: State.Load and        *)
(* State.ReloadPackage (serve/state.go), the model cache                    *)
(* (serve/model_cache.go), the watcher (serve/watcher.go) and the handler   *)
(* of its batches (serve/daemon.go), and the saves of the review UI         *)
(* (adapter/http/source.go), for a daemon that stops, crashes and starts    *)
(* again while somebody edits.                                              *)
(*                                                                         *)
(* A package is the Go files of one directory, and a version of it the      *)
(* number of the edit that made it (0: no Go files); a version is also what *)
(* mtime and size tell.  What a parse found out about other packages is     *)
(* kept as the set of packages it resolved calls and interfaces in.  A      *)
(* parse and a scan are one read of the tree each, and the overlay          *)
(* documents at the root are one source.                                    *)
(***************************************************************************)
EXTENDS Naturals, Sequences, FiniteSets

CONSTANTS
  Pkgs,       \* directories that may hold a package
  Root,       \* the root of the worktree, one of them
  Overlay,    \* wyrd.yaml
  Above,      \* a directory and those above it, up to the root
  Imports,    \* a package and those it imports, transitively
  Calls,      \* <<p, q>>: p calls functions of q
  Satisfies,  \* <<p, q>>: a type of p implements an interface of q
  Saveable,   \* packages whose files are saved in the review UI
  MaxEdits,   \* bound on the edits
  MaxStops,   \* bound on the stops and crashes of the daemon
  None

Sources == Pkgs \cup {Overlay}

ASSUME RootAssumption  == Root \in Pkgs /\ Overlay \notin Pkgs /\ None \notin Sources
ASSUME AboveAssumption == /\ Above \in [Pkgs -> Seq(Pkgs)]
                          /\ \A p \in Pkgs : Above[p] # <<>> /\ Above[p][1] = p
ASSUME EdgeAssumption  == /\ Imports \in [Pkgs -> SUBSET Pkgs]
                          /\ Calls \subseteq Pkgs \X Pkgs
                          /\ Satisfies \subseteq Pkgs \X Pkgs
ASSUME SaveAssumption == Saveable \subseteq Pkgs
ASSUME BoundAssumption == MaxEdits \in Nat /\ MaxStops \in Nat

VARIABLES
  src,        \* the version of each source on disk
  dir,        \* each directory: it is absent, bare (without a watch) or watched
  made,       \* directories whose creation is announced in the event queue
  queued,     \* sources with an event in the queue
  pending,    \* Watcher.Run's pending
  todo,       \* packages the running batch has yet to reload (pkgReloads)
  dirty,      \* the running batch has yet to reload the overlay (overlayDirty)
  stage,      \* where the daemon stands
  cancelled,  \* its context is cancelled
  own,        \* State.packages and overlayCfg: the version each was read from
  seen,       \* and the packages its edges lead into
  changed,    \* packages the running batch has changed (reloaded)
  saves,      \* packages the review UI has written and has yet to reload
  storing,    \* the package it holds State.mu for while the cache is written, or None
  unsaid,     \* packages it has changed and has yet to publish
  scanned,    \* the stamps readModelCache has taken
  cached,     \* there is a model cache on disk
  cown, cseen, \* the models in it
  cstamp,     \* and the stamps
  told,       \* history: the versions a subscriber has seen
  excused,    \* history: changed out of sight of the watcher, or unread
  saved,      \* history: the last write of the cache succeeded
  edits, stops

treeVars  == <<src, dir, edits>>
eventVars == <<made, queued, pending>>
batchVars == <<todo, dirty, changed>>
saveVars  == <<saves, storing, unsaid>>
modelVars == <<own, seen>>
cacheVars == <<cached, cown, cseen, cstamp, saved>>
vars == <<src, dir, edits, made, queued, pending, todo, dirty, changed, saves, storing, unsaid, own, seen,
          cached, cown, cseen, cstamp, saved, stage, cancelled, scanned, told,
          excused, stops>>

Loading == {"start", "read", "stamp", "overlay"}
Serving == {"watch", "idle", "batch", "save"}
Stage   == {"down"} \cup Loading \cup Serving

NoModel == [s \in Sources |-> 0]
NoEdges == [p \in Pkgs |-> {}]

-----------------------------------------------------------------------------
(* What the functions compute. *)

Present   == {p \in Pkgs : src[p] # 0}
Home(s)   == IF s = Overlay THEN Root ELSE s
Parent(p) == IF Len(Above[p]) > 1 THEN Above[p][2] ELSE p

\* FindOwningPackage: the nearest directory with Go files.  (OwnerBelow: the root
\* package has the empty path.)
Nearest(p, q) ==
  \E i \in 1..Len(Above[p]) :
    Above[p][i] = q /\ src[q] # 0 /\ \A j \in 1..(i - 1) : src[Above[p][j]] = 0
OwnerBelow(p) ==
  IF \E q \in Pkgs \ {Root} : Nearest(p, q) THEN CHOOSE q \in Pkgs : Nearest(p, q) ELSE None
Owner(p) ==
  IF \E q \in Pkgs : Nearest(p, q) THEN CHOOSE q \in Pkgs : Nearest(p, q) ELSE None

\* The packages of a batch.
Owners(paths)    == {Owner(p) : p \in paths \cap Pkgs} \ {None}

\* golang.reader: the edges of p when R is loaded.  Calls are resolved in R alone,
\* interfaces also in what R imports.
Edges(p, R) ==
  LET universe == R \cup UNION {Imports[q] : q \in R}
  IN  {q \in Present : \/ q \in R /\ <<p, q>> \in Calls
                       \/ q \in universe /\ <<p, q>> \in Satisfies}

-----------------------------------------------------------------------------
(* The worktree and its watches (external: editors, git and inotify). *)

\* A change of s is an event if the directory of s is watched.
Notice(s) ==
  IF dir[Home(s)] = "watched"
    THEN queued' = queued \cup {s} /\ excused' = excused \ {s}
    ELSE UNCHANGED queued /\ excused' = excused \cup {s}

Edited == edits < MaxEdits /\ edits' = edits + 1

outsideVars == <<batchVars, saveVars, modelVars, cacheVars, pending, stage, cancelled, scanned,
                 told, stops>>

Write(s) ==
  /\ Edited
  /\ dir[Home(s)] # "absent"
  /\ src' = [src EXCEPT ![s] = edits']
  /\ Notice(s)
  /\ UNCHANGED <<dir, made, outsideVars>>

Remove(s) ==
  /\ Edited
  /\ src[s] # 0
  /\ src' = [src EXCEPT ![s] = 0]
  /\ Notice(s)
  /\ UNCHANGED <<dir, made, outsideVars>>

MakeDir(p) ==
  /\ Edited
  /\ dir[p] = "absent"
  /\ dir[Parent(p)] # "absent"
  /\ dir' = [dir EXCEPT ![p] = "bare"]
  /\ made' = IF dir[Parent(p)] = "watched" THEN made \cup {p} ELSE made
  /\ UNCHANGED <<src, queued, excused, outsideVars>>

RemoveDir(p) ==
  /\ Edited
  /\ p # Root /\ src[p] = 0 /\ dir[p] # "absent"
  /\ \A q \in Pkgs \ {p} : Parent(q) = p => dir[q] = "absent"
  /\ dir' = [dir EXCEPT ![p] = "absent"]
  /\ UNCHANGED <<src, made, queued, excused, outsideVars>>

\* saveSourceFile in the review UI (adapter/http/source.go): the hash fits and the file
\* is written.  A package has one save at a time.
SaveFile(p) ==
  /\ stage \in Serving
  /\ Edited
  /\ src[p] # 0 /\ p \notin saves
  /\ src' = [src EXCEPT ![p] = edits']
  /\ saves' = saves \cup {p}
  /\ Notice(p)
  /\ UNCHANGED <<dir, made, pending, batchVars, storing, unsaid, modelVars, cacheVars, stage,
                 cancelled, scanned, told, stops>>

Edit ==
  \/ \E p \in Saveable : SaveFile(p)
  \/ \E s \in Sources : Write(s) \/ Remove(s)
  \/ \E p \in Pkgs : MakeDir(p) \/ RemoveDir(p)

-----------------------------------------------------------------------------
(* State.Load. *)

Start ==
  /\ stage = "down"
  /\ stage' = "start"
  /\ UNCHANGED <<treeVars, eventVars, batchVars, saveVars, modelVars, cacheVars, cancelled, scanned,
                 told, excused, stops>>

\* readModelCache: the cache is there and fits, and the sources are scanned.
Scan ==
  /\ stage = "start"
  /\ cached
  /\ scanned' = [p \in Pkgs |-> src[p]]
  /\ stage' = "read"
  /\ UNCHANGED <<treeVars, eventVars, batchVars, saveVars, modelVars, cacheVars, cancelled, told,
                 excused, stops>>

\* The packages whose stamps differ.  (StaleIfKnown: of those in the cache.)
StaleIfKnown == {p \in Pkgs : scanned[p] # 0 /\ cstamp[p] \notin {0, scanned[p]}}
Stale == {p \in Pkgs : scanned[p] # 0 /\ cstamp[p] # scanned[p]}

\* A write of the cache succeeds, or fails and is only logged.
Saved(o, e, stamps) ==
  \/ /\ cached' = TRUE /\ saved' = TRUE
     /\ cown' = [p \in Pkgs |-> o[p]] /\ cseen' = e /\ cstamp' = stamps
  \/ saved' = FALSE /\ UNCHANGED <<cached, cown, cseen, cstamp>>

\* It reads the stale ones, takes the others from the cache, and writes the cache
\* with the stamps of the scan.  The load can be wrong about a package edited since
\* the scan, and about one that was cached with the stamps of another version.
ReadStale ==
  /\ stage = "read"
  /\ Stale = {} \/ Stale \cap Present # {}
  /\ own' = [s \in Sources |-> IF s = Overlay \/ (s \in Pkgs /\ scanned[s] = 0) THEN 0
                               ELSE IF s \in Stale THEN src[s] ELSE cown[s]]
  /\ seen' = [p \in Pkgs |-> IF scanned[p] = 0 \/ (p \in Stale /\ src[p] = 0) THEN {}
                             ELSE IF p \in Stale THEN Edges(p, Stale) ELSE cseen[p]]
  /\ Saved(own', seen', scanned)
  /\ excused' = {p \in Pkgs \ Stale : src[p] # scanned[p] \/ cown[p] # cstamp[p]}
                  \cup (excused \cap {Overlay})
  /\ stage' = "overlay"
  /\ UNCHANGED <<treeVars, eventVars, batchVars, saveVars, cancelled, scanned, told, stops>>

\* readAllUncached: there is no cache, or it is rejected (another binary, go.mod
\* changed, unreadable), or its stale packages could not be read.
ReadAll ==
  /\ stage \in {"start", "read"}
  /\ own' = [s \in Sources |-> IF s = Overlay THEN 0 ELSE src[s]]
  /\ seen' = [p \in Pkgs |-> IF src[p] = 0 THEN {} ELSE Edges(p, Present)]
  /\ excused' = excused \cap {Overlay}
  /\ stage' = "stamp"
  /\ UNCHANGED <<treeVars, eventVars, batchVars, saveVars, cacheVars, cancelled, scanned, told,
                 stops>>

\* writeModelCache of a State: it takes the stamps of all packages now.
SaveModels == Saved(own, seen, [p \in Pkgs |-> src[p]])

SaveAll ==
  /\ stage = "stamp"
  /\ SaveModels
  /\ stage' = "overlay"
  /\ UNCHANGED <<treeVars, eventVars, batchVars, saveVars, modelVars, cancelled, scanned, told,
                 excused, stops>>

\* reloadOverlayLocked; with it Load is over, and the State can be subscribed to.
ReadOverlay ==
  /\ stage = "overlay"
  /\ own' = [own EXCEPT ![Overlay] = src[Overlay]]
  /\ told' = own'
  /\ excused' = excused \ {Overlay}
  /\ stage' = "watch"
  /\ UNCHANGED <<treeVars, eventVars, batchVars, saveVars, seen, cacheVars, cancelled, scanned,
                 stops>>

\* NewWatcher, and Run.
Watch ==
  /\ stage = "watch"
  /\ dir' = [p \in Pkgs |-> IF dir[p] = "absent" THEN "absent" ELSE "watched"]
  /\ stage' = "idle"
  /\ UNCHANGED <<src, edits, eventVars, batchVars, saveVars, modelVars, cacheVars, cancelled, scanned,
                 told, excused, stops>>

Load == Start \/ Scan \/ ReadStale \/ ReadAll \/ SaveAll \/ ReadOverlay \/ Watch

-----------------------------------------------------------------------------
(* Watcher.Run. *)

\* The creation of a directory: addTree watches it and what is below it by now.
TakeDir(p) ==
  /\ stage = "idle"
  /\ p \in made
  /\ made' = made \ {p}
  /\ dir' = [q \in Pkgs |->
               IF /\ dir[p] # "absent" /\ dir[q] = "bare"
                  /\ \E i \in 1..Len(Above[q]) : Above[q][i] = p
                 THEN "watched" ELSE dir[q]]
  /\ UNCHANGED <<src, edits, queued, pending, batchVars, saveVars, modelVars, cacheVars, stage,
                 cancelled, scanned, told, excused, stops>>

TakeFile(s) ==
  /\ stage = "idle"
  /\ s \in queued
  /\ queued' = queued \ {s}
  /\ pending' = pending \cup {s}
  /\ UNCHANGED <<treeVars, made, batchVars, saveVars, modelVars, cacheVars, stage, cancelled, scanned,
                 told, excused, stops>>

\* flush, when the debounce window ends or the context does; the handler starts by
\* finding the packages of the batch.
Flush ==
  /\ stage = "idle"
  /\ pending # {}
  /\ todo' = Owners(pending)
  /\ dirty' = (Overlay \in pending)
  /\ pending' = {}
  /\ stage' = "batch"
  /\ UNCHANGED <<treeVars, made, queued, changed, saveVars, modelVars, cacheVars, cancelled, scanned,
                 told, excused, stops>>

-----------------------------------------------------------------------------
(* The handler: ReloadPackage for each package, then the overlay. *)

\* The parsed package is spliced in and the cache written, unless nothing moved.
\* (SplicedInMemory: the cache is left to the next load.)
SplicedInMemory(p, v, e) ==
  /\ own' = [own EXCEPT ![p] = v]
  /\ seen' = [seen EXCEPT ![p] = e]
  /\ changed' = IF own[p] = v /\ seen[p] = e THEN changed ELSE changed \cup {p}
  /\ UNCHANGED stage
Spliced(p, v, e) ==
  /\ own' = [own EXCEPT ![p] = v]
  /\ seen' = [seen EXCEPT ![p] = e]
  /\ IF own[p] = v /\ seen[p] = e
       THEN UNCHANGED <<changed, stage>>
       ELSE changed' = changed \cup {p} /\ stage' = "save"

\* The reader is asked for the one package.
Reload(p) ==
  /\ stage = "batch" /\ storing = None
  /\ p \in todo
  /\ ~cancelled /\ src[p] # 0
  /\ todo' = todo \ {p}
  /\ excused' = excused \ {p}
  /\ Spliced(p, src[p], Edges(p, {p}))
  /\ UNCHANGED <<treeVars, eventVars, dirty, saveVars, cacheVars, cancelled, scanned, told,
                 stops>>

\* The read failed: the package is dropped.  (DroppedQuietly: no change reported.)
DroppedQuietly(p) ==
  /\ own' = [own EXCEPT ![p] = 0]
  /\ seen' = [seen EXCEPT ![p] = {}]
  /\ stage' = IF own[p] = 0 THEN stage ELSE "save"
  /\ UNCHANGED changed
Dropped(p) ==
  IF own[p] = 0
    THEN UNCHANGED <<modelVars, changed, stage>>
    ELSE /\ own' = [own EXCEPT ![p] = 0]
         /\ seen' = [seen EXCEPT ![p] = {}]
         /\ changed' = changed \cup {p}
         /\ stage' = "save"

\* The files are gone, the context is cancelled, or go list fails.
ReloadFails(p) ==
  /\ stage = "batch" /\ storing = None
  /\ p \in todo
  /\ todo' = todo \ {p}
  /\ excused' = excused \cup {p}
  /\ Dropped(p)
  /\ UNCHANGED <<treeVars, eventVars, dirty, saveVars, cacheVars, cancelled, scanned, told,
                 stops>>

Save ==
  /\ stage = "save"
  /\ SaveModels
  /\ stage' = "batch"
  /\ UNCHANGED <<treeVars, eventVars, batchVars, saveVars, modelVars, cancelled, scanned, told,
                 excused, stops>>

\* PublishPackageReload, once for the batch; subscribers read the snapshot.
Publish ==
  /\ stage = "batch" /\ storing = None
  /\ todo = {}
  /\ changed # {}
  /\ told' = own
  /\ changed' = {}
  /\ UNCHANGED <<treeVars, eventVars, todo, dirty, saveVars, modelVars, cacheVars, stage, cancelled,
                 scanned, excused, stops>>

\* ReloadOverlay and PublishOverlayReload; a bad document keeps the old overlay.
ReloadOverlay ==
  /\ stage = "batch" /\ storing = None
  /\ todo = {} /\ changed = {} /\ dirty
  /\ dirty' = FALSE
  /\ \/ /\ own' = [own EXCEPT ![Overlay] = src[Overlay]]
        /\ told' = own'
        /\ excused' = excused \ {Overlay}
     \/ /\ UNCHANGED <<own, told>>
        /\ excused' = excused \cup {Overlay}
  /\ UNCHANGED <<treeVars, eventVars, todo, changed, saveVars, seen, cacheVars, stage, cancelled,
                 scanned, stops>>

EndBatch ==
  /\ stage = "batch"
  /\ todo = {} /\ changed = {} /\ ~dirty
  /\ stage' = "idle"
  /\ UNCHANGED <<treeVars, eventVars, batchVars, saveVars, modelVars, cacheVars, cancelled, scanned,
                 told, excused, stops>>

Run ==
  \/ \E p \in Pkgs : TakeDir(p) \/ Reload(p) \/ ReloadFails(p)
  \/ \E s \in Sources : TakeFile(s)
  \/ Flush \/ Save \/ Publish \/ ReloadOverlay \/ EndBatch

-----------------------------------------------------------------------------
(* The rest of a save, beside the watcher: reloadSourceOwner.                   *)

\* FindOwningPackage, asked once the file is written: others may take it away again.
Found(p) == {p, Owner(p)} \ {None}

\* ReloadPackage under State.mu, and what it changed is stored before it is released.
Reparse(p, q, v, e) ==
  /\ saves' = saves \ {p}
  /\ own' = [own EXCEPT ![q] = v]
  /\ seen' = [seen EXCEPT ![q] = e]
  /\ storing' = IF own[q] = v /\ seen[q] = e THEN None ELSE q
  /\ UNCHANGED <<treeVars, eventVars, batchVars, unsaid, cacheVars, stage, cancelled, scanned,
                 told, stops>>

MayReload(p) == p \in saves /\ stage # "save" /\ storing = None

SaveReloads(p) ==
  /\ MayReload(p)
  /\ \E q \in Found(p) :
       src[q] # 0 /\ Reparse(p, q, src[q], Edges(q, {q})) /\ excused' = excused \ {q}

\* The request is over, the files are gone, or go list fails.
SaveReloadFails(p) ==
  /\ MayReload(p)
  /\ \E q \in Found(p) :
       /\ Reparse(p, q, 0, IF own[q] = 0 THEN seen[q] ELSE {})
       /\ excused' = excused \cup {q}

\* No directory above has Go files any more.
SaveIsNobodys(p) ==
  /\ p \in saves
  /\ Owner(p) = None
  /\ saves' = saves \ {p}
  /\ UNCHANGED <<treeVars, eventVars, batchVars, storing, unsaid, modelVars, cacheVars, stage,
                 cancelled, scanned, told, excused, stops>>

SaveStores ==
  /\ storing # None
  /\ SaveModels
  /\ unsaid' = unsaid \cup {storing}
  /\ storing' = None
  /\ UNCHANGED <<treeVars, eventVars, batchVars, saves, modelVars, stage, cancelled, scanned,
                 told, excused, stops>>

SavePublishes(p) ==
  /\ stage # "save" /\ storing = None
  /\ p \in unsaid
  /\ unsaid' = unsaid \ {p}
  /\ told' = own
  /\ UNCHANGED <<treeVars, eventVars, batchVars, saves, storing, modelVars, cacheVars, stage,
                 cancelled, scanned, excused, stops>>

Handle ==
  \/ \E p \in Saveable : SaveReloads(p) \/ SaveReloadFails(p) \/ SaveIsNobodys(p)
  \/ \E p \in Pkgs : SavePublishes(p)
  \/ SaveStores

-----------------------------------------------------------------------------
(* The end of the daemon. *)

\* The model, the watches and the events are gone.
Down ==
  /\ stage' = "down"
  /\ cancelled' = FALSE
  /\ own' = NoModel /\ seen' = NoEdges /\ told' = NoModel
  /\ made' = {} /\ queued' = {} /\ pending' = {}
  /\ todo' = {} /\ dirty' = FALSE /\ changed' = {}
  /\ saves' = {} /\ storing' = None /\ unsaid' = {}
  /\ dir' = [p \in Pkgs |-> IF dir[p] = "watched" THEN "bare" ELSE dir[p]]
  /\ UNCHANGED <<src, edits, cacheVars, scanned, excused>>

\* A signal or the idle monitor cancels the context of a watching daemon.
Cancel ==
  /\ stage \in {"idle", "batch", "save"}
  /\ ~cancelled
  /\ stops < MaxStops
  /\ cancelled' = TRUE
  /\ stops' = stops + 1
  /\ UNCHANGED <<treeVars, eventVars, batchVars, saveVars, modelVars, cacheVars, stage,
                 scanned, told, excused>>

\* Run returns, with nothing left to flush.
Exit ==
  /\ stage = "idle"
  /\ cancelled
  /\ pending = {}
  /\ Down
  /\ UNCHANGED stops

\* A crash, a load that fails or is cancelled.
Crash ==
  /\ stage # "down"
  /\ stops < MaxStops
  /\ stops' = stops + 1
  /\ Down

Init ==
  /\ src \in [Sources -> {0, 1}]
  /\ dir \in [Pkgs -> {"absent", "bare"}]
  /\ \A p \in Pkgs : dir[p] = "absent" => src[p] = 0 /\ p # Root
  /\ \A p \in Pkgs : dir[Parent(p)] = "absent" => dir[p] = "absent"
  /\ made = {} /\ queued = {} /\ pending = {}
  /\ todo = {} /\ dirty = FALSE /\ changed = {}
  /\ saves = {} /\ storing = None /\ unsaid = {}
  /\ stage = "down" /\ cancelled = FALSE
  /\ own = NoModel /\ seen = NoEdges /\ told = NoModel
  /\ scanned = [p \in Pkgs |-> 0]
  /\ cached = FALSE /\ saved = TRUE
  /\ cown = [p \in Pkgs |-> 0] /\ cseen = NoEdges /\ cstamp = [p \in Pkgs |-> 0]
  /\ excused = {}
  /\ edits = 1 /\ stops = 0

Daemon == Load \/ Run \/ Exit

Next == Edit \/ Daemon \/ Handle \/ Cancel \/ Crash

Spec == Init /\ [][Next]_vars

-----------------------------------------------------------------------------
(* Properties. *)

TypeOK ==
  /\ src \in [Sources -> Nat] /\ own \in [Sources -> Nat] /\ told \in [Sources -> Nat]
  /\ dir \in [Pkgs -> {"absent", "bare", "watched"}]
  /\ made \subseteq Pkgs /\ queued \subseteq Sources /\ pending \subseteq Sources
  /\ todo \subseteq Pkgs /\ changed \subseteq Pkgs
  /\ saves \subseteq Pkgs /\ storing \in Pkgs \cup {None} /\ unsaid \subseteq Pkgs
  /\ dirty \in BOOLEAN /\ cancelled \in BOOLEAN /\ cached \in BOOLEAN /\ saved \in BOOLEAN
  /\ stage \in Stage
  /\ seen \in [Pkgs -> SUBSET Pkgs] /\ cseen \in [Pkgs -> SUBSET Pkgs]
  /\ scanned \in [Pkgs -> Nat] /\ cown \in [Pkgs -> Nat] /\ cstamp \in [Pkgs -> Nat]
  /\ excused \subseteq Sources
  /\ edits \in Nat /\ stops \in Nat

\* s is in an event, in the batch that is forming, or in the one being handled.
OnTheWay(s) == s \in queued \/ s \in pending \/ s \in todo \/ (s = Overlay /\ dirty)

\* A package that is there, or the overlay.
Exists(s) == s = Overlay \/ src[s] # 0

\* The watcher, "so in-flight edits are not silently lost": while the daemon serves,
\* a source that is not what the model shows is on its way to it, unless nobody could
\* know: it changed where no watch was, could not be read, or came from a cache that
\* was stamped while it was behind.
NoEditIsLost ==
  stage \in Serving =>
    \A s \in Sources : Exists(s) /\ own[s] # src[s] => OnTheWay(s) \/ s \in excused

\* ReloadPackage has two callers, the watcher's batches and saves, and "Callers publish
\* model-changed only when this is true": between batches subscribers have been told of
\* all but what a save in flight has changed, whoever reloaded a package first, and
\* also after reads that failed and packages that were dropped.
SubscribersAreTold ==
  stage = "idle" => \A s \in Sources : own[s] # told[s] => s \in unsaid \/ s = storing

\* ReloadPackage stamps all packages and has parsed one: a package that was behind
\* then is in the cache under stamps of a version nobody parsed.  When its event has
\* been handled that is over: what a crash leaves is what a start would parse.
NextStartIsCurrent ==
  stage = "idle" /\ storing = None /\ saved =>
    \A p \in Present :
      ~OnTheWay(p) /\ p \notin excused /\ cstamp[p] = src[p] => cown[p] = src[p]

-----------------------------------------------------------------------------
(* The inductive invariant. *)

\* What a load has read is right or excused, first the packages, then the overlay.
LoadsAreRight ==
  stage \in {"stamp", "overlay"} =>
    \A p \in Pkgs : own[p] # src[p] => src[p] = 0 \/ p \in excused

\* No directory is watched until the load is over.
NothingIsWatched ==
  stage \in {"down", "watch"} \cup Loading => \A p \in Pkgs : dir[p] # "watched"

\* A package the subscribers have not been told of is in the running batch or in the
\* hands of a save.
BatchKnows ==
  /\ stage \in Serving =>
       \A s \in Sources : own[s] # told[s] => s \in changed \cup unsaid \/ s = storing
  /\ stage \notin {"batch", "save"} => changed = {} /\ todo = {} /\ ~dirty
  /\ stage \notin Serving => saves = {} /\ storing = None /\ unsaid = {}

\* Except between a change and its save, the cache holds the model.
CacheHoldsModel ==
  stage \in {"overlay", "watch", "idle", "batch"} /\ storing = None /\ saved =>
    \A p \in Pkgs : cown[p] = own[p]

IInv ==
  /\ TypeOK
  /\ NoEditIsLost /\ LoadsAreRight /\ NothingIsWatched /\ BatchKnows /\ CacheHoldsModel

-----------------------------------------------------------------------------
(* Liveness. *)

\* The daemon is one goroutine at a time beside those of saves: parsing and writing
\* return, a debounce window ends once nobody edits.
FairSpec == Spec /\ WF_vars(Daemon) /\ WF_vars(Handle)

\* An edit somebody noticed reaches the model, unless the daemon ends first, the
\* package goes, or it changes out of sight or cannot be read.
EditsAreServed ==
  \A s \in Sources :
    OnTheWay(s) ~> (stage \notin Serving \/ ~Exists(s) \/ own[s] = src[s] \/ s \in excused)

=============================================================================
