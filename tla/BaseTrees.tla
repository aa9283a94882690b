------------------------------ MODULE BaseTrees ------------------------------
(***************************************************************************)
(* The models of review bases: baseTrees (serve/basetree.go).  A revision   *)
(* is exported into a directory of its own, parsed there once, and kept in  *)
(* memory and on disk until it is the least recently requested of more than *)
(* Limit revisions.                                                         *)
(*                                                                         *)
(* A load is a baseTreeLoad with the goroutine that fills it; Loads is a    *)
(* pool of them.  A directory is the set of the files it holds, and a model *)
(* the set of source files it was parsed from.  The parse itself is one     *)
(* read of the directory: a removal amid its reads shows as one before it.  *)
(***************************************************************************)
EXTENDS Naturals, Sequences, FiniteSets

CONSTANTS
  Revs,       \* commits
  Files,      \* the source files of a commit's tree
  CacheFile,  \* .archai/cache/go-model.json, which a parse leaves in the tree
  Loads,      \* the pool of baseTreeLoad values
  Callers,    \* goroutines that call Models
  Limit,      \* baseTrees.limit
  None

ASSUME LimitAssumption == Limit \in Nat \ {0}
ASSUME FileAssumption  == Files # {} /\ CacheFile \notin Files
ASSUME RevAssumption   == Revs # {}
ASSUME NoneAssumption  == None \notin Revs \cup Loads

VARIABLES
  loads,      \* baseTrees.loads
  order,      \* baseTrees.order
  stage,      \* where the call or goroutine of each load stands
  rev,        \* its revision
  victim,     \* the revision its call evicted
  doomed,     \* the files RemoveAll has listed in the victim's directory
  models,     \* baseTreeLoad.models
  failed,     \* baseTreeLoad.err # nil
  owner,      \* the caller whose context the load runs under, None once it ended
  exists,     \* the directory of a revision exists
  tree,       \* the files in it
  removed,    \* history: revisions that were ever evicted
  waits       \* the load each caller waits on

mapVars  == <<loads, order>>
loadVars == <<stage, rev, victim, doomed, models, failed, owner>>
diskVars == <<exists, tree>>
vars == <<loads, order, stage, rev, victim, doomed, models, failed, owner,
          exists, tree, removed, waits>>

-----------------------------------------------------------------------------
(* The map and its order. *)

Removing == {"open", "remove"}
Working  == {"stat", "export", "rename", "restat", "parse", "cache", "close"}
Stage    == Removing \cup Working \cup {"forget", "done"}

Closed(l) == stage[l] \in {"forget", "done"}

\* No map entry and no goroutine refers to the load: its value may be used again.
Unreferenced(l) ==
  stage[l] = "done" /\ (\A r \in Revs : loads[r] # l) /\ (\A c \in Callers : waits[c] # l)

\* dropOrderLocked: s without the first r.
Without(s, r) ==
  IF \A i \in 1..Len(s) : s[i] # r THEN s
  ELSE LET first == CHOOSE i \in 1..Len(s) : s[i] = r /\ \A j \in 1..(i - 1) : s[j] # r
       IN  [i \in 1..(Len(s) - 1) |-> IF i < first THEN s[i] ELSE s[i + 1]]

\* touchLocked.
Touched(r) == Append(Without(order, r), r)

\* evictLocked, once r is the newest: what it evicts.
Evicted(r) == IF Len(Touched(r)) > Limit THEN Head(Touched(r)) ELSE None

\* What a caller that takes it over finds in a directory that may be absent.
Listed(r) == IF r # None /\ exists[r] THEN tree[r] ELSE {}

-----------------------------------------------------------------------------
(* Models: its critical section, then the removal, then the goroutine. *)

\* A load of the revision is there, finished or not.
Join(c, r) ==
  /\ waits[c] = None
  /\ loads[r] # None
  /\ order' = Touched(r)
  /\ waits' = [waits EXCEPT ![c] = loads[r]]
  /\ UNCHANGED <<loads, loadVars, diskVars, removed>>

Start(c, r, l) ==
  /\ waits[c] = None
  /\ loads[r] = None
  /\ Unreferenced(l)
  /\ LET v == Evicted(r) IN
       /\ loads' = [x \in Revs |-> IF x = v THEN None ELSE IF x = r THEN l ELSE loads[x]]
       /\ order' = IF v = None THEN Touched(r) ELSE Tail(Touched(r))
       /\ victim' = [victim EXCEPT ![l] = v]
       /\ removed' = removed \cup ({v} \ {None})
       /\ stage' = [stage EXCEPT ![l] = IF v = None THEN "stat" ELSE "open"]
  /\ rev' = [rev EXCEPT ![l] = r]
  /\ models' = [models EXCEPT ![l] = {}]
  /\ failed' = [failed EXCEPT ![l] = FALSE]
  /\ owner' = [owner EXCEPT ![l] = c]
  /\ waits' = [waits EXCEPT ![c] = l]
  /\ UNCHANGED <<doomed, diskVars>>

At(l, from) == stage[l] = from
Goto(l, to) == stage' = [stage EXCEPT ![l] = to]
Fail(l)     == Goto(l, "close") /\ failed' = [failed EXCEPT ![l] = TRUE]

\* os.RemoveAll of the victim's directory, by the caller, without the lock: it
\* lists the files, removes each, and then the directory if it is empty.
OpenVictim(l) ==
  /\ At(l, "open")
  /\ Goto(l, "remove")
  /\ doomed' = [doomed EXCEPT ![l] = Listed(victim[l])]
  /\ UNCHANGED <<mapVars, rev, victim, models, failed, owner, diskVars, removed, waits>>

RemoveFile(l, f) ==
  /\ At(l, "remove")
  /\ f \in doomed[l]
  /\ doomed' = [doomed EXCEPT ![l] = @ \ {f}]
  /\ tree' = [tree EXCEPT ![victim[l]] = @ \ {f}]
  /\ UNCHANGED <<mapVars, stage, rev, victim, models, failed, owner, exists, removed, waits>>

RemoveDir(l) ==
  /\ At(l, "remove")
  /\ doomed[l] = {}
  /\ exists' = [exists EXCEPT ![victim[l]] = @ /\ tree[victim[l]] # {}]
  /\ Goto(l, "stat")
  /\ victim' = [victim EXCEPT ![l] = None]
  /\ UNCHANGED <<mapVars, rev, doomed, models, failed, owner, tree, removed, waits>>

-----------------------------------------------------------------------------
(* The goroutine: read, materialize, and the end of Models. *)

\* materialize: a directory that is there is taken as it is.
Stat(l) ==
  /\ At(l, "stat")
  /\ Goto(l, IF exists[rev[l]] THEN "parse" ELSE "export")
  /\ UNCHANGED <<mapVars, rev, victim, doomed, models, failed, owner, diskVars, removed, waits>>

\* git.ExportTree into a staging directory of the load's own.  A failure at any
\* file removes the staging directory.  (ExportInPlace: into the final one.)
ExportInPlace(l) ==
  /\ At(l, "export")
  /\ exists' = [exists EXCEPT ![rev[l]] = TRUE]
  /\ \E some \in SUBSET Files :
       /\ tree' = [tree EXCEPT ![rev[l]] = @ \cup some]
       /\ IF some = Files THEN Goto(l, "parse") /\ UNCHANGED failed ELSE Fail(l)
  /\ UNCHANGED <<mapVars, rev, victim, doomed, models, owner, removed, waits>>
Export(l) ==
  /\ At(l, "export")
  /\ \/ Goto(l, "rename") /\ UNCHANGED failed
     \/ Fail(l)
  /\ UNCHANGED <<mapVars, rev, victim, doomed, models, owner, diskVars, removed, waits>>

\* os.Rename moves the staging directory to its place; Go refuses a place that is a
\* directory, also an empty one.
Rename(l) ==
  /\ At(l, "rename")
  /\ IF exists[rev[l]]
       THEN Goto(l, "restat") /\ UNCHANGED diskVars
       ELSE /\ Goto(l, "parse")
            /\ exists' = [exists EXCEPT ![rev[l]] = TRUE]
            /\ tree' = [tree EXCEPT ![rev[l]] = Files]
  /\ UNCHANGED <<mapVars, rev, victim, doomed, models, failed, owner, removed, waits>>

\* Another load may have published the revision.
Restat(l) ==
  /\ At(l, "restat")
  /\ IF exists[rev[l]] THEN Goto(l, "parse") /\ UNCHANGED failed ELSE Fail(l)
  /\ UNCHANGED <<mapVars, rev, victim, doomed, models, owner, diskVars, removed, waits>>

\* The packages of what is in a directory.
Parsed(r) == tree[r] \cap Files

\* State.readAll succeeds on what the directory holds (a model cache that is still
\* valid yields the same models and does not ask the context), or fails.
Parse(l) ==
  /\ At(l, "parse")
  /\ exists[rev[l]]
  /\ owner[l] = None => CacheFile \in tree[rev[l]]
  /\ models' = [models EXCEPT ![l] = Parsed(rev[l])]
  /\ Goto(l, "cache")
  /\ UNCHANGED <<mapVars, rev, victim, doomed, failed, owner, diskVars, removed, waits>>

ParseFails(l) ==
  /\ At(l, "parse")
  /\ Fail(l)
  /\ UNCHANGED <<mapVars, rev, victim, doomed, models, owner, diskVars, removed, waits>>

\* writeModelCache makes the directories it needs; it is skipped when the cache is
\* up to date, and its failure is only logged.
WriteCache(l) ==
  /\ At(l, "cache")
  /\ Goto(l, "close")
  /\ \/ /\ exists' = [exists EXCEPT ![rev[l]] = TRUE]
        /\ tree' = [tree EXCEPT ![rev[l]] = @ \cup {CacheFile}]
     \/ UNCHANGED diskVars
  /\ UNCHANGED <<mapVars, rev, victim, doomed, models, failed, owner, removed, waits>>

\* close(load.done).  (CloseQuietly: only a success is announced.)
CloseQuietly(l) ==
  /\ At(l, "close")
  /\ ~failed[l]
  /\ Goto(l, "done")
  /\ UNCHANGED <<mapVars, rev, victim, doomed, models, failed, owner, diskVars, removed, waits>>
CloseDone(l) ==
  /\ At(l, "close")
  /\ Goto(l, IF failed[l] THEN "forget" ELSE "done")
  /\ UNCHANGED <<mapVars, rev, victim, doomed, models, failed, owner, diskVars, removed, waits>>

\* The second critical section of a failed load.  (ForgetAny: it does not compare
\* the load.)
ForgetAny(l)   == loads' = [loads EXCEPT ![rev[l]] = None] /\ order' = Without(order, rev[l])
ForgetFailed(l) ==
  IF loads[rev[l]] = l
    THEN loads' = [loads EXCEPT ![rev[l]] = None] /\ order' = Without(order, rev[l])
    ELSE UNCHANGED mapVars

Forget(l) ==
  /\ At(l, "forget")
  /\ ForgetFailed(l)
  /\ Goto(l, "done")
  /\ UNCHANGED <<rev, victim, doomed, models, failed, owner, diskVars, removed, waits>>

Run(l) ==
  \/ OpenVictim(l) \/ (\E f \in doomed[l] : RemoveFile(l, f)) \/ RemoveDir(l)
  \/ Stat(l) \/ Export(l) \/ Rename(l) \/ Restat(l)
  \/ Parse(l) \/ ParseFails(l) \/ WriteCache(l) \/ CloseDone(l) \/ Forget(l)

-----------------------------------------------------------------------------
(* waitBaseTree, and the end of the process. *)

\* The call returns, and with it the request whose context it was.
Return(c) ==
  LET l == waits[c] IN
    /\ waits' = [waits EXCEPT ![c] = None]
    /\ owner' = [owner EXCEPT ![l] = IF @ = c THEN None ELSE @]
    /\ UNCHANGED <<mapVars, stage, rev, victim, doomed, models, failed, diskVars, removed>>

Answer(c) == waits[c] # None /\ Closed(waits[c]) /\ Return(c)

\* The context ends first; not while the caller itself is removing a directory.
Cancel(c) ==
  /\ waits[c] # None
  /\ owner[waits[c]] = c => stage[waits[c]] \notin Removing
  /\ Return(c)

\* The daemon stops or crashes, and a new one starts on the same directory.  A
\* staging directory left behind has a name of its own, which nothing reads.
Restart ==
  /\ loads' = [r \in Revs |-> None]
  /\ order' = <<>>
  /\ stage' = [l \in Loads |-> "done"]
  /\ failed' = [l \in Loads |-> failed[l] \/ ~Closed(l)]
  /\ victim' = [l \in Loads |-> None]
  /\ doomed' = [l \in Loads |-> {}]
  /\ owner' = [l \in Loads |-> None]
  /\ waits' = [c \in Callers |-> None]
  /\ UNCHANGED <<rev, models, diskVars, removed>>

Init ==
  /\ loads = [r \in Revs |-> None]
  /\ order = <<>>
  /\ stage = [l \in Loads |-> "done"]
  /\ rev = [l \in Loads |-> CHOOSE r \in Revs : TRUE]
  /\ victim = [l \in Loads |-> None]
  /\ doomed = [l \in Loads |-> {}]
  /\ models = [l \in Loads |-> {}]
  /\ failed = [l \in Loads |-> TRUE]
  /\ owner = [l \in Loads |-> None]
  /\ exists = [r \in Revs |-> FALSE]
  /\ tree = [r \in Revs |-> {}]
  /\ removed = {}
  /\ waits = [c \in Callers |-> None]

Next ==
  \/ \E c \in Callers, r \in Revs : Join(c, r) \/ \E l \in Loads : Start(c, r, l)
  \/ \E l \in Loads : Run(l)
  \/ \E c \in Callers : Answer(c) \/ Cancel(c)
  \/ Restart

Spec == Init /\ [][Next]_vars

-----------------------------------------------------------------------------
(* Properties. *)

TypeOK ==
  /\ loads \in [Revs -> Loads \cup {None}]
  /\ order \in Seq(Revs)
  /\ stage \in [Loads -> Stage]
  /\ rev \in [Loads -> Revs]
  /\ victim \in [Loads -> Revs \cup {None}]
  /\ doomed \in [Loads -> SUBSET (Files \cup {CacheFile})]
  /\ models \in [Loads -> SUBSET Files]
  /\ failed \in [Loads -> BOOLEAN]
  /\ owner \in [Loads -> Callers \cup {None}]
  /\ exists \in [Revs -> BOOLEAN]
  /\ tree \in [Revs -> SUBSET (Files \cup {CacheFile})]
  /\ removed \subseteq Revs
  /\ waits \in [Callers -> Loads \cup {None}]

\* baseTrees.order: it lists the cached revisions, each once, and no more than the
\* limit of them.  A revision left in it after its load was forgotten would be
\* evicted in the place of one that is cached.
OrderListsLoads ==
  /\ \A r \in Revs : loads[r] # None <=> \E i \in 1..Len(order) : order[i] = r
  /\ \A i, j \in 1..Len(order) : order[i] = order[j] => i = j
  /\ Len(order) <= Limit

\* Models, "A failed load must not be cached": once a failed load has ended, no
\* request can join it, whatever was evicted, requested again or restarted.
FailuresAreForgotten ==
  \A r \in Revs : loads[r] # None /\ stage[loads[r]] = "done" => ~failed[loads[r]]

\* Models, "Concurrent callers for the same revision collapse onto one load": a
\* load that others could join leaves the map only as the victim of a later request,
\* never the one just started, or by its own failure, never by another load's.
SharedStep ==
  \A r \in Revs : loads[r] # None /\ loads'[r] # loads[r] =>
    \/ loads'[r] = None /\ failed[loads[r]] /\ stage[loads[r]] = "forget"
    \/ \E x \in Revs : loads[x] = None /\ loads'[x] # None /\ order'[Len(order')] = x
    \/ loads' = [x \in Revs |-> None] /\ \A l \in Loads : stage'[l] = "done"

LoadsAreShared == [][SharedStep]_vars

\* materialize, "atomically: the tree is written to a temporary sibling and renamed,
\* so an interrupted export can never be mistaken for a complete one": as long as a
\* revision was never evicted its directory is whole or absent, across failures and
\* restarts, and so is every model parsed from it.
ExportsAreAtomic ==
  /\ \A r \in Revs \ removed : exists[r] => Files \subseteq tree[r]
  /\ \A l \in Loads : rev[l] \notin removed /\ Closed(l) /\ ~failed[l] => models[l] = Files

-----------------------------------------------------------------------------
(* The inductive invariant. *)

\* A load is filed under its own revision, and one that has failed is on its way
\* out.
LoadsAgree ==
  /\ \A r \in Revs : loads[r] # None => rev[loads[r]] = r
  /\ \A l \in Loads : stage[l] = "forget" => failed[l]

\* Only evicted revisions are removed.
VictimsAreEvicted ==
  \A l \in Loads :
    /\ victim[l] # None => victim[l] \in removed
    /\ stage[l] \in Removing => victim[l] # None

\* What a load of a revision that was never evicted has found.
LoadsFindTrees ==
  \A l \in Loads : rev[l] \notin removed =>
    /\ stage[l] \in {"parse", "cache"} => exists[rev[l]]
    /\ stage[l] \in {"cache", "close"} /\ ~failed[l] => models[l] = Files

IInv ==
  /\ TypeOK
  /\ OrderListsLoads /\ FailuresAreForgotten /\ ExportsAreAtomic
  /\ LoadsAgree /\ VictimsAreEvicted /\ LoadsFindTrees

-----------------------------------------------------------------------------
(* Liveness. *)

\* git, the parser and the file system return; callers are goroutines.
Fairness ==
  /\ \A l \in Loads : WF_vars(Run(l))
  /\ \A c \in Callers : WF_vars(Answer(c))

FairSpec == Spec /\ Fairness

\* A caller that waits on a load is answered, also when the load was evicted, failed
\* or lost its context meanwhile.
CallersAreAnswered == \A c \in Callers : waits[c] # None ~> waits[c] = None

=============================================================================
