-------------------------------- MODULE Targets --------------------------------
(***************************************************************************)
(* Locked targets of one worktree: the spec files of its packages           *)
(* (service/generate.go, adapter/yaml), the targets made from them and the  *)
(* CURRENT pointer (target/storage.go, worktree.go), the MCP tools of the   *)
(* daemon (adapter/mcp/tools.go) and the commands of the CLI that lock,     *)
(* choose, delete, compare and patch targets (cmd/wyrd/main.go,             *)
(* check/drift.go).                                                        *)
(*                                                                         *)
(* No lock orders tools and commands: every file is a step of its own.  The *)
(* daemon's snapshot is the model of the code.  Commands take the spec      *)
(* files for the code when there are any.                                   *)
(***************************************************************************)
EXTENDS ModelDiff

CONSTANTS
  Ids,       \* targets
  Tools,     \* MCP calls
  Commands,  \* runs of the CLI
  Exported,  \* the keys that are part of the public API
  Doubled,   \* dependencies the Go reader may list twice
  Stored,    \* the shape a definition has when it is read back from YAML
  MaxOps     \* bound: changes of the code, calls and runs

Actors == Tools \cup Commands

ASSUME StoredAssumption == Stored \in [Shapes -> Shapes] /\ \A s \in Shapes : Stored[Stored[s]] = Stored[s]
ASSUME KeysAssumption == Exported \subseteq Keys /\ Doubled \subseteq Keys
ASSUME PackagesAssumption == Packages # {} /\ None \notin [Keys -> Seq(Shapes)]
ASSUME ActorsAssumption == Tools \cap Commands = {} /\ None \notin Ids

VARIABLES
  code,      \* the model of the Go source
  ops,       \* how many changes, calls and runs there were
  pub, int,  \* .arch/pub.yaml and .arch/internal.yaml of each package
  dirs,      \* targets with a directory
  metas,     \* targets with a meta.yaml
  tpub, tint,\* the spec files of each target
  current,   \* the CURRENT pointer
  pointed,   \* the directory of CURRENT exists
  active,    \* State.currentTarget
  watched,   \* the watcher watches that directory
  event,     \* it has an event of CURRENT to deliver
  at,        \* where each call or run is
  id,        \* its target
  todo,      \* packages it still has to write
  new,       \* the model it writes
  patch,     \* the diff computed last
  calm,      \* the call or run that nothing overlapped so far (of an apply: with a fresh diff)
  dangling   \* CURRENT may have lost its target, see CurrentIsATarget

specVars   == <<pub, int>>
targetVars == <<dirs, metas, tpub, tint>>
watchVars  == <<active, watched, event>>
pointerVars == <<current, pointed, watchVars, dangling>>
actorVars  == <<at, id, todo, new, patch, calm>>
vars == <<code, ops, pub, int, dirs, metas, tpub, tint, current, pointed, active, watched, event,
          at, id, todo, new, patch, calm, dangling>>

NoFiles == [p \in Packages |-> None]
Present(files) == {p \in Packages : files[p] # None}

\* toSpec and fromSpec.
Saved(content) == [k \in Keys |-> [n \in DOMAIN content[k] |-> Stored[content[k][n]]]]
Public(content) == [k \in Keys |-> IF k \in Exported THEN content[k] ELSE <<>>]

\* Of two files of a package, the last one read counts, and pub.yaml is read last.
Loaded(pubs, ints) == [p \in Packages |-> IF pubs[p] # None THEN pubs[p] ELSE ints[p]]

\* LoadCurrentModel, and the snapshot of the daemon.
Current(a) ==
  IF a \in Commands /\ Present(pub) \cup Present(int) # {} THEN Loaded(pub, int) ELSE code
Target(i) == Loaded(tpub[i], tint[i])

Goto(a, place) == at' = [at EXCEPT ![a] = place]
Done(a) ==
  /\ Goto(a, "idle")
  /\ todo' = [todo EXCEPT ![a] = {}]
  /\ new' = [new EXCEPT ![a] = NoFiles]
  /\ id' = [id EXCEPT ![a] = None]

Counted == ops < MaxOps /\ ops' = ops + 1
Begin(a, i, place) ==
  /\ at[a] = "idle"
  /\ Counted
  /\ Goto(a, place)
  /\ id' = [id EXCEPT ![a] = i]
  /\ calm' = IF \A b \in Actors : at[b] = "idle" THEN {a} ELSE {}

-----------------------------------------------------------------------------
(* The code. *)

Entries(k) == {<<>>} \cup {<<s>> : s \in Shapes}
                     \cup IF k \in Doubled THEN {<<s, s>> : s \in Shapes} ELSE {}

Edit(p, k, e) ==
  /\ e \in Entries(k)
  /\ code[p] # None
  /\ e # code[p][k]
  /\ code' = [code EXCEPT ![p][k] = e]
  /\ Counted
  /\ calm' = {}
  /\ UNCHANGED <<specVars, targetVars, pointerVars, at, id, todo, new, patch>>

DeletePackage(p) ==
  /\ code[p] # None
  /\ code' = [code EXCEPT ![p] = None]
  /\ Counted
  /\ calm' = {}
  /\ UNCHANGED <<specVars, targetVars, pointerVars, at, id, todo, new, patch>>

-----------------------------------------------------------------------------
(* Locking a target. *)

\* runTargetLock generates the specs first, unless told not to; handleLockTarget
\* writes the snapshot.
BeginLock(a, i) ==
  /\ \E place \in IF a \in Tools THEN {"materialize"} ELSE {"generate", "check"} :
       /\ Begin(a, i, place)
       /\ todo' = [todo EXCEPT ![a] = IF place = "check" THEN {} ELSE Present(code)]
  /\ UNCHANGED <<code, specVars, targetVars, pointerVars, new, patch>>

\* Files of packages that are gone stay.
WriteSpecs(a, p) ==
  /\ at[a] \in {"generate", "materialize"}
  /\ p \in todo[a]
  /\ code[p] # None
  /\ int' = [int EXCEPT ![p] = Saved(code[p])]
  /\ pub' = IF at[a] = "generate" THEN [pub EXCEPT ![p] = Saved(Public(code[p]))] ELSE pub
  /\ todo' = [todo EXCEPT ![a] = @ \ {p}]
  /\ UNCHANGED <<code, ops, targetVars, pointerVars, at, id, new, patch, calm>>
SpecsWritten(a) ==
  /\ at[a] \in {"generate", "materialize"}
  /\ todo[a] \cap Present(code) = {}
  /\ Goto(a, "check")
  /\ todo' = [todo EXCEPT ![a] = {}]
  /\ UNCHANGED <<code, ops, specVars, targetVars, pointerVars, id, new, patch, calm>>

\* Lock: the target exists, or no package has specs.
LockFails(a) ==
  /\ at[a] = "check"
  /\ id[a] \in dirs \/ Present(pub) \cup Present(int) = {}
  /\ Done(a)
  /\ UNCHANGED <<code, ops, specVars, targetVars, pointerVars, patch, calm>>
LockStarts(a) ==
  /\ at[a] = "check"
  /\ id[a] \notin dirs
  /\ todo' = [todo EXCEPT ![a] = Present(pub) \cup Present(int)]
  /\ todo'[a] # {}
  /\ dirs' = dirs \cup {id[a]}
  /\ Goto(a, "copyPub")
  /\ UNCHANGED <<code, ops, specVars, metas, tpub, tint, pointerVars, id, new, patch, calm>>

\* Of every package pub.yaml, then internal.yaml, whichever there are.
CopyPub(a, p) ==
  /\ at[a] = "copyPub"
  /\ p \in todo[a]
  /\ tpub' = [tpub EXCEPT ![id[a]][p] = IF pub[p] # None THEN pub[p] ELSE @]
  /\ dirs' = dirs \cup {id[a]}
  /\ todo' = [todo EXCEPT ![a] = {p} \cup @]
  /\ new' = [new EXCEPT ![a] = [NoFiles EXCEPT ![p] = Empty]]
  /\ Goto(a, "copyInt")
  /\ UNCHANGED <<code, ops, specVars, metas, tint, pointerVars, id, patch, calm>>
\* (SkipInternal: pub.yaml alone is copied.)
SkipInternal(a) ==
  /\ at[a] = "copyInt"
  /\ todo' = [todo EXCEPT ![a] = @ \ Present(new[a])]
  /\ new' = [new EXCEPT ![a] = NoFiles]
  /\ Goto(a, "copyPub")
  /\ UNCHANGED <<code, ops, specVars, targetVars, pointerVars, id, patch, calm>>
CopyInt(a) ==
  /\ at[a] = "copyInt"
  /\ \E p \in Present(new[a]) :
       /\ tint' = [tint EXCEPT ![id[a]][p] = IF int[p] # None THEN int[p] ELSE @]
       /\ todo' = [todo EXCEPT ![a] = @ \ {p}]
  /\ dirs' = dirs \cup {id[a]}
  /\ new' = [new EXCEPT ![a] = NoFiles]
  /\ Goto(a, "copyPub")
  /\ UNCHANGED <<code, ops, specVars, metas, tpub, pointerVars, id, patch, calm>>

\* The meta data comes last: without it a target is not listed.
WriteMeta(a) ==
  /\ at[a] = "copyPub"
  /\ todo[a] = {}
  /\ metas' = IF id[a] \in dirs THEN metas \cup {id[a]} ELSE metas
  /\ Done(a)
  /\ UNCHANGED <<code, ops, specVars, dirs, tpub, tint, pointerVars, patch, calm>>

-----------------------------------------------------------------------------
(* CURRENT. *)

\* A watch on .arch sees the directory of CURRENT being made, and then all in it.
SetCurrent(i) ==
  /\ current' = i
  /\ pointed' = TRUE
  /\ watched' = (watched \/ ~pointed)
  /\ event' = watched'

BeginUse(a, i) ==
  /\ Begin(a, i, "use")
  /\ i \in dirs
  /\ UNCHANGED <<code, specVars, targetVars, pointerVars, todo, new, patch>>
Use(a) ==
  /\ at[a] = "use"
  /\ SetCurrent(id[a])
  /\ dangling' = (id[a] \notin dirs \/ \E b \in Actors : at[b] = "delete" /\ id[b] = id[a])
  /\ IF a \in Tools
       THEN Goto(a, "switch") /\ UNCHANGED <<id, todo, new>>
       ELSE Done(a)
  /\ UNCHANGED <<code, ops, specVars, targetVars, active, patch, calm>>
Switch(a) ==
  /\ at[a] = "switch"
  /\ active' = id[a]
  /\ Done(a)
  /\ UNCHANGED <<code, ops, specVars, targetVars, current, pointed, watched, event, dangling,
                 patch, calm>>

\* The batch with CURRENT reaches the handler of the watcher.
Deliver ==
  /\ event
  /\ event' = FALSE
  /\ active' = current
  /\ UNCHANGED <<code, ops, specVars, targetVars, current, pointed, watched, dangling, actorVars>>

\* Delete: the target of CURRENT goes only by force, and takes the pointer along.
\* (DeleteUnchecked: whatever CURRENT says, the pointer stays.)
DeleteUnchecked(a, i) ==
  /\ a \in Commands
  /\ Begin(a, i, "delete")
  /\ i \in dirs
  /\ UNCHANGED <<code, specVars, targetVars, pointerVars, todo, new, patch>>
BeginDelete(a, i) ==
  /\ a \in Commands
  /\ Begin(a, i, "delete")
  /\ i \in dirs
  /\ \E force \in BOOLEAN :
       /\ current = i => force
       /\ todo' = [todo EXCEPT ![a] = IF current = i THEN Packages ELSE {}]
  /\ UNCHANGED <<code, specVars, targetVars, pointerVars, new, patch>>
IsForced(a) == todo[a] # {}
RemoveTarget(a) ==
  /\ at[a] = "delete"
  /\ dirs' = dirs \ {id[a]}
  /\ metas' = metas \ {id[a]}
  /\ tpub' = [tpub EXCEPT ![id[a]] = NoFiles]
  /\ tint' = [tint EXCEPT ![id[a]] = NoFiles]
  /\ IF IsForced(a) THEN Goto(a, "unpoint") /\ UNCHANGED <<id, todo, new>> ELSE Done(a)
  /\ UNCHANGED <<code, ops, specVars, pointerVars, patch, calm>>
Unpoint(a) ==
  /\ at[a] = "unpoint"
  /\ current' = None
  /\ event' = watched
  /\ dangling' = FALSE
  /\ Done(a)
  /\ UNCHANGED <<code, ops, specVars, targetVars, pointed, active, watched, patch, calm>>

-----------------------------------------------------------------------------
(* Comparing and patching. *)

\* resolveTargetID: an id, else the snapshot's target, else CURRENT.
Resolved(a) ==
  IF a \in Tools /\ active # None THEN active ELSE current
Readable(i) == i \in dirs /\ Present(Target(i)) # {}

\* diff and validate, whose result is the patch.
Diff(a, i) ==
  /\ at[a] = "idle"
  /\ i \in Ids \/ i = Resolved(a)
  /\ i # None /\ Readable(i)
  /\ patch' = Compute(Current(a), Target(i))
  /\ UNCHANGED <<code, ops, specVars, targetVars, pointerVars, at, id, todo, new, calm>>

\* The diff is the one of the target, which lists everything once.
Fresh(a, i) ==
  /\ patch = Compute(Current(a), Target(i))
  /\ \A p \in Present(Target(i)), k \in Keys : Len(Target(i)[p][k]) <= 1

\* apply_diff and `wyrd diff apply` read both models,
BeginApply(a, i) ==
  /\ at[a] = "idle"
  /\ Counted
  /\ Goto(a, "wipe")
  /\ id' = [id EXCEPT ![a] = i]
  /\ calm' = IF (\A b \in Actors : at[b] = "idle") /\ Fresh(a, i) THEN {a} ELSE {}
  /\ Readable(i)
  /\ Applicable(patch, Current(a), Target(i))
  /\ new' = [new EXCEPT ![a] = IF patch = {} THEN Target(i) ELSE Applied(patch, Current(a), Target(i))]
  /\ todo' = [todo EXCEPT ![a] = Present(new'[a])]
  /\ UNCHANGED <<code, specVars, targetVars, pointerVars, patch>>

\* remove the old model, (WipeInternal: only the files that are written again.)
WipeInternal(a) ==
  /\ at[a] = "wipe"
  /\ tint' = [tint EXCEPT ![id[a]] = NoFiles]
  /\ dirs' = dirs \cup {id[a]}
  /\ Goto(a, "write")
  /\ UNCHANGED <<code, ops, specVars, metas, tpub, pointerVars, id, todo, new, patch, calm>>
Wipe(a) ==
  /\ at[a] = "wipe"
  /\ tpub' = [tpub EXCEPT ![id[a]] = NoFiles]
  /\ tint' = [tint EXCEPT ![id[a]] = NoFiles]
  /\ dirs' = dirs \cup {id[a]}
  /\ Goto(a, "write")
  /\ UNCHANGED <<code, ops, specVars, metas, pointerVars, id, todo, new, patch, calm>>

\* and write the new one, a package at a time.
WritePackage(a, p) ==
  /\ at[a] = "write"
  /\ p \in todo[a]
  /\ tint' = [tint EXCEPT ![id[a]][p] = Saved(new[a][p])]
  /\ dirs' = dirs \cup {id[a]}
  /\ todo' = [todo EXCEPT ![a] = @ \ {p}]
  /\ UNCHANGED <<code, ops, specVars, metas, tpub, pointerVars, at, id, new, patch, calm>>
Applies(a) ==
  /\ at[a] = "write"
  /\ todo[a] = {}
  /\ Done(a)
  /\ UNCHANGED <<code, ops, specVars, targetVars, pointerVars, patch, calm>>

-----------------------------------------------------------------------------
\* A command is killed, or the daemon stops and starts again.
Kill(a) ==
  /\ a \in Commands
  /\ at[a] # "idle"
  /\ dangling' = (dangling \/ at[a] = "unpoint")
  /\ Done(a)
  /\ UNCHANGED <<code, ops, specVars, targetVars, current, pointed, watchVars, patch, calm>>
Restart ==
  /\ at' = [a \in Actors |-> IF a \in Tools THEN "idle" ELSE at[a]]
  /\ id' = [a \in Actors |-> IF a \in Tools THEN None ELSE id[a]]
  /\ todo' = [a \in Actors |-> IF a \in Tools THEN {} ELSE todo[a]]
  /\ new' = [a \in Actors |-> IF a \in Tools THEN NoFiles ELSE new[a]]
  /\ active' = current
  /\ watched' = FALSE
  /\ event' = FALSE
  /\ UNCHANGED <<code, ops, specVars, targetVars, current, pointed, patch, calm, dangling>>

Init ==
  /\ code \in [Packages -> {c \in [Keys -> UNION {Entries(k) : k \in Keys}] : \A k \in Keys : c[k] \in Entries(k)}]
  /\ ops = 0
  /\ pub = NoFiles /\ int = NoFiles
  /\ dirs = {} /\ metas = {}
  /\ tpub = [i \in Ids |-> NoFiles]
  /\ tint = [i \in Ids |-> NoFiles]
  /\ current = None /\ pointed = FALSE
  /\ active = None /\ watched = FALSE /\ event = FALSE
  /\ at = [a \in Actors |-> "idle"]
  /\ id = [a \in Actors |-> None]
  /\ todo = [a \in Actors |-> {}]
  /\ new = [a \in Actors |-> NoFiles]
  /\ patch = {}
  /\ calm = {}
  /\ dangling = FALSE

Next ==
  \/ \E p \in Packages : DeletePackage(p) \/ \E k \in Keys : \E e \in Entries(k) : Edit(p, k, e)
  \/ \E a \in Actors :
       \/ \E i \in Ids : \/ BeginLock(a, i) \/ BeginUse(a, i) \/ BeginDelete(a, i)
                         \/ Diff(a, i) \/ BeginApply(a, i)
       \/ \E p \in Packages : WriteSpecs(a, p) \/ CopyPub(a, p) \/ WritePackage(a, p)
       \/ SpecsWritten(a) \/ LockFails(a) \/ LockStarts(a) \/ CopyInt(a) \/ WriteMeta(a)
       \/ Use(a) \/ Switch(a) \/ RemoveTarget(a) \/ Unpoint(a)
       \/ Wipe(a) \/ Applies(a) \/ Kill(a)
  \/ Deliver \/ Restart

Spec == Init /\ [][Next]_vars

-----------------------------------------------------------------------------
\* YAML holds what an actor takes for the code as it is: no type parameters.
Plain(a) == \A p \in Present(Current(a)) : Saved(Current(a)[p]) = Current(a)[p]

\* A target that was locked without anything in between matches what its locker takes
\* for the code: a command's always, as both are read from the specs; a tool's if YAML
\* can hold the code and no other specs were lying about (Lock, handleLockTarget).
LockedTargetsMatch ==
  [][\A a \in Actors :
       WriteMeta(a) /\ a \in calm
         => \/ Compute(Current(a), Target(id[a])) = {}
            \/ a \in Tools /\ (~Plain(a) \/ Present(pub) # {} \/ Present(int) # Present(code))]_vars

\* Applying the diff of a target makes its drift go away, on disk and for whoever
\* applied it, if nothing came in between and YAML can hold the code; the pub.yaml of
\* the target no longer shadows what was written (apply.go, writeTargetModels).
\* A target that lists something twice, as one does after the same diff was applied
\* again, may keep its drift.
AppliedDiffIsGone ==
  [][\A a \in Actors :
       Applies(a) /\ a \in calm /\ Plain(a) => Compute(Current(a), Target(id[a])) = {}]_vars

\* CURRENT names a target, unless it was chosen while the target was being deleted or
\* a forced delete was killed before it removed the pointer (Use, Delete).
CurrentIsATarget == current # None => current \in dirs \/ dangling \/ \E a \in Actors : at[a] = "unpoint"
==============================================================================
