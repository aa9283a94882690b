-------------------------------- MODULE Daemons --------------------------------
(***************************************************************************)
(* The daemon of a repository and the processes that look for it: the       *)
(* global record (serve/registry.go), the life of a daemon from its start   *)
(* to its deferred clean-up (serve/daemon.go), auto-start under the         *)
(* repository's lock (serve/autostart.go), `wyrd daemon stop` and           *)
(* `restart` (cmd/wyrd/daemon.go), and MCP clients that forward tool calls  *)
(* and resolve the daemon anew when it is gone (adapter/mcp/client.go).     *)
(*                                                                         *)
(* Reading a record, looking whether its process is alive and removing it   *)
(* are separate steps: no lock covers the record file.                      *)
(***************************************************************************)
EXTENDS Naturals, FiniteSets

CONSTANTS
  Pids,        \* daemon processes, each one started at most once
  Clients,     \* MCP clients and `wyrd daemon` commands of the repository
  Commands,    \* the commands: start, stop and restart
  MaxRetries,  \* maxRetries of the MCP client
  None

ASSUME RetryAssumption == MaxRetries \in Nat
ASSUME CommandAssumption == Commands \subseteq Clients
ASSUME NoneAssumption == None \notin Pids \cup Clients

VARIABLES
  stage,     \* where each daemon process is
  recorded,  \* globalRecorded: it has written the global record
  parent,    \* the process that started it, None once that has ended
  record,    \* the global record of the repository
  lock,      \* the holder of autostart-repo.lock
  at,        \* where each client is
  got,       \* the record it read last
  endpoint,  \* the daemon an MCP client talks to
  child,     \* the daemon it started and polls for
  tries,     \* failed attempts of the call it forwards
  crashed,   \* daemons that ended without their clean-up
  lost       \* daemons nobody can find any more, see OneDaemonPerRepo

daemonVars == <<stage, recorded, parent, crashed>>
clientVars == <<at, got, endpoint, child, tries>>
vars == <<stage, recorded, parent, record, lock, at, got, endpoint, child, tries, crashed, lost>>

Running(p) == stage[p] \in {"starting", "listening", "serving", "closing", "closed"}
\* PIDAlive: a signal reaches a process whose parent has not waited for it, too.
Alive(p) == Running(p) \/ stage[p] = "zombie"

Reading == {"discover", "recheck", "poll", "find"}
Starting == {"recheck", "rechecked", "spawn", "poll", "polled"}
Resolving == {"discover", "discovered", "lock"} \cup Starting

\* Daemons that serve and that the record forgets when it becomes r.
Forgotten(r) == {p \in Pids : record = p /\ r # p /\ stage[p] = "serving"}

SetRecord(r) ==
  /\ record' = r
  /\ lost' = lost \cup Forgotten(r)

\* Until its parent waits for it, a process that has ended is a zombie.
Ends(p) ==
  /\ stage' = [stage EXCEPT ![p] = IF parent[p] = None THEN "gone" ELSE "zombie"]
  /\ recorded' = [recorded EXCEPT ![p] = FALSE]
  /\ lost' = lost \ {p}

-----------------------------------------------------------------------------
(* A daemon. *)

Listen(p) ==
  /\ stage[p] = "starting"
  /\ stage' = [stage EXCEPT ![p] = "listening"]
  /\ UNCHANGED <<recorded, parent, crashed, record, lock, clientVars, lost>>

\* httpDied: the address wyrd.yaml pins is taken, by a daemon or by anything else.
BindFails(p) ==
  /\ stage[p] = "starting"
  /\ Ends(p)
  /\ UNCHANGED <<parent, crashed, record, lock, clientVars>>

\* ready: serve.json, then the global record, whoever's record is there.
Register(p) ==
  /\ stage[p] = "listening"
  /\ stage' = [stage EXCEPT ![p] = "serving"]
  /\ recorded' = [recorded EXCEPT ![p] = TRUE]
  /\ SetRecord(p)
  /\ UNCHANGED <<parent, crashed, lock, clientVars>>

\* Either file cannot be written: the daemon serves all the same.
RegisterFails(p) ==
  /\ stage[p] = "listening"
  /\ stage' = [stage EXCEPT ![p] = "serving"]
  /\ lost' = lost \cup {p}
  /\ UNCHANGED <<recorded, parent, crashed, record, lock, clientVars>>

\* runIdleMonitor, or a signal from outside: the context is cancelled and the HTTP
\* server shuts down.
Cancel(p) ==
  /\ stage[p] = "serving"
  /\ stage' = [stage EXCEPT ![p] = "closing"]
  /\ UNCHANGED <<recorded, parent, crashed, record, lock, clientVars, lost>>

\* The deferred clean-up.  (UnregisterNothing: the record is left behind.)
UnregisterNothing(p) ==
  /\ stage[p] = "closing"
  /\ stage' = [stage EXCEPT ![p] = "closed"]
  /\ UNCHANGED <<recorded, parent, crashed, record, lock, clientVars, lost>>
Unregister(p) ==
  /\ stage[p] = "closing"
  /\ stage' = [stage EXCEPT ![p] = "closed"]
  /\ IF recorded[p] THEN SetRecord(None) ELSE UNCHANGED <<record, lost>>
  /\ UNCHANGED <<recorded, parent, crashed, lock, clientVars>>

Exit(p) ==
  /\ stage[p] = "closed"
  /\ Ends(p)
  /\ UNCHANGED <<parent, crashed, record, lock, clientVars>>

Crash(p) ==
  /\ Running(p)
  /\ Ends(p)
  /\ crashed' = crashed \cup {p}
  /\ UNCHANGED <<parent, record, lock, clientVars>>

-----------------------------------------------------------------------------
(* Resolving the daemon: DiscoverRepoDaemon, then AutoStartRepoDaemon. *)

Goto(c, place) == at' = [at EXCEPT ![c] = place]

\* ReadGlobalRecord: the file is read,
Read(c) ==
  /\ at[c] \in Reading
  /\ got' = [got EXCEPT ![c] = record]
  /\ Goto(c, CASE at[c] = "discover" -> "discovered" [] at[c] = "recheck" -> "rechecked"
               [] at[c] = "poll" -> "polled" [] at[c] = "find" -> "found")
  /\ UNCHANGED <<daemonVars, record, lock, endpoint, child, tries, lost>>

\* then the process is looked for and a stale file removed, whatever it holds by now.
Settle(c) == IF got[c] # None /\ ~Alive(got[c]) THEN SetRecord(None) ELSE UNCHANGED <<record, lost>>
Found(c) == got[c] # None /\ Alive(got[c])

\* A child that has not registered when nobody polls for it any more.
Abandoned(c) == {p \in Pids : child[c] = p /\ stage[p] \in {"starting", "listening"}}

\* A daemon was found: the client talks to it.  The lock is given back.
Adopt(c) ==
  /\ at[c] \in {"discovered", "rechecked", "polled"}
  /\ Found(c)
  /\ endpoint' = [endpoint EXCEPT ![c] = got[c]]
  /\ got' = [got EXCEPT ![c] = None]
  /\ child' = [child EXCEPT ![c] = None]
  /\ lock' = IF lock = c THEN None ELSE lock
  /\ lost' = lost \cup (Abandoned(c) \ {got[c]})
  /\ Goto(c, IF tries[c] = 0 THEN "idle" ELSE "call")
  /\ UNCHANGED <<daemonVars, record, tries>>

\* None was found: the next thing to do.  (SkipRecheck: the lock alone is trusted.)
SkipRecheck(c) == at[c] = "rechecked"
MaySpawn(c) == at[c] = "rechecked" /\ ~Found(c)
MoveOn(c) ==
  /\ \/ at[c] = "discovered" /\ ~Found(c) /\ Goto(c, "lock")
     \/ MaySpawn(c) /\ Goto(c, "spawn")
     \/ at[c] = "polled" /\ ~Found(c) /\ Goto(c, "poll")
  /\ Settle(c)
  /\ got' = [got EXCEPT ![c] = None]
  /\ UNCHANGED <<daemonVars, lock, endpoint, child, tries>>

Acquire(c) ==
  /\ at[c] = "lock"
  /\ lock = None
  /\ lock' = c
  /\ Goto(c, "recheck")
  /\ UNCHANGED <<daemonVars, record, got, endpoint, child, tries, lost>>

Spawn(c, p) ==
  /\ at[c] = "spawn"
  /\ stage[p] = "unused"
  /\ stage' = [stage EXCEPT ![p] = "starting"]
  /\ parent' = [parent EXCEPT ![p] = c]
  /\ child' = [child EXCEPT ![c] = p]
  /\ Goto(c, "poll")
  /\ UNCHANGED <<recorded, crashed, record, lock, got, endpoint, tries, lost>>

\* The process ends: its lock is free, and the kernel waits for its children.
Leave(c) ==
  /\ at' = [at EXCEPT ![c] = "away"]
  /\ endpoint' = [endpoint EXCEPT ![c] = None]
  /\ got' = [got EXCEPT ![c] = None]
  /\ child' = [child EXCEPT ![c] = None]
  /\ tries' = [tries EXCEPT ![c] = 0]
  /\ lock' = IF lock = c THEN None ELSE lock
  /\ parent' = [p \in Pids |-> IF parent[p] = c THEN None ELSE parent[p]]
  /\ stage' = [p \in Pids |-> IF parent[p] = c /\ stage[p] = "zombie" THEN "gone" ELSE stage[p]]
  /\ lost' = lost \cup Abandoned(c)
  /\ UNCHANGED <<recorded, crashed, record>>

\* The lock or the child took too long, or the child could not be started.  A client
\* that had a daemon reports an error for the call, another one ends.
GiveUp(c) ==
  /\ at[c] \in {"lock", "spawn", "poll"}
  /\ IF endpoint[c] = None
       THEN Leave(c)
       ELSE /\ Goto(c, "idle")
            /\ tries' = [tries EXCEPT ![c] = 0]
            /\ child' = [child EXCEPT ![c] = None]
            /\ lock' = IF lock = c THEN None ELSE lock
            /\ lost' = lost \cup Abandoned(c)
            /\ UNCHANGED <<daemonVars, record, got, endpoint>>

-----------------------------------------------------------------------------
(* An MCP client. *)

Arrive(c) ==
  /\ at[c] = "away"
  /\ Goto(c, "discover")
  /\ UNCHANGED <<daemonVars, record, lock, got, endpoint, child, tries, lost>>

Disconnect(c) == at[c] # "away" /\ Leave(c)

\* A command that found or started its daemon only ends.
Call(c) ==
  /\ c \notin Commands
  /\ at[c] = "idle"
  /\ Goto(c, "call")
  /\ UNCHANGED <<daemonVars, record, lock, got, endpoint, child, tries, lost>>

\* forwardToolsCall: an answer, or "busy" after a time-out.
Answer(c) ==
  /\ at[c] = "call"
  /\ stage[endpoint[c]] = "serving"
  /\ Goto(c, "idle")
  /\ tries' = [tries EXCEPT ![c] = 0]
  /\ UNCHANGED <<daemonVars, record, lock, got, endpoint, child, lost>>

\* The connection is refused or broken: resolve, at most MaxRetries times.
\* (RefusedUncounted: the attempts are not counted.)
RefusedUncounted(c) ==
  /\ at[c] = "call"
  /\ stage[endpoint[c]] # "serving"
  /\ Goto(c, "discover") /\ tries' = [tries EXCEPT ![c] = 1]
  /\ UNCHANGED <<daemonVars, record, lock, got, endpoint, child, lost>>
Refused(c) ==
  /\ at[c] = "call"
  /\ stage[endpoint[c]] # "serving"
  /\ IF tries[c] < MaxRetries
       THEN Goto(c, "discover") /\ tries' = [tries EXCEPT ![c] = @ + 1]
       ELSE Goto(c, "idle") /\ tries' = [tries EXCEPT ![c] = 0]
  /\ UNCHANGED <<daemonVars, record, lock, got, endpoint, child, lost>>

-----------------------------------------------------------------------------
(* wyrd daemon stop and restart. *)

Stop(c) ==
  /\ c \in Commands
  /\ at[c] = "away"
  /\ Goto(c, "find")
  /\ UNCHANGED <<daemonVars, record, lock, got, endpoint, child, tries, lost>>

\* No daemon, and the command ends.
NothingToStop(c) ==
  /\ at[c] = "found"
  /\ ~Found(c)
  /\ Settle(c)
  /\ Goto(c, "away")
  /\ got' = [got EXCEPT ![c] = None]
  /\ UNCHANGED <<daemonVars, lock, endpoint, child, tries>>

\* SIGTERM to the process of the record; a zombie counts as not running.
Signal(c) ==
  /\ at[c] = "found"
  /\ Found(c)
  /\ IF ~Running(got[c])
       THEN Goto(c, "clear") /\ UNCHANGED stage
       ELSE /\ Goto(c, "wait")
            /\ stage' = [stage EXCEPT ![got[c]] =
                           IF @ \in {"closing", "closed"} THEN @ ELSE "closing"]
  /\ UNCHANGED <<recorded, parent, crashed, record, lock, got, endpoint, child, tries, lost>>

Stopped(c) ==
  /\ at[c] = "wait"
  /\ ~Running(got[c])
  /\ Goto(c, "clear")
  /\ UNCHANGED <<daemonVars, record, lock, got, endpoint, child, tries, lost>>

\* It is still running after the time-out: an error, or SIGKILL.
StopTimesOut(c) == at[c] = "wait" /\ Running(got[c]) /\ Leave(c)
Kill(c) ==
  /\ at[c] = "wait"
  /\ Running(got[c])
  /\ Ends(got[c])
  /\ crashed' = crashed \cup {got[c]}
  /\ Goto(c, "clear")
  /\ UNCHANGED <<parent, record, lock, got, endpoint, child, tries>>

\* clearDaemonRecords; restart then starts a daemon.
Clear(c) ==
  /\ at[c] = "clear"
  /\ SetRecord(None)
  /\ got' = [got EXCEPT ![c] = None]
  /\ \E place \in {"away", "lock"} : Goto(c, place)
  /\ UNCHANGED <<daemonVars, lock, endpoint, child, tries>>

-----------------------------------------------------------------------------
Init ==
  /\ stage = [p \in Pids |-> "unused"]
  /\ recorded = [p \in Pids |-> FALSE]
  /\ parent = [p \in Pids |-> None]
  /\ record = None
  /\ lock = None
  /\ at = [c \in Clients |-> "away"]
  /\ got = [c \in Clients |-> None]
  /\ endpoint = [c \in Clients |-> None]
  /\ child = [c \in Clients |-> None]
  /\ tries = [c \in Clients |-> 0]
  /\ crashed = {}
  /\ lost = {}

DaemonStep(p) ==
  Listen(p) \/ BindFails(p) \/ Register(p) \/ RegisterFails(p) \/ Unregister(p) \/ Exit(p)

Resolve(c) ==
  \/ Read(c) \/ Adopt(c) \/ MoveOn(c) \/ Acquire(c) \/ GiveUp(c)
  \/ \E p \in Pids : Spawn(c, p)
Forward(c) == Answer(c) \/ Refused(c)
StopStep(c) ==
  NothingToStop(c) \/ Signal(c) \/ Stopped(c) \/ StopTimesOut(c) \/ Kill(c) \/ Clear(c)

Next ==
  \/ \E p \in Pids : DaemonStep(p) \/ Cancel(p) \/ Crash(p)
  \/ \E c \in Clients :
       \/ Arrive(c) \/ Disconnect(c) \/ Call(c) \/ Stop(c)
       \/ Resolve(c) \/ Forward(c) \/ StopStep(c)

Spec == Init /\ [][Next]_vars

(* A client that runs takes its steps.  Waits for the lock and for a child end, *)
(* by success or by their time-out: polling alone is no progress.               *)
FairSpec ==
  Spec /\ \A c \in Clients : WF_vars(Resolve(c) \/ Forward(c)) /\ SF_vars(GiveUp(c))

-----------------------------------------------------------------------------
\* Two clients of a repository never end up with two daemons: of two daemons that
\* start or serve, one is lost, that is, its starter gave up, ended or adopted another
\* daemon before it had registered, it could not write its record, or its record was removed or
\* overwritten by another process.  In particular the re-check under the lock makes
\* concurrent clients share one daemon (AutoStartRepoDaemon).
OneDaemonPerRepo ==
  \A p, q \in Pids \ lost :
    {stage[p], stage[q]} \subseteq {"starting", "listening", "serving"} => p = q

\* A daemon that ends by itself, on a signal or idle, takes its record along: a record
\* of a process that is gone is a crash's (the deferred clean-up of Serve).
CleanExitLeavesNoRecord ==
  record # None /\ ~Running(record) => record \in crashed

\* Every tool call is answered, with a result or an error, after at most MaxRetries + 1
\* attempts, whatever becomes of the daemons, the lock and their starters meanwhile
\* (forwardToolsCall).
CallsAreAnswered == \A c \in Clients : at[c] = "call" ~> at[c] \in {"idle", "away"}

=============================================================================
