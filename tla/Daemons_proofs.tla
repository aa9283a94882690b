----------------------------- MODULE Daemons_proofs -----------------------------
(***************************************************************************)
(* Proofs about Daemons, for every set of daemon processes, clients and     *)
(* commands and every bound on retries.                                     *)
(***************************************************************************)
EXTENDS Daemons, TLAPS

Stages == {"unused", "starting", "listening", "serving", "closing", "closed", "zombie", "gone"}
Young == {"unused", "starting", "listening"}
Places == {"away", "idle", "call", "find", "found", "wait", "clear"} \cup Resolving

TypeOK ==
  /\ stage \in [Pids -> Stages]
  /\ recorded \in [Pids -> BOOLEAN]
  /\ parent \in [Pids -> Clients \cup {None}]
  /\ record \in Pids \cup {None}
  /\ lock \in Clients \cup {None}
  /\ at \in [Clients -> Places]
  /\ got \in [Clients -> Pids \cup {None}]
  /\ endpoint \in [Clients -> Pids \cup {None}]
  /\ child \in [Clients -> Pids \cup {None}]
  /\ tries \in [Clients -> Nat]
  /\ crashed \subseteq Pids
  /\ lost \subseteq Pids

(* The lock is held from the re-check on, children are polled for under it, and who  *)
(* stops a daemon has found one.                                                     *)
PlacesFit ==
  /\ \A c \in Clients : at[c] \in Starting <=> lock = c
  /\ \A c \in Clients : child[c] # None => at[c] \in {"poll", "polled"}
  /\ \A c \in Clients : at[c] = "wait" => got[c] # None

(* A record is of a daemon that wrote it and has not cleaned up, or of one that crashed. *)
RecordsAreOwn ==
  /\ record # None =>
       record \in crashed \/ (recorded[record] /\ stage[record] \in {"serving", "closing"})
  /\ \A p \in crashed : stage[p] \in {"zombie", "gone"}
  /\ \A c \in Clients : got[c] # None => stage[got[c]] \notin Young

(* A daemon that is not lost is polled for under the lock, until it serves and is the  *)
(* one on record.                                                                     *)
StartersPoll ==
  \A p \in Pids \ lost : stage[p] \in {"starting", "listening"} =>
    \E c \in Clients : lock = c /\ child[c] = p
ServersAreRecorded ==
  \A p \in Pids \ lost : stage[p] = "serving" => record = p

(* Who holds the lock while a daemon serves has started it or is about to find it. *)
HolderFinds ==
  \A p \in Pids \ lost, c \in Clients : stage[p] = "serving" /\ lock = c =>
    at[c] = "recheck" \/ (at[c] = "rechecked" /\ got[c] = p) \/ child[c] = p

IInv ==
  /\ TypeOK
  /\ PlacesFit
  /\ RecordsAreOwn
  /\ StartersPoll
  /\ ServersAreRecorded
  /\ HolderFinds

-----------------------------------------------------------------------------
LEMMA InitInvariant == Init => IInv
<1> SUFFICES ASSUME Init PROVE IInv
    OBVIOUS
<1>1. TypeOK
    BY DEF Init, TypeOK, Stages, Places
<1>2. PlacesFit
    BY NoneAssumption DEF Init, PlacesFit, Starting
<1>3. RecordsAreOwn /\ StartersPoll /\ ServersAreRecorded /\ HolderFinds
    BY DEF Init, RecordsAreOwn, StartersPoll, ServersAreRecorded, HolderFinds
<1> QED
    BY <1>1, <1>2, <1>3 DEF IInv

-----------------------------------------------------------------------------
(* The parts the steps are made of. *)

LEMMA EndsTypes ==
  ASSUME TypeOK, NEW p \in Pids, Ends(p)
  PROVE  /\ stage' \in [Pids -> Stages]
         /\ recorded' \in [Pids -> BOOLEAN]
         /\ lost' \subseteq Pids
BY DEF TypeOK, Ends, Stages

LEMMA SettleTypes ==
  ASSUME TypeOK, NEW c \in Clients, Settle(c)
  PROVE  /\ record' \in Pids \cup {None}
         /\ lost' \subseteq Pids
BY DEF TypeOK, Settle, SetRecord, Forgotten

LEMMA LeaveTypes ==
  ASSUME TypeOK, NEW c \in Clients, Leave(c)
  PROVE  TypeOK'
<1>1. stage' \in [Pids -> Stages] /\ parent' \in [Pids -> Clients \cup {None}]
    BY DEF TypeOK, Leave, Stages
<1>2. at' \in [Clients -> Places] /\ tries' \in [Clients -> Nat]
    BY DEF TypeOK, Leave, Places
<1> QED
    BY <1>1, <1>2 DEF TypeOK, Leave, Abandoned

LEMMA TypeStep == TypeOK /\ PlacesFit /\ [Next]_vars => TypeOK'
<1> SUFFICES ASSUME TypeOK, PlacesFit, [Next]_vars PROVE TypeOK'
    OBVIOUS
<1>1. CASE UNCHANGED vars
    BY <1>1 DEF TypeOK, vars
<1>2. ASSUME NEW p \in Pids, DaemonStep(p) \/ Cancel(p) \/ Crash(p) PROVE TypeOK'
  <2>1. CASE Listen(p) \/ Register(p) \/ RegisterFails(p) \/ Cancel(p) \/ Unregister(p)
      BY <2>1 DEF TypeOK, Listen, Register, RegisterFails, Cancel, Unregister, SetRecord, Forgotten,
                  Stages, clientVars
  <2>2. CASE BindFails(p) \/ Exit(p) \/ Crash(p)
      BY <2>2, EndsTypes DEF TypeOK, BindFails, Exit, Crash, clientVars
  <2> QED
      BY <1>2, <2>1, <2>2 DEF DaemonStep
<1>3. ASSUME NEW c \in Clients, Resolve(c) PROVE TypeOK'
  <2>1. CASE Read(c)
      BY <2>1 DEF TypeOK, Read, Goto, Reading, Places, Resolving, Starting, daemonVars
  <2>2. CASE Adopt(c)
      BY <2>2 DEF TypeOK, Adopt, Found, Goto, Places, Resolving, Starting, Abandoned, daemonVars
  <2>3. CASE MoveOn(c)
      BY <2>3, SettleTypes DEF TypeOK, MoveOn, MaySpawn, Goto, Places, Resolving, Starting, daemonVars
  <2>4. CASE Acquire(c)
      BY <2>4 DEF TypeOK, Acquire, Goto, Places, Resolving, Starting, daemonVars
  <2>5. ASSUME NEW p \in Pids, Spawn(c, p) PROVE TypeOK'
      BY <2>5 DEF TypeOK, Spawn, Goto, Places, Resolving, Starting, Stages
  <2>6. CASE GiveUp(c)
      BY <2>6, LeaveTypes DEF TypeOK, GiveUp, Goto, Places, Abandoned, daemonVars
  <2> QED
      BY <1>3, <2>1, <2>2, <2>3, <2>4, <2>5, <2>6 DEF Resolve
<1>4. ASSUME NEW c \in Clients, Forward(c) PROVE TypeOK'
    BY <1>4, RetryAssumption DEF TypeOK, Forward, Answer, Refused, Goto, Places, Resolving, daemonVars
<1>5. ASSUME NEW c \in Clients, StopStep(c) PROVE TypeOK'
  <2>1. CASE NothingToStop(c)
      BY <2>1, SettleTypes DEF TypeOK, NothingToStop, Goto, Places, daemonVars
  <2>2. CASE Signal(c) \/ Stopped(c)
      BY <2>2 DEF TypeOK, Signal, Stopped, Goto, Places, Stages, daemonVars
  <2>3. CASE StopTimesOut(c)
      BY <2>3, LeaveTypes DEF StopTimesOut
  <2>4. CASE Kill(c)
    <3>1. got[c] \in Pids
        BY <2>4 DEF TypeOK, PlacesFit, Kill
    <3> QED
        BY <2>4, <3>1, EndsTypes DEF TypeOK, Kill, Goto, Places
  <2>5. CASE Clear(c)
      BY <2>5 DEF TypeOK, Clear, SetRecord, Forgotten, Goto, Places, Resolving, daemonVars
  <2> QED
      BY <1>5, <2>1, <2>2, <2>3, <2>4, <2>5 DEF StopStep
<1>6. ASSUME NEW c \in Clients, Arrive(c) \/ Disconnect(c) \/ Call(c) \/ Stop(c) PROVE TypeOK'
    BY <1>6, LeaveTypes DEF TypeOK, Arrive, Disconnect, Call, Stop, Goto, Places, Resolving, daemonVars
<1> QED
    BY <1>1, <1>2, <1>3, <1>4, <1>5, <1>6 DEF Next

-----------------------------------------------------------------------------
LEMMA LeaveFits ==
  ASSUME TypeOK, PlacesFit, NEW c \in Clients, Leave(c)
  PROVE  PlacesFit'
BY NoneAssumption DEF TypeOK, PlacesFit, Leave, Starting

LEMMA PlacesStep == TypeOK /\ PlacesFit /\ [Next]_vars => PlacesFit'
<1> SUFFICES ASSUME TypeOK, PlacesFit, [Next]_vars PROVE PlacesFit'
    OBVIOUS
<1>1. CASE UNCHANGED vars
    BY <1>1 DEF PlacesFit, vars
<1>2. ASSUME NEW p \in Pids, DaemonStep(p) \/ Cancel(p) \/ Crash(p) PROVE PlacesFit'
    BY <1>2 DEF PlacesFit, DaemonStep, Listen, BindFails, Register, RegisterFails, Unregister, Exit,
                Cancel, Crash, clientVars
<1>3. ASSUME NEW c \in Clients, Resolve(c) PROVE PlacesFit'
  <2>1. CASE Read(c)
      BY <2>1 DEF TypeOK, PlacesFit, Read, Goto, Reading, Starting
  <2>2. CASE Adopt(c)
      BY <2>2, NoneAssumption DEF TypeOK, PlacesFit, Adopt, Goto, Starting
  <2>3. CASE MoveOn(c)
      BY <2>3 DEF TypeOK, PlacesFit, MoveOn, MaySpawn, Goto, Starting
  <2>4. CASE Acquire(c)
      BY <2>4, NoneAssumption DEF TypeOK, PlacesFit, Acquire, Goto, Starting
  <2>5. ASSUME NEW p \in Pids, Spawn(c, p) PROVE PlacesFit'
      BY <2>5 DEF TypeOK, PlacesFit, Spawn, Goto, Starting
  <2>6. CASE GiveUp(c)
      BY <2>6, LeaveFits, NoneAssumption DEF TypeOK, PlacesFit, GiveUp, Goto, Starting
  <2> QED
      BY <1>3, <2>1, <2>2, <2>3, <2>4, <2>5, <2>6 DEF Resolve
<1>4. ASSUME NEW c \in Clients, Forward(c) PROVE PlacesFit'
    BY <1>4 DEF TypeOK, PlacesFit, Forward, Answer, Refused, Goto, Starting
<1>5. ASSUME NEW c \in Clients, StopStep(c) PROVE PlacesFit'
  <2>1. CASE NothingToStop(c) \/ Signal(c) \/ Stopped(c) \/ Kill(c) \/ Clear(c)
      BY <2>1 DEF TypeOK, PlacesFit, NothingToStop, Signal, Found, Stopped, Kill, Clear, Goto, Starting
  <2>2. CASE StopTimesOut(c)
      BY <2>2, LeaveFits DEF StopTimesOut
  <2> QED
      BY <1>5, <2>1, <2>2 DEF StopStep
<1>6. ASSUME NEW c \in Clients, Arrive(c) \/ Disconnect(c) \/ Call(c) \/ Stop(c) PROVE PlacesFit'
    BY <1>6, LeaveFits DEF TypeOK, PlacesFit, Arrive, Disconnect, Call, Stop, Goto, Starting
<1> QED
    BY <1>1, <1>2, <1>3, <1>4, <1>5, <1>6 DEF Next

-----------------------------------------------------------------------------
(* Whose record it is.  A process that ends while it is on record has crashed. *)

LEMMA RecordsStep == TypeOK /\ PlacesFit /\ RecordsAreOwn /\ [Next]_vars => RecordsAreOwn'
<1> SUFFICES ASSUME TypeOK, PlacesFit, RecordsAreOwn, [Next]_vars PROVE RecordsAreOwn'
    OBVIOUS
<1> USE DEF TypeOK, RecordsAreOwn, Young
<1>1. CASE UNCHANGED vars
    BY <1>1 DEF vars
<1>2. ASSUME NEW p \in Pids, DaemonStep(p) \/ Cancel(p) \/ Crash(p) PROVE RecordsAreOwn'
  <2>1. CASE Listen(p) \/ RegisterFails(p) \/ Cancel(p)
      BY <2>1 DEF Listen, RegisterFails, Cancel, clientVars
  <2>2. CASE Register(p)
      BY <2>2 DEF Register, SetRecord, clientVars
  <2>3. CASE Unregister(p)
      BY <2>3 DEF Unregister, SetRecord, clientVars
  <2>4. CASE BindFails(p) \/ Exit(p)
      BY <2>4 DEF BindFails, Exit, Ends, clientVars
  <2>5. CASE Crash(p)
      BY <2>5 DEF Crash, Ends, Running, clientVars
  <2> QED
      BY <1>2, <2>1, <2>2, <2>3, <2>4, <2>5 DEF DaemonStep
<1>3. ASSUME NEW c \in Clients, Leave(c) PROVE RecordsAreOwn'
    BY <1>3 DEF Leave
<1>4. ASSUME NEW c \in Clients, Settle(c), UNCHANGED daemonVars, got' = [got EXCEPT ![c] = None]
      PROVE  RecordsAreOwn'
    BY <1>4 DEF Settle, SetRecord, daemonVars
<1>5. ASSUME NEW c \in Clients, Resolve(c) PROVE RecordsAreOwn'
  <2>1. CASE Read(c)
    <3>1. record # None => stage[record] \notin {"unused", "starting", "listening"}
        OBVIOUS
    <3> QED
        BY <2>1, <3>1 DEF Read, daemonVars
  <2>2. CASE Adopt(c) \/ Acquire(c)
      BY <2>2 DEF Adopt, Acquire, daemonVars
  <2>3. CASE MoveOn(c)
      BY <2>3, <1>4 DEF MoveOn
  <2>4. ASSUME NEW p \in Pids, Spawn(c, p) PROVE RecordsAreOwn'
      BY <2>4 DEF Spawn
  <2>5. CASE GiveUp(c)
      BY <2>5, <1>3 DEF GiveUp, daemonVars
  <2> QED
      BY <1>5, <2>1, <2>2, <2>3, <2>4, <2>5 DEF Resolve
<1>6. ASSUME NEW c \in Clients, Forward(c) \/ Arrive(c) \/ Disconnect(c) \/ Call(c) \/ Stop(c)
      PROVE  RecordsAreOwn'
    BY <1>3, <1>6 DEF Forward, Answer, Refused, Arrive, Disconnect, Call, Stop, daemonVars
<1>7. ASSUME NEW c \in Clients, StopStep(c) PROVE RecordsAreOwn'
  <2>1. CASE NothingToStop(c)
      BY <2>1, <1>4 DEF NothingToStop
  <2>2. CASE Signal(c)
    <3>1. got[c] \in Pids
        BY <2>2 DEF Signal, Found
    <3> QED
        BY <2>2, <3>1 DEF Signal, Running
  <2>3. CASE Stopped(c)
      BY <2>3 DEF Stopped, daemonVars
  <2>4. CASE StopTimesOut(c)
      BY <2>4, <1>3 DEF StopTimesOut
  <2>5. CASE Kill(c)
    <3>1. got[c] \in Pids
        BY <2>5 DEF PlacesFit, Kill
    <3> QED
        BY <2>5, <3>1 DEF Kill, Ends, Running
  <2>6. CASE Clear(c)
      BY <2>6 DEF Clear, SetRecord, daemonVars
  <2> QED
      BY <1>7, <2>1, <2>2, <2>3, <2>4, <2>5, <2>6 DEF StopStep
<1> QED
    BY <1>1, <1>2, <1>5, <1>6, <1>7 DEF Next

-----------------------------------------------------------------------------
(* The record changes hands by SetRecord alone, which marks who is forgotten. *)

LEMMA ServersStep == TypeOK /\ PlacesFit /\ ServersAreRecorded /\ [Next]_vars => ServersAreRecorded'
<1> SUFFICES ASSUME TypeOK, PlacesFit, ServersAreRecorded, [Next]_vars PROVE ServersAreRecorded'
    OBVIOUS
<1> USE DEF TypeOK, ServersAreRecorded
<1>1. CASE UNCHANGED vars
    BY <1>1 DEF vars
<1>2. ASSUME NEW p \in Pids, DaemonStep(p) \/ Cancel(p) \/ Crash(p) PROVE ServersAreRecorded'
  <2>1. CASE Listen(p) \/ RegisterFails(p) \/ Cancel(p)
      BY <2>1 DEF Listen, RegisterFails, Cancel
  <2>2. CASE Register(p) \/ Unregister(p)
      BY <2>2 DEF Register, Unregister, SetRecord, Forgotten
  <2>3. CASE BindFails(p) \/ Exit(p) \/ Crash(p)
      BY <2>3 DEF BindFails, Exit, Crash, Ends
  <2> QED
      BY <1>2, <2>1, <2>2, <2>3 DEF DaemonStep
<1>3. ASSUME NEW c \in Clients, Leave(c) PROVE ServersAreRecorded'
    BY <1>3 DEF Leave
<1>4. ASSUME NEW c \in Clients, Settle(c), UNCHANGED stage PROVE ServersAreRecorded'
    BY <1>4 DEF Settle, SetRecord, Forgotten
<1>5. ASSUME NEW c \in Clients, Resolve(c) PROVE ServersAreRecorded'
  <2>1. CASE Read(c) \/ Adopt(c) \/ Acquire(c)
      BY <2>1 DEF Read, Adopt, Acquire, daemonVars
  <2>2. CASE MoveOn(c)
      BY <2>2, <1>4 DEF MoveOn, daemonVars
  <2>3. ASSUME NEW p \in Pids, Spawn(c, p) PROVE ServersAreRecorded'
      BY <2>3 DEF Spawn
  <2>4. CASE GiveUp(c)
      BY <2>4, <1>3 DEF GiveUp, daemonVars
  <2> QED
      BY <1>5, <2>1, <2>2, <2>3, <2>4 DEF Resolve
<1>6. ASSUME NEW c \in Clients, Forward(c) \/ Arrive(c) \/ Disconnect(c) \/ Call(c) \/ Stop(c)
      PROVE  ServersAreRecorded'
    BY <1>3, <1>6 DEF Forward, Answer, Refused, Arrive, Disconnect, Call, Stop, daemonVars
<1>7. ASSUME NEW c \in Clients, StopStep(c) PROVE ServersAreRecorded'
  <2>1. CASE NothingToStop(c)
      BY <2>1, <1>4 DEF NothingToStop, daemonVars
  <2>2. CASE Signal(c) \/ Stopped(c)
      BY <2>2 DEF Signal, Stopped, daemonVars
  <2>3. CASE StopTimesOut(c)
      BY <2>3, <1>3 DEF StopTimesOut
  <2>4. CASE Kill(c)
      BY <2>4 DEF Kill, Ends
  <2>5. CASE Clear(c)
      BY <2>5 DEF Clear, SetRecord, Forgotten, daemonVars
  <2> QED
      BY <1>7, <2>1, <2>2, <2>3, <2>4, <2>5 DEF StopStep
<1> QED
    BY <1>1, <1>2, <1>5, <1>6, <1>7 DEF Next

(* A young daemon loses its poller only by Abandoned, unless the poller adopts it; then *)
(* it was on record and is young no more.                                               *)
LEMMA StartersStep ==
  TypeOK /\ PlacesFit /\ RecordsAreOwn /\ StartersPoll /\ [Next]_vars => StartersPoll'
<1> SUFFICES ASSUME TypeOK, PlacesFit, RecordsAreOwn, StartersPoll, [Next]_vars PROVE StartersPoll'
    OBVIOUS
<1> USE DEF TypeOK, StartersPoll
<1>1. CASE UNCHANGED vars
    BY <1>1 DEF vars
<1>2. ASSUME NEW p \in Pids, DaemonStep(p) \/ Cancel(p) \/ Crash(p) PROVE StartersPoll'
  <2>1. CASE Listen(p) \/ RegisterFails(p) \/ Cancel(p)
      BY <2>1 DEF Listen, RegisterFails, Cancel, clientVars
  <2>2. CASE Register(p) \/ Unregister(p)
      BY <2>2 DEF Register, Unregister, SetRecord, clientVars
  <2>3. CASE BindFails(p) \/ Exit(p) \/ Crash(p)
      BY <2>3 DEF BindFails, Exit, Crash, Ends, clientVars
  <2> QED
      BY <1>2, <2>1, <2>2, <2>3 DEF DaemonStep
<1>3. ASSUME NEW c \in Clients, Leave(c) PROVE StartersPoll'
    BY <1>3 DEF Leave, Abandoned
<1>4. ASSUME NEW c \in Clients, Settle(c), UNCHANGED <<stage, lock, child>> PROVE StartersPoll'
    BY <1>4 DEF Settle, SetRecord
<1>5. ASSUME NEW c \in Clients, Resolve(c) PROVE StartersPoll'
  <2>1. CASE Read(c)
      BY <2>1 DEF Read, daemonVars
  <2>2. CASE Adopt(c)
      BY <2>2, NoneAssumption DEF Adopt, Found, Abandoned, RecordsAreOwn, Young, daemonVars
  <2>3. CASE MoveOn(c)
      BY <2>3, <1>4 DEF MoveOn, daemonVars
  <2>4. CASE Acquire(c)
      BY <2>4, NoneAssumption DEF Acquire, daemonVars
  <2>5. ASSUME NEW p \in Pids, Spawn(c, p) PROVE StartersPoll'
    <3>1. lock = c /\ child[c] = None
        BY <2>5 DEF PlacesFit, Spawn, Starting
    <3> QED
        BY <2>5, <3>1, NoneAssumption DEF Spawn
  <2>6. CASE GiveUp(c)
      BY <2>6, <1>3, NoneAssumption DEF GiveUp, Abandoned, daemonVars
  <2> QED
      BY <1>5, <2>1, <2>2, <2>3, <2>4, <2>5, <2>6 DEF Resolve
<1>6. ASSUME NEW c \in Clients, Forward(c) \/ Arrive(c) \/ Disconnect(c) \/ Call(c) \/ Stop(c)
      PROVE  StartersPoll'
    BY <1>3, <1>6 DEF Forward, Answer, Refused, Arrive, Disconnect, Call, Stop, daemonVars
<1>7. ASSUME NEW c \in Clients, StopStep(c) PROVE StartersPoll'
  <2>1. CASE NothingToStop(c)
      BY <2>1, <1>4 DEF NothingToStop, daemonVars
  <2>2. CASE Signal(c) \/ Stopped(c)
      BY <2>2 DEF Signal, Stopped, daemonVars
  <2>3. CASE StopTimesOut(c)
      BY <2>3, <1>3 DEF StopTimesOut
  <2>4. CASE Kill(c)
      BY <2>4 DEF Kill, Ends
  <2>5. CASE Clear(c)
      BY <2>5 DEF Clear, SetRecord, daemonVars
  <2> QED
      BY <1>7, <2>1, <2>2, <2>3, <2>4, <2>5 DEF StopStep
<1> QED
    BY <1>1, <1>2, <1>5, <1>6, <1>7 DEF Next

(* Nobody else starts a daemon while the lock is held, and the holder reads the record *)
(* again before it starts one.                                                         *)
LEMMA HolderStep == IInv /\ [Next]_vars => HolderFinds'
<1> SUFFICES ASSUME IInv, [Next]_vars PROVE HolderFinds'
    OBVIOUS
<1> USE DEF IInv, TypeOK, HolderFinds
<1>1. CASE UNCHANGED vars
    BY <1>1 DEF vars
<1>2. ASSUME NEW p \in Pids, DaemonStep(p) \/ Cancel(p) \/ Crash(p) PROVE HolderFinds'
  <2>1. CASE Listen(p) \/ RegisterFails(p) \/ Cancel(p)
      BY <2>1 DEF Listen, RegisterFails, Cancel, clientVars
  <2>2. CASE Register(p)
    <3>1. p \notin lost => \E c \in Clients : lock = c /\ child[c] = p
        BY <2>2 DEF Register, StartersPoll
    <3> QED
        BY <2>2, <3>1 DEF Register, SetRecord, clientVars
  <2>3. CASE Unregister(p)
      BY <2>3 DEF Unregister, SetRecord, clientVars
  <2>4. CASE BindFails(p) \/ Exit(p) \/ Crash(p)
      BY <2>4 DEF BindFails, Exit, Crash, Ends, clientVars
  <2> QED
      BY <1>2, <2>1, <2>2, <2>3, <2>4 DEF DaemonStep
<1>3. ASSUME NEW c \in Clients, Leave(c) PROVE HolderFinds'
    BY <1>3, NoneAssumption DEF Leave
<1>4. ASSUME NEW c \in Clients, Resolve(c) PROVE HolderFinds'
  <2>1. CASE Read(c)
      BY <2>1 DEF Read, Goto, Reading, PlacesFit, Starting, ServersAreRecorded, daemonVars
  <2>2. CASE Adopt(c)
      BY <2>2, NoneAssumption DEF Adopt, Goto, daemonVars
  <2>3. CASE MoveOn(c)
      BY <2>3, NoneAssumption DEF MoveOn, MaySpawn, Found, Alive, Running, Settle, SetRecord, Goto,
                                  PlacesFit, Starting, daemonVars
  <2>4. CASE Acquire(c)
      BY <2>4 DEF Acquire, Goto, daemonVars
  <2>5. ASSUME NEW p \in Pids, Spawn(c, p) PROVE HolderFinds'
      BY <2>5, NoneAssumption DEF Spawn, Goto, PlacesFit, Starting
  <2>6. CASE GiveUp(c)
      BY <2>6, <1>3, NoneAssumption DEF GiveUp, Goto, PlacesFit, Starting, daemonVars
  <2> QED
      BY <1>4, <2>1, <2>2, <2>3, <2>4, <2>5, <2>6 DEF Resolve
<1>5. ASSUME NEW c \in Clients, Forward(c) \/ Arrive(c) \/ Disconnect(c) \/ Call(c) \/ Stop(c)
      PROVE  HolderFinds'
    BY <1>3, <1>5 DEF Forward, Answer, Refused, Arrive, Disconnect, Call, Stop, Goto, PlacesFit,
                      Starting, daemonVars
<1>6. ASSUME NEW c \in Clients, StopStep(c) PROVE HolderFinds'
  <2>1. CASE NothingToStop(c)
      BY <2>1 DEF NothingToStop, Settle, SetRecord, Goto, PlacesFit, Starting, daemonVars
  <2>2. CASE Signal(c) \/ Stopped(c)
      BY <2>2 DEF Signal, Stopped, Goto, PlacesFit, Starting, daemonVars
  <2>3. CASE StopTimesOut(c)
      BY <2>3, <1>3 DEF StopTimesOut
  <2>4. CASE Kill(c)
      BY <2>4 DEF Kill, Ends, Goto, PlacesFit, Starting
  <2>5. CASE Clear(c)
      BY <2>5 DEF Clear, SetRecord, Goto, PlacesFit, Starting, daemonVars
  <2> QED
      BY <1>6, <2>1, <2>2, <2>3, <2>4, <2>5 DEF StopStep
<1> QED
    BY <1>1, <1>2, <1>4, <1>5, <1>6 DEF Next

-----------------------------------------------------------------------------
(* IInv, which the other theorems rest on, holds in every reachable state. *)
THEOREM Invariance == Spec => []IInv
<1>1. IInv /\ [Next]_vars => IInv'
    BY TypeStep, PlacesStep, RecordsStep, ServersStep, StartersStep, HolderStep DEF IInv
<1> QED
    BY <1>1, InitInvariant, PTL DEF Spec

(* Types: no step of a daemon, a client or a command leaves the declared sets. *)
THEOREM TypeCorrect == Spec => []TypeOK
<1>1. IInv => TypeOK
    BY DEF IInv
<1> QED
    BY <1>1, Invariance, PTL

(* The re-check under the lock of AutoStartRepoDaemon keeps a repository at one daemon: *)
(* of two that start or serve one is lost, for any number of clients, commands and      *)
(* restarts.                                                                            *)
THEOREM OneDaemonPerRepoHolds == Spec => []OneDaemonPerRepo
<1>1. IInv => OneDaemonPerRepo
  <2> SUFFICES ASSUME IInv, NEW p \in Pids \ lost, NEW q \in Pids \ lost,
                      stage[p] \in {"starting", "listening", "serving"},
                      stage[q] \in {"starting", "listening", "serving"}
               PROVE  p = q
      BY DEF OneDaemonPerRepo
  <2>1. CASE stage[p] = "serving" /\ stage[q] = "serving"
      BY <2>1 DEF IInv, ServersAreRecorded
  <2>2. ASSUME NEW r \in Pids \ lost, NEW s \in Pids \ lost,
               stage[r] \in {"starting", "listening"}, stage[s] \in {"starting", "listening", "serving"}
        PROVE  r = s
    <3>1. PICK c \in Clients : lock = c /\ child[c] = r
        BY <2>2 DEF IInv, StartersPoll
    <3>2. at[c] \in {"poll", "polled"}
        BY <3>1, NoneAssumption DEF IInv, PlacesFit
    <3> QED
        BY <2>2, <3>1, <3>2 DEF IInv, StartersPoll, HolderFinds
  <2> QED
      BY <2>1, <2>2
<1> QED
    BY <1>1, Invariance, PTL

(* The deferred clean-up of Serve: a record of a process that has ended is a crash's. *)
THEOREM CleanExitLeavesNoRecordHolds == Spec => []CleanExitLeavesNoRecord
<1>1. IInv => CleanExitLeavesNoRecord
    BY DEF IInv, RecordsAreOwn, CleanExitLeavesNoRecord, Running
<1> QED
    BY <1>1, Invariance, PTL

=================================================================================
