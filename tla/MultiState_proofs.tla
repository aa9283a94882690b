-------------------------- MODULE MultiState_proofs --------------------------
(***************************************************************************)
(* Proofs about MultiState, for any paths, names, loads and callers.       *)
(***************************************************************************)
EXTENDS MultiState, TLAPS

\* The entry set a scan yields has a listed path, or none, for every name.
LEMMA EntriesOfType ==
  ASSUME NEW S \in SUBSET Paths
  PROVE  EntriesOf(S) \in [Names -> Paths \cup {None}]
BY DEF EntriesOf

\* Whatever a step does to the registry, no variable leaves its type.
LEMMA TypeInit == Init => TypeOK
<1> SUFFICES ASSUME Init PROVE TypeOK
  OBVIOUS
<1>1. entries \in [Names -> Paths \cup {None}]
  BY EntriesOfType DEF Init
<1>2. NameOf[Root] \in Names
  BY RootAssumption, NameAssumption
<1> QED BY <1>1, <1>2, RootAssumption DEF Init, TypeOK, Stage, Running

LEMMA TypeStep == TypeOK /\ [Next]_vars => TypeOK'
<1> SUFFICES ASSUME TypeOK, [Next]_vars PROVE TypeOK'
  OBVIOUS
<1> USE DEF TypeOK, registryVars, baseVars, refreshVars, callerVars, loadVars, Step, Reply, Goto, At
<1>1. ASSUME NEW l \in Loads, RunLoad(l) PROVE TypeOK'
  <2>1. CASE LoaderReturns(l)
    BY <2>1 DEF LoaderReturns, Stage, Running
  <2>2. CASE CommitState(l)
    BY <2>2 DEF CommitState, Stage, Running
  <2>3. CASE ReadBaseRef(l)
    BY <2>3 DEF ReadBaseRef, Stage, Running
  <2>4. CASE SetResolver(l)
    BY <2>4 DEF SetResolver, Stage, Running
  <2>5. CASE InstallWatcher(l)
    BY <2>5 DEF InstallWatcher, Stage, Running
  <2>6. CASE RegisterWatcher(l)
    BY <2>6 DEF RegisterWatcher, Stage, Running
  <2>7. CASE FinishLoad(l)
    BY <2>7 DEF FinishLoad, ForgetLoading, Stage, Running
  <2> QED BY <1>1, <2>1, <2>2, <2>3, <2>4, <2>5, <2>6, <2>7 DEF RunLoad
<1>2. ASSUME NEW l \in Loads, Rewire(l) \/ CloseWatcher(l) PROVE TypeOK'
  BY <1>2 DEF Rewire, CloseWatcher
<1>3. ASSUME NEW c \in Callers, CallerStep(c) PROVE TypeOK'
  <2>1. CASE SkipRefresh(c)
    BY <2>1 DEF SkipRefresh
  <2>2. CASE Discover(c)
    BY <2>2, RootAssumption DEF Discover
  <2>3. CASE ApplyScan(c)
    <3>1. CASE Duplicates(scan)
      BY <2>3, <3>1 DEF ApplyScan
    <3>2. CASE ~Duplicates(scan)
      <4>1. entries' \in [Names -> Paths \cup {None}]
        BY <2>3, <3>2, EntriesOfType DEF ApplyScan
      <4>2. /\ states' \in [Names -> Loads \cup {None}]
            /\ watchers' \in [Names -> Loads \cup {None}]
            /\ failures' \in [Names -> {"none", "recent", "expired"}]
        BY <2>3, <3>2 DEF ApplyScan, KeepLoads, VanishedState
      <4>3. dropped' \subseteq Loads
        BY <2>3, <3>2 DEF ApplyScan, KeepLoads, VanishedState
      <4> QED BY <2>3, <3>2, <4>1, <4>2, <4>3 DEF ApplyScan, KeepLoads
    <3> QED BY <3>1, <3>2
  <2>4. CASE EndRefresh(c)
    BY <2>4 DEF EndRefresh
  <2>5. CASE Recheck(c)
    BY <2>5 DEF Recheck
  <2>6. CASE AnswerNow(c)
    BY <2>6 DEF AnswerNow
  <2>7. CASE JoinLoad(c)
    BY <2>7 DEF JoinLoad, InFlight, Known
  <2>8. ASSUME NEW l \in Loads, BeginLoad(c, l) PROVE TypeOK'
    <3>1. req[c] \in Names /\ entries[req[c]] \in Paths
      BY <2>8 DEF BeginLoad, StartLoad, Cold, Known
    <3>2. /\ stage' \in [Loads -> Stage]
          /\ name' \in [Loads -> Names]
          /\ path' \in [Loads -> Paths]
      BY <2>8, <3>1 DEF BeginLoad, StartLoad, Stage, Running
    <3>3. /\ loading' \in [Names -> Loads \cup {None}]
          /\ failures' \in [Names -> {"none", "recent", "expired"}]
      BY <2>8, <3>1 DEF BeginLoad, StartLoad, ClearFailure
    <3> QED BY <2>8, <3>1, <3>2, <3>3 DEF BeginLoad, StartLoad, ClearFailure
  <2>9. CASE WaitDone(c)
    BY <2>9 DEF WaitDone
  <2> QED BY <1>3, <2>1, <2>2, <2>3, <2>4, <2>5, <2>6, <2>7, <2>8, <2>9
          DEF CallerStep, RefreshStep
<1>4. ASSUME NEW c \in Callers, Cancel(c) PROVE TypeOK'
  BY <1>4 DEF Cancel
<1>5. ASSUME NEW c \in Callers, NEW n \in Wanted, Request(c, n) PROVE TypeOK'
  BY <1>5, WantedAssumption, NoneAssumption DEF Request
<1>6. ASSUME NEW n \in Names, RetryWindowElapses(n) PROVE TypeOK'
  BY <1>6 DEF RetryWindowElapses
<1>7. ASSUME NEW p \in Paths, AddOrRemoveWorktree(p) PROVE TypeOK'
  BY <1>7 DEF AddOrRemoveWorktree
<1>8. CASE SetReviewBaseRef
  BY <1>8 DEF SetReviewBaseRef
<1>9. CASE Close
  BY <1>9 DEF Close, NoWatchers
<1>10. CASE DebounceElapses
  BY <1>10 DEF DebounceElapses
<1>11. CASE UNCHANGED vars
  BY <1>11 DEF vars
<1> QED BY <1>1, <1>2, <1>3, <1>4, <1>5, <1>6, <1>7, <1>8, <1>9, <1>10, <1>11 DEF Next

\* Type correctness of the registry.
THEOREM TypeCorrect == Spec => []TypeOK
BY TypeInit, TypeStep, PTL DEF Spec

-----------------------------------------------------------------------------
(* Only runLoad, Refresh and ensureLoad touch the cache and the loads. *)

LEMMA RegistryFrame ==
  ASSUME [Next]_vars,
         \A l \in Loads : ~RunLoad(l),
         \A c \in Callers : ~ApplyScan(c) /\ \A l \in Loads : ~BeginLoad(c, l)
  PROVE  UNCHANGED <<entries, states, loading, loadVars>>
<1> USE DEF registryVars, loadVars, Step, Reply
<1>1. ASSUME NEW l \in Loads, Rewire(l) \/ CloseWatcher(l)
      PROVE  UNCHANGED <<entries, states, loading, loadVars>>
  BY <1>1 DEF Rewire, CloseWatcher
<1>2. ASSUME NEW c \in Callers, CallerStep(c) \/ Cancel(c)
      PROVE  UNCHANGED <<entries, states, loading, loadVars>>
  BY <1>2 DEF CallerStep, RefreshStep, SkipRefresh, Discover, EndRefresh, Recheck,
              AnswerNow, JoinLoad, WaitDone, Cancel
<1>3. ASSUME NEW c \in Callers, NEW n \in Wanted, Request(c, n)
      PROVE  UNCHANGED <<entries, states, loading, loadVars>>
  BY <1>3 DEF Request
<1>4. ASSUME NEW n \in Names, RetryWindowElapses(n)
      PROVE  UNCHANGED <<entries, states, loading, loadVars>>
  BY <1>4 DEF RetryWindowElapses
<1>5. ASSUME NEW p \in Paths, AddOrRemoveWorktree(p)
      PROVE  UNCHANGED <<entries, states, loading, loadVars>>
  BY <1>5 DEF AddOrRemoveWorktree
<1>6. CASE SetReviewBaseRef \/ Close \/ DebounceElapses
  BY <1>6 DEF SetReviewBaseRef, Close, DebounceElapses
<1>7. CASE UNCHANGED vars
  BY <1>7 DEF vars
<1> QED BY <1>1, <1>2, <1>3, <1>4, <1>5, <1>6, <1>7 DEF Next

\* A step of runLoad leaves every other load, and every other name, alone.
LEMMA RunLoadFrame ==
  ASSUME TypeOK, NEW l \in Loads, RunLoad(l)
  PROVE  /\ UNCHANGED <<entries, name, path>>
         /\ stage[l] \in Running
         /\ stage' \in [Loads -> Stage]
         /\ \A k \in Loads : k # l => stage'[k] = stage[k]
         /\ \A n \in Names : n # name[l] => /\ states'[n] = states[n]
                                            /\ loading'[n] = loading[n]
                                            /\ failures'[n] = failures[n]
                                            /\ watchers'[n] = watchers[n]
<1> USE DEF TypeOK, registryVars, Goto, At, Running, Stage
<1>1. CASE LoaderReturns(l) BY <1>1 DEF LoaderReturns
<1>2. CASE CommitState(l) BY <1>2 DEF CommitState
<1>3. CASE ReadBaseRef(l) BY <1>3 DEF ReadBaseRef
<1>4. CASE SetResolver(l) BY <1>4 DEF SetResolver
<1>5. CASE InstallWatcher(l) BY <1>5 DEF InstallWatcher
<1>6. CASE RegisterWatcher(l) BY <1>6 DEF RegisterWatcher
<1>7. CASE FinishLoad(l) BY <1>7 DEF FinishLoad, ForgetLoading
<1> QED BY <1>1, <1>2, <1>3, <1>4, <1>5, <1>6, <1>7 DEF RunLoad

-----------------------------------------------------------------------------
(* The conjuncts of the invariant, one lemma each. *)

LEMMA SingleFlightStep == IInv /\ [Next]_vars => SingleFlight'
<1> SUFFICES ASSUME IInv, [Next]_vars PROVE SingleFlight'
  OBVIOUS
<1> USE DEF IInv
<1>1. ASSUME NEW l \in Loads, RunLoad(l) PROVE SingleFlight'
  <2>1. CASE FinishLoad(l)
    <3>1. /\ stage' = [stage EXCEPT ![l] = IF At(l, "failing") THEN "failed" ELSE "done"]
          /\ UNCHANGED name
          /\ loading' = ForgetLoading(l)
          /\ stage[l] \in Running
      BY <2>1 DEF FinishLoad, Running
    <3> QED BY <3>1, NoneAssumption DEF SingleFlight, ForgetLoading, TypeOK, Running
  <2>2. CASE ~FinishLoad(l)
    <3>1. /\ loading' = loading
          /\ stage[l] \in Running /\ stage'[l] \in Running
      BY <1>1, <2>2
      DEF RunLoad, LoaderReturns, CommitState, ReadBaseRef, SetResolver, InstallWatcher,
          RegisterWatcher, registryVars, Goto, At, Running, TypeOK
    <3> QED BY <1>1, <3>1, RunLoadFrame DEF SingleFlight
  <2> QED BY <2>1, <2>2
<1>2. ASSUME NEW c \in Callers, ApplyScan(c) PROVE SingleFlight'
  BY <1>2 DEF ApplyScan, KeepLoads, SingleFlight, loadVars, registryVars
<1>3. ASSUME NEW c \in Callers, NEW l \in Loads, BeginLoad(c, l) PROVE SingleFlight'
  <2>1. /\ stage' = [stage EXCEPT ![l] = "loading"]
        /\ name' = [name EXCEPT ![l] = req[c]]
        /\ loading' = [loading EXCEPT ![req[c]] = l]
        /\ req[c] \in Names /\ loading[req[c]] = None
        /\ stage[l] \notin Running
    BY <1>3 DEF BeginLoad, StartLoad, Cold, Unreferenced, Resolved, TypeOK, Running
  <2>2. \A k \in Loads : stage[k] \in Running => name[k] # req[c]
    BY <2>1, NoneAssumption DEF SingleFlight
  <2> QED BY <2>1, <2>2, NoneAssumption DEF SingleFlight, TypeOK, Running
<1>4. CASE UNCHANGED <<entries, states, loading, loadVars>>
  BY <1>4 DEF SingleFlight, loadVars
<1> QED BY <1>1, <1>2, <1>3, <1>4, RegistryFrame

LEMMA LoadsAgreeStep == IInv /\ [Next]_vars => LoadsAgree'
<1> SUFFICES ASSUME IInv, [Next]_vars PROVE LoadsAgree'
  OBVIOUS
<1> USE DEF IInv
<1>1. ASSUME NEW l \in Loads, RunLoad(l) PROVE LoadsAgree'
  <2>1. \A k \in Loads : stage[k] \in Running /\ name[k] = name[l] => k = l
    BY <1>1, RunLoadFrame DEF SingleFlight, TypeOK
  <2>2. /\ UNCHANGED name
        /\ \A k \in Loads : k # l => stage'[k] = stage[k]
        /\ \A n \in Names : n # name[l] => states'[n] = states[n]
    BY <1>1, RunLoadFrame
  <2>3. CASE CommitState(l) /\ StillCurrent(l)
    <3>1. /\ states' = [states EXCEPT ![name[l]] = l]
          /\ stage'[l] = "committed"
      BY <2>3 DEF CommitState, Goto, TypeOK
    <3>2. name[l] \in Names /\ states[name[l]] = None
      BY <2>3 DEF CommitState, At, TypeOK, LoadsAgree
    <3> QED BY <2>1, <2>2, <3>1, <3>2, NoneAssumption
            DEF LoadsAgree, TypeOK, Running, Committed
  <2>4. CASE ~(CommitState(l) /\ StillCurrent(l))
    <3>1. states' = states
      BY <1>1, <2>4
      DEF RunLoad, LoaderReturns, CommitState, ReadBaseRef, SetResolver, InstallWatcher,
          RegisterWatcher, FinishLoad, registryVars
    <3>2. /\ stage'[l] \in {"loading", "loaded", "failing"}
               => stage[l] \in {"loading", "loaded", "failing"}
          /\ stage[l] \in Committed => stage'[l] \in Committed \cup {"done"}
          /\ stage[l] \in Running
      BY <1>1, <2>4
      DEF RunLoad, LoaderReturns, CommitState, ReadBaseRef, SetResolver, InstallWatcher,
          RegisterWatcher, FinishLoad, Goto, At, TypeOK, Committed, Running
    <3>3. stage[l] # "done"
      BY <3>2 DEF Running
    <3> QED BY <2>2, <3>1, <3>2, <3>3 DEF LoadsAgree, TypeOK
  <2> QED BY <2>3, <2>4
<1>2. ASSUME NEW c \in Callers, ApplyScan(c) PROVE LoadsAgree'
  <2>1. \A n \in Names : states'[n] \in {None, states[n]}
    BY <1>2 DEF ApplyScan, KeepLoads, registryVars, TypeOK
  <2> QED BY <1>2, <2>1 DEF ApplyScan, KeepLoads, LoadsAgree, loadVars, TypeOK
<1>3. ASSUME NEW c \in Callers, NEW l \in Loads, BeginLoad(c, l) PROVE LoadsAgree'
  <2>1. /\ stage' = [stage EXCEPT ![l] = "loading"]
        /\ name' = [name EXCEPT ![l] = req[c]]
        /\ states' = states
        /\ req[c] \in Names /\ states[req[c]] = None
        /\ \A n \in Names : states[n] # l
    BY <1>3 DEF BeginLoad, StartLoad, Cold, Unreferenced, TypeOK
  <2> QED BY <2>1 DEF LoadsAgree, TypeOK, Running
<1>4. CASE UNCHANGED <<entries, states, loading, loadVars>>
  BY <1>4 DEF LoadsAgree, loadVars
<1> QED BY <1>1, <1>2, <1>3, <1>4, RegistryFrame

LEMMA CachedAreKnownStep == IInv /\ [Next]_vars => CachedAreKnown'
<1> SUFFICES ASSUME IInv, [Next]_vars PROVE CachedAreKnown'
  OBVIOUS
<1> USE DEF IInv, CachedAreKnown, Known
<1>1. ASSUME NEW l \in Loads, RunLoad(l) PROVE CachedAreKnown'
  <2>1. CASE CommitState(l)
    BY <2>1, NoneAssumption DEF CommitState, StillCurrent, TypeOK
  <2>2. CASE ~CommitState(l)
    BY <1>1, <2>2
    DEF RunLoad, LoaderReturns, ReadBaseRef, SetResolver, InstallWatcher,
        RegisterWatcher, FinishLoad, registryVars
  <2> QED BY <2>1, <2>2
<1>2. ASSUME NEW c \in Callers, ApplyScan(c) PROVE CachedAreKnown'
  BY <1>2 DEF ApplyScan, KeepLoads, VanishedState, registryVars, TypeOK
<1>3. ASSUME NEW c \in Callers, NEW l \in Loads, BeginLoad(c, l) PROVE CachedAreKnown'
  BY <1>3 DEF BeginLoad, StartLoad
<1>4. CASE UNCHANGED <<entries, states, loading, loadVars>>
  BY <1>4
<1> QED BY <1>1, <1>2, <1>3, <1>4, RegistryFrame

LEMMA FailureMeansColdStep == IInv /\ [Next]_vars => FailureMeansCold'
<1> SUFFICES ASSUME IInv, [Next]_vars, NEW n \in Names, failures'[n] # "none"
             PROVE  states'[n] = None /\ loading'[n] = None
  BY DEF FailureMeansCold
<1> USE DEF IInv
<1>1. ASSUME NEW l \in Loads, RunLoad(l)
      PROVE  states'[n] = None /\ loading'[n] = None
  <2>1. CASE n # name[l]
    BY <1>1, <2>1, RunLoadFrame DEF FailureMeansCold
  <2>2. CASE n = name[l]
    <3>1. loading[n] = l
      BY <1>1, <2>2, RunLoadFrame DEF SingleFlight
    <3>2. failures[n] = "none"
      BY <3>1, NoneAssumption DEF FailureMeansCold
    <3>3. FinishLoad(l) /\ At(l, "failing")
      BY <1>1, <2>2, <3>2
      DEF RunLoad, LoaderReturns, CommitState, ReadBaseRef, SetResolver, InstallWatcher,
          RegisterWatcher, FinishLoad, registryVars, TypeOK
    <3> QED BY <2>2, <3>1, <3>3
            DEF FinishLoad, ForgetLoading, At, LoadsAgree, TypeOK
  <2> QED BY <2>1, <2>2
<1>2. ASSUME NEW c \in Callers, ApplyScan(c)
      PROVE  states'[n] = None /\ loading'[n] = None
  BY <1>2 DEF ApplyScan, KeepLoads, FailureMeansCold, VanishedState, registryVars, TypeOK
<1>3. ASSUME NEW c \in Callers, NEW l \in Loads, BeginLoad(c, l)
      PROVE  states'[n] = None /\ loading'[n] = None
  BY <1>3 DEF BeginLoad, StartLoad, ClearFailure, FailureMeansCold, TypeOK
<1>4. ASSUME NEW m \in Names, RetryWindowElapses(m)
      PROVE  states'[n] = None /\ loading'[n] = None
  BY <1>4 DEF RetryWindowElapses, FailureMeansCold, TypeOK
<1>5. CASE /\ UNCHANGED <<entries, states, loading, loadVars>>
           /\ \A m \in Names : ~RetryWindowElapses(m)
           /\ \A l \in Loads : ~RunLoad(l)
           /\ \A c \in Callers : ~ApplyScan(c) /\ \A l \in Loads : ~BeginLoad(c, l)
  <2>1. failures' = failures
    BY <1>5
    DEF Next, vars, CallerStep, RefreshStep, SkipRefresh, Discover, EndRefresh, Recheck,
        AnswerNow, JoinLoad, WaitDone, Cancel, Request, Rewire, CloseWatcher,
        AddOrRemoveWorktree, SetReviewBaseRef, Close, DebounceElapses, registryVars
  <2> QED BY <1>5, <2>1 DEF FailureMeansCold
<1> QED BY <1>1, <1>2, <1>3, <1>4, <1>5, RegistryFrame

LEMMA WatchersStep == IInv /\ [Next]_vars => ClosersAreExclusive' /\ WatchersAgree'
<1> SUFFICES ASSUME IInv, [Next]_vars PROVE ClosersAreExclusive' /\ WatchersAgree'
  OBVIOUS
<1> DEFINE Goal == ClosersAreExclusive' /\ WatchersAgree'
<1> USE DEF IInv
<1>1. ASSUME NEW l \in Loads, RunLoad(l) PROVE Goal
  <2> USE DEF ClosersAreExclusive, WatchersAgree, Registered, At, TypeOK
  <2>1. CASE InstallWatcher(l)
    BY <2>1 DEF InstallWatcher, Goto, registryVars, refreshVars
  <2>2. CASE RegisterWatcher(l)
    <3>1. /\ watchers' = [watchers EXCEPT ![name[l]] = l]
          /\ stage' = [stage EXCEPT ![l] = "resolving"]
          /\ UNCHANGED <<name, open, dropped, closers>>
          /\ stage[l] = "watching" /\ l \in open /\ l \notin dropped \cup closers
          /\ name[l] \in Names
      BY <2>2 DEF RegisterWatcher, Goto, refreshVars
    <3> QED BY <3>1
  <2>3. CASE FinishLoad(l)
    <3>1. /\ stage' = [stage EXCEPT ![l] = IF stage[l] = "failing" THEN "failed" ELSE "done"]
          /\ UNCHANGED <<name, watchers, open, dropped, closers>>
          /\ stage[l] \in {"resolving", "failing"}
      BY <2>3 DEF FinishLoad, refreshVars
    <3> QED BY <3>1
  <2>4. CASE LoaderReturns(l) \/ CommitState(l) \/ ReadBaseRef(l) \/ SetResolver(l)
    <3>1. /\ UNCHANGED <<name, watchers, open, dropped, closers>>
          /\ stage[l] \in {"loading", "loaded", "committed", "wiring"}
          /\ stage'[l] \in {"loaded", "failing", "committed", "wiring", "wired"}
          /\ \A k \in Loads : k # l => stage'[k] = stage[k]
      BY <2>4 DEF LoaderReturns, CommitState, ReadBaseRef, SetResolver, Goto,
                  registryVars, refreshVars
    <3> QED BY <3>1
  <2> QED BY <1>1, <2>1, <2>2, <2>3, <2>4 DEF RunLoad
<1>2. ASSUME NEW c \in Callers, ApplyScan(c) PROVE Goal
  <2>1. CASE Duplicates(scan)
    BY <1>2, <2>1 DEF ApplyScan, KeepLoads, ClosersAreExclusive, WatchersAgree, Registered, At,
                      registryVars, loadVars
  <2>2. CASE ~Duplicates(scan)
    <3>1. PICK Drop \in SUBSET Names :
            /\ dropped' = {watchers[n] : n \in Drop} \ {None}
            /\ watchers' = [n \in Names |-> IF n \in Drop THEN None ELSE watchers[n]]
      BY <1>2, <2>2 DEF ApplyScan, KeepLoads, VanishedState
    <3>2. UNCHANGED <<name, stage, open, closers>>
      BY <1>2 DEF ApplyScan, KeepLoads, loadVars
    <3>3. \A n \in Names : watchers'[n] # None =>
            watchers'[n] = watchers[n] /\ watchers[n] \notin dropped'
      BY <3>1 DEF ClosersAreExclusive
    <3>4. \A l \in dropped' : \E n \in Names : l = watchers[n] /\ watchers[n] # None
      BY <3>1
    <3> QED BY <3>2, <3>3, <3>4 DEF ClosersAreExclusive, WatchersAgree, Registered, At
  <2> QED BY <2>1, <2>2
<1>3. ASSUME NEW c \in Callers, NEW l \in Loads, BeginLoad(c, l) PROVE Goal
  <2>1. /\ stage' = [stage EXCEPT ![l] = "loading"]
        /\ name' = [name EXCEPT ![l] = req[c]]
        /\ UNCHANGED <<watchers, open, dropped, closers>>
        /\ l \notin open \cup dropped \cup closers
        /\ \A n \in Names : watchers[n] # l
    BY <1>3 DEF BeginLoad, StartLoad, Unreferenced, refreshVars
  <2> QED BY <2>1 DEF ClosersAreExclusive, WatchersAgree, Registered, At, TypeOK
<1>4. ASSUME NEW c \in Callers, EndRefresh(c) PROVE Goal
  <2>1. /\ open' = open \ dropped /\ dropped' = {}
        /\ UNCHANGED <<watchers, stage, name, closers>>
    BY <1>4 DEF EndRefresh, registryVars, loadVars
  <2> QED BY <2>1 DEF ClosersAreExclusive, WatchersAgree, Registered, At
<1>5. CASE Close
  <2>1. /\ closers' = {watchers[n] : n \in Names} \ {None}
        /\ watchers' = [n \in Names |-> None]
        /\ UNCHANGED <<stage, name, open, dropped>>
    BY <1>5 DEF Close, NoWatchers, loadVars, refreshVars
  <2> QED BY <2>1 DEF ClosersAreExclusive, WatchersAgree, Registered, At
<1>6. ASSUME NEW l \in Loads, CloseWatcher(l) PROVE Goal
  <2>1. /\ l \in closers
        /\ open' = open \ {l} /\ closers' = closers \ {l}
        /\ UNCHANGED <<watchers, stage, name, dropped>>
    BY <1>6 DEF CloseWatcher, registryVars, loadVars, refreshVars
  <2> QED BY <2>1 DEF ClosersAreExclusive, WatchersAgree, Registered, At
<1>7. CASE /\ UNCHANGED <<entries, states, loading, loadVars>>
           /\ \A l \in Loads : ~RunLoad(l) /\ ~CloseWatcher(l)
           /\ \A c \in Callers : /\ ~ApplyScan(c) /\ ~EndRefresh(c)
                                 /\ \A l \in Loads : ~BeginLoad(c, l)
           /\ ~Close
  <2>1. UNCHANGED <<watchers, open, dropped, closers>>
    BY <1>7
    DEF Next, vars, CallerStep, RefreshStep, SkipRefresh, Discover, Recheck, AnswerNow,
        JoinLoad, WaitDone, Cancel, Request, Rewire, RetryWindowElapses,
        AddOrRemoveWorktree, SetReviewBaseRef, DebounceElapses, registryVars, refreshVars
  <2> QED BY <1>7, <2>1 DEF ClosersAreExclusive, WatchersAgree, Registered, At, loadVars
<1> QED BY <1>1, <1>2, <1>3, <1>4, <1>5, <1>6, <1>7, RegistryFrame

LEMMA WaitersStep == IInv /\ [Next]_vars => WaitersAreServed'
<1> SUFFICES ASSUME IInv, [Next]_vars, SingleFlight' PROVE WaitersAreServed'
  BY SingleFlightStep
<1> SUFFICES ASSUME NEW c \in Callers, pc'[c] = "waiting"
             PROVE  wait'[c] \in Loads /\ name'[wait'[c]] = req'[c] /\ req'[c] \in Names
  BY NoneAssumption DEF WaitersAreServed, SingleFlight
<1> DEFINE Goal == wait'[c] \in Loads /\ name'[wait'[c]] = req'[c] /\ req'[c] \in Names
<1> USE DEF IInv
<1>a. pc[c] = "waiting" => wait[c] \in Loads /\ name[wait[c]] = req[c] /\ req[c] \in Names
  BY DEF WaitersAreServed, TypeOK
<1>1. ASSUME NEW l \in Loads, RunLoad(l) PROVE Goal
  <2>1. UNCHANGED <<pc, req, wait>>
    BY <1>1
    DEF RunLoad, LoaderReturns, CommitState, ReadBaseRef, SetResolver, InstallWatcher,
        RegisterWatcher, FinishLoad, callerVars
  <2> QED BY <1>1, <1>a, <2>1, RunLoadFrame
<1>2. ASSUME NEW d \in Callers, NEW l \in Loads, BeginLoad(d, l) PROVE Goal
  <2>1. /\ name' = [name EXCEPT ![l] = req[d]]
        /\ req[d] \in Names
        /\ wait[c] # l
    BY <1>2 DEF BeginLoad, StartLoad, Cold, Unreferenced, TypeOK
  <2>2. CASE d = c
    BY <1>2, <2>1, <2>2 DEF BeginLoad, Reply, TypeOK
  <2>3. CASE d # c
    BY <1>2, <1>a, <2>1, <2>3 DEF BeginLoad, Reply, TypeOK
  <2> QED BY <2>2, <2>3
<1>3. ASSUME NEW d \in Callers, JoinLoad(d) PROVE Goal
  <2>1. /\ InFlight(req[d]) /\ req[d] \in Names
        /\ name' = name
    BY <1>3 DEF JoinLoad, loadVars, TypeOK
  <2>2. loading[req[d]] \in Loads /\ name[loading[req[d]]] = req[d]
    BY <2>1 DEF InFlight, SingleFlight, TypeOK
  <2>3. CASE d = c
    BY <1>3, <2>1, <2>2, <2>3 DEF JoinLoad, Reply, TypeOK
  <2>4. CASE d # c
    BY <1>3, <1>a, <2>1, <2>4 DEF JoinLoad, Reply, TypeOK
  <2> QED BY <2>3, <2>4
<1>4. ASSUME NEW d \in Callers,
             \/ SkipRefresh(d) \/ RefreshStep(d) \/ Recheck(d) \/ AnswerNow(d)
             \/ WaitDone(d) \/ Cancel(d) \/ \E n \in Wanted : Request(d, n)
      PROVE  Goal
  <2>1. /\ pc[c] = "waiting" /\ req'[c] = req[c] /\ wait'[c] = wait[c]
        /\ name' = name
    BY <1>4
    DEF SkipRefresh, RefreshStep, Discover, ApplyScan, EndRefresh, Recheck, AnswerNow,
        WaitDone, Cancel, Request, Step, Reply, loadVars, TypeOK
  <2> QED BY <1>a, <2>1
<1>5. ASSUME \/ \E l \in Loads : Rewire(l) \/ CloseWatcher(l)
             \/ \E n \in Names : RetryWindowElapses(n)
             \/ \E p \in Paths : AddOrRemoveWorktree(p)
             \/ SetReviewBaseRef \/ Close \/ DebounceElapses \/ UNCHANGED vars
      PROVE  Goal
  <2>1. UNCHANGED <<pc, req, wait, name>>
    BY <1>5
    DEF Rewire, CloseWatcher, RetryWindowElapses, AddOrRemoveWorktree, SetReviewBaseRef,
        Close, DebounceElapses, vars, callerVars, loadVars
  <2> QED BY <1>a, <2>1
<1> QED BY <1>1, <1>2, <1>3, <1>4, <1>5 DEF Next, CallerStep

-----------------------------------------------------------------------------
(* The theorems. *)

LEMMA InvInit == Init => IInv
<1> SUFFICES ASSUME Init PROVE IInv
  OBVIOUS
<1>1. TypeOK
  BY TypeInit
<1>2. SingleFlight /\ LoadsAgree /\ CachedAreKnown /\ FailureMeansCold
  BY NoneAssumption DEF Init, SingleFlight, LoadsAgree, CachedAreKnown, FailureMeansCold,
                        Running
<1>3. ClosersAreExclusive /\ WatchersAgree /\ WaitersAreServed
  BY DEF Init, ClosersAreExclusive, WatchersAgree, WaitersAreServed, At, Registered
<1> QED BY <1>1, <1>2, <1>3 DEF IInv

LEMMA InvStep == IInv /\ [Next]_vars => IInv'
<1>1. IInv /\ [Next]_vars => TypeOK'
  BY TypeStep DEF IInv
<1> QED BY <1>1, SingleFlightStep, LoadsAgreeStep, CachedAreKnownStep,
           FailureMeansColdStep, WatchersStep, WaitersStep DEF IInv

\* The invariant holds of the registry for every number of paths, names, loads
\* and requests.
THEOREM Invariance == Spec => []IInv
BY InvInit, InvStep, PTL DEF Spec

\* A name never has two unresolved loads, and its loading entry is the one it has.
THEOREM SingleFlightHolds == Spec => []SingleFlight
<1>1. IInv => SingleFlight BY DEF IInv
<1> QED BY <1>1, Invariance, PTL

\* A State is cached only under a name the registry knows.
THEOREM CachedAreKnownHolds == Spec => []CachedAreKnown
<1>1. IInv => CachedAreKnown BY DEF IInv
<1> QED BY <1>1, Invariance, PTL

\* A name with a recorded failure is neither cached nor loading.
THEOREM FailureMeansColdHolds == Spec => []FailureMeansCold
<1>1. IInv => FailureMeansCold BY DEF IInv
<1> QED BY <1>1, Invariance, PTL

\* Refresh and Close never close the same watcher, nor one already closed.
THEOREM ClosersAreExclusiveHolds == Spec => []ClosersAreExclusive
<1>1. IInv => ClosersAreExclusive BY DEF IInv
<1> QED BY <1>1, Invariance, PTL

\* A waiting request waits on a live or resolved load of the name it asked for.
THEOREM WaitersAreServedHolds == Spec => []WaitersAreServed
<1>1. IInv => WaitersAreServed BY DEF IInv
<1> QED BY <1>1, Invariance, PTL

\* A cached State is never replaced, and dropped only with its name.
THEOREM CacheIsStableHolds == Spec => CacheIsStable
<1>1. ASSUME IInv, [Next]_vars PROVE StableStep
  <2> USE <1>1 DEF IInv
  <2>1. ASSUME NEW l \in Loads, RunLoad(l) PROVE StableStep
    <3>1. CASE CommitState(l) /\ StillCurrent(l)
      BY <3>1 DEF CommitState, LoadsAgree, At, StableStep, TypeOK
    <3>2. CASE ~(CommitState(l) /\ StillCurrent(l))
      BY <2>1, <3>2
      DEF RunLoad, LoaderReturns, CommitState, ReadBaseRef, SetResolver, InstallWatcher,
          RegisterWatcher, FinishLoad, registryVars, StableStep
    <3> QED BY <3>1, <3>2
  <2>2. ASSUME NEW c \in Callers, ApplyScan(c) PROVE StableStep
    BY <2>2 DEF ApplyScan, KeepLoads, VanishedState, StableStep, registryVars, TypeOK
  <2>3. ASSUME NEW c \in Callers, NEW l \in Loads, BeginLoad(c, l) PROVE StableStep
    BY <2>3 DEF BeginLoad, StartLoad, StableStep
  <2>4. CASE UNCHANGED <<entries, states, loading, loadVars>>
    BY <2>4 DEF StableStep
  <2> QED BY <2>1, <2>2, <2>3, <2>4, RegistryFrame
<1> QED BY <1>1, Invariance, PTL DEF Spec, CacheIsStable

\* A State is committed by the one load in flight for its name, while the registry
\* still maps the name to the path that load parsed.
THEOREM CommitsAreCurrentHolds == Spec => CommitsAreCurrent
<1>1. ASSUME IInv, [Next]_vars PROVE CurrentCommitStep
  <2> USE <1>1 DEF IInv
  <2>1. ASSUME NEW l \in Loads, RunLoad(l) PROVE CurrentCommitStep
    <3>1. CASE CommitState(l) /\ StillCurrent(l)
      <4>1. states' = [states EXCEPT ![name[l]] = l] /\ entries' = entries
        BY <3>1 DEF CommitState
      <4>2. entries[name[l]] = path[l] /\ loading[name[l]] = l
        BY <3>1 DEF CommitState, StillCurrent, At, SingleFlight, Running, TypeOK
      <4> QED BY <4>1, <4>2 DEF CurrentCommitStep, TypeOK
    <3>2. CASE ~(CommitState(l) /\ StillCurrent(l))
      BY <2>1, <3>2
      DEF RunLoad, LoaderReturns, CommitState, ReadBaseRef, SetResolver, InstallWatcher,
          RegisterWatcher, FinishLoad, registryVars, CurrentCommitStep
    <3> QED BY <3>1, <3>2
  <2>2. ASSUME NEW c \in Callers, ApplyScan(c) PROVE CurrentCommitStep
    BY <2>2 DEF ApplyScan, KeepLoads, CurrentCommitStep, registryVars, TypeOK
  <2>3. ASSUME NEW c \in Callers, NEW l \in Loads, BeginLoad(c, l) PROVE CurrentCommitStep
    BY <2>3 DEF BeginLoad, StartLoad, CurrentCommitStep
  <2>4. CASE UNCHANGED <<entries, states, loading, loadVars>>
    BY <2>4 DEF CurrentCommitStep
  <2> QED BY <2>1, <2>2, <2>3, <2>4, RegistryFrame
<1> QED BY <1>1, Invariance, PTL DEF Spec, CommitsAreCurrent

\* What the registry keeps under its names agrees in every reachable state.
THEOREM RegistryIsConsistentHolds == Spec => []RegistryIsConsistent
<1>1. CachedAreKnown /\ FailureMeansCold /\ ClosersAreExclusive /\ WaitersAreServed
        => RegistryIsConsistent
  BY DEF RegistryIsConsistent
<1> QED
  BY <1>1, CachedAreKnownHolds, FailureMeansColdHolds, ClosersAreExclusiveHolds,
     WaitersAreServedHolds, PTL

\* What enters the cache is the load of the name's path, and only a scan that dropped
\* the name takes it out again.
THEOREM CacheStepsAreSoundHolds == Spec => CacheStepsAreSound
BY CacheIsStableHolds, CommitsAreCurrentHolds, PTL
DEF CacheIsStable, CommitsAreCurrent, CacheStepsAreSound

-----------------------------------------------------------------------------
(* The registry implements the life cycle. *)

\* A step that leaves the four maps alone is a stuttering step of the life cycle.
LEMMA StutterStep ==
  ASSUME UNCHANGED <<entries, states, loading>>,
         \A n \in Names : failures'[n] # "none" <=> failures[n] # "none"
  PROVE  UNCHANGED Lifecycle!vars
<1>1. \A n \in Names : StatusOf(n)' = StatusOf(n)
  BY DEF StatusOf
<1>2. \A n \in Names : Known(n)' = Known(n)
  BY DEF Known
<1> QED BY <1>1, <1>2 DEF Lifecycle!vars

\* A step that changes the status of one name only.
LEMMA BecomeStep ==
  ASSUME NEW n \in Names, NEW s, UNCHANGED entries, StatusOf(n)' = s,
         \A m \in Names : m # n => StatusOf(m)' = StatusOf(m)
  PROVE  Lifecycle!Become(n, s)
<1>1. UNCHANGED {m \in Names : Known(m)}
  BY DEF Known
<1>2. [m \in Names |-> StatusOf(m)]' = [[m \in Names |-> StatusOf(m)] EXCEPT ![n] = s]
  OBVIOUS
<1> QED BY <1>1, <1>2 DEF Lifecycle!Become

LEMMA RunLoadRefines ==
  ASSUME IInv, NEW l \in Loads, RunLoad(l), NEW n \in Names, n = name[l]
  PROVE  [Lifecycle!Next]_(Lifecycle!vars)
<1> USE DEF IInv
<1>1. n \in Names /\ loading[n] = l /\ l # None
  BY RunLoadFrame, NoneAssumption DEF SingleFlight, TypeOK
<1>2. \A m \in Names : m # n => StatusOf(m)' = StatusOf(m)
  BY RunLoadFrame DEF StatusOf
<1>3. CASE CommitState(l) /\ StillCurrent(l)
  <2>1. states[n] = None /\ entries[n] # None
    BY <1>1, <1>3, NoneAssumption
    DEF CommitState, StillCurrent, At, LoadsAgree, TypeOK
  <2>2. StatusOf(n) = "loading" /\ StatusOf(n)' = "ready" /\ UNCHANGED entries
    BY <1>1, <1>3, <2>1 DEF CommitState, StatusOf, TypeOK
  <2>3. Lifecycle!Become(n, "ready")
    BY <1>1, <1>2, <2>2, BecomeStep
  <2>4. Lifecycle!Succeed(n)
    BY <1>1, <2>1, <2>2, <2>3 DEF Lifecycle!Succeed, Known
  <2> QED BY <1>1, <2>4 DEF Lifecycle!Next
<1>4. CASE FinishLoad(l) /\ states[n] = None
  <2>1. /\ UNCHANGED <<entries, states>>
        /\ loading'[n] = None
        /\ failures'[n] = IF At(l, "failing") THEN "recent" ELSE "none"
    BY <1>1, <1>4 DEF FinishLoad, ForgetLoading, TypeOK
  <2>2. StatusOf(n) = "loading"
    BY <1>1, <1>4 DEF StatusOf
  <2>3. CASE At(l, "failing")
    <3>1. StatusOf(n)' = "failed"
      BY <1>4, <2>1, <2>3 DEF StatusOf
    <3>2. Lifecycle!Become(n, "failed")
      BY <1>1, <1>2, <2>1, <3>1, BecomeStep
    <3> QED BY <1>1, <2>2, <3>2 DEF Lifecycle!Next, Lifecycle!Fail
  <2>4. CASE ~At(l, "failing")
    <3>1. StatusOf(n)' = "cold"
      BY <1>4, <2>1, <2>4 DEF StatusOf
    <3>2. Lifecycle!Become(n, "cold")
      BY <1>1, <1>2, <2>1, <3>1, BecomeStep
    <3> QED BY <1>1, <2>2, <3>2 DEF Lifecycle!Next, Lifecycle!Abandon
  <2> QED BY <2>3, <2>4
<1>5. CASE FinishLoad(l) /\ states[n] # None
  <2>1. UNCHANGED <<entries, states>>
    BY <1>5 DEF FinishLoad
  <2>2. StatusOf(n)' = StatusOf(n)
    BY <1>5, <2>1 DEF StatusOf
  <2>3. \A m \in Names : StatusOf(m)' = StatusOf(m) /\ Known(m)' = Known(m)
    BY <1>2, <2>1, <2>2 DEF Known
  <2> QED BY <2>3 DEF Lifecycle!vars
<1>6. CASE ~FinishLoad(l) /\ ~(CommitState(l) /\ StillCurrent(l))
  <2>1. UNCHANGED <<entries, states, loading, failures>>
    BY <1>6
    DEF RunLoad, LoaderReturns, CommitState, ReadBaseRef, SetResolver, InstallWatcher,
        RegisterWatcher, registryVars
  <2> QED BY <2>1, StutterStep
<1> QED BY <1>3, <1>4, <1>5, <1>6

LEMMA ApplyScanRefines ==
  ASSUME IInv, NEW c \in Callers, ApplyScan(c)
  PROVE  [Lifecycle!Next]_(Lifecycle!vars)
<1>1. CASE Duplicates(scan)
  BY <1>1, StutterStep DEF ApplyScan, KeepLoads, registryVars
<1>2. CASE ~Duplicates(scan)
  <2>1. \A n \in Names :
          /\ states'[n] = IF states[n] # None /\ entries'[n] = None THEN None ELSE states[n]
          /\ failures'[n] = IF entries'[n] = None THEN "none" ELSE failures[n]
          /\ loading'[n] = loading[n]
    BY <1>2 DEF ApplyScan, KeepLoads, VanishedState
  <2>2. ASSUME NEW n \in Names
        PROVE  IF Known(n)' \/ StatusOf(n) = "loading"
                 THEN StatusOf(n)' = StatusOf(n)
                 ELSE \/ StatusOf(n)' = "cold"
                      \/ StatusOf(n) = "ready" /\ StatusOf(n)' = "loading"
    BY <2>1 DEF StatusOf, Known
  <2>3. \A n \in Names : StatusOf(n)' \in Lifecycle!Status
    BY DEF StatusOf, Lifecycle!Status
  <2>4. Lifecycle!Rescan
    BY <2>2, <2>3 DEF Lifecycle!Rescan
  <2> QED BY <2>4 DEF Lifecycle!Next
<1> QED BY <1>1, <1>2

LEMMA BeginLoadRefines ==
  ASSUME IInv, NEW c \in Callers, NEW l \in Loads, BeginLoad(c, l),
         NEW n \in Names, n = req[c]
  PROVE  [Lifecycle!Next]_(Lifecycle!vars)
<1>1. /\ n \in Names /\ Known(n) /\ states[n] = None /\ loading[n] = None
      /\ UNCHANGED <<entries, states>>
      /\ loading' = [loading EXCEPT ![n] = l]
      /\ failures' = [failures EXCEPT ![n] = "none"]
  BY DEF BeginLoad, StartLoad, Cold, Known, ClearFailure, IInv, TypeOK
<1>2. StatusOf(n) \in {"cold", "failed"} /\ StatusOf(n)' = "loading"
  BY <1>1, NoneAssumption DEF StatusOf, IInv, TypeOK
<1>3. \A m \in Names : m # n => StatusOf(m)' = StatusOf(m)
  BY <1>1 DEF StatusOf, IInv, TypeOK
<1>4. Lifecycle!Become(n, "loading")
  BY <1>1, <1>2, <1>3, BecomeStep
<1>5. Lifecycle!Begin(n)
  BY <1>1, <1>2, <1>4 DEF Lifecycle!Begin
<1> QED BY <1>1, <1>5 DEF Lifecycle!Next

LEMMA OtherStepsRefine ==
  ASSUME IInv, [Next]_vars,
         \A l \in Loads : ~RunLoad(l),
         \A c \in Callers : ~ApplyScan(c) /\ \A l \in Loads : ~BeginLoad(c, l)
  PROVE  UNCHANGED Lifecycle!vars
<1>1. UNCHANGED <<entries, states, loading>>
  BY RegistryFrame
<1>2. ASSUME NEW m \in Names, RetryWindowElapses(m) PROVE UNCHANGED Lifecycle!vars
  BY <1>1, <1>2, StutterStep DEF RetryWindowElapses, IInv, TypeOK
<1>3. CASE \A m \in Names : ~RetryWindowElapses(m)
  <2>1. failures' = failures
    BY <1>3
    DEF Next, vars, CallerStep, RefreshStep, SkipRefresh, Discover, EndRefresh, Recheck,
        AnswerNow, JoinLoad, WaitDone, Cancel, Request, Rewire, CloseWatcher,
        AddOrRemoveWorktree, SetReviewBaseRef, Close, DebounceElapses, registryVars
  <2> QED BY <1>1, <2>1, StutterStep
<1> QED BY <1>2, <1>3

\* What a transport sees of a name is what the abstract registry allows, however
\* scans, loads and requests interleave.
THEOREM Refinement == Spec => ImplementsLifecycle
<1>1. Init => Lifecycle!Init
  BY DEF Init, Lifecycle!Init, StatusOf
<1>2. IInv /\ [Next]_vars => [Lifecycle!Next]_(Lifecycle!vars)
  <2> SUFFICES ASSUME IInv, [Next]_vars PROVE [Lifecycle!Next]_(Lifecycle!vars)
    OBVIOUS
  <2>1. ASSUME NEW l \in Loads, RunLoad(l) PROVE [Lifecycle!Next]_(Lifecycle!vars)
    BY <2>1, RunLoadRefines DEF IInv, TypeOK
  <2>2. ASSUME NEW c \in Callers, NEW l \in Loads, BeginLoad(c, l)
        PROVE  [Lifecycle!Next]_(Lifecycle!vars)
    <3>1. req[c] \in Names
      BY <2>2 DEF BeginLoad, StartLoad, Cold, Known, IInv, TypeOK
    <3> QED BY <2>2, <3>1, BeginLoadRefines
  <2> QED BY <2>1, <2>2, ApplyScanRefines, OtherStepsRefine
<1> QED BY <1>1, <1>2, Invariance, PTL DEF Spec, ImplementsLifecycle, Lifecycle!Spec
=============================================================================
