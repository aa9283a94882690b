-------------------------- MODULE WorktreeLifecycle --------------------------
(***************************************************************************)
(* What the worktree registry promises a transport about one name at a     *)
(* time, without handles, locks or watchers: a name is cold, loading,      *)
(* ready or failed, and only a load that began for a registered name makes *)
(* it ready or failed.  MultiState implements this.                        *)
(***************************************************************************)
CONSTANTS Names

VARIABLES
  registered,  \* names a request can resolve
  status       \* what a request for the name finds

vars == <<registered, status>>

Status == {"cold", "loading", "ready", "failed"}

TypeOK == registered \subseteq Names /\ status \in [Names -> Status]

Init == registered \subseteq Names /\ status = [n \in Names |-> "cold"]

Become(n, s) == status' = [status EXCEPT ![n] = s] /\ UNCHANGED registered

\* A request starts a load, of a registered name only.
Begin(n) == n \in registered /\ status[n] \in {"cold", "failed"} /\ Become(n, "loading")

\* The model becomes available, to registered names only.
Succeed(n) == n \in registered /\ status[n] = "loading" /\ Become(n, "ready")

\* The load fails, or unwinds after its model was dropped.
Fail(n)    == status[n] = "loading" /\ Become(n, "failed")
Abandon(n) == status[n] = "loading" /\ Become(n, "cold")

\* A re-scan replaces the names.  A name that is gone keeps neither model nor
\* failure; a load still unwinding is seen until it ends.
Rescan ==
  /\ registered' \subseteq Names
  /\ status' \in [Names -> Status]
  /\ \A n \in Names :
       IF n \in registered' \/ status[n] = "loading"
         THEN status'[n] = status[n]
         ELSE \/ status'[n] = "cold"
              \/ status[n] = "ready" /\ status'[n] = "loading"

Next == Rescan \/ \E n \in Names : Begin(n) \/ Succeed(n) \/ Fail(n) \/ Abandon(n)

Spec == Init /\ [][Next]_vars
=============================================================================
