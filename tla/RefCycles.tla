------------------------------- MODULE RefCycles -------------------------------
(***************************************************************************)
(* The search for cycles among the components of an event model that refer  *)
(* to each other's types (eventmodel/validate.go, validateRefCycles): a     *)
(* depth-first search from every component that was not visited, whose      *)
(* order of successors is that of a Go map.  When a cycle is found the      *)
(* whole search from that root ends, and what is on the path stays there.   *)
(***************************************************************************)
EXTENDS Naturals, Sequences, FiniteSets

CONSTANTS Nodes

VARIABLES
  deps,   \* the components each one refers to
  mark,   \* visited: "new", "open" (1) or "done" (2)
  path,   \* the names on the path, never shortened after a cycle
  depth,  \* how many of them the running search has on its call stack
  left,   \* of each component, the successors its loop still has to visit
  found   \* the cycles reported

refVars == <<deps, mark, path, depth, left, found>>

Top == path[Len(path)]
Idle == depth = 0

\* The part of the path from the component on that was met again.
CycleFrom(n) ==
  LET start == CHOOSE x \in DOMAIN path : path[x] = n /\ \A y \in 1..(x - 1) : path[y] # n
  IN SubSeq(path, start, Len(path))

Enter(n) ==
  /\ mark' = [mark EXCEPT ![n] = "open"]
  /\ path' = Append(path, n)
  /\ depth' = depth + 1
  /\ left' = [left EXCEPT ![n] = deps[n]]
  /\ UNCHANGED <<deps, found>>

Root(n) == Idle /\ mark[n] = "new" /\ Enter(n)
Descend(n) == ~Idle /\ n \in left[Top] /\ mark[n] = "new" /\ Enter(n)

\* A successor that is done: the loop goes on.
Skip(n) ==
  /\ ~Idle /\ n \in left[Top] /\ mark[n] = "done"
  /\ left' = [left EXCEPT ![Top] = @ \ {n}]
  /\ UNCHANGED <<deps, mark, path, depth, found>>

\* A successor that is open: a finding, and every call of the search returns true.
\* (MeetLong: two components that refer to each other are no cycle.)
MeetLong(n) ==
  /\ ~Idle /\ n \in left[Top] /\ mark[n] = "open"
  /\ found' = IF Len(CycleFrom(n)) > 2 THEN found \cup {CycleFrom(n)} ELSE found
  /\ depth' = 0
  /\ UNCHANGED <<deps, mark, path, left>>
Meet(n) ==
  /\ ~Idle /\ n \in left[Top] /\ mark[n] = "open"
  /\ found' = found \cup {CycleFrom(n)}
  /\ depth' = 0
  /\ UNCHANGED <<deps, mark, path, left>>

\* The loop of a component is over: it is done and leaves the path.
Leave ==
  /\ ~Idle /\ left[Top] = {}
  /\ mark' = [mark EXCEPT ![Top] = "done"]
  /\ path' = SubSeq(path, 1, Len(path) - 1)
  /\ depth' = depth - 1
  /\ UNCHANGED <<deps, left, found>>

Begin(d) ==
  /\ deps' = d
  /\ mark' = [n \in Nodes |-> "new"]
  /\ path' = <<>>
  /\ depth' = 0
  /\ left' = [n \in Nodes |-> {}]
  /\ found' = {}

NodesAreNew ==
  /\ mark = [n \in Nodes |-> "new"]
  /\ path = <<>>
  /\ depth = 0
  /\ left = [n \in Nodes |-> {}]
  /\ found = {}

RefInit ==
  /\ deps \in [Nodes -> SUBSET Nodes]
  /\ \A n \in Nodes : n \notin deps[n]
  /\ NodesAreNew

Search == Leave \/ \E n \in Nodes : Root(n) \/ Descend(n) \/ Skip(n) \/ Meet(n)
Over == Idle /\ \A n \in Nodes : mark[n] # "new"

RefSpec == RefInit /\ [][Search]_refVars

-----------------------------------------------------------------------------
\* A component that cannot reach itself is on no cycle: closed sets of components
\* that lead out of every one of them do not exist among acyclic ones.
Acyclic == \A S \in SUBSET Nodes : S # {} => \E n \in S : deps[n] \cap S = {}

\* validateRefCycles reports something exactly when components refer to each other in
\* a circle, although it gives up the whole search from a root at the first cycle.
CyclesAreFound == Over => (found = {} <=> Acyclic)

==============================================================================
