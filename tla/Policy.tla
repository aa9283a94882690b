--------------------------------- MODULE Policy ---------------------------------
(***************************************************************************)
(* The dependency policy of an overlay (internal/policy): the rules, what   *)
(* makes one malformed, the graph they are evaluated over and the           *)
(* violations.  A rule is a record with an operator, sets of selectors on   *)
(* both sides and after "via", and the edge kinds of its qualifier, which   *)
(* are read and not enforced.  A selector names a layer or holds a glob.    *)
(***************************************************************************)
EXTENDS Overlay

CONSTANT PkgOrder   \* the packages, in lexical order

-----------------------------------------------------------------------------
(* Parsing. *)

OpsOf(sec) ==
  CASE sec = "allow" -> {"->"} [] sec = "forbid" -> {"!->"} [] OTHER -> {"!~>", "~>"}
KnownKinds == {"uses", "returns", "implements", "extends", "nested-in", "type"}

RuleParses(c) ==
  /\ c.rule.op \in OpsOf(c.sec)
  /\ c.rule.lhs # {} /\ c.rule.rhs # {}
  /\ c.rule.op = "~>" <=> c.rule.via # {}
  /\ c.rule.kinds \subseteq KnownKinds

RuleClauses(cfg) == Of(cfg, "allow") \cup Of(cfg, "forbid") \cup Of(cfg, "reachability")
Parses(cfg) == \A c \in RuleClauses(cfg) : RuleParses(c)
DenyByDefault(cfg) == \A c \in Of(cfg, "deny_by_default") : c.deny
ComponentGlobs(cfg) == {c.glob : c \in Of(cfg, "components")}
Rules(cfg, op) == {c.rule : c \in {c \in RuleClauses(cfg) : c.rule.op = op}}
PolicyDefined(cfg) == RuleClauses(cfg) # {} \/ ComponentGlobs(cfg) # {}

-----------------------------------------------------------------------------
(* The graph: of the imports, those among the packages that were read. *)

\* (AllEdges: an import that leaves the packages read stays in the graph.)
AllEdges(pkgs, imports) == {e \in imports : e[1] \in pkgs /\ e[1] # e[2]}
Edges(pkgs, imports) == {e \in imports \cap (pkgs \X pkgs) : e[1] # e[2]}

Resolve(cfg, pkgs, sels) ==
  {p \in pkgs : \E s \in sels :
     IF s.layer # NoName THEN LayerOf(cfg, p) = s.layer ELSE MatchGlob(s.glob, p)}

\* The deepest of a package and its ancestors that a component glob matches.
ComponentOf(cfg, p) ==
  LET hits == {n \in 1 .. Len(p) : MatchAny(ComponentGlobs(cfg), SubSeq(p, 1, n))}
  IN  IF hits = {} THEN p ELSE SubSeq(p, 1, Max(hits))

-----------------------------------------------------------------------------
(* The search for a path, breadth first.  A state of it has the paths that were *)
(* queued, in their order, the packages visited and the path found, if any.     *)

\* A path to a package not visited before: the answer, or one more in the queue.
Visit(src, targets, s, path) ==
  LET seen == [s EXCEPT !.visited = @ \cup {Last(path)}]
  IN  IF Last(path) # src /\ Last(path) \in targets
        THEN [seen EXCEPT !.found = path] ELSE [seen EXCEPT !.queue = Append(@, path)]

\* A package, looked at as a neighbour of the one at the head of the queue.
\* (LookThrough: a waypoint does not stop the search.)
LookThrough(edges, src, targets, excluded, s, head, n) ==
  IF s.found # <<>> \/ <<Last(s.queue[head]), n>> \notin edges \/ n \in s.visited
    THEN s ELSE Visit(src, targets, s, Append(s.queue[head], n))
Look(edges, src, targets, excluded, s, head, n) ==
  IF s.found # <<>> \/ <<Last(s.queue[head]), n>> \notin edges \/ n \in s.visited \cup excluded
    THEN s ELSE Visit(src, targets, s, Append(s.queue[head], n))

\* The search after each step: the packages are taken from the queue one after the other,
\* and their neighbours looked at in order.  A package is queued once, so that the search
\* has ended when it could have taken each package from the queue.
Search(edges, src, targets, excluded) ==
  LET N == Len(PkgOrder)
      run[k \in 0 .. N * N] ==
        IF k = 0 THEN [queue |-> <<<<src>>>>, visited |-> {src}, found |-> <<>>]
        ELSE LET s == run[k - 1]
                 head == 1 + ((k - 1) \div N)
             IN  IF head > Len(s.queue) THEN s
                 ELSE Look(edges, src, targets, excluded, s, head, PkgOrder[1 + ((k - 1) % N)])
  IN  run

\* The path to the first target met, or <<>>.
FindPath(edges, src, targets, excluded) ==
  IF src \in excluded THEN <<>>
  ELSE Search(edges, src, targets, excluded)[Len(PkgOrder) * Len(PkgOrder)].found

-----------------------------------------------------------------------------
(* Evaluation. *)

Breach(kind, rule, from, to) == [kind |-> kind, rule |-> rule, from |-> from, to |-> to]
NoRule == [op |-> "none"]
Hit(cfg, pkgs, r, e) == e[1] \in Resolve(cfg, pkgs, r.lhs) /\ e[2] \in Resolve(cfg, pkgs, r.rhs)
Cohesive(cfg, e) == ComponentGlobs(cfg) # {} /\ ComponentOf(cfg, e[1]) = ComponentOf(cfg, e[2])

\* (CohesionFirst: an edge inside a component passes before the forbids are looked at.)
CohesionFirst(cfg, pkgs, edges) ==
  {Breach("forbidden-edge", NoRule, e[1], e[2]) :
     e \in {e \in edges : ~Cohesive(cfg, e) /\ \E r \in Rules(cfg, "!->") : Hit(cfg, pkgs, r, e)}}

\* A forbid wins over everything, then cohesion, then the list of what is allowed.
EdgeBreaches(cfg, pkgs, edges) ==
  LET Forbidding(e) == {r \in Rules(cfg, "!->") : Hit(cfg, pkgs, r, e)}
      forbidden == {e \in edges : Forbidding(e) # {}}
      denied == {e \in edges \ forbidden :
                   /\ ~Cohesive(cfg, e)
                   /\ DenyByDefault(cfg)
                   /\ ~\E r \in Rules(cfg, "->") : Hit(cfg, pkgs, r, e)}
  IN  {Breach("forbidden-edge", NoRule, e[1], e[2]) : e \in forbidden}
        \cup {Breach("unlisted-edge", NoRule, e[1], e[2]) : e \in denied}

\* A path that must not be, or one that avoids every waypoint.
PathBreaches(cfg, pkgs, edges, op, kind) ==
  UNION {LET lhs == Resolve(cfg, pkgs, r.lhs)
             rhs == Resolve(cfg, pkgs, r.rhs)
             via == Resolve(cfg, pkgs, r.via)
             Path(src) == FindPath(edges, src, rhs, via)
         IN  {Breach(kind, r, src, Last(Path(src))) : src \in {s \in lhs : Path(s) # <<>>}}
         : r \in Rules(cfg, op)}

Check(cfg, pkgs, imports) ==
  LET edges == Edges(pkgs, imports)
  IN  IF ~PolicyDefined(cfg) THEN {}
      ELSE EdgeBreaches(cfg, pkgs, edges)
             \cup PathBreaches(cfg, pkgs, edges, "!~>", "reachability")
             \cup PathBreaches(cfg, pkgs, edges, "~>", "chokepoint")
=================================================================================
