--------------------------------- MODULE MCGates ---------------------------------
EXTENDS Gates

MCLayerOrder == <<"app", "core">>
A == <<"a">>
AX == <<"a", "x">>
B == <<"b">>
MCAllPackages == {A, AX, B}
MCPkgOrder == <<A, AX, B>>

Exact(p) == [segs |-> p, rec |-> FALSE]
Below(p) == [segs |-> p, rec |-> TRUE]
Layer(l) == [layer |-> l, glob |-> Exact(<<>>)]
Pkg(p) == [layer |-> NoName, glob |-> Exact(p)]
Rule(op, lhs, rhs, via) == [op |-> op, lhs |-> lhs, rhs |-> rhs, via |-> via, kinds |-> {}]

\* Of a policy that denies by default, with a component of two packages, a forbidden edge
\* inside it, a path that must not be and one that must pass through a/x.
MCRootPool ==
  {[sec |-> "module", module |-> "m"],
   [sec |-> "layers", layer |-> "app", glob |-> Below(A)],
   [sec |-> "layers", layer |-> "core", glob |-> Exact(B)],
   [sec |-> "layer_rules", from |-> "app", to |-> "core"],
   [sec |-> "deny_by_default", deny |-> FALSE],
   [sec |-> "forbid", rule |-> Rule("!->", {Pkg(A)}, {Pkg(AX)}, {})],
   [sec |-> "reachability", rule |-> Rule("!~>", {Layer("app")}, {Layer("core"), Pkg(AX)}, {})],
   [sec |-> "reachability", rule |-> Rule("~>", {Pkg(A), Pkg(B)}, {Pkg(B), Pkg(A)}, {Pkg(AX)})],
   [sec |-> "reachability", rule |-> Rule("~>", {Pkg(A)}, {Pkg(B)}, {})],
   [sec |-> "aggregates", agg |-> "order", ref |-> [pkg |-> B, name |-> "T"]],
   [sec |-> "bounded_contexts", context |-> "sales", agg |-> "order"],
   [sec |-> "upstream", context |-> "sales", other |-> "sales"],
   [sec |-> "allow", rule |-> Rule("!->", {Pkg(A)}, {Pkg(B)}, {})]}
MCFragmentPool ==
  {[sec |-> "layers", layer |-> "app", glob |-> Below(B)],
   [sec |-> "components", glob |-> [segs |-> <<"*">>, rec |-> FALSE]],
   [sec |-> "allow", rule |-> Rule("->", {Layer("app")}, {Pkg(B), Layer("app")}, {})],
   [sec |-> "deny_by_default", deny |-> FALSE],
   [sec |-> "aggregates", agg |-> "order", ref |-> [pkg |-> Local, name |-> "T"]],
   [sec |-> "ports", port |-> [glob |-> Below(A), symbol |-> NoName, member |-> NoName]]}
==================================================================================
