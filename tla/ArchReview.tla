------------------------------ MODULE ArchReview -----------------------------
(***************************************************************************)
(* The architecture report (internal/archreview): what the typed graphs of *)
(* a worktree and of its base say about cycles between groups, new package *)
(* edges, exports nothing uses, changed symbols used elsewhere, and        *)
(* declarations nothing reaches.  Sections are sets of findings: order,    *)
(* wording, click targets and the cap on the rows of a section are left    *)
(* out.  Trophic levels are those of the library: the edges it calls       *)
(* backward are an argument.                                               *)
(***************************************************************************)
EXTENDS CodeGraphs

CONSTANTS
    World,             \* packages without an "internal" segment in their path
    Ports,             \* the symbols wyrd.yaml declares as reached from outside
    EntryPoints,       \* the symbols Go calls: main of package main, every init
    Dotted,            \* pairs of packages: the path of the first is that of the second, a dot and more
    GroupNames,        \* package -> review group
    MinDegree          \* the degree from which a package may be an outlier

FlowKinds == {"calls", "usesType", "returns", "implements"}       \* isFlowKind

\* collectSymbols: the nodes that are declarations, and what the report knows of them.
Symbols(prog) ==
    {[node |-> NodeOf(d), pkg |-> d.pkg, exported |-> d.exported] : d \in OfKind(prog, Graphed)}
      \cup (UNION {{[node |-> MethodNode(MemberOf(d, m)), pkg |-> d.pkg, exported |-> d.exported /\ m.exported] :
                      m \in ToSet(d.methods)} : d \in OfKind(prog, {"interface", "struct"})})

\* collectEdges, first pass: the methods of a type that an interface it implements declares.
ViaInterface(prog, g) ==
    UNION {UNION {{MethodNode(MemberOf(c, m)) : m \in {m \in ToSet(c.methods) : HasMember(prog, Append(e.to[2], m.name))}} :
                    c \in Decls(prog, e.from[2])} : e \in {e \in g.edges : e.kind = "implements"}}

\* newSide: everything the sections read of one model.
Side(m) ==
    LET g == Export(m)
        symbols == Symbols(m.decls)
        nodes == {s.node : s \in symbols}
        flow == {e \in g.edges : e.kind \in FlowKinds /\ e.from \in nodes /\ e.to \in nodes}
        pkg(n) == n[2][1]
        crossing == {e \in flow : pkg(e.from) # pkg(e.to)}
    IN [model |-> m, pkgs |-> Packages(m.decls), graph |-> g, symbols |-> symbols,
        flow |-> flow,                                              \* inbound
        crossing |-> crossing,                                      \* inFrom and the samples
        edges |-> {<<pkg(e.from), pkg(e.to)>> : e \in crossing},
        via |-> ViaInterface(m.decls, g)]
Inbound(side, s) == {e \in side.flow : e.to = s.node}
CrossIn(side, s) == {e \in side.crossing : e.to = s.node}
(***************************************************************************)
(* Ports, unused exports and orphans.                                      *)
(***************************************************************************)
IsPort(side, s) ==
    \/ s.exported /\ s.pkg \in World
    \/ s.node \in EntryPoints
    \/ s.node \in side.via
    \/ s.node[2] \in Ports
UnusedExports(side, include) ==
    {s \in side.symbols : /\ s.exported /\ s.pkg \notin World /\ s.node \in include
                          /\ CrossIn(side, s) = {} /\ ~IsPort(side, s)}
Dead(side, s) == Inbound(side, s) = {}
Orphans(side, include) ==
    {s \in side.symbols : s.node \in include /\ Inbound(side, s) = {} /\ ~IsPort(side, s)}
\* isolatedSymbols: no edge of any kind to another declaration.
Isolated(side) ==
    LET nodes == {s.node : s \in side.symbols}
    IN {s \in side.symbols : \A e \in side.graph.edges :
            e.from # e.to /\ {e.from, e.to} \subseteq nodes => s.node \notin {e.from, e.to}}

(***************************************************************************)
(* Cycles between groups.                                                  *)
(***************************************************************************)
\* collapse: the package edges that leave their group, by groups.
Collapsed(edges) ==
    {<<GroupNames[e[1]], GroupNames[e[2]]>> : e \in {e \in edges : GroupNames[e[1]] # GroupNames[e[2]]}}
\* What follows a along a path of one step or more: what every set has that has the next
\* steps of a and of its own members.
Follows(r, a) ==
    LET ends == {e[2] : e \in r}
        next(C) == {e[2] : e \in {e \in r : e[1] = a \/ e[1] \in C}}
    IN {b \in ends : \A C \in SUBSET ends : next(C) \subseteq C => b \in C}
Closure(r) == UNION {{<<a, b>> : b \in Follows(r, a)} : a \in {e[1] : e \in r}}
\* cyclesOf and tarjan: the strongly connected components of two groups or more.
CyclesOf(side) ==
    LET reach == Closure(Collapsed(side.edges))
        groups == {GroupNames[p] : p \in side.pkgs}
    IN {{h \in groups : h = g \/ {<<g, h>>, <<h, g>>} \subseteq reach} : g \in groups} \ {{g} : g \in groups}
CyclePkgEdges(side, cycle) ==
    {e \in side.edges : GroupNames[e[1]] # GroupNames[e[2]] /\ {GroupNames[e[1]], GroupNames[e[2]]} \subseteq cycle}

\* cycleDelta: against the cycle of the base with the most groups in common.
BestOverlap(cycle, baseCycles) ==
    {c \in baseCycles : /\ c \cap cycle # {}
                        /\ \A d \in baseCycles : Cardinality(d \cap cycle) <= Cardinality(c \cap cycle)}
\* (CycleDeltaBySize: a cycle that did not grow is taken for the cycle of the base.)
CycleDeltaBySize(cycle, baseCycles) ==
    {[new |-> FALSE, gained |-> IF Cardinality(cycle) > Cardinality(b) THEN cycle \ b ELSE {}] : b \in BestOverlap(cycle, baseCycles)}
      \cup {x \in {[new |-> TRUE, gained |-> {}]} : BestOverlap(cycle, baseCycles) = {}}
CycleDelta(cycle, baseCycles) ==
    LET best == BestOverlap(cycle, baseCycles)
    IN IF best = {} THEN {[new |-> TRUE, gained |-> {}]}
                    ELSE {[new |-> FALSE, gained |-> cycle \ b] : b \in best}
NewPackageEdges(head, base) == head.edges \ base.edges
ReviewGroupCycles(head, base) ==
    UNION {{[groups |-> c, new |-> d.new, gained |-> d.gained,
             closing |-> CyclePkgEdges(head, c) \cap NewPackageEdges(head, base)] :
              d \in {d \in CycleDelta(c, CyclesOf(base)) : d.new \/ d.gained # {}}} : c \in CyclesOf(head)}

(***************************************************************************)
(* The model diff (diff.Compute).                                          *)
(***************************************************************************)
Unmarked == "none"
\* What a branch did to something it has h of where the base has b (diff.Compute and
\* diffWord, publicapi.Compare): both are sets with at most one member.
Word(h, b) == IF h = b THEN Unmarked ELSE IF b = {} THEN "added" ELSE IF h = {} THEN "removed" ELSE "changed"
Differing(h, b) == (h \ b) \cup (b \ h)

\* Types as the reader has them.
Spelt(types) == [i \in DOMAIN types |-> Converted(types[i])]
\* normalizeInterface and its like: of a declaration neither the file nor what its bodies
\* do is compared; the model has no methods of typedefs and does not tell which fields are
\* embedded.
Shape(d) ==
    LET field(f) == [name |-> f.name, exported |-> f.exported, type |-> Converted(f.type)]
        method(m) == [name |-> m.name, exported |-> m.exported, params |-> Spelt(m.params), returns |-> Spelt(m.returns)]
    IN [kind |-> d.kind, exported |-> d.exported, types |-> Spelt(d.types),
        fields |-> [i \in DOMAIN d.fields |-> field(d.fields[i])],
        methods |-> IF d.kind = "typedef" THEN <<>> ELSE [i \in DOMAIN d.methods |-> method(d.methods[i])]]

\* diffPackage: declarations are matched by kind and name, in packages both sides have.
Matched(head, base) == {d \in head \cup base : d.pkg \in Packages(head) \cap Packages(base)}
ShapesOf(prog, kind, id) == {Shape(d) : d \in {d \in Decls(prog, id) : d.kind = kind}}
SymbolChanges(head, base) ==
    {c \in {[kind |-> d.kind, id |-> IdOf(d),
             word |-> Word(ShapesOf(head, d.kind, IdOf(d)), ShapesOf(base, d.kind, IdOf(d)))] :
              d \in Matched(head, base)} : c.word # Unmarked}

\* diffDependencies: by key.  A type use in a body comes after the signatures and replaces
\* the entry with its key.
Key(d) == [kind |-> d.kind, from |-> d.from, to |-> d.to]
Entry(m, key) ==
    LET same == {d \in m.deps : Key(d) = key}
        body == {d \in same : d.part = "body"}
    IN {[exp |-> d.exp, ext |-> d.ext] : d \in IF body # {} THEN body ELSE same}
DepChanges(head, base) ==
    {c \in {[key |-> k, word |-> Word(Entry(head, k), Entry(base, k)),
             public |-> \E e \in IF Entry(head, k) # {} THEN Entry(head, k) ELSE Entry(base, k) : e.exp] :
              k \in {Key(d) : d \in {d \in head.deps \cup base.deps :
                                       d.from[1] \in Packages(head.decls) \cap Packages(base.decls)}}} : c.word # Unmarked}

\* A package that one side lacks is one change.
ModelChanges(head, base) ==
    [packages |-> Differing(Packages(head.decls), Packages(base.decls)),
     symbols |-> SymbolChanges(head.decls, base.decls), deps |-> DepChanges(head, base)]
NoChanges(d) == d.packages = {} /\ d.symbols = {} /\ d.deps = {}

(***************************************************************************)
(* Impact and growth.                                                      *)
(***************************************************************************)
\* The text under the span of a node: of a struct and a typedef without their methods.  A
\* method of an interface has no span of its own and takes that of the interface.
Spanned(d, n) ==
    IF d.kind = "struct" /\ Len(n[2]) = 3 THEN {m \in ToSet(d.methods) : m.name = n[2][3]}
    ELSE {IF d.kind \in {"struct", "typedef"} THEN [d EXCEPT !.methods = <<>>] ELSE d}
\* The nodes whose span the hunks of the branch meet.
\* (ShapeHunks: only declarations whose model changed count.)
ShapeHunks(head, base) == {"type", "fn"} \X {c.id : c \in SymbolChanges(head.decls, base.decls)}
Hunks(head, base) ==
    {n \in {s.node : s \in Symbols(head.decls)} :
        LET d == The(head.decls, SubSeq(n[2], 1, 2))
        IN \A b \in Decls(base.decls, IdOf(d)) : Spanned(b, n) # Spanned(d, n)}
HunkFiles(head, base) == {<<d.pkg, d.file>> : d \in Differing(head.decls, base.decls)}

\* touchedPackages: by changed file, and by the path of a change, which begins with the
\* package of the change: it also begins with a package whose path stops at a dot in it.
\* The path of a dependency has no dot after its package.
TouchedPackages(head, base) ==
    LET d == ModelChanges(head.model, base.model)
        named == d.packages \cup {c.id[1] : c \in d.symbols}
        paths == named \cup {c.key.from[1] : c \in d.deps}
    IN head.pkgs \cap ({f[1] : f \in HunkFiles(head.model, base.model)}
                         \cup named \cup {x[2] : x \in {x \in Dotted : x[1] \in paths}})
ShapeChanged(d, n) == \E c \in d.symbols : c.id = n[2] /\ c.word = "changed"
ReviewImpact(head, base) ==
    LET d == ModelChanges(head.model, base.model)
        hunks == Hunks(head.model, base.model)
        touched == TouchedPackages(head, base)
        outside(n) == {e \in head.crossing : e.to = n /\ e.from[2][1] \notin touched}
    IN {[node |-> s.node, callers |-> {e.from : e \in outside(s.node)}] :
          s \in {s \in head.symbols : (ShapeChanged(d, s.node) \/ s.node \in hunks) /\ outside(s.node) # {}}}

\* packageDegree and godPackages, the variance multiplied out: degree >= mean + 1.5 sigma.
Degree(side, p) == Cardinality({e \in side.edges : e[1] = p}) + Cardinality({e \in side.edges : e[2] = p})
SumOver(S, f) == FoldLeft(LAMBDA acc, x : acc + f[x], 0, SetToSeq(S))
GodPackages(side) ==
    LET n == Cardinality(side.pkgs)
        deg == [p \in side.pkgs |-> Degree(side, p)]
        above == [p \in side.pkgs |-> n * deg[p] - SumOver(side.pkgs, deg)]
        squares == SumOver(side.pkgs, [p \in side.pkgs |-> above[p] * above[p]])
    IN IF n < 4 THEN {}
       ELSE {p \in side.pkgs : deg[p] >= MinDegree /\ above[p] >= 0 /\ 4 * n * above[p] * above[p] >= 9 * squares}
ReviewGrowth(head, base) ==
    {p \in GodPackages(head) : Degree(head, p) > IF p \in base.pkgs THEN Degree(base, p) ELSE 0}

(***************************************************************************)
(* The report.                                                             *)
(***************************************************************************)
AddedNodes(head, base) == {s.node : s \in head.symbols} \ {s.node : s \in base.symbols}
\* Build: a base whose model differs selects the review, anything else the survey of the
\* whole repository.
Report(head, base) ==
    IF base.pkgs # {} /\ ~NoChanges(ModelChanges(head.model, base.model))
      THEN LET added == AddedNodes(head, base)
           IN [mode |-> "review", edges |-> NewPackageEdges(head, base), cycles |-> ReviewGroupCycles(head, base),
               unused |-> {s \in UnusedExports(head, added) : ~Dead(head, s)}, orphans |-> Orphans(head, added),
               impact |-> ReviewImpact(head, base), growth |-> ReviewGrowth(head, base)]
      ELSE LET all == {s.node : s \in head.symbols}
           IN [mode |-> "repo", edges |-> {}, cycles |-> {[groups |-> c] : c \in CyclesOf(head)},
               unused |-> UnusedExports(head, all), orphans |-> {s \in Isolated(head) : ~IsPort(head, s)},
               impact |-> {}, growth |-> GodPackages(head)]
=============================================================================
