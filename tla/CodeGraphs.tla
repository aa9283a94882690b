------------------------------ MODULE CodeGraphs -----------------------------
(***************************************************************************)
(* The two graphs made of one model: the typed graph the reviews and the   *)
(* clustering run on (adapter/archmotif/exporter.go) and the graph behind  *)
(* search (retrieval/graph.go), with the answers search gives on it        *)
(* (retrieval/query.go).  A node of the typed graph is <<sort, id>>; the   *)
(* nodes of the search graph are the ids of CodeModel.                     *)
(***************************************************************************)
EXTENDS CodeModel

CONSTANTS MaxGraphNodes     \* how many nodes a search answer adds to its seeds; any number for 0

ASSUME GraphNodesAssumption == MaxGraphNodes \in Nat

Pairs(edges) == {<<e.from, e.to>> : e \in edges}
Edge(from, to, kind) == [from |-> from, to |-> to, kind |-> kind]

(***************************************************************************)
(* The typed graph.                                                        *)
(***************************************************************************)
NodeOf(d) == <<IF d.kind = "func" THEN "fn" ELSE "type", IdOf(d)>>
FieldNode(d, f) == <<"field", <<d.pkg, d.name, f.name>>>>
FileNode(d) == <<"file", <<d.pkg, d.file>>>>
PackageNode(p) == <<"pkg", <<p>>>>
MethodNode(id) == <<"method", id>>
Graphed == Types \cup {"func"}                  \* constants, variables and errors have no node

\* addPackageContents: methods of interfaces and structs, fields of structs.
Contents(prog) ==
    {Edge(PackageNode(d.pkg), NodeOf(d), "contains") : d \in OfKind(prog, Graphed)}
      \cup (UNION {{Edge(NodeOf(d), MethodNode(MemberOf(d, m)), "contains") : m \in ToSet(d.methods)} :
                     d \in OfKind(prog, {"interface", "struct"})})
      \cup (UNION {{Edge(NodeOf(d), FieldNode(d, f), "contains") : f \in ToSet(d.fields)} : d \in OfKind(prog, {"struct"})})
\* addFileNodes
Files(prog) ==
    UNION {{Edge(PackageNode(d.pkg), FileNode(d), "contains"), Edge(FileNode(d), NodeOf(d), "contains")} :
             d \in OfKind(prog, Graphed)}

\* resolveSymbolID and resolveCallTarget: the node of a symbol, if it has one; a member
\* must be among the methods recorded for its type.
HasMember(prog, id) ==
    \E d \in Decls(prog, SubSeq(id, 1, 2)) :
        d.kind \in {"interface", "struct"} /\ \E m \in ToSet(d.methods) : m.name = id[3]
Resolved(prog, id) ==
    IF Len(id) = 3 THEN {n \in {MethodNode(id)} : HasMember(prog, id)}
    ELSE {NodeOf(d) : d \in {d \in Decls(prog, id) : d.kind \in Graphed}}
\* (AnyTarget: the target of a call is taken to have a node.)
AnyTarget(prog, id) == {<<IF Len(id) = 3 THEN "method" ELSE "fn", id>>}
CallTarget(prog, id) ==
    {n \in Resolved(prog, id) : n[1] \in {"method", "fn"}}

\* addImplementations: from structs only.
ImplementsEdges(prog, impls) ==
    {Edge(<<"type", i.concrete>>, <<"type", i.iface>>, "implements") :
        i \in {i \in impls : \E d \in Decls(prog, i.concrete) : d.kind = "struct"}}

Joined(froms, tos, kind) == {Edge(e[1], e[2], kind) : e \in {e \in froms \X tos : e[1] # e[2]}}
\* addSymbolDependencies
SymbolEdges(prog, deps) ==
    UNION {Joined(Resolved(prog, d.from), Resolved(prog, d.to), IF d.kind = "uses" THEN "usesType" ELSE "returns") :
             d \in {d \in deps : ~d.ext}}
\* addPackageDependsOn
PackageEdges(prog, deps) ==
    {Edge(PackageNode(d.from[1]), PackageNode(d.to[1]), "dependsOn") :
        d \in {d \in deps : ~d.ext /\ d.to[1] \in Packages(prog) /\ d.from[1] # d.to[1]}}
\* addCallEdges
CallEdges(prog, calls) ==
    UNION {Joined({IF Len(c.from) = 3 THEN MethodNode(c.from) ELSE <<"fn", c.from>>}, CallTarget(prog, c.to), "calls") :
             c \in calls}

\* ToArchmotifGraph
Export(m) ==
    LET inside == Contents(m.decls) \cup Files(m.decls)
    IN [nodes |-> {PackageNode(p) : p \in Packages(m.decls)} \cup {e.to : e \in inside},
        edges |-> inside \cup ImplementsEdges(m.decls, m.impls) \cup SymbolEdges(m.decls, m.deps)
                    \cup PackageEdges(m.decls, m.deps) \cup CallEdges(m.decls, m.calls)]
\* The builder of the library refuses an edge between nodes it does not have.
BuildSucceeds(g) == \A e \in g.edges : e.from \in g.nodes /\ e.to \in g.nodes

(***************************************************************************)
(* The search graph.                                                       *)
(***************************************************************************)
\* BuildNodes: every declaration, and the methods of structs.
MethodsOf(prog) == UNION {{MemberOf(d, m) : m \in ToSet(d.methods)} : d \in OfKind(prog, {"struct"})}
SearchNodes(prog) == {IdOf(d) : d \in prog} \cup MethodsOf(prog)

\* resolve: a member without a node stands for its owner; what has neither is dropped.
Fold(nodes, id) ==
    IF id \in nodes THEN {id} ELSE {Front(id)} \cap nodes

\* fromModel and add
SearchGraph(m) ==
    LET nodes == SearchNodes(m.decls)
        add(from, to, kind) == Joined(Fold(nodes, from), Fold(nodes, to), kind)
    IN [nodes |-> nodes,
        edges |-> (UNION {add(d.from, d.to, d.kind) : d \in {d \in m.deps : ~d.ext}})
                    \cup (UNION {add(i.concrete, i.iface, "implements") : i \in m.impls})
                    \cup (UNION {add(c.from, c.to, "calls") : c \in m.calls})
                    \cup (UNION {UNION {add(IdOf(d), MemberOf(d, x), "contains") : x \in ToSet(d.methods)} :
                                   d \in OfKind(m.decls, {"struct"})})]

\* The nodes at most n steps away along the edges, in either direction.
Around(edges, seen) == {e.to : e \in {e \in edges : e.from \in seen}} \cup {e.from : e \in {e \in edges : e.to \in seen}}
Reach(edges, seen, n) ==
    LET within[i \in 0 .. n] == IF i = 0 THEN seen ELSE LET w == within[i - 1] IN w \cup Around(edges, w)
    IN within[n]

AtLeastOne(hops) == IF hops < 1 THEN 1 ELSE hops
\* NeighborNodes: breadth first, over the edges of the kinds asked for (all for none).
Asked(g, kinds) == {e \in g.edges : kinds = {} \/ e.kind \in kinds}
NextLevel(edges, walk) ==
    LET next == Around(edges, walk.frontier) \ walk.visited
    IN [visited |-> walk.visited \cup next, frontier |-> next]
Levels(edges, starts, steps) ==
    LET walk[i \in 0 .. steps] ==
            IF i = 0 THEN [visited |-> starts, frontier |-> starts] ELSE NextLevel(edges, walk[i - 1])
    IN walk[steps].visited
NeighborNodes(g, starts, hops, kinds) == Levels(Asked(g, kinds), starts, AtLeastOne(hops))
InducedEdges(g, ids) == {e \in g.edges : e.from \in ids /\ e.to \in ids}
\* Expand: nodes the graph does not have are left out of the list, not out of the walk.
Expand(g, ids, hops, kinds) ==
    LET found == NeighborNodes(g, ids, hops, kinds)
    IN [nodes |-> found \cap g.nodes, edges |-> InducedEdges(g, found)]

\* Search.  The hits of the text channels are nodes of `old`, the graph as getNode read it;
\* `new` is the graph read after them.  The diffusion of the library visits any region
\* with any masses.
Weighted == {"calls", "implements", "uses", "returns"}
DiffusionEdges(g) == {e \in g.edges : e.kind \in Weighted}
WithinHops(g, seeds, region, hops) == region \cap Reach(DiffusionEdges(g), seeds, hops)
CapByMass(region) ==
    LET size == IF MaxGraphNodes > 0 /\ Cardinality(region) > MaxGraphNodes THEN MaxGraphNodes ELSE Cardinality(region)
    IN {s \in SUBSET region : Cardinality(s) = size}
BuildAnswer(g, seeds, added) ==
    LET hits == seeds \cup (added \cap g.nodes) IN [seeds |-> seeds, hits |-> hits, edges |-> InducedEdges(g, hits)]
Answers(old, new, seeds, massive, region, hops) ==
    LET shown == seeds \cap old.nodes
        start == massive \cap shown
    IN IF start = {} THEN {BuildAnswer(new, shown, {})}
       ELSE {BuildAnswer(new, shown, s) : s \in CapByMass(WithinHops(new, start, region, AtLeastOne(hops)) \ shown)}
=============================================================================
