------------------------------ MODULE CodeReview -----------------------------
(***************************************************************************)
(* A program that is edited between a base and a worktree, and what wyrd   *)
(* shows of the two: the daemon reads both models and answers search,      *)
(* expansion and the architecture report from them.                        *)
(***************************************************************************)
EXTENDS UIGraph

CONSTANTS
    Families,      \* records [fixed, pool, edits]: the declarations a program has, and may
                   \* have, and how many of them the worktree and its base do not share
    Unspelled, GoFiles, DottedFiles, ParamNames, Constructors, Enums  \* what diagrams spell

ASSUME FamilyAssumption ==
    \A f \in Families :
        LET decls == f.fixed \cup f.pool
        IN IsFiniteSet(decls) /\ NamesTellVisibility(decls) /\ \A d \in decls : WellFormed(d)

VARIABLES
    family,        \* the declarations this program is made of
    base,          \* the program at the merge base
    head           \* the program in the worktree

reviewVars == <<family, base, head>>

D == INSTANCE Diagrams

ReviewInit ==
    /\ family \in Families
    /\ \E s \in SUBSET family.pool : base = family.fixed \cup s
    /\ Compiles(base)
    /\ head = base

Save(prog) ==
    /\ Compiles(prog)
    /\ Cardinality(Differing(base, prog)) <= family.edits
    /\ head' = prog
    /\ UNCHANGED <<family, base>>

Declare(d) == ~Declared(head, IdOf(d)) /\ Save(head \cup {d})
Rewrite(d) == d \notin head /\ Declared(head, IdOf(d)) /\ Save({e \in head : IdOf(e) # IdOf(d)} \cup {d})
DropDecl(d) == d \in head /\ Save(head \ {d})
Commit == base # head /\ base' = head /\ UNCHANGED <<family, head>>

ReviewNext ==
    \/ \E d \in family.pool : Declare(d) \/ Rewrite(d) \/ DropDecl(d)
    \/ Commit

ReviewSpec == ReviewInit /\ [][ReviewNext]_reviewVars

(***************************************************************************)
(* Properties.                                                             *)
(***************************************************************************)
ReviewTypeOK ==
    /\ base \subseteq family.fixed \cup family.pool
    /\ head \subseteq family.fixed \cup family.pool

\* The export of a model the reader made is never refused: every edge joins nodes it has,
\* also where the reader names methods no type declares (promoted ones).
ExportNeverAborts == base = head => BuildSucceeds(Export(Model(head)))

\* The two graphs tell the same story of who calls whom: among functions and the methods
\* of structs, their call edges are the same.  (As long as no call takes a promoted method
\* for one of a function or an interface: a call is named after the package of the method
\* and the type it is called on, and that package may have another use for the name.)
CallGraphsAgree ==
    base = head /\ (\A c \in Calls(head) : Len(c.to) = 3 => OfKind(Decls(head, Owner(c.to)), {"func", "interface"}) = {}) =>
        LET m == Model(head)
            calls(g) == {e \in g.edges : e.kind = "calls"}
            callable == MethodsOf(head) \cup {IdOf(d) : d \in OfKind(head, {"func"})}
        IN {<<e.from[2], e.to[2]>> : e \in calls(Export(m))} = Pairs(calls(SearchGraph(m))) \cap (callable \X callable)

\* What search adds around its hits is what expanding the hits shows, over the kinds of
\* edges that carry relevance: neither walk goes further than the other, the seeds are
\* always shown, and a neighbour of a symbol has the symbol as a neighbour.
NeighborhoodsAgree ==
    base = head =>
        LET g == SearchGraph(Model(head))
        IN \A n \in g.nodes, hops \in 0 .. 2 :
             LET expanded == Expand(g, {n}, hops, Weighted).nodes
             IN /\ \A k \in expanded : n \in Expand(g, {k}, hops, Weighted).nodes
                /\ \A a \in Answers(g, g, {n}, {n}, g.nodes, hops) :
                     /\ {n} \subseteq a.hits /\ a.hits \subseteq expanded
                     /\ (MaxGraphNodes = 0 \/ Cardinality(expanded) <= MaxGraphNodes + 1) => a.hits = expanded

\* The graphs that the export and the search build of one model agree.
GraphsAgree == ExportNeverAborts /\ CallGraphsAgree /\ NeighborhoodsAgree

\* Two groups that depend on each other in the worktree and did not in the base are in
\* one reported cycle, and the report names a package edge of it that the branch added.
MutualGroups(side) == LET r == Closure(Collapsed(side.edges)) IN {e \in r : e[1] # e[2] /\ <<e[2], e[1]>> \in r}
CyclesAreReported ==
    LET h == Side(Model(head))  b == Side(Model(base))
        shown == ReviewGroupCycles(h, b)
    IN \A e \in MutualGroups(h) \ MutualGroups(b) :
         \E c \in shown : {e[1], e[2]} \subseteq c.groups /\ c.closing # {}

\* A function or a method the branch rewrote, called by a function or a method of a struct
\* in a package the branch left alone, is in the report with that caller (as long as the
\* branch left alone what the report may take for that package: one whose path goes on with
\* a dot).
Callees(m) == {IF c.on = Nowhere THEN c.name ELSE Append(c.on, c.name) : c \in ToSet(m.calls)}
Callers(d) == IF d.kind = "func" THEN {[id |-> IdOf(d), m |-> d.methods[1]]}
              ELSE IF d.kind = "struct" THEN {[id |-> MemberOf(d, m), m |-> m] : m \in ToSet(d.methods)} ELSE {}
Bodies(prog, id) == {c.m : c \in UNION {{c \in Callers(d) : c.id = id} : d \in prog}}
ImpactReaches ==
    LET h == Side(Model(head))  b == Side(Model(base))
        rows == ReviewImpact(h, b)
        same(p) == {d \in base : d.pkg = p} = {d \in head : d.pkg = p}
        quiet == {p \in h.pkgs : same(p) /\ \A x \in Dotted : x[2] = p => same(x[1])}
    IN Report(h, b).mode = "review" =>
         \A u \in {u \in head : u.pkg \in quiet} : \A c \in Callers(u) : \A id \in Callees(c.m) :
            Bodies(head, id) \notin {{}, Bodies(base, id)} =>
                \E r \in rows : r.node[2] = id /\ c.id \in {n[2] : n \in r.callers}

\* An export that another package names in a signature of a type or a function, or calls
\* on the function or the struct that declares it, is never reported as unused, unless the
\* reader loses the name (in a slice of maps, or a text) or its package: a path of one word
\* (`internal` itself) is taken for a library, the root package for the one that names it.
Signatures(d) ==
    IF d.kind \in {"interface", "struct", "func"}
      THEN {f.type : f \in ToSet(d.fields)} \cup UNION {ToSet(m.params) \cup ToSet(m.returns) : m \in ToSet(d.methods)}
      ELSE {}
Named(d) == UNION ({ToSet(t.refs) : t \in {t \in Signatures(d) : t.shape \in {"plain", "instance", "map"}}}
                     \cup {Callees(c.m) : c \in Callers(d)})
UsedExportsAreKept ==
    base = head =>
        LET side == Side(Model(head))
        IN \A s \in UnusedExports(side, {x.node : x \in side.symbols}) :
             s.pkg \in Nested /\ (~IsInterface(head, Owner(s.node[2])) \/ Len(s.node[2]) = 2) =>
                \A d \in head : d.pkg # s.pkg => s.node[2] \notin Named(d)

\* What a declaration declares: its kind, types and fields, and of a function, a struct or
\* an interface the methods without their bodies.
FieldParts(f) == <<f.name, f.exported, f.type>>
MethodParts(m) == <<m.name, m.exported, m.params, m.returns>>
Declares(d) ==
    [kind |-> d.kind, exported |-> d.exported, types |-> d.types,
     fields |-> [i \in DOMAIN d.fields |-> FieldParts(d.fields[i])],
     methods |-> IF d.kind = "typedef" THEN <<>> ELSE [i \in DOMAIN d.methods |-> MethodParts(d.methods[i])]]
MemberParts(d, name) ==
    {FieldParts(f) : f \in {f \in ToSet(d.fields) : f.name = name}} \cup {MethodParts(m) : m \in {m \in ToSet(d.methods) : m.name = name}}
Sorts(d, name) ==
    {"field" : f \in {f \in ToSet(d.fields) : f.name = name}} \cup {"method" : m \in {m \in ToSet(d.methods) : m.name = name}}
Legible(d) == \A t \in Signatures(d) \cup ToSet(d.types) : t.shape # "maps"

\* The canvas marks what the branch did: a declaration of a package both sides have is
\* marked exactly as it changed, and so is each member of a type both sides have, removed
\* ones included (as long as a name stays what it was: a struct, a field, a method; and no
\* type in it is a slice of maps, whose names the reader loses).  A move to another file,
\* new bodies and the methods of a typedef are no change.
DeclarationsAreMarked ==
    \A i \in Internals(head, base) : \A h \in Decls(head, i.id) :
        LET was == Decls(base, i.id)
        IN h.pkg \in Packages(base) /\ (\A d \in {h} \cup was : Legible(d)) =>
             /\ (\A b \in was : b.kind = h.kind) =>
                  i.mark = {Word({Declares(h)}, {Declares(b) : b \in was})} \ {Unmarked}
             /\ \A b \in {b \in was : b.kind = h.kind /\ HasMembers(h)} : \A n \in MemberNames(h) \cup MemberNames(b) :
                  LET word == Word(MemberParts(h, n), MemberParts(b, n))
                  IN Sorts(h, n) \cup Sorts(b, n) \in {{"field"}, {"method"}} =>
                       {m.mark : m \in {m \in i.members : m.name = n}}
                         = IF word = Unmarked THEN {{}} ELSE {{word}}

\* A dependency between packages, or a type named by a function or a method, that only
\* the worktree has is marked as added, and one that only the base has is still drawn and
\* marked as removed (as long as both sides have the packages, and the other side has no
\* dependency of that kind between the two, from a body or a type argument).
NamesTypes(m, r) ==
    /\ r.kind \in {"uses", "returns"}
    /\ \E d \in Decls(m.decls, Owner(r.from)) : d.kind = "func" \/ Methods(d, Last(r.from)) # {}
DependenciesAreMarked ==
    LET h == Model(head)  b == Model(base)
        edges == Edges(h, b)
        drawn == Relations(h, b)
        both == Packages(head) \cap Packages(base)
        within(e) == {e[1], e[2]} \subseteq both
        named(m) == {r \in Present(m) : NamesTypes(m, r) /\ within(PackagePair(r))}
        known(m) == Present(m) \cup {Key(d) : d \in m.deps}
    IN /\ \A e \in {e \in PackageDeps(h) \cup PackageDeps(b) : within(e)} :
             LET marks == {x.marks : x \in {x \in edges : x.edge = e}}
             IN /\ e \notin PackageDeps(b) => marks = {{"added"}}
                /\ e \notin PackageDeps(h) => marks = {{"removed"}}
       /\ \A r \in named(h) \cup named(b) :
             LET marks == {x.marks : x \in {x \in drawn : x.relation = r}}
             IN /\ r \in Present(h) \ known(b) => marks = {{"added"}}
                /\ r \in Present(b) \ known(h) => marks = {{"removed"}}

\* A type of another package that an exported function, an exported method or the first
\* field of its type names makes the edge to that package public, in a program as read (a
\* type of the root package apart, which the reader takes for one of the package naming it).
Opens(d) ==
    IF ~d.exported THEN {}
    ELSE (UNION {ToSet(m.params) \cup ToSet(m.returns) : m \in {m \in ToSet(d.methods) : m.exported /\ d.kind # "typedef"}})
           \cup {d.fields[i].type : i \in {i \in DOMAIN d.fields : d.fields[i].exported
                     /\ \A j \in 1 .. i - 1 : ToSet(d.fields[j].type.refs) \cap ToSet(d.fields[i].type.refs) = {}}}
PublicEdgesAreShown ==
    base = head =>
        LET m == Model(head)
            edges == Edges(m, m)
        IN \A d \in head : \A t \in Opens(d) : t.shape \notin {"maps", "chan", "func"} =>
             \A r \in ToSet(t.refs) : r[1] \notin {d.pkg, Root} =>
                \E x \in edges : x.edge = <<d.pkg, r[1]>> /\ x.public

\* What depends on what is drawn as it is: marked as it changed, and public where it is.
DependenciesAreDrawn == DependenciesAreMarked /\ PublicEdgesAreShown

\* A class comes through a file as it was, up to the mark of entry points, unless it is
\* a typedef that is no enum, or has a field of function type or a parameter that D2
\* takes for an attribute; and no file shows a class that was not there (blocks of
\* constants, variables and errors, which come through as empty structs, apart).
Survives(c) ==
    /\ c.stereotype \in {"interface", "struct", "function", "factory", "enum"}
    /\ \A i \in DOMAIN c.rows :
         /\ c.rows[i].sign = "" => c.rows[i].name \notin D!Metadata
         /\ \A j \in DOMAIN c.rows[i].text : c.rows[i].sign # "" => c.rows[i].text[j].shape # "func"
Bare(c) == [name |-> c.name, rows |-> SelectSeq(c.rows, LAMBDA r : r # D!EntryPoint)]
ClassNamed(classes, name) == {Bare(c) : c \in {c \in classes : c.name = name}}
Keeps(before, after) ==
    /\ \A c \in before : Survives(c) => ClassNamed(after, c.name) = {Bare(c)}
    /\ {c.name : c \in after} \subseteq {c.name : c \in before} \cup {"Constants", "Variables", "Errors"}
ClassesOf(doc, p) == UNION {g.classes : g \in {g \in doc.groups : g.id \in {p} \cup GoFiles \cup {"symbols"}}}

\* Diagrams of packages, composed, show what the diagram of all packages shows: the same
\* classes, and of the arrows inside packages every one between classes that come through
\* and none that the code does not justify.
ComposeAgreesWithCode ==
    base = head =>
        LET m == Model(head)
            files == D!Generate(m)
            direct == D!GenerateCombined(m, FALSE)
            composed == D!Compose(files)
            lost(p) == {c.name : c \in {c \in ClassesOf(direct, p) : ~Survives(c)}}
            pairs(doc, p) == UNION {{<<e.from[1], e.to[1]>> : e \in g.edges} : g \in {g \in doc.groups : g.id = p}}
        IN D!Readable(files) => \A p \in Packages(head) :
             /\ Keeps(ClassesOf(direct, p), ClassesOf(composed, p))
             /\ \A x \in pairs(direct, p) : {x[1], x[2]} \cap lost(p) = {} => x \in pairs(composed, p)
             /\ \A x \in pairs(composed, p) :
                  \/ \E y \in m.deps : y.from = <<p, x[1]>> /\ y.to = <<p, x[2]>>
                  \/ \E y \in m.impls : y.concrete = <<p, x[1]>> /\ y.iface = <<p, x[2]>>

\* A diagram of all packages, public or full, splits into specifications that show the
\* public classes of each package as its own diagram does.
SplitKeepsTheSurface ==
    base = head =>
        LET m == Model(head)
            files == D!Generate(m)
        IN \A full \in BOOLEAN :
             LET specs == D!Split(D!GenerateCombined(m, full))
             IN \A p \in Packages(head) \ {Root} :
                  /\ D!Symbols(D!FromCode(m, p), FALSE) # {} => p \in DOMAIN specs
                  /\ p \in DOMAIN specs => Keeps(ClassesOf(files[p], p), ClassesOf(specs[p], p))

\* Diagrams survive being written and read, composed and split.
DiagramsAgreeWithCode == ComposeAgreesWithCode /\ SplitKeepsTheSurface
=============================================================================
