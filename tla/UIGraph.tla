------------------------------- MODULE UIGraph -------------------------------
(***************************************************************************)
(* The canvas of a review (adapter/uigraph): the declarations of the       *)
(* worktree, the edges between its packages and the relations between its  *)
(* symbols, each with a mark that says what the branch did to it, and what *)
(* of it is public (internal/publicapi).  Marks are words, Unmarked for no *)
(* mark.  Where the code keeps the last of several marks for one edge the  *)
(* set of them is kept.  Ports, texts and the constants of enums are left  *)
(* out.                                                                    *)
(***************************************************************************)
EXTENDS ArchReview

(***************************************************************************)
(* The public surface.                                                     *)
(***************************************************************************)
FieldSig(f) == [sort |-> "field", types |-> Spelt(<<f.type>>), returns |-> <<>>]
MethodSig(m) == [sort |-> "method", types |-> Spelt(m.params), returns |-> Spelt(m.returns)]
\* The type of a function, a typedef, a constant or a variable (one of map type has none);
\* of a struct or an interface the name alone.
SymbolSig(d) ==
    LET unspelt == d.kind \in {"const", "var"} /\ \E t \in ToSet(d.types) : Unnamed(t)
    IN [sort |-> d.kind,
        types |-> IF d.kind = "func" THEN Spelt(d.methods[1].params) ELSE IF unspelt THEN <<>> ELSE Spelt(d.types),
        returns |-> IF d.kind = "func" THEN Spelt(d.methods[1].returns) ELSE <<>>]
HasMembers(d) == d.kind \in {"interface", "struct"}
Fields(d, name) == {FieldSig(f) : f \in {f \in ToSet(d.fields) : HasMembers(d) /\ f.name = name}}
Methods(d, name) == {MethodSig(m) : m \in {m \in ToSet(d.methods) : HasMembers(d) /\ m.name = name}}
MemberNames(d) == IF HasMembers(d) THEN {x.name : x \in ToSet(d.fields) \cup ToSet(d.methods)} ELSE {}

\* publicSymbols, publicFields and publicMethods
PublicSymbol(prog, id) == {SymbolSig(d) : d \in {d \in Decls(prog, id) : d.exported}}
PublicMember(prog, id, name) ==
    UNION {{FieldSig(f) : f \in {f \in ToSet(d.fields) : f.exported /\ f.name = name}}
             \cup {MethodSig(m) : m \in {m \in ToSet(d.methods) : m.exported /\ m.name = name}} :
             d \in {d \in Decls(prog, id) : d.exported /\ HasMembers(d)}}
\* Project: the pairs of packages with a dependency through something exported.
PublicDeps(m) ==
    {<<d.from[1], d.to[1]>> : d \in {d \in m.deps : d.exp /\ d.to[1] # d.from[1] /\ d.to[1] \in Packages(m.decls)}}

(***************************************************************************)
(* Declarations and their members.                                         *)
(***************************************************************************)
KindOrder == <<"interface", "struct", "func", "typedef", "const", "var", "error">>
\* buildLegacyDiffDetails: the model diff goes kind by kind and the last change under a
\* name stays.
LegacyWord(head, base, id) ==
    LET of == {c \in SymbolChanges(head, base) : c.id = id}
        at == {i \in DOMAIN KindOrder : \E c \in of : c.kind = KindOrder[i]}
    IN IF of = {} THEN Unmarked ELSE (CHOOSE c \in of : c.kind = KindOrder[Max(at)]).word

\* addFieldDiffDetails, then addMethodDiffDetails, for a type both sides have.
\* (FieldsOnly: methods are left to the public diff.)
FieldsOnly(head, base, id, name) ==
    {Word(Fields(h, name), Fields(b, name)) : h \in Decls(head, id), b \in Decls(base, id)}
LegacyMemberWord(head, base, id, name) ==
    LET pairs == {p \in Decls(head, id) \X Decls(base, id) : p[1].kind = p[2].kind /\ HasMembers(p[1])}
        fields == {Word(Fields(p[1], name), Fields(p[2], name)) : p \in pairs} \ {Unmarked}
        methods == {Word(Methods(p[1], name), Methods(p[2], name)) : p \in pairs} \ {Unmarked}
    IN IF methods # {} THEN methods ELSE fields

\* The word of the public diff, when it has one, replaces that of the model diff.
PublicFirst(public, legacy) == IF public # Unmarked THEN {public} ELSE legacy \ {Unmarked}
SymbolMark(head, base, id) ==
    PublicFirst(Word(PublicSymbol(head, id), PublicSymbol(base, id)), {LegacyWord(head, base, id)})
MemberMark(head, base, id, name) ==
    PublicFirst(Word(PublicMember(head, id, name), PublicMember(base, id, name)), LegacyMemberWord(head, base, id, name))

\* buildComponent: the members the type has, and the removed ones the diffs know of.
Internals(head, base) ==
    {[id |-> IdOf(d), mark |-> SymbolMark(head, base, IdOf(d)),
      members |-> {[name |-> n, mark |-> MemberMark(head, base, IdOf(d), n)] :
                     n \in MemberNames(d) \cup
                             {n \in UNION {MemberNames(b) : b \in Decls(base, IdOf(d))} : MemberMark(head, base, IdOf(d), n) # {}}}] :
        d \in head}

(***************************************************************************)
(* Edges between packages.                                                 *)
(***************************************************************************)
PackagePair(x) == <<x.from[1], x.to[1]>>
Crosses(m, e) == e[1] # e[2] /\ {e[1], e[2]} \subseteq Packages(m.decls)
PackageDeps(m) == {e \in {PackagePair(d) : d \in m.deps} : Crosses(m, e)}
\* buildDependencyDiffMap keeps one symbol-level change per pair of packages.
EdgeMarks(changes, e) == {c.word : c \in {c \in changes : PackagePair(c.key) = e}}
\* buildEdges: the dependencies of the worktree, and pairs whose change is a removal.
Edges(head, base) ==
    LET changes == DepChanges(head, base)
        gone == {e \in {PackagePair(c.key) : c \in {c \in changes : c.word = "removed"}} : Crosses(head, e)}
    IN {[edge |-> e, marks |-> EdgeMarks(changes, e),
         public |-> e \in PublicDeps(head) \/ \E c \in changes : PackagePair(c.key) = e /\ c.public] :
          e \in PackageDeps(head) \cup gone}

(***************************************************************************)
(* Relations between symbols.                                              *)
(***************************************************************************)
\* flattenTypeRefs: the arguments of an instance are not looked at.  A text names nothing.
Flat(t) == CASE t.shape \in {"plain", "map"} -> ToSet(t.refs) [] t.shape = "instance" -> {t.refs[1]} [] OTHER -> {}
\* addTypeRelations: here, too, a type without a package is one of the package that names it.
Relate(kind, from, types) ==
    {[kind |-> kind, from |-> from, to |-> Localised(from[1], r)] : r \in UNION {Flat(t) : t \in ToSet(types)}}
SignatureRelations(from, m) == Relate("uses", from, m.params) \cup Relate("returns", from, m.returns)
TypeRelations(d) ==
    CASE HasMembers(d) -> (UNION {SignatureRelations(MemberOf(d, m), m) : m \in ToSet(d.methods)})
                            \cup (UNION {Relate("uses", MemberOf(d, f), <<f.type>>) : f \in ToSet(d.fields)})
      [] d.kind = "func" -> SignatureRelations(IdOf(d), d.methods[1])
      [] OTHER -> Relate("uses", IdOf(d), d.types)
\* buildSymbolIndex: what a relation may end in.
Indexed(prog, id) == IF Len(id) = 2 THEN Declared(prog, id) ELSE \E d \in Decls(prog, SubSeq(id, 1, 2)) : id[3] \in MemberNames(d)
Present(m) ==
    {r \in (UNION {TypeRelations(d) : d \in m.decls})
             \cup {[kind |-> "calls", from |-> c.from, to |-> c.to] : c \in m.calls}
             \cup {[kind |-> "implements", from |-> i.concrete, to |-> i.iface] : i \in m.impls} : Indexed(m.decls, r.to)}
\* buildRelationDiffMap: the change with the key of a relation, or one between the same
\* two declarations.
Owner(id) == SubSeq(id, 1, 2)
\* (NearChanges: every change between the two declarations counts.)
NearChanges(changes, r) ==
    {c.word : c \in {c \in changes : Owner(c.key.from) = Owner(r.from) /\ Owner(c.key.to) = Owner(r.to)}}
RelationMarks(changes, r) ==
    LET exact == {c \in changes : c.key = r}
        near == {c \in changes : c.key.kind = r.kind /\ Owner(c.key.from) = Owner(r.from) /\ Owner(c.key.to) = Owner(r.to)}
    IN {c.word : c \in IF exact # {} THEN exact ELSE near}
Relations(head, base) ==
    LET changes == DepChanges(head, base)
        gone == {c.key : c \in {c \in changes : c.word = "removed" /\ {c.key.from[1], c.key.to[1]} \subseteq Packages(head.decls)}}
    IN {[relation |-> r, marks |-> RelationMarks(changes, r)] : r \in Present(head) \cup gone}
=============================================================================
