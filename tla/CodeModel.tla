------------------------------ MODULE CodeModel ------------------------------
(***************************************************************************)
(* What the Go reader makes of a program (adapter/golang/reader.go and     *)
(* calls.go): the symbols of each package, the dependencies between them,  *)
(* the implementations and the calls.                                      *)
(*                                                                         *)
(* A program is a set of declarations.  A declaration is a record with its *)
(* package, name, kind, exported flag and file, the fields and the methods *)
(* of a type (a function has one entry in `methods`, of its own name) and  *)
(* the type of a constant, a variable or a typedef.  A field has a name,   *)
(* an exported flag, a type and an embedded flag; a method has a name, an  *)
(* exported flag, parameter and result types, the types its body mentions  *)
(* and the calls it makes.  A type is the named types it is built from,    *)
(* in order, and its shape: "plain" (a name, pointers to it, slices of it),*)
(* "instance" (a generic type and its arguments), "map", "maps" (a slice   *)
(* of maps), "chan" (channels, arrays, pointers to pointers) or "func".    *)
(* Types that mix the last five are left out.  A call names a function, or *)
(* a method and the type of the expression it is called on.  Doc comments, *)
(* spans, values and tags are left out: nothing below depends on them.     *)
(*                                                                         *)
(* A symbol is <<package, name>>, a member <<package, owner, name>>.       *)
(***************************************************************************)
EXTENDS Naturals, FiniteSets, SequencesExt

CONSTANTS
    Nested,    \* the package paths with a slash in them
    Root,      \* the package at the root of the module
    Loose      \* stands for the text of a type the reader cannot name

ASSUME RootAssumption == Root \notin Nested

Types == {"interface", "struct", "typedef"}
Nowhere == <<>>                            \* a call of a plain function has no receiver

IdOf(d) == <<d.pkg, d.name>>
MemberOf(d, m) == <<d.pkg, d.name, m.name>>
Packages(prog) == {d.pkg : d \in prog}
Decls(prog, id) == {d \in prog : IdOf(d) = id}
Declared(prog, id) == Decls(prog, id) # {}
The(prog, id) == CHOOSE d \in prog : IdOf(d) = id
OfKind(prog, kinds) == {d \in prog : d.kind \in kinds}
IsInterface(prog, id) == \E d \in Decls(prog, id) : d.kind = "interface"
(***************************************************************************)
(* Methods and the types they belong to.                                   *)
(***************************************************************************)
Embedded(d) == {f \in ToSet(d.fields) : f.embedded}

\* The type that declares the method a type has, its own or a promoted one: the method at
\* the shallowest depth of embedding.
DeclaringType(prog, id, name) ==
    LET owners(types) == {t \in types : \E m \in ToSet(The(prog, t).methods) : m.name = name}
        embeddedIn(types) == UNION {{f.type.refs[1] : f \in Embedded(The(prog, t))} : t \in types}
        depth[n \in 0 .. Cardinality(prog)] ==
            IF n = 0 THEN {id}
            ELSE LET above == depth[n - 1] IN IF owners(above) # {} THEN above ELSE embeddedIn(above)
    IN IF owners({id}) # {} THEN {id} ELSE owners(depth[Cardinality(prog)])

MethodSet(prog, id, name) ==
    {m \in UNION {ToSet(The(prog, t).methods) : t \in DeclaringType(prog, id, name)} : m.name = name}

SameSignature(m, n) == m.name = n.name /\ m.params = n.params /\ m.returns = n.returns

\* computeImplementations: an exported interface with methods, and any named type that
\* has them all.
Implements(prog, c, i) ==
    \A m \in ToSet(i.methods) : \E n \in MethodSet(prog, IdOf(c), m.name) : SameSignature(m, n)
Implementations(prog) ==
    UNION {{[concrete |-> IdOf(c), iface |-> IdOf(i)] :
              c \in {c \in OfKind(prog, {"struct", "typedef"}) : Implements(prog, c, i)}} :
              i \in {i \in OfKind(prog, {"interface"}) : i.exported /\ i.methods # <<>>}}

(***************************************************************************)
(* Dependencies.                                                           *)
(***************************************************************************)
\* convertTypeRef: of a slice of maps no name is kept.
Converted(t) == IF t.shape = "maps" THEN [t EXCEPT !.refs = <<>>] ELSE t
\* Maps, and slices of them, have no name of their own.
Unnamed(t) == t.shape \in {"map", "maps"}

\* A type of the root package loses its package, and what has none is taken for a symbol of
\* the package that mentions it.
Localised(pkg, ref) == IF ref[1] = Root THEN <<pkg, ref[2]>> ELSE ref
\* typeRefToSymbolRefs: the symbols behind a type of a signature; where the reader knows a
\* type by its text alone, the text is one.
SymbolRefs(pkg, t) ==
    IF t.shape \in {"chan", "func"} THEN <<<<pkg, Loose>>>>
    ELSE [i \in DOMAIN Converted(t).refs |-> Localised(pkg, Converted(t).refs[i])]

\* typeRefToSymbolRef: another package counts as external when its path has no slash.
IsExternal(pkg, to) == to[1] # pkg /\ to[1] \notin Nested

Dep(from, to, kind, exp) ==
    [from |-> from, to |-> to, kind |-> kind, exp |-> exp, ext |-> IsExternal(from[1], to), part |-> "signature"]

DepsOn(from, types, kind, exp) ==
    LET refs == FlattenSeq([i \in DOMAIN types |-> SymbolRefs(from[1], types[i])])
    IN [i \in DOMAIN refs |-> Dep(from, refs[i], kind, exp)]

\* collectMethodDependenciesWithVisibility
\* (ParamDeps: the result types are forgotten.)
ParamDeps(from, m, exp) == DepsOn(from, m.params, "uses", exp)
MethodDeps(from, m, exp) == DepsOn(from, m.params, "uses", exp) \o DepsOn(from, m.returns, "returns", exp)

\* What a declaration says it depends on, in the order the reader meets it.
Candidates(d) ==
    LET fields == FlattenSeq([i \in DOMAIN d.fields |->
                      DepsOn(IdOf(d), <<d.fields[i].type>>, "uses", d.exported /\ d.fields[i].exported)])
        methods == FlattenSeq([i \in DOMAIN d.methods |->
                      LET m == d.methods[i]
                      IN MethodDeps(IdOf(d), m, d.exported /\ m.exported)
                           \o MethodDeps(MemberOf(d, m), m, d.exported /\ m.exported)])
    IN CASE d.kind \in {"interface", "struct"} -> fields \o methods
         [] d.kind = "func" -> MethodDeps(IdOf(d), d.methods[1], d.exported)
         [] d.kind \in {"const", "var"} /\ (\A t \in ToSet(d.types) : ~Unnamed(t)) ->
              DepsOn(IdOf(d), d.types, "uses", d.exported)
         [] OTHER -> <<>>

\* Of the dependencies with one key the first is kept, with its visibility.
SameKey(a, b) == a.from = b.from /\ a.to = b.to /\ a.kind = b.kind
FirstOfKey(deps) == {deps[i] : i \in {i \in DOMAIN deps : \A j \in 1 .. i - 1 : ~SameKey(deps[j], deps[i])}}

\* collectLoadedNamedTypes looks into every type but functions.
Loaded(t) == IF t.shape = "func" THEN <<>> ELSE t.refs
\* collectBodyTypeDependencies: functions and the methods of structs, under the name of
\* the function or of the struct.
BodyDeps(d) ==
    LET used(m) == FlattenSeq([i \in DOMAIN m.uses |-> Loaded(m.uses[i])])
        exp(m) == d.exported /\ m.exported
        of(m) == [i \in DOMAIN used(m) |->
                     [from |-> IdOf(d), to |-> used(m)[i], kind |-> "uses", exp |-> exp(m), ext |-> FALSE, part |-> "body"]]
    IN IF d.kind \in {"func", "struct"}
         THEN FirstOfKey(FlattenSeq([i \in DOMAIN d.methods |-> of(d.methods[i])]))
         ELSE {}

Dependencies(prog) == UNION {FirstOfKey(Candidates(d)) \cup BodyDeps(d) : d \in prog}

(***************************************************************************)
(* Calls.                                                                  *)
(***************************************************************************)
\* handleSelectorCall: a call through an interface reaches every type that implements it;
\* a call of a method is named after the type of the expression, in the package where the
\* method is declared.
SelectorTargets(prog, call) ==
    IF IsInterface(prog, call.on)
      THEN {[to |-> Append(i.concrete, call.name), via |-> call.on] :
              i \in {i \in Implementations(prog) : i.iface = call.on}}
      ELSE {[to |-> <<t[1], call.on[2], call.name>>, via |-> Nowhere] : t \in DeclaringType(prog, call.on, call.name)}

\* extractCallsFromFuncBody: functions of packages that are not loaded are dropped.
CallTargets(prog, call) ==
    IF call.on = Nowhere
      THEN {[to |-> t, via |-> Nowhere] : t \in {t \in {call.name} : t[1] \in Packages(prog)}}
      ELSE SelectorTargets(prog, call)

CallsOf(prog, from, m) ==
    {[from |-> from, to |-> t.to, via |-> t.via] : t \in UNION {CallTargets(prog, c) : c \in ToSet(m.calls)}}

\* extractCalls: the bodies of functions and of the methods of structs.
Calls(prog) ==
    (UNION {CallsOf(prog, IdOf(d), d.methods[1]) : d \in OfKind(prog, {"func"})})
      \cup (UNION {UNION {CallsOf(prog, MemberOf(d, m), m) : m \in ToSet(d.methods)} : d \in OfKind(prog, {"struct"})})

\* Packages load together: partitionLoadable keeps those with types and syntax, and the
\* models are the packages in the order of their paths.
Model(prog) == [decls |-> prog, deps |-> Dependencies(prog), impls |-> Implementations(prog), calls |-> Calls(prog)]

(***************************************************************************)
(* Programs that compile.                                                  *)
(***************************************************************************)
SymbolRef == STRING \X STRING
TypeRef == [shape : {"plain", "map", "maps", "chan", "func"}, refs : Seq(SymbolRef)] \cup [shape : {"instance"}, refs : Seq(SymbolRef) \ {<<>>}]
FieldDef == [name : STRING, exported : BOOLEAN, type : TypeRef, embedded : BOOLEAN]
CallSite == [on : {Nowhere}, name : SymbolRef] \cup [on : SymbolRef, name : STRING]
MethodDef == [name : STRING, exported : BOOLEAN, params : Seq(TypeRef), returns : Seq(TypeRef), uses : Seq(TypeRef), calls : Seq(CallSite)]
Declaration ==
    [pkg : STRING, name : STRING, kind : Types \cup {"func", "const", "var", "error"}, exported : BOOLEAN,
     file : STRING, fields : Seq(FieldDef), methods : Seq(MethodDef), types : Seq(TypeRef)]

\* What the grammar and the names of Go make of a declaration: a function is its own one
\* method, only structs have fields, errors have no type of their own, and no two members
\* share a name (structs with several blank fields are left out).
WellFormed(d) ==
    /\ d \in Declaration
    /\ d.kind # "struct" => d.fields = <<>>
    /\ d.kind \notin Types \cup {"func"} => d.methods = <<>>
    /\ d.kind = "error" => d.types = <<>>
    /\ d.kind = "func" => Len(d.methods) = 1 /\ d.methods[1].name = d.name /\ d.methods[1].exported = d.exported
    /\ \A i, j \in DOMAIN d.methods : d.methods[i].name = d.methods[j].name => i = j
    /\ \A i, j \in DOMAIN d.fields : d.fields[i].name = d.fields[j].name => i = j
    /\ \A f \in ToSet(d.fields) : \A m \in ToSet(d.methods) : f.name # m.name
    /\ \A f \in Embedded(d) : f.type.refs # <<>>
NamesTellVisibility(prog) ==
    /\ \A d, e \in prog : d.name = e.name => d.exported = e.exported
    /\ \A d, e \in prog : \A x \in ToSet(d.fields), y \in ToSet(e.fields) : x.name = y.name => x.exported = y.exported
    /\ \A d, e \in prog : \A x \in ToSet(d.methods), y \in ToSet(e.methods) : x.name = y.name => x.exported = y.exported

TypesIn(d) ==
    UNION {{f.type : f \in ToSet(d.fields)}, ToSet(d.types),
           UNION {ToSet(m.params) \cup ToSet(m.returns) \cup ToSet(m.uses) : m \in ToSet(d.methods)}}
IsFunction(prog, id) == \E d \in Decls(prog, id) : d.kind = "func"
IsType(prog, id) == \E d \in Decls(prog, id) : d.kind \in Types
Compiles(prog) ==
    /\ \A d, e \in prog : IdOf(d) = IdOf(e) => d = e
    /\ \A d \in prog :
         /\ \A t \in TypesIn(d) : \A r \in ToSet(t.refs) : Declared(prog, r)
         /\ \A m \in ToSet(d.methods) : \A c \in ToSet(m.calls) :
              IF c.on = Nowhere THEN IsFunction(prog, c.name)
                                ELSE IsType(prog, c.on) /\ DeclaringType(prog, c.on, c.name) # {}
=============================================================================
