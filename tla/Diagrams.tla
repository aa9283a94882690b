------------------------------- MODULE Diagrams -------------------------------
(***************************************************************************)
(* D2 diagrams of a model (adapter/d2, service): one per package with a     *)
(* container per file (pub.d2), one of all packages with a container per    *)
(* package, the reader of both, and the commands that split the second into *)
(* specifications of packages and compose the first into one.               *)
(*                                                                         *)
(* A document is a set of groups, each with a label, classes and edges, and *)
(* the edges at its top.  A class has a stereotype and rows; a row has a    *)
(* sign ("+", "-" or none), a name, parentheses or not, a text and a value. *)
(* A definition is what the models hold of a symbol: like a class, but with *)
(* every row.  Colours, legends, comments and the spelling of types are     *)
(* left out, and so are doc comments and their annotations.                 *)
(***************************************************************************)
EXTENDS CodeModel, FiniteSets

CONSTANTS
    Unspelled,       \* the packages whose path their D2 identifier does not spell: one with a dot
    GoFiles,         \* the names of source files
    DottedFiles,     \* of those, the names with a second dot
    ParamNames,      \* the names of the parameters of functions, where they matter
    Constructors,    \* the names that start with New and a capital
    Enums            \* the typedefs that have constants

NoFile == ""
Reserved == {"legend.go", "classes.go"}                  \* files whose container the reader takes for its own
Overriding == {"shape", "stereotype"}                    \* rows the reader takes for attributes
Metadata == Overriding \cup {"class"}

Row(sign, name, parens, text, value) ==
    [sign |-> sign, name |-> name, parens |-> parens, text |-> text, value |-> value]
Sign(exported) == IF exported THEN "+" ELSE "-"
EntryPoint == Row("", "<<entry-point>>", FALSE, <<>>, <<>>)
HasParens(type) == type.shape = "func"

(***************************************************************************)
(* From the code.                                                          *)
(***************************************************************************)
FieldRow(f) == Row(Sign(f.exported), f.name, HasParens(f.type), <<f.type>>, <<>>)
MethodRow(m) == Row(Sign(m.exported), m.name, TRUE, m.params, m.returns)
ParamName(f, i) == IF <<f.name, i>> \in DOMAIN ParamNames THEN ParamNames[<<f.name, i>>] ELSE ToString(i)
ParamRows(f) == [i \in DOMAIN f.params |-> Row("", ParamName(f, i), FALSE, <<>>, <<f.params[i]>>)]
ReturnRows(f) == IF f.returns = <<>> THEN <<>> ELSE <<Row("", "return", FALSE, <<>>, f.returns)>>

RowsOf(d) ==
    CASE d.kind \in {"interface", "struct"} ->
           [i \in DOMAIN d.fields |-> FieldRow(d.fields[i])] \o [i \in DOMAIN d.methods |-> MethodRow(d.methods[i])]
      [] d.kind = "func" -> ParamRows(d.methods[1]) \o ReturnRows(d.methods[1])
      [] d.kind = "typedef" -> <<Row("", "type", FALSE, <<>>, d.types)>>
      [] OTHER -> <<Row("", d.name, FALSE, <<>>, d.types)>>

\* detectFunctionStereotype, detectTypeDefStereotype
Stereotype(d) ==
    CASE d.kind = "func" /\ d.name \in Constructors /\ d.methods[1].returns # <<>> -> "factory"
      [] d.kind = "typedef" /\ IdOf(d) \in Enums -> "enum"
      [] OTHER -> "none"
Def(d) ==
    [name |-> d.name, kind |-> d.kind, exported |-> d.exported, stereotype |-> Stereotype(d),
     rows |-> RowsOf(d), file |-> d.file]

\* Dependencies with whether they are the first of their declaration that joins the two.
FirstKind(d, to) ==
    LET joining == SelectSeq(Candidates(d), LAMBDA x : x.from = IdOf(d) /\ x.to = to)
    IN IF joining = <<>> THEN "uses" ELSE joining[1].kind
FromCode(model, p) ==
    [path |-> p,
     defs |-> {Def(d) : d \in {d \in model.decls : d.pkg = p}},
     deps |-> {[from |-> x.from, to |-> x.to, kind |-> x.kind, exp |-> x.exp,
                first |-> \E d \in Decls(model.decls, x.from) : x.kind = FirstKind(d, x.to)]
                 : x \in {x \in model.deps : x.from[1] = p}},
     impls |-> {i \in model.impls : i.iface[1] = p}]

(***************************************************************************)
(* Writing.                                                                *)
(***************************************************************************)
Drawn == {"interface", "struct", "func", "typedef"}
Visible(pm, full) == {d \in pm.defs : full \/ d.exported}
Symbols(pm, full) == {d.name : d \in {d \in Visible(pm, full) : d.kind \in Drawn}}
IsEntryPoint(d) == d.exported /\ (d.stereotype = "factory" \/ d.name \in Constructors)

Class(name, exported, stereotype, rows) ==
    [name |-> name, exported |-> exported, stereotype |-> stereotype, rows |-> rows]
Signed(rows, full) == SelectSeq(rows, LAMBDA r : full \/ r.sign = "+")
TypeClass(d, full) == Class(d.name, d.exported, d.kind, Signed(d.rows, full))
TypeDefClass(d) == Class(d.name, d.exported, d.stereotype, d.rows)
PlainFunction(d) ==
    Class(d.name, d.exported, IF d.stereotype = "factory" THEN "factory" ELSE "function", d.rows)
MarkedFunction(d) ==
    LET constructs == d.exported /\ d.name \in Constructors
    IN Class(d.name, d.exported,
             IF d.stereotype = "factory" \/ constructs THEN "factory" ELSE "function",
             (IF IsEntryPoint(d) THEN <<EntryPoint>> ELSE <<>>) \o d.rows)

Block(defs, kind, name) ==
    LET of == SetToSeq({d \in defs : d.kind = kind})
    IN IF of = <<>> THEN {}
       ELSE {Class(name, TRUE, kind, FlattenSeq([i \in DOMAIN of |-> of[i].rows]))}
Classes(defs, full, marked) ==
    {TypeClass(d, full) : d \in {d \in defs : d.kind \in {"interface", "struct"}}}
      \cup {IF marked THEN MarkedFunction(d) ELSE PlainFunction(d) : d \in {d \in defs : d.kind = "func"}}
      \cup {TypeDefClass(d) : d \in {d \in defs : d.kind = "typedef"}}
      \cup Block(defs, "const", "Constants") \cup Block(defs, "var", "Variables") \cup Block(defs, "error", "Errors")

Edge(from, to, kind, dashed) == [from |-> from, to |-> to, kind |-> kind, dashed |-> dashed]
Group(id, label, classes, edges) == [id |-> id, label |-> label, classes |-> classes, edges |-> edges]

\* d2TextBuilder: a container per file; the first dependency between two symbols of the
\* package, also one that no exported member makes, and the implementations.
FileId(file) == IF file = NoFile THEN "symbols" ELSE file
FileOf(pm, name) == (CHOOSE d \in pm.defs : d.name = name /\ d.kind \in Drawn).file
At(pm, name) == <<FileId(FileOf(pm, name)), name>>
FilteredDeps(pm) ==
    LET shown == Symbols(pm, FALSE)
    IN {x \in pm.deps : /\ x.from[1] = pm.path /\ x.to[1] = pm.path
                        /\ Len(x.from) = 2 /\ x.from[2] \in shown /\ x.to[2] \in shown
                        /\ NoFile \notin {FileOf(pm, x.from[2]), FileOf(pm, x.to[2])}
                        /\ x.from # x.to /\ x.first}
FilteredImpls(pm) ==
    LET named(kind) == {d.name : d \in {d \in Visible(pm, FALSE) : d.kind = kind}}
    IN {i \in pm.impls : /\ i.concrete[1] = pm.path
                         /\ i.concrete[2] \in named("struct") /\ i.iface[2] \in named("interface")}
PackageDiagram(pm) ==
    [groups |-> {LET in == {d \in Visible(pm, FALSE) : d.file = f}
                 IN Group(FileId(f), f, Classes(in, FALSE, FALSE), {}) : f \in {d.file : d \in Visible(pm, FALSE)}},
     edges |-> {Edge(At(pm, x.from[2]), At(pm, x.to[2]), x.kind, FALSE) : x \in FilteredDeps(pm)}
                 \cup {Edge(At(pm, i.concrete[2]), At(pm, i.iface[2]), "implements", TRUE) : i \in FilteredImpls(pm)}]

\* combinedBuilder: a container per package with the edges inside it.
Label(p) == IF p = Root THEN Loose ELSE p
Shown(pms, x, full) ==
    LET in(id) == \E q \in pms : q.path = id[1] /\ Len(id) = 2 /\ id[2] \in Symbols(q, full)
    IN (full \/ x.exp) /\ in(x.from) /\ in(x.to)
InnerDeps(pms, pm, full) ==
    {x \in pm.deps : x.from[1] = x.to[1] /\ x.from[1] = pm.path /\ Shown(pms, x, full) /\ x.from # x.to}
CrossDeps(pms, full) ==
    UNION {{x \in pm.deps : x.from[1] # x.to[1] /\ Shown(pms, x, full)} : pm \in pms}
CombinedDiagram(pms, full) ==
    [groups |-> {Group(pm.path, Label(pm.path), Classes(Visible(pm, full), full, TRUE),
                       {Edge(<<x.from[2]>>, <<x.to[2]>>, x.kind, FALSE) : x \in InnerDeps(pms, pm, full)}) : pm \in pms},
     edges |-> {Edge(x.from, x.to, x.kind, FALSE) : x \in CrossDeps(pms, full)}]

(***************************************************************************)
(* Reading.                                                                *)
(***************************************************************************)
Read(name, exported, kind, stereotype, rows) ==
    {[name |-> name, kind |-> kind, exported |-> exported, stereotype |-> stereotype, rows |-> rows, file |-> NoFile]}
Rows(c, Keep(_)) == SelectSeq(c.rows, Keep)

\* parseStruct: whatever has a parenthesis is a method, a field of function type too, and
\* what follows its last parenthesis is lost.
AsMember(r) == IF r.parens /\ Len(r.text) = 1 /\ HasParens(r.text[1])
                 THEN [r EXCEPT !.text[1].shape = "cut"] ELSE r
ReadStruct(c) ==
    LET members == Rows(c, LAMBDA r : r.sign # "")
    IN Read(c.name, c.exported, "struct", "none", [i \in DOMAIN members |-> AsMember(members[i])])
ReadInterface(c) == Read(c.name, c.exported, "interface", "none", Rows(c, LAMBDA r : r.sign # ""))
ReadFunction(c) ==
    Read(c.name, c.exported, "func", IF c.stereotype = "factory" THEN "factory" ELSE "none",
         Rows(c, LAMBDA r : r.name \notin Metadata))
ReadTypeDef(c) == Read(c.name, c.exported, "typedef", "enum", Rows(c, LAMBDA r : r.name = "type"))

\* A class whose stereotype is none of the known ones is a struct, a block of constants
\* too; one without a stereotype, or with a row that overrides one, is nothing.
ReadClass(c) ==
    IF c.stereotype = "none" \/ \E i \in DOMAIN c.rows : c.rows[i].sign = "" /\ c.rows[i].name \in Overriding
      THEN {}
      ELSE CASE c.stereotype = "interface" -> ReadInterface(c)
             [] c.stereotype \in {"factory", "function"} -> ReadFunction(c)
             [] c.stereotype = "enum" -> ReadTypeDef(c)
             [] OTHER -> ReadStruct(c)
ReadClasses(g) == UNION {ReadClass(c) : c \in g.classes}

\* A dashed edge carries its label beside its style, where it is not looked for.
ReadKind(e) == IF e.dashed \/ e.kind \notin {"returns", "implements"} THEN "uses" ELSE e.kind
ReadEdge(e, from, to) == [from |-> from, to |-> to, kind |-> ReadKind(e), exp |-> TRUE, first |-> TRUE]
Model1(path, defs, deps) == [path |-> path, defs |-> defs, deps |-> deps, impls |-> {}]

Plain(doc) == {g \in doc.groups : g.id \notin Reserved}
IsSplitMode(doc) == \E g \in Plain(doc) : g.label \in GoFiles

\* (FilePrefixed: the file stays before the symbol.)
FilePrefixed(end, path) == end
\* The file before a symbol gives way to the package, unless it looks like one.
Stripped(end, path) == IF end[1] \in DottedFiles THEN <<Loose, end[2]>> ELSE <<path, end[2]>>
ReadSplitMode(doc, path) ==
    {Model1(path, UNION {ReadClasses(g) : g \in Plain(doc)},
            {ReadEdge(e, Stripped(e.from, path), Stripped(e.to, path)) : e \in doc.edges})}

\* An edge inside a package has no package; one between packages goes to the package of
\* its source, if the identifier spells it.
Spelled(id) == IF id[1] \in Unspelled \cup {Root} THEN <<Loose, id[2]>> ELSE id
ReadCombined(doc) ==
    {Model1(g.label, ReadClasses(g),
            {ReadEdge(e, <<NoFile, e.from[1]>>, <<NoFile, e.to[1]>>) : e \in g.edges}
              \cup {ReadEdge(e, Spelled(e.from), Spelled(e.to)) : e \in {e \in doc.edges : Spelled(e.from)[1] = g.label}})
       : g \in {g \in Plain(doc) : g.label # NoFile}}

Failed == [path |-> Loose]
ReadFile(doc, path) ==
    IF ~IsSplitMode(doc) THEN ReadCombined(doc)
    ELSE IF \A pm \in ReadSplitMode(doc, path) : pm.defs = {} THEN {Failed} ELSE ReadSplitMode(doc, path)
\* files maps packages to their documents; one that cannot be read fails them all.
ReadFiles(files) == UNION {ReadFile(files[p], p) : p \in DOMAIN files}
Readable(files) == Failed \notin ReadFiles(files) /\ ReadFiles(files) # {}

(***************************************************************************)
(* The commands.  A command that fails writes nothing.                     *)
(***************************************************************************)
ModelsOf(model) == {FromCode(model, p) : p \in Packages(model.decls)}
Generate(model) == [p \in Packages(model.decls) |-> PackageDiagram(FromCode(model, p))]
GenerateCombined(model, full) ==
    CombinedDiagram({pm \in ModelsOf(model) :
        IF full THEN Symbols(pm, TRUE) # {} ELSE Visible(pm, FALSE) # {}}, full)
Split(doc) ==
    LET pms == ReadFiles([p \in {Loose} |-> doc])
    IN [p \in {pm.path : pm \in pms} |-> PackageDiagram(CHOOSE pm \in pms : pm.path = p)]
Compose(files) == CombinedDiagram(ReadFiles(files), FALSE)
===============================================================================
