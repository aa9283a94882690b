----------------------------- MODULE MCCodeReview ----------------------------
(***************************************************************************)
(* Eight small families of programs.  In Types1, two internal packages and  *)
(* one at the root of the module share an interface, a struct that         *)
(* implements it, one that embeds it and functions.  In Types2 a struct is *)
(* used by a typedef with a method, a variable, fields, channels and       *)
(* bodies.  In Graph, functions of five packages in three groups call each *)
(* other in any way that has no import cycle.  In Members a struct, a      *)
(* function and a variable come in several forms.  In Drawings, what D2     *)
(* diagrams spell differently from other text meets; in Promotions, what    *)
(* the reader names alike; in Lost, what it loses, and a type of a package  *)
(* with a path of one word; in Paths, packages whose paths begin alike and  *)
(* declarations that move or change where the model diff does not look.     *)
(***************************************************************************)
EXTENDS CodeReview

MCNested == {"in/v1", "in/v1.2", "in/a", "in/b", "in/a1", "in/a2", "in/b1", "in/b2", "in/c"}
MCWorld == {"root", "lib"}
MCDotted == {<<"in/v1.2", "in/v1">>}
MCEntryPoints == {<<"fn", <<"in/b", "main">>>>}
MCGroups == ("in/v1" :> "V") @@ ("lib" :> "L") @@ ("in/v1.2" :> "V") @@ ("in/a" :> "A") @@ ("in/b" :> "B") @@ ("root" :> "R") @@ ("in/a1" :> "A") @@ ("in/a2" :> "A")
              @@ ("in/b1" :> "B") @@ ("in/b2" :> "B") @@ ("in/c" :> "C")

Plain(refs) == [shape |-> "plain", refs |-> refs]
Shaped(shape, refs) == [shape |-> shape, refs |-> refs]
Chan(refs) == Shaped("chan", refs)
Fn(name, params, returns, uses, calls) ==
    [name |-> name, exported |-> TRUE, params |-> params, returns |-> returns, uses |-> uses, calls |-> calls]
Call(id) == [on |-> Nowhere, name |-> id]
CallOn(type, name) == [on |-> type, name |-> name]
Field(name, type) == [name |-> name, exported |-> TRUE, type |-> type, embedded |-> FALSE]
Embed(id) == [name |-> id[2], exported |-> TRUE, type |-> Plain(<<id>>), embedded |-> TRUE]
Decl(pkg, name, kind, fields, methods, types) ==
    [pkg |-> pkg, name |-> name, kind |-> kind, exported |-> TRUE, file |-> "f.go",
     fields |-> fields, methods |-> methods, types |-> types]
Func(pkg, f) == Decl(pkg, f.name, "func", <<>>, <<f>>, <<>>)

T == <<"in/a", "T">>
I == <<"in/a", "I">>
Outer == <<"in/a", "Outer">>
TheT(calls, returns) ==
    Decl("in/a", "T", "struct", <<>>, <<Fn("M", <<Plain(<<T>>)>>, returns, <<>>, calls), Fn("N", <<>>, <<>>, <<>>, <<>>)>>, <<>>)

Types1 ==
    [edits |-> 2,
     fixed |-> {},
     pool |-> {Decl("in/a", "I", "interface", <<>>, <<Fn("M", <<Plain(<<T>>)>>, <<>>, <<>>, <<>>)>>, <<>>),
               TheT(<<>>, <<>>), TheT(<<Call(<<"in/a", "g">>)>>, <<>>), TheT(<<>>, <<Plain(<<<<"root", "S">>>>)>>),
               Decl("in/a", "Outer", "struct", <<Embed(T)>>, <<>>, <<>>),
               Func("in/a", Fn("g", <<>>, <<>>, <<>>, <<>>)),
               Func("in/b", Fn("main", <<>>, <<>>, <<Plain(<<T>>)>>, <<CallOn(I, "M")>>)),
               Func("in/b", Fn("F", <<Plain(<<Outer>>)>>, <<>>, <<>>, <<CallOn(Outer, "M")>>)),
               Func("in/b", Fn("H", <<>>, <<>>, <<>>, <<CallOn(T, "M"), CallOn(T, "N")>>)),
               Decl("root", "S", "struct", <<>>, <<>>, <<>>)}]

Types2 ==
    [edits |-> 2,
     fixed |-> {Decl("in/a", "T", "struct", <<>>, <<Fn("N", <<>>, <<>>, <<>>, <<Call(<<"in/a", "g">>)>>)>>, <<>>),
                Func("in/a", Fn("g", <<>>, <<>>, <<>>, <<>>))},
     pool |-> {Decl("in/a", "D", "typedef", <<>>, <<Fn("M", <<>>, <<>>, <<>>, <<Call(<<"in/a", "g">>)>>)>>, <<Plain(<<>>)>>),
               Decl("in/b", "V", "var", <<>>, <<>>, <<Plain(<<T>>)>>),
               Decl("in/b", "U", "struct", <<Field("x", Chan(<<T>>)), Field("y", Plain(<<T, <<"in/a", "D">>>>))>>, <<>>, <<>>),
               Decl("in/b", "C", "struct", <<Field("x", Chan(<<T>>))>>, <<>>, <<>>),
               Func("in/b", Fn("F", <<>>, <<Plain(<<T>>)>>, <<>>, <<CallOn(T, "N")>>)),
               Func("in/b", Fn("K", <<>>, <<>>, <<Chan(<<T>>)>>, <<>>)),
               Func("in/a", Fn("g", <<Plain(<<T>>)>>, <<>>, <<>>, <<>>)),
               Decl("in/b", "E", "const", <<>>, <<>>, <<Plain(<<>>)>>)}]

Hub(p) == Func(p, Fn("f", <<>>, <<>>, <<>>, <<>>))
Uses(p, q) == Func(p, Fn(q, <<>>, <<>>, <<>>, <<Call(<<q, "f">>)>>))
Graph ==
    [edits |-> 2,
     fixed |-> {Hub(p) : p \in {"in/a1", "in/a2", "in/b1", "in/b2", "in/c"}},
     pool |-> {Uses("in/a1", "in/b1"), Uses("in/b2", "in/a2"), Uses("in/b1", "in/c"), Uses("in/c", "in/a2"),
               Uses("in/b2", "in/c"), Uses("in/a1", "in/c"), Uses("in/a1", "in/a2")}]

Hidden(x) == [x EXCEPT !.exported = FALSE]
Meth(name, params) == Fn(name, params, <<>>, <<>>, <<>>)
UType(fields, methods) == Decl("in/b", "U", "struct", fields, methods, <<>>)
Box == <<"in/a", "Box">>
Members ==
    [edits |-> 2,
     fixed |-> {Decl("in/a", "T", "struct", <<>>, <<>>, <<>>), Decl("in/a", "Box", "struct", <<>>, <<>>, <<>>),
                Func("in/b", Fn("K", <<>>, <<>>, <<>>, <<>>))},
     pool |-> {UType(<<Field("x", Plain(<<T>>))>>, <<Meth("M", <<Plain(<<T>>)>>), Meth("N", <<Plain(<<T>>)>>)>>),
               UType(<<Field("x", Plain(<<T>>)), Hidden(Field("z", Plain(<<T>>)))>>, <<Meth("M", <<>>)>>),
               UType(<<Field("x", Plain(<<Box>>))>>, <<Hidden(Meth("k", <<Plain(<<T>>)>>)), Meth("N", <<Plain(<<T>>)>>)>>),
               Hidden(Decl("in/b", "u", "struct", <<Field("x", Plain(<<T>>))>>, <<>>, <<>>)),
               Hidden(Decl("in/b", "u", "interface", <<>>, <<Meth("M", <<>>)>>, <<>>)),
               Func("in/b", Fn("G", <<[shape |-> "instance", refs |-> <<Box, T>>]>>, <<>>, <<>>, <<>>)),
               Func("in/b", Fn("G", <<>>, <<Plain(<<T>>)>>, <<Plain(<<T>>)>>, <<>>)),
               Decl("in/b", "V", "var", <<>>, <<>>, <<Plain(<<Box>>)>>),
               Decl("in/b", "V", "const", <<>>, <<>>, <<Plain(<<>>)>>)}]
\* Two files of one package, with a constructor, an enum and a typedef that is none, and
\* parameters and fields that D2 reads otherwise.
MCGoFiles == {"f.go", "g.go", "h.pb.go"}
MCParamNames == (<<"Draw", 1>> :> "shape") @@ (<<"Paint", 1>> :> "class")
MCEnums == {<<"in/a", "E">>}
In(file, d) == [d EXCEPT !.file = file]
Drawings ==
    [edits |-> 2,
     fixed |-> {Decl("in/a", "T", "struct", <<>>, <<Hidden(Meth("m", <<Plain(<<<<"in/a", "E">>>>)>>)), Meth("N", <<>>)>>, <<>>),
                In("g.go", Decl("in/a", "E", "typedef", <<>>, <<>>, <<Plain(<<>>)>>))},
     pool |-> {In("g.go", Func("in/a", Fn("NewT", <<Plain(<<<<"in/a", "E">>>>)>>, <<Plain(<<T>>)>>, <<>>, <<>>))),
               Func("in/a", Fn("NewT", <<Plain(<<T>>)>>, <<>>, <<>>, <<>>)),
               Decl("in/a", "I", "interface", <<>>, <<Meth("N", <<>>)>>, <<>>),
               Decl("in/a", "ID", "typedef", <<>>, <<>>, <<Plain(<<>>)>>),
               Decl("in/a", "Hook", "struct", <<Field("F", [shape |-> "func", refs |-> <<>>]), Field("x", Plain(<<T>>))>>, <<>>, <<>>),
               Func("in/a", Fn("Draw", <<Plain(<<T>>)>>, <<Plain(<<T>>)>>, <<>>, <<>>)),
               In("h.pb.go", Func("in/v1.2", Fn("Paint", <<Plain(<<T>>), Plain(<<>>)>>, <<>>, <<>>, <<>>))),
               Hidden(Decl("in/b", "c", "const", <<>>, <<>>, <<Plain(<<>>)>>)),
               Hidden(In("g.go", Decl("in/a", "errGone", "error", <<>>, <<>>, <<>>))),
               Func("root", Fn("Run", <<Plain(<<T>>)>>, <<>>, <<Plain(<<T>>)>>, <<>>))}]
\* A struct has a method from a struct of another package, where its name may mean something
\* else, and a signature names a type that a body or a type argument names, too.
Outside == <<"in/b", "Outer">>
Promotions ==
    [edits |-> 2,
     fixed |-> {TheT(<<>>, <<>>), Decl("in/a", "Box", "struct", <<>>, <<>>, <<>>),
                Decl("in/b", "Outer", "struct", <<Embed(T)>>, <<>>, <<>>)},
     pool |-> {Func("in/a", Fn("Outer", <<>>, <<>>, <<>>, <<>>)),
               Decl("in/a", "Outer", "struct", <<>>, <<Fn("M", <<>>, <<>>, <<>>, <<>>)>>, <<>>),
               Func("in/b", Fn("F", <<>>, <<>>, <<>>, <<CallOn(Outside, "M")>>)),
               Func("in/b", Fn("G", <<Plain(<<T>>)>>, <<>>, <<>>, <<CallOn(Outside, "N")>>)),
               Func("in/b", Fn("G", <<[shape |-> "instance", refs |-> <<Box, T>>]>>, <<>>, <<>>, <<>>)),
               Func("in/b", Fn("G", <<>>, <<>>, <<Plain(<<T>>)>>, <<>>))}]
\* A type that is used where the reader keeps its name and where it loses it, one of the
\* root package beside a type of the same name, and one of a package it takes for a library.
S == <<"root", "S">>
Lost ==
    [edits |-> 2,
     fixed |-> {TheT(<<>>, <<>>), Decl("root", "S", "struct", <<>>, <<Meth("M", <<>>)>>, <<>>),
                Decl("lib", "L", "struct", <<>>, <<Meth("M", <<>>)>>, <<>>)},
     pool |-> {Func("in/b", Fn("F", <<Shaped("maps", <<T>>)>>, <<Plain(<<S>>)>>, <<>>, <<>>)),
               Func("in/b", Fn("F", <<Shaped("map", <<T, T>>)>>, <<Shaped("maps", <<S>>)>>, <<>>, <<CallOn(S, "M")>>)),
               Decl("in/b", "V", "var", <<>>, <<>>, <<Shaped("map", <<T, T>>)>>),
               Decl("in/b", "V", "var", <<>>, <<>>, <<Shaped("maps", <<T>>)>>),
               Decl("in/b", "V", "var", <<>>, <<>>, <<Shaped("maps", <<S>>)>>),
               Decl("in/b", "S", "struct", <<Field("f", Plain(<<S>>))>>, <<>>, <<>>),
               Func("in/b", Fn("K", <<>>, <<>>, <<Shaped("func", <<T>>), Shaped("maps", <<S>>)>>, <<>>)),
               Func("in/b", Fn("G", <<Plain(<<<<"lib", "L">>>>)>>, <<>>, <<>>, <<CallOn(<<"lib", "L">>, "M")>>))}]
\* in/v1 calls what in/a changes, in/v1.2 changes beside it, or is added or dropped; a typedef
\* has a method, a struct moves to another file.
TheE(calls) == Decl("in/v1.2", "E", "typedef", <<>>, <<Fn("M", <<>>, <<>>, <<>>, calls)>>, <<Plain(<<>>)>>)
Version == Decl("in/v1.2", "U", "struct", <<Field("t", Plain(<<T>>))>>, <<>>, <<>>)
ToG == Call(<<"in/a", "g">>)
Paths ==
    [edits |-> 3,
     fixed |-> {Func("in/a", Fn("h", <<>>, <<>>, <<>>, <<>>)), Decl("in/a", "T", "struct", <<>>, <<>>, <<>>),
                Func("in/v1", Fn("f", <<>>, <<>>, <<>>, <<ToG>>)), Func("in/b", Fn("f", <<>>, <<>>, <<>>, <<ToG>>))},
     pool |-> {Func("in/a", Fn("g", <<>>, <<>>, <<>>, <<>>)), Func("in/a", Fn("g", <<>>, <<>>, <<>>, <<Call(<<"in/a", "h">>)>>)),
               TheE(<<>>), TheE(<<ToG>>), Version, In("g.go", Version),
               Func("in/v1.2", Fn("W", <<>>, <<>>, <<Plain(<<T>>)>>, <<>>))}]
MCFamilies == {Types1, Types2, Graph, Members, Drawings, Promotions, Lost, Paths}
=============================================================================
