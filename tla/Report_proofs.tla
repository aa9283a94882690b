------------------------------ MODULE Report_proofs -----------------------------
(***************************************************************************)
(* Proofs about a review's report: what it shows for every family of       *)
(* programs (CodeReview), and what the daemon's cache of reports promises   *)
(* for every set of keys, States, builds and readers (ReportCache).         *)
(***************************************************************************)
EXTENDS ReportCache, CodeReview, FiniteSetTheorems, SequenceTheorems, WellFoundedInduction, TLAPS

(***************************************************************************)
(* Induction.                                                              *)
(***************************************************************************)
LEMMA LeastNumber ==
  ASSUME NEW T \in SUBSET Nat, T # {}
  PROVE  \E x \in T : \A y \in T : ~(y < x)
<1> DEFINE R == {ss \in Nat \X Nat : ss[1] < ss[2]}
<1>1. IsWellFoundedOn(R, Nat)
    BY NatLessThanWellFounded DEF OpToRel
<1>2. \E x \in T : \A y \in T : ~(<<y, x>> \in R)
  <2> HIDE DEF R
  <2> QED BY <1>1, WFMin, Zenon
<1> QED BY <1>2 DEF R

(* What holds of 0 and is kept by adding 1 holds of every number. *)
LEMMA SetInduction ==
  ASSUME NEW T, 0 \in T, \A n \in Nat : n \in T => n + 1 \in T
  PROVE  \A n \in Nat : n \in T
<1> SUFFICES ASSUME Nat \ T # {} PROVE FALSE
    OBVIOUS
<1>1. PICK x \in Nat \ T : \A y \in Nat \ T : ~(y < x)
    BY LeastNumber
<1>2. x # 0 /\ x - 1 \in Nat /\ x - 1 < x /\ (x - 1) + 1 = x
    BY <1>1
<1> QED BY <1>1, <1>2

(***************************************************************************)
(* Cycles between groups.                                                  *)
(***************************************************************************)
ClosedFor(r, a, C) == \A e \in r : e[1] = a \/ e[1] \in C => e[2] \in C
Ends(r) == {e[2] : e \in r}

(* To follow is to be in every set that has the next steps and is closed under steps. *)
LEMMA FollowsAll ==
  ASSUME NEW r, NEW a, NEW b
  PROVE  b \in Follows(r, a) <=> b \in Ends(r) /\ \A C \in SUBSET Ends(r) : ClosedFor(r, a, C) => b \in C
BY DEF Follows, ClosedFor, Ends

LEMMA ClosureAll ==
  ASSUME NEW r, NEW a, NEW b
  PROVE  <<a, b>> \in Closure(r) <=> (\E e \in r : e[1] = a) /\ b \in Follows(r, a)
BY DEF Closure

LEMMA FollowsStep ==
  ASSUME NEW r, NEW e \in r
  PROVE  e[2] \in Follows(r, e[1])
BY FollowsAll DEF ClosedFor, Ends

LEMMA FollowsTransitive ==
  ASSUME NEW r, NEW a, NEW b, NEW c, b \in Follows(r, a), c \in Follows(r, b)
  PROVE  c \in Follows(r, a)
<1> SUFFICES ASSUME NEW C \in SUBSET Ends(r), ClosedFor(r, a, C) PROVE c \in C
    BY FollowsAll
<1>1. b \in C
    BY FollowsAll
<1>2. ClosedFor(r, b, C)
    BY <1>1 DEF ClosedFor
<1> QED BY <1>2, FollowsAll

LEMMA ClosureTransitive ==
  ASSUME NEW r, NEW a, NEW b, NEW c, <<a, b>> \in Closure(r), <<b, c>> \in Closure(r)
  PROVE  <<a, c>> \in Closure(r)
BY ClosureAll, FollowsTransitive

(* Two members of a strongly connected component of r follow each other in s, if s has the *)
(* edges of r inside the component: no path between them leaves it.                        *)
LEMMA InnerPaths ==
  ASSUME NEW r, NEW s, NEW c, NEW x, NEW y,
         <<x, y>> \in Closure(r), <<y, x>> \in Closure(r), x \in c,
         \A z : z \in Follows(r, x) /\ x \in Follows(r, z) => z \in c,
         \A e \in r : e[1] \in c /\ e[2] \in c => e \in s
  PROVE  <<x, y>> \in Closure(s)
<1>1. y \in Follows(r, x) /\ x \in Follows(r, y) /\ x \in Follows(r, x)
    BY ClosureAll, FollowsTransitive
<1>2. ASSUME NEW C, ClosedFor(s, x, C) PROVE y \in C
  <2> DEFINE Beyond == {z \in Follows(r, x) : z \in C \/ x \notin Follows(r, z)}
  <2>1. Beyond \in SUBSET Ends(r)
      BY FollowsAll
  <2>2. ASSUME NEW e \in r, e[1] = x \/ e[1] \in Beyond PROVE e[2] \in Beyond
    <3>1. e[2] \in Follows(r, e[1]) /\ e[1] \in Follows(r, x)
        BY <1>1, <2>2, FollowsStep
    <3>2. e[2] \in Follows(r, x)
        BY <3>1, FollowsTransitive
    <3>3. CASE x \in Follows(r, e[2])
      <4>1. x \in Follows(r, e[1])
          BY <3>1, <3>3, FollowsTransitive
      <4>2. e \in s
          BY <3>1, <3>2, <3>3, <4>1
      <4>3. e[1] = x \/ e[1] \in C
          BY <2>2, <4>1
      <4> QED BY <1>2, <3>2, <4>2, <4>3 DEF ClosedFor
    <3> QED BY <3>2, <3>3
  <2>3. y \in Beyond
    <3>1. ClosedFor(r, x, Beyond)
        BY <2>2 DEF ClosedFor
    <3> HIDE DEF Beyond
    <3> QED BY <1>1, <2>1, <3>1, FollowsAll
  <2> QED BY <1>1, <2>3
<1>3. y \in Ends(s)
  <2>1. ClosedFor(s, x, Ends(s))
      BY DEF ClosedFor, Ends
  <2> QED BY <1>2, <2>1
<1>4. \E e \in s : e[1] = x
  <2>1. ClosedFor(s, x, {}) => y \in {}
      BY <1>2
  <2> QED BY <2>1 DEF ClosedFor
<1> QED BY <1>2, <1>3, <1>4, ClosureAll, FollowsAll

(* The component of a group that another one depends on mutually. *)
GroupsOf(side) == {GroupNames[p] : p \in side.pkgs}
Mutual(side, g, h) == LET r == Closure(Collapsed(side.edges)) IN <<g, h>> \in r /\ <<h, g>> \in r
Component(side, g) == {h \in GroupsOf(side) : h = g \/ Mutual(side, g, h)}

LEMMA CyclesAreComponents ==
  ASSUME NEW side
  PROVE  CyclesOf(side) = {Component(side, g) : g \in GroupsOf(side)} \ {{g} : g \in GroupsOf(side)}
<1> DEFINE C(g) == {h \in GroupsOf(side) : h = g \/ {<<g, h>>, <<h, g>>} \subseteq Closure(Collapsed(side.edges))}
<1>1. CyclesOf(side) = {C(g) : g \in GroupsOf(side)} \ {{g} : g \in GroupsOf(side)}
    BY DEF CyclesOf, GroupsOf
<1>2. \A g : C(g) = Component(side, g)
    BY DEF Component, Mutual
<1> HIDE DEF C
<1> QED BY <1>1, <1>2

LEMMA MutualPairs ==
  ASSUME NEW side
  PROVE  /\ \A e \in MutualGroups(side) : e = <<e[1], e[2]>> /\ e[1] # e[2] /\ Mutual(side, e[1], e[2])
         /\ \A g, h : g # h /\ Mutual(side, g, h) => <<g, h>> \in MutualGroups(side)
<1>1. \A e \in Closure(Collapsed(side.edges)) : e = <<e[1], e[2]>>
    BY DEF Closure
<1> QED BY <1>1 DEF MutualGroups, Mutual

WellPlaced(side) == \A e \in side.edges : e = <<e[1], e[2]>> /\ e[1] \in side.pkgs /\ e[2] \in side.pkgs

LEMMA CollapsedAll ==
  ASSUME NEW side
  PROVE  \A e : e \in Collapsed(side.edges) <=>
                  \E d \in side.edges : e = <<GroupNames[d[1]], GroupNames[d[2]]>> /\ GroupNames[d[1]] # GroupNames[d[2]]
BY DEF Collapsed

LEMMA MutualsAreGroups ==
  ASSUME NEW side, WellPlaced(side), NEW g, NEW h, Mutual(side, g, h)
  PROVE  g \in GroupsOf(side) /\ h \in GroupsOf(side)
<1> DEFINE r == Collapsed(side.edges)
<1>1. \A e \in r : e[1] \in GroupsOf(side)
    BY CollapsedAll DEF GroupsOf, WellPlaced
<1>2. (\E e \in r : e[1] = g) /\ (\E e \in r : e[1] = h)
  <2> HIDE DEF r
  <2> QED BY ClosureAll DEF Mutual, r
<1> QED BY <1>1, <1>2

(* A mutual dependency that only h has is in one cycle the report shows, with a new edge. *)
LEMMA NewMutualsAreShown ==
  ASSUME NEW h, NEW b, WellPlaced(h), WellPlaced(b), NEW e \in MutualGroups(h) \ MutualGroups(b)
  PROVE  \E c \in ReviewGroupCycles(h, b) : {e[1], e[2]} \subseteq c.groups /\ c.closing # {}
<1> DEFINE x == e[1]
           y == e[2]
           c == Component(h, x)
           r == Collapsed(h.edges)
           s == Collapsed(b.edges)
<1>1. x # y /\ Mutual(h, x, y) /\ Mutual(h, y, x) /\ ~Mutual(b, x, y) /\ e = <<x, y>>
    BY MutualPairs DEF Mutual
<1>2. x \in GroupsOf(h) /\ y \in GroupsOf(h)
    BY <1>1, MutualsAreGroups
<1>3. x \in c /\ y \in c
    BY <1>1, <1>2 DEF Component
<1>4. c \in CyclesOf(h)
    BY <1>1, <1>2, <1>3, CyclesAreComponents
<1>5. \A z : z \in c <=> z \in GroupsOf(h) /\ (z = x \/ Mutual(h, x, z))
    BY DEF Component
<1>6. ASSUME NEW k \in CyclesOf(b), c \subseteq k PROVE FALSE
  <2>1. PICK g : k = Component(b, g)
      BY <1>6, CyclesAreComponents
  <2>2. (x = g \/ Mutual(b, g, x)) /\ (y = g \/ Mutual(b, g, y))
      BY <1>3, <1>6, <2>1 DEF Component
  <2>3. Mutual(b, x, y)
      BY <1>1, <2>2, ClosureTransitive DEF Mutual
  <2> QED BY <1>1, <2>3
<1>7. CyclePkgEdges(h, c) \cap NewPackageEdges(h, b) # {}
  <2> SUFFICES ASSUME CyclePkgEdges(h, c) \cap NewPackageEdges(h, b) = {} PROVE FALSE
      OBVIOUS
  <2>1. ASSUME NEW f \in r, f[1] \in c, f[2] \in c PROVE f \in s
    <3>1. PICK d \in h.edges : f = <<GroupNames[d[1]], GroupNames[d[2]]>> /\ GroupNames[d[1]] # GroupNames[d[2]]
        BY CollapsedAll
    <3>2. d \in CyclePkgEdges(h, c)
        BY <2>1, <3>1 DEF CyclePkgEdges
    <3>3. d \in b.edges
        BY <3>2 DEF NewPackageEdges
    <3> QED BY <3>1, <3>3, CollapsedAll
  <2>2. \A z : z \in Follows(r, x) /\ x \in Follows(r, z) => z \in c
    <3> SUFFICES ASSUME NEW z, z \in Follows(r, x), x \in Follows(r, z) PROVE z \in c
        OBVIOUS
    <3>1. \E f \in r : f[1] = x
        BY <1>1, ClosureAll DEF Mutual
    <3>2. \E f \in r : f[1] = z
      <4>1. z \in Ends(r) /\ ClosedFor(r, z, {}) => x \in {}
          BY FollowsAll
      <4> QED BY <4>1, FollowsAll DEF ClosedFor
    <3>3. Mutual(h, x, z)
        BY <3>1, <3>2, ClosureAll DEF Mutual
    <3> QED BY <1>5, <3>3, MutualsAreGroups
  <2>3. <<x, y>> \in Closure(r) /\ <<y, x>> \in Closure(r)
      BY <1>1 DEF Mutual
  <2>4. <<x, y>> \in Closure(s)
    <3> HIDE DEF r, s, c, x, y
    <3> QED BY <1>3, <2>1, <2>2, <2>3, InnerPaths
  <2>5. <<y, x>> \in Closure(s)
    <3>1. \A z : z \in Follows(r, y) /\ y \in Follows(r, z) => z \in c
      <4> HIDE DEF r, c, x, y
      <4> QED BY <2>2, <2>3, ClosureAll, FollowsTransitive
    <3> HIDE DEF r, s, c, x, y
    <3> QED BY <1>3, <2>1, <2>3, <3>1, InnerPaths
  <2> QED BY <1>1, <2>4, <2>5 DEF Mutual
<1>8. \E d \in CycleDelta(c, CyclesOf(b)) : d.new \/ d.gained # {}
  <2>1. CASE BestOverlap(c, CyclesOf(b)) = {}
      BY <2>1 DEF CycleDelta
  <2>2. CASE BestOverlap(c, CyclesOf(b)) # {}
    <3>1. PICK k \in BestOverlap(c, CyclesOf(b)) : TRUE
        BY <2>2
    <3>2. c \ k # {}
        BY <1>6, <3>1 DEF BestOverlap
    <3> HIDE DEF c
    <3>3. [new |-> FALSE, gained |-> c \ k] \in CycleDelta(c, CyclesOf(b))
        BY <2>2, <3>1 DEF CycleDelta
    <3> QED BY <3>2, <3>3
  <2> QED BY <2>1, <2>2
<1> HIDE DEF c, x, y
<1>9. PICK d \in CycleDelta(c, CyclesOf(b)) : d.new \/ d.gained # {}
    BY <1>8
<1> DEFINE shown == [groups |-> c, new |-> d.new, gained |-> d.gained,
                     closing |-> CyclePkgEdges(h, c) \cap NewPackageEdges(h, b)]
<1>10. shown \in ReviewGroupCycles(h, b)
  <2> DEFINE Rows(k) == {[groups |-> k, new |-> x1.new, gained |-> x1.gained,
                          closing |-> CyclePkgEdges(h, k) \cap NewPackageEdges(h, b)] :
                           x1 \in {x1 \in CycleDelta(k, CyclesOf(b)) : x1.new \/ x1.gained # {}}}
  <2>1. ReviewGroupCycles(h, b) = UNION {Rows(k) : k \in CyclesOf(h)}
      BY DEF ReviewGroupCycles
  <2>2. shown \in Rows(c)
      BY <1>9
  <2> HIDE DEF Rows, shown
  <2> QED BY <1>4, <2>1, <2>2
<1>11. shown.groups = c /\ shown.closing # {}
    BY <1>7
<1> QED BY <1>3, <1>10, <1>11 DEF x, y

(***************************************************************************)
(* Sides.                                                                  *)
(***************************************************************************)
LEMMA NodePackages ==
  ASSUME NEW prog, NEW s \in Symbols(prog)
  PROVE  s.node[2][1] = s.pkg /\ s.pkg \in Packages(prog)
<1>1. \A d : NodeOf(d)[2][1] = d.pkg
    BY DEF NodeOf, IdOf
<1>2. \A d, m : MethodNode(MemberOf(d, m))[2][1] = d.pkg
    BY DEF MethodNode, MemberOf
<1>3. \E d \in prog : \/ s = [node |-> NodeOf(d), pkg |-> d.pkg, exported |-> d.exported]
                      \/ \E m \in ToSet(d.methods) :
                           s = [node |-> MethodNode(MemberOf(d, m)), pkg |-> d.pkg, exported |-> d.exported /\ m.exported]
    BY DEF Symbols, OfKind
<1> QED BY <1>1, <1>2, <1>3 DEF Packages

LEMMA SidesAreWellPlaced ==
  ASSUME NEW prog
  PROVE  WellPlaced(Side(Model(prog)))
<1> DEFINE m == Model(prog)
           nodes == {s.node : s \in Symbols(m.decls)}
           flow == {e \in Export(m).edges : e.kind \in FlowKinds /\ e.from \in nodes /\ e.to \in nodes}
           crossing == {e \in flow : e.from[2][1] # e.to[2][1]}
<1>1. Side(m).edges = {<<e.from[2][1], e.to[2][1]>> : e \in crossing} /\ Side(m).pkgs = Packages(m.decls)
  <2> HIDE DEF m
  <2> QED BY DEF Side
<1>2. m.decls = prog
    BY DEF Model
<1>3. \A n \in nodes : n[2][1] \in Packages(prog)
    BY <1>2, NodePackages
<1> HIDE DEF nodes
<1>4. \A e \in crossing : e.from[2][1] \in Packages(prog) /\ e.to[2][1] \in Packages(prog)
    BY <1>3
<1> QED BY <1>1, <1>2, <1>4 DEF WellPlaced

(* A mutual dependency of groups that the branch makes is reported, with a package edge that *)
(* the branch added (reviewGroupCycles, cycleDelta).                                         *)
THEOREM CyclesAreReportedHolds == ReviewSpec => []CyclesAreReported
<1>1. CyclesAreReported
    BY SidesAreWellPlaced, NewMutualsAreShown DEF CyclesAreReported
<1> QED BY <1>1, PTL

(***************************************************************************)
(* Programs.                                                               *)
(***************************************************************************)
Program(prog) ==
  /\ IsFiniteSet(prog)
  /\ NamesTellVisibility(prog)
  /\ \A d \in prog : WellFormed(d)
  /\ Compiles(prog)

Written == family.fixed \cup family.pool
ReviewIInv ==
  /\ family \in Families
  /\ ReviewTypeOK
  /\ Compiles(base) /\ Compiles(head)

(* What is edited compiles, and is made of the declarations of its family. *)
THEOREM ProgramsCompile == ReviewSpec => []ReviewIInv
<1>1. ReviewInit => ReviewIInv
    BY DEF ReviewInit, ReviewIInv, ReviewTypeOK
<1>2. ASSUME ReviewIInv, [ReviewNext]_reviewVars PROVE ReviewIInv'
  <2>1. ASSUME NEW prog, prog \subseteq Written, Save(prog) PROVE ReviewIInv'
      BY <1>2, <2>1 DEF ReviewIInv, ReviewTypeOK, Save, Compiles, Written
  <2>2. ASSUME NEW d \in family.pool, Declare(d) PROVE ReviewIInv'
      BY <1>2, <2>1, <2>2 DEF Declare, Written, ReviewIInv, ReviewTypeOK
  <2>3. ASSUME NEW d \in family.pool, Rewrite(d) PROVE ReviewIInv'
      BY <1>2, <2>1, <2>3 DEF Rewrite, Written, ReviewIInv, ReviewTypeOK
  <2>4. ASSUME NEW d \in family.pool, DropDecl(d) PROVE ReviewIInv'
      BY <1>2, <2>1, <2>4 DEF DropDecl, Written, ReviewIInv, ReviewTypeOK
  <2>5. CASE Commit
      BY <1>2, <2>5 DEF Commit, ReviewIInv, ReviewTypeOK
  <2>6. CASE UNCHANGED reviewVars
      BY <1>2, <2>6 DEF reviewVars, ReviewIInv, ReviewTypeOK
  <2> QED BY <1>2, <2>2, <2>3, <2>4, <2>5, <2>6 DEF ReviewNext
<1> QED BY <1>1, <1>2, PTL DEF ReviewSpec

LEMMA BothArePrograms ==
  ASSUME ReviewIInv
  PROVE  Program(base) /\ Program(head) /\ NamesTellVisibility(base \cup head)
<1>1. IsFiniteSet(Written) /\ NamesTellVisibility(Written) /\ \A d \in Written : WellFormed(d)
    BY FamilyAssumption DEF ReviewIInv, Written
<1>2. base \subseteq Written /\ head \subseteq Written
    BY DEF ReviewIInv, ReviewTypeOK, Written
<1>3. IsFiniteSet(base) /\ IsFiniteSet(head)
    BY <1>1, <1>2, FS_Subset
<1>4. \A p : p \subseteq Written => NamesTellVisibility(p)
    BY <1>1 DEF NamesTellVisibility
<1> QED BY <1>1, <1>2, <1>3, <1>4 DEF Program, ReviewIInv

LEMMA TheDeclaration ==
  ASSUME NEW prog, Compiles(prog), NEW d \in prog
  PROVE  /\ The(prog, IdOf(d)) = d
         /\ Decls(prog, IdOf(d)) = {d}
BY DEF The, Decls, Compiles

LEMMA Identifiers ==
  /\ \A d : Len(IdOf(d)) = 2 /\ IdOf(d)[1] = d.pkg /\ IdOf(d)[2] = d.name /\ SubSeq(IdOf(d), 1, 2) = IdOf(d)
  /\ \A d, m : /\ Len(MemberOf(d, m)) = 3 /\ SubSeq(MemberOf(d, m), 1, 2) = IdOf(d)
               /\ MemberOf(d, m)[1] = d.pkg /\ MemberOf(d, m)[2] = d.name /\ MemberOf(d, m)[3] = m.name
  /\ \A d, m : Front(MemberOf(d, m)) = IdOf(d)
<1>1. ASSUME NEW S, NEW s \in Seq(S), Len(s) >= 2 PROVE SubSeq(s, 1, 2) = <<s[1], s[2]>>
  <2>1. /\ SubSeq(s, 1, 2) \in Seq(S) /\ Len(SubSeq(s, 1, 2)) = 2
        /\ SubSeq(s, 1, 2)[1] = s[1] /\ SubSeq(s, 1, 2)[2] = s[2]
      BY <1>1
  <2> DEFINE t == SubSeq(s, 1, 2)
  <2>2. \A u \in Seq(S) : Len(u) = 2 => u = <<u[1], u[2]>>
      OBVIOUS
  <2> HIDE DEF t
  <2> QED BY <2>1, <2>2 DEF t
<1>2. \A a, b, c : SubSeq(<<a, b, c>>, 1, 2) = <<a, b>> /\ SubSeq(<<a, b>>, 1, 2) = <<a, b>>
  <2> SUFFICES ASSUME NEW a, NEW b, NEW c
               PROVE  SubSeq(<<a, b, c>>, 1, 2) = <<a, b>> /\ SubSeq(<<a, b>>, 1, 2) = <<a, b>>
      OBVIOUS
  <2>1. <<a, b, c>> \in Seq({a, b, c}) /\ <<a, b>> \in Seq({a, b, c})
      OBVIOUS
  <2>2. Len(<<a, b, c>>) >= 2 /\ Len(<<a, b>>) >= 2 /\ <<a, b, c>>[1] = a /\ <<a, b, c>>[2] = b /\ <<a, b>>[1] = a /\ <<a, b>>[2] = b
      OBVIOUS
  <2>3. SubSeq(<<a, b, c>>, 1, 2) = <<<<a, b, c>>[1], <<a, b, c>>[2]>>
      BY <1>1, <2>1, <2>2
  <2>4. SubSeq(<<a, b>>, 1, 2) = <<<<a, b>>[1], <<a, b>>[2]>>
      BY <1>1, <2>1, <2>2
  <2> QED BY <2>2, <2>3, <2>4
<1>4. \A d : IdOf(d) = <<d.pkg, d.name>>
    BY DEF IdOf
<1>5. \A d, m : MemberOf(d, m) = <<d.pkg, d.name, m.name>>
    BY DEF MemberOf
<1>6. ASSUME NEW d PROVE Len(IdOf(d)) = 2 /\ IdOf(d)[1] = d.pkg /\ IdOf(d)[2] = d.name
    BY <1>4
<1>7. ASSUME NEW d PROVE SubSeq(IdOf(d), 1, 2) = IdOf(d)
    BY <1>2, <1>4, Zenon
<1>8. ASSUME NEW d, NEW m
      PROVE  Len(MemberOf(d, m)) = 3 /\ MemberOf(d, m)[1] = d.pkg /\ MemberOf(d, m)[2] = d.name /\ MemberOf(d, m)[3] = m.name
    BY <1>5
<1>9. ASSUME NEW d, NEW m PROVE SubSeq(MemberOf(d, m), 1, 2) = IdOf(d) /\ Front(MemberOf(d, m)) = IdOf(d)
  <2>1. SubSeq(MemberOf(d, m), 1, 2) = IdOf(d)
      BY <1>2, <1>4, <1>5, Zenon
  <2>2. Front(MemberOf(d, m)) = SubSeq(MemberOf(d, m), 1, Len(MemberOf(d, m)) - 1)
      BY DEF Front
  <2>3. Len(MemberOf(d, m)) - 1 = 2
      BY <1>8
  <2> QED BY <2>1, <2>2, <2>3
<1> QED BY <1>6, <1>7, <1>8, <1>9

(***************************************************************************)
(* Calls.                                                                  *)
(***************************************************************************)
LEMMA CallersAll ==
  ASSUME NEW d, NEW c \in Callers(d)
  PROVE  \/ d.kind = "func" /\ c.id = IdOf(d) /\ c.m = d.methods[1]
         \/ d.kind = "struct" /\ c.m \in ToSet(d.methods) /\ c.id = MemberOf(d, c.m)
BY DEF Callers

LEMMA CallsAll ==
  ASSUME NEW prog
  PROVE  \A x : x \in Calls(prog) <=>
           \E d \in prog : \E c \in Callers(d) : \E k \in ToSet(c.m.calls) : \E t \in CallTargets(prog, k) :
             x = [from |-> c.id, to |-> t.to, via |-> t.via]
<1> DEFINE Of(x, from, m) == \E k \in ToSet(m.calls) : \E t \in CallTargets(prog, k) :
                               x = [from |-> from, to |-> t.to, via |-> t.via]
<1>1. \A x, from, m : x \in CallsOf(prog, from, m) <=> Of(x, from, m)
    BY DEF CallsOf
<1>2. \A x : x \in Calls(prog) <=>
        \/ \E d \in prog : d.kind = "func" /\ x \in CallsOf(prog, IdOf(d), d.methods[1])
        \/ \E d \in prog : d.kind = "struct" /\ \E m \in ToSet(d.methods) : x \in CallsOf(prog, MemberOf(d, m), m)
    BY DEF Calls, OfKind
<1>3. \A x, d : (\E c \in Callers(d) : Of(x, c.id, c.m)) <=>
        \/ d.kind = "func" /\ Of(x, IdOf(d), d.methods[1])
        \/ d.kind = "struct" /\ \E m \in ToSet(d.methods) : Of(x, MemberOf(d, m), m)
  <2> SUFFICES ASSUME NEW x, NEW d
               PROVE  (\E c \in Callers(d) : Of(x, c.id, c.m)) <=>
                        \/ d.kind = "func" /\ Of(x, IdOf(d), d.methods[1])
                        \/ d.kind = "struct" /\ \E m \in ToSet(d.methods) : Of(x, MemberOf(d, m), m)
      OBVIOUS
  <2> HIDE DEF Of
  <2>1. CASE d.kind = "func"
      BY <2>1 DEF Callers
  <2>2. CASE d.kind = "struct"
    <3>1. Callers(d) = {[id |-> MemberOf(d, m), m |-> m] : m \in ToSet(d.methods)}
        BY <2>2 DEF Callers
    <3>2. ASSUME NEW m \in ToSet(d.methods) PROVE \E c \in Callers(d) : c.id = MemberOf(d, m) /\ c.m = m
      <4> DEFINE c == [id |-> MemberOf(d, m), m |-> m]
      <4>1. c \in Callers(d)
          BY <3>1
      <4>2. c.id = MemberOf(d, m) /\ c.m = m
          OBVIOUS
      <4> QED BY <4>1, <4>2
    <3>3. \A c \in Callers(d) : c.m \in ToSet(d.methods) /\ c.id = MemberOf(d, c.m)
        BY <3>1
    <3> QED BY <2>2, <3>2, <3>3
  <2>3. CASE d.kind \notin {"func", "struct"}
      BY <2>3 DEF Callers
  <2> QED BY <2>1, <2>2, <2>3
<1> HIDE DEF Of
<1>4. \A x : x \in Calls(prog) <=> \E d \in prog : \E c \in Callers(d) : Of(x, c.id, c.m)
    BY <1>1, <1>2, <1>3
<1> QED BY <1>4 DEF Of

(* What a call names: the symbol, if there is a function or a method of a struct for it. *)
Target(k) == IF k.on = Nowhere THEN k.name ELSE Append(k.on, k.name)

LEMMA TypedMethods ==
  ASSUME NEW prog, Program(prog), NEW d \in prog
  PROVE  /\ d.methods \in Seq(MethodDef) /\ d.fields \in Seq(FieldDef) /\ d.types \in Seq(TypeRef)
         /\ ToSet(d.methods) \subseteq MethodDef
         /\ ToSet(d.fields) \subseteq FieldDef
         /\ ToSet(d.types) \subseteq TypeRef
         /\ d.kind = "func" => Len(d.methods) = 1 /\ d.methods[1] \in ToSet(d.methods)
         /\ \A m \in ToSet(d.methods) :
              /\ m.params \in Seq(TypeRef) /\ m.returns \in Seq(TypeRef) /\ m.uses \in Seq(TypeRef)
              /\ ToSet(m.calls) \subseteq CallSite
<1>1. d \in Declaration /\ d.kind = "func" => Len(d.methods) = 1
    BY DEF Program, WellFormed
<1>2. d.methods \in Seq(MethodDef) /\ d.fields \in Seq(FieldDef) /\ d.types \in Seq(TypeRef)
    BY DEF Program, WellFormed, Declaration
<1>3. \A S : \A s \in Seq(S) : ToSet(s) \subseteq S
    BY DEF ToSet
<1>4. \A m \in MethodDef : m.params \in Seq(TypeRef) /\ m.returns \in Seq(TypeRef) /\ m.uses \in Seq(TypeRef) /\ m.calls \in Seq(CallSite)
    BY DEF MethodDef
<1>5. d.kind = "func" => Len(d.methods) = 1 /\ d.methods[1] \in ToSet(d.methods)
    BY <1>2 DEF Program, WellFormed, ToSet
<1> QED BY <1>2, <1>3, <1>4, <1>5

LEMMA CallersAreTyped ==
  ASSUME NEW prog, Program(prog), NEW d \in prog, NEW c \in Callers(d)
  PROVE  c.m \in ToSet(d.methods) /\ c.m \in MethodDef /\ d.kind \in {"func", "struct"} /\ ToSet(c.m.calls) \subseteq CallSite
BY CallersAll, TypedMethods

LEMMA AppendedName ==
  ASSUME NEW on \in SymbolRef, NEW n
  PROVE  Append(on, n) = <<on[1], on[2], n>> /\ on = <<on[1], on[2]>> /\ on # Nowhere
<1>1. on = <<on[1], on[2]>>
    BY DEF SymbolRef
<1>2. \A a, b : Append(<<a, b>>, n) = <<a, b, n>>
  <2> SUFFICES ASSUME NEW a, NEW b PROVE Append(<<a, b>>, n) = <<a, b, n>>
      OBVIOUS
  <2> DEFINE s == Append(<<a, b>>, n)
  <2>1. <<a, b>> \in Seq({a, b, n}) /\ n \in {a, b, n} /\ Len(<<a, b>>) = 2
      OBVIOUS
  <2>2. s \in Seq({a, b, n}) /\ Len(s) = 3 /\ s[1] = <<a, b>>[1] /\ s[2] = <<a, b>>[2] /\ s[3] = n
      BY <2>1, AppendProperties
  <2>3. \A t \in Seq({a, b, n}) : Len(t) = 3 => t = <<t[1], t[2], t[3]>>
      OBVIOUS
  <2> HIDE DEF s
  <2>4. s = <<s[1], s[2], s[3]>>
      BY <2>2, <2>3
  <2>5. s[1] = a /\ s[2] = b /\ s[3] = n
      BY <2>2
  <2> QED BY <2>4, <2>5 DEF s
<1>3. \A a, b : <<a, b>> # <<>>
    OBVIOUS
<1> QED BY <1>1, <1>2, <1>3, Zenon DEF Nowhere

LEMMA OwnMethod ==
  ASSUME NEW prog, Program(prog), NEW e \in prog, NEW m \in ToSet(e.methods)
  PROVE  DeclaringType(prog, IdOf(e), m.name) = {IdOf(e)}
<1> DEFINE owners(types) == {t \in types : \E x \in ToSet(The(prog, t).methods) : x.name = m.name}
<1>1. The(prog, IdOf(e)) = e
    BY TheDeclaration DEF Program
<1>2. owners({IdOf(e)}) # {}
    BY <1>1
<1> QED BY <1>2 DEF DeclaringType

(* A call of a function or of a struct's own method is read as such. *)
LEMMA CallIsRead ==
  ASSUME NEW prog, Program(prog), NEW d \in prog, NEW c \in Callers(d), NEW k \in ToSet(c.m.calls),
         NEW e \in prog, NEW f \in Callers(e), f.id = Target(k)
  PROVE  \E x \in Calls(prog) : x.from = c.id /\ x.to = f.id
<1>1. k \in CallSite
    BY CallersAreTyped
<1>2. SUFFICES \E t \in CallTargets(prog, k) : t.to = f.id
  <2>1. PICK t \in CallTargets(prog, k) : t.to = f.id
      BY <1>2
  <2> DEFINE x == [from |-> c.id, to |-> t.to, via |-> t.via]
  <2>2. x \in Calls(prog)
      BY CallsAll
  <2>3. x.from = c.id /\ x.to = f.id
      BY <2>1
  <2> QED BY <2>2, <2>3
<1>3. CASE k.on = Nowhere
  <2>1. f.id = k.name
      BY <1>3 DEF Target
  <2>2. f.id[1] = e.pkg /\ e.pkg \in Packages(prog)
      BY CallersAll, Identifiers DEF Packages
  <2>3. [to |-> f.id, via |-> Nowhere] \in CallTargets(prog, k)
      BY <1>3, <2>1, <2>2 DEF CallTargets
  <2> DEFINE t == [to |-> f.id, via |-> Nowhere]
  <2>4. t.to = f.id
      OBVIOUS
  <2> QED BY <2>3, <2>4
<1>4. CASE k.on # Nowhere
  <2>1. k.on \in SymbolRef
      BY <1>1, <1>4 DEF CallSite
  <2>2. f.id = <<k.on[1], k.on[2], k.name>> /\ k.on = <<k.on[1], k.on[2]>>
      BY <1>4, <2>1, AppendedName DEF Target
  <2>3. Len(f.id) = 3
      BY <2>2
  <2>4. e.kind = "struct" /\ f.m \in ToSet(e.methods) /\ f.id = MemberOf(e, f.m)
      BY <2>3, CallersAll, Identifiers
  <2>5. k.on = IdOf(e) /\ k.name = f.m.name
      BY <2>2, <2>4 DEF MemberOf, IdOf
  <2>6. ~IsInterface(prog, k.on)
      BY <2>4, <2>5, TheDeclaration DEF Program, IsInterface
  <2>7. DeclaringType(prog, k.on, k.name) = {k.on}
      BY <2>4, <2>5, OwnMethod
  <2>8. [to |-> <<k.on[1], k.on[2], k.name>>, via |-> Nowhere] \in CallTargets(prog, k)
      BY <1>4, <2>6, <2>7 DEF CallTargets, SelectorTargets
  <2> DEFINE t == [to |-> f.id, via |-> Nowhere]
  <2>9. t \in CallTargets(prog, k) /\ t.to = f.id
      BY <2>2, <2>8
  <2> QED BY <2>9
<1> QED BY <1>3, <1>4

NodeFor(id) == IF Len(id) = 3 THEN MethodNode(id) ELSE <<"fn", id>>

LEMMA CallerNodes ==
  ASSUME NEW prog, Program(prog), NEW e \in prog, NEW f \in Callers(e)
  PROVE  /\ \E s \in Symbols(prog) : s.node = NodeFor(f.id) /\ s.pkg = e.pkg
         /\ NodeFor(f.id) \in CallTarget(prog, f.id)
         /\ NodeFor(f.id)[2] = f.id /\ f.id[1] = e.pkg
<1>1. Decls(prog, IdOf(e)) = {e}
    BY TheDeclaration DEF Program
<1>2. CASE e.kind = "func"
  <2>0. f.id = IdOf(e) /\ Len(f.id) = 2 /\ f.id[1] = e.pkg
      BY <1>2, CallersAll, Identifiers
  <2>1. NodeFor(f.id) = NodeOf(e) /\ NodeOf(e) = <<"fn", f.id>>
    <3>1. NodeFor(f.id) = <<"fn", f.id>>
        BY <2>0 DEF NodeFor
    <3>2. NodeOf(e) = <<"fn", f.id>>
        BY <1>2, <2>0 DEF NodeOf
    <3> QED BY <3>1, <3>2
  <2> DEFINE s == [node |-> NodeOf(e), pkg |-> e.pkg, exported |-> e.exported]
  <2>2. s \in Symbols(prog)
      BY <1>2 DEF Symbols, OfKind, Graphed
  <2>3. s.node = NodeFor(f.id) /\ s.pkg = e.pkg
      BY <2>1
  <2>4. NodeOf(e) \in Resolved(prog, f.id)
      BY <1>1, <1>2, <2>0 DEF Resolved, Graphed
  <2>5. NodeFor(f.id) \in CallTarget(prog, f.id)
      BY <2>1, <2>4 DEF CallTarget
  <2>6. NodeFor(f.id)[2] = f.id
      BY <2>1
  <2> QED BY <2>0, <2>2, <2>3, <2>5, <2>6
<1>3. CASE e.kind = "struct"
  <2>1. /\ f.m \in ToSet(e.methods) /\ f.id = MemberOf(e, f.m) /\ Len(f.id) = 3
        /\ NodeFor(f.id) = MethodNode(f.id) /\ MethodNode(f.id) = <<"method", f.id>>
        /\ f.id[3] = f.m.name /\ SubSeq(f.id, 1, 2) = IdOf(e) /\ f.id[1] = e.pkg
      BY <1>3, CallersAll, Identifiers DEF NodeFor, MethodNode
  <2> DEFINE s == [node |-> MethodNode(MemberOf(e, f.m)), pkg |-> e.pkg, exported |-> e.exported /\ f.m.exported]
  <2>2. s \in Symbols(prog)
    <3> DEFINE B(y) == {[node |-> MethodNode(MemberOf(y, m)), pkg |-> y.pkg, exported |-> y.exported /\ m.exported] :
                          m \in ToSet(y.methods)}
    <3>1. s \in B(e)
        BY <2>1
    <3>2. UNION {B(y) : y \in OfKind(prog, {"interface", "struct"})} \subseteq Symbols(prog)
        BY DEF Symbols
    <3>3. e \in OfKind(prog, {"interface", "struct"})
        BY <1>3 DEF OfKind
    <3> HIDE DEF B, s
    <3> QED BY <3>1, <3>2, <3>3
  <2>3. s.node = NodeFor(f.id) /\ s.pkg = e.pkg
      BY <2>1
  <2>4. HasMember(prog, f.id)
      BY <1>1, <1>3, <2>1 DEF HasMember
  <2>5. NodeFor(f.id) \in CallTarget(prog, f.id)
      BY <2>1, <2>4 DEF CallTarget, Resolved
  <2> QED BY <2>1, <2>2, <2>3, <2>5
<1> QED BY <1>2, <1>3, CallersAll

(* ... and drawn as such. *)
LEMMA CallIsDrawn ==
  ASSUME NEW prog, Program(prog), NEW d \in prog, NEW c \in Callers(d), NEW e \in prog, NEW f \in Callers(e),
         NEW x \in Calls(prog), x.from = c.id, x.to = f.id, c.id # f.id
  PROVE  Edge(NodeFor(c.id), NodeFor(f.id), "calls") \in Export(Model(prog)).edges
<1>1. NodeFor(c.id) # NodeFor(f.id)
    BY CallerNodes
<1>2. Edge(NodeFor(c.id), NodeFor(f.id), "calls") \in Joined({NodeFor(c.id)}, CallTarget(prog, f.id), "calls")
  <2> DEFINE p == <<NodeFor(c.id), NodeFor(f.id)>>
  <2>1. p \in {NodeFor(c.id)} \X CallTarget(prog, f.id) /\ p[1] # p[2]
      BY <1>1, CallerNodes
  <2> QED BY <2>1 DEF Joined
<1>3. Edge(NodeFor(c.id), NodeFor(f.id), "calls") \in CallEdges(prog, Calls(prog))
    BY <1>2 DEF CallEdges, NodeFor
<1>4. Model(prog).calls = Calls(prog) /\ Model(prog).decls = prog
    BY DEF Model
<1>5. Export(Model(prog)).edges = (Contents(prog) \cup Files(prog)) \cup ImplementsEdges(prog, Model(prog).impls)
        \cup SymbolEdges(prog, Model(prog).deps) \cup PackageEdges(prog, Model(prog).deps) \cup CallEdges(prog, Model(prog).calls)
    BY <1>4 DEF Export
<1> QED BY <1>3, <1>4, <1>5

(***************************************************************************)
(* Sequences in one.                                                       *)
(***************************************************************************)
IsSeq(s) == s \in Seq(ToSet(s))

LEMMA Sequences ==
  /\ \A S : \A s \in Seq(S) : IsSeq(s) /\ ToSet(s) \subseteq S
  /\ \A S : \A s : IsSeq(s) /\ ToSet(s) \subseteq S => s \in Seq(S)
  /\ \A s : IsSeq(s) => Len(s) \in Nat /\ DOMAIN s = 1 .. Len(s) /\ ToSet(s) = {s[i] : i \in 1 .. Len(s)}
<1>1. ASSUME NEW S, NEW s \in Seq(S) PROVE ToSet(s) = {s[i] : i \in 1 .. Len(s)} /\ IsSeq(s) /\ ToSet(s) \subseteq S
  <2>1. ToSet(s) = {s[i] : i \in 1 .. Len(s)}
      BY DEF ToSet
  <2>2. Len(s) \in Nat /\ s = [i \in 1 .. Len(s) |-> s[i]] /\ \A i \in 1 .. Len(s) : s[i] \in S
      OBVIOUS
  <2>3. \A T : (\A i \in 1 .. Len(s) : s[i] \in T) => [i \in 1 .. Len(s) |-> s[i]] \in Seq(T)
      BY <2>2
  <2>4. s \in Seq(ToSet(s))
    <3>1. \A i \in 1 .. Len(s) : s[i] \in ToSet(s)
        BY <2>1
    <3> QED BY <2>2, <2>3, <3>1
  <2> QED BY <2>1, <2>2, <2>4 DEF IsSeq
<1>2. ASSUME NEW S, NEW s, IsSeq(s), ToSet(s) \subseteq S PROVE s \in Seq(S)
  <2>1. s \in Seq(ToSet(s))
      BY <1>2 DEF IsSeq
  <2>2. Len(s) \in Nat /\ s = [i \in 1 .. Len(s) |-> s[i]] /\ \A i \in 1 .. Len(s) : s[i] \in ToSet(s)
      BY <2>1
  <2> QED BY <1>2, <2>2
<1>3. ASSUME NEW s, IsSeq(s) PROVE Len(s) \in Nat /\ DOMAIN s = 1 .. Len(s) /\ ToSet(s) = {s[i] : i \in 1 .. Len(s)}
  <2>1. s \in Seq(ToSet(s))
      BY <1>3 DEF IsSeq
  <2> QED BY <1>1, <2>1
<1> QED BY <1>1, <1>2, <1>3

LEMMA BothAll ==
  ASSUME NEW s, NEW t, IsSeq(s), IsSeq(t)
  PROVE  IsSeq(s \o t) /\ ToSet(s \o t) = ToSet(s) \cup ToSet(t)
<1> DEFINE S == ToSet(s) \cup ToSet(t)
<1>0. ToSet(s) \subseteq S /\ ToSet(t) \subseteq S
    OBVIOUS
<1> HIDE DEF S
<1>1. s \in Seq(S) /\ t \in Seq(S)
    BY <1>0, Sequences
<1>2. ToSet(s \o t) = {(s \o t)[i] : i \in 1 .. Len(s) + Len(t)} /\ ToSet(s) = {s[i] : i \in 1 .. Len(s)}
      /\ ToSet(t) = {t[i] : i \in 1 .. Len(t)}
    BY <1>1 DEF ToSet
<1>3. \A i \in 1 .. Len(s) + Len(t) : (s \o t)[i] = IF i <= Len(s) THEN s[i] ELSE t[i - Len(s)]
    BY <1>1
<1>4. \A i \in 1 .. Len(t) : Len(s) + i \in 1 .. Len(s) + Len(t) /\ (s \o t)[Len(s) + i] = t[i]
    BY <1>1, <1>3
<1>5. \A i \in 1 .. Len(s) : i \in 1 .. Len(s) + Len(t) /\ (s \o t)[i] = s[i]
    BY <1>1, <1>3
<1>6. \A i \in 1 .. Len(s) + Len(t) : IF i <= Len(s) THEN i \in 1 .. Len(s) ELSE i - Len(s) \in 1 .. Len(t)
  <2>1. Len(s) \in Nat /\ Len(t) \in Nat
      BY <1>1
  <2>2. ASSUME NEW i \in 1 .. Len(s) + Len(t) PROVE IF i <= Len(s) THEN i \in 1 .. Len(s) ELSE i - Len(s) \in 1 .. Len(t)
    <3>1. CASE i <= Len(s)
        BY <2>1, <3>1
    <3>2. CASE ~(i <= Len(s))
        BY <2>1, <3>2
    <3> QED BY <3>1, <3>2
  <2> QED BY <2>2
<1>7. ASSUME NEW x \in ToSet(s \o t) PROVE x \in ToSet(s) \cup ToSet(t)
  <2>1. PICK i \in 1 .. Len(s) + Len(t) : x = (s \o t)[i]
      BY <1>2
  <2> QED BY <1>2, <1>3, <1>6, <2>1
<1>8. ASSUME NEW x \in ToSet(s) PROVE x \in ToSet(s \o t)
    BY <1>2, <1>5
<1>9. ASSUME NEW x \in ToSet(t) PROVE x \in ToSet(s \o t)
    BY <1>2, <1>4
<1>10. IsSeq(s \o t)
  <2>1. s \o t \in Seq(S)
      BY <1>1
  <2> QED BY <2>1, Sequences
<1> QED BY <1>7, <1>8, <1>9, <1>10

FlatTo(seqs, m, g) == g = [i \in 1 .. m |-> IF i = 1 THEN seqs[i] ELSE g[i - 1] \o seqs[i]]

LEMMA FlatExists ==
  ASSUME NEW seqs
  PROVE  \A m \in Nat : \E g : FlatTo(seqs, m, g)
<1> DEFINE T == {m \in Nat : \E g : FlatTo(seqs, m, g)}
<1>1. 0 \in T
  <2> DEFINE g == [i \in 1 .. 0 |-> i]
  <2>1. FlatTo(seqs, 0, g)
      BY DEF FlatTo
  <2> QED BY <2>1
<1>2. ASSUME NEW m \in Nat, m \in T PROVE m + 1 \in T
  <2>1. PICK old : FlatTo(seqs, m, old)
      BY <1>2
  <2> DEFINE next == IF m + 1 = 1 THEN seqs[m + 1] ELSE old[m] \o seqs[m + 1]
             g == [i \in 1 .. m + 1 |-> IF i = m + 1 THEN next ELSE old[i]]
  <2>2. \A i \in 1 .. m : old[i] = IF i = 1 THEN seqs[i] ELSE old[i - 1] \o seqs[i]
      BY <2>1 DEF FlatTo
  <2>3. \A i \in 1 .. m + 1 : g[i] = IF i = 1 THEN seqs[i] ELSE g[i - 1] \o seqs[i]
    <3> SUFFICES ASSUME NEW i \in 1 .. m + 1 PROVE g[i] = IF i = 1 THEN seqs[i] ELSE g[i - 1] \o seqs[i]
        OBVIOUS
    <3>1. CASE i = m + 1
      <4>1. i # 1 => i - 1 \in 1 .. m + 1 /\ i - 1 # m + 1 /\ i - 1 = m
          BY <3>1
      <4> QED BY <3>1, <4>1
    <3>2. CASE i \in 1 .. m
        BY <2>2, <3>2
    <3> QED BY <3>1, <3>2
  <2>4. FlatTo(seqs, m + 1, g)
    <3>1. g = [i \in 1 .. m + 1 |-> g[i]]
        OBVIOUS
    <3> HIDE DEF g
    <3> QED BY <2>3, <3>1 DEF FlatTo
  <2> QED BY <2>4
<1> HIDE DEF T
<1>3. \A m \in Nat : m \in T
    BY <1>1, <1>2, SetInduction
<1> QED BY <1>3 DEF T

LEMMA FlattenAll ==
  ASSUME NEW S, NEW seqs \in Seq(Seq(S))
  PROVE  /\ FlattenSeq(seqs) \in Seq(S)
         /\ \A x : x \in ToSet(FlattenSeq(seqs)) <=> \E i \in DOMAIN seqs : x \in ToSet(seqs[i])
<1>1. CASE Len(seqs) = 0
  <2>1. FlattenSeq(seqs) = seqs /\ seqs = <<>>
      BY <1>1 DEF FlattenSeq
  <2> QED BY <2>1 DEF ToSet
<1>2. CASE Len(seqs) # 0
  <2> DEFINE n == Len(seqs)
             g == CHOOSE g : FlatTo(seqs, n, g)
             T == {m \in Nat : m \in 1 .. n => /\ g[m] \in Seq(S)
                                               /\ \A x : x \in ToSet(g[m]) <=> \E i \in 1 .. m : x \in ToSet(seqs[i])}
  <2>1. n \in Nat \ {0} /\ DOMAIN seqs = 1 .. n /\ \A i \in 1 .. n : seqs[i] \in Seq(S)
      BY <1>2
  <2>2. FlattenSeq(seqs) = g[n]
      BY <1>2 DEF FlattenSeq, FlatTo
  <2>3. FlatTo(seqs, n, g)
      BY <2>1, FlatExists
  <2>4. \A i \in 1 .. n : g[i] = IF i = 1 THEN seqs[i] ELSE g[i - 1] \o seqs[i]
    <3> HIDE DEF g, n
    <3> QED BY <2>3 DEF FlatTo
  <2> HIDE DEF g, n
  <2>5. 0 \in T
      OBVIOUS
  <2>6. ASSUME NEW m \in Nat, m \in T PROVE m + 1 \in T
    <3> SUFFICES ASSUME m + 1 \in 1 .. n
                 PROVE  /\ g[m + 1] \in Seq(S)
                        /\ \A x : x \in ToSet(g[m + 1]) <=> \E i \in 1 .. m + 1 : x \in ToSet(seqs[i])
        OBVIOUS
    <3>1. CASE m = 0
      <4>1. g[1] = seqs[1] /\ seqs[1] \in Seq(S)
          BY <2>1, <2>4
      <4>2. \A i \in 1 .. 1 : i = 1
          OBVIOUS
      <4> QED BY <3>1, <4>1, <4>2
    <3>2. CASE m # 0
      <4>0. m \in 1 .. n /\ m + 1 # 1 /\ (m + 1) - 1 = m
          BY <2>1, <3>2
      <4>1. g[m + 1] = g[m] \o seqs[m + 1] /\ g[m] \in Seq(S) /\ seqs[m + 1] \in Seq(S)
        <5>1. g[m + 1] = g[m] \o seqs[m + 1]
            BY <2>4, <4>0
        <5>2. g[m] \in Seq(S)
            BY <2>6, <4>0
        <5> QED BY <2>1, <5>1, <5>2
      <4>2. g[m + 1] \in Seq(S) /\ \A x : x \in ToSet(g[m + 1]) <=> x \in ToSet(g[m]) \/ x \in ToSet(seqs[m + 1])
        <5>1. IsSeq(g[m]) /\ IsSeq(seqs[m + 1]) /\ g[m] \o seqs[m + 1] \in Seq(S)
            BY <4>1, Sequences
        <5>2. ToSet(g[m] \o seqs[m + 1]) = ToSet(g[m]) \cup ToSet(seqs[m + 1])
            BY <5>1, BothAll
        <5> QED BY <4>1, <5>1, <5>2
      <4>3. \A i : i \in 1 .. m + 1 <=> i \in 1 .. m \/ i = m + 1
          OBVIOUS
      <4>4. \A x : x \in ToSet(g[m]) <=> \E i \in 1 .. m : x \in ToSet(seqs[i])
          BY <2>6, <4>0
      <4> HIDE DEF T
      <4> QED BY <4>1, <4>2, <4>3, <4>4
    <3> QED BY <3>1, <3>2
  <2> HIDE DEF T
  <2>7. n \in T
      BY <2>1, <2>5, <2>6, SetInduction
  <2>8. n \in 1 .. n
      BY <2>1
  <2>9. /\ g[n] \in Seq(S)
        /\ \A x : x \in ToSet(g[n]) <=> \E i \in 1 .. n : x \in ToSet(seqs[i])
      BY <2>7, <2>8 DEF T
  <2> QED BY <2>1, <2>2, <2>9
<1> QED BY <1>1, <1>2

LEMMA SequencesOfSequences ==
  ASSUME NEW seqs, IsSeq(seqs), \A i \in DOMAIN seqs : IsSeq(seqs[i])
  PROVE  \E S : seqs \in Seq(Seq(S))
<1> DEFINE S == UNION {ToSet(seqs[i]) : i \in DOMAIN seqs}
<1>1. ToSet(seqs) \subseteq Seq(S)
  <2>1. \A i \in DOMAIN seqs : ToSet(seqs[i]) \subseteq S
      OBVIOUS
  <2> HIDE DEF S
  <2>2. \A i \in DOMAIN seqs : seqs[i] \in Seq(S)
      BY <2>1, Sequences
  <2> QED BY <2>2 DEF ToSet
<1> HIDE DEF S
<1>2. seqs \in Seq(Seq(S))
    BY <1>1, Sequences
<1> QED BY <1>2

LEMMA FlatAll ==
  ASSUME NEW seqs, IsSeq(seqs), \A i \in DOMAIN seqs : IsSeq(seqs[i])
  PROVE  /\ IsSeq(FlattenSeq(seqs))
         /\ \A x : x \in ToSet(FlattenSeq(seqs)) <=> \E i \in DOMAIN seqs : x \in ToSet(seqs[i])
<1>1. PICK S : seqs \in Seq(Seq(S))
    BY SequencesOfSequences
<1> QED BY <1>1, FlattenAll, Sequences

LEMMA Mapped ==
  ASSUME NEW n \in Nat, NEW g, g = [i \in 1 .. n |-> g[i]]
  PROVE  IsSeq(g) /\ Len(g) = n /\ ToSet(g) = {g[i] : i \in 1 .. n}
<1> DEFINE S == {g[i] : i \in 1 .. n}
<1>1. \A i \in 1 .. n : g[i] \in S
    OBVIOUS
<1> HIDE DEF S
<1>2. [i \in 1 .. n |-> g[i]] \in Seq(S)
    BY <1>1
<1>3. g \in Seq(S)
    BY <1>2
<1>4. DOMAIN g = 1 .. n
    OBVIOUS
<1>5. Len(g) = n
    BY <1>3, <1>4
<1> QED BY <1>3, <1>5, Sequences

(***************************************************************************)
(* Dependencies.                                                           *)
(***************************************************************************)
LEMMA RefsAll ==
  ASSUME NEW pkg, NEW t \in TypeRef
  PROVE  /\ IsSeq(SymbolRefs(pkg, t)) /\ IsSeq(t.refs) /\ ToSet(t.refs) \subseteq SymbolRef
         /\ t.shape \notin {"maps", "chan", "func"} =>
              /\ DOMAIN SymbolRefs(pkg, t) = DOMAIN t.refs
              /\ \A i \in DOMAIN t.refs : SymbolRefs(pkg, t)[i] = Localised(pkg, t.refs[i])
         /\ \A r \in ToSet(SymbolRefs(pkg, t)) : r = <<pkg, Loose>> \/ \E q \in ToSet(t.refs) : r = Localised(pkg, q)
         /\ IsSeq(Loaded(t)) /\ ToSet(Loaded(t)) \subseteq ToSet(t.refs)
<1>1. t.refs \in Seq(SymbolRef) /\ IsSeq(t.refs) /\ ToSet(t.refs) \subseteq SymbolRef
  <2>1. t.refs \in Seq(SymbolRef)
      BY DEF TypeRef
  <2> QED BY <2>1, Sequences
<1>2. <<<<pkg, Loose>>>> \in Seq({<<pkg, Loose>>}) /\ ToSet(<<<<pkg, Loose>>>>) = {<<pkg, Loose>>} /\ IsSeq(<<<<pkg, Loose>>>>)
  <2>1. <<<<pkg, Loose>>>> \in Seq({<<pkg, Loose>>}) /\ ToSet(<<<<pkg, Loose>>>>) = {<<pkg, Loose>>}
      BY DEF ToSet
  <2> QED BY <2>1, Sequences
<1>3. IsSeq(<<>>) /\ ToSet(<<>>) = {}
    BY DEF IsSeq, ToSet
<1> DEFINE refs == Converted(t).refs
           named == [i \in DOMAIN refs |-> Localised(pkg, refs[i])]
<1>4. IsSeq(refs) /\ ToSet(refs) \subseteq ToSet(t.refs) /\ (t.shape # "maps" => refs = t.refs)
  <2>1. CASE t.shape = "maps"
    <3>1. "refs" \in DOMAIN t
        BY DEF TypeRef
    <3>2. refs = <<>>
        BY <2>1, <3>1 DEF Converted
    <3> QED BY <1>3, <2>1, <3>2
  <2>2. CASE t.shape # "maps"
      BY <1>1, <2>2 DEF Converted
  <2> QED BY <2>1, <2>2
<1>5. t.shape \notin {"chan", "func"} => SymbolRefs(pkg, t) = named
    BY DEF SymbolRefs
<1>6. t.shape \in {"chan", "func"} => SymbolRefs(pkg, t) = <<<<pkg, Loose>>>>
    BY DEF SymbolRefs
<1> HIDE DEF refs
<1>7. Len(refs) \in Nat /\ DOMAIN refs = 1 .. Len(refs) /\ ToSet(refs) = {refs[i] : i \in 1 .. Len(refs)}
    BY <1>4, Sequences
<1>8. IsSeq(named) /\ ToSet(named) = {named[i] : i \in 1 .. Len(refs)} /\ DOMAIN named = DOMAIN refs
    BY <1>7, Mapped
<1>9. \A i \in DOMAIN refs : named[i] = Localised(pkg, refs[i])
    OBVIOUS
<1> HIDE DEF named
<1>10. \A r \in ToSet(named) : \E q \in ToSet(t.refs) : r = Localised(pkg, q)
    BY <1>4, <1>7, <1>8, <1>9
<1>11. IsSeq(Loaded(t)) /\ ToSet(Loaded(t)) \subseteq ToSet(t.refs)
    BY <1>1, <1>3 DEF Loaded
<1>12. CASE t.shape \in {"chan", "func"}
    BY <1>1, <1>2, <1>6, <1>11, <1>12
<1>13. CASE t.shape \notin {"chan", "func"}
    BY <1>1, <1>4, <1>5, <1>8, <1>9, <1>10, <1>11, <1>13
<1> QED BY <1>12, <1>13

(* A name of another package than the root's stays as it is. *)
LEMMA NamesStay ==
  \A pkg, r : r[1] # Root => Localised(pkg, r) = r
BY DEF Localised

LEMMA NamesInside ==
  ASSUME NEW pkg, NEW t \in TypeRef, t.shape \notin {"maps", "chan", "func"}, NEW r \in ToSet(t.refs), r[1] # Root
  PROVE  r \in ToSet(SymbolRefs(pkg, t))
<1>1. t.refs \in Seq(SymbolRef)
    BY DEF TypeRef
<1>2. PICK i \in DOMAIN t.refs : r = t.refs[i]
    BY <1>1, Sequences
<1>3. i \in DOMAIN SymbolRefs(pkg, t) /\ SymbolRefs(pkg, t)[i] = r
    BY <1>2, RefsAll, NamesStay
<1>4. IsSeq(SymbolRefs(pkg, t))
    BY RefsAll
<1> QED BY <1>3, <1>4, Sequences

LEMMA DepsOnAll ==
  \A from, kind, exp : \A types \in Seq(TypeRef) :
    /\ IsSeq(DepsOn(from, types, kind, exp))
    /\ \A x : x \in ToSet(DepsOn(from, types, kind, exp)) <=>
         \E t \in ToSet(types) : \E r \in ToSet(SymbolRefs(from[1], t)) : x = Dep(from, r, kind, exp)
<1> SUFFICES ASSUME NEW from, NEW kind, NEW exp, NEW types \in Seq(TypeRef)
             PROVE  /\ IsSeq(DepsOn(from, types, kind, exp))
                    /\ \A x : x \in ToSet(DepsOn(from, types, kind, exp)) <=>
                         \E t \in ToSet(types) : \E r \in ToSet(SymbolRefs(from[1], t)) : x = Dep(from, r, kind, exp)
    OBVIOUS
<1> DEFINE seqs == [i \in DOMAIN types |-> SymbolRefs(from[1], types[i])]
           refs == FlattenSeq(seqs)
           deps == [i \in DOMAIN refs |-> Dep(from, refs[i], kind, exp)]
<1>1. DepsOn(from, types, kind, exp) = deps
    BY DEF DepsOn
<1>2. IsSeq(types) /\ Len(types) \in Nat /\ DOMAIN types = 1 .. Len(types) /\ ToSet(types) \subseteq TypeRef
      /\ ToSet(types) = {types[i] : i \in 1 .. Len(types)}
    BY Sequences
<1>3. \A i \in 1 .. Len(types) : types[i] \in TypeRef
    BY <1>2
<1>4. IsSeq(seqs) /\ DOMAIN seqs = 1 .. Len(types)
    BY <1>2, Mapped
<1>5. \A i \in DOMAIN seqs : seqs[i] = SymbolRefs(from[1], types[i]) /\ IsSeq(seqs[i])
    BY <1>2, <1>3, <1>4, RefsAll
<1> HIDE DEF seqs
<1>6. IsSeq(refs) /\ \A x : x \in ToSet(refs) <=> \E i \in DOMAIN seqs : x \in ToSet(seqs[i])
    BY <1>4, <1>5, FlatAll
<1>7. \A x : x \in ToSet(refs) <=> \E t \in ToSet(types) : x \in ToSet(SymbolRefs(from[1], t))
    BY <1>2, <1>4, <1>5, <1>6
<1> HIDE DEF refs
<1>8. Len(refs) \in Nat /\ DOMAIN refs = 1 .. Len(refs) /\ ToSet(refs) = {refs[i] : i \in 1 .. Len(refs)}
    BY <1>6, Sequences
<1>9. IsSeq(deps) /\ ToSet(deps) = {deps[i] : i \in 1 .. Len(refs)}
    BY <1>8, Mapped
<1>10. \A i \in 1 .. Len(refs) : deps[i] = Dep(from, refs[i], kind, exp)
    BY <1>8
<1> HIDE DEF deps
<1>11. \A x : x \in ToSet(deps) <=> \E r \in ToSet(refs) : x = Dep(from, r, kind, exp)
    BY <1>8, <1>9, <1>10
<1> QED BY <1>1, <1>7, <1>9, <1>11

LEMMA MethodDepsAll ==
  \A from, m, exp : m.params \in Seq(TypeRef) /\ m.returns \in Seq(TypeRef) =>
    /\ IsSeq(MethodDeps(from, m, exp))
    /\ \A x : x \in ToSet(MethodDeps(from, m, exp)) <=>
         \/ \E t \in ToSet(m.params) : \E r \in ToSet(SymbolRefs(from[1], t)) : x = Dep(from, r, "uses", exp)
         \/ \E t \in ToSet(m.returns) : \E r \in ToSet(SymbolRefs(from[1], t)) : x = Dep(from, r, "returns", exp)
<1> TAKE from, m, exp
<1> HAVE m.params \in Seq(TypeRef) /\ m.returns \in Seq(TypeRef)
<1> DEFINE p == DepsOn(from, m.params, "uses", exp)
           q == DepsOn(from, m.returns, "returns", exp)
<1>1. MethodDeps(from, m, exp) = p \o q
    BY DEF MethodDeps
<1>2. IsSeq(p) /\ \A x : x \in ToSet(p) <=> \E t \in ToSet(m.params) : \E r \in ToSet(SymbolRefs(from[1], t)) : x = Dep(from, r, "uses", exp)
    BY DepsOnAll
<1>3. IsSeq(q) /\ \A x : x \in ToSet(q) <=> \E t \in ToSet(m.returns) : \E r \in ToSet(SymbolRefs(from[1], t)) : x = Dep(from, r, "returns", exp)
    BY DepsOnAll
<1> HIDE DEF p, q
<1> QED BY <1>1, <1>2, <1>3, BothAll

(* What a declaration says it depends on. *)
FieldDep(d, x) ==
  /\ d.kind \in {"interface", "struct"}
  /\ \E f \in ToSet(d.fields) : \E r \in ToSet(SymbolRefs(d.pkg, f.type)) : x = Dep(IdOf(d), r, "uses", d.exported /\ f.exported)
MethodDep(d, x) ==
  /\ d.kind \in {"interface", "struct"}
  /\ \E m \in ToSet(d.methods) : \E from \in {IdOf(d), MemberOf(d, m)} : x \in ToSet(MethodDeps(from, m, d.exported /\ m.exported))
FuncDep(d, x) == d.kind = "func" /\ x \in ToSet(MethodDeps(IdOf(d), d.methods[1], d.exported))
ValueDep(d, x) ==
  d.kind \in {"const", "var"} /\ (\A t \in ToSet(d.types) : ~Unnamed(t)) /\ x \in ToSet(DepsOn(IdOf(d), d.types, "uses", d.exported))

LEMMA CandidatesAll ==
  ASSUME NEW prog, Program(prog), NEW d \in prog
  PROVE  /\ IsSeq(Candidates(d))
         /\ \A x : x \in ToSet(Candidates(d)) <=> FieldDep(d, x) \/ MethodDep(d, x) \/ FuncDep(d, x) \/ ValueDep(d, x)
<1>1. d.methods \in Seq(MethodDef) /\ d.fields \in Seq(FieldDef) /\ d.types \in Seq(TypeRef)
    BY TypedMethods
<1>2. /\ Len(d.methods) \in Nat /\ DOMAIN d.methods = 1 .. Len(d.methods) /\ ToSet(d.methods) = {d.methods[i] : i \in 1 .. Len(d.methods)}
      /\ Len(d.fields) \in Nat /\ DOMAIN d.fields = 1 .. Len(d.fields) /\ ToSet(d.fields) = {d.fields[i] : i \in 1 .. Len(d.fields)}
    BY <1>1, Sequences
<1>3. IdOf(d)[1] = d.pkg /\ \A m : MemberOf(d, m)[1] = d.pkg
    BY Identifiers
<1>4. CASE d.kind \in {"interface", "struct"}
  <2> DEFINE F(i) == DepsOn(IdOf(d), <<d.fields[i].type>>, "uses", d.exported /\ d.fields[i].exported)
             Of(m, from) == MethodDeps(from, m, d.exported /\ m.exported)
             M(m) == Of(m, IdOf(d)) \o Of(m, MemberOf(d, m))
             fs == [i \in DOMAIN d.fields |-> F(i)]
             ms == [i \in DOMAIN d.methods |-> M(d.methods[i])]
  <2>1. Candidates(d) = FlattenSeq(fs) \o FlattenSeq(ms)
      BY <1>4 DEF Candidates
  <2>2. ASSUME NEW i \in DOMAIN d.fields
        PROVE  /\ IsSeq(F(i))
               /\ \A x : x \in ToSet(F(i)) <=>
                    \E r \in ToSet(SymbolRefs(d.pkg, d.fields[i].type)) : x = Dep(IdOf(d), r, "uses", d.exported /\ d.fields[i].exported)
    <3>1. d.fields[i] \in FieldDef
        BY <1>1
    <3>2. d.fields[i].type \in TypeRef
        BY <3>1 DEF FieldDef
    <3>3. <<d.fields[i].type>> \in Seq(TypeRef) /\ ToSet(<<d.fields[i].type>>) = {d.fields[i].type}
        BY <3>2 DEF ToSet
    <3> DEFINE exp == d.exported /\ d.fields[i].exported
               types == <<d.fields[i].type>>
    <3>4. F(i) = DepsOn(IdOf(d), types, "uses", exp)
        OBVIOUS
    <3> HIDE DEF F, exp, types
    <3>5. types \in Seq(TypeRef) /\ ToSet(types) = {d.fields[i].type}
        BY <3>3 DEF types
    <3>6. \A x : x \in ToSet(F(i)) <=> \E r \in ToSet(SymbolRefs(d.pkg, d.fields[i].type)) : x = Dep(IdOf(d), r, "uses", exp)
      <4>1. \A x : x \in ToSet(DepsOn(IdOf(d), types, "uses", exp)) <=>
              \E t \in ToSet(types) : \E r \in ToSet(SymbolRefs(IdOf(d)[1], t)) : x = Dep(IdOf(d), r, "uses", exp)
          BY <3>5, DepsOnAll
      <4> QED BY <1>3, <3>4, <3>5, <4>1
    <3>7. IsSeq(F(i))
        BY <3>4, <3>5, DepsOnAll
    <3> QED BY <3>6, <3>7 DEF exp
  <2>3. ASSUME NEW m \in ToSet(d.methods)
        PROVE  /\ IsSeq(M(m))
               /\ \A x : x \in ToSet(M(m)) <=> x \in ToSet(Of(m, IdOf(d))) \/ x \in ToSet(Of(m, MemberOf(d, m)))
    <3>1. m.params \in Seq(TypeRef) /\ m.returns \in Seq(TypeRef)
        BY TypedMethods
    <3>2. IsSeq(Of(m, IdOf(d))) /\ IsSeq(Of(m, MemberOf(d, m)))
        BY <3>1, MethodDepsAll
    <3> HIDE DEF Of
    <3> QED BY <3>2, BothAll
  <2> HIDE DEF F, M
  <2>4. IsSeq(FlattenSeq(fs)) /\ \A x : x \in ToSet(FlattenSeq(fs)) <=> \E i \in DOMAIN d.fields : x \in ToSet(F(i))
    <3>1. IsSeq(fs) /\ DOMAIN fs = DOMAIN d.fields
        BY <1>2, Mapped
    <3>2. \A i \in DOMAIN fs : fs[i] = F(i) /\ IsSeq(fs[i])
        BY <2>2
    <3> HIDE DEF fs
    <3>3. IsSeq(FlattenSeq(fs)) /\ \A x : x \in ToSet(FlattenSeq(fs)) <=> \E i \in DOMAIN fs : x \in ToSet(fs[i])
        BY <3>1, <3>2, FlatAll
    <3> QED BY <3>1, <3>2, <3>3
  <2>5. IsSeq(FlattenSeq(ms)) /\ \A x : x \in ToSet(FlattenSeq(ms)) <=> \E i \in DOMAIN d.methods : x \in ToSet(M(d.methods[i]))
    <3>1. IsSeq(ms) /\ DOMAIN ms = DOMAIN d.methods
        BY <1>2, Mapped
    <3>2. \A i \in DOMAIN ms : ms[i] = M(d.methods[i]) /\ IsSeq(ms[i])
        BY <1>2, <2>3
    <3> HIDE DEF ms
    <3>3. IsSeq(FlattenSeq(ms)) /\ \A x : x \in ToSet(FlattenSeq(ms)) <=> \E i \in DOMAIN ms : x \in ToSet(ms[i])
        BY <3>1, <3>2, FlatAll
    <3> QED BY <3>1, <3>2, <3>3
  <2> HIDE DEF fs, ms
  <2>6. IsSeq(Candidates(d)) /\ ToSet(Candidates(d)) = ToSet(FlattenSeq(fs)) \cup ToSet(FlattenSeq(ms))
      BY <2>1, <2>4, <2>5, BothAll
  <2>7. \A x : x \in ToSet(FlattenSeq(fs)) <=> FieldDep(d, x)
    <3>1. \A x : FieldDep(d, x) <=> \E i \in DOMAIN d.fields :
            \E r \in ToSet(SymbolRefs(d.pkg, d.fields[i].type)) : x = Dep(IdOf(d), r, "uses", d.exported /\ d.fields[i].exported)
        BY <1>2, <1>4 DEF FieldDep
    <3> QED BY <2>2, <2>4, <3>1
  <2>8. \A x : x \in ToSet(FlattenSeq(ms)) <=> MethodDep(d, x)
    <3>1. \A x : MethodDep(d, x) <=> \E m \in ToSet(d.methods) : x \in ToSet(Of(m, IdOf(d))) \/ x \in ToSet(Of(m, MemberOf(d, m)))
        BY <1>4 DEF MethodDep
    <3> HIDE DEF Of
    <3>2. \A x : x \in ToSet(FlattenSeq(ms)) <=> \E m \in ToSet(d.methods) : x \in ToSet(M(m))
        BY <1>2, <2>5
    <3> QED BY <2>3, <3>1, <3>2
  <2> QED BY <1>4, <2>6, <2>7, <2>8 DEF FuncDep, ValueDep
<1>5. CASE d.kind = "func"
  <2>1. Candidates(d) = MethodDeps(IdOf(d), d.methods[1], d.exported)
      BY <1>5 DEF Candidates
  <2>2. d.methods[1].params \in Seq(TypeRef) /\ d.methods[1].returns \in Seq(TypeRef)
      BY <1>5, TypedMethods
  <2>3. IsSeq(Candidates(d))
      BY <2>1, <2>2, MethodDepsAll
  <2> QED BY <1>5, <2>1, <2>3 DEF FieldDep, MethodDep, FuncDep, ValueDep
<1>6. CASE d.kind \in {"const", "var"}
  <2> DEFINE spelt == \A t \in ToSet(d.types) : ~Unnamed(t)
             deps == DepsOn(IdOf(d), d.types, "uses", d.exported)
  <2>1. Candidates(d) = IF spelt THEN deps ELSE <<>>
      BY <1>6 DEF Candidates
  <2>2. IsSeq(deps) /\ IsSeq(<<>>) /\ ToSet(<<>>) = {}
    <3>1. IsSeq(deps)
        BY <1>1, DepsOnAll
    <3> QED BY <3>1 DEF IsSeq, ToSet
  <2>3. \A x : ValueDep(d, x) <=> spelt /\ x \in ToSet(deps)
      BY <1>6 DEF ValueDep
  <2> HIDE DEF spelt, deps
  <2> QED BY <1>6, <2>1, <2>2, <2>3 DEF FieldDep, MethodDep, FuncDep
<1>7. CASE d.kind \notin {"interface", "struct", "func", "const", "var"}
  <2>1. Candidates(d) = <<>>
      BY <1>7 DEF Candidates
  <2>2. IsSeq(<<>>) /\ ToSet(<<>>) = {}
      BY DEF IsSeq, ToSet
  <2> QED BY <1>7, <2>1, <2>2 DEF FieldDep, MethodDep, FuncDep, ValueDep
<1> QED BY <1>4, <1>5, <1>6, <1>7

(* One dependency is kept for each key: the first. *)
LEMMA FirstsAll ==
  ASSUME NEW deps, IsSeq(deps)
  PROVE  /\ FirstOfKey(deps) \subseteq ToSet(deps)
         /\ \A i \in 1 .. Len(deps) : \E j \in 1 .. i :
              /\ deps[j] \in FirstOfKey(deps) /\ SameKey(deps[j], deps[i])
              /\ \A k \in 1 .. j - 1 : ~SameKey(deps[k], deps[i])
         /\ \A x, y \in FirstOfKey(deps) : SameKey(x, y) => x = y
<1>1. Len(deps) \in Nat /\ DOMAIN deps = 1 .. Len(deps) /\ ToSet(deps) = {deps[i] : i \in 1 .. Len(deps)}
    BY Sequences
<1>2. \A x : x \in FirstOfKey(deps) <=> \E i \in 1 .. Len(deps) : x = deps[i] /\ \A j \in 1 .. i - 1 : ~SameKey(deps[j], deps[i])
    BY <1>1 DEF FirstOfKey
<1>3. ASSUME NEW i \in 1 .. Len(deps)
      PROVE  \E j \in 1 .. i : /\ deps[j] \in FirstOfKey(deps) /\ SameKey(deps[j], deps[i])
                               /\ \A k \in 1 .. j - 1 : ~SameKey(deps[k], deps[i])
  <2> DEFINE T == {j \in 1 .. i : SameKey(deps[j], deps[i])}
  <2>1. T \in SUBSET Nat /\ i \in T
      BY <1>1 DEF SameKey
  <2>2. PICK j \in T : \A k \in T : ~(k < j)
    <3> HIDE DEF T
    <3> QED BY <2>1, LeastNumber
  <2>3. j \in 1 .. Len(deps)
      BY <1>1
  <2>4. \A k \in 1 .. j - 1 : ~SameKey(deps[k], deps[i])
    <3>1. \A k \in 1 .. j - 1 : k \in 1 .. i /\ k < j
        BY <1>1
    <3> QED BY <2>2, <3>1
  <2>5. \A k \in 1 .. j - 1 : ~SameKey(deps[k], deps[j])
      BY <2>4 DEF SameKey
  <2>6. deps[j] \in FirstOfKey(deps)
      BY <1>2, <2>3, <2>5
  <2> QED BY <2>4, <2>6
<1>4. ASSUME NEW x \in FirstOfKey(deps), NEW y \in FirstOfKey(deps), SameKey(x, y) PROVE x = y
  <2>1. PICK i \in 1 .. Len(deps) : x = deps[i] /\ \A j \in 1 .. i - 1 : ~SameKey(deps[j], deps[i])
      BY <1>2
  <2>2. PICK k \in 1 .. Len(deps) : y = deps[k] /\ \A j \in 1 .. k - 1 : ~SameKey(deps[j], deps[k])
      BY <1>2
  <2>3. SameKey(deps[i], deps[k]) /\ SameKey(deps[k], deps[i])
      BY <1>4, <2>1, <2>2 DEF SameKey
  <2>4. ~(i < k) /\ ~(k < i)
    <3>1. i < k => i \in 1 .. k - 1
        BY <1>1
    <3>2. k < i => k \in 1 .. i - 1
        BY <1>1
    <3> QED BY <2>1, <2>2, <2>3, <3>1, <3>2
  <2>5. i = k
      BY <1>1, <2>4
  <2> QED BY <2>1, <2>2, <2>5
<1>5. FirstOfKey(deps) \subseteq ToSet(deps)
    BY <1>1, <1>2
<1> QED BY <1>3, <1>4, <1>5

LEMMA FirstsHaveAllKeys ==
  ASSUME NEW deps, IsSeq(deps), NEW x \in ToSet(deps)
  PROVE  \E y \in FirstOfKey(deps) : SameKey(y, x)
<1>1. PICK i \in 1 .. Len(deps) : x = deps[i]
    BY Sequences
<1> QED BY <1>1, FirstsAll

(* What the body of a method uses. *)
BodyUse(d, m, r) ==
  [from |-> IdOf(d), to |-> r, kind |-> "uses", exp |-> d.exported /\ m.exported, ext |-> FALSE, part |-> "body"]

LEMMA BodiesAll ==
  ASSUME NEW prog, Program(prog), NEW d \in prog
  PROVE  /\ \A x \in BodyDeps(d) : \E m \in ToSet(d.methods) : \E t \in ToSet(m.uses) : \E r \in ToSet(t.refs) : x = BodyUse(d, m, r)
         /\ \A x, y \in BodyDeps(d) : SameKey(x, y) => x = y
<1> DEFINE used(m) == FlattenSeq([i \in DOMAIN m.uses |-> Loaded(m.uses[i])])
           of(m) == [i \in DOMAIN used(m) |-> BodyUse(d, m, used(m)[i])]
           all == FlattenSeq([i \in DOMAIN d.methods |-> of(d.methods[i])])
<1>1. CASE d.kind \notin {"func", "struct"}
  <2>1. BodyDeps(d) = {}
      BY <1>1 DEF BodyDeps
  <2> QED BY <2>1
<1>2. CASE d.kind \in {"func", "struct"}
  <2>1. BodyDeps(d) = FirstOfKey(all)
      BY <1>2 DEF BodyDeps, BodyUse
  <2>2. ASSUME NEW m \in ToSet(d.methods)
        PROVE  IsSeq(used(m)) /\ \A r \in ToSet(used(m)) : \E t \in ToSet(m.uses) : r \in ToSet(t.refs)
    <3> DEFINE seqs == [i \in DOMAIN m.uses |-> Loaded(m.uses[i])]
    <3>1. m.uses \in Seq(TypeRef)
        BY TypedMethods
    <3>2. Len(m.uses) \in Nat /\ DOMAIN m.uses = 1 .. Len(m.uses) /\ ToSet(m.uses) = {m.uses[i] : i \in 1 .. Len(m.uses)}
          /\ ToSet(m.uses) \subseteq TypeRef
        BY <3>1, Sequences
    <3>3. IsSeq(seqs) /\ DOMAIN seqs = 1 .. Len(m.uses)
        BY <3>2, Mapped
    <3>4. \A i \in DOMAIN seqs : seqs[i] = Loaded(m.uses[i]) /\ m.uses[i] \in ToSet(m.uses)
        BY <3>2, <3>3
    <3> HIDE DEF seqs
    <3>5. \A i \in DOMAIN seqs : IsSeq(seqs[i]) /\ ToSet(seqs[i]) \subseteq ToSet(m.uses[i].refs)
        BY <3>2, <3>4, RefsAll
    <3>6. IsSeq(FlattenSeq(seqs)) /\ \A x : x \in ToSet(FlattenSeq(seqs)) <=> \E i \in DOMAIN seqs : x \in ToSet(seqs[i])
        BY <3>3, <3>5, FlatAll
    <3>7. used(m) = FlattenSeq(seqs)
        BY DEF seqs
    <3> HIDE DEF used
    <3> QED BY <3>4, <3>5, <3>6, <3>7
  <2> HIDE DEF used
  <2>3. ASSUME NEW m \in ToSet(d.methods)
        PROVE  IsSeq(of(m)) /\ \A x \in ToSet(of(m)) : \E t \in ToSet(m.uses) : \E r \in ToSet(t.refs) : x = BodyUse(d, m, r)
    <3>1. Len(used(m)) \in Nat /\ DOMAIN used(m) = 1 .. Len(used(m)) /\ ToSet(used(m)) = {used(m)[i] : i \in 1 .. Len(used(m))}
        BY <2>2, Sequences
    <3>2. IsSeq(of(m)) /\ ToSet(of(m)) = {of(m)[i] : i \in 1 .. Len(used(m))}
        BY <3>1, Mapped
    <3>3. \A i \in 1 .. Len(used(m)) : of(m)[i] = BodyUse(d, m, used(m)[i]) /\ used(m)[i] \in ToSet(used(m))
        BY <3>1
    <3> HIDE DEF of
    <3> QED BY <2>2, <3>2, <3>3
  <2> HIDE DEF of
  <2>4. IsSeq(all) /\ \A x \in ToSet(all) : \E m \in ToSet(d.methods) : x \in ToSet(of(m))
    <3> DEFINE seqs == [i \in DOMAIN d.methods |-> of(d.methods[i])]
    <3>1. d.methods \in Seq(MethodDef)
        BY TypedMethods
    <3>2. Len(d.methods) \in Nat /\ DOMAIN d.methods = 1 .. Len(d.methods) /\ ToSet(d.methods) = {d.methods[i] : i \in 1 .. Len(d.methods)}
        BY <3>1, Sequences
    <3>3. IsSeq(seqs) /\ DOMAIN seqs = 1 .. Len(d.methods)
        BY <3>2, Mapped
    <3>4. \A i \in DOMAIN seqs : seqs[i] = of(d.methods[i]) /\ d.methods[i] \in ToSet(d.methods)
        BY <3>2, <3>3
    <3> HIDE DEF seqs
    <3>5. IsSeq(FlattenSeq(seqs)) /\ \A x : x \in ToSet(FlattenSeq(seqs)) <=> \E i \in DOMAIN seqs : x \in ToSet(seqs[i])
        BY <2>3, <3>3, <3>4, FlatAll
    <3>6. all = FlattenSeq(seqs)
        BY DEF seqs
    <3> HIDE DEF all
    <3> QED BY <3>4, <3>5, <3>6
  <2> HIDE DEF all
  <2>5. FirstOfKey(all) \subseteq ToSet(all) /\ \A x, y \in FirstOfKey(all) : SameKey(x, y) => x = y
      BY <2>4, FirstsAll
  <2> QED BY <2>1, <2>3, <2>4, <2>5
<1> QED BY <1>1, <1>2

DepsFor(d) == FirstOfKey(Candidates(d)) \cup BodyDeps(d)

LEMMA DependenciesAll ==
  ASSUME NEW prog
  PROVE  \A x : x \in Dependencies(prog) <=> \E d \in prog : x \in DepsFor(d)
BY DEF Dependencies, DepsFor

(* What a declaration depends on is recorded under its name or the name of a method it has. *)
LEMMA DependentsAreNamed ==
  ASSUME NEW prog, Program(prog), NEW d \in prog, NEW x \in DepsFor(d)
  PROVE  /\ x.from = IdOf(d) \/ \E m \in ToSet(d.methods) : x.from = MemberOf(d, m)
         /\ x.from[1] = d.pkg /\ SubSeq(x.from, 1, 2) = IdOf(d)
         /\ x.kind \in {"uses", "returns"}
<1>1. \A from, to, kind, exp : Dep(from, to, kind, exp).from = from /\ Dep(from, to, kind, exp).kind = kind
    BY DEF Dep
<1>2. ASSUME NEW m, m.params \in Seq(TypeRef), m.returns \in Seq(TypeRef), NEW from, NEW exp, x \in ToSet(MethodDeps(from, m, exp))
      PROVE  x.from = from /\ x.kind \in {"uses", "returns"}
    BY <1>1, <1>2, MethodDepsAll
<1>3. x.kind \in {"uses", "returns"} /\ (x.from = IdOf(d) \/ \E m \in ToSet(d.methods) : x.from = MemberOf(d, m))
  <2>1. CASE x \in BodyDeps(d)
    <3>1. \A m, r : BodyUse(d, m, r).from = IdOf(d) /\ BodyUse(d, m, r).kind = "uses"
        BY DEF BodyUse
    <3> QED BY <2>1, <3>1, BodiesAll
  <2>2. CASE x \in FirstOfKey(Candidates(d))
    <3>1. x \in ToSet(Candidates(d))
        BY <2>2, CandidatesAll, FirstsAll
    <3>2. CASE FieldDep(d, x)
        BY <1>1, <3>2 DEF FieldDep
    <3>3. CASE MethodDep(d, x)
      <4>1. PICK m \in ToSet(d.methods) : \E from \in {IdOf(d), MemberOf(d, m)} : x \in ToSet(MethodDeps(from, m, d.exported /\ m.exported))
          BY <3>3 DEF MethodDep
      <4>2. m.params \in Seq(TypeRef) /\ m.returns \in Seq(TypeRef)
          BY TypedMethods
      <4>3. PICK from \in {IdOf(d), MemberOf(d, m)} : x \in ToSet(MethodDeps(from, m, d.exported /\ m.exported))
          BY <4>1
      <4> DEFINE exp == d.exported /\ m.exported
      <4>4. x \in ToSet(MethodDeps(from, m, exp))
          BY <4>3
      <4> HIDE DEF exp
      <4>5. x.from = from /\ x.kind \in {"uses", "returns"}
          BY <1>2, <4>2, <4>4
      <4> QED BY <4>5
    <3>4. CASE FuncDep(d, x)
      <4>1. d.methods[1].params \in Seq(TypeRef) /\ d.methods[1].returns \in Seq(TypeRef)
          BY <3>4, TypedMethods DEF FuncDep
      <4> QED BY <1>2, <3>4, <4>1 DEF FuncDep
    <3>5. CASE ValueDep(d, x)
      <4>1. \E t \in ToSet(d.types) : \E r \in ToSet(SymbolRefs(IdOf(d)[1], t)) : x = Dep(IdOf(d), r, "uses", d.exported)
          BY <3>5, DepsOnAll, TypedMethods DEF ValueDep
      <4> QED BY <1>1, <4>1
    <3> QED BY <3>1, <3>2, <3>3, <3>4, <3>5, CandidatesAll
  <2> QED BY <2>1, <2>2 DEF DepsFor
<1> QED BY <1>3, Identifiers

(***************************************************************************)
(* What a branch touches.                                                  *)
(***************************************************************************)
SamePackage(p) == {d \in base : d.pkg = p} = {d \in head : d.pkg = p}
LeftAlone(p) == SamePackage(p) /\ \A x \in Dotted : x[2] = p => SamePackage(x[1])

LEMMA ModelParts ==
  ASSUME NEW prog
  PROVE  /\ Model(prog).decls = prog /\ Model(prog).deps = Dependencies(prog)
         /\ Model(prog).impls = Implementations(prog) /\ Model(prog).calls = Calls(prog)
BY DEF Model

Shared(h, b) == Packages(h.decls) \cap Packages(b.decls)
EntryWord(h, b, k) == Word(Entry(h, k), Entry(b, k))

LEMMA DepChangesAll ==
  ASSUME NEW h, NEW b
  PROVE  /\ \A c \in DepChanges(h, b) : /\ c.word = EntryWord(h, b, c.key) /\ c.word # Unmarked
                                        /\ \E d \in h.deps \cup b.deps : c.key = Key(d)
         /\ \A d \in h.deps \cup b.deps : d.from[1] \in Shared(h, b) /\ EntryWord(h, b, Key(d)) # Unmarked =>
              \E c \in DepChanges(h, b) : c.key = Key(d) /\ c.word = EntryWord(h, b, Key(d))
<1> DEFINE keys == {Key(d) : d \in {d \in h.deps \cup b.deps : d.from[1] \in Shared(h, b)}}
           public(k) == \E e \in IF Entry(h, k) # {} THEN Entry(h, k) ELSE Entry(b, k) : e.exp
           row(k) == [key |-> k, word |-> EntryWord(h, b, k), public |-> public(k)]
<1>1. DepChanges(h, b) = {c \in {row(k) : k \in keys} : c.word # Unmarked}
    BY DEF DepChanges, EntryWord, Shared
<1> HIDE DEF public
<1>2. \A k : row(k).key = k /\ row(k).word = EntryWord(h, b, k)
    OBVIOUS
<1> HIDE DEF row
<1>3. \A k \in keys : \E d \in h.deps \cup b.deps : k = Key(d)
    OBVIOUS
<1>4. \A d \in h.deps \cup b.deps : d.from[1] \in Shared(h, b) => Key(d) \in keys
    OBVIOUS
<1> HIDE DEF keys
<1> QED BY <1>1, <1>2, <1>3, <1>4

(* What the model diff says of a kind and a name. *)
ShapeWord(now, was, kind, id) == Word(ShapesOf(now, kind, id), ShapesOf(was, kind, id))

LEMMA SymbolChangesAll ==
  ASSUME NEW now, NEW was
  PROVE  /\ \A c \in SymbolChanges(now, was) :
              /\ c.word = ShapeWord(now, was, c.kind, c.id) /\ c.word # Unmarked
              /\ \E d \in Matched(now, was) : c.kind = d.kind /\ c.id = IdOf(d)
         /\ \A d \in Matched(now, was) : ShapeWord(now, was, d.kind, IdOf(d)) # Unmarked =>
              \E c \in SymbolChanges(now, was) : c.kind = d.kind /\ c.id = IdOf(d)
<1> DEFINE row(d) == [kind |-> d.kind, id |-> IdOf(d), word |-> ShapeWord(now, was, d.kind, IdOf(d))]
<1>1. SymbolChanges(now, was) = {c \in {row(d) : d \in Matched(now, was)} : c.word # Unmarked}
    BY DEF SymbolChanges, ShapeWord
<1>2. \A d : row(d).kind = d.kind /\ row(d).id = IdOf(d) /\ row(d).word = ShapeWord(now, was, d.kind, IdOf(d))
    OBVIOUS
<1> HIDE DEF row
<1> QED BY <1>1, <1>2

LEMMA ChangesParts ==
  ASSUME NEW now, NEW was
  PROVE  LET c == ModelChanges(Model(now), Model(was))
         IN  /\ c.packages = Differing(Packages(now), Packages(was))
             /\ c.symbols = SymbolChanges(now, was) /\ c.deps = DepChanges(Model(now), Model(was))
BY ModelParts DEF ModelChanges

(* The model diff has nothing of a package whose declarations are what they were. *)
LEMMA SamePackageIsNoChange ==
  ASSUME ReviewIInv, NEW p, SamePackage(p)
  PROVE  LET c == ModelChanges(Model(head), Model(base))
         IN p \notin c.packages /\ (\A x \in c.symbols : x.id[1] # p) /\ \A x \in c.deps : x.key.from[1] # p
<1> USE BothArePrograms
<1>1. \A d : d.pkg = p => (d \in head <=> d \in base)
    BY DEF SamePackage
<1>2. p \notin Differing(Packages(head), Packages(base))
    BY <1>1 DEF Differing, Packages
<1>3. ASSUME NEW x \in SymbolChanges(head, base), x.id[1] = p PROVE FALSE
  <2>1. PICK d \in Matched(head, base) : x.kind = d.kind /\ x.id = IdOf(d)
      BY SymbolChangesAll
  <2>2. Decls(head, x.id) = Decls(base, x.id)
    <3>1. \A e : IdOf(e) = x.id => e.pkg = p
        BY <1>3, Identifiers
    <3> QED BY <1>1, <3>1 DEF Decls
  <2>3. ShapeWord(head, base, x.kind, x.id) = Unmarked
      BY <2>2 DEF ShapeWord, ShapesOf, Word
  <2> QED BY <2>3, SymbolChangesAll
<1>4. \A x : x.from[1] = p => (x \in Dependencies(head) <=> x \in Dependencies(base))
  <2>1. \A d \in head : \A y \in DepsFor(d) : y.from[1] = d.pkg
      BY DependentsAreNamed
  <2>2. \A d \in base : \A y \in DepsFor(d) : y.from[1] = d.pkg
      BY DependentsAreNamed
  <2> QED BY <1>1, <2>1, <2>2, DependenciesAll
<1>5. ASSUME NEW x \in DepChanges(Model(head), Model(base)), x.key.from[1] = p PROVE FALSE
  <2> DEFINE k == x.key
             of(m) == {d \in m.deps : Key(d) = k}
  <2>1. \A d : Key(d) = k => d.from[1] = p
    <3>1. \A d : Key(d).from = d.from
        BY DEF Key
    <3> QED BY <1>5, <3>1
  <2>2. of(Model(head)) = of(Model(base))
      BY <1>4, <2>1, ModelParts
  <2>3. \A m : Entry(m, k) = {[exp |-> d.exp, ext |-> d.ext] : d \in IF {d \in of(m) : d.part = "body"} # {} THEN {d \in of(m) : d.part = "body"} ELSE of(m)}
      BY DEF Entry
  <2> HIDE DEF of
  <2>4. Entry(Model(head), k) = Entry(Model(base), k)
      BY <2>2, <2>3
  <2>5. EntryWord(Model(head), Model(base), k) = Unmarked
      BY <2>4 DEF EntryWord, Word
  <2> QED BY <2>5, DepChangesAll
<1> QED BY <1>2, <1>3, <1>5, ChangesParts

(* A package the branch left alone is not taken for touched.  A change counts for its    *)
(* own package and for those whose path stops at a dot in the path of the change.         *)
LEMMA QuietIsUntouched ==
  ASSUME ReviewIInv, NEW p, LeftAlone(p), NEW h, NEW b, h.model = Model(head), b.model = Model(base)
  PROVE  p \notin TouchedPackages(h, b)
<1>1. SamePackage(p)
    BY DEF LeftAlone
<1>2. \A f \in HunkFiles(Model(head), Model(base)) : f[1] # p
    BY <1>1, ModelParts DEF HunkFiles, Differing, SamePackage
<1> DEFINE c == ModelChanges(Model(head), Model(base))
           named == c.packages \cup {x.id[1] : x \in c.symbols}
           paths == named \cup {x.key.from[1] : x \in c.deps}
<1>3. ASSUME NEW q, SamePackage(q) PROVE q \notin named /\ q \notin paths
  <2>1. q \notin c.packages /\ (\A x \in c.symbols : x.id[1] # q) /\ \A x \in c.deps : x.key.from[1] # q
      BY <1>3, SamePackageIsNoChange
  <2> HIDE DEF c
  <2> QED BY <2>1
<1>4. TouchedPackages(h, b) = h.pkgs \cap ({f[1] : f \in HunkFiles(Model(head), Model(base))}
                         \cup named \cup {x[2] : x \in {x \in Dotted : x[1] \in paths}})
    BY DEF TouchedPackages
<1> HIDE DEF named, paths
<1>5. \A x \in Dotted : x[1] \in paths => x[2] # p
    BY <1>3 DEF LeftAlone
<1> QED BY <1>1, <1>2, <1>3, <1>4, <1>5

LEMMA SideParts ==
  ASSUME NEW prog
  PROVE  LET side == Side(Model(prog))
             nodes == {s.node : s \in Symbols(prog)}
         IN  /\ side.model = Model(prog) /\ side.pkgs = Packages(prog) /\ side.symbols = Symbols(prog)
             /\ side.flow = {e \in Export(Model(prog)).edges : e.kind \in FlowKinds /\ e.from \in nodes /\ e.to \in nodes}
             /\ side.crossing = {e \in side.flow : e.from[2][1] # e.to[2][1]}
             /\ side.via = ViaInterface(prog, Export(Model(prog)))
<1> DEFINE m == Model(prog)
           nodes == {s.node : s \in Symbols(m.decls)}
           flow == {e \in Export(m).edges : e.kind \in FlowKinds /\ e.from \in nodes /\ e.to \in nodes}
           crossing == {e \in flow : e.from[2][1] # e.to[2][1]}
<1>1. m.decls = prog
    BY ModelParts
<1> HIDE DEF m
<1>2. Side(m) = [model |-> m, pkgs |-> Packages(m.decls), graph |-> Export(m), symbols |-> Symbols(m.decls),
                 flow |-> flow, crossing |-> crossing,
                 edges |-> {<<e.from[2][1], e.to[2][1]>> : e \in crossing}, via |-> ViaInterface(m.decls, Export(m))]
    BY DEF Side
<1> HIDE DEF crossing
<1>3. /\ Side(m).model = m /\ Side(m).pkgs = Packages(prog) /\ Side(m).symbols = Symbols(prog) /\ Side(m).flow = flow
      /\ Side(m).crossing = crossing /\ Side(m).via = ViaInterface(prog, Export(m))
    BY <1>1, <1>2
<1> QED BY <1>1, <1>3 DEF m, crossing

(* The functions and methods with a name belong to one declaration. *)
LEMMA BodiesOfOne ==
  ASSUME NEW prog, Program(prog), NEW e \in prog, NEW f \in Callers(e)
  PROVE  Bodies(prog, f.id) = {x.m : x \in {x \in Callers(e) : x.id = f.id}}
<1>1. ASSUME NEW d \in prog, NEW x \in Callers(d), x.id = f.id PROVE d = e
  <2>1. SubSeq(x.id, 1, 2) = IdOf(d) /\ SubSeq(f.id, 1, 2) = IdOf(e)
      BY CallersAll, Identifiers
  <2> QED BY <1>1, <2>1 DEF Program, Compiles
<1> DEFINE Of(d) == {x \in Callers(d) : x.id = f.id}
<1>2. Bodies(prog, f.id) = {x.m : x \in UNION {Of(d) : d \in prog}}
    BY DEF Bodies
<1>3. UNION {Of(d) : d \in prog} = Of(e)
    BY <1>1
<1> HIDE DEF Of
<1>4. Bodies(prog, f.id) = {x.m : x \in Of(e)}
    BY <1>2, <1>3
<1> QED BY <1>4 DEF Of

LEMMA CalleesAll ==
  ASSUME NEW m, NEW id \in Callees(m)
  PROVE  \E k \in ToSet(m.calls) : id = Target(k)
BY DEF Callees, Target

LEMMA BodiesAt ==
  ASSUME NEW prog, NEW id, Bodies(prog, id) # {}
  PROVE  \E e \in prog : \E f \in Callers(e) : f.id = id
<1> DEFINE Of(d) == {x \in Callers(d) : x.id = id}
<1>1. Bodies(prog, id) = {x.m : x \in UNION {Of(d) : d \in prog}}
    BY DEF Bodies
<1> QED BY <1>1

LEMMA HunksAll ==
  \A n : n \in Hunks(Model(head), Model(base)) <=>
    /\ n \in {s.node : s \in Symbols(head)}
    /\ \A b \in Decls(base, IdOf(The(head, SubSeq(n[2], 1, 2)))) :
         Spanned(b, n) # Spanned(The(head, SubSeq(n[2], 1, 2)), n)
BY ModelParts DEF Hunks

(* A body that the branch changed is in its hunks. *)
LEMMA ChangedBodiesAreHunks ==
  ASSUME Program(base), Program(head), NEW e \in head, NEW f \in Callers(e), Bodies(head, f.id) # Bodies(base, f.id)
  PROVE  NodeFor(f.id) \in Hunks(Model(head), Model(base))
<1> DEFINE n == NodeFor(f.id)
           of(x) == Spanned(x, n)
<1>1. n \in {s.node : s \in Symbols(head)} /\ n[2] = f.id
    BY CallerNodes
<1>2. SubSeq(n[2], 1, 2) = IdOf(e) /\ The(head, SubSeq(n[2], 1, 2)) = e
  <2>1. SubSeq(f.id, 1, 2) = IdOf(e)
      BY CallersAll, Identifiers
  <2> QED BY <1>1, <2>1, TheDeclaration DEF Program
<1>3. SUFFICES \A b \in Decls(base, IdOf(e)) : of(b) # of(e)
  <2>1. \A b \in Decls(base, IdOf(e)) : Spanned(b, n) # Spanned(e, n)
      BY <1>3
  <2> HIDE DEF n
  <2>2. \A b \in Decls(base, IdOf(The(head, SubSeq(n[2], 1, 2)))) :
          Spanned(b, n) # Spanned(The(head, SubSeq(n[2], 1, 2)), n)
      BY <1>2, <2>1
  <2> QED BY <1>1, <2>2, HunksAll DEF n
<1> SUFFICES ASSUME NEW b \in Decls(base, IdOf(e)), of(b) = of(e) PROVE FALSE
    OBVIOUS
<1>4. b \in base /\ IdOf(b) = IdOf(e) /\ b.pkg = e.pkg /\ b.name = e.name
    BY Identifiers DEF Decls
<1>5. CASE e.kind = "func"
  <2>1. f.id = IdOf(e) /\ Len(f.id) = 2 /\ Callers(e) = {[id |-> IdOf(e), m |-> e.methods[1]]}
      BY <1>5, CallersAll, Identifiers DEF Callers
  <2>2. of(e) = {e} /\ (of(b) = {b} \/ of(b) = {[b EXCEPT !.methods = <<>>]})
      BY <1>1, <1>5, <2>1 DEF Spanned
  <2>3. b = e
    <3>1. b \in Declaration
        BY <1>4 DEF Program, WellFormed
    <3>2. "methods" \in DOMAIN b
        BY <3>1 DEF Declaration
    <3> DEFINE x == [b EXCEPT !.methods = <<>>]
    <3>3. x.methods = <<>>
        BY <3>2
    <3>4. e.methods # <<>>
      <4>1. e.methods[1] \in ToSet(e.methods)
          BY <1>5, TypedMethods
      <4>2. ToSet(<<>>) = {}
          BY DEF ToSet
      <4> QED BY <4>1, <4>2
    <3> HIDE DEF x
    <3>5. e # x
        BY <3>3, <3>4
    <3>6. of(e) = {e} /\ (of(b) = {b} \/ of(b) = {x})
        BY <2>2 DEF x
    <3> QED BY <3>5, <3>6
  <2>4. e \in base
      BY <1>4, <2>3
  <2>5. Bodies(base, f.id) = Bodies(head, f.id)
    <3> DEFINE X == {x.m : x \in {x \in Callers(e) : x.id = f.id}}
    <3>1. Bodies(base, f.id) = X
        BY <2>4, BodiesOfOne
    <3>2. Bodies(head, f.id) = X
        BY BodiesOfOne
    <3> HIDE DEF X
    <3> QED BY <3>1, <3>2
  <2> QED BY <2>5
<1>6. CASE e.kind = "struct"
  <2>1. f.m \in ToSet(e.methods) /\ f.id = MemberOf(e, f.m) /\ Len(f.id) = 3 /\ f.id[3] = f.m.name
      BY <1>6, CallersAll, Identifiers
  <2>2. of(e) = {m \in ToSet(e.methods) : m.name = f.m.name} /\ f.m \in of(e)
      BY <1>1, <1>6, <2>1 DEF Spanned
  <2>3. b.kind = "struct"
    <3> SUFFICES ASSUME b.kind # "struct" PROVE FALSE
        OBVIOUS
    <3>0. of(b) = {b} \/ of(b) = {[b EXCEPT !.methods = <<>>]}
        BY DEF Spanned
    <3>1. f.m = b \/ f.m = [b EXCEPT !.methods = <<>>]
        BY <2>2, <3>0
    <3>2. f.m \in MethodDef
        BY <1>6, CallersAreTyped
    <3>3. b \in Declaration
        BY <1>4 DEF Program, WellFormed
    <3>4. "pkg" \in DOMAIN b /\ "pkg" \in DOMAIN [b EXCEPT !.methods = <<>>]
        BY <3>3 DEF Declaration
    <3>5. "pkg" \notin DOMAIN f.m
        BY <3>2 DEF MethodDef
    <3> QED BY <3>1, <3>4, <3>5
  <2>4. of(b) = {m \in ToSet(b.methods) : m.name = f.m.name}
      BY <1>1, <2>1, <2>3 DEF Spanned
  <2>5. ASSUME NEW prog, Program(prog), NEW d \in prog, d.kind = "struct", IdOf(d) = IdOf(e), f.m \in ToSet(d.methods)
        PROVE  Bodies(prog, f.id) = {m \in ToSet(d.methods) : m.name = f.m.name}
    <3>1. Callers(d) = {[id |-> MemberOf(d, m), m |-> m] : m \in ToSet(d.methods)}
        BY <2>5 DEF Callers
    <3>2. \A m : MemberOf(d, m) = f.id <=> m.name = f.m.name
        BY <2>1, <2>5 DEF MemberOf, IdOf
    <3> DEFINE g == [id |-> MemberOf(d, f.m), m |-> f.m]
    <3>3. g \in Callers(d) /\ g.id = f.id
        BY <2>5, <3>1, <3>2
    <3> HIDE DEF g
    <3>4. Bodies(prog, f.id) = {x.m : x \in {x \in Callers(d) : x.id = f.id}}
        BY <2>5, <3>3, BodiesOfOne
    <3>5. ASSUME NEW m \in ToSet(d.methods), m.name = f.m.name PROVE \E x \in Callers(d) : x.id = f.id /\ x.m = m
      <4> DEFINE x == [id |-> MemberOf(d, m), m |-> m]
      <4>1. x \in Callers(d) /\ x.id = f.id /\ x.m = m
          BY <3>1, <3>2, <3>5
      <4> QED BY <4>1
    <3>6. \A x \in Callers(d) : x.id = f.id => x.m \in ToSet(d.methods) /\ x.m.name = f.m.name
        BY <3>1, <3>2
    <3> QED BY <3>4, <3>5, <3>6
  <2>6. f.m \in ToSet(b.methods)
      BY <2>2, <2>4
  <2>7. Bodies(head, f.id) = of(e) /\ Bodies(base, f.id) = of(b)
      BY <1>4, <1>6, <2>1, <2>2, <2>3, <2>4, <2>5, <2>6
  <2> QED BY <2>7
<1> QED BY <1>5, <1>6, CallersAll

(* Who calls what the branch rewrote is told (reviewImpact). *)
LEMMA CallersAreTold ==
  ASSUME ReviewIInv, NEW u \in head, LeftAlone(u.pkg), NEW c \in Callers(u), NEW id \in Callees(c.m),
         Bodies(head, id) \notin {{}, Bodies(base, id)}
  PROVE  \E r \in ReviewImpact(Side(Model(head)), Side(Model(base))) : r.node[2] = id /\ c.id \in {n[2] : n \in r.callers}
<1> USE BothArePrograms
<1> DEFINE h == Side(Model(head))
           b == Side(Model(base))
           touched == TouchedPackages(h, b)
           hunks == Hunks(Model(head), Model(base))
           d == ModelChanges(Model(head), Model(base))
           outside(n) == {e \in h.crossing : e.to = n /\ e.from[2][1] \notin touched}
           row(s) == [node |-> s.node, callers |-> {e.from : e \in outside(s.node)}]
<1>1. PICK k \in ToSet(c.m.calls) : id = Target(k)
    BY CalleesAll
<1>2. PICK e \in head : \E f \in Callers(e) : f.id = id
    BY BodiesAt
<1>3. PICK f \in Callers(e) : f.id = id
    BY <1>2
<1>4. c.id[1] = u.pkg /\ NodeFor(c.id)[2] = c.id /\ f.id[1] = e.pkg /\ NodeFor(f.id)[2] = f.id
    BY CallerNodes
<1>5. e.pkg # u.pkg
  <2> SUFFICES ASSUME e.pkg = u.pkg PROVE FALSE
      OBVIOUS
  <2>1. e \in base
      BY DEF LeftAlone, SamePackage
  <2> DEFINE X == {x.m : x \in {x \in Callers(e) : x.id = f.id}}
  <2>2. Bodies(base, f.id) = X
      BY <2>1, BodiesOfOne
  <2>3. Bodies(head, f.id) = X
      BY BodiesOfOne
  <2> HIDE DEF X
  <2> QED BY <1>3, <2>2, <2>3
<1> DEFINE E == Edge(NodeFor(c.id), NodeFor(f.id), "calls")
<1>6. E \in Export(Model(head)).edges
  <2>1. PICK x \in Calls(head) : x.from = c.id /\ x.to = f.id
      BY <1>1, <1>3, CallIsRead
  <2> QED BY <1>4, <1>5, <2>1, CallIsDrawn
<1>7. E.from = NodeFor(c.id) /\ E.to = NodeFor(f.id) /\ E.kind \in FlowKinds
    BY DEF Edge, FlowKinds
<1> HIDE DEF E
<1>8. h.model = Model(head) /\ b.model = Model(base) /\ h.symbols = Symbols(head) /\ h.pkgs = Packages(head)
    BY SideParts
<1>9. E \in h.crossing
  <2>1. NodeFor(c.id) \in {s.node : s \in Symbols(head)} /\ NodeFor(f.id) \in {s.node : s \in Symbols(head)}
      BY CallerNodes
  <2> HIDE DEF h
  <2>2. E \in h.flow
      BY <1>6, <1>7, <2>1, SideParts DEF h
  <2> QED BY <1>4, <1>5, <1>7, <2>2, SideParts DEF h
<1>10. u.pkg \notin touched
  <2> HIDE DEF h, b
  <2> QED BY <1>8, QuietIsUntouched
<1> HIDE DEF touched
<1>11. E \in outside(NodeFor(f.id))
    BY <1>4, <1>7, <1>9, <1>10
<1>12. PICK s \in Symbols(head) : s.node = NodeFor(f.id)
    BY CallerNodes
<1>13. s.node \in hunks
    BY <1>3, <1>12, ChangedBodiesAreHunks
<1>14. row(s) \in ReviewImpact(h, b)
  <2>1. ReviewImpact(h, b) = {row(x) : x \in {x \in h.symbols : (ShapeChanged(d, x.node) \/ x.node \in hunks) /\ outside(x.node) # {}}}
      BY <1>8 DEF ReviewImpact, touched
  <2>2. outside(s.node) # {}
      BY <1>11, <1>12
  <2> HIDE DEF row, outside, hunks, d, h, b
  <2> QED BY <1>8, <1>13, <2>1, <2>2
<1>15. row(s).node[2] = id /\ c.id \in {n[2] : n \in row(s).callers}
  <2>1. row(s).node[2] = id
      BY <1>3, <1>4, <1>12
  <2>2. E.from \in row(s).callers
      BY <1>11, <1>12
  <2> QED BY <1>4, <1>7, <2>1, <2>2
<1> QED BY <1>14, <1>15

(* Who calls what the branch rewrote, from a package it left alone, is in the report     *)
(* (reviewImpact).                                                                        *)
THEOREM ImpactReachesHolds == ReviewSpec => []ImpactReaches
<1>1. ReviewIInv => ImpactReaches
  <2> SUFFICES ASSUME ReviewIInv PROVE ImpactReaches
      OBVIOUS
  <2>1. Side(Model(head)).pkgs = Packages(head)
      BY SideParts
  <2> QED BY <2>1, CallersAreTold DEF ImpactReaches, LeftAlone, SamePackage
<1> QED BY <1>1, ProgramsCompile, PTL

(***************************************************************************)
(* Exports that are used.                                                  *)
(***************************************************************************)
LEMMA SymbolsAll ==
  ASSUME NEW prog, NEW s \in Symbols(prog)
  PROVE  \/ \E e \in prog : e.kind \in Graphed /\ s.node = NodeOf(e) /\ s.pkg = e.pkg /\ s.node[2] = IdOf(e)
         \/ \E e \in prog : /\ e.kind \in {"interface", "struct"}
                            /\ \E m \in ToSet(e.methods) : s.node = MethodNode(MemberOf(e, m)) /\ s.pkg = e.pkg /\ s.node[2] = MemberOf(e, m)
<1>1. \A e : NodeOf(e)[2] = IdOf(e)
    BY DEF NodeOf
<1>2. \A id : MethodNode(id)[2] = id
    BY DEF MethodNode
<1>3. \/ \E e \in prog : e.kind \in Graphed /\ s = [node |-> NodeOf(e), pkg |-> e.pkg, exported |-> e.exported]
      \/ \E e \in prog : e.kind \in {"interface", "struct"} /\ \E m \in ToSet(e.methods) :
           s = [node |-> MethodNode(MemberOf(e, m)), pkg |-> e.pkg, exported |-> e.exported /\ m.exported]
    BY DEF Symbols, OfKind
<1> QED BY <1>1, <1>2, <1>3

LEMMA CandidatesAreDeps ==
  ASSUME NEW prog, Program(prog), NEW d \in prog, NEW x \in ToSet(Candidates(d))
  PROVE  x.ext = IsExternal(x.from[1], x.to) /\ x.part = "signature"
<1>1. \A from, to, kind, exp : Dep(from, to, kind, exp).ext = IsExternal(Dep(from, to, kind, exp).from[1], Dep(from, to, kind, exp).to)
        /\ Dep(from, to, kind, exp).part = "signature"
    BY DEF Dep
<1> SUFFICES \E from, to, kind, exp : x = Dep(from, to, kind, exp)
    BY <1>1
<1>2. ASSUME NEW m, m.params \in Seq(TypeRef), m.returns \in Seq(TypeRef), NEW from, NEW exp, x \in ToSet(MethodDeps(from, m, exp))
      PROVE  \E f, to, kind, e : x = Dep(f, to, kind, e)
    BY <1>2, MethodDepsAll
<1>3. CASE FieldDep(d, x)
    BY <1>3 DEF FieldDep
<1>4. CASE MethodDep(d, x)
  <2>1. PICK m \in ToSet(d.methods) : \E from \in {IdOf(d), MemberOf(d, m)} : x \in ToSet(MethodDeps(from, m, d.exported /\ m.exported))
      BY <1>4 DEF MethodDep
  <2>2. m.params \in Seq(TypeRef) /\ m.returns \in Seq(TypeRef)
      BY TypedMethods
  <2>3. PICK from \in {IdOf(d), MemberOf(d, m)} : x \in ToSet(MethodDeps(from, m, d.exported /\ m.exported))
      BY <2>1
  <2> DEFINE exp == d.exported /\ m.exported
  <2>4. x \in ToSet(MethodDeps(from, m, exp))
      BY <2>3
  <2> HIDE DEF exp
  <2> QED BY <1>2, <2>2, <2>4
<1>5. CASE FuncDep(d, x)
  <2>1. d.methods[1].params \in Seq(TypeRef) /\ d.methods[1].returns \in Seq(TypeRef)
      BY <1>5, TypedMethods DEF FuncDep
  <2> QED BY <1>2, <1>5, <2>1 DEF FuncDep
<1>6. CASE ValueDep(d, x)
  <2>1. \E t \in ToSet(d.types) : \E r \in ToSet(SymbolRefs(IdOf(d)[1], t)) : x = Dep(IdOf(d), r, "uses", d.exported)
      BY <1>6, DepsOnAll, TypedMethods DEF ValueDep
  <2> QED BY <2>1
<1> QED BY <1>3, <1>4, <1>5, <1>6, CandidatesAll

(* A type that a signature of a declaration names is among what it depends on. *)
LEMMA SignaturesAreDeps ==
  ASSUME NEW prog, Program(prog), NEW d \in prog, NEW t \in Signatures(d), t.shape \in {"plain", "instance", "map"},
         NEW r \in ToSet(t.refs), r[1] # Root
  PROVE  \E y \in Dependencies(prog) :
           y.from = IdOf(d) /\ y.to = r /\ y.kind \in {"uses", "returns"} /\ y.ext = IsExternal(d.pkg, r)
<1>1. d.kind \in {"interface", "struct", "func"}
    BY DEF Signatures
<1>2. \/ \E f \in ToSet(d.fields) : t = f.type
      \/ \E m \in ToSet(d.methods) : t \in ToSet(m.params) \cup ToSet(m.returns)
    BY DEF Signatures
<1>3. \A from, to, kind, exp : Dep(from, to, kind, exp).from = from /\ Dep(from, to, kind, exp).to = to /\ Dep(from, to, kind, exp).kind = kind
    BY DEF Dep
<1>4. \E x \in ToSet(Candidates(d)) : x.from = IdOf(d) /\ x.to = r /\ x.kind \in {"uses", "returns"}
  <2>1. ASSUME NEW f \in ToSet(d.fields), t = f.type
        PROVE  \E x \in ToSet(Candidates(d)) : x.from = IdOf(d) /\ x.to = r /\ x.kind \in {"uses", "returns"}
    <3>1. d.kind = "struct"
      <4>1. d.kind # "struct" => d.fields = <<>>
          BY DEF Program, WellFormed
      <4> QED BY <2>1, <4>1 DEF ToSet
    <3>2. r \in ToSet(SymbolRefs(d.pkg, t))
      <4>1. t \in TypeRef
          BY <2>1, TypedMethods DEF FieldDef
      <4> QED BY <4>1, NamesInside
    <3> DEFINE exp == d.exported /\ f.exported
               x == Dep(IdOf(d), r, "uses", exp)
    <3>3. FieldDep(d, x)
        BY <2>1, <3>1, <3>2 DEF FieldDep
    <3>4. x.from = IdOf(d) /\ x.to = r /\ x.kind = "uses"
      <4> HIDE DEF exp
      <4> QED BY <1>3
    <3> HIDE DEF x
    <3> QED BY <3>3, <3>4, CandidatesAll
  <2>2. ASSUME NEW m \in ToSet(d.methods), t \in ToSet(m.params) \cup ToSet(m.returns), NEW exp
        PROVE  \E x \in ToSet(MethodDeps(IdOf(d), m, exp)) : x.from = IdOf(d) /\ x.to = r /\ x.kind \in {"uses", "returns"}
    <3>1. m.params \in Seq(TypeRef) /\ m.returns \in Seq(TypeRef)
        BY TypedMethods
    <3>2. r \in ToSet(SymbolRefs(IdOf(d)[1], t))
      <4>1. t \in TypeRef
          BY <2>2, <3>1, Sequences
      <4> QED BY <4>1, NamesInside
    <3>3. CASE t \in ToSet(m.params)
      <4> DEFINE x == Dep(IdOf(d), r, "uses", exp)
      <4>1. x \in ToSet(MethodDeps(IdOf(d), m, exp))
          BY <3>1, <3>2, <3>3, MethodDepsAll
      <4> QED BY <1>3, <4>1
    <3>4. CASE t \in ToSet(m.returns)
      <4> DEFINE x == Dep(IdOf(d), r, "returns", exp)
      <4>1. x \in ToSet(MethodDeps(IdOf(d), m, exp))
          BY <3>1, <3>2, <3>4, MethodDepsAll
      <4> QED BY <1>3, <4>1
    <3> QED BY <2>2, <3>3, <3>4
  <2>3. ASSUME NEW m \in ToSet(d.methods), t \in ToSet(m.params) \cup ToSet(m.returns)
        PROVE  \E x \in ToSet(Candidates(d)) : x.from = IdOf(d) /\ x.to = r /\ x.kind \in {"uses", "returns"}
    <3>1. CASE d.kind = "func"
      <4>1. m = d.methods[1]
        <5>1. d.methods \in Seq(MethodDef) /\ Len(d.methods) = 1
            BY <3>1, TypedMethods
        <5> QED BY <5>1 DEF ToSet
      <4>2. PICK x \in ToSet(MethodDeps(IdOf(d), m, d.exported)) : x.from = IdOf(d) /\ x.to = r /\ x.kind \in {"uses", "returns"}
          BY <2>2, <2>3
      <4> QED BY <3>1, <4>1, <4>2, CandidatesAll DEF FuncDep
    <3>2. CASE d.kind \in {"interface", "struct"}
      <4> DEFINE exp == d.exported /\ m.exported
      <4>1. \E x \in ToSet(MethodDeps(IdOf(d), m, exp)) : x.from = IdOf(d) /\ x.to = r /\ x.kind \in {"uses", "returns"}
        <5> HIDE DEF exp
        <5> QED BY <2>2, <2>3
      <4>2. PICK x \in ToSet(MethodDeps(IdOf(d), m, exp)) : x.from = IdOf(d) /\ x.to = r /\ x.kind \in {"uses", "returns"}
          BY <4>1
      <4>3. MethodDep(d, x)
          BY <3>2, <4>2 DEF MethodDep
      <4> QED BY <4>2, <4>3, CandidatesAll
    <3> QED BY <1>1, <3>1, <3>2
  <2> QED BY <1>2, <2>1, <2>3
<1>5. PICK x \in ToSet(Candidates(d)) : x.from = IdOf(d) /\ x.to = r /\ x.kind \in {"uses", "returns"}
    BY <1>4
<1>6. PICK y \in FirstOfKey(Candidates(d)) : SameKey(y, x)
    BY CandidatesAll, FirstsHaveAllKeys
<1>7. y \in ToSet(Candidates(d))
    BY CandidatesAll, FirstsAll
<1>8. y.ext = IsExternal(d.pkg, r)
    BY <1>5, <1>6, <1>7, CandidatesAreDeps, Identifiers DEF SameKey
<1>9. y \in Dependencies(prog)
    BY DependenciesAll DEF DepsFor
<1> QED BY <1>5, <1>6, <1>8, <1>9 DEF SameKey

LEMMA GraphedNodes ==
  ASSUME NEW prog, Program(prog), NEW d \in prog, d.kind \in Graphed
  PROVE  /\ Resolved(prog, IdOf(d)) = {NodeOf(d)}
         /\ NodeOf(d) \in {s.node : s \in Symbols(prog)}
         /\ NodeOf(d)[2] = IdOf(d) /\ NodeOf(d)[2][1] = d.pkg
<1>1. Len(IdOf(d)) = 2 /\ IdOf(d)[1] = d.pkg /\ NodeOf(d)[2] = IdOf(d)
    BY Identifiers DEF NodeOf
<1>2. Decls(prog, IdOf(d)) = {d}
    BY TheDeclaration DEF Program
<1>3. Resolved(prog, IdOf(d)) = {NodeOf(d)}
    BY <1>1, <1>2 DEF Resolved
<1> DEFINE s == [node |-> NodeOf(d), pkg |-> d.pkg, exported |-> d.exported]
<1>4. s \in Symbols(prog)
    BY DEF Symbols, OfKind
<1>5. s.node = NodeOf(d)
    OBVIOUS
<1> HIDE DEF s
<1> QED BY <1>1, <1>3, <1>4, <1>5

LEMMA DepIsDrawn ==
  ASSUME NEW prog, Program(prog), NEW d \in prog, d.kind \in Graphed, NEW e \in prog, e.kind \in Graphed, d.pkg # e.pkg,
         NEW y \in Dependencies(prog), y.from = IdOf(d), y.to = IdOf(e), ~y.ext
  PROVE  \E E \in Export(Model(prog)).edges : E.from = NodeOf(d) /\ E.to = NodeOf(e) /\ E.kind \in FlowKinds
<1>1. NodeOf(d) # NodeOf(e)
    BY GraphedNodes
<1> DEFINE kind == IF y.kind = "uses" THEN "usesType" ELSE "returns"
           E == Edge(NodeOf(d), NodeOf(e), kind)
           Of(x) == Joined(Resolved(prog, x.from), Resolved(prog, x.to), IF x.kind = "uses" THEN "usesType" ELSE "returns")
<1>2. E \in Of(y)
  <2> DEFINE p == <<NodeOf(d), NodeOf(e)>>
  <2>1. Resolved(prog, y.from) = {NodeOf(d)} /\ Resolved(prog, y.to) = {NodeOf(e)}
      BY GraphedNodes
  <2>2. p \in {NodeOf(d)} \X {NodeOf(e)} /\ p[1] # p[2] /\ p[1] = NodeOf(d) /\ p[2] = NodeOf(e)
      BY <1>1
  <2> HIDE DEF p
  <2> QED BY <2>1, <2>2 DEF Joined
<1>3. E \in SymbolEdges(prog, Model(prog).deps)
  <2>1. SymbolEdges(prog, Model(prog).deps) = UNION {Of(x) : x \in {x \in Dependencies(prog) : ~x.ext}}
      BY ModelParts DEF SymbolEdges
  <2> HIDE DEF E, Of
  <2> QED BY <1>2, <2>1
<1>4. Export(Model(prog)).edges = (Contents(prog) \cup Files(prog)) \cup ImplementsEdges(prog, Model(prog).impls)
        \cup SymbolEdges(prog, Model(prog).deps) \cup PackageEdges(prog, Model(prog).deps) \cup CallEdges(prog, Model(prog).calls)
    BY ModelParts DEF Export
<1>5. E.from = NodeOf(d) /\ E.to = NodeOf(e) /\ E.kind \in FlowKinds
    BY DEF Edge, FlowKinds
<1> HIDE DEF E
<1> QED BY <1>3, <1>4, <1>5

LEMMA CrossingsAll ==
  ASSUME NEW prog, NEW E \in Export(Model(prog)).edges, E.kind \in FlowKinds,
         E.from \in {s.node : s \in Symbols(prog)}, E.to \in {s.node : s \in Symbols(prog)}, E.from[2][1] # E.to[2][1]
  PROVE  E \in Side(Model(prog)).crossing
<1>1. E \in Side(Model(prog)).flow
    BY SideParts
<1> QED BY <1>1, SideParts

(* A use from another package comes in on the side. *)
LEMMA UsesComeIn ==
  ASSUME NEW prog, Program(prog), NEW s \in Symbols(prog), s.pkg \in Nested, ~IsInterface(prog, Owner(s.node[2])) \/ Len(s.node[2]) = 2,
         NEW d \in prog, d.pkg # s.pkg, s.node[2] \in Named(d)
  PROVE  CrossIn(Side(Model(prog)), s) # {}
<1> DEFINE side == Side(Model(prog))
<1>1. SUFFICES \E E \in side.crossing : E.to = s.node
    BY <1>1 DEF CrossIn
<1>2. \/ \E t \in Signatures(d) : t.shape \in {"plain", "instance", "map"} /\ s.node[2] \in ToSet(t.refs)
      \/ \E c \in Callers(d) : s.node[2] \in Callees(c.m)
    BY DEF Named
<1>0. /\ Len(s.node[2]) = 2 => \E e \in prog : e.kind \in Graphed /\ s.node = NodeOf(e) /\ s.pkg = e.pkg /\ s.node[2] = IdOf(e)
      /\ Len(s.node[2]) = 3 =>
           \E e \in prog : /\ e.kind \in {"interface", "struct"}
                            /\ \E m \in ToSet(e.methods) : s.node = MethodNode(MemberOf(e, m)) /\ s.pkg = e.pkg /\ s.node[2] = MemberOf(e, m)
  <2>1. \A e : Len(IdOf(e)) = 2 /\ \A m : Len(MemberOf(e, m)) = 3
      BY Identifiers
  <2> HIDE DEF side
  <2> QED BY <2>1, SymbolsAll
<1>3. ASSUME NEW t \in Signatures(d), t.shape \in {"plain", "instance", "map"}, s.node[2] \in ToSet(t.refs)
      PROVE  \E E \in side.crossing : E.to = s.node
  <2>1. t \in TypesIn(d)
      BY DEF Signatures, TypesIn
  <2>2. Declared(prog, s.node[2])
      BY <1>3, <2>1 DEF Program, Compiles
  <2>3. PICK e1 \in prog : s.node[2] = IdOf(e1)
      BY <2>2 DEF Declared, Decls
  <2>4. Len(s.node[2]) = 2
      BY <2>3, Identifiers
  <2>5. PICK e \in prog : e.kind \in Graphed /\ s.node = NodeOf(e) /\ s.pkg = e.pkg /\ s.node[2] = IdOf(e)
      BY <1>0, <2>4
  <2>6. PICK y \in Dependencies(prog) : y.from = IdOf(d) /\ y.to = s.node[2] /\ y.ext = IsExternal(d.pkg, s.node[2])
    <3>1. s.node[2][1] # Root
        BY <2>5, Identifiers, RootAssumption
    <3> QED BY <1>3, <3>1, SignaturesAreDeps
  <2>7. ~y.ext
      BY <2>5, <2>6, Identifiers DEF IsExternal
  <2>8. d.kind \in Graphed
      BY DEF Signatures, Graphed, Types
  <2>9. PICK E \in Export(Model(prog)).edges : E.from = NodeOf(d) /\ E.to = NodeOf(e) /\ E.kind \in FlowKinds
      BY <2>5, <2>6, <2>7, <2>8, DepIsDrawn
  <2>10. E.from \in {x.node : x \in Symbols(prog)} /\ E.to \in {x.node : x \in Symbols(prog)} /\ E.from[2][1] # E.to[2][1]
      BY <2>5, <2>8, <2>9, GraphedNodes
  <2> HIDE DEF side
  <2>11. E \in side.crossing
      BY <2>9, <2>10, CrossingsAll DEF side
  <2> QED BY <2>5, <2>9, <2>11
<1>4. ASSUME NEW c \in Callers(d), s.node[2] \in Callees(c.m)
      PROVE  \E E \in side.crossing : E.to = s.node
  <2>1. PICK k \in ToSet(c.m.calls) : s.node[2] = Target(k)
      BY <1>4, CalleesAll
  <2>2. k \in CallSite /\ c.m \in ToSet(d.methods)
      BY CallersAreTyped
  <2>3. \E e \in prog : \E f \in Callers(e) : f.id = s.node[2] /\ s.node = NodeFor(f.id) /\ s.pkg = e.pkg
    <3>1. CASE k.on = Nowhere
      <4>1. s.node[2] = k.name
          BY <2>1, <3>1 DEF Target
      <4>2. IsFunction(prog, k.name)
          BY <2>2, <3>1 DEF Program, Compiles
      <4>3. PICK e1 \in prog : IdOf(e1) = k.name /\ e1.kind = "func"
          BY <4>2 DEF IsFunction, Decls
      <4>4. Len(s.node[2]) = 2
          BY <4>1, <4>3, Identifiers
      <4>5. PICK e \in prog : e.kind \in Graphed /\ s.node = NodeOf(e) /\ s.pkg = e.pkg /\ s.node[2] = IdOf(e)
          BY <1>0, <4>4
      <4>6. e.kind = "func"
          BY <4>1, <4>3, <4>5 DEF Program, Compiles
      <4>7. s.node = <<"fn", IdOf(e)>> /\ NodeFor(IdOf(e)) = <<"fn", IdOf(e)>>
        <5>1. Len(IdOf(e)) = 2
            BY Identifiers
        <5> QED BY <4>5, <4>6, <5>1 DEF NodeOf, NodeFor
      <4> DEFINE f == [id |-> IdOf(e), m |-> e.methods[1]]
      <4>8. f \in Callers(e) /\ f.id = IdOf(e)
          BY <4>6 DEF Callers
      <4> HIDE DEF f
      <4> QED BY <4>5, <4>7, <4>8
    <3>2. CASE k.on # Nowhere
      <4>1. k.on \in SymbolRef
          BY <2>2, <3>2 DEF CallSite
      <4>2. s.node[2] = <<k.on[1], k.on[2], k.name>>
          BY <2>1, <3>2, <4>1, AppendedName DEF Target
      <4>3. Len(s.node[2]) = 3
          BY <4>2
      <4>4. PICK e \in prog : /\ e.kind \in {"interface", "struct"}
                              /\ \E m \in ToSet(e.methods) : s.node = MethodNode(MemberOf(e, m)) /\ s.pkg = e.pkg /\ s.node[2] = MemberOf(e, m)
          BY <1>0, <4>3
      <4>5. PICK m \in ToSet(e.methods) : s.node = MethodNode(MemberOf(e, m)) /\ s.pkg = e.pkg /\ s.node[2] = MemberOf(e, m)
          BY <4>4
      <4>6. Owner(s.node[2]) = IdOf(e)
          BY <4>5, Identifiers DEF Owner
      <4>7. e.kind = "struct"
          BY <4>3, <4>4, <4>6 DEF IsInterface, Decls
      <4> DEFINE f == [id |-> MemberOf(e, m), m |-> m]
      <4>8. f \in Callers(e) /\ f.id = MemberOf(e, m)
          BY <4>7 DEF Callers
      <4>9. NodeFor(f.id) = MethodNode(f.id)
          BY <4>3, <4>5, <4>8 DEF NodeFor
      <4> HIDE DEF f
      <4> QED BY <4>5, <4>8, <4>9
    <3> QED BY <3>1, <3>2
  <2>4. PICK e \in prog : \E f \in Callers(e) : f.id = s.node[2] /\ s.node = NodeFor(f.id) /\ s.pkg = e.pkg
      BY <2>3
  <2>5. PICK f \in Callers(e) : f.id = s.node[2] /\ s.node = NodeFor(f.id)
      BY <2>4
  <2>6. c.id[1] = d.pkg /\ NodeFor(c.id)[2] = c.id /\ f.id[1] = e.pkg /\ NodeFor(f.id)[2] = f.id
      BY CallerNodes
  <2>7. PICK x \in Calls(prog) : x.from = c.id /\ x.to = f.id
      BY <2>1, <2>5, CallIsRead
  <2> DEFINE E == Edge(NodeFor(c.id), NodeFor(f.id), "calls")
  <2>8. E \in Export(Model(prog)).edges
      BY <2>4, <2>6, <2>7, CallIsDrawn
  <2>9. E.from = NodeFor(c.id) /\ E.to = NodeFor(f.id) /\ E.kind \in FlowKinds
      BY DEF Edge, FlowKinds
  <2> HIDE DEF E
  <2>10. E.from \in {y.node : y \in Symbols(prog)} /\ E.to \in {y.node : y \in Symbols(prog)} /\ E.from[2][1] # E.to[2][1]
      BY <2>4, <2>6, <2>9, CallerNodes
  <2> HIDE DEF side
  <2>11. E \in side.crossing
      BY <2>8, <2>9, <2>10, CrossingsAll DEF side
  <2> QED BY <2>5, <2>9, <2>11
<1> QED BY <1>2, <1>3, <1>4

(* What another package names in a signature or calls is not reported as unused          *)
(* (unusedExports).                                                                       *)
THEOREM UsedExportsAreKeptHolds == ReviewSpec => []UsedExportsAreKept
<1>1. ReviewIInv => UsedExportsAreKept
  <2> SUFFICES ASSUME ReviewIInv, base = head,
                      NEW s \in UnusedExports(Side(Model(head)), {x.node : x \in Side(Model(head)).symbols}),
                      s.pkg \in Nested, ~IsInterface(head, Owner(s.node[2])) \/ Len(s.node[2]) = 2,
                      NEW d \in head, d.pkg # s.pkg, s.node[2] \in Named(d)
               PROVE  FALSE
      BY DEF UsedExportsAreKept
  <2>1. s \in Symbols(head) /\ CrossIn(Side(Model(head)), s) = {}
      BY SideParts DEF UnusedExports
  <2>2. CrossIn(Side(Model(head)), s) # {}
      BY <2>1, BothArePrograms, UsesComeIn
  <2> QED BY <2>1, <2>2
<1> QED BY <1>1, ProgramsCompile, PTL

(***************************************************************************)
(* The typed graph has the nodes its edges join.                           *)
(***************************************************************************)
Tuple(id) == (\E a, b : id = <<a, b>>) \/ (\E a, b, c : id = <<a, b, c>>)

LEMMA SymbolNodes ==
  ASSUME NEW prog
  PROVE  /\ {s.node : s \in Symbols(prog)} \subseteq Export(Model(prog)).nodes
         /\ {PackageNode(p) : p \in Packages(prog)} \subseteq Export(Model(prog)).nodes
         /\ \A e \in Contents(prog) \cup Files(prog) : e.to \in Export(Model(prog)).nodes
<1>1. Export(Model(prog)).nodes = {PackageNode(p) : p \in Packages(prog)} \cup {e.to : e \in Contents(prog) \cup Files(prog)}
    BY ModelParts DEF Export
<1>2. \A from, to, kind : Edge(from, to, kind).to = to
    BY DEF Edge
<1>3. ASSUME NEW d \in prog, d.kind \in Graphed PROVE \E e \in Contents(prog) : e.to = NodeOf(d)
  <2>1. Edge(PackageNode(d.pkg), NodeOf(d), "contains") \in Contents(prog)
      BY <1>3 DEF Contents, OfKind
  <2> QED BY <1>2, <2>1
<1>4. ASSUME NEW d \in prog, d.kind \in {"interface", "struct"}, NEW m \in ToSet(d.methods)
      PROVE  \E e \in Contents(prog) : e.to = MethodNode(MemberOf(d, m))
  <2> DEFINE Of(x) == {Edge(NodeOf(x), MethodNode(MemberOf(x, y)), "contains") : y \in ToSet(x.methods)}
  <2>1. UNION {Of(x) : x \in OfKind(prog, {"interface", "struct"})} \subseteq Contents(prog)
      BY DEF Contents
  <2>2. Edge(NodeOf(d), MethodNode(MemberOf(d, m)), "contains") \in Of(d)
      OBVIOUS
  <2>3. d \in OfKind(prog, {"interface", "struct"})
      BY <1>4 DEF OfKind
  <2> HIDE DEF Of
  <2> QED BY <1>2, <2>1, <2>2, <2>3
<1>5. \A s \in Symbols(prog) : \E e \in Contents(prog) : e.to = s.node
    BY <1>3, <1>4, SymbolsAll
<1> QED BY <1>1, <1>5

(* A name resolves to a node. *)
LEMMA ResolvedNodes ==
  ASSUME NEW prog, NEW id, Tuple(id), NEW n \in Resolved(prog, id)
  PROVE  n \in {s.node : s \in Symbols(prog)} /\ n[2] = id
<1>1. CASE Len(id) = 3
  <2>1. n = MethodNode(id) /\ HasMember(prog, id)
      BY <1>1 DEF Resolved
  <2>2. PICK a, b, c : id = <<a, b, c>>
      BY <1>1 DEF Tuple
  <2>3. PICK d \in prog : /\ IdOf(d) = SubSeq(id, 1, 2) /\ d.kind \in {"interface", "struct"}
                          /\ \E m \in ToSet(d.methods) : m.name = id[3]
      BY <2>1 DEF HasMember, Decls
  <2>4. PICK m \in ToSet(d.methods) : m.name = id[3]
      BY <2>3
  <2>5. SubSeq(id, 1, 2) = <<a, b>> /\ id[3] = c
    <3> DEFINE decl == [pkg |-> a, name |-> b]
               M == [name |-> c]
    <3>1. MemberOf(decl, M) = id /\ IdOf(decl) = <<a, b>>
        BY <2>2 DEF MemberOf, IdOf
    <3>2. SubSeq(MemberOf(decl, M), 1, 2) = IdOf(decl)
        BY Identifiers
    <3>3. id[3] = c
        BY <2>2
    <3> HIDE DEF decl, M
    <3> QED BY <3>1, <3>2, <3>3
  <2>6. MemberOf(d, m) = id
      BY <2>2, <2>3, <2>4, <2>5 DEF MemberOf, IdOf
  <2> DEFINE Of(x) == {[node |-> MethodNode(MemberOf(x, y)), pkg |-> x.pkg, exported |-> x.exported /\ y.exported] : y \in ToSet(x.methods)}
             s == [node |-> MethodNode(MemberOf(d, m)), pkg |-> d.pkg, exported |-> d.exported /\ m.exported]
  <2>7. s \in Of(d) /\ s.node = n
      BY <2>1, <2>6
  <2>8. UNION {Of(x) : x \in OfKind(prog, {"interface", "struct"})} \subseteq Symbols(prog)
      BY DEF Symbols
  <2>9. d \in OfKind(prog, {"interface", "struct"})
      BY <2>3 DEF OfKind
  <2> HIDE DEF Of, s
  <2>10. s \in Symbols(prog)
      BY <2>7, <2>8, <2>9
  <2> QED BY <2>1, <2>7, <2>10 DEF MethodNode
<1>2. CASE Len(id) # 3
  <2>1. PICK d \in prog : IdOf(d) = id /\ d.kind \in Graphed /\ n = NodeOf(d)
      BY <1>2 DEF Resolved, Decls
  <2> DEFINE s == [node |-> NodeOf(d), pkg |-> d.pkg, exported |-> d.exported]
  <2>2. s \in Symbols(prog) /\ s.node = n
      BY <2>1 DEF Symbols, OfKind
  <2> HIDE DEF s
  <2> QED BY <2>1, <2>2 DEF NodeOf
<1> QED BY <1>1, <1>2

LEMMA Tuples ==
  /\ \A d : Tuple(IdOf(d)) /\ \A m : Tuple(MemberOf(d, m))
  /\ \A id \in SymbolRef : Tuple(id) /\ Len(id) = 2 /\ id = <<id[1], id[2]>>
  /\ \A a, b : Tuple(<<a, b>>)
  /\ \A a, b, c : Tuple(<<a, b, c>>)
<1>1. \A id \in SymbolRef : id = <<id[1], id[2]>>
    BY DEF SymbolRef
<1>2. \A a, b : Len(<<a, b>>) = 2
    OBVIOUS
<1>3. \A id \in SymbolRef : Len(id) = 2
    BY <1>1, <1>2
<1> QED BY <1>1, <1>3 DEF Tuple, IdOf, MemberOf

LEMMA DependencyEnds ==
  ASSUME NEW prog, Program(prog), NEW d \in prog, NEW x \in DepsFor(d)
  PROVE  Tuple(x.from) /\ Tuple(x.to) /\ Len(x.to) = 2
<1>1. Tuple(x.from)
    BY DependentsAreNamed, Tuples
<1>2. d.pkg \in STRING
    BY DEF Program, WellFormed, Declaration
<1>3. x.to \in SymbolRef \/ x.to = <<d.pkg, Loose>>
  <2>1. \A from, to, kind, exp : Dep(from, to, kind, exp).to = to
      BY DEF Dep
  <2>2. \A t \in TypeRef : \A r \in ToSet(SymbolRefs(d.pkg, t)) : r \in SymbolRef \/ r = <<d.pkg, Loose>>
    <3> SUFFICES ASSUME NEW t \in TypeRef, NEW r \in ToSet(SymbolRefs(d.pkg, t)) PROVE r \in SymbolRef \/ r = <<d.pkg, Loose>>
        OBVIOUS
    <3>1. CASE r = <<d.pkg, Loose>>
        BY <3>1
    <3>2. CASE \E q \in ToSet(t.refs) : r = Localised(d.pkg, q)
      <4>1. PICK q \in SymbolRef : r = Localised(d.pkg, q)
          BY <3>2, RefsAll
      <4> QED BY <4>1, <1>2 DEF Localised, SymbolRef
    <3> QED BY <3>1, <3>2, RefsAll
  <2>3. \A S : \A s \in Seq(S) : ToSet(s) \subseteq S
      BY Sequences
  <2>4. ASSUME NEW m, m.params \in Seq(TypeRef), m.returns \in Seq(TypeRef), NEW from, from[1] = d.pkg, NEW exp,
               x \in ToSet(MethodDeps(from, m, exp))
        PROVE  x.to \in SymbolRef \/ x.to = <<d.pkg, Loose>>
    <3>1. PICK t \in TypeRef : \E r \in ToSet(SymbolRefs(d.pkg, t)) : x = Dep(from, r, "uses", exp) \/ x = Dep(from, r, "returns", exp)
      <4>1. \A t \in ToSet(m.params) \cup ToSet(m.returns) : t \in TypeRef
          BY <2>3, <2>4
      <4> QED BY <2>4, <4>1, MethodDepsAll
    <3> QED BY <2>1, <2>2, <3>1
  <2>5. CASE x \in BodyDeps(d)
    <3>1. PICK m \in ToSet(d.methods) : \E t \in ToSet(m.uses) : \E r \in ToSet(t.refs) : x = BodyUse(d, m, r)
        BY <2>5, BodiesAll
    <3>2. ToSet(m.uses) \subseteq TypeRef
        BY <2>3, TypedMethods
    <3>3. PICK t \in TypeRef : \E r \in ToSet(t.refs) : x = BodyUse(d, m, r)
        BY <3>1, <3>2
    <3>4. \A r : BodyUse(d, m, r).to = r
        BY DEF BodyUse
    <3>5. x.to \in ToSet(t.refs)
        BY <3>3, <3>4
    <3> QED BY <3>5, RefsAll
  <2>6. CASE x \in FirstOfKey(Candidates(d))
    <3>1. x \in ToSet(Candidates(d))
        BY <2>6, CandidatesAll, FirstsAll
    <3>2. IdOf(d)[1] = d.pkg /\ \A m : MemberOf(d, m)[1] = d.pkg
        BY Identifiers
    <3>3. CASE FieldDep(d, x)
      <4>1. PICK f \in ToSet(d.fields) : \E r \in ToSet(SymbolRefs(d.pkg, f.type)) : x = Dep(IdOf(d), r, "uses", d.exported /\ f.exported)
          BY <3>3 DEF FieldDep
      <4>2. f.type \in TypeRef
          BY TypedMethods DEF FieldDef
      <4>3. x.to \in ToSet(SymbolRefs(d.pkg, f.type))
          BY <2>1, <4>1
      <4> QED BY <2>2, <4>2, <4>3
    <3>4. CASE MethodDep(d, x)
      <4>1. PICK m \in ToSet(d.methods) : \E from \in {IdOf(d), MemberOf(d, m)} : x \in ToSet(MethodDeps(from, m, d.exported /\ m.exported))
          BY <3>4 DEF MethodDep
      <4>2. m.params \in Seq(TypeRef) /\ m.returns \in Seq(TypeRef)
          BY TypedMethods
      <4>3. PICK from \in {IdOf(d), MemberOf(d, m)} : x \in ToSet(MethodDeps(from, m, d.exported /\ m.exported))
          BY <4>1
      <4> DEFINE exp == d.exported /\ m.exported
      <4>4. x \in ToSet(MethodDeps(from, m, exp)) /\ from[1] = d.pkg
          BY <3>2, <4>3
      <4> HIDE DEF exp
      <4> QED BY <2>4, <4>2, <4>4
    <3>5. CASE FuncDep(d, x)
      <4>1. d.methods[1].params \in Seq(TypeRef) /\ d.methods[1].returns \in Seq(TypeRef)
          BY <3>5, TypedMethods DEF FuncDep
      <4> QED BY <2>4, <3>2, <3>5, <4>1 DEF FuncDep
    <3>6. CASE ValueDep(d, x)
      <4>1. \E t \in ToSet(d.types) : \E r \in ToSet(SymbolRefs(d.pkg, t)) : x = Dep(IdOf(d), r, "uses", d.exported)
          BY <3>2, <3>6, DepsOnAll, TypedMethods DEF ValueDep
      <4>2. PICK t \in ToSet(d.types) : x.to \in ToSet(SymbolRefs(d.pkg, t))
          BY <2>1, <4>1
      <4>3. t \in TypeRef
          BY TypedMethods
      <4> QED BY <2>2, <4>2, <4>3
    <3> QED BY <3>1, <3>3, <3>4, <3>5, <3>6, CandidatesAll
  <2> QED BY <2>5, <2>6 DEF DepsFor
<1> QED BY <1>1, <1>3, Tuples

LEMMA ImplementationsAll ==
  ASSUME NEW prog, NEW i \in Implementations(prog)
  PROVE  \E c, j \in prog : i.concrete = IdOf(c) /\ i.iface = IdOf(j) /\ c.kind \in {"struct", "typedef"} /\ j.kind = "interface"
<1> DEFINE Of(j) == {[concrete |-> IdOf(c), iface |-> IdOf(j)] : c \in {c \in OfKind(prog, {"struct", "typedef"}) : Implements(prog, c, j)}}
<1>1. Implementations(prog) = UNION {Of(j) : j \in {j \in OfKind(prog, {"interface"}) : j.exported /\ j.methods # <<>>}}
    BY DEF Implementations
<1> HIDE DEF Of
<1>2. PICK j \in prog : j.kind = "interface" /\ i \in Of(j)
    BY <1>1 DEF OfKind
<1>3. PICK c \in prog : c.kind \in {"struct", "typedef"} /\ i = [concrete |-> IdOf(c), iface |-> IdOf(j)]
    BY <1>2 DEF Of, OfKind
<1> QED BY <1>2, <1>3

(* What a call is read as: a function, or a member. *)
LEMMA TargetsAll ==
  ASSUME NEW prog, Program(prog), NEW d \in prog, NEW c \in Callers(d), NEW k \in ToSet(c.m.calls), NEW t \in CallTargets(prog, k)
  PROVE  \/ \E e \in prog : e.kind = "func" /\ t.to = IdOf(e)
         \/ \E a, b, n : t.to = <<a, b, n>>
<1>1. k \in CallSite /\ c.m \in ToSet(d.methods)
    BY CallersAreTyped
<1>2. CASE k.on = Nowhere
  <2>1. IsFunction(prog, k.name)
      BY <1>1, <1>2 DEF Program, Compiles
  <2>2. t.to = k.name
      BY <1>2 DEF CallTargets
  <2> QED BY <2>1, <2>2 DEF IsFunction, Decls
<1>3. CASE k.on # Nowhere
  <2>1. CASE IsInterface(prog, k.on)
    <3>1. PICK i \in Implementations(prog) : t = [to |-> Append(i.concrete, k.name), via |-> k.on]
        BY <1>3, <2>1 DEF CallTargets, SelectorTargets
    <3>2. PICK e \in prog : i.concrete = IdOf(e)
        BY ImplementationsAll
    <3>3. IdOf(e) \in SymbolRef
        BY DEF Program, WellFormed, Declaration, SymbolRef, IdOf
    <3>4. t.to = Append(IdOf(e), k.name)
        BY <3>1, <3>2
    <3>5. Append(IdOf(e), k.name) = <<IdOf(e)[1], IdOf(e)[2], k.name>>
        BY <3>3, AppendedName
    <3> QED BY <3>4, <3>5
  <2>2. CASE ~IsInterface(prog, k.on)
    <3>1. PICK o \in DeclaringType(prog, k.on, k.name) : t = [to |-> <<o[1], k.on[2], k.name>>, via |-> Nowhere]
        BY <1>3, <2>2 DEF CallTargets, SelectorTargets
    <3> QED BY <3>1
  <2> QED BY <2>1, <2>2
<1> QED BY <1>2, <1>3

LEMMA CallEnds ==
  ASSUME NEW prog, Program(prog), NEW x \in Calls(prog)
  PROVE  /\ \E d \in prog : \E c \in Callers(d) : x.from = c.id
         /\ (\E e \in prog : e.kind = "func" /\ x.to = IdOf(e)) \/ \E a, b, n : x.to = <<a, b, n>>
         /\ Tuple(x.to)
<1>1. PICK d \in prog : \E c \in Callers(d) : \E k \in ToSet(c.m.calls) : \E t \in CallTargets(prog, k) :
        x = [from |-> c.id, to |-> t.to, via |-> t.via]
    BY CallsAll
<1>2. PICK c \in Callers(d) : \E k \in ToSet(c.m.calls) : \E t \in CallTargets(prog, k) :
        x = [from |-> c.id, to |-> t.to, via |-> t.via]
    BY <1>1
<1>3. PICK k \in ToSet(c.m.calls) : \E t \in CallTargets(prog, k) : x = [from |-> c.id, to |-> t.to, via |-> t.via]
    BY <1>2
<1>4. PICK t \in CallTargets(prog, k) : x = [from |-> c.id, to |-> t.to, via |-> t.via]
    BY <1>3
<1>5. x.from = c.id /\ x.to = t.to
    BY <1>4
<1>6. (\E e \in prog : e.kind = "func" /\ x.to = IdOf(e)) \/ \E a, b, n : x.to = <<a, b, n>>
    BY <1>5, TargetsAll
<1> QED BY <1>5, <1>6, Tuples DEF Tuple

LEMMA JoinedAll ==
  ASSUME NEW froms, NEW tos, NEW kind
  PROVE  \A e : e \in Joined(froms, tos, kind) <=> \E a \in froms, b \in tos : a # b /\ e = Edge(a, b, kind)
<1>1. \A e : e \in Joined(froms, tos, kind) <=> \E p \in froms \X tos : p[1] # p[2] /\ e = Edge(p[1], p[2], kind)
    BY DEF Joined
<1>2. \A p \in froms \X tos : p[1] \in froms /\ p[2] \in tos
    OBVIOUS
<1>3. ASSUME NEW a \in froms, NEW b \in tos PROVE \E p \in froms \X tos : p[1] = a /\ p[2] = b
  <2>1. <<a, b>> \in froms \X tos /\ <<a, b>>[1] = a /\ <<a, b>>[2] = b
      OBVIOUS
  <2> QED BY <2>1
<1> QED BY <1>1, <1>2, <1>3

LEMMA ExportedEdges ==
  ASSUME NEW prog
  PROVE  \A e : e \in Export(Model(prog)).edges <=>
           \/ e \in Contents(prog) \cup Files(prog)
           \/ e \in ImplementsEdges(prog, Implementations(prog))
           \/ e \in SymbolEdges(prog, Dependencies(prog))
           \/ e \in PackageEdges(prog, Dependencies(prog))
           \/ e \in CallEdges(prog, Calls(prog))
BY ModelParts DEF Export

LEMMA ContentsAll ==
  ASSUME NEW prog, NEW e \in Contents(prog) \cup Files(prog)
  PROVE  /\ e.kind = "contains"
         /\ \E d \in prog : d.kind \in Graphed /\ e.from \in {PackageNode(d.pkg), NodeOf(d), FileNode(d)}
<1> DEFINE A(d) == Edge(PackageNode(d.pkg), NodeOf(d), "contains")
           B(d) == {Edge(NodeOf(d), MethodNode(MemberOf(d, m)), "contains") : m \in ToSet(d.methods)}
           C(d) == {Edge(NodeOf(d), FieldNode(d, f), "contains") : f \in ToSet(d.fields)}
           F(d) == {Edge(PackageNode(d.pkg), FileNode(d), "contains"), Edge(FileNode(d), NodeOf(d), "contains")}
<1>1. Contents(prog) = {A(d) : d \in OfKind(prog, Graphed)} \cup (UNION {B(d) : d \in OfKind(prog, {"interface", "struct"})})
                         \cup (UNION {C(d) : d \in OfKind(prog, {"struct"})})
    BY DEF Contents
<1>2. Files(prog) = UNION {F(d) : d \in OfKind(prog, Graphed)}
    BY DEF Files
<1>3. \A k : \A d \in OfKind(prog, k) : d \in prog /\ d.kind \in k
    BY DEF OfKind
<1>4. {"interface", "struct"} \subseteq Graphed /\ {"struct"} \subseteq Graphed
    BY DEF Graphed, Types
<1>5. \A d : \A x \in {A(d)} \cup B(d) \cup C(d) \cup F(d) : x.kind = "contains" /\ x.from \in {PackageNode(d.pkg), NodeOf(d), FileNode(d)}
    BY DEF Edge
<1> HIDE DEF A, B, C, F
<1>6. PICK d \in prog : d.kind \in Graphed /\ e \in {A(d)} \cup B(d) \cup C(d) \cup F(d)
    BY <1>1, <1>2, <1>3, <1>4
<1> QED BY <1>5, <1>6

LEMMA ExportSucceeds ==
  ASSUME NEW prog, Program(prog)
  PROVE  BuildSucceeds(Export(Model(prog)))
<1> DEFINE nodes == Export(Model(prog)).nodes
           symbols == {s.node : s \in Symbols(prog)}
<1>1. symbols \subseteq nodes /\ (\A p \in Packages(prog) : PackageNode(p) \in nodes) /\ \A e \in Contents(prog) \cup Files(prog) : e.to \in nodes
    BY SymbolNodes
<1>2. SUFFICES ASSUME NEW e \in Export(Model(prog)).edges PROVE e.from \in nodes /\ e.to \in nodes
    BY <1>2 DEF BuildSucceeds
<1>3. \A a, b, kind : Edge(a, b, kind).from = a /\ Edge(a, b, kind).to = b
    BY DEF Edge
<1>4. CASE e \in Contents(prog) \cup Files(prog)
  <2>1. PICK d \in prog : d.kind \in Graphed /\ e.from \in {PackageNode(d.pkg), NodeOf(d), FileNode(d)}
      BY <1>4, ContentsAll
  <2>2. PackageNode(d.pkg) \in nodes
      BY <1>1 DEF Packages
  <2>3. NodeOf(d) \in nodes
    <3> DEFINE s == [node |-> NodeOf(d), pkg |-> d.pkg, exported |-> d.exported]
    <3>1. s \in Symbols(prog) /\ s.node = NodeOf(d)
        BY <2>1 DEF Symbols, OfKind
    <3> HIDE DEF s, nodes
    <3> QED BY <1>1, <3>1
  <2>4. FileNode(d) \in nodes
    <3> DEFINE F(x) == {Edge(PackageNode(x.pkg), FileNode(x), "contains"), Edge(FileNode(x), NodeOf(x), "contains")}
    <3>1. Files(prog) = UNION {F(x) : x \in OfKind(prog, Graphed)}
        BY DEF Files
    <3>2. d \in OfKind(prog, Graphed) /\ Edge(PackageNode(d.pkg), FileNode(d), "contains") \in F(d)
        BY <2>1 DEF OfKind
    <3> HIDE DEF F, nodes
    <3>3. Edge(PackageNode(d.pkg), FileNode(d), "contains") \in Files(prog)
        BY <3>1, <3>2
    <3> QED BY <1>1, <1>3, <3>3
  <2> HIDE DEF nodes
  <2> QED BY <1>1, <1>4, <2>1, <2>2, <2>3, <2>4
<1> HIDE DEF nodes
<1>5. CASE e \in ImplementsEdges(prog, Implementations(prog))
  <2>1. PICK i \in Implementations(prog) : /\ \E d \in Decls(prog, i.concrete) : d.kind = "struct"
                                           /\ e = Edge(<<"type", i.concrete>>, <<"type", i.iface>>, "implements")
      BY <1>5 DEF ImplementsEdges
  <2>2. PICK d \in prog : d.kind = "struct" /\ IdOf(d) = i.concrete
      BY <2>1 DEF Decls
  <2>3. PICK j \in prog : j.kind = "interface" /\ IdOf(j) = i.iface
      BY ImplementationsAll
  <2>4. e.from = NodeOf(d) /\ e.to = NodeOf(j)
      BY <1>3, <2>1, <2>2, <2>3 DEF NodeOf
  <2>5. d.kind \in Graphed /\ j.kind \in Graphed
      BY <2>2, <2>3 DEF Graphed, Types
  <2>6. NodeOf(d) \in symbols /\ NodeOf(j) \in symbols
      BY <2>5, GraphedNodes
  <2> QED BY <1>1, <2>4, <2>6
<1>6. CASE e \in SymbolEdges(prog, Dependencies(prog))
  <2>1. PICK x \in Dependencies(prog) : \E kind : e \in Joined(Resolved(prog, x.from), Resolved(prog, x.to), kind)
      BY <1>6 DEF SymbolEdges
  <2>2. e.from \in Resolved(prog, x.from) /\ e.to \in Resolved(prog, x.to)
      BY <1>3, <2>1, JoinedAll
  <2>3. Tuple(x.from) /\ Tuple(x.to)
      BY DependenciesAll, DependencyEnds
  <2> HIDE DEF symbols
  <2>4. e.from \in symbols /\ e.to \in symbols
      BY <2>2, <2>3, ResolvedNodes DEF symbols
  <2> QED BY <1>1, <2>4
<1>7. CASE e \in PackageEdges(prog, Dependencies(prog))
  <2>1. PICK x \in Dependencies(prog) : x.to[1] \in Packages(prog) /\ e = Edge(PackageNode(x.from[1]), PackageNode(x.to[1]), "dependsOn")
      BY <1>7 DEF PackageEdges
  <2>2. x.from[1] \in Packages(prog)
      BY DependenciesAll, DependentsAreNamed DEF Packages
  <2> QED BY <1>1, <1>3, <2>1, <2>2
<1>8. CASE e \in CallEdges(prog, Calls(prog))
  <2>1. PICK x \in Calls(prog) : e \in Joined({NodeFor(x.from)}, CallTarget(prog, x.to), "calls")
      BY <1>8 DEF CallEdges, NodeFor
  <2>2. e.from = NodeFor(x.from) /\ e.to \in CallTarget(prog, x.to)
      BY <1>3, <2>1, JoinedAll
  <2>3. e.to \in Resolved(prog, x.to)
      BY <2>2 DEF CallTarget
  <2>4. e.to \in symbols
      BY <2>3, CallEnds, ResolvedNodes
  <2>5. e.from \in symbols
      BY <2>2, CallEnds, CallerNodes
  <2> QED BY <1>1, <2>4, <2>5
<1> QED BY <1>4, <1>5, <1>6, <1>7, <1>8, ExportedEdges

(***************************************************************************)
(* The two graphs of calls.                                                *)
(***************************************************************************)
LEMMA ExportedCalls ==
  ASSUME NEW prog
  PROVE  \A e : e \in Export(Model(prog)).edges /\ e.kind = "calls" <=>
           \E x \in Calls(prog) : \E n \in CallTarget(prog, x.to) : NodeFor(x.from) # n /\ e = Edge(NodeFor(x.from), n, "calls")
<1>1. \A a, b, kind : Edge(a, b, kind).kind = kind
    BY DEF Edge
<1>2. \A e : e \in CallEdges(prog, Calls(prog)) <=>
        \E x \in Calls(prog) : e \in Joined({NodeFor(x.from)}, CallTarget(prog, x.to), "calls")
    BY DEF CallEdges, NodeFor
<1>3. \A e : e \in CallEdges(prog, Calls(prog)) <=>
        \E x \in Calls(prog) : \E n \in CallTarget(prog, x.to) : NodeFor(x.from) # n /\ e = Edge(NodeFor(x.from), n, "calls")
  <2>1. \A a, T : \A e : e \in Joined({a}, T, "calls") <=> \E n \in T : a # n /\ e = Edge(a, n, "calls")
    <3> SUFFICES ASSUME NEW a, NEW T PROVE \A e : e \in Joined({a}, T, "calls") <=> \E n \in T : a # n /\ e = Edge(a, n, "calls")
        OBVIOUS
    <3>1. \A e : e \in Joined({a}, T, "calls") <=> \E x \in {a}, n \in T : x # n /\ e = Edge(x, n, "calls")
        BY JoinedAll
    <3> QED BY <3>1
  <2>2. \A x, e : e \in Joined({NodeFor(x.from)}, CallTarget(prog, x.to), "calls")
                   <=> \E n \in CallTarget(prog, x.to) : NodeFor(x.from) # n /\ e = Edge(NodeFor(x.from), n, "calls")
    <3> TAKE x, e
    <3> DEFINE a == NodeFor(x.from)
               T == CallTarget(prog, x.to)
    <3>1. e \in Joined({a}, T, "calls") <=> \E n \in T : a # n /\ e = Edge(a, n, "calls")
      <4> HIDE DEF a, T
      <4> QED BY <2>1
    <3> QED BY <3>1
  <2>3. ASSUME NEW e \in CallEdges(prog, Calls(prog))
        PROVE  \E x \in Calls(prog) : \E n \in CallTarget(prog, x.to) : NodeFor(x.from) # n /\ e = Edge(NodeFor(x.from), n, "calls")
    <3>1. PICK x \in Calls(prog) : e \in Joined({NodeFor(x.from)}, CallTarget(prog, x.to), "calls")
        BY <1>2
    <3> QED BY <2>2, <3>1
  <2>4. ASSUME NEW e, NEW x \in Calls(prog), NEW n \in CallTarget(prog, x.to), NodeFor(x.from) # n, e = Edge(NodeFor(x.from), n, "calls")
        PROVE  e \in CallEdges(prog, Calls(prog))
    <3>1. e \in Joined({NodeFor(x.from)}, CallTarget(prog, x.to), "calls")
        BY <2>2, <2>4
    <3> QED BY <1>2, <3>1
  <2> QED BY <2>3, <2>4
<1>4. \A e \in Contents(prog) \cup Files(prog) : e.kind = "contains"
    BY ContentsAll
<1>5. \A e \in ImplementsEdges(prog, Implementations(prog)) : e.kind = "implements"
  <2>1. \A e \in ImplementsEdges(prog, Implementations(prog)) : \E a, b : e = Edge(a, b, "implements")
      BY DEF ImplementsEdges
  <2> QED BY <2>1 DEF Edge
<1>6. \A e \in SymbolEdges(prog, Dependencies(prog)) : e.kind \in {"usesType", "returns"}
  <2> DEFINE Of(x) == Joined(Resolved(prog, x.from), Resolved(prog, x.to), IF x.kind = "uses" THEN "usesType" ELSE "returns")
  <2>1. SymbolEdges(prog, Dependencies(prog)) = UNION {Of(x) : x \in {x \in Dependencies(prog) : ~x.ext}}
      BY DEF SymbolEdges
  <2>2. \A x : \A e \in Of(x) : e.kind \in {"usesType", "returns"}
      BY <1>1, JoinedAll
  <2> HIDE DEF Of
  <2> QED BY <2>1, <2>2
<1>7. \A e \in PackageEdges(prog, Dependencies(prog)) : e.kind = "dependsOn"
    BY <1>1 DEF PackageEdges
<1> QED BY <1>1, <1>3, <1>4, <1>5, <1>6, <1>7, ExportedEdges

LEMMA SearchedCalls ==
  ASSUME NEW prog, Program(prog)
  PROVE  /\ SearchGraph(Model(prog)).nodes = SearchNodes(prog)
         /\ \A e : e \in SearchGraph(Model(prog)).edges /\ e.kind = "calls" <=>
              \E x \in Calls(prog) : e \in Joined(Fold(SearchNodes(prog), x.from), Fold(SearchNodes(prog), x.to), "calls")
<1> DEFINE into(N, from, to, kind) == Joined(Fold(N, from), Fold(N, to), kind)
           ofDeps(N, deps) == UNION {into(N, d.from, d.to, d.kind) : d \in {d \in deps : ~d.ext}}
           ofImpls(N, impls) == UNION {into(N, i.concrete, i.iface, "implements") : i \in impls}
           ofCalls(N, cs) == UNION {into(N, c.from, c.to, "calls") : c \in cs}
           ofTypes(N, decls) == UNION {UNION {into(N, IdOf(d), MemberOf(d, x), "contains") : x \in ToSet(d.methods)} : d \in OfKind(decls, {"struct"})}
           nodes == SearchNodes(prog)
           A == ofDeps(nodes, Dependencies(prog))
           B == ofImpls(nodes, Implementations(prog))
           C == ofCalls(nodes, Calls(prog))
           Held == ofTypes(nodes, prog)
<1>0. \A m : SearchGraph(m) = [nodes |-> SearchNodes(m.decls),
                               edges |-> ofDeps(SearchNodes(m.decls), m.deps) \cup ofImpls(SearchNodes(m.decls), m.impls)
                                           \cup ofCalls(SearchNodes(m.decls), m.calls) \cup ofTypes(SearchNodes(m.decls), m.decls)]
    BY DEF SearchGraph
<1>1. SearchGraph(Model(prog)) = [nodes |-> nodes, edges |-> A \cup B \cup C \cup Held]
  <2> HIDE DEF ofDeps, ofImpls, ofCalls, ofTypes
  <2> QED BY <1>0, ModelParts
<1>2. \A N, from, to, kind : \A e \in into(N, from, to, kind) : e.kind = kind
    BY JoinedAll DEF Edge
<1> HIDE DEF into
<1>3. \A e \in A : e.kind \in {"uses", "returns"}
  <2>1. \A d \in Dependencies(prog) : d.kind \in {"uses", "returns"}
      BY DependenciesAll, DependentsAreNamed
  <2> QED BY <1>2, <2>1
<1>4. \A e \in B : e.kind = "implements"
    BY <1>2
<1>5. \A e \in C : e.kind = "calls"
    BY <1>2
<1>6. \A e \in Held : e.kind = "contains"
  <2> SUFFICES ASSUME NEW e \in Held PROVE e.kind = "contains"
      OBVIOUS
  <2> DEFINE Of(d) == UNION {into(nodes, IdOf(d), MemberOf(d, x), "contains") : x \in ToSet(d.methods)}
  <2>1. PICK d : e \in Of(d)
      OBVIOUS
  <2> HIDE DEF Held
  <2> QED BY <1>2, <2>1
<1>7. \A e : e \in C <=> \E x \in Calls(prog) : e \in into(nodes, x.from, x.to, "calls")
    OBVIOUS
<1> HIDE DEF A, B, C, Held
<1>8. SearchGraph(Model(prog)).nodes = nodes /\ SearchGraph(Model(prog)).edges = A \cup B \cup C \cup Held
    BY <1>1
<1>9. \A e : e \in SearchGraph(Model(prog)).edges /\ e.kind = "calls" <=> e \in C
    BY <1>3, <1>4, <1>5, <1>6, <1>8
<1> QED BY <1>7, <1>8, <1>9 DEF into

Callable(prog) == MethodsOf(prog) \cup {IdOf(d) : d \in OfKind(prog, {"func"})}

LEMMA CallableAll ==
  ASSUME NEW prog
  PROVE  /\ \A b \in MethodsOf(prog) : \E d \in prog : d.kind = "struct" /\ \E m \in ToSet(d.methods) : b = MemberOf(d, m)
         /\ \A d \in prog : d.kind = "struct" => \A m \in ToSet(d.methods) : MemberOf(d, m) \in MethodsOf(prog)
         /\ \A b \in Callable(prog) : Len(b) = 2 => \E d \in prog : d.kind = "func" /\ b = IdOf(d)
         /\ \A b \in SearchNodes(prog) : Len(b) = 3 => b \in MethodsOf(prog)
         /\ \A b \in MethodsOf(prog) : Len(b) = 3
<1> DEFINE Of(d) == {MemberOf(d, m) : m \in ToSet(d.methods)}
<1>1. MethodsOf(prog) = UNION {Of(d) : d \in OfKind(prog, {"struct"})}
    BY DEF MethodsOf
<1>2. \A d : \A b : b \in Of(d) <=> \E m \in ToSet(d.methods) : b = MemberOf(d, m)
    OBVIOUS
<1> HIDE DEF Of
<1>3. \A b : b \in MethodsOf(prog) <=> \E d \in prog : d.kind = "struct" /\ \E m \in ToSet(d.methods) : b = MemberOf(d, m)
    BY <1>1, <1>2 DEF OfKind
<1>4. \A d : Len(IdOf(d)) = 2 /\ \A m : Len(MemberOf(d, m)) = 3
    BY Identifiers
<1>5. \A b \in MethodsOf(prog) : Len(b) = 3
    BY <1>3, <1>4
<1>6. \A b \in Callable(prog) : Len(b) = 2 => \E d \in prog : d.kind = "func" /\ b = IdOf(d)
    BY <1>5 DEF Callable, OfKind
<1>7. \A b \in SearchNodes(prog) : Len(b) = 3 => b \in MethodsOf(prog)
    BY <1>4 DEF SearchNodes
<1> QED BY <1>3, <1>5, <1>6, <1>7

(* The callee of a call, as the one graph and the other have it. *)
LEMMA CalleesMatch ==
  ASSUME NEW prog, Program(prog), NEW x \in Calls(prog),
         Len(x.to) = 3 => OfKind(Decls(prog, Owner(x.to)), {"func", "interface"}) = {}, NEW b
  PROVE  (\E n \in CallTarget(prog, x.to) : NodeFor(x.from) # n /\ n[2] = b)
           <=> b \in Fold(SearchNodes(prog), x.to) /\ x.from # b /\ b \in Callable(prog)
<1>1. NodeFor(x.from)[2] = x.from
    BY CallEnds, CallerNodes
<1>2. CASE \E e \in prog : e.kind = "func" /\ x.to = IdOf(e)
  <2>1. PICK e \in prog : e.kind = "func" /\ x.to = IdOf(e)
      BY <1>2
  <2>2. Len(x.to) = 2
      BY <2>1, Identifiers
  <2>3. CallTarget(prog, x.to) = {NodeFor(x.to)} /\ NodeFor(x.to)[2] = x.to
    <3>1. Resolved(prog, IdOf(e)) = {NodeOf(e)}
        BY <2>1, GraphedNodes DEF Graphed
    <3>2. NodeOf(e) = <<"fn", x.to>> /\ NodeFor(x.to) = <<"fn", x.to>>
        BY <2>1, <2>2 DEF NodeOf, NodeFor
    <3> QED BY <2>1, <3>1, <3>2 DEF CallTarget
  <2>4. x.to \in SearchNodes(prog) /\ x.to \in Callable(prog)
      BY <2>1 DEF SearchNodes, Callable, OfKind
  <2>5. Fold(SearchNodes(prog), x.to) = {x.to}
      BY <2>4 DEF Fold
  <2>6. NodeFor(x.from) # NodeFor(x.to) <=> x.from # x.to
      BY <1>1, <2>3
  <2> QED BY <2>3, <2>4, <2>5, <2>6
<1>3. CASE \E a, c, n : x.to = <<a, c, n>>
  <2>1. PICK a, c, n : x.to = <<a, c, n>>
      BY <1>3
  <2>2. Len(x.to) = 3
      BY <2>1
  <2> DEFINE decl == [pkg |-> a, name |-> c]
             M == [name |-> n]
  <2>3. x.to = MemberOf(decl, M) /\ IdOf(decl) = <<a, c>>
      BY <2>1 DEF MemberOf, IdOf
  <2>4. Owner(x.to) = <<a, c>> /\ Front(x.to) = <<a, c>> /\ x.to[3] = n
    <3>1. SubSeq(MemberOf(decl, M), 1, 2) = IdOf(decl) /\ Front(MemberOf(decl, M)) = IdOf(decl)
        BY Identifiers
    <3>2. x.to[3] = n
        BY <2>1
    <3> HIDE DEF decl, M
    <3> QED BY <2>3, <3>1, <3>2 DEF Owner
  <2>5. NodeFor(x.to) = MethodNode(x.to) /\ MethodNode(x.to) = <<"method", x.to>>
      BY <2>2 DEF NodeFor, MethodNode
  <2>6. CallTarget(prog, x.to) = {y \in {MethodNode(x.to)} : HasMember(prog, x.to)}
      BY <2>2, <2>5 DEF CallTarget, Resolved
  <2>7. HasMember(prog, x.to) <=> x.to \in MethodsOf(prog)
    <3>1. ASSUME HasMember(prog, x.to) PROVE x.to \in MethodsOf(prog)
      <4>1. PICK d \in Decls(prog, Owner(x.to)) : d.kind \in {"interface", "struct"} /\ \E m \in ToSet(d.methods) : m.name = n
          BY <2>4, <3>1 DEF HasMember, Owner
      <4>2. d.kind = "struct" /\ d \in prog /\ IdOf(d) = <<a, c>>
          BY <2>2, <2>4, <4>1 DEF OfKind, Decls
      <4>3. PICK m \in ToSet(d.methods) : m.name = n
          BY <4>1
      <4>4. MemberOf(d, m) = x.to
          BY <2>1, <4>2, <4>3 DEF MemberOf, IdOf
      <4> QED BY <4>2, <4>4, CallableAll
    <3>2. ASSUME x.to \in MethodsOf(prog) PROVE HasMember(prog, x.to)
      <4>1. PICK d \in prog : d.kind = "struct" /\ \E m \in ToSet(d.methods) : x.to = MemberOf(d, m)
          BY <3>2, CallableAll
      <4>2. SubSeq(x.to, 1, 2) = IdOf(d) /\ \E m \in ToSet(d.methods) : m.name = x.to[3]
          BY <4>1, Identifiers
      <4> QED BY <4>1, <4>2 DEF HasMember, Decls
    <3> QED BY <3>1, <3>2
  <2>8. CASE x.to \in MethodsOf(prog)
    <3>1. x.to \in SearchNodes(prog) /\ x.to \in Callable(prog)
        BY <2>8 DEF SearchNodes, Callable
    <3>2. Fold(SearchNodes(prog), x.to) = {x.to}
        BY <3>1 DEF Fold
    <3>3. CallTarget(prog, x.to) = {NodeFor(x.to)} /\ NodeFor(x.to)[2] = x.to
        BY <2>5, <2>6, <2>7, <2>8
    <3>4. NodeFor(x.from) # NodeFor(x.to) <=> x.from # x.to
        BY <1>1, <3>3
    <3> QED BY <3>1, <3>2, <3>3, <3>4
  <2>9. CASE x.to \notin MethodsOf(prog)
    <3>1. CallTarget(prog, x.to) = {}
        BY <2>6, <2>7, <2>9
    <3>2. x.to \notin SearchNodes(prog)
        BY <2>2, <2>9, CallableAll
    <3>3. Fold(SearchNodes(prog), x.to) \subseteq {<<a, c>>}
        BY <2>4, <3>2 DEF Fold
    <3>4. <<a, c>> \notin Callable(prog)
      <4> SUFFICES ASSUME <<a, c>> \in Callable(prog) PROVE FALSE
          OBVIOUS
      <4>1. Len(<<a, c>>) = 2
          OBVIOUS
      <4>2. PICK d \in prog : d.kind = "func" /\ <<a, c>> = IdOf(d)
          BY <4>1, CallableAll
      <4>3. d \in OfKind(Decls(prog, Owner(x.to)), {"func", "interface"})
          BY <2>4, <4>2 DEF OfKind, Decls
      <4> QED BY <2>2, <4>3
    <3> QED BY <3>1, <3>3, <3>4
  <2> QED BY <2>8, <2>9
<1> QED BY <1>2, <1>3, CallEnds

LEMMA CallersAreCallable ==
  ASSUME NEW prog, Program(prog), NEW x \in Calls(prog)
  PROVE  x.from \in Callable(prog) /\ x.from \in SearchNodes(prog) /\ NodeFor(x.from)[2] = x.from
<1>1. PICK d \in prog : \E c \in Callers(d) : x.from = c.id
    BY CallEnds
<1>2. PICK c \in Callers(d) : x.from = c.id
    BY <1>1
<1>3. CASE d.kind = "func"
    BY <1>2, <1>3, CallersAll, CallerNodes DEF Callable, SearchNodes, OfKind
<1>4. CASE d.kind = "struct"
  <2>1. x.from \in MethodsOf(prog)
      BY <1>2, <1>4, CallersAll, CallableAll
  <2> QED BY <1>2, <2>1, CallerNodes DEF Callable, SearchNodes
<1> QED BY <1>3, <1>4, CallersAll

LEMMA CallPairsAgree ==
  ASSUME NEW prog, Program(prog),
         \A c \in Calls(prog) : Len(c.to) = 3 => OfKind(Decls(prog, Owner(c.to)), {"func", "interface"}) = {}
  PROVE  {<<e.from[2], e.to[2]>> : e \in {e \in Export(Model(prog)).edges : e.kind = "calls"}}
           = Pairs({e \in SearchGraph(Model(prog)).edges : e.kind = "calls"}) \cap (Callable(prog) \X Callable(prog))
<1> DEFINE E == {e \in Export(Model(prog)).edges : e.kind = "calls"}
           S == {e \in SearchGraph(Model(prog)).edges : e.kind = "calls"}
           C == Callable(prog)
<1>1. \A a, b, kind : Edge(a, b, kind).from = a /\ Edge(a, b, kind).to = b
    BY DEF Edge
<1>2. \A e : e \in E <=> \E x \in Calls(prog) : \E n \in CallTarget(prog, x.to) : NodeFor(x.from) # n /\ e = Edge(NodeFor(x.from), n, "calls")
  <2>1. \A e : e \in E <=> e \in Export(Model(prog)).edges /\ e.kind = "calls"
      OBVIOUS
  <2>2. \A e : e \in Export(Model(prog)).edges /\ e.kind = "calls" <=>
           \E x \in Calls(prog) : \E n \in CallTarget(prog, x.to) : NodeFor(x.from) # n /\ e = Edge(NodeFor(x.from), n, "calls")
      BY ExportedCalls
  <2> HIDE DEF E
  <2> QED BY <2>1, <2>2
<1>3. \A e : e \in S <=> \E x \in Calls(prog) : e \in Joined(Fold(SearchNodes(prog), x.from), Fold(SearchNodes(prog), x.to), "calls")
    BY SearchedCalls
<1> HIDE DEF E, S
<1>4. ASSUME NEW e \in E PROVE <<e.from[2], e.to[2]>> \in Pairs(S) \cap (C \X C)
  <2>1. PICK x \in Calls(prog) : \E n \in CallTarget(prog, x.to) : NodeFor(x.from) # n /\ e = Edge(NodeFor(x.from), n, "calls")
      BY <1>2
  <2>2. PICK n \in CallTarget(prog, x.to) : NodeFor(x.from) # n /\ e = Edge(NodeFor(x.from), n, "calls")
      BY <2>1
  <2>3. e.from[2] = x.from /\ e.to[2] = n[2] /\ x.from \in C /\ x.from \in SearchNodes(prog)
      BY <1>1, <2>2, CallersAreCallable
  <2>4. n[2] \in Fold(SearchNodes(prog), x.to) /\ x.from # n[2] /\ n[2] \in C
      BY <2>2, CalleesMatch
  <2>5. x.from \in Fold(SearchNodes(prog), x.from)
      BY <2>3 DEF Fold
  <2>6. Edge(x.from, n[2], "calls") \in Joined(Fold(SearchNodes(prog), x.from), Fold(SearchNodes(prog), x.to), "calls")
      BY <2>4, <2>5, JoinedAll
  <2>7. Edge(x.from, n[2], "calls") \in S
      BY <1>3, <2>6
  <2>8. <<x.from, n[2]>> \in Pairs(S)
      BY <1>1, <2>7 DEF Pairs
  <2> QED BY <2>3, <2>4, <2>8
<1>5. ASSUME NEW p \in Pairs(S) \cap (C \X C) PROVE \E e \in E : p = <<e.from[2], e.to[2]>>
  <2>1. PICK s \in S : p = <<s.from, s.to>>
      BY DEF Pairs
  <2>2. PICK x \in Calls(prog) : s \in Joined(Fold(SearchNodes(prog), x.from), Fold(SearchNodes(prog), x.to), "calls")
      BY <1>3
  <2>3. PICK a \in Fold(SearchNodes(prog), x.from), b \in Fold(SearchNodes(prog), x.to) : a # b /\ s = Edge(a, b, "calls")
      BY <2>2, JoinedAll
  <2>4. a = x.from
      BY <2>3, CallersAreCallable DEF Fold
  <2>5. p = <<x.from, b>> /\ b \in C
    <3>1. p = <<x.from, b>>
        BY <1>1, <2>1, <2>3, <2>4
    <3> QED BY <3>1
  <2>6. PICK n \in CallTarget(prog, x.to) : NodeFor(x.from) # n /\ n[2] = b
      BY <2>3, <2>4, <2>5, CalleesMatch
  <2> DEFINE e == Edge(NodeFor(x.from), n, "calls")
  <2>7. e \in E
      BY <1>2, <2>6
  <2>8. e.from[2] = x.from /\ e.to[2] = b
      BY <1>1, <2>6, CallersAreCallable
  <2> HIDE DEF e
  <2> QED BY <2>5, <2>7, <2>8
<1>6. {<<e.from[2], e.to[2]>> : e \in E} = Pairs(S) \cap (C \X C)
    BY <1>4, <1>5
<1> QED BY <1>6 DEF E, S

(***************************************************************************)
(* Neighbours.                                                             *)
(***************************************************************************)
LEMMA AroundAll ==
  ASSUME NEW edges, NEW start
  PROVE  \A x : x \in Around(edges, start) <=>
           \E e \in edges : (e.from \in start /\ x = e.to) \/ (e.to \in start /\ x = e.from)
BY DEF Around

LEMMA AroundOne ==
  ASSUME NEW edges
  PROVE  \A S, y : y \in S \cup Around(edges, S) <=> \E w \in S : y = w \/ y \in Around(edges, {w})
<1> SUFFICES ASSUME NEW S, NEW y PROVE y \in S \cup Around(edges, S) <=> \E w \in S : y = w \/ y \in Around(edges, {w})
    OBVIOUS
<1>1. ASSUME y \in Around(edges, S) PROVE \E w \in S : y \in Around(edges, {w})
  <2>1. PICK e \in edges : (e.from \in S /\ y = e.to) \/ (e.to \in S /\ y = e.from)
      BY <1>1, AroundAll
  <2>2. CASE e.from \in S /\ y = e.to
    <3>1. y \in Around(edges, {e.from})
        BY <2>2, AroundAll
    <3> QED BY <2>2, <3>1
  <2>3. CASE e.to \in S /\ y = e.from
    <3>1. y \in Around(edges, {e.to})
        BY <2>3, AroundAll
    <3> QED BY <2>3, <3>1
  <2> QED BY <2>1, <2>2, <2>3
<1>2. ASSUME NEW w \in S, y \in Around(edges, {w}) PROVE y \in Around(edges, S)
  <2>1. PICK e \in edges : (e.from \in {w} /\ y = e.to) \/ (e.to \in {w} /\ y = e.from)
      BY <1>2, AroundAll
  <2> QED BY <2>1, AroundAll
<1> QED BY <1>1, <1>2

Within(edges, start, n, w) == w = [i \in 0 .. n |-> IF i = 0 THEN start ELSE w[i - 1] \cup Around(edges, w[i - 1])]

LEMMA WithinExists ==
  ASSUME NEW edges, NEW start
  PROVE  \A n \in Nat : \E w : Within(edges, start, n, w)
<1> DEFINE T == {n \in Nat : \E w : Within(edges, start, n, w)}
<1>1. 0 \in T
  <2> DEFINE w == [i \in 0 .. 0 |-> start]
  <2>1. Within(edges, start, 0, w)
      BY DEF Within
  <2> QED BY <2>1
<1>2. ASSUME NEW n \in Nat, n \in T PROVE n + 1 \in T
  <2>1. PICK old : Within(edges, start, n, old)
      BY <1>2
  <2> DEFINE next == old[n] \cup Around(edges, old[n])
             w == [i \in 0 .. n + 1 |-> IF i = n + 1 THEN next ELSE old[i]]
  <2>2. \A i \in 0 .. n : old[i] = IF i = 0 THEN start ELSE old[i - 1] \cup Around(edges, old[i - 1])
      BY <2>1 DEF Within
  <2>3. \A i \in 0 .. n + 1 : w[i] = IF i = 0 THEN start ELSE w[i - 1] \cup Around(edges, w[i - 1])
    <3> SUFFICES ASSUME NEW i \in 0 .. n + 1 PROVE w[i] = IF i = 0 THEN start ELSE w[i - 1] \cup Around(edges, w[i - 1])
        OBVIOUS
    <3>1. CASE i = n + 1
      <4>1. i # 0 /\ i - 1 = n /\ w[n] = old[n] /\ w[i] = next
          BY <3>1
      <4> QED BY <4>1
    <3>2. CASE i \in 0 .. n
      <4>1. w[i] = old[i] /\ (i # 0 => w[i - 1] = old[i - 1])
          BY <3>2
      <4> QED BY <2>2, <3>2, <4>1
    <3> QED BY <3>1, <3>2
  <2>4. Within(edges, start, n + 1, w)
    <3>1. w = [i \in 0 .. n + 1 |-> w[i]]
        OBVIOUS
    <3> HIDE DEF w
    <3> QED BY <2>3, <3>1 DEF Within
  <2> QED BY <2>4
<1> HIDE DEF T
<1>3. \A n \in Nat : n \in T
    BY <1>1, <1>2, SetInduction
<1> QED BY <1>3 DEF T

LEMMA WithinAgrees ==
  ASSUME NEW edges, NEW start, NEW n \in Nat, NEW k \in Nat, k <= n, NEW w, NEW v, Within(edges, start, n, w), Within(edges, start, k, v)
  PROVE  \A i \in 0 .. k : w[i] = v[i]
<1> DEFINE T == {i \in Nat : i <= k => w[i] = v[i]}
<1>1. \A i \in 0 .. n : w[i] = IF i = 0 THEN start ELSE w[i - 1] \cup Around(edges, w[i - 1])
    BY DEF Within
<1>2. \A i \in 0 .. k : v[i] = IF i = 0 THEN start ELSE v[i - 1] \cup Around(edges, v[i - 1])
    BY DEF Within
<1>3. 0 \in T
  <2>1. 0 \in 0 .. n /\ 0 \in 0 .. k
      OBVIOUS
  <2>2. w[0] = start /\ v[0] = start
      BY <1>1, <1>2, <2>1
  <2> QED BY <2>2
<1>4. ASSUME NEW i \in Nat, i \in T PROVE i + 1 \in T
  <2> SUFFICES ASSUME i + 1 <= k PROVE w[i + 1] = v[i + 1]
      OBVIOUS
  <2>1. i + 1 \in 0 .. n /\ i + 1 \in 0 .. k /\ i + 1 # 0 /\ (i + 1) - 1 = i /\ w[i] = v[i]
      BY <1>4
  <2>2. w[i + 1] = w[i] \cup Around(edges, w[i]) /\ v[i + 1] = v[i] \cup Around(edges, v[i])
      BY <1>1, <1>2, <2>1
  <2> QED BY <2>1, <2>2
<1> HIDE DEF T
<1>5. \A i \in Nat : i \in T
    BY <1>3, <1>4, SetInduction
<1> QED BY <1>5 DEF T

LEMMA ReachRun ==
  ASSUME NEW edges, NEW start, NEW n \in Nat
  PROVE  \E w : Within(edges, start, n, w) /\ Reach(edges, start, n) = w[n]
<1> DEFINE w == CHOOSE w : Within(edges, start, n, w)
<1>1. Reach(edges, start, n) = w[n]
    BY DEF Reach, Within
<1>2. Within(edges, start, n, w)
    BY WithinExists
<1> QED BY <1>1, <1>2

LEMMA ReachSteps ==
  ASSUME NEW edges, NEW start
  PROVE  /\ Reach(edges, start, 0) = start
         /\ \A n \in Nat : Reach(edges, start, n + 1) = Reach(edges, start, n) \cup Around(edges, Reach(edges, start, n))
<1>1. Reach(edges, start, 0) = start
  <2>1. PICK w : Within(edges, start, 0, w) /\ Reach(edges, start, 0) = w[0]
      BY ReachRun
  <2> QED BY <2>1 DEF Within
<1>2. ASSUME NEW n \in Nat PROVE Reach(edges, start, n + 1) = Reach(edges, start, n) \cup Around(edges, Reach(edges, start, n))
  <2>1. PICK w : Within(edges, start, n + 1, w) /\ Reach(edges, start, n + 1) = w[n + 1]
      BY ReachRun
  <2>2. PICK v : Within(edges, start, n, v) /\ Reach(edges, start, n) = v[n]
      BY ReachRun
  <2>3. w[n] = v[n]
      BY <2>1, <2>2, WithinAgrees
  <2>4. \A i \in 0 .. n + 1 : w[i] = IF i = 0 THEN start ELSE w[i - 1] \cup Around(edges, w[i - 1])
      BY <2>1 DEF Within
  <2>5. n + 1 \in 0 .. n + 1 /\ n + 1 # 0 /\ (n + 1) - 1 = n
      OBVIOUS
  <2>6. w[n + 1] = w[n] \cup Around(edges, w[n])
      BY <2>4, <2>5
  <2> QED BY <2>1, <2>2, <2>3, <2>6
<1> QED BY <1>1, <1>2

(* To be within n steps of each other is mutual. *)
LEMMA ReachSplits ==
  ASSUME NEW edges
  PROVE  \A n \in Nat : \A x, y : y \in Reach(edges, {x}, n + 1) <=> \E z \in Reach(edges, {x}, 1) : y \in Reach(edges, {z}, n)
<1> DEFINE R(x, k) == Reach(edges, {x}, k)
           T == {n \in Nat : \A x, y : y \in R(x, n + 1) <=> \E z \in R(x, 1) : y \in R(z, n)}
<1>0. \A x : R(x, 0) = {x}
    BY ReachSteps
<1>1. 0 \in T
  <2>1. 0 + 1 = 1
      OBVIOUS
  <2> QED BY <1>0, <2>1
<1>2. ASSUME NEW n \in Nat, n \in T PROVE n + 1 \in T
  <2>1. \A x, y : y \in R(x, (n + 1) + 1) <=> \E w \in R(x, n + 1) : y = w \/ y \in Around(edges, {w})
    <3>1. \A x : R(x, (n + 1) + 1) = R(x, n + 1) \cup Around(edges, R(x, n + 1))
        BY ReachSteps
    <3> HIDE DEF R
    <3> QED BY <3>1, AroundOne
  <2>2. \A z, y : y \in R(z, n + 1) <=> \E w \in R(z, n) : y = w \/ y \in Around(edges, {w})
    <3>1. \A x : R(x, n + 1) = R(x, n) \cup Around(edges, R(x, n))
        BY ReachSteps
    <3> HIDE DEF R
    <3> QED BY <3>1, AroundOne
  <2>3. \A x, w : w \in R(x, n + 1) <=> \E z \in R(x, 1) : w \in R(z, n)
      BY <1>2
  <2> HIDE DEF R
  <2>4. \A x, y : y \in R(x, (n + 1) + 1) <=> \E z \in R(x, 1) : y \in R(z, n + 1)
      BY <2>1, <2>2, <2>3
  <2> QED BY <2>4
<1> HIDE DEF T
<1>3. \A n \in Nat : n \in T
    BY <1>1, <1>2, SetInduction
<1> QED BY <1>3 DEF T, R

LEMMA ReachIsMutual ==
  ASSUME NEW edges
  PROVE  \A n \in Nat : \A x, y : y \in Reach(edges, {x}, n) => x \in Reach(edges, {y}, n)
<1> DEFINE R(x, k) == Reach(edges, {x}, k)
           T == {n \in Nat : \A x, y : y \in R(x, n) => x \in R(y, n)}
<1>0. \A x : R(x, 0) = {x}
    BY ReachSteps
<1>1. 0 \in T
  <2> HIDE DEF R
  <2> QED BY <1>0
<1>2. ASSUME NEW n \in Nat, n \in T PROVE n + 1 \in T
  <2>1. \A x : R(x, n + 1) = R(x, n) \cup Around(edges, R(x, n))
      BY ReachSteps
  <2>2. \A S, y : y \in S \cup Around(edges, S) <=> \E w \in S : y = w \/ y \in Around(edges, {w})
      BY AroundOne
  <2>3. \A x, y : y \in R(x, n + 1) <=> \E z \in R(x, 1) : y \in R(z, n)
      BY ReachSplits
  <2>4. \A x : R(x, 1) = {x} \cup Around(edges, {x})
    <3>1. \A x : Reach(edges, {x}, 0 + 1) = Reach(edges, {x}, 0) \cup Around(edges, Reach(edges, {x}, 0))
        BY ReachSteps
    <3>2. 0 + 1 = 1
        OBVIOUS
    <3> QED BY <1>0, <3>1, <3>2
  <2>5. \A w, y : y \in Around(edges, {w}) => w \in Around(edges, {y})
      BY AroundAll
  <2> HIDE DEF R
  <2>6. ASSUME NEW x, NEW y, y \in R(x, n + 1) PROVE x \in R(y, n + 1)
    <3>1. PICK w \in R(x, n) : y = w \/ y \in Around(edges, {w})
        BY <2>1, <2>2, <2>6
    <3>2. x \in R(w, n)
        BY <1>2
    <3>3. w \in R(y, 1)
        BY <2>4, <2>5, <3>1
    <3> QED BY <2>3, <3>2, <3>3
  <2> QED BY <2>6
<1> HIDE DEF T
<1>3. \A n \in Nat : n \in T
    BY <1>1, <1>2, SetInduction
<1> QED BY <1>3 DEF T, R

Walks(edges, starts, n, w) ==
  w = [i \in 0 .. n |-> IF i = 0 THEN [visited |-> starts, frontier |-> starts] ELSE NextLevel(edges, w[i - 1])]

LEMMA WalkExists ==
  ASSUME NEW edges, NEW starts
  PROVE  \A n \in Nat : \E w : Walks(edges, starts, n, w)
<1> DEFINE T == {n \in Nat : \E w : Walks(edges, starts, n, w)}
           first == [visited |-> starts, frontier |-> starts]
<1>1. 0 \in T
  <2> DEFINE w == [i \in 0 .. 0 |-> first]
  <2>1. Walks(edges, starts, 0, w)
      BY DEF Walks
  <2> QED BY <2>1
<1>2. ASSUME NEW n \in Nat, n \in T PROVE n + 1 \in T
  <2>1. PICK old : Walks(edges, starts, n, old)
      BY <1>2
  <2> DEFINE next == NextLevel(edges, old[n])
             w == [i \in 0 .. n + 1 |-> IF i = n + 1 THEN next ELSE old[i]]
  <2> HIDE DEF first
  <2>2. \A i \in 0 .. n : old[i] = IF i = 0 THEN first ELSE NextLevel(edges, old[i - 1])
      BY <2>1 DEF Walks, first
  <2>3. \A i \in 0 .. n + 1 : w[i] = IF i = 0 THEN first ELSE NextLevel(edges, w[i - 1])
    <3> SUFFICES ASSUME NEW i \in 0 .. n + 1 PROVE w[i] = IF i = 0 THEN first ELSE NextLevel(edges, w[i - 1])
        OBVIOUS
    <3>1. CASE i = n + 1
      <4>1. i # 0 /\ i - 1 = n /\ w[n] = old[n] /\ w[i] = next
          BY <3>1
      <4> QED BY <4>1
    <3>2. CASE i \in 0 .. n
      <4>1. w[i] = old[i] /\ (i # 0 => w[i - 1] = old[i - 1])
          BY <3>2
      <4> QED BY <2>2, <3>2, <4>1
    <3> QED BY <3>1, <3>2
  <2>4. Walks(edges, starts, n + 1, w)
    <3>1. w = [i \in 0 .. n + 1 |-> w[i]]
        OBVIOUS
    <3> HIDE DEF w
    <3> QED BY <2>3, <3>1 DEF Walks, first
  <2> QED BY <2>4
<1> HIDE DEF T
<1>3. \A n \in Nat : n \in T
    BY <1>1, <1>2, SetInduction
<1> QED BY <1>3 DEF T

(* Breadth first, level by level, is everything within that many steps. *)
LEMMA LevelsAreReach ==
  ASSUME NEW edges, NEW starts, NEW n \in Nat
  PROVE  Levels(edges, starts, n) = Reach(edges, starts, n)
<1> DEFINE w == CHOOSE w : Walks(edges, starts, n, w)
           R(i) == Reach(edges, starts, i)
           Good(i) == /\ w[i].visited = R(i)
                      /\ w[i].frontier \subseteq R(i)
                      /\ Around(edges, R(i) \ w[i].frontier) \subseteq R(i)
           T == {i \in Nat : i <= n => Good(i)}
<1>1. Levels(edges, starts, n) = w[n].visited
    BY DEF Levels, Walks
<1>2. Walks(edges, starts, n, w)
    BY WalkExists
<1> HIDE DEF w
<1>3. \A i \in 0 .. n : w[i] = IF i = 0 THEN [visited |-> starts, frontier |-> starts] ELSE NextLevel(edges, w[i - 1])
    BY <1>2 DEF Walks
<1>4. 0 \in T
  <2>1. w[0] = [visited |-> starts, frontier |-> starts]
      BY <1>3
  <2>2. R(0) = starts
      BY ReachSteps
  <2>3. Around(edges, {}) = {}
      BY AroundAll
  <2> HIDE DEF R
  <2>4. Good(0)
      BY <2>1, <2>2, <2>3
  <2> QED BY <2>4
<1>5. ASSUME NEW i \in Nat, i \in T PROVE i + 1 \in T
  <2> SUFFICES ASSUME i + 1 <= n PROVE Good(i + 1)
      OBVIOUS
  <2> DEFINE next == Around(edges, w[i].frontier) \ w[i].visited
  <2>1. i + 1 \in 0 .. n /\ i + 1 # 0 /\ (i + 1) - 1 = i /\ i <= n
      OBVIOUS
  <2>2. Good(i)
      BY <1>5, <2>1
  <2>3. w[i + 1] = [visited |-> w[i].visited \cup next, frontier |-> next]
      BY <1>3, <2>1 DEF NextLevel
  <2>4. R(i + 1) = R(i) \cup Around(edges, R(i))
      BY ReachSteps
  <2>5. \A S, U : S \subseteq U => Around(edges, S) \subseteq Around(edges, U)
      BY AroundAll
  <2>6. \A y : y \in Around(edges, R(i)) => y \in Around(edges, R(i) \ w[i].frontier) \/ y \in Around(edges, w[i].frontier)
      BY AroundAll
  <2> HIDE DEF R
  <2>7. w[i].visited \cup next = R(i + 1)
      BY <2>2, <2>4, <2>5, <2>6
  <2>8. Around(edges, R(i + 1) \ next) \subseteq R(i + 1)
    <3>1. R(i + 1) \ next \subseteq R(i)
        BY <2>2, <2>7
    <3> QED BY <2>4, <2>5, <3>1
  <2>9. w[i + 1].visited = w[i].visited \cup next /\ w[i + 1].frontier = next
    <3> HIDE DEF next
    <3> QED BY <2>3
  <2> HIDE DEF next
  <2>10. next \subseteq R(i + 1)
      BY <2>7
  <2> QED BY <2>7, <2>8, <2>9, <2>10
<1> HIDE DEF T
<1>6. n \in T
    BY <1>4, <1>5, SetInduction
<1>7. n <= n
    OBVIOUS
<1> QED BY <1>1, <1>6, <1>7 DEF T

LEMMA ReachKeeps ==
  ASSUME NEW edges, NEW start
  PROVE  \A n \in Nat : start \subseteq Reach(edges, start, n)
<1> DEFINE T == {n \in Nat : start \subseteq Reach(edges, start, n)}
<1>1. 0 \in T
    BY ReachSteps
<1>2. ASSUME NEW n \in Nat, n \in T PROVE n + 1 \in T
  <2>1. Reach(edges, start, n + 1) = Reach(edges, start, n) \cup Around(edges, Reach(edges, start, n))
      BY ReachSteps
  <2>2. n + 1 \in Nat
      OBVIOUS
  <2> QED BY <1>2, <2>1, <2>2
<1> HIDE DEF T
<1>3. \A n \in Nat : n \in T
    BY <1>1, <1>2, SetInduction
<1> QED BY <1>3 DEF T

LEMMA ValuesAreFinite ==
  ASSUME NEW S, IsFiniteSet(S), NEW f, DOMAIN f = S
  PROVE  IsFiniteSet({f[x] : x \in S})
<1> DEFINE T == {f[x] : x \in S}
           g == [x \in S |-> f[x]]
<1>1. g \in Surjection(S, T)
    BY DEF Surjection
<1> HIDE DEF g, T
<1>2. IsFiniteSet(T)
    BY <1>1, FS_Surjection
<1> QED BY <1>2 DEF T

LEMMA SearchNodesAreFinite ==
  ASSUME NEW prog, Program(prog)
  PROVE  IsFiniteSet(SearchNodes(prog))
<1> DEFINE members(d) == {MemberOf(d, m) : m \in ToSet(d.methods)}
           structs == OfKind(prog, {"struct"})
<1>1. IsFiniteSet({IdOf(d) : d \in prog})
  <2> DEFINE f == [d \in prog |-> IdOf(d)]
  <2>1. IsFiniteSet({f[d] : d \in prog})
      BY ValuesAreFinite DEF Program
  <2>2. {f[d] : d \in prog} = {IdOf(d) : d \in prog}
      OBVIOUS
  <2> QED BY <2>1, <2>2
<1>2. IsFiniteSet(structs)
    BY FS_Subset DEF Program, OfKind
<1>3. ASSUME NEW d \in structs PROVE IsFiniteSet(members(d))
  <2>1. d.methods \in Seq(MethodDef)
      BY DEF OfKind, Program, WellFormed, Declaration
  <2>2. DOMAIN d.methods = 1 .. Len(d.methods) /\ Len(d.methods) \in Nat
      BY <2>1
  <2>3. IsFiniteSet(DOMAIN d.methods)
      BY <2>2, FS_Interval
  <2> DEFINE f == [i \in DOMAIN d.methods |-> MemberOf(d, d.methods[i])]
  <2>4. IsFiniteSet({f[i] : i \in DOMAIN d.methods})
      BY <2>3, ValuesAreFinite
  <2>5. {f[i] : i \in DOMAIN d.methods} = members(d)
      BY DEF ToSet
  <2> QED BY <2>4, <2>5
<1>4. IsFiniteSet(MethodsOf(prog))
  <2> DEFINE f == [d \in structs |-> members(d)]
  <2> HIDE DEF members
  <2>1. IsFiniteSet({f[d] : d \in structs})
      BY <1>2, ValuesAreFinite
  <2>2. \A T \in {f[d] : d \in structs} : IsFiniteSet(T)
      BY <1>3
  <2>3. IsFiniteSet(UNION {f[d] : d \in structs})
      BY <2>1, <2>2, FS_UNION
  <2>4. {f[d] : d \in structs} = {members(d) : d \in structs}
      OBVIOUS
  <2> QED BY <2>3, <2>4 DEF MethodsOf, members
<1> QED BY <1>1, <1>4, FS_Union DEF SearchNodes

LEMMA ExpandReaches ==
  ASSUME NEW g, NEW hops, AtLeastOne(hops) \in Nat
  PROVE  \A n : Expand(g, {n}, hops, Weighted).nodes = Reach(DiffusionEdges(g), {n}, AtLeastOne(hops)) \cap g.nodes
<1> SUFFICES ASSUME NEW n
             PROVE  Expand(g, {n}, hops, Weighted).nodes = Reach(DiffusionEdges(g), {n}, AtLeastOne(hops)) \cap g.nodes
    OBVIOUS
<1>1. Asked(g, Weighted) = DiffusionEdges(g)
    BY DEF Asked, DiffusionEdges, Weighted
<1>2. NeighborNodes(g, {n}, hops, Weighted) = Reach(DiffusionEdges(g), {n}, AtLeastOne(hops))
    BY <1>1, LevelsAreReach DEF NeighborNodes
<1> QED BY <1>2 DEF Expand

(* Search adds to a hit what expanding the hit finds, up to the limit. *)
LEMMA NeighboursAgree ==
  ASSUME NEW g, IsFiniteSet(g.nodes), NEW n \in g.nodes, NEW hops \in 0 .. 2
  PROVE  LET expanded == Expand(g, {n}, hops, Weighted).nodes
         IN /\ \A k \in expanded : n \in Expand(g, {k}, hops, Weighted).nodes
            /\ \A a \in Answers(g, g, {n}, {n}, g.nodes, hops) :
                 /\ {n} \subseteq a.hits /\ a.hits \subseteq expanded
                 /\ (MaxGraphNodes = 0 \/ Cardinality(expanded) <= MaxGraphNodes + 1) => a.hits = expanded
<1> DEFINE steps == AtLeastOne(hops)
           W == Expand(g, {n}, hops, Weighted).nodes
           R == W \ {n}
<1>1. steps \in Nat
    BY DEF AtLeastOne
<1>2. \A k : Expand(g, {k}, hops, Weighted).nodes = Reach(DiffusionEdges(g), {k}, steps) \cap g.nodes
    BY <1>1, ExpandReaches
<1>3. n \in W /\ W \subseteq g.nodes
    BY <1>1, <1>2, ReachKeeps
<1>4. ASSUME NEW k \in W PROVE n \in Expand(g, {k}, hops, Weighted).nodes
    BY <1>1, <1>2, ReachIsMutual
<1>5. Answers(g, g, {n}, {n}, g.nodes, hops) = {BuildAnswer(g, {n}, s) : s \in CapByMass(R)}
  <2>1. {n} \cap g.nodes = {n} /\ {n} \cap {n} = {n} /\ {n} # {}
      OBVIOUS
  <2>2. WithinHops(g, {n}, g.nodes, steps) = W
      BY <1>2 DEF WithinHops
  <2>3. Answers(g, g, {n}, {n}, g.nodes, hops) = {BuildAnswer(g, {n}, s) : s \in CapByMass(WithinHops(g, {n}, g.nodes, steps) \ {n})}
      BY <2>1 DEF Answers
  <2> QED BY <2>2, <2>3
<1>6. ASSUME NEW s \in CapByMass(R)
      PROVE  /\ {n} \subseteq BuildAnswer(g, {n}, s).hits /\ BuildAnswer(g, {n}, s).hits \subseteq W
             /\ (MaxGraphNodes = 0 \/ Cardinality(W) <= MaxGraphNodes + 1) => BuildAnswer(g, {n}, s).hits = W
  <2>1. s \subseteq R /\ Cardinality(s) = IF MaxGraphNodes > 0 /\ Cardinality(R) > MaxGraphNodes THEN MaxGraphNodes ELSE Cardinality(R)
      BY DEF CapByMass
  <2>2. BuildAnswer(g, {n}, s).hits = {n} \cup s
      BY <1>3, <2>1 DEF BuildAnswer
  <2>3. ASSUME MaxGraphNodes = 0 \/ Cardinality(W) <= MaxGraphNodes + 1 PROVE s = R
    <3>1. IsFiniteSet(W)
        BY <1>3, FS_Subset
    <3>2. IsFiniteSet(R) /\ Cardinality(R) = Cardinality(W) - 1 /\ Cardinality(W) \in Nat
      <4> HIDE DEF W
      <4> QED BY <1>3, <3>1, FS_RemoveElement, FS_CardinalityType
    <3>3. Cardinality(s) = Cardinality(R)
      <4>1. ~(MaxGraphNodes > 0 /\ Cardinality(R) > MaxGraphNodes)
          BY <2>3, <3>2, GraphNodesAssumption
      <4> QED BY <2>1, <4>1
    <3> HIDE DEF R
    <3> QED BY <2>1, <3>2, <3>3, FS_Subset
  <2> QED BY <1>3, <2>1, <2>2, <2>3
<1> HIDE DEF W, R
<1>7. \A a \in Answers(g, g, {n}, {n}, g.nodes, hops) :
         /\ {n} \subseteq a.hits /\ a.hits \subseteq W
         /\ (MaxGraphNodes = 0 \/ Cardinality(W) <= MaxGraphNodes + 1) => a.hits = W
    BY <1>5, <1>6
<1> QED BY <1>4, <1>7 DEF W

(* The export of a program as the reader reads it is never refused, the typed graph and *)
(* the search graph have the same calls, and search adds what expansion shows.          *)
THEOREM GraphsAgreeHolds == ReviewSpec => []GraphsAgree
<1>1. ReviewIInv => ExportNeverAborts
    BY BothArePrograms, ExportSucceeds DEF ExportNeverAborts
<1>2. ReviewIInv => CallGraphsAgree
  <2>1. MethodsOf(head) \cup {IdOf(d) : d \in OfKind(head, {"func"})} = Callable(head)
      BY DEF Callable
  <2> SUFFICES ASSUME ReviewIInv,
                      \A c \in Calls(head) : Len(c.to) = 3 => OfKind(Decls(head, Owner(c.to)), {"func", "interface"}) = {}
               PROVE  {<<e.from[2], e.to[2]>> : e \in {e \in Export(Model(head)).edges : e.kind = "calls"}}
                        = Pairs({e \in SearchGraph(Model(head)).edges : e.kind = "calls"}) \cap (Callable(head) \X Callable(head))
      BY <2>1 DEF CallGraphsAgree
  <2> QED BY BothArePrograms, CallPairsAgree
<1>3. ReviewIInv => NeighborhoodsAgree
  <2> SUFFICES ASSUME ReviewIInv,
                      NEW n \in SearchGraph(Model(head)).nodes, NEW hops \in 0 .. 2
               PROVE  LET g == SearchGraph(Model(head))
                          expanded == Expand(g, {n}, hops, Weighted).nodes
                      IN /\ \A k \in expanded : n \in Expand(g, {k}, hops, Weighted).nodes
                         /\ \A a \in Answers(g, g, {n}, {n}, g.nodes, hops) :
                              /\ {n} \subseteq a.hits /\ a.hits \subseteq expanded
                              /\ (MaxGraphNodes = 0 \/ Cardinality(expanded) <= MaxGraphNodes + 1) => a.hits = expanded
      BY DEF NeighborhoodsAgree
  <2>1. IsFiniteSet(SearchGraph(Model(head)).nodes)
      BY BothArePrograms, SearchedCalls, SearchNodesAreFinite
  <2> QED BY <2>1, NeighboursAgree
<1> QED BY <1>1, <1>2, <1>3, ProgramsCompile, PTL DEF GraphsAgree

(***************************************************************************)
(* Marks of declarations.                                                  *)
(***************************************************************************)
(* Types whose names the reader keeps are spelt as they are. *)
LEMMA SpeltAsIs ==
  ASSUME NEW types \in Seq(TypeRef), \A t \in ToSet(types) : t.shape # "maps"
  PROVE  Spelt(types) = types
<1>1. \A i \in DOMAIN types : types[i] \in ToSet(types)
    BY DEF ToSet
<1>2. \A i \in DOMAIN types : Converted(types[i]) = types[i]
    BY <1>1 DEF Converted
<1>3. types = [i \in DOMAIN types |-> types[i]]
    OBVIOUS
<1> QED BY <1>2, <1>3 DEF Spelt

LEMMA LegibleTypes ==
  ASSUME NEW d, WellFormed(d), Legible(d)
  PROVE  /\ Spelt(d.types) = d.types
         /\ \A f \in ToSet(d.fields) : f.type \in TypeRef /\ Converted(f.type) = f.type
         /\ d.kind # "typedef" => \A m \in ToSet(d.methods) : Spelt(m.params) = m.params /\ Spelt(m.returns) = m.returns
<1>1. /\ d.methods \in Seq(MethodDef) /\ d.fields \in Seq(FieldDef) /\ d.types \in Seq(TypeRef)
      /\ d.kind \in Types \cup {"func", "const", "var", "error"}
    BY DEF WellFormed, Declaration
<1>2. ToSet(d.methods) \subseteq MethodDef /\ ToSet(d.fields) \subseteq FieldDef
    BY <1>1, Sequences
<1>3. (\A t \in ToSet(d.types) : t.shape # "maps") /\ (\A t \in Signatures(d) : t.shape # "maps")
    BY DEF Legible
<1>4. Spelt(d.types) = d.types
    BY <1>1, <1>3, SpeltAsIs
<1>5. ASSUME NEW f \in ToSet(d.fields) PROVE f.type \in TypeRef /\ Converted(f.type) = f.type
  <2>1. d.kind = "struct"
    <3>1. d.kind # "struct" => d.fields = <<>>
        BY DEF WellFormed
    <3> QED BY <3>1 DEF ToSet
  <2>2. f.type \in Signatures(d)
      BY <2>1 DEF Signatures
  <2> QED BY <1>2, <1>3, <2>2 DEF Converted, FieldDef
<1>6. ASSUME d.kind # "typedef", NEW m \in ToSet(d.methods)
      PROVE  Spelt(m.params) = m.params /\ Spelt(m.returns) = m.returns
  <2>1. d.kind \in {"interface", "struct", "func"}
    <3>1. d.kind \notin Types \cup {"func"} => d.methods = <<>>
        BY DEF WellFormed
    <3> QED BY <1>6, <3>1 DEF ToSet, Types
  <2>2. ToSet(m.params) \subseteq Signatures(d) /\ ToSet(m.returns) \subseteq Signatures(d)
      BY <2>1 DEF Signatures
  <2>3. m.params \in Seq(TypeRef) /\ m.returns \in Seq(TypeRef)
      BY <1>2 DEF MethodDef
  <2> QED BY <1>3, <2>2, <2>3, SpeltAsIs
<1> QED BY <1>4, <1>5, <1>6

Made(F, s) == [i \in DOMAIN s |-> F[s[i]]]

(* Sequences made element by element in two ways agree in both or in none. *)
LEMMA MadeAlike ==
  ASSUME NEW S, NEW F, NEW G, \A x, y \in S : F[x] = F[y] <=> G[x] = G[y], NEW s \in Seq(S), NEW t \in Seq(S)
  PROVE  Made(F, s) = Made(F, t) <=> Made(G, s) = Made(G, t)
<1> DEFINE f(u) == [i \in DOMAIN u |-> F[u[i]]]
           g(u) == [i \in DOMAIN u |-> G[u[i]]]
<1>1. \A u \in Seq(S) : \A i \in DOMAIN u : u[i] \in S
    OBVIOUS
<1>2. f(s) = f(t) <=> DOMAIN s = DOMAIN t /\ \A i \in DOMAIN s : F[s[i]] = F[t[i]]
  <2>1. ASSUME f(s) = f(t) PROVE DOMAIN s = DOMAIN t /\ \A i \in DOMAIN s : F[s[i]] = F[t[i]]
    <3>1. DOMAIN s = DOMAIN f(s) /\ DOMAIN t = DOMAIN f(t)
        OBVIOUS
    <3>2. \A i \in DOMAIN s : f(s)[i] = F[s[i]]
        OBVIOUS
    <3>3. \A i \in DOMAIN t : f(t)[i] = F[t[i]]
        OBVIOUS
    <3> HIDE DEF f
    <3> QED BY <2>1, <3>1, <3>2, <3>3
  <2>2. ASSUME DOMAIN s = DOMAIN t, \A i \in DOMAIN s : F[s[i]] = F[t[i]] PROVE f(s) = f(t)
      BY <2>2
  <2> QED BY <2>1, <2>2
<1>3. g(s) = g(t) <=> DOMAIN s = DOMAIN t /\ \A i \in DOMAIN s : G[s[i]] = G[t[i]]
  <2>1. ASSUME g(s) = g(t) PROVE DOMAIN s = DOMAIN t /\ \A i \in DOMAIN s : G[s[i]] = G[t[i]]
    <3>1. DOMAIN s = DOMAIN g(s) /\ DOMAIN t = DOMAIN g(t)
        OBVIOUS
    <3>2. \A i \in DOMAIN s : g(s)[i] = G[s[i]]
        OBVIOUS
    <3>3. \A i \in DOMAIN t : g(t)[i] = G[t[i]]
        OBVIOUS
    <3> HIDE DEF g
    <3> QED BY <2>1, <3>1, <3>2, <3>3
  <2>2. ASSUME DOMAIN s = DOMAIN t, \A i \in DOMAIN s : G[s[i]] = G[t[i]] PROVE g(s) = g(t)
      BY <2>2
  <2> QED BY <2>1, <2>2
<1>4. DOMAIN s = DOMAIN t => \A i \in DOMAIN s : F[s[i]] = F[t[i]] <=> G[s[i]] = G[t[i]]
    BY <1>1
<1> HIDE DEF f, g
<1>5. f(s) = f(t) <=> g(s) = g(t)
    BY <1>2, <1>3, <1>4
<1> QED BY <1>5 DEF f, g, Made

(* Of legible declarations the model diff tells apart what declares different things. *)
LEMMA ShapesTell ==
  ASSUME NEW h, NEW b, WellFormed(h), WellFormed(b), Legible(h), Legible(b)
  PROVE  Shape(h) = Shape(b) <=> Declares(h) = Declares(b)
<1>1. /\ h.methods \in Seq(MethodDef) /\ h.fields \in Seq(FieldDef)
      /\ b.methods \in Seq(MethodDef) /\ b.fields \in Seq(FieldDef)
    BY DEF WellFormed, Declaration
<1> DEFINE field(f) == [name |-> f.name, exported |-> f.exported, type |-> Converted(f.type)]
           method(m) == [name |-> m.name, exported |-> m.exported, params |-> Spelt(m.params), returns |-> Spelt(m.returns)]
           fields(d) == [i \in DOMAIN d.fields |-> field(d.fields[i])]
           methods(d) == [i \in DOMAIN d.methods |-> method(d.methods[i])]
           fieldParts(d) == [i \in DOMAIN d.fields |-> FieldParts(d.fields[i])]
           methodParts(d) == [i \in DOMAIN d.methods |-> MethodParts(d.methods[i])]
<1>2. fields(h) = fields(b) <=> fieldParts(h) = fieldParts(b)
  <2> DEFINE S == ToSet(h.fields) \cup ToSet(b.fields)
             F == [f \in S |-> field(f)]
             G == [f \in S |-> FieldParts(f)]
  <2>1. h.fields \in Seq(S) /\ b.fields \in Seq(S)
    <3>1. ToSet(h.fields) \subseteq S /\ ToSet(b.fields) \subseteq S
        OBVIOUS
    <3> HIDE DEF S
    <3> QED BY <1>1, <3>1, Sequences
  <2>2. \A x, y \in S : F[x] = F[y] <=> G[x] = G[y]
    <3>1. \A x \in S : Converted(x.type) = x.type
        BY LegibleTypes
    <3> QED BY <3>1 DEF FieldParts
  <2>3. \A d \in {h, b} : /\ fields(d) = Made(F, d.fields)
                            /\ fieldParts(d) = Made(G, d.fields)
    <3>1. \A d \in {h, b} : \A i \in DOMAIN d.fields : d.fields[i] \in S
        BY DEF ToSet
    <3>2. \A x \in S : F[x] = field(x) /\ G[x] = FieldParts(x)
        OBVIOUS
    <3> HIDE DEF S, F, G, field
    <3> QED BY <3>1, <3>2 DEF Made
  <2> HIDE DEF S, F, G, fields, fieldParts
  <2>4. Made(F, h.fields) = Made(F, b.fields) <=> Made(G, h.fields) = Made(G, b.fields)
      BY <2>1, <2>2, MadeAlike
  <2>5. /\ fields(h) = Made(F, h.fields) /\ fields(b) = Made(F, b.fields)
        /\ fieldParts(h) = Made(G, h.fields) /\ fieldParts(b) = Made(G, b.fields)
      BY <2>3
  <2> QED BY <2>4, <2>5, Zenon
<1>3. ASSUME h.kind # "typedef", b.kind # "typedef" PROVE methods(h) = methods(b) <=> methodParts(h) = methodParts(b)
  <2> DEFINE S == ToSet(h.methods) \cup ToSet(b.methods)
             F == [m \in S |-> method(m)]
             G == [m \in S |-> MethodParts(m)]
  <2>1. h.methods \in Seq(S) /\ b.methods \in Seq(S)
    <3>1. ToSet(h.methods) \subseteq S /\ ToSet(b.methods) \subseteq S
        OBVIOUS
    <3> HIDE DEF S
    <3> QED BY <1>1, <3>1, Sequences
  <2>2. \A x, y \in S : F[x] = F[y] <=> G[x] = G[y]
    <3>1. \A x \in S : Spelt(x.params) = x.params /\ Spelt(x.returns) = x.returns
        BY <1>3, LegibleTypes
    <3> QED BY <3>1 DEF MethodParts
  <2>3. \A d \in {h, b} : /\ methods(d) = Made(F, d.methods)
                            /\ methodParts(d) = Made(G, d.methods)
    <3>1. \A d \in {h, b} : \A i \in DOMAIN d.methods : d.methods[i] \in S
        BY DEF ToSet
    <3>2. \A x \in S : F[x] = method(x) /\ G[x] = MethodParts(x)
        OBVIOUS
    <3> HIDE DEF S, F, G, method
    <3> QED BY <3>1, <3>2 DEF Made
  <2> HIDE DEF S, F, G, methods, methodParts
  <2>4. Made(F, h.methods) = Made(F, b.methods) <=> Made(G, h.methods) = Made(G, b.methods)
      BY <2>1, <2>2, MadeAlike
  <2>5. /\ methods(h) = Made(F, h.methods) /\ methods(b) = Made(F, b.methods)
        /\ methodParts(h) = Made(G, h.methods) /\ methodParts(b) = Made(G, b.methods)
      BY <2>3
  <2> QED BY <2>4, <2>5, Zenon
<1>4. \A d \in {h, b} : Shape(d) = [kind |-> d.kind, exported |-> d.exported, types |-> d.types, fields |-> fields(d),
                                    methods |-> IF d.kind = "typedef" THEN <<>> ELSE methods(d)]
    BY LegibleTypes DEF Shape
<1>5. \A d : Declares(d) = [kind |-> d.kind, exported |-> d.exported, types |-> d.types, fields |-> fieldParts(d),
                            methods |-> IF d.kind = "typedef" THEN <<>> ELSE methodParts(d)]
    BY DEF Declares
<1> HIDE DEF fields, methods, fieldParts, methodParts
<1> QED BY <1>2, <1>3, <1>4, <1>5

LEMMA DeclaredSignature ==
  ASSUME NEW h, NEW b, WellFormed(h), WellFormed(b), Declares(h) = Declares(b)
  PROVE  h.kind = b.kind /\ SymbolSig(h) = SymbolSig(b)
<1>1. h.kind = b.kind /\ h.types = b.types
    BY DEF Declares
<1>2. ASSUME h.kind = "func" PROVE h.methods[1].params = b.methods[1].params /\ h.methods[1].returns = b.methods[1].returns
  <2> DEFINE parts(d) == [i \in DOMAIN d.methods |-> MethodParts(d.methods[i])]
  <2>1. parts(h) = parts(b)
      BY <1>1, <1>2 DEF Declares
  <2>2. \A d \in {h, b} : d.methods \in Seq(MethodDef) /\ Len(d.methods) = 1
      BY <1>1, <1>2 DEF WellFormed, Declaration
  <2>3. parts(h)[1] = MethodParts(h.methods[1]) /\ parts(b)[1] = MethodParts(b.methods[1])
      BY <2>2
  <2> HIDE DEF parts
  <2> QED BY <2>1, <2>3 DEF MethodParts
<1> QED BY <1>1, <1>2 DEF SymbolSig

(* A declaration whose kind stayed gets one word from the model diff. *)
LEMMA LegacyWordOfOne ==
  ASSUME NEW now, NEW was, NEW h \in now, h.kind \in {KindOrder[i] : i \in DOMAIN KindOrder},
         h.pkg \in Packages(was), \A d \in Decls(now, IdOf(h)) \cup Decls(was, IdOf(h)) : d.kind = h.kind
  PROVE  LegacyWord(now, was, IdOf(h)) =
           Word({Shape(d) : d \in Decls(now, IdOf(h))}, {Shape(d) : d \in Decls(was, IdOf(h))})
<1> DEFINE id == IdOf(h)
           of == {c \in SymbolChanges(now, was) : c.id = id}
           at == {i \in DOMAIN KindOrder : \E c \in of : c.kind = KindOrder[i]}
           W == Word({Shape(d) : d \in Decls(now, id)}, {Shape(d) : d \in Decls(was, id)})
<1>1. LegacyWord(now, was, id) = IF of = {} THEN Unmarked ELSE (CHOOSE c \in of : c.kind = KindOrder[Max(at)]).word
    BY DEF LegacyWord
<1>2. ShapeWord(now, was, h.kind, id) = W
  <2>1. ShapesOf(now, h.kind, id) = {Shape(d) : d \in Decls(now, id)} /\ ShapesOf(was, h.kind, id) = {Shape(d) : d \in Decls(was, id)}
      BY DEF ShapesOf
  <2> QED BY <2>1 DEF ShapeWord
<1>3. h \in Matched(now, was)
    BY DEF Matched, Packages
<1>4. ASSUME NEW c \in of PROVE c.kind = h.kind /\ c.word = W /\ W # Unmarked
  <2>1. PICK d \in Matched(now, was) : c.kind = d.kind /\ c.id = IdOf(d)
      BY SymbolChangesAll
  <2>2. d \in Decls(now, id) \cup Decls(was, id)
      BY <2>1 DEF Matched, Decls
  <2>3. c.kind = h.kind
      BY <2>1, <2>2
  <2>4. c.word = ShapeWord(now, was, c.kind, c.id) /\ c.word # Unmarked
      BY SymbolChangesAll
  <2> QED BY <1>2, <2>3, <2>4
<1>5. W # Unmarked => \E c \in of : c.kind = h.kind
  <2> SUFFICES ASSUME W # Unmarked PROVE \E c \in of : c.kind = h.kind
      OBVIOUS
  <2>1. ShapeWord(now, was, h.kind, IdOf(h)) # Unmarked
      BY <1>2
  <2>2. PICK c \in SymbolChanges(now, was) : c.kind = h.kind /\ c.id = IdOf(h)
      BY <1>3, <2>1, SymbolChangesAll
  <2> QED BY <2>2
<1>6. PICK i \in DOMAIN KindOrder : KindOrder[i] = h.kind
    OBVIOUS
<1>7. DOMAIN KindOrder = 1 .. 7 /\ \A j, k \in DOMAIN KindOrder : KindOrder[j] = KindOrder[k] => j = k
    BY DEF KindOrder
<1> HIDE DEF of, W
<1>8. CASE of = {}
    BY <1>1, <1>5, <1>8 DEF W, id
<1>9. CASE of # {}
  <2>1. at = {i}
      BY <1>4, <1>6, <1>7, <1>9
  <2>2. Max({i}) = i
      BY <1>7 DEF Max
  <2> HIDE DEF at
  <2>3. \E c \in of : c.kind = KindOrder[Max(at)]
      BY <1>4, <1>6, <1>9, <2>1, <2>2
  <2>4. (CHOOSE c \in of : c.kind = KindOrder[Max(at)]) \in of
      BY <2>3
  <2>5. (CHOOSE c \in of : c.kind = KindOrder[Max(at)]).word = W
      BY <1>4, <2>4
  <2> QED BY <1>1, <1>9, <2>5 DEF W, id
<1> QED BY <1>8, <1>9

LEMMA SymbolIsMarked ==
  ASSUME NEW now, NEW was, Program(now), Program(was), NamesTellVisibility(was \cup now),
         NEW h \in now, h.pkg \in Packages(was), Legible(h),
         \A b \in Decls(was, IdOf(h)) : b.kind = h.kind /\ Legible(b)
  PROVE  SymbolMark(now, was, IdOf(h)) = {Word({Declares(h)}, {Declares(b) : b \in Decls(was, IdOf(h))})} \ {Unmarked}
<1> DEFINE id == IdOf(h)
           W == Word({Declares(h)}, {Declares(b) : b \in Decls(was, id)})
           P == Word(PublicSymbol(now, id), PublicSymbol(was, id))
<1>1. Decls(now, id) = {h}
    BY TheDeclaration DEF Program
<1>2. WellFormed(h) /\ h \in Declaration
    BY DEF Program, WellFormed
<1>3. LegacyWord(now, was, id) = W
  <2>1. h.kind \in {KindOrder[i] : i \in DOMAIN KindOrder}
    <3>1. DOMAIN KindOrder = 1 .. 7
        BY DEF KindOrder
    <3>2. h.kind \in {"interface", "struct", "func", "typedef", "const", "var", "error"}
        BY <1>2 DEF Declaration, Types
    <3> QED BY <3>1, <3>2 DEF KindOrder
  <2>3. \A d \in Decls(now, id) \cup Decls(was, id) : d.kind = h.kind
      BY <1>1
  <2>4. LegacyWord(now, was, id) = Word({Shape(d) : d \in Decls(now, id)}, {Shape(d) : d \in Decls(was, id)})
      BY <2>1, <2>3, LegacyWordOfOne
  <2>5. {Shape(d) : d \in Decls(now, id)} = {Shape(h)}
      BY <1>1
  <2>6. CASE Decls(was, id) = {}
      BY <2>4, <2>5, <2>6 DEF Word
  <2>7. CASE Decls(was, id) # {}
    <3>1. PICK b \in Decls(was, id) : TRUE
        BY <2>7
    <3>2. Decls(was, id) = {b} /\ WellFormed(b)
        BY <3>1, TheDeclaration DEF Program, Decls
    <3>3. Shape(h) = Shape(b) <=> Declares(h) = Declares(b)
        BY <1>2, <3>1, <3>2, ShapesTell
    <3>4. {Shape(c) : c \in Decls(was, id)} = {Shape(b)} /\ {Declares(c) : c \in Decls(was, id)} = {Declares(b)}
        BY <3>2
    <3> QED BY <2>4, <2>5, <3>3, <3>4 DEF Word
  <2> QED BY <2>6, <2>7
<1>4. PublicSymbol(now, id) = IF h.exported THEN {SymbolSig(h)} ELSE {}
    BY <1>1 DEF PublicSymbol
<1>5. P \in {Unmarked, W}
  <2>1. CASE Decls(was, id) = {}
      BY <1>4, <2>1 DEF PublicSymbol, Word
  <2>2. CASE Decls(was, id) # {}
    <3>1. PICK b \in was : IdOf(b) = id
        BY <2>2 DEF Decls
    <3>2. Decls(was, id) = {b}
        BY <3>1, TheDeclaration DEF Program
    <3>3. b.name = h.name
        BY <3>1, Identifiers
    <3>4. b.exported = h.exported
        BY <3>3 DEF NamesTellVisibility
    <3>5. PublicSymbol(was, id) = IF h.exported THEN {SymbolSig(b)} ELSE {}
        BY <3>2, <3>4 DEF PublicSymbol
    <3>6. WellFormed(b)
        BY DEF Program
    <3>7. Declares(h) = Declares(b) => SymbolSig(h) = SymbolSig(b)
        BY <1>2, <3>6, DeclaredSignature
    <3>8. {Declares(c) : c \in Decls(was, id)} = {Declares(b)}
        BY <3>2
    <3> QED BY <1>4, <3>5, <3>7, <3>8 DEF Word
  <2> QED BY <2>1, <2>2
<1> HIDE DEF W, P, id
<1>6. SymbolMark(now, was, id) = {W} \ {Unmarked}
    BY <1>3, <1>5 DEF SymbolMark, PublicFirst, P
<1> QED BY <1>6 DEF W, id

(* What is public of the members of one sort and name is all of them or nothing, on both sides. *)
LEMMA PublicMembers ==
  ASSUME NEW now, NEW was, Program(now), Program(was), NamesTellVisibility(was \cup now),
         NEW h \in now, NEW b \in was, IdOf(b) = IdOf(h), b.kind = h.kind, HasMembers(h), NEW n,
         \/ Methods(h, n) = {} /\ Methods(b, n) = {}
         \/ Fields(h, n) = {} /\ Fields(b, n) = {}
  PROVE  LET id == IdOf(h)
             public == Word(PublicMember(now, id, n), PublicMember(was, id, n))
         IN public \in {Unmarked, Word(Fields(h, n) \cup Methods(h, n), Fields(b, n) \cup Methods(b, n))}
<1> DEFINE id == IdOf(h)
           ofFields(d) == {FieldSig(f) : f \in {f \in ToSet(d.fields) : f.exported /\ f.name = n}}
           ofMethods(d) == {MethodSig(m) : m \in {m \in ToSet(d.methods) : m.exported /\ m.name = n}}
<1>1. Decls(now, id) = {h} /\ Decls(was, id) = {b}
    BY TheDeclaration DEF Program
<1>2. h.name = b.name
    BY Identifiers
<1>3. h.exported = b.exported
    BY <1>2 DEF NamesTellVisibility
<1>4. HasMembers(b)
    BY DEF HasMembers
<1>5. \A d : PublicMember({d}, IdOf(d), n) = IF d.exported /\ HasMembers(d) THEN ofFields(d) \cup ofMethods(d) ELSE {}
    BY DEF PublicMember, Decls
<1>6. /\ PublicMember(now, id, n) = IF h.exported THEN ofFields(h) \cup ofMethods(h) ELSE {}
      /\ PublicMember(was, id, n) = IF h.exported THEN ofFields(b) \cup ofMethods(b) ELSE {}
    BY <1>1, <1>3, <1>4 DEF PublicMember
<1>7. /\ Fields(h, n) = {FieldSig(f) : f \in {f \in ToSet(h.fields) : f.name = n}}
      /\ Methods(h, n) = {MethodSig(m) : m \in {m \in ToSet(h.methods) : m.name = n}}
      /\ Fields(b, n) = {FieldSig(f) : f \in {f \in ToSet(b.fields) : f.name = n}}
      /\ Methods(b, n) = {MethodSig(m) : m \in {m \in ToSet(b.methods) : m.name = n}}
    BY <1>4 DEF Fields, Methods
<1>8. /\ \A x, y \in ToSet(h.fields) \cup ToSet(b.fields) : x.name = y.name => x.exported = y.exported
      /\ \A x, y \in ToSet(h.methods) \cup ToSet(b.methods) : x.name = y.name => x.exported = y.exported
    BY DEF NamesTellVisibility
<1>9. \/ ofFields(h) = Fields(h, n) /\ ofFields(b) = Fields(b, n)
      \/ ofFields(h) = {} /\ ofFields(b) = {}
  <2>1. CASE \E x \in ToSet(h.fields) \cup ToSet(b.fields) : x.name = n /\ x.exported
    <3>1. \A x \in ToSet(h.fields) \cup ToSet(b.fields) : x.name = n => x.exported
        BY <1>8, <2>1
    <3>2. /\ {x \in ToSet(h.fields) : x.exported /\ x.name = n} = {x \in ToSet(h.fields) : x.name = n}
          /\ {x \in ToSet(b.fields) : x.exported /\ x.name = n} = {x \in ToSet(b.fields) : x.name = n}
        BY <3>1
    <3>3. ofFields(h) = Fields(h, n)
        BY <1>7, <3>2
    <3>4. ofFields(b) = Fields(b, n)
        BY <1>7, <3>2
    <3> HIDE DEF ofFields, ofMethods
    <3> QED BY <3>3, <3>4
  <2>2. CASE ~\E x \in ToSet(h.fields) \cup ToSet(b.fields) : x.name = n /\ x.exported
      BY <2>2
  <2> QED BY <2>1, <2>2
<1>10. \/ ofMethods(h) = Methods(h, n) /\ ofMethods(b) = Methods(b, n)
       \/ ofMethods(h) = {} /\ ofMethods(b) = {}
  <2>1. CASE \E x \in ToSet(h.methods) \cup ToSet(b.methods) : x.name = n /\ x.exported
    <3>1. \A x \in ToSet(h.methods) \cup ToSet(b.methods) : x.name = n => x.exported
        BY <1>8, <2>1
    <3>2. /\ {x \in ToSet(h.methods) : x.exported /\ x.name = n} = {x \in ToSet(h.methods) : x.name = n}
          /\ {x \in ToSet(b.methods) : x.exported /\ x.name = n} = {x \in ToSet(b.methods) : x.name = n}
        BY <3>1
    <3>3. ofMethods(h) = Methods(h, n)
        BY <1>7, <3>2
    <3>4. ofMethods(b) = Methods(b, n)
        BY <1>7, <3>2
    <3> HIDE DEF ofFields, ofMethods
    <3> QED BY <3>3, <3>4
  <2>2. CASE ~\E x \in ToSet(h.methods) \cup ToSet(b.methods) : x.name = n /\ x.exported
      BY <2>2
  <2> QED BY <2>1, <2>2
<1>11. ofFields(h) \subseteq Fields(h, n) /\ ofFields(b) \subseteq Fields(b, n) /\ ofMethods(h) \subseteq Methods(h, n) /\ ofMethods(b) \subseteq Methods(b, n)
    BY <1>9, <1>10
<1> HIDE DEF ofFields, ofMethods
<1> QED BY <1>6, <1>9, <1>10, <1>11 DEF Word

LEMMA MemberIsMarked ==
  ASSUME NEW now, NEW was, Program(now), Program(was), NamesTellVisibility(was \cup now),
         NEW h \in now, NEW b \in was, IdOf(b) = IdOf(h), b.kind = h.kind, HasMembers(h), NEW n,
         \/ Methods(h, n) = {} /\ Methods(b, n) = {}
         \/ Fields(h, n) = {} /\ Fields(b, n) = {}
  PROVE  MemberMark(now, was, IdOf(h), n) = {Word(Fields(h, n) \cup Methods(h, n), Fields(b, n) \cup Methods(b, n))} \ {Unmarked}
<1> DEFINE id == IdOf(h)
           W == Word(Fields(h, n) \cup Methods(h, n), Fields(b, n) \cup Methods(b, n))
           P == Word(PublicMember(now, id, n), PublicMember(was, id, n))
           pairs == {p \in Decls(now, id) \X Decls(was, id) : p[1].kind = p[2].kind /\ HasMembers(p[1])}
           fields == {Word(Fields(p[1], n), Fields(p[2], n)) : p \in pairs} \ {Unmarked}
           methods == {Word(Methods(p[1], n), Methods(p[2], n)) : p \in pairs} \ {Unmarked}
<1>1. P \in {Unmarked, W}
    BY PublicMembers
<1>2. pairs = {<<h, b>>}
  <2>1. Decls(now, id) = {h} /\ Decls(was, id) = {b}
      BY TheDeclaration DEF Program
  <2> QED BY <2>1
<1>3. fields = {Word(Fields(h, n), Fields(b, n))} \ {Unmarked} /\ methods = {Word(Methods(h, n), Methods(b, n))} \ {Unmarked}
  <2> DEFINE q == <<h, b>>
  <2>1. pairs = {q} /\ q[1] = h /\ q[2] = b
      BY <1>2
  <2> HIDE DEF pairs, q
  <2> QED BY <2>1
<1>4. LegacyMemberWord(now, was, id, n) = IF methods # {} THEN methods ELSE fields
    BY DEF LegacyMemberWord
<1> HIDE DEF pairs, fields, methods
<1>5. Word({}, {}) = Unmarked
    BY DEF Word
<1>6. LegacyMemberWord(now, was, id, n) = {W} \ {Unmarked}
  <2>1. CASE Methods(h, n) = {} /\ Methods(b, n) = {}
    <3>1. methods = {} /\ W = Word(Fields(h, n), Fields(b, n))
        BY <1>3, <1>5, <2>1
    <3> QED BY <1>3, <1>4, <3>1
  <2>2. CASE Fields(h, n) = {} /\ Fields(b, n) = {}
    <3>1. fields = {} /\ W = Word(Methods(h, n), Methods(b, n))
        BY <1>3, <1>5, <2>2
    <3> QED BY <1>3, <1>4, <3>1
  <2> QED BY <2>1, <2>2
<1>7. MemberMark(now, was, id, n) = PublicFirst(P, LegacyMemberWord(now, was, id, n))
    BY DEF MemberMark
<1> HIDE DEF W, P, id
<1>8. MemberMark(now, was, id, n) = {W} \ {Unmarked}
    BY <1>1, <1>6, <1>7 DEF PublicFirst
<1> QED BY <1>8 DEF W, id

LEMMA InternalsAll ==
  ASSUME NEW now, NEW was, NEW i \in Internals(now, was)
  PROVE  \E d \in now : /\ i.id = IdOf(d) /\ i.mark = SymbolMark(now, was, IdOf(d))
                        /\ i.members = {[name |-> n, mark |-> MemberMark(now, was, IdOf(d), n)] :
                              n \in MemberNames(d) \cup
                                {n \in UNION {MemberNames(b) : b \in Decls(was, IdOf(d))} : MemberMark(now, was, IdOf(d), n) # {}}}
<1> DEFINE members(d) == {[name |-> n, mark |-> MemberMark(now, was, IdOf(d), n)] :
                              n \in MemberNames(d) \cup
                                {n \in UNION {MemberNames(b) : b \in Decls(was, IdOf(d))} : MemberMark(now, was, IdOf(d), n) # {}}}
<1>1. Internals(now, was) = {[id |-> IdOf(d), mark |-> SymbolMark(now, was, IdOf(d)), members |-> members(d)] : d \in now}
    BY DEF Internals
<1>2. \E d \in now : i.id = IdOf(d) /\ i.mark = SymbolMark(now, was, IdOf(d)) /\ i.members = members(d)
  <2> HIDE DEF members
  <2> QED BY <1>1
<1> QED BY <1>2

(* Words for at most one thing on each side do not depend on how the things are written. *)
Picked(F, S) == {F[x] : x \in S}

LEMMA WordsAlike ==
  ASSUME NEW X, NEW Y, NEW F, NEW G, \A x, y \in X : x = y, \A x, y \in Y : x = y,
         \A x \in X : \A y \in Y : F[x] = F[y] <=> G[x] = G[y]
  PROVE  Word(Picked(F, X), Picked(F, Y)) = Word(Picked(G, X), Picked(G, Y))
<1>1. CASE X = {} \/ Y = {}
  <2>1. Picked(F, X) = {} <=> X = {}
      BY DEF Picked
  <2>2. Picked(G, X) = {} <=> X = {}
      BY DEF Picked
  <2>3. Picked(F, Y) = {} <=> Y = {}
      BY DEF Picked
  <2>4. Picked(G, Y) = {} <=> Y = {}
      BY DEF Picked
  <2> QED BY <1>1, <2>1, <2>2, <2>3, <2>4 DEF Word
<1>2. CASE X # {} /\ Y # {}
  <2>1. PICK x \in X : X = {x}
      BY <1>2
  <2>2. PICK y \in Y : Y = {y}
      BY <1>2
  <2>3. Picked(F, X) = {F[x]} /\ Picked(F, Y) = {F[y]} /\ Picked(G, X) = {G[x]} /\ Picked(G, Y) = {G[y]}
      BY <2>1, <2>2 DEF Picked
  <2> QED BY <2>1, <2>2, <2>3 DEF Word
<1> QED BY <1>1, <1>2

(* The members of a sort and a name. *)
FieldsNamed(d, n) == {f \in ToSet(d.fields) : f.name = n}
MethodsNamed(d, n) == {m \in ToSet(d.methods) : m.name = n}

LEMMA MembersNamed ==
  ASSUME NEW d, HasMembers(d), NEW n
  PROVE  /\ Fields(d, n) = {FieldSig(f) : f \in FieldsNamed(d, n)} /\ Methods(d, n) = {MethodSig(m) : m \in MethodsNamed(d, n)}
         /\ MemberParts(d, n) = {FieldParts(f) : f \in FieldsNamed(d, n)} \cup {MethodParts(m) : m \in MethodsNamed(d, n)}
         /\ Fields(d, n) = {} <=> "field" \notin Sorts(d, n)
         /\ Methods(d, n) = {} <=> "method" \notin Sorts(d, n)
         /\ (Fields(d, n) = {} <=> FieldsNamed(d, n) = {}) /\ (Methods(d, n) = {} <=> MethodsNamed(d, n) = {})
         /\ Fields(d, n) \cup Methods(d, n) # {} => n \in MemberNames(d)
<1>1. Fields(d, n) = {FieldSig(f) : f \in FieldsNamed(d, n)} /\ Methods(d, n) = {MethodSig(m) : m \in MethodsNamed(d, n)}
    BY DEF Fields, Methods, FieldsNamed, MethodsNamed
<1>2. MemberParts(d, n) = {FieldParts(f) : f \in FieldsNamed(d, n)} \cup {MethodParts(m) : m \in MethodsNamed(d, n)}
    BY DEF MemberParts, FieldsNamed, MethodsNamed
<1>3. Sorts(d, n) = {"field" : f \in FieldsNamed(d, n)} \cup {"method" : m \in MethodsNamed(d, n)}
    BY DEF Sorts, FieldsNamed, MethodsNamed
<1>4. Fields(d, n) \cup Methods(d, n) # {} => n \in MemberNames(d)
    BY <1>1 DEF FieldsNamed, MethodsNamed, MemberNames
<1>5. (Fields(d, n) = {} <=> FieldsNamed(d, n) = {}) /\ (Methods(d, n) = {} <=> MethodsNamed(d, n) = {})
    BY <1>1
<1> QED BY <1>1, <1>2, <1>3, <1>4, <1>5

LEMMA FieldWords ==
  ASSUME NEW h, NEW b, WellFormed(h), WellFormed(b), Legible(h), Legible(b), NamesTellVisibility({h, b}), NEW n
  PROVE  Word({FieldSig(f) : f \in FieldsNamed(h, n)}, {FieldSig(f) : f \in FieldsNamed(b, n)})
           = Word({FieldParts(f) : f \in FieldsNamed(h, n)}, {FieldParts(f) : f \in FieldsNamed(b, n)})
<1> DEFINE S == FieldsNamed(h, n) \cup FieldsNamed(b, n)
           F == [f \in S |-> FieldSig(f)]
           G == [f \in S |-> FieldParts(f)]
<1>1. ASSUME NEW d \in {h, b} PROVE \A x, y \in FieldsNamed(d, n) : x = y
  <2>1. \A i, j \in DOMAIN d.fields : d.fields[i].name = d.fields[j].name => i = j
      BY DEF WellFormed
  <2> QED BY <2>1 DEF FieldsNamed, ToSet
<1>2. ASSUME NEW x \in FieldsNamed(h, n), NEW y \in FieldsNamed(b, n) PROVE FieldSig(x) = FieldSig(y) <=> FieldParts(x) = FieldParts(y)
  <2>1. x.name = n /\ y.name = n /\ x \in ToSet(h.fields) /\ y \in ToSet(b.fields)
      BY DEF FieldsNamed
  <2>2. x.exported = y.exported
      BY <2>1 DEF NamesTellVisibility
  <2>3. Converted(x.type) = x.type /\ Converted(y.type) = y.type
      BY <2>1, LegibleTypes
  <2>4. \A t : Spelt(<<t>>)[1] = Converted(t) /\ Spelt(<<t>>) = <<Converted(t)>>
      BY DEF Spelt
  <2>5. FieldSig(x) = FieldSig(y) <=> x.type = y.type
      BY <2>3, <2>4 DEF FieldSig
  <2> QED BY <2>1, <2>2, <2>5 DEF FieldParts
<1>3. /\ \A d \in {h, b} : /\ {FieldSig(f) : f \in FieldsNamed(d, n)} = Picked(F, FieldsNamed(d, n))
                            /\ {FieldParts(f) : f \in FieldsNamed(d, n)} = Picked(G, FieldsNamed(d, n))
    BY DEF Picked
<1>4. \A x \in FieldsNamed(h, n) : \A y \in FieldsNamed(b, n) : F[x] = F[y] <=> G[x] = G[y]
    BY <1>2
<1> HIDE DEF F, G
<1>5. Word(Picked(F, FieldsNamed(h, n)), Picked(F, FieldsNamed(b, n))) = Word(Picked(G, FieldsNamed(h, n)), Picked(G, FieldsNamed(b, n)))
    BY <1>1, <1>4, WordsAlike
<1> QED BY <1>3, <1>5

LEMMA MethodWords ==
  ASSUME NEW h, NEW b, WellFormed(h), WellFormed(b), Legible(h), Legible(b), NamesTellVisibility({h, b}), HasMembers(h), HasMembers(b), NEW n
  PROVE  Word({MethodSig(m) : m \in MethodsNamed(h, n)}, {MethodSig(m) : m \in MethodsNamed(b, n)})
           = Word({MethodParts(m) : m \in MethodsNamed(h, n)}, {MethodParts(m) : m \in MethodsNamed(b, n)})
<1> DEFINE S == MethodsNamed(h, n) \cup MethodsNamed(b, n)
           F == [m \in S |-> MethodSig(m)]
           G == [m \in S |-> MethodParts(m)]
<1>1. ASSUME NEW d \in {h, b} PROVE \A x, y \in MethodsNamed(d, n) : x = y
  <2>1. \A i, j \in DOMAIN d.methods : d.methods[i].name = d.methods[j].name => i = j
      BY DEF WellFormed
  <2> QED BY <2>1 DEF MethodsNamed, ToSet
<1>2. ASSUME NEW x \in MethodsNamed(h, n), NEW y \in MethodsNamed(b, n) PROVE MethodSig(x) = MethodSig(y) <=> MethodParts(x) = MethodParts(y)
  <2>1. x.name = n /\ y.name = n /\ x \in ToSet(h.methods) /\ y \in ToSet(b.methods)
      BY DEF MethodsNamed
  <2>2. x.exported = y.exported
      BY <2>1 DEF NamesTellVisibility
  <2>3. Spelt(x.params) = x.params /\ Spelt(x.returns) = x.returns /\ Spelt(y.params) = y.params /\ Spelt(y.returns) = y.returns
    <3>1. h.kind # "typedef" /\ b.kind # "typedef"
        BY DEF HasMembers
    <3> QED BY <2>1, <3>1, LegibleTypes
  <2> QED BY <2>1, <2>2, <2>3 DEF MethodSig, MethodParts
<1>3. /\ \A d \in {h, b} : /\ {MethodSig(m) : m \in MethodsNamed(d, n)} = Picked(F, MethodsNamed(d, n))
                            /\ {MethodParts(m) : m \in MethodsNamed(d, n)} = Picked(G, MethodsNamed(d, n))
    BY DEF Picked
<1>4. \A x \in MethodsNamed(h, n) : \A y \in MethodsNamed(b, n) : F[x] = F[y] <=> G[x] = G[y]
    BY <1>2
<1> HIDE DEF F, G
<1>5. Word(Picked(F, MethodsNamed(h, n)), Picked(F, MethodsNamed(b, n))) = Word(Picked(G, MethodsNamed(h, n)), Picked(G, MethodsNamed(b, n)))
    BY <1>1, <1>4, WordsAlike
<1> QED BY <1>3, <1>5

(* What the diffs compare of a member tells whether it changed. *)
LEMMA PartsTell ==
  ASSUME NEW h, NEW b, WellFormed(h), WellFormed(b), Legible(h), Legible(b), NamesTellVisibility({h, b}), HasMembers(h), HasMembers(b), NEW n,
         \/ Methods(h, n) = {} /\ Methods(b, n) = {}
         \/ Fields(h, n) = {} /\ Fields(b, n) = {}
  PROVE  Word(Fields(h, n) \cup Methods(h, n), Fields(b, n) \cup Methods(b, n)) = Word(MemberParts(h, n), MemberParts(b, n))
<1> DEFINE F(d) == {FieldParts(f) : f \in FieldsNamed(d, n)}
           M(d) == {MethodParts(m) : m \in MethodsNamed(d, n)}
<1>1. \A d \in {h, b} : /\ Methods(d, n) = {} => M(d) = {}
                        /\ Fields(d, n) = {} => F(d) = {}
                        /\ MemberParts(d, n) = F(d) \cup M(d)
  <2> SUFFICES ASSUME NEW d \in {h, b}
               PROVE  /\ Methods(d, n) = {} => M(d) = {}
                      /\ Fields(d, n) = {} => F(d) = {}
                      /\ MemberParts(d, n) = F(d) \cup M(d)
      OBVIOUS
  <2>1. HasMembers(d)
      OBVIOUS
  <2>2. /\ Methods(d, n) = {} => MethodsNamed(d, n) = {}
        /\ Fields(d, n) = {} => FieldsNamed(d, n) = {}
        /\ MemberParts(d, n) = F(d) \cup M(d)
      BY <2>1, MembersNamed
  <2> QED BY <2>2
<1>2. Word(Fields(h, n), Fields(b, n)) = Word(F(h), F(b))
    BY FieldWords, MembersNamed
<1>3. Word(Methods(h, n), Methods(b, n)) = Word(M(h), M(b))
    BY MethodWords, MembersNamed
<1> HIDE DEF F, M
<1> QED BY <1>1, <1>2, <1>3

(* A declaration is marked as it changed, and so is each member of a type both sides have. *)
THEOREM DeclarationsAreMarkedHolds == ReviewSpec => []DeclarationsAreMarked
<1>1. ReviewIInv => DeclarationsAreMarked
  <2> SUFFICES ASSUME ReviewIInv, NEW i \in Internals(head, base), NEW h \in Decls(head, i.id), h.pkg \in Packages(base),
                      \A d \in {h} \cup Decls(base, i.id) : Legible(d)
               PROVE  /\ (\A b \in Decls(base, i.id) : b.kind = h.kind) =>
                            i.mark = {Word({Declares(h)}, {Declares(b) : b \in Decls(base, i.id)})} \ {Unmarked}
                      /\ \A b \in {b \in Decls(base, i.id) : b.kind = h.kind /\ HasMembers(h)} : \A n \in MemberNames(h) \cup MemberNames(b) :
                           LET word == Word(MemberParts(h, n), MemberParts(b, n))
                           IN Sorts(h, n) \cup Sorts(b, n) \in {{"field"}, {"method"}} =>
                                {m.mark : m \in {m \in i.members : m.name = n}} = IF word = Unmarked THEN {{}} ELSE {{word}}
      BY DEF DeclarationsAreMarked
  <2>1. Program(base) /\ Program(head) /\ NamesTellVisibility(base \cup head)
      BY BothArePrograms
  <2> DEFINE mark(n) == MemberMark(head, base, IdOf(h), n)
             shown == MemberNames(h) \cup {n \in UNION {MemberNames(b) : b \in Decls(base, IdOf(h))} : mark(n) # {}}
  <2>2. h \in head /\ i.id = IdOf(h)
      BY DEF Decls
  <2>3. i.mark = SymbolMark(head, base, IdOf(h)) /\ i.members = {[name |-> n, mark |-> mark(n)] : n \in shown}
    <3>1. PICK d \in head : /\ i.id = IdOf(d) /\ i.mark = SymbolMark(head, base, IdOf(d))
                            /\ i.members = {[name |-> n, mark |-> MemberMark(head, base, IdOf(d), n)] :
                                  n \in MemberNames(d) \cup
                                    {n \in UNION {MemberNames(b) : b \in Decls(base, IdOf(d))} : MemberMark(head, base, IdOf(d), n) # {}}}
        BY InternalsAll
    <3>2. d = h
        BY <2>1, <2>2, <3>1 DEF Program, Compiles
    <3> QED BY <3>1, <3>2
  <2>4. ASSUME \A b \in Decls(base, i.id) : b.kind = h.kind
        PROVE  i.mark = {Word({Declares(h)}, {Declares(b) : b \in Decls(base, i.id)})} \ {Unmarked}
    <3>1. Legible(h) /\ \A b \in Decls(base, IdOf(h)) : b.kind = h.kind /\ Legible(b)
        BY <2>2, <2>4
    <3>2. SymbolMark(head, base, IdOf(h)) = {Word({Declares(h)}, {Declares(b) : b \in Decls(base, IdOf(h))})} \ {Unmarked}
        BY <2>1, <2>2, <3>1, SymbolIsMarked
    <3> QED BY <2>2, <2>3, <3>2
  <2>5. ASSUME NEW b \in Decls(base, i.id), b.kind = h.kind, HasMembers(h), NEW n \in MemberNames(h) \cup MemberNames(b),
               Sorts(h, n) \cup Sorts(b, n) \in {{"field"}, {"method"}}
        PROVE  LET word == Word(MemberParts(h, n), MemberParts(b, n))
               IN {m.mark : m \in {m \in i.members : m.name = n}} = IF word = Unmarked THEN {{}} ELSE {{word}}
    <3> DEFINE now == Fields(h, n) \cup Methods(h, n)
               then == Fields(b, n) \cup Methods(b, n)
               word == Word(MemberParts(h, n), MemberParts(b, n))
    <3>1. b \in base /\ IdOf(b) = IdOf(h) /\ b \in Decls(base, IdOf(h))
        BY <2>2 DEF Decls
    <3>2. HasMembers(h) /\ HasMembers(b)
        BY <2>5 DEF HasMembers
    <3>3. \/ Methods(h, n) = {} /\ Methods(b, n) = {}
          \/ Fields(h, n) = {} /\ Fields(b, n) = {}
      <4>1. "field" # "method"
          OBVIOUS
      <4> QED BY <2>5, <3>2, <4>1, MembersNamed
    <3>4. mark(n) = {word} \ {Unmarked} /\ Word(now, then) = word
      <4>1. mark(n) = {Word(now, then)} \ {Unmarked}
          BY <2>1, <2>2, <2>5, <3>1, <3>2, <3>3, MemberIsMarked
      <4>2. WellFormed(h) /\ WellFormed(b) /\ NamesTellVisibility({h, b})
          BY <2>1, <2>2, <3>1 DEF Program, NamesTellVisibility
      <4>3. Word(now, then) = word
          BY <3>2, <3>3, <4>2, PartsTell
      <4> QED BY <4>1, <4>3
    <3>5. n \in shown
      <4>1. CASE word # Unmarked
          BY <2>5, <3>1, <3>4, <4>1
      <4>2. CASE word = Unmarked
        <5>1. now = then
            BY <3>4, <4>2 DEF Word, Unmarked
        <5>2. now \cup then # {}
            BY <2>5, <3>2, MembersNamed
        <5>3. now # {}
          <6> HIDE DEF now, then
          <6> QED BY <5>1, <5>2
        <5> QED BY <3>2, <5>3, MembersNamed
      <4> QED BY <4>1, <4>2
    <3> HIDE DEF shown, mark, word
    <3>6. {m.mark : m \in {m \in i.members : m.name = n}} = {mark(n)}
      <4>1. \A m \in i.members : m.name = n => m.mark = mark(n)
          BY <2>3
      <4>2. \E m \in i.members : m.name = n
        <5> DEFINE row == [name |-> n, mark |-> mark(n)]
        <5>1. row \in i.members /\ row.name = n
            BY <2>3, <3>5
        <5> QED BY <5>1
      <4> QED BY <4>1, <4>2
    <3>7. {m.mark : m \in {m \in i.members : m.name = n}} = IF word = Unmarked THEN {{}} ELSE {{word}}
        BY <3>4, <3>6
    <3> QED BY <3>7 DEF word
  <2> QED BY <2>4, <2>5
<1> QED BY <1>1, ProgramsCompile, PTL

(***************************************************************************)
(* Marks of dependencies.                                                  *)
(***************************************************************************)
DepKeys(m) == {Key(d) : d \in m.deps}

LEMMA EntryAll ==
  ASSUME NEW m, NEW k
  PROVE  Entry(m, k) # {} <=> k \in DepKeys(m)
<1> DEFINE same == {d \in m.deps : Key(d) = k}
           body == {d \in same : d.part = "body"}
           chosen == IF body # {} THEN body ELSE same
<1>1. Entry(m, k) = {[exp |-> d.exp, ext |-> d.ext] : d \in chosen}
    BY DEF Entry
<1>2. chosen # {} <=> same # {}
    OBVIOUS
<1>3. same # {} <=> k \in DepKeys(m)
    BY DEF DepKeys
<1> HIDE DEF chosen, same
<1>4. Entry(m, k) # {} <=> chosen # {}
    BY <1>1
<1> QED BY <1>2, <1>3, <1>4

LEMMA WordsOfKeys ==
  ASSUME NEW h, NEW b
  PROVE  /\ \A k \in DepKeys(h) \ DepKeys(b) : EntryWord(h, b, k) = "added"
         /\ \A k \in DepKeys(b) \ DepKeys(h) : EntryWord(h, b, k) = "removed"
BY EntryAll DEF EntryWord, Word

LEMMA Words == "added" # Unmarked /\ "removed" # Unmarked
BY DEF Unmarked

(* The changes of the dependencies with a key that only one side has. *)
LEMMA OneSided ==
  ASSUME NEW h, NEW b
  PROVE  /\ \A c \in DepChanges(h, b) : c.key \in DepKeys(h) \cup DepKeys(b)
         /\ \A c \in DepChanges(h, b) : c.key \notin DepKeys(b) => c.word = "added"
         /\ \A c \in DepChanges(h, b) : c.key \notin DepKeys(h) => c.word = "removed"
         /\ \A d \in h.deps : d.from[1] \in Shared(h, b) /\ Key(d) \notin DepKeys(b) => \E c \in DepChanges(h, b) : c.key = Key(d)
         /\ \A d \in b.deps : d.from[1] \in Shared(h, b) /\ Key(d) \notin DepKeys(h) => \E c \in DepChanges(h, b) : c.key = Key(d)
<1>1. \A d \in h.deps : Key(d) \in DepKeys(h)
    BY DEF DepKeys
<1>2. \A d \in b.deps : Key(d) \in DepKeys(b)
    BY DEF DepKeys
<1>3. \A c \in DepChanges(h, b) : c.key \in DepKeys(h) \cup DepKeys(b) /\ c.word = EntryWord(h, b, c.key)
    BY <1>1, <1>2, DepChangesAll
<1> QED BY <1>1, <1>2, <1>3, DepChangesAll, WordsOfKeys, Words

LEMMA PairsOfKeys ==
  /\ \A d : PackagePair(Key(d)) = PackagePair(d)
  /\ \A m, e : e \in PackageDeps(m) <=> Crosses(m, e) /\ \E d \in m.deps : e = PackagePair(d)
  /\ \A m, k : k \in DepKeys(m) => \E d \in m.deps : Key(d) = k /\ PackagePair(d) = PackagePair(k)
<1>1. \A d : PackagePair(Key(d)) = PackagePair(d)
    BY DEF PackagePair, Key
<1>2. \A m, e : e \in PackageDeps(m) <=> Crosses(m, e) /\ \E d \in m.deps : e = PackagePair(d)
    BY DEF PackageDeps
<1> QED BY <1>1, <1>2 DEF DepKeys

LEMMA EdgesAll ==
  ASSUME NEW h, NEW b
  PROVE  /\ \A x \in Edges(h, b) : x.marks = EdgeMarks(DepChanges(h, b), x.edge)
         /\ \A e : /\ \/ e \in PackageDeps(h)
                      \/ Crosses(h, e) /\ \E c \in DepChanges(h, b) : c.word = "removed" /\ PackagePair(c.key) = e
                   => \E x \in Edges(h, b) : x.edge = e /\ (e \in PublicDeps(h) => x.public)
<1> DEFINE changes == DepChanges(h, b)
           gone == {e \in {PackagePair(c.key) : c \in {c \in changes : c.word = "removed"}} : Crosses(h, e)}
           public(e) == e \in PublicDeps(h) \/ \E c \in changes : PackagePair(c.key) = e /\ c.public
           row(e) == [edge |-> e, marks |-> EdgeMarks(changes, e), public |-> public(e)]
<1>1. Edges(h, b) = {row(e) : e \in PackageDeps(h) \cup gone}
    BY DEF Edges
<1>2. \A e : e \in PublicDeps(h) => public(e)
    OBVIOUS
<1> HIDE DEF public
<1>3. \A e : row(e).edge = e /\ row(e).marks = EdgeMarks(changes, e) /\ row(e).public = public(e)
    OBVIOUS
<1>4. \A e : Crosses(h, e) /\ (\E c \in changes : c.word = "removed" /\ PackagePair(c.key) = e) => e \in gone
    OBVIOUS
<1> HIDE DEF row, gone, changes
<1>5. \A e : e \in PackageDeps(h) \cup gone => \E x \in Edges(h, b) : x.edge = e /\ (e \in PublicDeps(h) => x.public)
    BY <1>1, <1>2, <1>3
<1>6. \A x \in Edges(h, b) : x.marks = EdgeMarks(changes, x.edge)
    BY <1>1, <1>3
<1> QED BY <1>4, <1>5, <1>6 DEF changes

LEMMA EdgesAreMarked ==
  ASSUME NEW h, NEW b, NEW e \in PackageDeps(h) \cup PackageDeps(b), {e[1], e[2]} \subseteq Shared(h, b)
  PROVE  LET marks == {x.marks : x \in {x \in Edges(h, b) : x.edge = e}}
         IN /\ e \notin PackageDeps(b) => marks = {{"added"}}
            /\ e \notin PackageDeps(h) => marks = {{"removed"}}
<1> DEFINE changes == DepChanges(h, b)
           marks == {x.marks : x \in {x \in Edges(h, b) : x.edge = e}}
<1>1. Crosses(h, e) /\ Crosses(b, e)
  <2>1. e[1] # e[2]
      BY PairsOfKeys DEF Crosses
  <2> QED BY <2>1 DEF Crosses, Shared
<1>2. \A d : PackagePair(d) = e => d.from[1] \in Shared(h, b)
    BY DEF PackagePair
<1>3. ASSUME \E x \in Edges(h, b) : x.edge = e, NEW word, EdgeMarks(changes, e) = {word}
      PROVE  marks = {{word}}
  <2>1. \A x \in Edges(h, b) : x.edge = e => x.marks = {word}
      BY <1>3, EdgesAll
  <2> QED BY <1>3, <2>1
<1>4. \A word : (\A c \in changes : PackagePair(c.key) = e => c.word = word) /\ (\E c \in changes : PackagePair(c.key) = e)
         => EdgeMarks(changes, e) = {word}
    BY DEF EdgeMarks
<1>5. ASSUME e \notin PackageDeps(b) PROVE marks = {{"added"}}
  <2>1. \A k \in DepKeys(b) : PackagePair(k) # e
      BY <1>1, <1>5, PairsOfKeys
  <2>2. \A c \in changes : PackagePair(c.key) = e => c.word = "added"
      BY <2>1, OneSided
  <2>3. PICK d \in h.deps : e = PackagePair(d)
      BY <1>5, PairsOfKeys
  <2>4. Key(d) \notin DepKeys(b)
      BY <2>1, <2>3, PairsOfKeys
  <2>5. \E c \in changes : PackagePair(c.key) = e
      BY <1>2, <2>3, <2>4, OneSided, PairsOfKeys
  <2>6. \E x \in Edges(h, b) : x.edge = e
      BY <1>5, EdgesAll
  <2> HIDE DEF changes, marks
  <2> QED BY <1>3, <1>4, <2>2, <2>5, <2>6
<1>6. ASSUME e \notin PackageDeps(h) PROVE marks = {{"removed"}}
  <2>1. \A k \in DepKeys(h) : PackagePair(k) # e
      BY <1>1, <1>6, PairsOfKeys
  <2>2. \A c \in changes : PackagePair(c.key) = e => c.word = "removed"
      BY <2>1, OneSided
  <2>3. PICK d \in b.deps : e = PackagePair(d)
      BY <1>6, PairsOfKeys
  <2>4. Key(d) \notin DepKeys(h)
      BY <2>1, <2>3, PairsOfKeys
  <2>5. \E c \in changes : PackagePair(c.key) = e
      BY <1>2, <2>3, <2>4, OneSided, PairsOfKeys
  <2>6. \E x \in Edges(h, b) : x.edge = e
      BY <1>1, <2>2, <2>5, EdgesAll
  <2> HIDE DEF changes, marks
  <2> QED BY <1>3, <1>4, <2>2, <2>5, <2>6
<1> HIDE DEF marks
<1>7. (e \notin PackageDeps(b) => marks = {{"added"}}) /\ (e \notin PackageDeps(h) => marks = {{"removed"}})
    BY <1>5, <1>6
<1> QED BY <1>7 DEF marks

(* A type named by a function or a method is among what it depends on. *)
LEMMA RelateAll ==
  \A kind, from, types, r : r \in Relate(kind, from, types) =>
    /\ r.kind = kind /\ r.from = from /\ r = [kind |-> kind, from |-> from, to |-> r.to]
    /\ \E t \in ToSet(types) : \E q \in Flat(t) : r.to = Localised(from[1], q)
BY DEF Relate

LEMMA FlatRefs ==
  ASSUME NEW pkg, NEW t \in TypeRef, NEW q \in Flat(t)
  PROVE  Localised(pkg, q) \in ToSet(SymbolRefs(pkg, t))
<1>1. t.shape \in {"plain", "map", "instance"}
    BY DEF Flat
<1>2. q \in ToSet(t.refs)
  <2>1. CASE t.shape \in {"plain", "map"}
      BY <2>1 DEF Flat
  <2>2. CASE t.shape = "instance"
    <3>1. t.refs \in Seq(SymbolRef) /\ t.refs # <<>>
        BY <2>2 DEF TypeRef
    <3>2. 1 \in DOMAIN t.refs
        BY <3>1
    <3>3. q = t.refs[1]
        BY <2>2 DEF Flat
    <3> QED BY <3>2, <3>3 DEF ToSet
  <2> QED BY <1>1, <2>1, <2>2
<1>3. PICK i \in DOMAIN t.refs : q = t.refs[i]
    BY <1>2 DEF ToSet
<1>4. i \in DOMAIN SymbolRefs(pkg, t) /\ SymbolRefs(pkg, t)[i] = Localised(pkg, q)
    BY <1>1, <1>3, RefsAll
<1> QED BY <1>4 DEF ToSet

LEMMA KeysOfDeps ==
  \A from, to, kind, exp, y : SameKey(y, Dep(from, to, kind, exp)) => Key(y) = [kind |-> kind, from |-> from, to |-> to]
BY DEF SameKey, Dep, Key

(* What a signature relates is a candidate. *)
KeyIs(x, r) == \A y : SameKey(y, x) => Key(y) = r

LEMMA SignatureKeys ==
  \A m, from, exp, r :
    m.params \in Seq(TypeRef) /\ m.returns \in Seq(TypeRef) /\ r \in SignatureRelations(from, m) =>
      \E x \in ToSet(MethodDeps(from, m, exp)) : KeyIs(x, r)
<1> TAKE m, from, exp, r
<1> HAVE m.params \in Seq(TypeRef) /\ m.returns \in Seq(TypeRef) /\ r \in SignatureRelations(from, m)
<1>1. CASE r \in Relate("uses", from, m.params)
  <2>1. r = [kind |-> "uses", from |-> from, to |-> r.to]
      BY <1>1, RelateAll
  <2>2. PICK t \in ToSet(m.params) : \E q \in Flat(t) : r.to = Localised(from[1], q)
      BY <1>1, RelateAll
  <2>3. t \in TypeRef
      BY Sequences
  <2>4. r.to \in ToSet(SymbolRefs(from[1], t))
      BY <2>2, <2>3, FlatRefs
  <2> DEFINE x == Dep(from, r.to, "uses", exp)
  <2>5. x \in ToSet(MethodDeps(from, m, exp))
      BY <2>4, MethodDepsAll
  <2>6. KeyIs(x, r)
      BY <2>1, KeysOfDeps DEF KeyIs
  <2> HIDE DEF x
  <2> QED BY <2>5, <2>6
<1>2. CASE r \in Relate("returns", from, m.returns)
  <2>1. r = [kind |-> "returns", from |-> from, to |-> r.to]
      BY <1>2, RelateAll
  <2>2. PICK t \in ToSet(m.returns) : \E q \in Flat(t) : r.to = Localised(from[1], q)
      BY <1>2, RelateAll
  <2>3. t \in TypeRef
      BY Sequences
  <2>4. r.to \in ToSet(SymbolRefs(from[1], t))
      BY <2>2, <2>3, FlatRefs
  <2> DEFINE x == Dep(from, r.to, "returns", exp)
  <2>5. x \in ToSet(MethodDeps(from, m, exp))
      BY <2>4, MethodDepsAll
  <2>6. KeyIs(x, r)
      BY <2>1, KeysOfDeps DEF KeyIs
  <2> HIDE DEF x
  <2> QED BY <2>5, <2>6
<1> QED BY <1>1, <1>2 DEF SignatureRelations

LEMMA OwnersOfMembers ==
  /\ \A d : Owner(IdOf(d)) = IdOf(d)
  /\ \A d, m : Owner(MemberOf(d, m)) = IdOf(d) /\ Last(MemberOf(d, m)) = m.name
<1>1. \A d, m : MemberOf(d, m)[3] = m.name /\ Len(MemberOf(d, m)) = 3
    BY Identifiers
<1> QED BY <1>1, Identifiers DEF Owner, Last

LEMMA RelationsOfTypes ==
  ASSUME NEW prog, Program(prog), NEW d \in prog, NEW r \in TypeRelations(d), r.kind \in {"uses", "returns"},
         NamesTypes(Model(prog), r)
  PROVE  \/ d.kind = "func" /\ r \in SignatureRelations(IdOf(d), d.methods[1])
         \/ HasMembers(d) /\ \E m \in ToSet(d.methods) : r \in SignatureRelations(MemberOf(d, m), m)
<1>1. PICK e \in Decls(prog, Owner(r.from)) : e.kind = "func" \/ Methods(e, Last(r.from)) # {}
    BY ModelParts DEF NamesTypes
<1>2. ASSUME Owner(r.from) = IdOf(d) PROVE e = d
    BY <1>1, <1>2 DEF Decls, Program, Compiles
<1>3. CASE HasMembers(d)
  <2>1. \/ \E m \in ToSet(d.methods) : r \in SignatureRelations(MemberOf(d, m), m)
        \/ \E f \in ToSet(d.fields) : r \in Relate("uses", MemberOf(d, f), <<f.type>>)
    <3> DEFINE ofMethods == UNION {SignatureRelations(MemberOf(d, m), m) : m \in ToSet(d.methods)}
               ofFields == UNION {Relate("uses", MemberOf(d, f), <<f.type>>) : f \in ToSet(d.fields)}
    <3>1. TypeRelations(d) = ofMethods \cup ofFields
        BY <1>3 DEF TypeRelations, HasMembers
    <3> QED BY <3>1
  <2>2. ASSUME NEW f \in ToSet(d.fields), r \in Relate("uses", MemberOf(d, f), <<f.type>>) PROVE FALSE
    <3>1. r.from = MemberOf(d, f)
        BY <2>2, RelateAll
    <3>2. Owner(r.from) = IdOf(d) /\ Last(r.from) = f.name
        BY <3>1, OwnersOfMembers
    <3>3. d.kind # "func"
        BY <1>3 DEF HasMembers
    <3>4. Methods(d, f.name) # {}
        BY <1>1, <1>2, <3>2, <3>3
    <3>5. \E m \in ToSet(d.methods) : m.name = f.name
        BY <3>4 DEF Methods
    <3> QED BY <3>5 DEF Program, WellFormed
  <2> QED BY <1>3, <2>1, <2>2
<1>4. CASE d.kind = "func"
  <2>1. ~HasMembers(d)
      BY <1>4 DEF HasMembers
  <2> QED BY <1>4, <2>1 DEF TypeRelations
<1>5. CASE ~HasMembers(d) /\ d.kind # "func"
  <2>1. r \in Relate("uses", IdOf(d), d.types)
      BY <1>5 DEF TypeRelations
  <2>2. Owner(r.from) = IdOf(d)
      BY <2>1, RelateAll, OwnersOfMembers
  <2>3. Methods(d, Last(r.from)) # {}
      BY <1>1, <1>2, <1>5, <2>2
  <2> QED BY <1>5, <2>3 DEF Methods
<1> QED BY <1>3, <1>4, <1>5

LEMMA RelationsAreDeps ==
  ASSUME NEW prog, Program(prog), NEW r \in Present(Model(prog)), NamesTypes(Model(prog), r)
  PROVE  r \in DepKeys(Model(prog))
<1>1. r.kind \in {"uses", "returns"}
    BY DEF NamesTypes
<1>2. PICK d \in prog : r \in TypeRelations(d)
  <2> DEFINE types == UNION {TypeRelations(d) : d \in prog}
             ofCalls == {[kind |-> "calls", from |-> c.from, to |-> c.to] : c \in Calls(prog)}
             impls == {[kind |-> "implements", from |-> i.concrete, to |-> i.iface] : i \in Implementations(prog)}
  <2>1. r \in (types \cup ofCalls) \cup impls
      BY ModelParts DEF Present
  <2>2. r \notin ofCalls /\ r \notin impls
      BY <1>1
  <2> HIDE DEF ofCalls, impls
  <2> QED BY <2>1, <2>2
<1>3. \E x \in ToSet(Candidates(d)) : KeyIs(x, r)
  <2>1. CASE d.kind = "func" /\ r \in SignatureRelations(IdOf(d), d.methods[1])
    <3>1. d.methods[1].params \in Seq(TypeRef) /\ d.methods[1].returns \in Seq(TypeRef)
        BY <2>1, TypedMethods
    <3>2. PICK x \in ToSet(MethodDeps(IdOf(d), d.methods[1], d.exported)) : KeyIs(x, r)
        BY <2>1, <3>1, SignatureKeys
    <3>3. FuncDep(d, x)
        BY <2>1 DEF FuncDep
    <3> QED BY <3>2, <3>3, CandidatesAll
  <2>2. CASE HasMembers(d) /\ \E m \in ToSet(d.methods) : r \in SignatureRelations(MemberOf(d, m), m)
    <3>1. PICK m \in ToSet(d.methods) : r \in SignatureRelations(MemberOf(d, m), m)
        BY <2>2
    <3>2. m.params \in Seq(TypeRef) /\ m.returns \in Seq(TypeRef)
        BY TypedMethods
    <3> DEFINE exp == d.exported /\ m.exported
    <3>3. \E x \in ToSet(MethodDeps(MemberOf(d, m), m, exp)) : KeyIs(x, r)
      <4> HIDE DEF exp
      <4> QED BY <3>1, <3>2, SignatureKeys
    <3>4. PICK x \in ToSet(MethodDeps(MemberOf(d, m), m, exp)) : KeyIs(x, r)
        BY <3>3
    <3>5. MethodDep(d, x)
        BY <2>2, <3>4 DEF MethodDep, HasMembers
    <3> QED BY <3>4, <3>5, CandidatesAll
  <2> QED BY <1>1, <1>2, <2>1, <2>2, RelationsOfTypes
<1>4. PICK x \in ToSet(Candidates(d)) : KeyIs(x, r)
    BY <1>3
<1>5. PICK y \in FirstOfKey(Candidates(d)) : SameKey(y, x)
    BY CandidatesAll, FirstsHaveAllKeys
<1>6. y \in Dependencies(prog)
    BY DependenciesAll DEF DepsFor
<1> QED BY <1>4, <1>5, <1>6, ModelParts DEF DepKeys, KeyIs

LEMMA RelationsAll ==
  ASSUME NEW h, NEW b
  PROVE  /\ \A x \in Relations(h, b) : x.marks = RelationMarks(DepChanges(h, b), x.relation)
         /\ \A r : /\ \/ r \in Present(h)
                      \/ /\ {r.from[1], r.to[1]} \subseteq Packages(h.decls)
                         /\ \E c \in DepChanges(h, b) : c.word = "removed" /\ c.key = r
                   => \E x \in Relations(h, b) : x.relation = r
<1> DEFINE changes == DepChanges(h, b)
           gone == {c.key : c \in {c \in changes : c.word = "removed" /\ {c.key.from[1], c.key.to[1]} \subseteq Packages(h.decls)}}
           row(r) == [relation |-> r, marks |-> RelationMarks(changes, r)]
<1>1. Relations(h, b) = {row(r) : r \in Present(h) \cup gone}
    BY DEF Relations
<1>2. \A r : row(r).relation = r /\ row(r).marks = RelationMarks(changes, r)
    OBVIOUS
<1>3. \A r : {r.from[1], r.to[1]} \subseteq Packages(h.decls) /\ (\E c \in changes : c.word = "removed" /\ c.key = r) => r \in gone
    OBVIOUS
<1> HIDE DEF row, gone, changes
<1>4. \A r : r \in Present(h) \cup gone => \E x \in Relations(h, b) : x.relation = r
    BY <1>1, <1>2
<1>5. \A x \in Relations(h, b) : x.marks = RelationMarks(changes, x.relation)
    BY <1>1, <1>2
<1> QED BY <1>3, <1>4, <1>5 DEF changes

OneWord(changes, r, word) ==
  /\ \E c \in changes : c.key = r
  /\ \A c \in changes : c.key = r => c.word = word

LEMMA ExactMarks ==
  \A changes, r, word : OneWord(changes, r, word) => RelationMarks(changes, r) = {word}
<1> TAKE changes, r, word
<1> HAVE OneWord(changes, r, word)
<1> DEFINE exact == {c \in changes : c.key = r}
<1>1. exact # {} /\ \A c \in exact : c.word = word
    BY DEF OneWord
<1>2. RelationMarks(changes, r) = {c.word : c \in exact}
    BY <1>1 DEF RelationMarks
<1> HIDE DEF exact
<1> QED BY <1>1, <1>2

LEMMA RelationsAreMarked ==
  ASSUME NEW now, NEW was, Program(now), Program(was)
  PROVE  LET h == Model(now)  b == Model(was)
         IN \A r : {r.from[1], r.to[1]} \subseteq Packages(now) \cap Packages(was) =>
              LET marks == {x.marks : x \in {x \in Relations(h, b) : x.relation = r}}
              IN /\ r \in Present(h) /\ NamesTypes(h, r) /\ r \notin DepKeys(b) => marks = {{"added"}}
                 /\ r \in Present(b) /\ NamesTypes(b, r) /\ r \notin DepKeys(h) => marks = {{"removed"}}
<1> DEFINE h == Model(now)
           b == Model(was)
           changes == DepChanges(h, b)
           marks(r) == {x.marks : x \in {x \in Relations(h, b) : x.relation = r}}
<1>1. h.decls = now /\ b.decls = was /\ h.deps = Dependencies(now) /\ b.deps = Dependencies(was)
    BY ModelParts
<1>2. ASSUME NEW r, r \in Present(h), NamesTypes(h, r) PROVE r \in DepKeys(h)
    BY <1>2, RelationsAreDeps
<1>3. ASSUME NEW r, r \in Present(b), NamesTypes(b, r) PROVE r \in DepKeys(b)
    BY <1>3, RelationsAreDeps
<1> HIDE DEF h, b
<1>4. ASSUME NEW r, \E x \in Relations(h, b) : x.relation = r, NEW word, RelationMarks(changes, r) = {word}
      PROVE  marks(r) = {{word}}
  <2>1. \A x \in Relations(h, b) : x.relation = r => x.marks = {word}
      BY <1>4, RelationsAll
  <2> QED BY <1>4, <2>1
<1>5. ASSUME NEW r, {r.from[1], r.to[1]} \subseteq Packages(now) \cap Packages(was)
      PROVE  /\ r \in Present(h) /\ NamesTypes(h, r) /\ r \notin DepKeys(b) => marks(r) = {{"added"}}
             /\ r \in Present(b) /\ NamesTypes(b, r) /\ r \notin DepKeys(h) => marks(r) = {{"removed"}}
  <2>1. \A d : Key(d) = r => d.from[1] \in Shared(h, b)
      BY <1>1, <1>5 DEF Shared, Key
  <2>2. ASSUME r \in Present(h), NamesTypes(h, r), r \notin DepKeys(b) PROVE marks(r) = {{"added"}}
    <3>1. PICK d \in h.deps : Key(d) = r
        BY <1>2, <2>2 DEF DepKeys
    <3>2. \E c \in changes : c.key = r
        BY <2>1, <2>2, <3>1, OneSided
    <3>3. \A c \in changes : c.key = r => c.word = "added"
        BY <2>2, OneSided
    <3>4. RelationMarks(changes, r) = {"added"}
      <4>1. OneWord(changes, r, "added")
          BY <3>2, <3>3 DEF OneWord
      <4> QED BY <4>1, ExactMarks
    <3>5. \E x \in Relations(h, b) : x.relation = r
        BY <2>2, RelationsAll
    <3> HIDE DEF changes, marks
    <3> QED BY <1>4, <3>4, <3>5
  <2>3. ASSUME r \in Present(b), NamesTypes(b, r), r \notin DepKeys(h) PROVE marks(r) = {{"removed"}}
    <3>1. PICK d \in b.deps : Key(d) = r
        BY <1>3, <2>3 DEF DepKeys
    <3>2. \E c \in changes : c.key = r
        BY <2>1, <2>3, <3>1, OneSided
    <3>3. \A c \in changes : c.key = r => c.word = "removed"
        BY <2>3, OneSided
    <3>4. RelationMarks(changes, r) = {"removed"}
      <4>1. OneWord(changes, r, "removed")
          BY <3>2, <3>3 DEF OneWord
      <4> QED BY <4>1, ExactMarks
    <3>5. \E x \in Relations(h, b) : x.relation = r
        BY <1>1, <1>5, <3>2, <3>3, RelationsAll
    <3> HIDE DEF changes, marks
    <3> QED BY <1>4, <3>4, <3>5
  <2> HIDE DEF marks
  <2> QED BY <2>2, <2>3
<1> QED BY <1>5 DEF h, b

(***************************************************************************)
(* Public edges.                                                           *)
(***************************************************************************)
(* x is in s, and what comes before it is from the first i of the sequences. *)
Placed(s, x, seqs, i) ==
  \E q \in 1 .. Len(s) : s[q] = x /\ \A p \in 1 .. q : \E j \in 1 .. i : s[p] \in ToSet(seqs[j])

LEMMA FlattenKeepsOrder ==
  ASSUME NEW S, NEW seqs \in Seq(Seq(S))
  PROVE  \A i \in DOMAIN seqs : \A x \in ToSet(seqs[i]) : Placed(FlattenSeq(seqs), x, seqs, i)
<1> DEFINE n == Len(seqs)
           g == CHOOSE g : FlatTo(seqs, n, g)
           T == {m \in Nat : m \in 1 .. n => /\ g[m] \in Seq(S)
                                             /\ \A y \in ToSet(g[m]) : \E j \in 1 .. m : y \in ToSet(seqs[j])
                                             /\ \A i \in 1 .. m : \A x \in ToSet(seqs[i]) : Placed(g[m], x, seqs, i)}
<1>1. n \in Nat /\ DOMAIN seqs = 1 .. n /\ \A i \in 1 .. n : seqs[i] \in Seq(S)
    OBVIOUS
<1>2. n # 0 => FlattenSeq(seqs) = g[n]
    BY DEF FlattenSeq, FlatTo
<1>3. FlatTo(seqs, n, g)
    BY <1>1, FlatExists
<1>4. \A i \in 1 .. n : g[i] = IF i = 1 THEN seqs[i] ELSE g[i - 1] \o seqs[i]
  <2> HIDE DEF g, n
  <2> QED BY <1>3 DEF FlatTo
<1> HIDE DEF g, n
<1>5. \A s \in Seq(S) : Len(s) \in Nat /\ ToSet(s) = {s[i] : i \in 1 .. Len(s)}
    BY DEF ToSet
<1>6. 0 \in T
    OBVIOUS
<1>7. ASSUME NEW m \in Nat, m \in T PROVE m + 1 \in T
  <2> SUFFICES ASSUME m + 1 \in 1 .. n
               PROVE  /\ g[m + 1] \in Seq(S)
                      /\ \A y \in ToSet(g[m + 1]) : \E j \in 1 .. m + 1 : y \in ToSet(seqs[j])
                      /\ \A i \in 1 .. m + 1 : \A x \in ToSet(seqs[i]) : Placed(g[m + 1], x, seqs, i)
      OBVIOUS
  <2>1. CASE m = 0
    <3>1. m + 1 = 1 /\ g[1] = seqs[1] /\ seqs[1] \in Seq(S)
        BY <1>1, <1>4, <2>1
    <3>2. \A j \in 1 .. 1 : j = 1
        OBVIOUS
    <3>3. ASSUME NEW x \in ToSet(seqs[1]) PROVE Placed(seqs[1], x, seqs, 1)
      <4>1. PICK q \in 1 .. Len(seqs[1]) : seqs[1][q] = x
          BY <1>5, <3>1
      <4>2. \A p \in 1 .. q : seqs[1][p] \in ToSet(seqs[1])
          BY <1>5, <3>1
      <4> QED BY <4>1, <4>2 DEF Placed
    <3> QED BY <3>1, <3>2, <3>3
  <2>2. CASE m # 0
    <3> DEFINE old == g[m]
               new == g[m + 1]
               last == seqs[m + 1]
    <3>0. m \in 1 .. n /\ m + 1 # 1 /\ (m + 1) - 1 = m
        BY <1>1, <2>2
    <3>1. new = old \o last /\ last \in Seq(S)
        BY <1>1, <1>4, <3>0
    <3>2. /\ old \in Seq(S)
          /\ \A y \in ToSet(old) : \E j \in 1 .. m : y \in ToSet(seqs[j])
          /\ \A i \in 1 .. m : \A x \in ToSet(seqs[i]) : Placed(old, x, seqs, i)
        BY <1>7, <3>0
    <3> HIDE DEF old, new
    <3>3. new \in Seq(S) /\ Len(new) = Len(old) + Len(last) /\ Len(old) \in Nat /\ Len(last) \in Nat
        BY <3>1, <3>2
    <3>4. \A p \in 1 .. Len(old) : p \in 1 .. Len(new) /\ new[p] = old[p]
        BY <3>1, <3>2, <3>3
    <3>5. \A p \in 1 .. Len(last) : Len(old) + p \in 1 .. Len(new) /\ new[Len(old) + p] = last[p]
        BY <3>1, <3>2, <3>3
    <3>6. ASSUME NEW p \in 1 .. Len(new)
          PROVE  \/ p \in 1 .. Len(old) /\ new[p] \in ToSet(old)
                 \/ new[p] \in ToSet(last)
      <4>1. CASE p <= Len(old)
        <5>1. p \in 1 .. Len(old)
            BY <3>3, <4>1
        <5> QED BY <1>5, <3>2, <3>4, <5>1
      <4>2. CASE ~(p <= Len(old))
        <5>1. p - Len(old) \in 1 .. Len(last) /\ Len(old) + (p - Len(old)) = p
            BY <3>3, <4>2
        <5>2. new[p] = last[p - Len(old)]
            BY <3>5, <5>1
        <5> QED BY <1>5, <3>1, <5>1, <5>2
      <4> QED BY <4>1, <4>2
    <3>7. \A i : i \in 1 .. m + 1 <=> i \in 1 .. m \/ i = m + 1
        OBVIOUS
    <3>8. \A p \in 1 .. Len(new) : \E j \in 1 .. m + 1 : new[p] \in ToSet(seqs[j])
      <4> SUFFICES ASSUME NEW p \in 1 .. Len(new) PROVE \E j \in 1 .. m + 1 : new[p] \in ToSet(seqs[j])
          OBVIOUS
      <4>1. CASE new[p] \in ToSet(old)
        <5>1. PICK j \in 1 .. m : new[p] \in ToSet(seqs[j])
            BY <3>2, <4>1
        <5> QED BY <3>7, <5>1
      <4>2. CASE new[p] \in ToSet(last)
          BY <3>7, <4>2
      <4> QED BY <3>6, <4>1, <4>2
    <3>9. \A y \in ToSet(new) : \E j \in 1 .. m + 1 : y \in ToSet(seqs[j])
        BY <1>5, <3>3, <3>8
    <3>10. ASSUME NEW i \in 1 .. m, NEW x \in ToSet(seqs[i]) PROVE Placed(new, x, seqs, i)
      <4>1. PICK q \in 1 .. Len(old) : old[q] = x /\ \A p \in 1 .. q : \E j \in 1 .. i : old[p] \in ToSet(seqs[j])
          BY <3>2 DEF Placed
      <4>2. \A p \in 1 .. q : p \in 1 .. Len(old)
          BY <3>3
      <4>3. \A p \in 1 .. q : \E j \in 1 .. i : new[p] \in ToSet(seqs[j])
          BY <3>4, <4>1, <4>2
      <4>4. q \in 1 .. Len(new) /\ new[q] = x
          BY <3>4, <4>1
      <4> QED BY <4>3, <4>4 DEF Placed
    <3>11. ASSUME NEW x \in ToSet(last) PROVE Placed(new, x, seqs, m + 1)
      <4>1. PICK k \in 1 .. Len(last) : last[k] = x
          BY <1>5, <3>1
      <4> DEFINE q == Len(old) + k
      <4>2. q \in 1 .. Len(new) /\ new[q] = x
          BY <3>5, <4>1
      <4>3. \A p \in 1 .. q : p \in 1 .. Len(new)
          BY <3>3, <4>2
      <4> HIDE DEF q
      <4>4. \A p \in 1 .. q : \E j \in 1 .. m + 1 : new[p] \in ToSet(seqs[j])
          BY <3>8, <4>3
      <4> QED BY <4>2, <4>4 DEF Placed
    <3> HIDE DEF T
    <3> QED BY <3>3, <3>7, <3>9, <3>10, <3>11 DEF new, last
  <2> QED BY <2>1, <2>2
<1> HIDE DEF T
<1>8. \A m \in Nat : m \in T
    BY <1>6, <1>7, SetInduction
<1> SUFFICES ASSUME NEW i \in DOMAIN seqs, NEW x \in ToSet(seqs[i]) PROVE Placed(FlattenSeq(seqs), x, seqs, i)
    OBVIOUS
<1>9. n # 0 /\ n \in 1 .. n /\ i \in 1 .. n
    BY <1>1
<1>10. Placed(g[n], x, seqs, i)
  <2>1. n \in T
      BY <1>1, <1>8
  <2> QED BY <1>9, <2>1 DEF T
<1> QED BY <1>2, <1>9, <1>10

LEMMA DepFields ==
  \A from, to, kind, exp :
    /\ Dep(from, to, kind, exp).from = from /\ Dep(from, to, kind, exp).to = to
    /\ Dep(from, to, kind, exp).kind = kind /\ Dep(from, to, kind, exp).exp = exp
BY DEF Dep

LEMMA DepsOnOne ==
  \A from, kind, exp : \A t \in TypeRef :
    /\ IsSeq(DepsOn(from, <<t>>, kind, exp))
    /\ \A x : x \in ToSet(DepsOn(from, <<t>>, kind, exp)) <=> \E r \in ToSet(SymbolRefs(from[1], t)) : x = Dep(from, r, kind, exp)
<1> TAKE from, kind, exp
<1> TAKE t \in TypeRef
<1> DEFINE types == <<t>>
<1>1. types \in Seq(TypeRef) /\ ToSet(types) = {t}
    BY DEF ToSet
<1> HIDE DEF types
<1>2. /\ IsSeq(DepsOn(from, types, kind, exp))
      /\ \A x : x \in ToSet(DepsOn(from, types, kind, exp)) <=>
           \E u \in ToSet(types) : \E r \in ToSet(SymbolRefs(from[1], u)) : x = Dep(from, r, kind, exp)
    BY <1>1, DepsOnAll
<1> QED BY <1>1, <1>2 DEF types

LEMMA MethodDepsNamed ==
  \A from, m, exp, t, r : m \in MethodDef /\ t \in ToSet(m.params) \cup ToSet(m.returns) /\ t.shape \notin {"maps", "chan", "func"} /\ r \in ToSet(t.refs) /\ r[1] # Root =>
    \E x \in ToSet(MethodDeps(from, m, exp)) : x.from = from /\ x.to = r
<1> TAKE from, m, exp, t, r
<1> HAVE m \in MethodDef /\ t \in ToSet(m.params) \cup ToSet(m.returns) /\ t.shape \notin {"maps", "chan", "func"} /\ r \in ToSet(t.refs) /\ r[1] # Root
<1>1. m.params \in Seq(TypeRef) /\ m.returns \in Seq(TypeRef)
    BY DEF MethodDef
<1>2. r \in ToSet(SymbolRefs(from[1], t))
  <2>1. t \in TypeRef
      BY <1>1, Sequences
  <2> QED BY <2>1, NamesInside
<1>3. CASE t \in ToSet(m.params)
  <2> DEFINE x == Dep(from, r, "uses", exp)
  <2>1. x \in ToSet(MethodDeps(from, m, exp))
      BY <1>1, <1>2, <1>3, MethodDepsAll
  <2> QED BY <2>1, DepFields
<1>4. CASE t \in ToSet(m.returns)
  <2> DEFINE x == Dep(from, r, "returns", exp)
  <2>1. x \in ToSet(MethodDeps(from, m, exp))
      BY <1>1, <1>2, <1>4, MethodDepsAll
  <2> QED BY <2>1, DepFields
<1> QED BY <1>3, <1>4

LEMMA MethodDepsFrom ==
  \A from, m, exp : m \in MethodDef => \A x \in ToSet(MethodDeps(from, m, exp)) : x.from = from /\ x.exp = exp
<1> TAKE from, m, exp
<1> HAVE m \in MethodDef
<1>1. m.params \in Seq(TypeRef) /\ m.returns \in Seq(TypeRef)
    BY DEF MethodDef
<1> QED BY <1>1, MethodDepsAll, DepFields

PublicDep(prog, d, r) == \E y \in Dependencies(prog) : y.from[1] = d.pkg /\ y.to = r /\ y.exp

(* The first dependency with a key has the flag that all with the key have. *)
LEMMA AllPublicFirstPublic ==
  ASSUME NEW prog, Program(prog), NEW d \in prog, NEW x \in ToSet(Candidates(d)), x.from[1] = d.pkg,
         \A y \in ToSet(Candidates(d)) : y.from = x.from => y.exp
  PROVE  PublicDep(prog, d, x.to)
<1>1. PICK y \in FirstOfKey(Candidates(d)) : SameKey(y, x)
    BY CandidatesAll, FirstsHaveAllKeys
<1>2. y \in ToSet(Candidates(d))
    BY CandidatesAll, FirstsAll
<1>3. y \in Dependencies(prog)
    BY DependenciesAll DEF DepsFor
<1> QED BY <1>1, <1>2, <1>3 DEF SameKey, PublicDep

LEMMA MethodsArePublic ==
  ASSUME NEW prog, Program(prog), NEW d \in prog, d.exported, d.kind # "typedef", NEW m \in ToSet(d.methods), m.exported,
         NEW t \in ToSet(m.params) \cup ToSet(m.returns), t.shape \notin {"maps", "chan", "func"}, NEW r \in ToSet(t.refs), r[1] # Root
  PROVE  PublicDep(prog, d, r)
<1>1. m \in MethodDef /\ WellFormed(d)
    BY TypedMethods DEF Program
<1>2. IdOf(d)[1] = d.pkg /\ MemberOf(d, m)[1] = d.pkg /\ \A k : Len(MemberOf(d, k)) = 3 /\ Len(IdOf(d)) = 2 /\ MemberOf(d, k)[3] = k.name
    BY Identifiers
<1>3. CASE d.kind = "func"
  <2>1. m = d.methods[1]
    <3>1. d.methods \in Seq(MethodDef) /\ Len(d.methods) = 1
        BY <1>3, TypedMethods
    <3> QED BY <3>1 DEF ToSet
  <2> DEFINE exp == d.exported
  <2> HIDE DEF exp
  <2>2. PICK x \in ToSet(MethodDeps(IdOf(d), m, exp)) : x.from = IdOf(d) /\ x.to = r
      BY <1>1, MethodDepsNamed
  <2>3. x \in ToSet(Candidates(d))
      BY <1>3, <2>1, CandidatesAll DEF FuncDep, exp
  <2>4. \A y \in ToSet(Candidates(d)) : y.exp
    <3> SUFFICES ASSUME NEW y \in ToSet(Candidates(d)) PROVE y.exp
        OBVIOUS
    <3>1. FuncDep(d, y)
        BY <1>3, CandidatesAll DEF FieldDep, MethodDep, ValueDep
    <3>2. y \in ToSet(MethodDeps(IdOf(d), m, exp))
        BY <2>1, <3>1 DEF FuncDep, exp
    <3>3. y.exp = exp
        BY <1>1, <3>2, MethodDepsFrom
    <3> QED BY <3>3 DEF exp
  <2> QED BY <1>2, <2>2, <2>3, <2>4, AllPublicFirstPublic
<1>4. CASE d.kind \in {"interface", "struct"}
  <2> DEFINE exp == d.exported /\ m.exported
  <2>1. \E x \in ToSet(MethodDeps(MemberOf(d, m), m, exp)) : x.from = MemberOf(d, m) /\ x.to = r
    <3> HIDE DEF exp
    <3> QED BY <1>1, MethodDepsNamed
  <2>2. PICK x \in ToSet(MethodDeps(MemberOf(d, m), m, exp)) : x.from = MemberOf(d, m) /\ x.to = r
      BY <2>1
  <2>3. MethodDep(d, x)
      BY <1>4, <2>2 DEF MethodDep
  <2>4. x \in ToSet(Candidates(d))
      BY <2>3, CandidatesAll
  <2>5. ASSUME NEW y \in ToSet(Candidates(d)), y.from = MemberOf(d, m) PROVE y.exp
    <3>1. ~FieldDep(d, y)
        BY <1>2, <2>5, DepFields DEF FieldDep
    <3>2. MethodDep(d, y)
        BY <1>4, <3>1, CandidatesAll DEF FuncDep, ValueDep
    <3>3. PICK k \in ToSet(d.methods) : \E from \in {IdOf(d), MemberOf(d, k)} : y \in ToSet(MethodDeps(from, k, d.exported /\ k.exported))
        BY <3>2 DEF MethodDep
    <3>4. PICK from \in {IdOf(d), MemberOf(d, k)} : y \in ToSet(MethodDeps(from, k, d.exported /\ k.exported))
        BY <3>3
    <3> DEFINE open == d.exported /\ k.exported
    <3>5. y \in ToSet(MethodDeps(from, k, open)) /\ (open <=> d.exported /\ k.exported)
        BY <3>4
    <3> HIDE DEF open
    <3>6. y.from = from /\ y.exp = open
        BY <3>5, MethodDepsFrom, TypedMethods
    <3>7. k = m
      <4>1. k.name = m.name
        <5>1. from = MemberOf(d, m)
            BY <2>5, <3>6
        <5>2. MemberOf(d, k) = MemberOf(d, m)
          <6>1. Len(IdOf(d)) = 2 /\ Len(MemberOf(d, m)) = 3
              BY Identifiers
          <6>2. from # IdOf(d)
              BY <5>1, <6>1
          <6> QED BY <5>1, <6>2
        <5>3. MemberOf(d, k)[3] = k.name /\ MemberOf(d, m)[3] = m.name
            BY Identifiers
        <5> QED BY <5>2, <5>3
      <4>2. d.methods \in Seq(MethodDef)
          BY TypedMethods
      <4>3. PICK i, j \in DOMAIN d.methods : k = d.methods[i] /\ m = d.methods[j]
          BY DEF ToSet
      <4> QED BY <1>1, <4>1, <4>3 DEF WellFormed
    <3> QED BY <3>5, <3>6, <3>7
  <2> HIDE DEF exp
  <2> QED BY <1>2, <2>2, <2>4, <2>5, AllPublicFirstPublic
<1>5. CASE d.kind \notin {"func", "interface", "struct", "typedef"}
    BY <1>1, <1>5 DEF WellFormed, Types, ToSet
<1> QED BY <1>3, <1>4, <1>5

LEMMA FieldsArePublic ==
  ASSUME NEW prog, Program(prog), NEW d \in prog, d.exported, NEW i \in DOMAIN d.fields, d.fields[i].exported,
         \A j \in 1 .. i - 1 : ToSet(d.fields[j].type.refs) \cap ToSet(d.fields[i].type.refs) = {},
         d.fields[i].type.shape \notin {"maps", "chan", "func"}, NEW r \in ToSet(d.fields[i].type.refs), r[1] \notin {d.pkg, Root}
  PROVE  PublicDep(prog, d, r)
<1> DEFINE exp(k) == d.exported /\ d.fields[k].exported
           F(k) == DepsOn(IdOf(d), <<d.fields[k].type>>, "uses", exp(k))
           fs == [k \in DOMAIN d.fields |-> F(k)]
           x == Dep(IdOf(d), r, "uses", exp(i))
           all == Candidates(d)
           first == FlattenSeq(fs)
<1>1. d.fields \in Seq(FieldDef) /\ Len(d.fields) \in Nat /\ DOMAIN d.fields = 1 .. Len(d.fields) /\ IdOf(d)[1] = d.pkg
    BY TypedMethods, Identifiers
<1>2. d.kind = "struct"
  <2>1. d.kind # "struct" => d.fields = <<>>
      BY DEF Program, WellFormed
  <2> QED BY <2>1
<1>3. \A k \in DOMAIN d.fields : d.fields[k].type \in TypeRef
  <2>1. \A k \in DOMAIN d.fields : d.fields[k] \in FieldDef
      BY <1>1
  <2> QED BY <2>1 DEF FieldDef
<1>4. ASSUME NEW k \in DOMAIN d.fields
      PROVE  IsSeq(F(k)) /\ \A y : y \in ToSet(F(k)) <=> \E q \in ToSet(SymbolRefs(d.pkg, d.fields[k].type)) : y = Dep(IdOf(d), q, "uses", exp(k))
  <2> HIDE DEF exp
  <2> QED BY <1>1, <1>3, DepsOnOne
<1>5. \E rest : IsSeq(rest) /\ all = first \o rest
  <2> DEFINE Of(m, from) == MethodDeps(from, m, d.exported /\ m.exported)
             M(m) == Of(m, IdOf(d)) \o Of(m, MemberOf(d, m))
             ms == [k \in DOMAIN d.methods |-> M(d.methods[k])]
  <2>1. all = first \o FlattenSeq(ms)
      BY <1>2 DEF Candidates
  <2>2. ASSUME NEW m \in ToSet(d.methods) PROVE IsSeq(M(m))
    <3>1. m.params \in Seq(TypeRef) /\ m.returns \in Seq(TypeRef)
        BY TypedMethods
    <3>2. IsSeq(Of(m, IdOf(d))) /\ IsSeq(Of(m, MemberOf(d, m)))
        BY <3>1, MethodDepsAll
    <3> HIDE DEF Of
    <3> QED BY <3>2, BothAll
  <2> HIDE DEF M
  <2>3. IsSeq(ms) /\ \A k \in DOMAIN ms : IsSeq(ms[k])
    <3>1. d.methods \in Seq(MethodDef) /\ Len(d.methods) \in Nat /\ DOMAIN d.methods = 1 .. Len(d.methods)
          /\ \A k \in DOMAIN d.methods : d.methods[k] \in ToSet(d.methods)
        BY TypedMethods DEF ToSet
    <3>2. IsSeq(ms)
        BY <3>1, Mapped
    <3> QED BY <2>2, <3>1, <3>2
  <2> HIDE DEF ms
  <2>4. IsSeq(FlattenSeq(ms))
      BY <2>3, FlatAll
  <2> QED BY <2>1, <2>4
<1>6. PICK rest : IsSeq(rest) /\ all = first \o rest
    BY <1>5
<1> HIDE DEF F
<1>7. IsSeq(fs) /\ DOMAIN fs = 1 .. Len(d.fields) /\ \A k \in DOMAIN fs : fs[k] = F(k) /\ IsSeq(fs[k])
  <2>1. IsSeq(fs)
      BY <1>1, Mapped
  <2> QED BY <1>1, <1>4, <2>1
<1> HIDE DEF fs, exp
<1>8. x \in ToSet(fs[i])
  <2>1. r \in ToSet(SymbolRefs(d.pkg, d.fields[i].type))
      BY <1>3, NamesInside
  <2> QED BY <1>1, <1>4, <1>7, <2>1
<1>9. Placed(first, x, fs, i)
  <2>1. PICK S : fs \in Seq(Seq(S))
      BY <1>7, SequencesOfSequences
  <2> HIDE DEF x
  <2> QED BY <1>1, <1>7, <1>8, <2>1, FlattenKeepsOrder
<1> HIDE DEF first, x
<1>10. PICK q \in 1 .. Len(first) : first[q] = x /\ \A p \in 1 .. q : \E j \in 1 .. i : first[p] \in ToSet(fs[j])
    BY <1>9 DEF Placed
<1>11. IsSeq(first) /\ IsSeq(all)
    BY <1>7, CandidatesAll, FlatAll DEF first
<1>12. Len(first) \in Nat /\ \A p \in 1 .. Len(first) : p \in 1 .. Len(all) /\ all[p] = first[p]
  <2> DEFINE S == ToSet(first) \cup ToSet(rest)
  <2>1. ToSet(first) \subseteq S /\ ToSet(rest) \subseteq S
      OBVIOUS
  <2> HIDE DEF S, all
  <2>2. first \in Seq(S) /\ rest \in Seq(S)
      BY <1>6, <1>11, <2>1, Sequences
  <2> QED BY <1>6, <2>2
<1>13. PICK p \in 1 .. q : all[p] \in FirstOfKey(all) /\ SameKey(all[p], all[q])
    BY <1>10, <1>11, <1>12, FirstsAll
<1> HIDE DEF all
<1>14. p \in 1 .. Len(first) /\ all[p] = first[p] /\ all[q] = x
    BY <1>10, <1>12
<1>15. PICK k \in 1 .. i : all[p] \in ToSet(fs[k])
    BY <1>10, <1>14
<1>16. k \in DOMAIN d.fields /\ fs[k] = F(k)
    BY <1>1, <1>7
<1>17. PICK u \in ToSet(SymbolRefs(d.pkg, d.fields[k].type)) : all[p] = Dep(IdOf(d), u, "uses", exp(k))
    BY <1>4, <1>15, <1>16
<1>18. u = r
    BY <1>13, <1>14, <1>17, DepFields DEF SameKey, x
<1>19. u \in ToSet(d.fields[k].type.refs)
  <2>1. u = <<d.pkg, Loose>> \/ \E z \in ToSet(d.fields[k].type.refs) : u = Localised(d.pkg, z)
      BY <1>3, <1>16, <1>17, RefsAll
  <2>2. u[1] # d.pkg
      BY <1>18
  <2>3. PICK z \in ToSet(d.fields[k].type.refs) : u = Localised(d.pkg, z)
      BY <2>1, <2>2
  <2> QED BY <2>2, <2>3 DEF Localised
<1>20. k = i
  <2>1. k \notin 1 .. i - 1
      BY <1>18, <1>19
  <2> QED BY <1>1, <2>1
<1>21. all[p].from[1] = d.pkg /\ all[p].to = r /\ all[p].exp
  <2>1. exp(i) = TRUE
      BY DEF exp
  <2>2. all[p] = Dep(IdOf(d), r, "uses", TRUE)
      BY <1>17, <1>18, <1>20, <2>1
  <2> QED BY <1>1, <2>2 DEF Dep
<1>22. all[p] \in Dependencies(prog)
    BY <1>13, DependenciesAll DEF DepsFor, all
<1> QED BY <1>21, <1>22 DEF PublicDep

LEMMA PublicDepsAreShown ==
  ASSUME NEW prog, Program(prog), NEW d \in prog, NEW t \in TypesIn(d), NEW r \in ToSet(t.refs), r[1] # d.pkg, PublicDep(prog, d, r)
  PROVE  \E x \in Edges(Model(prog), Model(prog)) : x.edge = <<d.pkg, r[1]>> /\ x.public
<1> DEFINE m == Model(prog)
           e == <<d.pkg, r[1]>>
<1>1. m.decls = prog /\ m.deps = Dependencies(prog)
    BY ModelParts
<1>2. d.pkg \in Packages(prog) /\ r[1] \in Packages(prog)
  <2>1. Declared(prog, r)
      BY DEF Program, Compiles
  <2>2. PICK c \in prog : IdOf(c) = r
      BY <2>1 DEF Declared, Decls
  <2>3. c.pkg = r[1]
      BY <2>2, Identifiers
  <2> QED BY <2>3 DEF Packages
<1>3. PICK y \in Dependencies(prog) : y.from[1] = d.pkg /\ y.to = r /\ y.exp
    BY DEF PublicDep
<1>4. PackagePair(y) = e
    BY <1>3 DEF PackagePair
<1>5. Crosses(m, e)
    BY <1>1, <1>2 DEF Crosses
<1> HIDE DEF m
<1>6. e \in PackageDeps(m)
    BY <1>1, <1>4, <1>5, PairsOfKeys
<1>7. e \in PublicDeps(m)
    BY <1>1, <1>2, <1>3 DEF PublicDeps
<1> HIDE DEF e
<1>8. \E x \in Edges(m, m) : x.edge = e /\ x.public
    BY <1>6, <1>7, EdgesAll
<1> QED BY <1>8 DEF m, e

(* What depends on what is drawn as it is: marked as it changed, and public where it is. *)
THEOREM DependenciesAreDrawnHolds == ReviewSpec => []DependenciesAreDrawn
<1>1. ReviewIInv => DependenciesAreMarked
  <2> SUFFICES ASSUME ReviewIInv PROVE DependenciesAreMarked
      OBVIOUS
  <2> DEFINE h == Model(head)
             b == Model(base)
             both == Packages(head) \cap Packages(base)
             within(e) == {e[1], e[2]} \subseteq both
             named(m) == {r \in Present(m) : NamesTypes(m, r) /\ within(PackagePair(r))}
             known(m) == Present(m) \cup {Key(d) : d \in m.deps}
             edgeMarks(e) == {x.marks : x \in {x \in Edges(h, b) : x.edge = e}}
             marks(r) == {x.marks : x \in {x \in Relations(h, b) : x.relation = r}}
  <2>1. Program(head) /\ Program(base)
      BY BothArePrograms
  <2>2. Shared(h, b) = both
      BY ModelParts DEF Shared
  <2>3. ASSUME NEW e \in PackageDeps(h) \cup PackageDeps(b), within(e)
        PROVE  /\ e \notin PackageDeps(b) => edgeMarks(e) = {{"added"}}
               /\ e \notin PackageDeps(h) => edgeMarks(e) = {{"removed"}}
    <3>1. {e[1], e[2]} \subseteq Shared(h, b)
        BY <2>2, <2>3
    <3> HIDE DEF h, b
    <3> QED BY <3>1, EdgesAreMarked
  <2>4. ASSUME NEW r \in named(h) \cup named(b)
        PROVE  /\ r \in Present(h) \ known(b) => marks(r) = {{"added"}}
               /\ r \in Present(b) \ known(h) => marks(r) = {{"removed"}}
    <3>1. {r.from[1], r.to[1]} \subseteq both
        BY DEF PackagePair
    <3>2. /\ r \in Present(h) /\ NamesTypes(h, r) /\ r \notin DepKeys(b) => marks(r) = {{"added"}}
          /\ r \in Present(b) /\ NamesTypes(b, r) /\ r \notin DepKeys(h) => marks(r) = {{"removed"}}
        BY <2>1, <3>1, RelationsAreMarked
    <3>3. r \notin known(b) => r \notin DepKeys(b) /\ r \notin Present(b)
        BY DEF DepKeys
    <3>4. r \notin known(h) => r \notin DepKeys(h) /\ r \notin Present(h)
        BY DEF DepKeys
    <3>5. \/ r \in Present(h) /\ NamesTypes(h, r)
          \/ r \in Present(b) /\ NamesTypes(b, r)
        OBVIOUS
    <3> HIDE DEF known, marks, named
    <3> QED BY <3>2, <3>3, <3>4, <3>5
  <2> HIDE DEF edgeMarks, marks
  <2>5. (\A e \in {e \in PackageDeps(h) \cup PackageDeps(b) : within(e)} :
           (e \notin PackageDeps(b) => edgeMarks(e) = {{"added"}}) /\ (e \notin PackageDeps(h) => edgeMarks(e) = {{"removed"}}))
    <3> HIDE DEF h, b, within
    <3> QED BY <2>3
  <2>6. \A r \in named(h) \cup named(b) :
           (r \in Present(h) \ known(b) => marks(r) = {{"added"}}) /\ (r \in Present(b) \ known(h) => marks(r) = {{"removed"}})
    <3> HIDE DEF h, b, named, known
    <3> QED BY <2>4
  <2> QED BY <2>5, <2>6 DEF DependenciesAreMarked, edgeMarks, marks
<1>2. ReviewIInv => PublicEdgesAreShown
  <2> SUFFICES ASSUME ReviewIInv, NEW d \in head, NEW t \in Opens(d), t.shape \notin {"maps", "chan", "func"}, NEW r \in ToSet(t.refs), r[1] \notin {d.pkg, Root}
               PROVE  \E x \in Edges(Model(head), Model(head)) : x.edge = <<d.pkg, r[1]>> /\ x.public
      BY DEF PublicEdgesAreShown
  <2>1. Program(head)
      BY BothArePrograms
  <2>2. d.exported
      BY DEF Opens
  <2>3. \/ \E m \in ToSet(d.methods) : m.exported /\ d.kind # "typedef" /\ t \in ToSet(m.params) \cup ToSet(m.returns)
        \/ \E i \in DOMAIN d.fields : /\ d.fields[i].exported /\ t = d.fields[i].type
                                      /\ \A j \in 1 .. i - 1 : ToSet(d.fields[j].type.refs) \cap ToSet(d.fields[i].type.refs) = {}
      BY <2>2 DEF Opens
  <2>4. t \in TypesIn(d)
    <3>1. CASE \E m \in ToSet(d.methods) : t \in ToSet(m.params) \cup ToSet(m.returns)
        BY <3>1 DEF TypesIn
    <3>2. CASE \E f \in ToSet(d.fields) : t = f.type
        BY <3>2 DEF TypesIn
    <3> QED BY <2>3, <3>1, <3>2 DEF ToSet
  <2>5. PublicDep(head, d, r)
    <3>1. CASE \E m \in ToSet(d.methods) : m.exported /\ d.kind # "typedef" /\ t \in ToSet(m.params) \cup ToSet(m.returns)
      <4>1. PICK m \in ToSet(d.methods) : m.exported /\ d.kind # "typedef" /\ t \in ToSet(m.params) \cup ToSet(m.returns)
          BY <3>1
      <4> QED BY <2>1, <2>2, <4>1, MethodsArePublic
    <3>2. CASE \E i \in DOMAIN d.fields : /\ d.fields[i].exported /\ t = d.fields[i].type
                                          /\ \A j \in 1 .. i - 1 : ToSet(d.fields[j].type.refs) \cap ToSet(d.fields[i].type.refs) = {}
      <4>1. PICK i \in DOMAIN d.fields : /\ d.fields[i].exported /\ t = d.fields[i].type
                                         /\ \A j \in 1 .. i - 1 : ToSet(d.fields[j].type.refs) \cap ToSet(d.fields[i].type.refs) = {}
          BY <3>2
      <4>2. d.fields[i].type.shape \notin {"maps", "chan", "func"} /\ r \in ToSet(d.fields[i].type.refs)
          BY <4>1
      <4> QED BY <2>1, <2>2, <4>1, <4>2, FieldsArePublic
    <3> QED BY <2>3, <3>1, <3>2
  <2> QED BY <2>1, <2>4, <2>5, PublicDepsAreShown
<1> QED BY <1>1, <1>2, ProgramsCompile, PTL DEF DependenciesAreDrawn

(***************************************************************************)
(* The cache of reports.                                                   *)
(***************************************************************************)
USE KeyAssumption, StateAssumption, BoundAssumption, NoneAssumption

-----------------------------------------------------------------------------
(* The cache operations. *)

\* What reportCache.start does to the types and agreements: it leaves every
\* build that somebody refers to as it is, and adds at most one entry, whose build
\* has not looked at the model.
LEMMA StartFrame ==
  ASSUME TypeOK, NEW k \in Keys, Reuse(k) \/ \E b \in Builds : Launch(k, b)
  PROVE  /\ entry' \in [Keys -> Builds \cup {None}]
         /\ newer' \in [Keys -> SUBSET Keys]
         /\ stage' \in [Builds -> Stage]
         /\ key' \in [Builds -> Keys]
         /\ UNCHANGED <<source, seen>>
         /\ \A x \in Keys : \/ entry'[x] \in {entry[x], None}
                            \/ x = k /\ entry'[x] \in Builds /\ stage'[entry'[x]] = "resolve"
                               /\ key'[entry'[x]] = k
         /\ \A b \in Builds : stage'[b] # "resolve" => stage'[b] = stage[b] /\ key'[b] = key[b]
         /\ \A b \in Builds : (\E x \in Keys : entry[x] = b) \/ (\E r \in Readers : wait[r] = b)
                                => stage'[b] = stage[b] /\ key'[b] = key[b]
         /\ entry'[k] # None
<1>1. CASE Reuse(k)
  BY <1>1 DEF Reuse, TypeOK, Used, buildVars
<1>2. CASE \E b \in Builds : Launch(k, b)
  <2>1. PICK b \in Builds : Launch(k, b)
    BY <1>2
  <2>2. /\ entry' = [x \in Keys |-> IF x = k THEN b ELSE IF x \in Evicted(k) THEN None ELSE entry[x]]
        /\ newer' = Used(k)
        /\ stage' = [stage EXCEPT ![b] = "resolve"]
        /\ key' = [key EXCEPT ![b] = k]
        /\ UNCHANGED <<source, seen>>
        /\ Unreferenced(b)
    BY <2>1 DEF Launch
  <2>3. newer' \in [Keys -> SUBSET Keys]
    BY <2>2 DEF TypeOK, Used
  <2>4. stage' \in [Builds -> Stage] /\ key' \in [Builds -> Keys]
    BY <2>2 DEF TypeOK, Stage, Building
  <2>5. \A x \in Keys : \/ entry'[x] \in {entry[x], None}
                        \/ x = k /\ entry'[x] \in Builds /\ stage'[entry'[x]] = "resolve"
                           /\ key'[entry'[x]] = k
    BY <2>2 DEF TypeOK
  <2>6. \A c \in Builds : (\E x \in Keys : entry[x] = c) \/ (\E r \in Readers : wait[r] = c)
                                => stage'[c] = stage[c] /\ key'[c] = key[c]
    BY <2>2 DEF TypeOK, Unreferenced
  <2>7. entry' \in [Keys -> Builds \cup {None}] /\ entry'[k] # None
    BY <2>2 DEF TypeOK
  <2>8. \A c \in Builds : stage'[c] # "resolve" => stage'[c] = stage[c] /\ key'[c] = key[c]
    BY <2>2 DEF TypeOK
  <2>. QED BY <2>2, <2>3, <2>4, <2>5, <2>6, <2>7, <2>8
<1>. QED BY <1>1, <1>2

\* A step that starts a build and touches neither readers nor marks.
LEMMA StartStep ==
  ASSUME IInv, NEW k \in Keys, Reuse(k) \/ \E b \in Builds : Launch(k, b),
         UNCHANGED <<version, told, floor, pc, asked, wait>>, TypeOK'
  PROVE  IInv'
<1>. USE DEF IInv
<1>1. /\ \A x \in Keys : entry[x] \in Builds \cup {None} /\ entry'[x] \in Builds \cup {None}
      /\ \A r \in Readers : wait[r] \in Builds \cup {None}
      /\ \A r \in Readers : pc[r] = "get" => asked[r] \in Keys
  BY DEF TypeOK
<1>2. /\ UNCHANGED <<source, seen>>
      /\ \A x \in Keys : \/ entry'[x] \in {entry[x], None}
                         \/ entry'[x] \in Builds /\ stage'[entry'[x]] = "resolve"
                            /\ key'[entry'[x]] = x
      /\ \A b \in Builds : stage'[b] # "resolve" => stage'[b] = stage[b] /\ key'[b] = key[b]
      /\ \A b \in Builds : (\E x \in Keys : entry[x] = b) \/ (\E r \in Readers : wait[r] = b)
                                => stage'[b] = stage[b] /\ key'[b] = key[b]
  BY StartFrame
<1>3. \A b \in Builds : Snapped(b)' => Snapped(b)
  BY <1>2 DEF Snapped
<1>4. EntriesAgree'
  <2>1. \A x \in Keys : entry'[x] # None => key'[entry'[x]] = x
    BY <1>1, <1>2 DEF EntriesAgree
  <2>2. \A b \in Builds : stage'[b] \notin {"resolve", "failed", "broken"} =>
          HomeOf[source'[b]] = WorktreeOf[key'[b]]
    BY <1>2 DEF EntriesAgree
  <2>. QED BY <2>1, <2>2 DEF EntriesAgree
<1>5. MarksArePast'
  BY DEF MarksArePast
<1>6. \A x \in Keys : entry'[x] # None /\ Snapped(entry[x])' => entry'[x] = entry[x] /\ Snapped(entry[x])
  BY <1>1, <1>2, <1>3 DEF Snapped
<1>7. NothingOutlivesItsEvent'
  BY <1>1, <1>2, <1>6 DEF NothingOutlivesItsEvent, Snapped
<1>8. OffersAreFresh'
  BY <1>1, <1>2, <1>6 DEF OffersAreFresh, Snapped
<1>9. AnswersAreFresh'
  BY <1>1, <1>2, <1>3 DEF AnswersAreFresh, Snapped
<1>10. FailuresAreForgotten'
  BY <1>1, <1>2 DEF FailuresAreForgotten
<1>. QED BY <1>4, <1>5, <1>7, <1>8, <1>9, <1>10

-----------------------------------------------------------------------------
(* Type correctness. *)

LEMMA TypeInit == Init => TypeOK
<1>. SUFFICES ASSUME Init PROVE TypeOK OBVIOUS
<1>1. (CHOOSE k \in Keys : TRUE) \in Keys /\ (CHOOSE s \in States : TRUE) \in States
  OBVIOUS
<1>. QED BY <1>1 DEF Init, TypeOK, Stage, Building, Oblivious
LEMMA TypeStep == TypeOK /\ [Next]_vars => TypeOK'
<1>. SUFFICES ASSUME TypeOK, [Next]_vars PROVE TypeOK'
  OBVIOUS
<1>. USE DEF modelVars, busVars, buildVars, cacheVars, readerVars
<1>1. ASSUME NEW b \in Builds, Run(b) PROVE TypeOK'
  <2>1. CASE ReportState(b)
    <3>1. CASE Goto(b, "broken")
      BY <2>1, <3>1 DEF ReportState, Goto, TypeOK, Stage, Building
    <3>2. ASSUME NEW s \in live, source' = [source EXCEPT ![b] = s],
                 stage' = [stage EXCEPT ![b] = "watch"], UNCHANGED <<key, seen>>
          PROVE  TypeOK'
      <4>1. s \in States
        BY DEF TypeOK
      <4>. QED BY <2>1, <3>2, <4>1 DEF ReportState, TypeOK, Stage, Building
    <3>. QED BY <2>1, <3>1, <3>2 DEF ReportState
  <2>2. CASE WatchModel(b)
    <3>1. source[b] \in States /\ HomeOf[source[b]] \in Worktrees
      BY DEF TypeOK
    <3>. QED BY <2>2, <3>1 DEF WatchModel, Goto, At, TypeOK, Stage, Building
  <2>3. CASE Subscribe(b)
    BY <2>3 DEF Subscribe, Goto, At, TypeOK, Stage, Building
  <2>4. CASE Snapshot(b)
    <3>1. version[source[b]] \in Nat
      BY DEF TypeOK
    <3>. QED BY <2>4, <3>1 DEF Snapshot, At, TypeOK, Stage, Building
  <2>5. CASE CompareToBase(b)
    BY <2>5 DEF CompareToBase, Goto, At, TypeOK, Stage, Building
  <2>6. CASE FinishBuild(b)
    <3>1. CASE Goto(b, "done") /\ UNCHANGED <<entry, newer>>
      BY <2>6, <3>1 DEF FinishBuild, Goto, TypeOK, Stage, Building
    <3>2. CASE Goto(b, "failed") /\ entry' = ForgetFailed(b) /\ UNCHANGED newer
      <4>1. entry' \in [Keys -> Builds \cup {None}]
        BY <3>2 DEF ForgetFailed, TypeOK
      <4>. QED BY <2>6, <3>2, <4>1 DEF FinishBuild, Goto, TypeOK, Stage, Building
    <3>. QED BY <2>6, <3>1, <3>2 DEF FinishBuild, Settle
  <2>. QED BY <1>1, <2>1, <2>2, <2>3, <2>4, <2>5, <2>6 DEF Run
<1>2. ASSUME NEW s \in States, Load(s) \/ WarmPing(s) \/ Drop(s) \/ Change(s) \/ Publish(s)
      PROVE TypeOK'
  <2>1. CASE Load(s) BY <2>1 DEF Load, TypeOK
  <2>2. CASE WarmPing(s) BY <2>2 DEF WarmPing, TypeOK
  <2>3. CASE Drop(s) BY <2>3 DEF Drop, TypeOK
  <2>4. CASE Change(s) BY <2>4 DEF Change, TypeOK
  <2>5. CASE Publish(s) BY <2>5 DEF Publish, TypeOK
  <2>. QED BY <1>2, <2>1, <2>2, <2>3, <2>4, <2>5
<1>3. ASSUME NEW s \in States, HandleDrop(s) \/ HookWatch(s) \/ HookSubscribe(s)
      PROVE TypeOK'
  <2>1. CASE HandleDrop(s) BY <2>1 DEF HandleDrop, DropEntries, TypeOK
  <2>2. CASE HookWatch(s) BY <2>2 DEF HookWatch, TypeOK
  <2>3. CASE HookSubscribe(s) BY <2>3 DEF HookSubscribe, TypeOK
  <2>. QED BY <1>3, <2>1, <2>2, <2>3
<1>4. ASSUME NEW s \in States, HookWarm(s) PROVE TypeOK'
  <2>1. DefaultKey[HomeOf[s]] \in Keys
    OBVIOUS
  <2>2. /\ entry' \in [Keys -> Builds \cup {None}]
        /\ newer' \in [Keys -> SUBSET Keys]
        /\ stage' \in [Builds -> Stage]
        /\ key' \in [Builds -> Keys]
        /\ UNCHANGED <<source, seen>>
    <3>1. Reuse(DefaultKey[HomeOf[s]]) \/ \E b \in Builds : Launch(DefaultKey[HomeOf[s]], b)
      BY <1>4 DEF HookWarm
    <3>. QED BY <2>1, <3>1, StartFrame
  <2>. QED BY <1>4, <2>2 DEF HookWarm, TypeOK
<1>5. ASSUME NEW w \in Worktrees, HandleWarm(w) PROVE TypeOK'
  <2>1. DefaultKey[w] \in Keys
    OBVIOUS
  <2>2. /\ entry' \in [Keys -> Builds \cup {None}]
        /\ newer' \in [Keys -> SUBSET Keys]
        /\ stage' \in [Builds -> Stage]
        /\ key' \in [Builds -> Keys]
        /\ UNCHANGED <<source, seen>>
    <3>1. Reuse(DefaultKey[w]) \/ \E b \in Builds : Launch(DefaultKey[w], b)
      BY <1>5 DEF HandleWarm
    <3>. QED BY <2>1, <3>1, StartFrame
  <2>. QED BY <1>5, <2>2 DEF HandleWarm, TypeOK
<1>6. ASSUME NEW r \in Readers, Get(r) PROVE TypeOK'
  <2>1. asked[r] \in Keys /\ wait[r] = None
    BY <1>6 DEF Get, TypeOK
  <2>2. /\ entry' \in [Keys -> Builds \cup {None}]
        /\ newer' \in [Keys -> SUBSET Keys]
        /\ stage' \in [Builds -> Stage]
        /\ key' \in [Builds -> Keys]
        /\ UNCHANGED <<source, seen>>
    <3>1. Reuse(asked[r]) \/ \E b \in Builds : Launch(asked[r], b)
      BY <1>6 DEF Get
    <3>. QED BY <2>1, <3>1, StartFrame
  <2>3. \E b \in Builds : Join(r, b)
    BY <1>6, <2>1 DEF Get, Reuse, TypeOK
  <2>. QED BY <1>6, <2>2, <2>3 DEF Get, Join, TypeOK
<1>7. ASSUME NEW r \in Readers, Answer(r) \/ GiveUp(r) PROVE TypeOK'
  <2>1. Leave(r)
    BY <1>7 DEF Answer, GiveUp
  <2>2. floor' \in [Readers -> [States -> Nat]]
    BY <2>1 DEF Leave, Oblivious, TypeOK
  <2>3. pc' \in [Readers -> {"idle", "get", "wait"}] /\ asked' \in [Readers -> Keys \cup {None}]
        /\ wait' \in [Readers -> Builds \cup {None}]
    BY <2>1 DEF Leave, TypeOK
  <2>4. /\ \A q \in Readers : pc'[q] = "wait" <=> wait'[q] # None
        /\ \A q \in Readers : pc'[q] = "get" => asked'[q] # None
    BY <2>1 DEF Leave, TypeOK
  <2>. QED BY <2>1, <2>2, <2>3, <2>4 DEF Leave, TypeOK
<1>8. ASSUME NEW r \in Readers, NEW k \in Keys, Ask(r, k) \/ AskAfresh(r, k) PROVE TypeOK'
  <2>1. told \in [States -> Nat] /\ version \in [States -> Nat]
    BY DEF TypeOK
  <2>a. /\ pc' = [pc EXCEPT ![r] = "get"] /\ asked' = [asked EXCEPT ![r] = k] /\ pc[r] = "idle"
        /\ wait' = wait
        /\ \E f \in {told, version} : floor' = [floor EXCEPT ![r] = f]
        /\ entry' \in {entry, WithoutKey(k)}
    BY <1>8 DEF Ask, AskAfresh
  <2>2. floor' \in [Readers -> [States -> Nat]] /\ entry' \in [Keys -> Builds \cup {None}]
    <3>1. PICK f \in {told, version} : floor' = [floor EXCEPT ![r] = f]
      BY <2>a
    <3>2. f \in [States -> Nat]
      BY <2>1
    <3>. QED BY <2>a, <3>1, <3>2, SMTT(30) DEF WithoutKey, TypeOK
  <2>3. pc' \in [Readers -> {"idle", "get", "wait"}] /\ asked' \in [Readers -> Keys \cup {None}]
    BY <2>a DEF TypeOK
  <2>4. /\ \A q \in Readers : pc'[q] = "wait" <=> wait'[q] # None
        /\ \A q \in Readers : pc'[q] = "get" => asked'[q] # None
    BY <2>a DEF TypeOK
  <2>. QED BY <1>8, <2>2, <2>3, <2>4 DEF Ask, AskAfresh, TypeOK
<1>9. CASE UNCHANGED vars
  BY <1>9 DEF vars, TypeOK
<1>. QED BY <1>1, <1>2, <1>3, <1>4, <1>5, <1>6, <1>7, <1>8, <1>9 DEF Next

\* Every state of the report cache is of its type.
THEOREM TypeCorrect == Spec => []TypeOK
<1>. QED BY TypeInit, TypeStep, PTL DEF Spec
-----------------------------------------------------------------------------
(* The inductive invariant. *)

\* A step that leaves cache, builds and readers alone: only models grow.
LEMMA QuietStep ==
  ASSUME IInv, UNCHANGED <<entry, stage, key, source, seen, told, pc, asked, wait, floor>>,
         TypeOK', \A s \in States : version[s] <= version'[s]
  PROVE  IInv'
<1>. USE DEF IInv
<1>1. MarksArePast'
  <2>1. \A s \in States : /\ version[s] \in Nat /\ version'[s] \in Nat /\ told[s] \in Nat
                            /\ \A r \in Readers : floor[r][s] \in Nat
    BY DEF TypeOK
  <2>. QED BY <2>1 DEF MarksArePast
<1>. QED BY <1>1 DEF EntriesAgree, NothingOutlivesItsEvent, OffersAreFresh, AnswersAreFresh,
               FailuresAreForgotten, Snapped

\* A build that goes on without a snapshot.
LEMMA BuildStep ==
  ASSUME IInv, NEW b \in Builds, TypeOK',
         UNCHANGED <<entry, key, told, version, pc, asked, wait, floor>>,
         \A c \in Builds \ {b} : stage'[c] = stage[c] /\ source'[c] = source[c] /\ seen'[c] = seen[c],
         stage'[b] # "failed",
         stage'[b] \notin {"resolve", "broken"} => HomeOf[source'[b]] = WorktreeOf[key[b]],
         Snapped(b)' => \/ Snapped(b) /\ seen'[b] = seen[b] /\ source'[b] = source[b]
                        \/ seen'[b] = version[source'[b]]
  PROVE  IInv'
<1>. USE DEF IInv
<1>1. /\ \A x \in Keys : entry[x] \in Builds \cup {None}
      /\ \A r \in Readers : wait[r] \in Builds \cup {None}
      /\ \A r \in Readers : pc[r] = "get" => asked[r] \in Keys
      /\ \A s \in States : version[s] \in Nat /\ told[s] \in Nat
      /\ \A r \in Readers, s \in States : floor[r][s] \in Nat
      /\ source'[b] \in States
  BY DEF TypeOK
<1>2. EntriesAgree'
  BY <1>1 DEF EntriesAgree
<1>3. MarksArePast'
  BY DEF MarksArePast
<1>4. \A c \in Builds : Snapped(c)' =>
        \/ Snapped(c) /\ seen'[c] = seen[c] /\ source'[c] = source[c]
        \/ c = b /\ seen'[c] = version[source'[c]]
  BY DEF Snapped
<1>5. NothingOutlivesItsEvent'
  BY <1>1, <1>4 DEF NothingOutlivesItsEvent, MarksArePast
<1>6. OffersAreFresh'
  BY <1>1, <1>4 DEF OffersAreFresh, MarksArePast
<1>7. AnswersAreFresh'
  BY <1>1, <1>4 DEF AnswersAreFresh, MarksArePast
<1>8. FailuresAreForgotten'
  BY <1>1 DEF FailuresAreForgotten
<1>. QED BY <1>2, <1>3, <1>5, <1>6, <1>7, <1>8

LEMMA RunPreserves == ASSUME IInv, NEW b \in Builds, Run(b), TypeOK' PROVE IInv'
<1>. USE DEF modelVars, busVars, buildVars, cacheVars, readerVars
<1>0. TypeOK /\ source[b] \in States /\ key[b] \in Keys
  BY DEF IInv, TypeOK
<1>1. CASE ReportState(b)
  <2>1. PICK to \in {"watch", "broken"} : stage' = [stage EXCEPT ![b] = to]
    BY <1>1 DEF ReportState, Goto
  <2>2. to = "watch" => HomeOf[source'[b]] = WorktreeOf[key[b]]
    BY <1>1, <1>0, <2>1 DEF ReportState, Goto, TypeOK
  <2>3. UNCHANGED <<entry, key, seen, told, version, pc, asked, wait, floor>>
    BY <1>1 DEF ReportState, Goto
  <2>4. \A c \in Builds \ {b} : stage'[c] = stage[c] /\ source'[c] = source[c]
    BY <1>1, <1>0, <2>1 DEF ReportState, Goto, TypeOK
  <2>5. stage'[b] = to
    BY <1>0, <2>1 DEF TypeOK
  <2>6. ~Snapped(b)'
    BY <2>5 DEF Snapped
  <2>. QED BY <2>2, <2>3, <2>4, <2>5, <2>6, BuildStep
<1>2. ASSUME WatchModel(b) \/ Subscribe(b) PROVE IInv'
  <2>1. PICK to \in {"snapshot", "subscribe"} : stage' = [stage EXCEPT ![b] = to]
    BY <1>2 DEF WatchModel, Subscribe, Goto
  <2>2. stage[b] \in {"watch", "subscribe"}
    BY <1>2 DEF WatchModel, Subscribe, At
  <2>3. UNCHANGED <<entry, key, source, seen, told, version, pc, asked, wait, floor>>
    BY <1>2 DEF WatchModel, Subscribe, Goto
  <2>4. stage'[b] = to /\ \A c \in Builds \ {b} : stage'[c] = stage[c]
    BY <1>0, <2>1 DEF TypeOK
  <2>5. ~Snapped(b)' /\ HomeOf[source[b]] = WorktreeOf[key[b]]
    BY <2>2, <2>4 DEF Snapped, IInv, EntriesAgree
  <2>. QED BY <2>3, <2>4, <2>5, BuildStep
<1>3. CASE Snapshot(b)
  <2>1. /\ stage'[b] = "base" /\ seen'[b] = version[source[b]]
        /\ \A c \in Builds \ {b} : stage'[c] = stage[c] /\ seen'[c] = seen[c]
    BY <1>3, <1>0 DEF Snapshot, TypeOK
  <2>2. UNCHANGED <<entry, key, source, told, version, pc, asked, wait, floor>>
    BY <1>3 DEF Snapshot
  <2>3. HomeOf[source[b]] = WorktreeOf[key[b]]
    BY <1>3 DEF Snapshot, At, IInv, EntriesAgree
  <2>. QED BY <2>1, <2>2, <2>3, BuildStep
<1>4. CASE CompareToBase(b)
  <2>1. PICK to \in {"built", "broken"} : stage' = [stage EXCEPT ![b] = to]
    BY <1>4 DEF CompareToBase, Goto
  <2>2. stage'[b] = to /\ \A c \in Builds \ {b} : stage'[c] = stage[c]
    BY <1>0, <2>1 DEF TypeOK
  <2>3. UNCHANGED <<entry, key, source, seen, told, version, pc, asked, wait, floor>>
    BY <1>4 DEF CompareToBase, Goto
  <2>4. Snapped(b) /\ HomeOf[source[b]] = WorktreeOf[key[b]]
    BY <1>4 DEF CompareToBase, At, Snapped, IInv, EntriesAgree
  <2>. QED BY <2>2, <2>3, <2>4, BuildStep
<1>5. CASE FinishBuild(b) /\ At(b, "built")
  <2>1. stage' = [stage EXCEPT ![b] = "done"]
        /\ UNCHANGED <<entry, key, source, seen, told, version, pc, asked, wait, floor>>
    BY <1>5 DEF FinishBuild, Settle, Goto, At
  <2>2. stage'[b] = "done" /\ \A c \in Builds \ {b} : stage'[c] = stage[c]
    BY <1>0, <2>1 DEF TypeOK
  <2>3. Snapped(b) /\ HomeOf[source[b]] = WorktreeOf[key[b]]
    BY <1>5 DEF At, Snapped, IInv, EntriesAgree
  <2>. QED BY <2>1, <2>2, <2>3, BuildStep
<1>6. CASE FinishBuild(b) /\ At(b, "broken")
  <2>. USE DEF IInv
  <2>1. /\ stage' = [stage EXCEPT ![b] = "failed"]
        /\ entry' = [entry EXCEPT ![key[b]] = IF @ = b THEN None ELSE @]
        /\ UNCHANGED <<key, source, seen, told, version, pc, asked, wait, floor>>
    BY <1>6 DEF FinishBuild, Settle, Goto, At, ForgetFailed
  <2>2. stage'[b] = "failed" /\ \A c \in Builds \ {b} : stage'[c] = stage[c]
    BY <1>0, <2>1 DEF TypeOK
  <2>3. \A k \in Keys : entry'[k] \in {entry[k], None} /\ entry'[k] # b
    BY <1>0, <2>1 DEF TypeOK, EntriesAgree
  <2>4. /\ \A k \in Keys : entry[k] \in Builds \cup {None}
        /\ \A r \in Readers : wait[r] \in Builds \cup {None}
        /\ \A r \in Readers : pc[r] = "get" => asked[r] \in Keys
    BY <1>0 DEF TypeOK
  <2>5. \A c \in Builds : Snapped(c)' => Snapped(c)
    BY <2>2 DEF Snapped
  <2>6. EntriesAgree' /\ MarksArePast'
    BY <2>1, <2>2, <2>3 DEF EntriesAgree, MarksArePast
  <2>7. NothingOutlivesItsEvent'
    BY <2>1, <2>3, <2>4, <2>5 DEF NothingOutlivesItsEvent
  <2>8. OffersAreFresh'
    <3>. SUFFICES ASSUME NEW r \in Readers, pc'[r] = "get", entry'[asked'[r]] # None,
                         stage'[entry'[asked'[r]]] \in {"base", "built", "done"}
                  PROVE  seen'[entry'[asked'[r]]] >= floor'[r][source'[entry'[asked'[r]]]]
      BY DEF OffersAreFresh, Snapped
    <3>1. asked'[r] = asked[r] /\ asked[r] \in Keys /\ pc[r] = "get"
      BY <2>1, <2>4
    <3>2. entry'[asked[r]] = entry[asked[r]] /\ entry[asked[r]] # None
      BY <2>3, <3>1
    <3>3. entry[asked[r]] \in Builds /\ Snapped(entry[asked[r]])
      BY <2>4, <2>5, <3>1, <3>2 DEF Snapped
    <3>4. seen[entry[asked[r]]] >= floor[r][source[entry[asked[r]]]]
      BY <3>1, <3>2, <3>3 DEF OffersAreFresh
    <3>. QED BY <2>1, <3>1, <3>2, <3>4
  <2>9. AnswersAreFresh'
    BY <2>1, <2>4, <2>5 DEF AnswersAreFresh
  <2>10. FailuresAreForgotten'
    BY <2>2, <2>3, <2>4 DEF FailuresAreForgotten
  <2>. QED BY <2>6, <2>7, <2>8, <2>9, <2>10
<1>. QED BY <1>1, <1>2, <1>3, <1>4, <1>5, <1>6 DEF Run, FinishBuild, Settle
LEMMA DropPreserves == ASSUME IInv, NEW s \in States, HandleDrop(s), TypeOK' PROVE IInv'
<1>. USE DEF IInv
<1>1. /\ \A k \in Keys : entry'[k] = IF WorktreeOf[k] = HomeOf[s] THEN None ELSE entry[k]
      /\ \A t \in States : told'[t] = IF t = s THEN version[s] ELSE told[t]
      /\ UNCHANGED <<version, stage, key, source, seen, pc, asked, wait, floor>>
  BY DEF HandleDrop, DropEntries, TypeOK, modelVars, buildVars, readerVars
<1>2. /\ \A k \in Keys : entry[k] \in Builds \cup {None}
      /\ \A b \in Builds : source[b] \in States
      /\ \A r \in Readers : pc[r] = "get" => asked[r] \in Keys
      /\ version[s] \in Nat
  BY DEF TypeOK
<1>3. EntriesAgree' /\ MarksArePast'
  BY <1>1, <1>2 DEF EntriesAgree, MarksArePast
<1>4. ASSUME NEW k \in Keys, entry'[k] # None, Snapped(entry[k])'
      PROVE  entry'[k] = entry[k] /\ Snapped(entry[k]) /\ source[entry[k]] # s
  <2>1. entry'[k] = entry[k] /\ Snapped(entry[k]) /\ WorktreeOf[k] # HomeOf[s]
    BY <1>1, <1>4 DEF Snapped
  <2>2. HomeOf[source[entry[k]]] = WorktreeOf[k]
    BY <1>2, <1>4, <2>1 DEF EntriesAgree, Snapped
  <2>. QED BY <2>1, <2>2
<1>5. NothingOutlivesItsEvent'
  BY <1>1, <1>2, <1>4 DEF NothingOutlivesItsEvent
<1>6. OffersAreFresh'
  BY <1>1, <1>2, <1>4 DEF OffersAreFresh, Snapped
<1>7. AnswersAreFresh' /\ FailuresAreForgotten'
  BY <1>1 DEF AnswersAreFresh, FailuresAreForgotten, Snapped
<1>. QED BY <1>3, <1>5, <1>6, <1>7

LEMMA GetPreserves == ASSUME IInv, NEW r \in Readers, Get(r), TypeOK' PROVE IInv'
<1>. USE DEF IInv
<1>1. asked[r] \in Keys /\ pc[r] = "get"
  BY DEF Get, TypeOK
<1>2. Reuse(asked[r]) \/ \E b \in Builds : Launch(asked[r], b)
  BY DEF Get
<1>3. /\ UNCHANGED <<source, seen, asked, floor, told, version>>
      /\ \A x \in Keys : \/ entry'[x] \in {entry[x], None}
                         \/ entry'[x] \in Builds /\ stage'[entry'[x]] = "resolve"
                            /\ key'[entry'[x]] = x
      /\ \A b \in Builds : stage'[b] # "resolve" => stage'[b] = stage[b] /\ key'[b] = key[b]
      /\ \A b \in Builds : (\E x \in Keys : entry[x] = b) \/ (\E q \in Readers : wait[q] = b)
                                => stage'[b] = stage[b] /\ key'[b] = key[b]
  <2>1. UNCHANGED <<asked, floor, told, version>>
    BY DEF Get, Join, modelVars, busVars
  <2>. QED BY <1>1, <1>2, <2>1, StartFrame
<1>4. PICK c \in Builds : Join(r, c) /\ (c = entry[asked[r]] \/ stage'[c] = "resolve")
  <2>1. CASE Reuse(asked[r]) /\ Join(r, entry[asked[r]])
    BY <1>1, <2>1 DEF Reuse, TypeOK
  <2>2. CASE \E b \in Builds : Launch(asked[r], b) /\ Join(r, b)
    BY <2>2 DEF Launch, TypeOK
  <2>. QED BY <2>1, <2>2 DEF Get
<1>5. /\ \A q \in Readers \ {r} : wait'[q] = wait[q] /\ pc'[q] = pc[q]
      /\ wait'[r] = c /\ pc'[r] = "wait"
  BY <1>4 DEF Join, TypeOK
<1>6. /\ \A x \in Keys : entry[x] \in Builds \cup {None} /\ entry'[x] \in Builds \cup {None}
      /\ \A q \in Readers : wait[q] \in Builds \cup {None}
      /\ \A q \in Readers : pc[q] = "get" => asked[q] \in Keys
  BY DEF TypeOK
<1>7. \A b \in Builds : Snapped(b)' => Snapped(b)
  BY <1>3 DEF Snapped
<1>8. EntriesAgree'
  <2>1. \A x \in Keys : entry'[x] # None => key'[entry'[x]] = x
    BY <1>3, <1>6 DEF EntriesAgree
  <2>2. \A b \in Builds : stage'[b] \notin {"resolve", "failed", "broken"} =>
          HomeOf[source'[b]] = WorktreeOf[key'[b]]
    BY <1>3 DEF EntriesAgree
  <2>. QED BY <2>1, <2>2 DEF EntriesAgree
<1>9. MarksArePast'
  BY <1>3 DEF MarksArePast
<1>10. \A x \in Keys : entry'[x] # None /\ Snapped(entry[x])' => entry'[x] = entry[x] /\ Snapped(entry[x])
  BY <1>3, <1>6, <1>7 DEF Snapped
<1>11. NothingOutlivesItsEvent'
  BY <1>3, <1>6, <1>10 DEF NothingOutlivesItsEvent, Snapped
<1>12. OffersAreFresh'
  BY <1>3, <1>5, <1>6, <1>10 DEF OffersAreFresh, Snapped
<1>13. AnswersAreFresh'
  <2>1. ASSUME Snapped(c)' PROVE c = entry[asked[r]] /\ Snapped(c) /\ seen[c] >= floor[r][source[c]]
    <3>1. c = entry[asked[r]] /\ Snapped(c)
      BY <1>4, <1>7, <2>1 DEF Snapped
    <3>. QED BY <1>1, <3>1, NoneAssumption DEF OffersAreFresh
  <2>2. \A q \in Readers : wait'[q] # None /\ Snapped(wait[q])' => seen'[wait'[q]] >= floor'[q][source'[wait'[q]]]
    BY <1>3, <1>5, <1>6, <1>7, <2>1 DEF AnswersAreFresh, Snapped
  <2>. QED BY <2>2 DEF AnswersAreFresh
<1>14. FailuresAreForgotten'
  BY <1>3, <1>6 DEF FailuresAreForgotten
<1>. QED BY <1>8, <1>9, <1>11, <1>12, <1>13, <1>14

LEMMA LeavePreserves == ASSUME IInv, NEW r \in Readers, Leave(r), TypeOK' PROVE IInv'
<1>. USE DEF IInv
<1>1. UNCHANGED <<entry, stage, key, source, seen, told, version>>
  BY DEF Leave, modelVars, busVars, cacheVars, buildVars
<1>2. /\ \A q \in Readers \ {r} : UNCHANGED <<pc[q], asked[q], wait[q], floor[q]>>
      /\ pc'[r] = "idle" /\ wait'[r] = None /\ floor'[r] = Oblivious
  BY DEF Leave, TypeOK
<1>3. MarksArePast'
  <2>1. \A s \in States : version[s] \in Nat
    BY DEF TypeOK
  <2>. QED BY <1>1, <1>2, <2>1 DEF MarksArePast, Oblivious
<1>4. OffersAreFresh'
  BY <1>1, <1>2 DEF OffersAreFresh, Snapped
<1>5. AnswersAreFresh'
  BY <1>1, <1>2 DEF AnswersAreFresh, Snapped
<1>. QED BY <1>1, <1>3, <1>4, <1>5 DEF EntriesAgree, NothingOutlivesItsEvent, FailuresAreForgotten, Snapped

LEMMA AskPreserves ==
  ASSUME IInv, NEW r \in Readers, NEW k \in Keys, Ask(r, k) \/ AskAfresh(r, k), TypeOK'
  PROVE  IInv'
<1>. USE DEF IInv
<1>1. UNCHANGED <<wait, stage, key, source, seen, told, version>> /\ pc[r] = "idle"
  BY DEF Ask, AskAfresh, modelVars, busVars, buildVars
<1>2. /\ \A q \in Readers \ {r} : UNCHANGED <<pc[q], asked[q], floor[q]>>
      /\ asked'[r] = k
  BY DEF Ask, AskAfresh, TypeOK
<1>3. \/ floor'[r] = told /\ entry' = entry
      \/ floor'[r] = version /\ \A x \in Keys : entry'[x] = IF x = k THEN None ELSE entry[x]
  BY DEF Ask, AskAfresh, WithoutKey, TypeOK, cacheVars
<1>4. /\ \A s \in States : version[s] \in Nat /\ told[s] \in Nat
      /\ \A x \in Keys : entry[x] \in Builds \cup {None} /\ entry'[x] \in {entry[x], None}
      /\ \A q \in Readers : pc[q] = "get" => asked[q] \in Keys
      /\ \A b \in Builds : source[b] \in States
      /\ wait[r] = None
  BY <1>1, <1>3 DEF TypeOK
<1>5. EntriesAgree' /\ FailuresAreForgotten'
  BY <1>1, <1>4 DEF EntriesAgree, FailuresAreForgotten
<1>6. MarksArePast'
  BY <1>1, <1>2, <1>3, <1>4 DEF MarksArePast
<1>7. NothingOutlivesItsEvent'
  BY <1>1, <1>4 DEF NothingOutlivesItsEvent, Snapped
<1>8. OffersAreFresh'
  BY <1>1, <1>2, <1>3, <1>4 DEF OffersAreFresh, NothingOutlivesItsEvent, Snapped
<1>9. AnswersAreFresh'
  BY <1>1, <1>2, <1>4 DEF AnswersAreFresh, Snapped
<1>. QED BY <1>5, <1>6, <1>7, <1>8, <1>9

LEMMA Initially == Init => IInv
<1>. SUFFICES ASSUME Init PROVE IInv
  OBVIOUS
<1>1. TypeOK
  BY TypeInit
<1>. QED BY <1>1 DEF Init, IInv, EntriesAgree, MarksArePast, NothingOutlivesItsEvent, OffersAreFresh,
       AnswersAreFresh, FailuresAreForgotten, Snapped, Oblivious

LEMMA Preservation == IInv /\ [Next]_vars => IInv'
<1>. SUFFICES ASSUME IInv, [Next]_vars PROVE IInv'
  OBVIOUS
<1>0. TypeOK /\ TypeOK'
  BY TypeStep DEF IInv
<1>. USE DEF modelVars, busVars, buildVars, cacheVars, readerVars
<1>v. \A s \in States : version[s] \in Nat
  BY <1>0 DEF TypeOK
<1>1. ASSUME NEW b \in Builds, Run(b) PROVE IInv'
  BY <1>0, <1>1, RunPreserves
<1>2. ASSUME NEW s \in States,
             Load(s) \/ WarmPing(s) \/ Drop(s) \/ Publish(s) \/ HookWatch(s) \/ HookSubscribe(s)
      PROVE  IInv'
  <2>1. UNCHANGED <<entry, stage, key, source, seen, told, pc, asked, wait, floor, version>>
    BY <1>2 DEF Load, WarmPing, Drop, Publish, HookWatch, HookSubscribe
  <2>. QED BY <1>0, <1>v, <2>1, QuietStep
<1>3. ASSUME NEW s \in States, Change(s) PROVE IInv'
  <2>1. UNCHANGED <<entry, stage, key, source, seen, told, pc, asked, wait, floor>>
    BY <1>3 DEF Change
  <2>2. \A t \in States : version[t] <= version'[t]
    BY <1>3, <1>0, <1>v DEF Change, TypeOK
  <2>. QED BY <1>0, <2>1, <2>2, QuietStep
<1>4. ASSUME NEW s \in States, HandleDrop(s) PROVE IInv'
  BY <1>0, <1>4, DropPreserves
<1>5. ASSUME NEW s \in States, HookWarm(s) PROVE IInv'
  <2>1. DefaultKey[HomeOf[s]] \in Keys
    OBVIOUS
  <2>2. UNCHANGED <<version, told, floor, pc, asked, wait>>
        /\ (Reuse(DefaultKey[HomeOf[s]]) \/ \E b \in Builds : Launch(DefaultKey[HomeOf[s]], b))
    BY <1>5 DEF HookWarm
  <2>. QED BY <1>0, <2>1, <2>2, StartStep
<1>6. ASSUME NEW w \in Worktrees, HandleWarm(w) PROVE IInv'
  <2>1. DefaultKey[w] \in Keys
    OBVIOUS
  <2>2. UNCHANGED <<version, told, floor, pc, asked, wait>>
        /\ (Reuse(DefaultKey[w]) \/ \E b \in Builds : Launch(DefaultKey[w], b))
    BY <1>6 DEF HandleWarm
  <2>. QED BY <1>0, <2>1, <2>2, StartStep
<1>7. ASSUME NEW r \in Readers, Get(r) PROVE IInv'
  BY <1>0, <1>7, GetPreserves
<1>8. ASSUME NEW r \in Readers, Answer(r) \/ GiveUp(r) PROVE IInv'
  BY <1>0, <1>8, LeavePreserves DEF Answer, GiveUp
<1>9. ASSUME NEW r \in Readers, NEW k \in Keys, Ask(r, k) \/ AskAfresh(r, k) PROVE IInv'
  BY <1>0, <1>9, AskPreserves
<1>10. CASE UNCHANGED vars
  <2>1. UNCHANGED <<entry, stage, key, source, seen, told, pc, asked, wait, floor, version>>
    BY <1>10 DEF vars
  <2>. QED BY <1>0, <1>v, <2>1, QuietStep
<1>. QED BY <1>1, <1>2, <1>3, <1>4, <1>5, <1>6, <1>7, <1>8, <1>9, <1>10 DEF Next

\* The invariant the freshness of reports rests on.
THEOREM Invariance == Spec => []IInv
<1>. QED BY Initially, Preservation, PTL DEF Spec

\* reportCache.drop: no report of a model older than an event the cache was told
\* of stays cached, whatever was being built when the event came.
THEOREM NothingOutlivesItsEventHolds == Spec => []NothingOutlivesItsEvent
<1>1. IInv => NothingOutlivesItsEvent
  BY DEF IInv
<1>. QED BY <1>1, Invariance, PTL

\* drop and dropKey: no reader is given a report older than what it may expect.
THEOREM AnswersAreFreshHolds == Spec => []AnswersAreFresh
<1>1. IInv => AnswersAreFresh
  BY DEF IInv
<1>. QED BY <1>1, Invariance, PTL

\* reportCache.run: an error is never replayed to a later request.
THEOREM FailuresAreForgottenHolds == Spec => []FailuresAreForgotten
<1>1. IInv => FailuresAreForgotten
  BY DEF IInv
<1>. QED BY <1>1, Invariance, PTL
LEMMA StartShares ==
  ASSUME TypeOK, NEW x \in Keys, Reuse(x) \/ \E b \in Builds : Launch(x, b),
         NEW k \in Keys, entry[k] # None, entry'[k] # entry[k]
  PROVE  x # k /\ entry[x] = None /\ entry'[x] # None /\ Cardinality(Cached \cup {x}) > MaxReports
<1>1. PICK b \in Builds : Launch(x, b)
  BY DEF Reuse
<1>2. entry[x] = None /\ k \in Evicted(x)
  BY <1>1 DEF Launch, TypeOK
<1>. QED BY <1>1, <1>2 DEF Evicted, Launch, TypeOK

LEMMA SharedPreserved == TypeOK /\ [Next]_vars => SharedStep
<1>. SUFFICES ASSUME TypeOK, [Next]_vars, NEW k \in Keys, entry[k] # None, entry'[k] # entry[k]
              PROVE \/ calls' # calls
                    \/ \E r \in Readers : pc[r] = "idle" /\ asked'[r] = k
                    \/ \E x \in Keys \ {k} : /\ entry[x] = None /\ entry'[x] # None
                                             /\ Cardinality(Cached \cup {x}) > MaxReports
                    \/ stage'[entry[k]] = "failed"
  BY DEF SharedStep
<1>. USE DEF modelVars, busVars, buildVars, cacheVars, readerVars
<1>1. ASSUME NEW b \in Builds, Run(b) PROVE stage'[entry[k]] = "failed"
  <2>1. FinishBuild(b)
    BY <1>1 DEF Run, ReportState, WatchModel, Subscribe, Snapshot, CompareToBase
  <2>2. entry' = ForgetFailed(b) /\ stage' = [stage EXCEPT ![b] = "failed"]
    BY <2>1 DEF FinishBuild, Settle, Goto
  <2>. QED BY <2>2 DEF ForgetFailed, TypeOK
<1>2. ASSUME NEW s \in States,
             Load(s) \/ WarmPing(s) \/ Drop(s) \/ Change(s) \/ Publish(s) \/ HookWatch(s) \/ HookSubscribe(s)
      PROVE  FALSE
  BY <1>2 DEF Load, WarmPing, Drop, Change, Publish, HookWatch, HookSubscribe
<1>3. ASSUME NEW s \in States, HandleDrop(s) PROVE calls' # calls
  BY <1>3 DEF HandleDrop, TypeOK
<1>4. ASSUME NEW x \in Keys, Reuse(x) \/ \E b \in Builds : Launch(x, b)
      PROVE  \E y \in Keys \ {k} : /\ entry[y] = None /\ entry'[y] # None
                                   /\ Cardinality(Cached \cup {y}) > MaxReports
  BY <1>4, StartShares
<1>5. ASSUME NEW s \in States, HookWarm(s)
      PROVE  \E x \in Keys : Reuse(x) \/ \E b \in Builds : Launch(x, b)
  <2>1. DefaultKey[HomeOf[s]] \in Keys
    OBVIOUS
  <2>. QED BY <1>5, <2>1 DEF HookWarm
<1>6. ASSUME NEW w \in Worktrees, HandleWarm(w)
      PROVE  \E x \in Keys : Reuse(x) \/ \E b \in Builds : Launch(x, b)
  <2>1. DefaultKey[w] \in Keys
    OBVIOUS
  <2>. QED BY <1>6, <2>1 DEF HandleWarm
<1>7. ASSUME NEW r \in Readers, Get(r)
      PROVE  \E x \in Keys : Reuse(x) \/ \E b \in Builds : Launch(x, b)
  <2>1. asked[r] \in Keys
    BY <1>7 DEF Get, TypeOK
  <2>. QED BY <1>7, <2>1 DEF Get
<1>8. ASSUME NEW r \in Readers, Answer(r) \/ GiveUp(r) PROVE FALSE
  BY <1>8 DEF Answer, GiveUp, Leave
<1>9. ASSUME NEW r \in Readers, NEW x \in Keys, Ask(r, x) \/ AskAfresh(r, x)
      PROVE  pc[r] = "idle" /\ asked'[r] = k
  BY <1>9 DEF Ask, AskAfresh, WithoutKey, TypeOK
<1>10. CASE UNCHANGED vars
  BY <1>10 DEF vars
<1>. QED BY <1>1, <1>2, <1>3, <1>4, <1>5, <1>6, <1>7, <1>8, <1>9, <1>10 DEF Next

\* reportCache: an entry callers share is taken away only by what invalidates it.
THEOREM EntriesAreSharedHolds == Spec => EntriesAreShared
<1>1. TypeOK /\ [Next]_vars => [SharedStep]_vars
  BY SharedPreserved
<1>. QED BY <1>1, TypeCorrect, PTL DEF Spec, EntriesAreShared
=============================================================================
