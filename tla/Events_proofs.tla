----------------------------- MODULE Events_proofs -----------------------------
(***************************************************************************)
(* Proofs about Events, for every set of components, files, slots, schemas  *)
(* and documents: the search for cycles reports something exactly when      *)
(* there is a cycle, what Validate accepts is wired, and the health of the  *)
(* graph is the verdict of Validate.                                        *)
(***************************************************************************)
EXTENDS Events, SequenceTheorems, FiniteSetTheorems, TLAPS

-----------------------------------------------------------------------------
(* The search.  Until a cycle is found the path is the call stack and a chain of       *)
(* references, the open components are those on it, and the ones that are done refer   *)
(* to done ones only and have no cycle among them.                                     *)

Done == {n \in Nodes : mark[n] = "done"}
NoCycleIn(D) == \A S \in SUBSET D : S # {} => \E n \in S : deps[n] \cap S = {}

\* The types of the search's state; the call stack is a part of the path.
RefTypeOK ==
  /\ deps \in [Nodes -> SUBSET Nodes]
  /\ mark \in [Nodes -> {"new", "open", "done"}]
  /\ path \in Seq(Nodes)
  /\ depth \in Nat /\ depth <= Len(path)
  /\ left \in [Nodes -> SUBSET Nodes]
  /\ \A n \in Nodes : left[n] \subseteq deps[n] /\ n \notin deps[n]

\* Until the first cycle is reported: the path is the call stack, ...
Chain ==
  /\ depth = Len(path)
  /\ \A x \in 1..Len(path) : mark[path[x]] = "open"
  /\ \A n \in Nodes : mark[n] = "open" => \E x \in 1..Len(path) : path[x] = n
  /\ \A x, y \in 1..Len(path) : path[x] = path[y] => x = y
  /\ \A x \in 1..(Len(path) - 1) : path[x + 1] \in deps[path[x]]

\* ... and nothing of what is done leads to a component that is not.
Finished ==
  /\ \A n \in Nodes : mark[n] = "open" => deps[n] \subseteq left[n] \cup Done
  /\ \A n \in Done : deps[n] \subseteq Done
  /\ NoCycleIn(Done)

Searched == found = {} => Chain /\ Finished
Reported == found # {} => ~Acyclic
SearchInv == RefTypeOK /\ Searched /\ Reported

-----------------------------------------------------------------------------
\* A path without its last name.
LEMMA FrontOfPath ==
  ASSUME NEW S, NEW s \in Seq(S), Len(s) > 0
  PROVE  /\ SubSeq(s, 1, Len(s) - 1) \in Seq(S)
         /\ Len(SubSeq(s, 1, Len(s) - 1)) = Len(s) - 1
         /\ \A x \in 1..(Len(s) - 1) : SubSeq(s, 1, Len(s) - 1)[x] = s[x]
         /\ s[Len(s)] \in S
<1>1. Len(s) \in Nat
  BY LenProperties
<1>2. \A x \in 1..Len(s) : s[x] \in S
  BY ElementOfSeq
<1>3. \A x \in 1..(Len(s) - 1) : s[x] \in S
  BY <1>1, <1>2
<1> DEFINE k == Len(s) - 1
<1>4. k \in Int /\ k >= 0 /\ \A x \in 1..k : s[x] \in S
  BY <1>1, <1>3
<1> HIDE DEF k
<1>5. /\ SubSeq(s, 1, k) \in Seq(S)
      /\ Len(SubSeq(s, 1, k)) = k
      /\ \A x \in 1..k : SubSeq(s, 1, k)[x] = s[x]
  <2>1. /\ SubSeq(s, 1, k) \in Seq(S)
        /\ Len(SubSeq(s, 1, k)) = IF 1 <= k THEN k - 1 + 1 ELSE 0
        /\ \A x \in 1..(k - 1 + 1) : SubSeq(s, 1, k)[x] = s[1 + x - 1]
    BY <1>4, SubSeqProperties
  <2> QED
    BY <1>4, <2>1
<1> QED
  BY <1>1, <1>2, <1>5 DEF k

\* A path and one more name.
LEMMA Longer ==
  ASSUME NEW S, NEW s \in Seq(S), NEW e \in S
  PROVE  /\ Append(s, e) \in Seq(S)
         /\ Len(Append(s, e)) = Len(s) + 1
         /\ \A x \in 1..Len(s) : Append(s, e)[x] = s[x]
         /\ Append(s, e)[Len(s) + 1] = e
  OBVIOUS

\* The start of a search.
LEMMA InitSearch == RefInit => SearchInv
<1> SUFFICES ASSUME RefInit PROVE SearchInv
  OBVIOUS
<1>1. RefTypeOK
  BY DEF RefInit, NodesAreNew, RefTypeOK
<1>2. Chain
  BY DEF RefInit, NodesAreNew, Chain
<1>3. Done = {}
  BY DEF RefInit, NodesAreNew, Done
<1>4. Finished
  BY <1>3 DEF RefInit, NodesAreNew, Finished, NoCycleIn
<1> QED
  BY <1>1, <1>2, <1>4 DEF RefInit, NodesAreNew, SearchInv, Searched, Reported

\* A component is entered from the outer loop or from the one on top of the path.
LEMMA EnterSearch ==
  ASSUME SearchInv, NEW n \in Nodes, Root(n) \/ Descend(n)
  PROVE  SearchInv'
<1> USE DEF SearchInv
<1>1. mark[n] = "new" /\ Enter(n)
  BY DEF Root, Descend
<1>2. /\ path' \in Seq(Nodes) /\ Len(path') = Len(path) + 1
      /\ \A x \in 1..Len(path) : path'[x] = path[x]
      /\ path'[Len(path) + 1] = n
  BY <1>1, Longer DEF Enter, RefTypeOK
<1>3. Len(path) \in Nat
  BY LenProperties DEF RefTypeOK
<1>4. RefTypeOK'
  BY <1>1, <1>2, <1>3 DEF Enter, RefTypeOK
<1>5. ASSUME found' = {} PROVE Chain' /\ Finished'
  <2>1. found = {} /\ Chain /\ Finished
    BY <1>1, <1>5 DEF Enter, Searched
  <2>2. Len(path) > 0 => Descend(n)
    BY <2>1 DEF Chain, Root, Idle
  <2>3. depth' = Len(path')
    BY <1>1, <1>2, <2>1 DEF Enter, Chain
  <2>4. \A x \in 1..Len(path) : path[x] \in Nodes /\ path[x] # n
    BY <1>1, <2>1, ElementOfSeq DEF Chain, RefTypeOK
  <2>5. \A x \in 1..Len(path') : mark'[path'[x]] = "open"
    BY <1>1, <1>2, <1>3, <2>1, <2>4 DEF Enter, Chain, RefTypeOK
  <2>6. \A m \in Nodes : mark'[m] = "open" => \E x \in 1..Len(path') : path'[x] = m
    <3> SUFFICES ASSUME NEW m \in Nodes, mark'[m] = "open"
                 PROVE  \E x \in 1..Len(path') : path'[x] = m
      OBVIOUS
    <3>1. CASE m = n
      BY <1>2, <1>3, <3>1
    <3>2. CASE m # n
      <4>1. mark[m] = "open"
        BY <1>1, <3>2 DEF Enter, RefTypeOK
      <4>2. PICK x \in 1..Len(path) : path[x] = m
        BY <2>1, <4>1 DEF Chain
      <4> QED
        BY <1>2, <1>3, <4>2
    <3> QED
      BY <3>1, <3>2
  <2>7. \A x, y \in 1..Len(path') : path'[x] = path'[y] => x = y
    BY <1>2, <1>3, <2>1, <2>4 DEF Chain
  <2>8. \A x \in 1..(Len(path') - 1) : path'[x + 1] \in deps'[path'[x]]
    <3> SUFFICES ASSUME NEW x \in 1..Len(path) PROVE path'[x + 1] \in deps[path[x]]
      BY <1>1, <1>2, <1>3 DEF Enter
    <3>1. CASE x < Len(path)
      BY <1>2, <1>3, <2>1, <3>1 DEF Chain
    <3>2. CASE x = Len(path)
      <4>1. n \in left[path[x]]
        BY <1>3, <2>2, <3>2 DEF Descend, Top
      <4> QED
        BY <1>2, <2>4, <3>2, <4>1 DEF RefTypeOK
    <3> QED
      BY <1>3, <3>1, <3>2
  <2>9. Done' = Done
    BY <1>1 DEF Enter, Done, RefTypeOK
  <2>10. Finished'
    <3>1. \A m \in Nodes : mark'[m] = "open" => deps'[m] \subseteq left'[m] \cup Done'
      BY <1>1, <2>1, <2>9 DEF Enter, Finished, RefTypeOK
    <3>2. deps' = deps
      BY <1>1 DEF Enter
    <3> QED
      BY <2>1, <2>9, <3>1, <3>2 DEF Finished, NoCycleIn
  <2> QED
    BY <2>3, <2>5, <2>6, <2>7, <2>8, <2>10 DEF Chain
<1>6. Reported'
  BY <1>1 DEF Enter, Reported, Acyclic
<1> QED
  BY <1>4, <1>5, <1>6 DEF Searched

\* The component on top of the path.
LEMMA TopIsOpen ==
  ASSUME RefTypeOK, ~Idle
  PROVE  Len(path) \in Nat /\ Len(path) > 0 /\ Top \in Nodes
<1>1. Len(path) \in Nat /\ Len(path) > 0
  BY LenProperties DEF RefTypeOK, Idle
<1> QED
  BY <1>1, ElementOfSeq DEF RefTypeOK, Top

\* A successor that is done is passed over.
LEMMA SkipSearch ==
  ASSUME SearchInv, NEW n \in Nodes, Skip(n)
  PROVE  SearchInv'
<1> USE DEF SearchInv
<1>1. Top \in Nodes
  BY TopIsOpen DEF Skip
<1>2. RefTypeOK'
  BY <1>1 DEF Skip, RefTypeOK
<1>3. ASSUME found' = {} PROVE Chain' /\ Finished'
  <2>1. Chain /\ Finished
    BY <1>3 DEF Skip, Searched
  <2>2. Chain'
    BY <2>1 DEF Skip, Chain
  <2>3. Done' = Done /\ n \in Done
    BY DEF Skip, Done
  <2>4. \A m \in Nodes : left[m] \subseteq left'[m] \cup Done
    BY <1>1, <2>3 DEF Skip, RefTypeOK
  <2>5. \A m \in Nodes : mark'[m] = "open" => deps'[m] \subseteq left'[m] \cup Done'
    BY <2>1, <2>3, <2>4 DEF Skip, Finished
  <2> QED
    BY <2>1, <2>2, <2>3, <2>5 DEF Skip, Finished, NoCycleIn
<1>4. Reported'
  BY DEF Skip, Reported, Acyclic
<1> QED
  BY <1>2, <1>3, <1>4 DEF Searched

\* A successor on the path: from there on the path is a circle.
LEMMA MeetSearch ==
  ASSUME SearchInv, NEW n \in Nodes, Meet(n)
  PROVE  SearchInv'
<1> USE DEF SearchInv
<1>1. RefTypeOK'
  BY TopIsOpen DEF Meet, RefTypeOK
<1>2. found' # {}
  BY DEF Meet
<1>3. ~Acyclic
  <2>1. CASE found # {}
    BY <2>1 DEF Reported
  <2>2. CASE found = {}
    <3>1. Chain
      BY <2>2 DEF Searched
    <3>2. Len(path) \in Nat /\ Len(path) > 0 /\ Top \in Nodes
      BY TopIsOpen DEF Meet
    <3>3. PICK start \in 1..Len(path) : path[start] = n
      BY <3>1 DEF Chain, Meet
    <3> DEFINE S == {path[x] : x \in start..Len(path)}
    <3>4. S \in SUBSET Nodes /\ S # {}
      BY <3>2, <3>3, ElementOfSeq DEF RefTypeOK
    <3>5. ASSUME NEW m \in S PROVE deps[m] \cap S # {}
      <4>1. PICK x \in start..Len(path) : path[x] = m
        BY <3>5
      <4>2. CASE x < Len(path)
        <5>1. path[x + 1] \in deps[m] /\ path[x + 1] \in S
          BY <3>1, <3>2, <3>3, <4>1, <4>2 DEF Chain
        <5> QED
          BY <5>1
      <4>3. CASE x = Len(path)
        <5>1. n \in deps[m] /\ n \in S
          BY <3>2, <3>3, <4>1, <4>3 DEF Meet, Top, RefTypeOK
        <5> QED
          BY <5>1
      <4> QED
        BY <3>2, <3>3, <4>2, <4>3
    <3> QED
      BY <3>4, <3>5 DEF Acyclic
  <2> QED
    BY <2>1, <2>2
<1> QED
  BY <1>1, <1>2, <1>3 DEF Searched, Reported, Acyclic, Meet

\* The component on top of the path is done.
LEMMA LeaveSearch ==
  ASSUME SearchInv, Leave
  PROVE  SearchInv'
<1> USE DEF SearchInv
<1>1. Len(path) \in Nat /\ Len(path) > 0 /\ Top \in Nodes
  BY TopIsOpen DEF Leave
<1>2. /\ path' \in Seq(Nodes) /\ Len(path') = Len(path) - 1
      /\ \A x \in 1..(Len(path) - 1) : path'[x] = path[x]
  BY <1>1, FrontOfPath DEF Leave, RefTypeOK
<1>3. RefTypeOK'
  BY <1>1, <1>2 DEF Leave, RefTypeOK, Idle
<1>4. ASSUME found' = {} PROVE Chain' /\ Finished'
  <2>1. Chain /\ Finished
    BY <1>4 DEF Leave, Searched
  <2>2. \A x \in 1..(Len(path) - 1) : path[x] \in Nodes /\ path[x] # Top
    BY <1>1, <2>1, ElementOfSeq DEF Chain, Top, RefTypeOK
  <2>3. \A x \in 1..Len(path') : mark'[path'[x]] = "open"
    BY <1>1, <1>2, <2>1, <2>2 DEF Leave, Chain, RefTypeOK
  <2>4. \A m \in Nodes : mark'[m] = "open" => \E x \in 1..Len(path') : path'[x] = m
    <3> SUFFICES ASSUME NEW m \in Nodes, mark'[m] = "open"
                 PROVE  \E x \in 1..Len(path') : path'[x] = m
      OBVIOUS
    <3>1. m # Top /\ mark[m] = "open"
      BY <1>1 DEF Leave, RefTypeOK
    <3>2. PICK x \in 1..Len(path) : path[x] = m
      BY <2>1, <3>1 DEF Chain
    <3>3. x # Len(path)
      BY <3>1, <3>2 DEF Top
    <3> QED
      BY <1>1, <1>2, <3>2, <3>3
  <2>5. \A x, y \in 1..Len(path') : path'[x] = path'[y] => x = y
    <3> SUFFICES ASSUME NEW x \in 1..Len(path'), NEW y \in 1..Len(path'), path'[x] = path'[y]
                 PROVE  x = y
      OBVIOUS
    <3>1. x \in 1..Len(path) /\ y \in 1..Len(path) /\ path[x] = path[y]
      BY <1>1, <1>2
    <3> QED
      BY <2>1, <3>1 DEF Chain
  <2>6. \A x \in 1..(Len(path') - 1) : path'[x + 1] \in deps'[path'[x]]
    BY <1>1, <1>2, <2>1 DEF Chain, Leave
  <2>7. Chain'
    BY <1>1, <1>2, <2>1, <2>3, <2>4, <2>5, <2>6 DEF Chain, Leave
  <2>8. Done' = Done \cup {Top} /\ Top \notin Done
    <3>1. mark[Top] = "open"
      BY <1>1, <2>1 DEF Chain, Top
    <3> QED
      BY <1>1, <3>1 DEF Leave, Done, RefTypeOK
  <2>9. deps[Top] \subseteq Done
    BY <1>1, <2>1 DEF Leave, Finished, Chain, Top
  <2>10. \A m \in Nodes : mark'[m] = "open" => deps'[m] \subseteq left'[m] \cup Done'
    BY <1>1, <2>1, <2>8 DEF Leave, Finished, RefTypeOK
  <2>11. \A m \in Done' : deps'[m] \subseteq Done'
    BY <2>1, <2>8, <2>9 DEF Leave, Finished
  <2>12. NoCycleIn(Done)'
    <3> SUFFICES ASSUME NEW S \in SUBSET (Done \cup {Top}), S # {}
                 PROVE  \E m \in S : deps[m] \cap S = {}
      BY <2>8 DEF NoCycleIn, Leave
    <3>1. CASE S \cap Done = {}
      <4>1. Top \notin deps[Top]
        BY <1>1 DEF RefTypeOK
      <4>2. S = {Top}
        BY <3>1
      <4> QED
        BY <4>1, <4>2
    <3>2. CASE S \cap Done # {}
      <4>1. PICK m \in S \cap Done : deps[m] \cap (S \cap Done) = {}
        BY <2>1, <3>2 DEF Finished, NoCycleIn
      <4>2. deps[m] \subseteq Done
        BY <2>1, <4>1 DEF Finished
      <4> QED
        BY <4>1, <4>2
    <3> QED
      BY <3>1, <3>2
  <2> QED
    BY <2>7, <2>10, <2>11, <2>12 DEF Finished
<1>5. Reported'
  BY DEF Leave, Reported, Acyclic
<1> QED
  BY <1>3, <1>4, <1>5 DEF Searched

LEMMA StutterSearch == SearchInv /\ UNCHANGED refVars => SearchInv'
BY DEF SearchInv, RefTypeOK, Searched, Reported, Chain, Finished, NoCycleIn, Done, Acyclic, refVars

LEMMA SearchStepInv == SearchInv /\ [Search]_refVars => SearchInv'
<1> SUFFICES ASSUME SearchInv, [Search]_refVars PROVE SearchInv'
  OBVIOUS
<1>1. CASE Leave
  BY <1>1, LeaveSearch
<1>2. CASE \E n \in Nodes : Root(n) \/ Descend(n) \/ Skip(n) \/ Meet(n)
  BY <1>2, EnterSearch, SkipSearch, MeetSearch
<1>3. CASE UNCHANGED refVars
  BY <1>3, StutterSearch
<1> QED
  BY <1>1, <1>2, <1>3 DEF Search

\* The invariant of the search.
THEOREM SearchInvariant == RefSpec => []SearchInv
BY SearchStepInv, InitSearch, PTL DEF RefSpec

LEMMA FoundCycles == SearchInv => CyclesAreFound
<1> SUFFICES ASSUME SearchInv, Over, found = {} PROVE Acyclic
  BY DEF SearchInv, Reported, CyclesAreFound
<1>1. Chain /\ Finished /\ RefTypeOK
  BY DEF SearchInv, Searched
<1>2. \A n \in Nodes : mark[n] # "open"
  BY <1>1 DEF Over, Idle, Chain
<1>3. Done = Nodes
  BY <1>1, <1>2 DEF Over, Done, RefTypeOK
<1> QED
  BY <1>1, <1>3 DEF Finished, NoCycleIn, Acyclic

\* validateRefCycles (eventmodel/validate.go) reports a cycle if and only if components
\* refer to each other in a circle, whatever order Go's maps are walked in.
THEOREM CyclesAreDetected == RefSpec => []CyclesAreFound
BY FoundCycles, SearchInvariant, PTL

-----------------------------------------------------------------------------
(* The types of the declarations. *)

Component ==
  [owns : {<<>>} \cup Namespaces, inputs : Seq(SlotPool), outputs : Seq(SlotPool),
   stateEvents : Seq(SlotPool), types : [TypeNames -> SchemaPool \cup {None}]]
ContentOf(p) == IF Native(p) THEN Component ELSE Seq(OpPool)

TypeOK ==
  /\ files \in [Paths -> Component \cup Seq(OpPool) \cup {None}]
  /\ \A p \in Paths : files[p] \in ContentOf(p) \cup {None}
  /\ configured \in BOOLEAN /\ checking \in BOOLEAN

IInv == TypeOK /\ SearchInv

LEMMA BlankComponent == Blank \in Component
<1>1. <<>> \in Seq(SlotPool)
  BY EmptySeq
<1> QED
  BY <1>1 DEF Blank, Component

LEMMA SectionSlots ==
  ASSUME NEW c \in Component, NEW section \in Sections
  PROVE  /\ c[section] \in Seq(SlotPool)
         /\ \A n \in DOMAIN c[section] : c[section][n] \in SlotPool
<1>1. c[section] \in Seq(SlotPool)
  BY DEF Sections, Component
<1> QED
  BY <1>1, ElementOfSeq, LenProperties

\* Edits keep a declaration one.
LEMMA EditedComponent ==
  ASSUME NEW c \in Component
  PROVE  /\ \A section \in Sections, slot \in SlotPool : [c EXCEPT ![section] = Append(@, slot)] \in Component
         /\ \A ns \in Namespaces : [c EXCEPT !.owns = ns] \in Component
         /\ \A t \in TypeNames, schema \in SchemaPool : [c EXCEPT !.types[t] = schema] \in Component
<1>1. ASSUME NEW section \in Sections, NEW slot \in SlotPool
      PROVE  [c EXCEPT ![section] = Append(@, slot)] \in Component
  <2>1. Append(c[section], slot) \in Seq(SlotPool)
    BY SectionSlots
  <2> QED
    BY <2>1 DEF Sections, Component
<1>2. ASSUME NEW ns \in Namespaces PROVE [c EXCEPT !.owns = ns] \in Component
  BY DEF Component
<1>3. ASSUME NEW t \in TypeNames, NEW schema \in SchemaPool
      PROVE  [c EXCEPT !.types[t] = schema] \in Component
  BY DEF Component
<1> QED
  BY <1>1, <1>2, <1>3

\* A component that is graded was read from a declaration of its own.
LEMMA GradedComponent ==
  ASSUME TypeOK, NEW i \in Graded(Model)
  PROVE  Model[i] \in Component
<1>1. i \in Ids /\ Model[i] # None /\ i \notin Imported
  BY DEF Graded, Declared
<1>2. \E p \in Found : IdAt[p] = i
  BY <1>1 DEF Model
<1>3. PICK p \in Found : p = CHOOSE q \in Found : IdAt[q] = i
  BY <1>2
<1>4. IdAt[p] = i /\ p \in Paths /\ files[p] # None
  BY <1>2, <1>3 DEF Found
<1>5. Native(p) /\ Model[i] = files[p]
  BY <1>1, <1>2, <1>3, <1>4 DEF Native, Model, Read
<1> QED
  BY <1>4, <1>5 DEF TypeOK, ContentOf

LEMMA SchemaSources ==
  ASSUME NEW c, NEW schema \in Schemas(c)
  PROVE  \/ \E section \in Sections : \E n \in DOMAIN c[section] : schema = c[section][n].schema
         \/ \E t \in TypeNames : c.types[t] # None /\ schema = c.types[t]
BY DEF Schemas

\* What a graded component refers to are components, and never itself.
LEMMA CrossRefsFit ==
  ASSUME TypeOK
  PROVE  /\ CrossRefs(Model) \in [Nodes -> SUBSET Nodes]
         /\ \A n \in Nodes : n \notin CrossRefs(Model)[n]
<1>1. ASSUME NEW i \in Graded(Model), NEW schema \in Schemas(Model[i]), NEW r \in Refs(schema)
      PROVE  r[1] \in Ids
  <2>1. Model[i] \in Component
    BY GradedComponent
  <2>2. \A e \in schema : e[2] \in Ids \X TypeNames
    <3>1. CASE \E section \in Sections : \E n \in DOMAIN Model[i][section] : schema = Model[i][section][n].schema
      BY <2>1, <3>1, SectionSlots, SlotsAssumption
    <3>2. CASE \E t \in TypeNames : Model[i].types[t] # None /\ schema = Model[i].types[t]
      BY <2>1, <3>2, SchemasAssumption DEF Component
    <3> QED
      BY <1>1, <3>1, <3>2, SchemaSources
  <2> QED
    BY <1>1, <2>2 DEF Refs
<1>2. ASSUME NEW i \in Ids
      PROVE  CrossRefs(Model)[i] \subseteq Ids /\ i \notin CrossRefs(Model)[i]
  <2>1. CASE i \notin Graded(Model)
    BY <2>1 DEF CrossRefs
  <2>2. CASE i \in Graded(Model)
    <3>1. CrossRefs(Model)[i] = {r[1] : r \in UNION {Refs(schema) : schema \in Schemas(Model[i])}} \ {i}
      BY <2>2 DEF CrossRefs
    <3> QED
      BY <1>1, <2>2, <3>1
  <2> QED
    BY <2>1, <2>2
<1>3. CrossRefs(Model) = [i \in Ids |-> CrossRefs(Model)[i]]
  BY DEF CrossRefs
<1> QED
  BY <1>2, <1>3, NodesAssumption

LEMMA BegunSearch ==
  ASSUME NEW d \in [Nodes -> SUBSET Nodes], \A n \in Nodes : n \notin d[n], Begin(d)
  PROVE  SearchInv'
<1>1. RefTypeOK'
  BY DEF Begin, RefTypeOK
<1>2. Chain'
  BY DEF Begin, Chain
<1>3. Done' = {}
  BY DEF Begin, Done
<1>4. Finished'
  BY <1>3 DEF Begin, Finished, NoCycleIn
<1> QED
  BY <1>1, <1>2, <1>4 DEF Begin, SearchInv, Searched, Reported

-----------------------------------------------------------------------------
LEMMA InitInvariant == Init => IInv
<1> SUFFICES ASSUME Init PROVE IInv
  OBVIOUS
<1>1. TypeOK
  BY DEF Init, TypeOK
<1>2. RefInit
  BY NodesAssumption DEF Init, RefInit
<1> QED
  BY <1>1, <1>2, InitSearch DEF IInv

LEMMA EditTypes ==
  ASSUME TypeOK, NEW p \in Paths, NEW content \in ContentOf(p) \cup {None}, Edit(p, content)
  PROVE  TypeOK'
BY DEF TypeOK, Edit, ContentOf, Native

LEMMA TypeStep == TypeOK /\ [Next]_vars => TypeOK'
<1> SUFFICES ASSUME TypeOK, [Next]_vars PROVE TypeOK'
  OBVIOUS
<1>1. ASSUME UNCHANGED files, configured' \in BOOLEAN, checking' \in BOOLEAN PROVE TypeOK'
  BY <1>1 DEF TypeOK, ContentOf, Native
<1>2. CASE UNCHANGED vars
  BY <1>1, <1>2 DEF vars, TypeOK
<1>3. ASSUME NEW p \in Paths, Native(p) PROVE Text(p) \in Component
  BY <1>3, BlankComponent DEF Text, TypeOK, ContentOf
<1>4. ASSUME NEW p \in Paths, NEW section \in Sections, NEW s \in SlotPool, AddSlot(p, section, s)
      PROVE  TypeOK'
  <2>1. Native(p) /\ [Text(p) EXCEPT ![section] = Append(@, s)] \in Component
    BY <1>3, <1>4, EditedComponent DEF AddSlot
  <2> QED
    BY <1>4, <2>1, EditTypes DEF AddSlot, ContentOf
<1>5. ASSUME NEW p \in Paths, NEW ns \in Namespaces, Claim(p, ns) PROVE TypeOK'
  <2>1. Native(p) /\ [Text(p) EXCEPT !.owns = ns] \in Component
    BY <1>3, <1>5, EditedComponent DEF Claim
  <2> QED
    BY <1>5, <2>1, EditTypes DEF Claim, ContentOf
<1>6. ASSUME NEW p \in Paths, NEW t \in TypeNames, NEW schema \in SchemaPool, Define(p, t, schema)
      PROVE  TypeOK'
  <2>1. Native(p) /\ [Text(p) EXCEPT !.types[t] = schema] \in Component
    BY <1>3, <1>6, EditedComponent DEF Define
  <2> QED
    BY <1>6, <2>1, EditTypes DEF Define, ContentOf
<1>7. ASSUME NEW p \in Paths, NEW op \in OpPool, AddOp(p, op) PROVE TypeOK'
  <2> DEFINE ops == IF files[p] = None THEN <<>> ELSE files[p]
  <2>1. ops \in Seq(OpPool)
    BY <1>7, EmptySeq DEF AddOp, TypeOK, ContentOf
  <2>2. Append(ops, op) \in ContentOf(p)
    BY <1>7, <2>1 DEF AddOp, ContentOf
  <2> QED
    BY <1>7, <2>2, EditTypes DEF AddOp
<1>8. ASSUME NEW p \in Paths, DeleteFile(p) PROVE TypeOK'
  BY <1>8, EditTypes DEF DeleteFile
<1>9. CASE Configure \/ Validate \/ SearchStep \/ Report
  BY <1>1, <1>9 DEF Configure, Validate, SearchStep, Report, TypeOK
<1> QED
  BY <1>2, <1>4, <1>5, <1>6, <1>7, <1>8, <1>9 DEF Next

LEMMA SearchKept == TypeOK /\ SearchInv /\ [Next]_vars => SearchInv'
<1> SUFFICES ASSUME TypeOK, SearchInv, [Next]_vars PROVE SearchInv'
  OBVIOUS
<1>1. ASSUME NEW p \in Paths,
             \/ \E section \in Sections, s \in SlotPool : AddSlot(p, section, s)
             \/ \E ns \in Namespaces : Claim(p, ns)
             \/ \E t \in TypeNames, schema \in SchemaPool : Define(p, t, schema)
             \/ \E op \in OpPool : AddOp(p, op)
             \/ DeleteFile(p)
      PROVE  SearchInv'
  BY <1>1, StutterSearch DEF AddSlot, Claim, Define, AddOp, DeleteFile, Edit
<1>2. CASE Configure
  BY <1>2, StutterSearch DEF Configure
<1>3. CASE Validate
  BY <1>3, CrossRefsFit, BegunSearch DEF Validate
<1>4. CASE SearchStep
  BY <1>4, SearchStepInv DEF SearchStep
<1>5. CASE Report
  <2> DEFINE none == [i \in Ids |-> {}]
  <2>1. none \in [Nodes -> SUBSET Nodes] /\ \A n \in Nodes : n \notin none[n]
    BY NodesAssumption
  <2>2. Begin(none)
    BY <1>5 DEF Report
  <2> QED
    BY <2>1, <2>2, BegunSearch
<1>6. CASE UNCHANGED vars
  BY <1>6, StutterSearch DEF vars, refVars
<1> QED
  BY <1>1, <1>2, <1>3, <1>4, <1>5, <1>6 DEF Next

THEOREM Invariance == Spec => []IInv
<1>1. IInv /\ [Next]_vars => IInv'
  BY TypeStep, SearchKept DEF IInv
<1> QED
  BY <1>1, InitInvariant, PTL DEF Spec

\* Whatever is declared, edited and validated: a search that is over has reported
\* something exactly when the components it was started on refer to each other in a
\* circle (validateCmd, validateRefCycles).
THEOREM CyclesOfModelsAreFound == Spec => []CyclesAreFound
<1>1. IInv => CyclesAreFound
  BY FoundCycles DEF IInv
<1> QED
  BY <1>1, Invariance, PTL

-----------------------------------------------------------------------------
(* What Validate finds and what the graph shows.  Without imported documents every     *)
(* component is graded.                                                                *)

LEMMA NativeModel ==
  ASSUME TypeOK, NativeOnly
  PROVE  /\ Graded(Model) = Declared(Model)
         /\ \A i \in Declared(Model) : Model[i] \in Component
<1>1. Graded(Model) = Declared(Model)
  BY DEF NativeOnly, Graded
<1> QED
  BY <1>1, GradedComponent

\* A kind is listed in a section where a component has a slot of it.
LEMMA ListedSlot ==
  ASSUME NEW m, NEW section, NEW k, Listed(m, section, k) # 0
  PROVE  \E i \in Declared(m) : \E n \in DOMAIN m[i][section] : m[i][section][n].kind = k
<1>1. SlotsOf(m, section, k) # {}
  BY FS_EmptySet DEF Listed
<1> QED
  BY <1>1 DEF SlotsOf

\* The slots that are read are the inputs and the state events.
LEMMA ReadSetSlot ==
  ASSUME NEW c \in Component, NEW section \in {"inputs", "stateEvents"}, NEW n \in DOMAIN c[section]
  PROVE  \E x \in DOMAIN ReadSet(c) : ReadSet(c)[x].kind = c[section][n].kind
<1> DEFINE ins == c.inputs
           evs == c.stateEvents
<1>1. ins \in Seq(SlotPool) /\ evs \in Seq(SlotPool) /\ ReadSet(c) = ins \o evs
  BY DEF Component, ReadSet
<1>2. c["inputs"] = ins /\ c["stateEvents"] = evs
  BY DEF Component
<1> HIDE DEF ins, evs
<1>3. /\ Len(ins) \in Nat /\ DOMAIN ins = 1..Len(ins)
      /\ Len(evs) \in Nat /\ DOMAIN evs = 1..Len(evs)
  BY <1>1, LenProperties
<1>4. /\ Len(ins \o evs) = Len(ins) + Len(evs) /\ ins \o evs \in Seq(SlotPool)
      /\ \A x \in 1..(Len(ins) + Len(evs)) : (ins \o evs)[x] = IF x <= Len(ins) THEN ins[x] ELSE evs[x - Len(ins)]
  BY <1>1, ConcatProperties
<1>5. DOMAIN (ins \o evs) = 1..(Len(ins) + Len(evs))
  BY <1>4, LenProperties
<1>6. CASE section = "inputs"
  <2>1. n \in 1..Len(ins) /\ c[section][n] = ins[n]
    BY <1>2, <1>3, <1>6
  <2>2. n \in 1..(Len(ins) + Len(evs)) /\ n <= Len(ins)
    BY <1>3, <2>1
  <2>3. (ins \o evs)[n] = ins[n]
    BY <1>4, <2>2
  <2> QED
    BY <1>1, <1>5, <2>1, <2>2, <2>3
<1>7. CASE section = "stateEvents"
  <2>1. n \in 1..Len(evs) /\ c[section][n] = evs[n]
    BY <1>2, <1>3, <1>7
  <2> DEFINE x == n + Len(ins)
  <2>2. x \in 1..(Len(ins) + Len(evs)) /\ ~(x <= Len(ins)) /\ x - Len(ins) = n
    BY <1>3, <2>1
  <2> HIDE DEF x
  <2>3. (ins \o evs)[x] = evs[n]
    BY <1>4, <2>2
  <2> QED
    BY <1>1, <1>5, <2>1, <2>2, <2>3
<1> QED
  BY <1>6, <1>7

\* A kind with a finding of the closure or of exclusive delivery is not healthy.
LEMMA FindingsShow ==
  ASSUME NEW m, NEW k, NEW f \in Starved(m) \cup Orphans(m) \cup ExclusiveFaults(m), f[3] = k
  PROVE  Health(m, k) # "ok"
<1>1. CASE f \in Starved(m)
  BY <1>1 DEF Starved, Health
<1>2. CASE f \in Orphans(m)
  BY <1>2 DEF Orphans, Health
<1>3. CASE f \in ExclusiveFaults(m)
  BY <1>3 DEF ExclusiveFaults, Health
<1> QED
  BY <1>1, <1>2, <1>3

\* A kind that some slot names and that is not healthy has such a finding.
LEMMA IllnessIsFound ==
  ASSUME TypeOK, NativeOnly, NEW k \in Kinds, Health(Model, k) # "ok",
         NEW section \in Sections, Listed(Model, section, k) > 0
  PROVE  \E f \in Starved(Model) \cup Orphans(Model) \cup ExclusiveFaults(Model) : f[3] = k
<1> DEFINE m == Model
<1>1. Graded(m) = Declared(m) /\ \A i \in Declared(m) : m[i] \in Component
  BY NativeModel
<1>2. CASE Listed(m, "outputs", k) = 0
  <2>1. PICK i \in Declared(m) : \E n \in DOMAIN m[i][section] : m[i][section][n].kind = k
    BY ListedSlot
  <2>2. section \in {"inputs", "stateEvents"}
    BY <1>2 DEF Sections
  <2>3. \E x \in DOMAIN ReadSet(m[i]) : ReadSet(m[i])[x].kind = k
    BY <1>1, <2>1, <2>2, ReadSetSlot
  <2>4. <<i, k>> \in Graded(m) \X Kinds
    BY <1>1, <2>1
  <2>5. <<"starved", i, k>> \in Starved(m)
    BY <1>2, <2>3, <2>4 DEF Starved
  <2> QED
    BY <2>5
<1>3. CASE Listed(m, "outputs", k) # 0
  <2>1. PICK i \in Declared(m) : \E n \in DOMAIN m[i].outputs : m[i].outputs[n].kind = k
    BY <1>3, ListedSlot
  <2>2. <<i, k>> \in Graded(m) \X Kinds
    BY <1>1, <2>1
  <2>3. CASE Exclusive(m, k) /\ Listed(m, "inputs", k) # 1
    <3>1. <<"exclusive", i, k>> \in ExclusiveFaults(m)
      BY <2>1, <2>2, <2>3 DEF ExclusiveFaults
    <3> QED
      BY <3>1
  <2>4. CASE ~(Exclusive(m, k) /\ Listed(m, "inputs", k) # 1)
    <3>1. Listed(m, "inputs", k) + Listed(m, "stateEvents", k) = 0
      BY <1>3, <2>4 DEF Health
    <3>2. <<"orphan-event", i, k>> \in Orphans(m)
      BY <2>1, <2>2, <3>1 DEF Orphans
    <3> QED
      BY <3>2
  <2> QED
    BY <2>3, <2>4
<1> QED
  BY <1>2, <1>3

\* The health that the canvas shows for a kind (computeKindHealth) is the verdict of
\* Validate's closure and exclusive delivery rules, in every state of the declarations.
THEOREM HealthAgreesWithFindingsHolds == Spec => []HealthAgreesWithFindings
<1>1. IInv => HealthAgreesWithFindings
  BY FindingsShow, IllnessIsFound DEF IInv, HealthAgreesWithFindings
<1> QED
  BY <1>1, Invariance, PTL

-----------------------------------------------------------------------------
(* A model without findings. *)

LEMMA DeclaredPattern ==
  ASSUME NEW m, NEW ids, NEW i \in ids, NEW section \in Sections,
         m[i][section] \in Seq(SlotPool), NEW n \in DOMAIN m[i][section],
         NEW k, m[i][section][n].kind = k, m[i][section][n].pattern # <<>>
  PROVE  m[i][section][n] \in Declarations(m, ids, k)
<1>1. m[i][section][n] \in Range(m[i][section])
  BY DEF Range
<1> QED
  BY <1>1 DEF Declarations, Patterned

\* Slots of one kind agree on its subject, and so an append of one component reaches
\* every other one that takes or folds the kind.
LEMMA CleanSlotsReach ==
  ASSUME TypeOK, NativeOnly, PatternConflicts(Model) = {}, NEW k \in Kinds,
         NEW i \in Declared(Model), NEW j \in Declared(Model), i # j,
         NEW section \in Sections,
         \E n \in DOMAIN Model[i].outputs : Model[i].outputs[n].kind = k,
         \E n \in DOMAIN Model[j][section] : Model[j][section][n].kind = k
  PROVE  Reaches(Model, i, j, k, section)
<1> DEFINE m == Model
<1>1. PICK x \in DOMAIN m[i].outputs : m[i].outputs[x].kind = k
  OBVIOUS
<1>2. PICK y \in DOMAIN m[j][section] : m[j][section][y].kind = k
  OBVIOUS
<1> DEFINE a == m[i].outputs[x]
           b == m[j][section][y]
<1>3. <<i, a.pattern>> \in Ends(m, "outputs", k)
  <2>1. <<i, x>> \in SlotsOf(m, "outputs", k)
    BY <1>1 DEF SlotsOf
  <2> QED
    BY <2>1 DEF Ends
<1>4. <<j, b.pattern>> \in Ends(m, section, k)
  <2>1. <<j, y>> \in SlotsOf(m, section, k)
    BY <1>2 DEF SlotsOf
  <2> QED
    BY <2>1 DEF Ends
<1>5. SubjectsMatch(a.pattern, b.pattern)
  <2>1. CASE a.pattern = <<>> \/ b.pattern = <<>>
    BY <2>1 DEF SubjectsMatch
  <2>2. CASE a.pattern # <<>> /\ b.pattern # <<>>
    <3>1. /\ m[i] \in Component /\ m[j] \in Component /\ Graded(m) = Declared(m)
          /\ "outputs" \in Sections
      BY NativeModel DEF Sections
    <3>2. a \in Declarations(m, Graded(m), k) /\ b \in Declarations(m, Graded(m), k)
      BY <1>1, <1>2, <2>2, <3>1, SectionSlots, DeclaredPattern
    <3>3. a.pattern = b.pattern
      BY <3>2 DEF PatternConflicts
    <3> QED
      BY <3>3 DEF SubjectsMatch
  <2> QED
    BY <2>1, <2>2
<1> QED
  BY <1>3, <1>4, <1>5 DEF Reaches

LEMMA CleanInputs ==
  ASSUME TypeOK, NativeOnly, Findings(Model) = {}, NEW k \in Kinds, NEW i \in Declared(Model),
         \E n \in DOMAIN Model[i].inputs : Model[i].inputs[n].kind = k
  PROVE  \E f \in Flows(Model) : f.to = i /\ f.kind = k /\ f.trigger
<1> DEFINE m == Model
<1>1. /\ Graded(m) = Declared(m) /\ m[i] \in Component
      /\ Starved(m) = {} /\ SelfInputs(m) = {} /\ PatternConflicts(m) = {}
  BY NativeModel DEF Findings
<1>2. <<i, k>> \in Graded(m) \X Kinds
  BY <1>1
<1>3. Listed(m, "outputs", k) # 0
  <2>1. \E x \in DOMAIN ReadSet(m[i]) : ReadSet(m[i])[x].kind = k
    BY <1>1, ReadSetSlot
  <2>2. <<"starved", i, k>> \notin Starved(m)
    BY <1>1
  <2> QED
    BY <1>2, <2>1, <2>2 DEF Starved
<1>4. PICK j \in Declared(m) : \E n \in DOMAIN m[j].outputs : m[j].outputs[n].kind = k
  BY <1>3, ListedSlot
<1>5. i # j
  <2>1. ASSUME i = j PROVE <<"self-input-conflict", i, k>> \in SelfInputs(m)
    BY <1>2, <1>4, <2>1 DEF SelfInputs
  <2> QED
    BY <1>1, <2>1
<1>6. Reaches(m, j, i, k, "inputs")
  BY <1>1, <1>4, <1>5, CleanSlotsReach DEF Sections
<1> DEFINE f == [from |-> j, to |-> i, kind |-> k, trigger |-> TRUE]
<1>7. f \in Flows(m)
  BY <1>6 DEF Flows
<1> QED
  BY <1>7

LEMMA CleanOutputs ==
  ASSUME TypeOK, NativeOnly, Findings(Model) = {}, NEW k \in Kinds, NEW i \in Declared(Model),
         \E n \in DOMAIN Model[i].outputs : Model[i].outputs[n].kind = k,
         ~ \E n \in DOMAIN Model[i].stateEvents : Model[i].stateEvents[n].kind = k
  PROVE  \E f \in Flows(Model) : f.from = i /\ f.kind = k
<1> DEFINE m == Model
<1>1. /\ Graded(m) = Declared(m) /\ m[i] \in Component
      /\ Orphans(m) = {} /\ SelfInputs(m) = {} /\ PatternConflicts(m) = {}
  BY NativeModel DEF Findings
<1>2. <<i, k>> \in Graded(m) \X Kinds
  BY <1>1
<1>3. Listed(m, "inputs", k) # 0 \/ Listed(m, "stateEvents", k) # 0
  <2>1. <<"orphan-event", i, k>> \notin Orphans(m)
    BY <1>1
  <2>2. Listed(m, "inputs", k) + Listed(m, "stateEvents", k) # 0
    BY <1>2, <2>1 DEF Orphans
  <2> QED
    BY <2>2
<1>4. PICK section \in {"inputs", "stateEvents"} : Listed(m, section, k) # 0
  BY <1>3
<1>5. PICK j \in Declared(m) : \E n \in DOMAIN m[j][section] : m[j][section][n].kind = k
  BY <1>4, ListedSlot
<1>6. i # j
  <2>1. CASE section = "inputs"
    <3>1. ASSUME i = j PROVE <<"self-input-conflict", i, k>> \in SelfInputs(m)
      BY <1>2, <1>5, <2>1, <3>1 DEF SelfInputs
    <3> QED
      BY <1>1, <3>1
  <2>2. CASE section = "stateEvents"
    BY <1>5, <2>2
  <2> QED
    BY <2>1, <2>2
<1>7. Reaches(m, i, j, k, section)
  BY <1>1, <1>5, <1>6, CleanSlotsReach DEF Sections
<1> DEFINE f == [from |-> i, to |-> j, kind |-> k, trigger |-> Reaches(m, i, j, k, "inputs")]
<1>8. Reaches(m, i, j, k, "inputs") \in BOOLEAN
  BY DEF Reaches
<1>9. f \in Flows(m)
  BY <1>4, <1>7, <1>8 DEF Flows
<1> QED
  BY <1>9

\* In a repository of native declarations that Validate has nothing to say of, an arrow
\* ends at every input and leaves every output that its component does not fold itself,
\* whatever people edit and in whatever order (eventmodel/validate.go, BuildFlows).
THEOREM CleanModelsAreWiredHolds == Spec => []CleanModelsAreWired
<1>1. TypeOK => CleanModelsAreWired
  <2> SUFFICES ASSUME TypeOK, NativeOnly, Findings(Model) = {}, NEW i \in Declared(Model)
               PROVE  /\ \A k \in KindsIn(Model[i].inputs) :
                           \E f \in Flows(Model) : f.to = i /\ f.kind = k /\ f.trigger
                      /\ \A k \in KindsIn(Model[i].outputs) :
                           \/ k \in KindsIn(Model[i].stateEvents)
                           \/ \E f \in Flows(Model) : f.from = i /\ f.kind = k
    BY DEF CleanModelsAreWired
  <2>1. Model[i] \in Component
    BY NativeModel
  <2>2. ASSUME NEW k \in KindsIn(Model[i].inputs)
        PROVE  \E f \in Flows(Model) : f.to = i /\ f.kind = k /\ f.trigger
    <3>1. \E n \in DOMAIN Model[i].inputs : Model[i].inputs[n].kind = k
      BY DEF KindsIn
    <3>2. k \in Kinds
      BY <2>1, <3>1, SectionSlots, SlotsAssumption DEF Sections
    <3> QED
      BY <3>1, <3>2, CleanInputs
  <2>3. ASSUME NEW k \in KindsIn(Model[i].outputs), k \notin KindsIn(Model[i].stateEvents)
        PROVE  \E f \in Flows(Model) : f.from = i /\ f.kind = k
    <3>1. /\ \E n \in DOMAIN Model[i].outputs : Model[i].outputs[n].kind = k
          /\ ~ \E n \in DOMAIN Model[i].stateEvents : Model[i].stateEvents[n].kind = k
      BY <2>3 DEF KindsIn
    <3>2. k \in Kinds
      BY <2>1, <3>1, SectionSlots, SlotsAssumption DEF Sections
    <3> QED
      BY <3>1, <3>2, CleanOutputs
  <2> QED
    BY <2>2, <2>3
<1>2. IInv => TypeOK
  BY DEF IInv
<1> QED
  BY <1>1, <1>2, Invariance, PTL
=============================================================================
