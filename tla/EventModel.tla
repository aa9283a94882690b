------------------------------ MODULE EventModel ------------------------------
(***************************************************************************)
(* The event model composed from the .arch/events.yaml and asyncapi.yaml    *)
(* declarations of a repository (internal/eventmodel): the read-set of a    *)
(* component, the rules of Validate, the projected graph with the health of *)
(* its kinds, and the flows a canvas draws.                                 *)
(*                                                                         *)
(* A model maps component ids to a component or None.  Kinds and owned      *)
(* namespaces are sequences of words, subject patterns sequences of         *)
(* segments, empty without one.  A schema is the set of its $refs, each     *)
(* with the path of keywords that leads to it.                              *)
(***************************************************************************)
EXTENDS Naturals, FiniteSets, Sequences, SequencesExt

CONSTANTS
  Ids,        \* component ids
  Imported,   \* the ids of components read from AsyncAPI documents
  Kinds,      \* event kinds
  Slots,      \* {slot} segments of a pattern
  Broken,     \* segments with malformed braces
  TypeNames,
  None

ASSUME ImportedAssumption == Imported \subseteq Ids

Sections == {"inputs", "outputs", "stateEvents"}
Blank == [owns |-> <<>>, inputs |-> <<>>, outputs |-> <<>>, stateEvents |-> <<>>,
          types |-> [t \in TypeNames |-> None]]

Declared(m) == {i \in Ids : m[i] # None}
Graded(m) == Declared(m) \ Imported

-----------------------------------------------------------------------------
(* Slots and subjects. *)

Patterned(slot) == slot.pattern # <<>>
ReadSet(c) == c.inputs \o c.stateEvents
Subjects(c) == [n \in DOMAIN SelectSeq(ReadSet(c), Patterned) |-> SelectSeq(ReadSet(c), Patterned)[n].pattern]

IsSlot(segment) == segment \in Slots
SlotTokens(pattern) == SelectSeq(pattern, IsSlot)
ValidSyntax(pattern) == \A n \in DOMAIN pattern : pattern[n] \notin Broken

\* The key of the first subject that has one.
PartitionKey(c) ==
  LET keyed == SelectSeq(Subjects(c), LAMBDA p : SlotTokens(p) # <<>>)
  IN IF keyed = <<>> THEN <<>> ELSE SlotTokens(keyed[1])

Open(segment) == segment \in Slots \cup Broken
SubjectsMatch(a, b) ==
  \/ a = <<>> \/ b = <<>>
  \/ /\ Len(a) = Len(b)
     /\ \A n \in DOMAIN a : Open(a[n]) \/ Open(b[n]) \/ a[n] = b[n]

\* Slots of a kind in one section: components are listed once per slot.
SlotsOf(m, section, k) ==
  UNION {{<<i, n>> : n \in {n \in DOMAIN m[i][section] : m[i][section][n].kind = k}} : i \in Declared(m)}
Listed(m, section, k) == Cardinality(SlotsOf(m, section, k))
Exclusive(m, k) ==
  \E section \in Sections : \E s \in SlotsOf(m, section, k) : m[s[1]][section][s[2]].exclusive

\* The slots of a kind that name a subject, in any section.
Declarations(m, ids, k) ==
  {s \in UNION {UNION {Range(m[i][section]) : section \in Sections} : i \in ids} : s.kind = k /\ Patterned(s)}

-----------------------------------------------------------------------------
(* AsyncAPI documents: a sequence of operations in the order of their keys.  *)
(* Every kind of an operation is a slot on its channel's address.           *)

\* An operation that states no role has the one its action stands for, if any.
RoleOf(op) ==
  IF op.role # None THEN op.role
  ELSE CASE op.action = "receive" -> "observe" [] op.action = "send" -> "event" [] OTHER -> None
SectionOf(role) ==
  CASE role = "command" -> "inputs" [] role = "observe" -> "stateEvents" [] OTHER -> "outputs"

\* One role that is not known fails the document.
DocumentParses(ops) == \A n \in DOMAIN ops : RoleOf(ops[n]) \in {"command", "observe", "event", "call"}

SlotsOfOp(op) ==
  [n \in DOMAIN op.kinds |->
     [kind |-> op.kinds[n], pattern |-> op.address, exclusive |-> FALSE, schema |-> {}]]
FromAsyncAPI(service, ops) ==
  LET In(section) ==
        FlattenSeq([n \in DOMAIN ops |->
          IF SectionOf(RoleOf(ops[n])) = section THEN SlotsOfOp(ops[n]) ELSE <<>>])
  IN [owns |-> service, inputs |-> In("inputs"), outputs |-> In("outputs"),
      stateEvents |-> In("stateEvents"), types |-> Blank.types]

-----------------------------------------------------------------------------
(* Namespaces. *)

Covers(owns, k) == owns # <<>> /\ IsPrefix(owns, k)

-----------------------------------------------------------------------------
(* $refs. *)

\* walkSchemaNode follows the values of "properties", the elements of "oneOf", and
\* the values, not the schema itself, of "items".
Walked(path) ==
  \A n \in DOMAIN path :
    path[n] = "items" =>
      LET run == CHOOSE r \in 0..n : /\ \A x \in (n - r + 1)..n : path[x] = "items"
                                     /\ r = n \/ path[n - r] # "items"
      IN run % 2 = 0 \/ (n < Len(path) /\ path[n + 1] = "items")
Refs(schema) == {e[2] : e \in {e \in schema : Walked(e[1])}}

Schemas(c) ==
  (UNION {{c[section][n].schema : n \in DOMAIN c[section]} : section \in Sections})
    \cup {c.types[t] : t \in {t \in TypeNames : c.types[t] # None}}
Resolves(m, ids, r) == r[1] \in ids /\ m[r[1]].types[r[2]] # None

\* Of a graded component, the other ones it refers to.
CrossRefs(m) ==
  [i \in Ids |-> IF i \notin Graded(m) THEN {}
                 ELSE {r[1] : r \in UNION {Refs(s) : s \in Schemas(m[i])}} \ {i}]

-----------------------------------------------------------------------------
(* The rules.  Findings are reported of graded components alone; who produces *)
(* and who observes a kind is known of all.                                 *)

\* A namespace that another component owns, too, or owns a part above of.
OwnershipOverlaps(m) ==
  {<<"duplicate-owner", m[i].owns>> : i \in
     {i \in Graded(m) : \E j \in Graded(m) : i # j /\ Covers(m[j].owns, m[i].owns)}}

SelfInputs(m) ==
  {<<"self-input-conflict", p[1], p[2]>> : p \in
     {p \in Graded(m) \X Kinds : \A section \in {"inputs", "outputs"} :
        \E n \in DOMAIN m[p[1]][section] : m[p[1]][section][n].kind = p[2]}}

\* (OwnPatternConflicts: only within one component.)
OwnPatternConflicts(m) ==
  {<<"pattern-conflict", k>> : k \in
     {k \in Kinds : \E i \in Graded(m) : \E a, b \in Declarations(m, {i}, k) : a.pattern # b.pattern}}
PatternConflicts(m) ==
  {<<"pattern-conflict", k>> : k \in
     {k \in Kinds : \E a, b \in Declarations(m, Graded(m), k) : a.pattern # b.pattern}}

ReadSetFaults(m) ==
  {<<"malformed-slot", i>> : i \in
     {i \in Graded(m) : \E p \in Range(Subjects(m[i])) : ~ValidSyntax(p)}}
  \cup
  {<<"partition-mismatch", i>> : i \in
     {i \in Graded(m) : \E p \in Range(Subjects(m[i])) :
        ValidSyntax(p) /\ SlotTokens(p) \notin {<<>>, PartitionKey(m[i])}}}

Starved(m) ==
  {<<"starved", p[1], p[2]>> : p \in
     {p \in Graded(m) \X Kinds :
        /\ \E n \in DOMAIN ReadSet(m[p[1]]) : ReadSet(m[p[1]])[n].kind = p[2]
        /\ Listed(m, "outputs", p[2]) = 0}}
Orphans(m) ==
  {<<"orphan-event", p[1], p[2]>> : p \in
     {p \in Graded(m) \X Kinds :
        /\ \E n \in DOMAIN m[p[1]].outputs : m[p[1]].outputs[n].kind = p[2]
        /\ Listed(m, "inputs", p[2]) + Listed(m, "stateEvents", p[2]) = 0}}

ExclusiveFaults(m) ==
  {<<"exclusive", p[1], p[2]>> : p \in
     {p \in Graded(m) \X Kinds :
        /\ \E n \in DOMAIN m[p[1]].outputs : m[p[1]].outputs[n].kind = p[2]
        /\ Exclusive(m, p[2])
        /\ Listed(m, "inputs", p[2]) # 1}}

UnresolvedRefs(m) ==
  {<<"unresolved-ref", p[1], p[2]>> : p \in
     {p \in Graded(m) \X (Ids \X TypeNames) :
        p[2] \in UNION {Refs(s) : s \in Schemas(m[p[1]])} /\ ~Resolves(m, Graded(m), p[2])}}

\* Validate, all but the search for cycles of $refs, which is in RefCycles.
Findings(m) ==
  OwnershipOverlaps(m) \cup SelfInputs(m) \cup PatternConflicts(m) \cup ReadSetFaults(m)
    \cup Starved(m) \cup Orphans(m) \cup ExclusiveFaults(m) \cup UnresolvedRefs(m)

-----------------------------------------------------------------------------
(* The graph and its flows. *)

\* (LenientHealth: an exclusive kind is ambiguous with more than one handler.)
LenientHealth(m, k) ==
  IF Listed(m, "outputs", k) = 0 THEN "starved"
  ELSE IF Exclusive(m, k) /\ Listed(m, "inputs", k) > 1 THEN "ambiguous"
  ELSE IF Listed(m, "inputs", k) + Listed(m, "stateEvents", k) = 0 THEN "orphan"
  ELSE "ok"
Health(m, k) ==
  IF Listed(m, "outputs", k) = 0 THEN "starved"
  ELSE IF Exclusive(m, k) /\ Listed(m, "inputs", k) # 1 THEN "ambiguous"
  ELSE IF Listed(m, "inputs", k) + Listed(m, "stateEvents", k) = 0 THEN "orphan"
  ELSE "ok"

\* The ends of the port edges of a kind: a component and the subject it named.
Ends(m, section, k) == {<<s[1], m[s[1]][section][s[2]].pattern>> : s \in SlotsOf(m, section, k)}

\* An append reaches an observer whose subject addresses the same events.
Reaches(m, i, j, k, section) ==
  /\ i # j
  /\ \E a \in Ends(m, "outputs", k), b \in Ends(m, section, k) :
       a[1] = i /\ b[1] = j /\ SubjectsMatch(a[2], b[2])

\* One flow for a pair and a kind: a trigger, or else a fold.
Flows(m) ==
  {f \in [from : Declared(m), to : Declared(m), kind : Kinds, trigger : BOOLEAN] :
     IF f.trigger THEN Reaches(m, f.from, f.to, f.kind, "inputs")
     ELSE /\ Reaches(m, f.from, f.to, f.kind, "stateEvents")
          /\ ~Reaches(m, f.from, f.to, f.kind, "inputs")}
==============================================================================
