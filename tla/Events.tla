-------------------------------- MODULE Events --------------------------------
(***************************************************************************)
(* The event plugin (plugins/events) over the declarations of a repository: *)
(* files that people edit, in .arch directories and in the source           *)
(* directories of the overlay; a model that every request reads afresh; the *)
(* validation of a model, whose search for cycles is that of RefCycles. *)
(* The generator renders a model without errors.                            *)
(***************************************************************************)
EXTENDS EventModel, RefCycles

CONSTANTS
  Paths,        \* declaration files
  ArchPaths,    \* those found by convention; the others lie in a source directory
  IdAt,         \* the component a file declares
  SlotPool,     \* the slots people write down
  OpPool,       \* the operations of an AsyncAPI document
  Namespaces,   \* what a component may claim to own
  SchemaPool,   \* the schemas of types
  MaxItems      \* bound on the entries written down in all files

VARIABLES
  files,        \* the content of each file, None without it
  configured,   \* the overlay names the source directory
  checking      \* a validation runs its search

vars == <<files, configured, checking, refVars>>

ASSUME IdAtAssumption == IdAt \in [Paths -> Ids] /\ ArchPaths \subseteq Paths
ASSUME NodesAssumption == Nodes = Ids
ASSUME SlotsAssumption ==
  \A slot \in SlotPool : slot.kind \in Kinds /\ \A e \in slot.schema : e[2] \in Ids \X TypeNames
ASSUME SchemasAssumption == \A schema \in SchemaPool : \A e \in schema : e[2] \in Ids \X TypeNames

-----------------------------------------------------------------------------
(* Reading. *)

Native(p) == IdAt[p] \notin Imported
Found == {p \in Paths : files[p] # None /\ (p \in ArchPaths \/ configured)}

\* One document that does not parse, or one id declared twice, and nothing is read.
Readable ==
  /\ \A p \in {p \in Found : ~Native(p)} : DocumentParses(files[p])
  /\ \A p, q \in Found : IdAt[p] = IdAt[q] => p = q

Read(p) == IF Native(p) THEN files[p] ELSE FromAsyncAPI(<<>>, files[p])
Model ==
  [i \in Ids |-> IF \E p \in Found : IdAt[p] = i
                 THEN Read(CHOOSE p \in Found : IdAt[p] = i) ELSE None]

-----------------------------------------------------------------------------
(* Edits. *)

Items(p) ==
  CASE files[p] = None -> 0
    [] ~Native(p) -> Len(files[p])
    [] OTHER -> Len(files[p].inputs) + Len(files[p].outputs) + Len(files[p].stateEvents)
                  + (IF files[p].owns = <<>> THEN 0 ELSE 1)
                  + Cardinality({t \in TypeNames : files[p].types[t] # None})
Room == FoldSet(LAMBDA p, n : n + Items(p), 0, Paths) < MaxItems

Edit(p, content) ==
  /\ ~checking
  /\ files' = [files EXCEPT ![p] = content]
  /\ UNCHANGED <<configured, checking, refVars>>

Text(p) == IF files[p] = None THEN Blank ELSE files[p]
AddSlot(p, section, slot) ==
  Room /\ Native(p) /\ Edit(p, [Text(p) EXCEPT ![section] = Append(@, slot)])
Claim(p, ns) ==
  Room /\ Native(p) /\ Text(p).owns = <<>> /\ Edit(p, [Text(p) EXCEPT !.owns = ns])
Define(p, t, schema) ==
  Room /\ Native(p) /\ Text(p).types[t] = None /\ Edit(p, [Text(p) EXCEPT !.types[t] = schema])
AddOp(p, op) ==
  Room /\ ~Native(p) /\ Edit(p, Append(IF files[p] = None THEN <<>> ELSE files[p], op))
DeleteFile(p) == files[p] # None /\ Edit(p, None)

Configure ==
  /\ ~checking
  /\ configured' = ~configured
  /\ UNCHANGED <<files, checking, refVars>>

-----------------------------------------------------------------------------
(* Validation and generation. *)

Validate ==
  /\ ~checking /\ Readable /\ Declared(Model) # {}
  /\ checking' = TRUE
  /\ Begin(CrossRefs(Model))
  /\ UNCHANGED <<files, configured>>

SearchStep == checking /\ Search /\ UNCHANGED <<files, configured, checking>>

\* The findings are returned; nothing of the search is kept.
Report ==
  /\ checking /\ Over
  /\ checking' = FALSE
  /\ Begin([i \in Ids |-> {}])
  /\ UNCHANGED <<files, configured>>

Init ==
  /\ files = [p \in Paths |-> None]
  /\ configured = FALSE
  /\ checking = FALSE
  /\ deps = [i \in Ids |-> {}]
  /\ NodesAreNew

Next ==
  \/ \E p \in Paths :
       \/ \E section \in Sections, s \in SlotPool : AddSlot(p, section, s)
       \/ \E ns \in Namespaces : Claim(p, ns)
       \/ \E t \in TypeNames, schema \in SchemaPool : Define(p, t, schema)
       \/ \E op \in OpPool : AddOp(p, op)
       \/ DeleteFile(p)
  \/ Configure \/ Validate \/ SearchStep \/ Report

Spec == Init /\ [][Next]_vars

-----------------------------------------------------------------------------
NativeOnly == Readable /\ Declared(Model) \cap Imported = {}
KindsIn(slots) == {slots[n].kind : n \in DOMAIN slots}

\* Validate finds nothing in a repository of native declarations only if its canvas is
\* connected: an arrow that triggers ends at every input, and one leaves every output
\* that the component does not fold itself.
CleanModelsAreWired ==
  LET m == Model
      flows == Flows(m)
  IN (~checking /\ NativeOnly /\ Findings(m) = {}) =>
       \A i \in Declared(m) :
         /\ \A k \in KindsIn(m[i].inputs) :
              \E f \in flows : f.to = i /\ f.kind = k /\ f.trigger
         /\ \A k \in KindsIn(m[i].outputs) :
              k \in KindsIn(m[i].stateEvents) \/ \E f \in flows : f.from = i /\ f.kind = k

\* computeKindHealth and Validate are two computations of one verdict: a kind with a
\* finding is not healthy, and without imported documents the other way round, too.
HealthAgreesWithFindings ==
  LET m == Model
      closure == Starved(m) \cup Orphans(m) \cup ExclusiveFaults(m)
  IN (~checking /\ Readable) =>
       \A k \in Kinds :
         /\ (\E f \in closure : f[3] = k) => Health(m, k) # "ok"
         /\ (NativeOnly /\ \E section \in Sections : Listed(m, section, k) > 0) =>
              (Health(m, k) = "ok" \/ \E f \in closure : f[3] = k)

==============================================================================
