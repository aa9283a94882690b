------------------------------- MODULE ModelDiff -------------------------------
(***************************************************************************)
(* How two architecture models are compared (diff/compute.go) and how a     *)
(* diff is replayed on a target (apply/apply.go).                           *)
(*                                                                         *)
(* A package maps keys to entries.  A key is a kind with the name of a      *)
(* symbol, or a dependency's "from->to:kind"; an entry is the sequence of   *)
(* the definitions listed under the key, in the order of the model's slice, *)
(* almost always none or one.  A definition is a shape: what the            *)
(* normalisation of diff keeps, that is, all but file, span, doc and calls. *)
(* A change is <<op, package, key>>, with key None for the package itself.  *)
(***************************************************************************)
EXTENDS Naturals, Sequences

CONSTANTS Packages, Keys, Shapes, None

ASSUME NoneIsNoKey == None \notin Keys

Empty == [k \in Keys |-> <<>>]
Ops == {"add", "remove", "change"}
Changes == Ops \X Packages \X (Keys \cup {None})

\* Maps by name keep the last definition, searches by name find the first one.
LastOf(entry) == entry[Len(entry)]
First(entry) == entry[1]

\* The change of one symbol that current code must make to match the target.
Needs(op, cur, tgt) ==
  \/ op = "add"    /\ cur = <<>> /\ tgt # <<>>
  \/ op = "remove" /\ cur # <<>> /\ tgt = <<>>
  \/ op = "change" /\ cur # <<>> /\ tgt # <<>> /\ LastOf(cur) # LastOf(tgt)

Compute(cur, tgt) ==
  {c \in Changes :
     LET op == c[1]  p == c[2]  k == c[3]
     IN IF k = None
          THEN \/ op = "add"    /\ cur[p] = None /\ tgt[p] # None
               \/ op = "remove" /\ cur[p] # None /\ tgt[p] = None
          ELSE cur[p] # None /\ tgt[p] # None /\ Needs(op, cur[p][k], tgt[p][k])}

\* Apply reverses a change on the target.  An "add" is dropped from the target; the
\* others are copied from the current model into the target, whose package is made if
\* it has none.
Entry(m, p, k) == IF m[p] = None THEN <<>> ELSE m[p][k]

Applicable(d, cur, tgt) ==
  \A c \in d :
    LET op == c[1]  p == c[2]  k == c[3]
    IN /\ op = "add" => tgt[p] # None
       /\ op # "add" => cur[p] # None
       /\ k # None =>
            /\ op = "add" => tgt[p][k] # <<>>
            /\ op # "add" => cur[p][k] # <<>>
            /\ op = "change" => Entry(tgt, p, k) # <<>>

AppliedEntry(d, cur, tgt, p, k) ==
  LET old == Entry(tgt, p, k)
  IN IF <<"add", p, k>> \in d THEN Tail(old)
     ELSE IF <<"remove", p, k>> \in d THEN Append(old, First(cur[p][k]))
     ELSE IF <<"change", p, k>> \in d THEN [old EXCEPT ![1] = First(cur[p][k])]
     ELSE old

\* For diffs that hold a change of a package or changes of its symbols, as Compute's do.
Applied(d, cur, tgt) ==
  [p \in Packages |->
     IF <<"add", p, None>> \in d THEN None
     ELSE IF <<"remove", p, None>> \in d \/ <<"change", p, None>> \in d THEN cur[p]
     ELSE IF \A op \in Ops, k \in Keys \cup {None} : <<op, p, k>> \notin d THEN tgt[p]
     ELSE [k \in Keys |-> AppliedEntry(d, cur, tgt, p, k)]]
=============================================================================
