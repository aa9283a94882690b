------------------------------ MODULE Checks_proofs ------------------------------
(***************************************************************************)
(* Proofs about what a build checks: the drift of code from its targets    *)
(* (Targets, and the diffs of ModelDiff), for every set of packages, keys, *)
(* shapes, targets, tools and commands, and the gates over the overlay and *)
(* the imports (Gates), for every set of packages and every document that  *)
(* people may write.                                                       *)
(***************************************************************************)
EXTENDS Targets, Gates, FiniteSetTheorems, SequenceTheorems, WellFoundedInduction, TLAPS

(***************************************************************************)
(* Targets.                                                                *)
(***************************************************************************)
Content == [Keys -> Seq(Shapes)]
Files == [Packages -> Content \cup {None}]

(* A key listed more than once lists the same definition. *)
Uniform(m) ==
  \A p \in Packages, k \in Keys : m[p] # None /\ m[p][k] # <<>> => First(m[p][k]) = LastOf(m[p][k])
Single(m) == \A p \in Packages, k \in Keys : m[p] # None => Len(m[p][k]) <= 1

(* The model as it is read back from YAML. *)
Reread(m) == [p \in Packages |-> IF m[p] = None THEN None ELSE Saved(m[p])]
PlainModel(m) == \A p \in Packages : m[p] # None => Saved(m[p]) = m[p]

(* The models have the same packages and keys, and agree on the last definition. *)
EntriesMatch(x, y) == (x = <<>> <=> y = <<>>) /\ (x # <<>> => LastOf(x) = LastOf(y))
Matches(cur, tgt) ==
  \A p \in Packages :
    /\ cur[p] = None <=> tgt[p] = None
    /\ cur[p] # None => \A k \in Keys : EntriesMatch(cur[p][k], tgt[p][k])

-----------------------------------------------------------------------------
(* Conversions keep the types, and the first and the last definition of a key. *)

LEMMA SavedEntry ==
  ASSUME NEW e \in Seq(Shapes)
  PROVE  LET saved == [n \in DOMAIN e |-> Stored[e[n]]]
         IN  /\ saved \in Seq(Shapes) /\ Len(saved) = Len(e)
             /\ saved = <<>> <=> e = <<>>
             /\ e # <<>> => First(saved) = Stored[First(e)] /\ LastOf(saved) = Stored[LastOf(e)]
<1> DEFINE saved == [n \in DOMAIN e |-> Stored[e[n]]]
<1>1. saved \in [1..Len(e) -> Shapes]
    BY StoredAssumption
<1>2. saved \in Seq(Shapes) /\ Len(saved) = Len(e) /\ DOMAIN saved = 1..Len(e)
    BY <1>1
<1> QED
    BY <1>2 DEF First, LastOf

LEMMA SavedContent ==
  ASSUME NEW content \in Content
  PROVE  /\ Saved(content) \in Content /\ Saved(content) # None
         /\ Public(content) \in Content /\ Public(content) # None
         /\ \A k \in Keys :
              /\ Len(Saved(content)[k]) = Len(content[k])
              /\ Saved(content)[k] = <<>> <=> content[k] = <<>>
              /\ content[k] # <<>> =>
                   /\ First(Saved(content)[k]) = Stored[First(content[k])]
                   /\ LastOf(Saved(content)[k]) = Stored[LastOf(content[k])]
<1>1. \A k \in Keys : content[k] \in Seq(Shapes)
    BY DEF Content
<1>2. /\ Saved(content) = [k \in Keys |-> [n \in DOMAIN content[k] |-> Stored[content[k][n]]]]
      /\ Saved(content) \in Content
    BY <1>1, SavedEntry DEF Saved, Content
<1>3. Public(content) \in Content
    BY <1>1 DEF Public, Content
<1> QED
    BY <1>1, <1>2, <1>3, SavedEntry, PackagesAssumption DEF Content

LEMMA LoadedFiles ==
  ASSUME NEW pubs \in Files, NEW ints \in Files
  PROVE  Loaded(pubs, ints) \in Files
BY DEF Loaded, Files

LEMMA RereadFiles == ASSUME NEW m \in Files PROVE Reread(m) \in Files
BY SavedContent DEF Reread, Files

-----------------------------------------------------------------------------
(* Diffs. *)

(* What a diff says of a package and of a key of it. *)
LEMMA ComputeMember ==
  ASSUME NEW cur, NEW tgt, NEW p \in Packages
  PROVE  /\ <<"add", p, None>> \in Compute(cur, tgt) <=> cur[p] = None /\ tgt[p] # None
         /\ <<"remove", p, None>> \in Compute(cur, tgt) <=> cur[p] # None /\ tgt[p] = None
         /\ <<"change", p, None>> \notin Compute(cur, tgt)
         /\ \A op \in Ops, k \in Keys :
              <<op, p, k>> \in Compute(cur, tgt)
                <=> cur[p] # None /\ tgt[p] # None /\ Needs(op, cur[p][k], tgt[p][k])
BY NoneIsNoKey DEF Compute, Changes, Ops

LEMMA MatchingModels ==
  ASSUME NEW cur, NEW tgt, Matches(cur, tgt)
  PROVE  Compute(cur, tgt) = {}
BY DEF Matches, EntriesMatch, Compute, Changes, Ops, Needs

LEMMA EmptyDiff ==
  ASSUME NEW cur \in Files, NEW tgt \in Files, Compute(cur, tgt) = {}
  PROVE  Matches(cur, tgt)
<1> SUFFICES ASSUME NEW p \in Packages
             PROVE  /\ cur[p] = None <=> tgt[p] = None
                    /\ cur[p] # None => \A k \in Keys : EntriesMatch(cur[p][k], tgt[p][k])
    BY DEF Matches
<1>1. cur[p] = None <=> tgt[p] = None
    BY ComputeMember
<1>2. ASSUME cur[p] # None, NEW k \in Keys PROVE EntriesMatch(cur[p][k], tgt[p][k])
  <2>1. \A op \in Ops : ~Needs(op, cur[p][k], tgt[p][k])
      BY <1>1, <1>2, ComputeMember
  <2> QED
      BY <2>1 DEF Ops, Needs, EntriesMatch
<1> QED
    BY <1>1, <1>2

LEMMA FirstReplaced ==
  ASSUME NEW S, NEW s \in Seq(S), s # <<>>, NEW x \in S
  PROVE  /\ [s EXCEPT ![1] = x] \in Seq(S) /\ [s EXCEPT ![1] = x] # <<>>
         /\ Len([s EXCEPT ![1] = x]) = Len(s)
         /\ [s EXCEPT ![1] = x][1] = x
<1>1. 1 \in 1..Len(s)
    BY EmptySeq
<1>2. /\ [s EXCEPT ![1] = x] \in Seq(S)
      /\ Len([s EXCEPT ![1] = x]) = Len(s)
      /\ [s EXCEPT ![1] = x][1] = x
    BY <1>1, ExceptSeq
<1> QED
    BY <1>1, <1>2, EmptySeq

LEMMA AtMostOne ==
  ASSUME NEW S, NEW s \in Seq(S), s # <<>>, Len(s) <= 1
  PROVE  Len(s) = 1 /\ Tail(s) = <<>>
<1>1. Len(s) = 1
  <2>1. Len(s) \in Nat \ {0}
      BY EmptySeq
  <2> QED
      BY <2>1
<1>2. Tail(s) \in Seq(S) /\ Len(Tail(s)) = 0
    BY <1>1, EmptySeq
<1> QED
    BY <1>1, <1>2, EmptySeq

(* What is applied: a key keeps its entry, loses the first definition of it, or gets    *)
(* the current one at its front or at its end.                                          *)
LEMMA AppliedFiles ==
  ASSUME NEW d, NEW cur \in Files, NEW tgt \in Files, Applicable(d, cur, tgt)
  PROVE  Applied(d, cur, tgt) \in Files
<1> SUFFICES ASSUME NEW p \in Packages PROVE Applied(d, cur, tgt)[p] \in Content \cup {None}
    BY DEF Applied, Files
<1>1. cur[p] \in Content \cup {None} /\ tgt[p] \in Content \cup {None}
    BY DEF Files
<1>2. ASSUME NEW k \in Keys, <<"add", p, None>> \notin d, <<"remove", p, None>> \notin d
      PROVE  AppliedEntry(d, cur, tgt, p, k) \in Seq(Shapes)
  <2> DEFINE old == Entry(tgt, p, k)
  <2>1. old \in Seq(Shapes)
      BY <1>1 DEF Entry, Content
  <2>2. CASE <<"add", p, k>> \in d
    <3>1. old # <<>>
        BY <2>2, NoneIsNoKey, <1>1 DEF Applicable, Entry
    <3> QED
        BY <2>1, <2>2, <3>1 DEF AppliedEntry
  <2>3. CASE <<"add", p, k>> \notin d /\ <<"remove", p, k>> \in d
    <3>1. cur[p] # None /\ cur[p][k] # <<>>
        BY <2>3, NoneIsNoKey DEF Applicable
    <3>2. First(cur[p][k]) \in Shapes
        BY <1>1, <3>1 DEF Content, First
    <3> QED
        BY <2>1, <2>3, <3>2 DEF AppliedEntry
  <2>4. CASE <<"add", p, k>> \notin d /\ <<"remove", p, k>> \notin d /\ <<"change", p, k>> \in d
    <3>1. cur[p] # None /\ cur[p][k] # <<>>
        BY <2>4, NoneIsNoKey DEF Applicable
    <3>2. First(cur[p][k]) \in Shapes
        BY <1>1, <3>1 DEF Content, First
    <3>3. old # <<>>
        BY <2>4, NoneIsNoKey DEF Applicable
    <3>4. AppliedEntry(d, cur, tgt, p, k) = [old EXCEPT ![1] = First(cur[p][k])]
        BY <2>4 DEF AppliedEntry
    <3> QED
        BY <2>1, <3>2, <3>3, <3>4, FirstReplaced
  <2>5. CASE \A op \in Ops : <<op, p, k>> \notin d
      BY <2>1, <2>5 DEF AppliedEntry, Ops
  <2> QED
      BY <2>2, <2>3, <2>4, <2>5 DEF Ops
<1>3. CASE <<"add", p, None>> \in d
    BY <1>3 DEF Applied
<1>4. CASE <<"add", p, None>> \notin d /\ (<<"remove", p, None>> \in d \/ <<"change", p, None>> \in d)
    BY <1>1, <1>4 DEF Applied
<1>5. CASE /\ <<"add", p, None>> \notin d /\ <<"remove", p, None>> \notin d
           /\ <<"change", p, None>> \notin d
  <2>1. CASE \A op \in Ops, k \in Keys \cup {None} : <<op, p, k>> \notin d
      BY <1>1, <1>5, <2>1 DEF Applied
  <2>2. CASE ~ \A op \in Ops, k \in Keys \cup {None} : <<op, p, k>> \notin d
    <3>1. Applied(d, cur, tgt)[p] = [k \in Keys |-> AppliedEntry(d, cur, tgt, p, k)]
        BY <1>5, <2>2 DEF Applied
    <3> QED
        BY <1>2, <1>5, <3>1 DEF Content
  <2> QED
      BY <2>1, <2>2
<1> QED
    BY <1>3, <1>4, <1>5

(* What a fresh diff leaves of a key that both models know. *)
LEMMA AppliedKey ==
  ASSUME NEW cur \in Files, NEW tgt \in Files, Uniform(cur), PlainModel(cur), Single(tgt),
         NEW p \in Packages, cur[p] # None, tgt[p] # None, NEW k \in Keys,
         NEW e, e = AppliedEntry(Compute(cur, tgt), cur, tgt, p, k)
  PROVE  /\ e \in Seq(Shapes)
         /\ e = <<>> <=> cur[p][k] = <<>>
         /\ e # <<>> => Stored[LastOf(e)] = LastOf(cur[p][k])
<1> DEFINE c == cur[p][k]
           t == tgt[p][k]
<1>1. c \in Seq(Shapes) /\ t \in Seq(Shapes) /\ Len(t) <= 1
    BY DEF Files, Content, Single
<1>2. \A op \in Ops : <<op, p, k>> \in Compute(cur, tgt) <=> Needs(op, c, t)
    BY ComputeMember
<1>3. c # <<>> => First(c) = LastOf(c) /\ Stored[First(c)] = First(c) /\ First(c) \in Shapes
  <2> SUFFICES ASSUME c # <<>> PROVE First(c) = LastOf(c) /\ Stored[First(c)] = First(c) /\ First(c) \in Shapes
      OBVIOUS
  <2>1. cur[p] \in Content /\ Saved(cur[p]) = cur[p]
      BY DEF Files, PlainModel
  <2>2. First(Saved(cur[p])[k]) = Stored[First(cur[p][k])]
      BY <2>1, SavedContent
  <2>3. First(c) = LastOf(c)
      BY DEF Uniform
  <2>4. First(c) \in Shapes
      BY <1>1 DEF First
  <2> QED
      BY <2>1, <2>2, <2>3, <2>4
<1>4. Entry(tgt, p, k) = t
    BY DEF Entry
<1>5. ASSUME c = <<>>, t # <<>>
      PROVE  e \in Seq(Shapes) /\ e = <<>>
  <2>1. e = Tail(t)
      BY <1>2, <1>4, <1>5 DEF AppliedEntry, Ops, Needs
  <2>2. Tail(t) = <<>>
      BY <1>1, <1>5, AtMostOne
  <2> QED
      BY <1>5, <2>1, <2>2, EmptySeq
<1>6. ASSUME c # <<>>, t = <<>>
      PROVE  e \in Seq(Shapes) /\ e # <<>> /\ Stored[LastOf(e)] = LastOf(c)
  <2>1. e = Append(t, First(c))
      BY <1>2, <1>4, <1>6 DEF AppliedEntry, Ops, Needs
  <2>2. e \in Seq(Shapes) /\ e # <<>> /\ LastOf(e) = First(c)
      BY <1>3, <1>6, <2>1 DEF LastOf
  <2> QED
      BY <1>3, <1>6, <2>2
<1>7. ASSUME c # <<>>, t # <<>>, LastOf(c) # LastOf(t)
      PROVE  e \in Seq(Shapes) /\ e # <<>> /\ Stored[LastOf(e)] = LastOf(c)
  <2>1. e = [t EXCEPT ![1] = First(c)]
      BY <1>2, <1>4, <1>7 DEF AppliedEntry, Ops, Needs
  <2>2. Len(t) = 1
      BY <1>1, <1>7, AtMostOne
  <2>3. e \in Seq(Shapes) /\ e # <<>> /\ Len(e) = 1 /\ e[1] = First(c)
      BY <1>1, <1>3, <1>7, <2>1, <2>2, FirstReplaced
  <2>4. LastOf(e) = First(c)
      BY <2>3 DEF LastOf
  <2> QED
      BY <1>3, <1>7, <2>3, <2>4
<1>8. ASSUME c = <<>> <=> t = <<>>, c # <<>> => LastOf(c) = LastOf(t)
      PROVE  e \in Seq(Shapes) /\ (e = <<>> <=> c = <<>>) /\ (e # <<>> => Stored[LastOf(e)] = LastOf(c))
  <2>1. e = t
      BY <1>2, <1>4, <1>8 DEF AppliedEntry, Ops, Needs
  <2> QED
      BY <1>1, <1>3, <1>8, <2>1
<1> QED
    BY <1>5, <1>6, <1>7, <1>8

(* Applying a fresh diff to a target, which lists everything once, leaves nothing to  *)
(* change in code that YAML holds as it is, once the target is read back.             *)
THEOREM FreshDiffIsCleared ==
  ASSUME NEW cur \in Files, NEW tgt \in Files, Uniform(cur), PlainModel(cur), Single(tgt)
  PROVE  LET d == Compute(cur, tgt)
             applied == IF d = {} THEN tgt ELSE Applied(d, cur, tgt)
         IN  Matches(cur, Reread(applied)) /\ Compute(cur, Reread(applied)) = {}
<1> DEFINE d == Compute(cur, tgt)
           applied == IF d = {} THEN tgt ELSE Applied(d, cur, tgt)
<1> SUFFICES ASSUME NEW p \in Packages
             PROVE  /\ cur[p] = None <=> Reread(applied)[p] = None
                    /\ cur[p] # None => \A k \in Keys : EntriesMatch(cur[p][k], Reread(applied)[p][k])
    BY MatchingModels DEF Matches
<1>1. cur[p] \in Content \cup {None} /\ tgt[p] \in Content \cup {None}
    BY DEF Files
<1>2. CASE cur[p] = None /\ tgt[p] = None
  <2>1. \A op \in Ops, k \in Keys \cup {None} : <<op, p, k>> \notin d
      BY <1>2, ComputeMember DEF Ops
  <2>2. applied[p] = None
      BY <1>2, <2>1 DEF Applied, Ops
  <2> QED
      BY <1>2, <2>2 DEF Reread
<1>3. CASE cur[p] = None /\ tgt[p] # None
  <2>1. <<"add", p, None>> \in d
      BY <1>3, ComputeMember
  <2>2. applied[p] = None
      BY <2>1 DEF Applied
  <2> QED
      BY <1>3, <2>2 DEF Reread
<1>4. CASE cur[p] # None /\ tgt[p] = None
  <2>1. <<"remove", p, None>> \in d /\ <<"add", p, None>> \notin d
      BY <1>4, ComputeMember
  <2>2. applied[p] = cur[p]
      BY <2>1 DEF Applied
  <2>3. Reread(applied)[p] = cur[p]
      BY <1>4, <2>2 DEF Reread, PlainModel
  <2> QED
      BY <1>4, <2>3 DEF EntriesMatch
<1>5. CASE cur[p] # None /\ tgt[p] # None
  <2>1. \A op \in Ops : <<op, p, None>> \notin d
      BY <1>5, ComputeMember DEF Ops
  <2>2. applied[p] = [k \in Keys |-> AppliedEntry(d, cur, tgt, p, k)]
    <3>1. CASE \A op \in Ops, k \in Keys \cup {None} : <<op, p, k>> \notin d
      <4>1. applied[p] = tgt[p]
          BY <2>1, <3>1 DEF Applied, Ops
      <4>2. \A k \in Keys : AppliedEntry(d, cur, tgt, p, k) = tgt[p][k]
          BY <1>5, <3>1 DEF AppliedEntry, Entry, Ops
      <4>3. tgt[p] = [k \in Keys |-> tgt[p][k]]
          BY <1>1, <1>5 DEF Content
      <4> QED
          BY <4>1, <4>2, <4>3
    <3>2. CASE ~ \A op \in Ops, k \in Keys \cup {None} : <<op, p, k>> \notin d
        BY <2>1, <3>2 DEF Applied, Ops
    <3> QED
        BY <3>1, <3>2
  <2>3. applied[p] \in Content
      BY <1>5, <2>2, AppliedKey DEF Content
  <2>4. Reread(applied)[p] = Saved(applied[p])
      BY <2>3, PackagesAssumption DEF Reread, Content
  <2>5. ASSUME NEW k \in Keys PROVE EntriesMatch(cur[p][k], Reread(applied)[p][k])
    <3> DEFINE e == AppliedEntry(d, cur, tgt, p, k)
    <3>1. applied[p][k] = e
        BY <2>2
    <3>2. /\ Saved(applied[p])[k] = <<>> <=> e = <<>>
          /\ e # <<>> => LastOf(Saved(applied[p])[k]) = Stored[LastOf(e)]
        BY <2>3, <3>1, SavedContent
    <3>3. /\ e = <<>> <=> cur[p][k] = <<>>
          /\ e # <<>> => Stored[LastOf(e)] = LastOf(cur[p][k])
        BY <1>5, AppliedKey
    <3> QED
        BY <2>4, <3>2, <3>3 DEF EntriesMatch
  <2>6. Reread(applied)[p] # None
      BY <2>3, <2>4, SavedContent
  <2> QED
      BY <1>5, <2>5, <2>6
<1> QED
    BY <1>2, <1>3, <1>4, <1>5

-----------------------------------------------------------------------------
(* The inductive invariant. *)

Places == {"idle", "generate", "materialize", "check", "copyPub", "copyInt", "use", "switch",
           "delete", "unpoint", "wipe", "write"}

TypeOK ==
  /\ code \in Files /\ pub \in Files /\ int \in Files
  /\ tpub \in [Ids -> Files] /\ tint \in [Ids -> Files]
  /\ ops \in Nat
  /\ dirs \subseteq Ids /\ metas \subseteq Ids
  /\ current \in Ids \cup {None} /\ active \in Ids \cup {None}
  /\ pointed \in BOOLEAN /\ watched \in BOOLEAN /\ event \in BOOLEAN /\ dangling \in BOOLEAN
  /\ at \in [Actors -> Places]
  /\ id \in [Actors -> Ids \cup {None}]
  /\ todo \in [Actors -> SUBSET Packages]
  /\ new \in [Actors -> Files]
  /\ patch \subseteq Changes
  /\ calm \subseteq Actors

(* Who may be where: an actor at work has a target, only commands delete, only tools *)
(* materialize, and only what is in the new model is still to be written.            *)
ActorsFit ==
  \A a \in Actors :
    /\ at[a] # "idle" => id[a] \in Ids
    /\ at[a] \in {"generate", "delete", "unpoint"} => a \in Commands
    /\ at[a] \in {"materialize", "switch"} => a \in Tools
    /\ at[a] = "wipe" => todo[a] = Present(new[a])
    /\ at[a] = "write" => todo[a] \subseteq Present(new[a])

(* A delete that was not forced found CURRENT elsewhere, and who points it there now *)
(* sees the delete coming.                                                          *)
DeletesWatch ==
  \A a \in Actors : at[a] = "delete" /\ ~IsForced(a) /\ current = id[a] => dangling

(* What has no directory has no files. *)
TargetsEmpty == \A i \in Ids : i \notin dirs => tpub[i] = NoFiles /\ tint[i] = NoFiles

EntriesAreUniform == Uniform(code) /\ Uniform(pub) /\ Uniform(int)

(* Nobody works beside the actor that nothing overlapped. *)
CalmAlone == \A a \in calm : at[a] # "idle" => \A b \in Actors \ {a} : at[b] = "idle"

(* A tool that is alone has written the specs of the packages it is done with. *)
SpecsAreOfCode ==
  \A a \in calm \cap Tools :
    at[a] \in {"materialize", "check", "copyPub", "copyInt"} =>
      \A p \in Present(code) :
        (at[a] = "materialize" => p \notin todo[a]) => int[p] = Saved(code[p])

(* Who locks a target alone has copied the packages it is done with, and made up none *)
(* of the others.                                                                     *)
CopiesMatch ==
  \A a \in calm :
    at[a] \in {"copyPub", "copyInt"} =>
      /\ Present(pub) \cup Present(int) # {}
      /\ \A p \in Packages :
           /\ tpub[id[a]][p] \in {None, pub[p]} /\ tint[id[a]][p] \in {None, int[p]}
           /\ p \notin todo[a] => tpub[id[a]][p] = pub[p] /\ tint[id[a]][p] = int[p]
           /\ at[a] = "copyInt" /\ new[a][p] # None => tpub[id[a]][p] = pub[p]

(* What an apply that is alone is about to write matches the code it read, and it has *)
(* written the packages it is done with and nothing else.                             *)
WritesMatch ==
  \A a \in calm :
    /\ at[a] \in {"wipe", "write"} /\ PlainModel(Current(a)) => Matches(Current(a), Reread(new[a]))
    /\ at[a] = "write" =>
         /\ tpub[id[a]] = NoFiles
         /\ \A p \in Packages :
              p \notin todo[a] => tint[id[a]][p] = Reread(new[a])[p]

IInv ==
  /\ TypeOK /\ ActorsFit
  /\ DeletesWatch /\ CurrentIsATarget
  /\ TargetsEmpty /\ EntriesAreUniform
  /\ CalmAlone /\ SpecsAreOfCode /\ CopiesMatch /\ WritesMatch

-----------------------------------------------------------------------------
(* The parts the steps are made of. *)

LEMMA NoFilesTypes == NoFiles \in Files /\ Present(NoFiles) = {}
BY DEF NoFiles, Files, Present

LEMMA EmptyContent == Empty \in Content /\ Empty # None
<1>1. <<>> \in Seq(Shapes)
    BY EmptySeq
<1> QED
    BY <1>1, PackagesAssumption DEF Empty, Content

LEMMA CurrentFiles == ASSUME TypeOK, NEW a \in Actors PROVE Current(a) \in Files
BY LoadedFiles DEF TypeOK, Current

LEMMA TargetFiles == ASSUME TypeOK, NEW i \in Ids PROVE Target(i) \in Files
BY LoadedFiles DEF TypeOK, Target

LEMMA DoneTypes ==
  ASSUME TypeOK, NEW a \in Actors, Done(a)
  PROVE  /\ at' \in [Actors -> Places] /\ id' \in [Actors -> Ids \cup {None}]
         /\ todo' \in [Actors -> SUBSET Packages] /\ new' \in [Actors -> Files]
BY NoFilesTypes DEF TypeOK, Done, Goto, Places

LEMMA BeginTypes ==
  ASSUME TypeOK, NEW a \in Actors, NEW i \in Ids, NEW place \in Places, Begin(a, i, place)
  PROVE  /\ at' \in [Actors -> Places] /\ id' \in [Actors -> Ids \cup {None}]
         /\ ops' \in Nat /\ calm' \subseteq Actors
BY DEF TypeOK, Begin, Goto, Counted

LEMMA EntryTypes == ASSUME NEW k \in Keys PROVE Entries(k) \subseteq Seq(Shapes)
<1>1. ASSUME NEW s \in Shapes PROVE <<s>> \in Seq(Shapes) /\ <<s, s>> \in Seq(Shapes)
    OBVIOUS
<1>2. <<>> \in Seq(Shapes)
    BY EmptySeq
<1> QED
    BY <1>1, <1>2 DEF Entries

LEMMA InitTypes == Init => TypeOK
<1> SUFFICES ASSUME Init PROVE TypeOK
    OBVIOUS
<1>1. code \in Files
    BY EntryTypes DEF Init, Files, Content
<1> QED
    BY <1>1, NoFilesTypes DEF Init, TypeOK, Places

LEMMA TypeStep == TypeOK /\ ActorsFit /\ [Next]_vars => TypeOK'
<1> SUFFICES ASSUME TypeOK, ActorsFit, [Next]_vars PROVE TypeOK'
    OBVIOUS
<1> USE DEF TypeOK
<1>0. \A a \in Actors : at[a] # "idle" => id[a] \in Ids
    BY DEF ActorsFit
<1>1. CASE UNCHANGED vars
    BY <1>1 DEF vars
<1>2. ASSUME NEW p \in Packages, DeletePackage(p) PROVE TypeOK'
    BY <1>2 DEF DeletePackage, Counted, specVars, targetVars, pointerVars, watchVars, Files
<1>3. ASSUME NEW p \in Packages, NEW k \in Keys, NEW e \in Entries(k), Edit(p, k, e) PROVE TypeOK'
  <2>1. code' \in Files
      BY <1>3, EntryTypes DEF Edit, Files, Content
  <2> QED
      BY <1>3, <2>1 DEF Edit, Counted, specVars, targetVars, pointerVars, watchVars
<1>4. ASSUME NEW a \in Actors, NEW i \in Ids, BeginLock(a, i) \/ BeginUse(a, i) \/ BeginDelete(a, i)
      PROVE  TypeOK'
    BY <1>4, BeginTypes DEF BeginLock, BeginUse, BeginDelete, Places, Present, specVars, targetVars,
                            pointerVars, watchVars
<1>5. ASSUME NEW a \in Actors, NEW i \in Ids, Diff(a, i) PROVE TypeOK'
  <2>1. patch' \subseteq Changes
      BY <1>5 DEF Diff, Compute
  <2> QED
      BY <1>5, <2>1 DEF Diff, specVars, targetVars, pointerVars, watchVars
<1>6. ASSUME NEW a \in Actors, NEW i \in Ids, BeginApply(a, i) PROVE TypeOK'
  <2>1. new' \in [Actors -> Files]
    <3>1. (IF patch = {} THEN Target(i) ELSE Applied(patch, Current(a), Target(i))) \in Files
        BY <1>6, CurrentFiles, TargetFiles, AppliedFiles DEF BeginApply
    <3> QED
        BY <1>6, <3>1 DEF BeginApply
  <2>2. todo' \in [Actors -> SUBSET Packages]
      BY <1>6 DEF BeginApply, Present
  <2> QED
      BY <1>6, <2>1, <2>2 DEF BeginApply, Goto, Counted, Places, specVars, targetVars, pointerVars, watchVars
<1>7. ASSUME NEW a \in Actors, NEW p \in Packages, WriteSpecs(a, p) PROVE TypeOK'
  <2>1. Saved(code[p]) \in Content /\ Saved(Public(code[p])) \in Content
      BY <1>7, SavedContent DEF WriteSpecs, Files
  <2>2. int' \in Files /\ pub' \in Files
      BY <1>7, <2>1 DEF WriteSpecs, Files
  <2> QED
      BY <1>7, <2>2 DEF WriteSpecs, targetVars, pointerVars, watchVars
<1>8. ASSUME NEW a \in Actors, NEW p \in Packages, CopyPub(a, p) PROVE TypeOK'
  <2>1. tpub' \in [Ids -> Files]
      BY <1>8 DEF CopyPub, Files
  <2>2. new' \in [Actors -> Files]
      BY <1>8, NoFilesTypes, EmptyContent DEF CopyPub, Files
  <2> QED
      BY <1>0, <1>8, <2>1, <2>2 DEF CopyPub, Goto, Places, specVars, pointerVars, watchVars
<1>9. ASSUME NEW a \in Actors, NEW p \in Packages, WritePackage(a, p) PROVE TypeOK'
  <2>1. p \in Present(new[a])
      BY <1>9 DEF WritePackage, ActorsFit
  <2>2. Saved(new[a][p]) \in Content
      BY <2>1, SavedContent DEF Files, Present
  <2>3. tint' \in [Ids -> Files]
      BY <1>9, <2>2 DEF WritePackage, Files
  <2> QED
      BY <1>0, <1>9, <2>3 DEF WritePackage, specVars, pointerVars, watchVars
<1>10. ASSUME NEW a \in Actors, SpecsWritten(a) PROVE TypeOK'
    BY <1>10 DEF SpecsWritten, Goto, Places, specVars, targetVars, pointerVars, watchVars
<1>11. ASSUME NEW a \in Actors, LockFails(a) \/ Applies(a) \/ Kill(a) PROVE TypeOK'
    BY <1>11, DoneTypes DEF LockFails, Applies, Kill, specVars, targetVars, pointerVars, watchVars
<1>12. ASSUME NEW a \in Actors, LockStarts(a) PROVE TypeOK'
    BY <1>0, <1>12 DEF LockStarts, Goto, Places, Present, specVars, pointerVars, watchVars
<1>13. ASSUME NEW a \in Actors, CopyInt(a) PROVE TypeOK'
  <2>1. PICK p \in Packages : /\ tint' = [tint EXCEPT ![id[a]][p] = IF int[p] # None THEN int[p] ELSE @]
                             /\ todo' = [todo EXCEPT ![a] = @ \ {p}]
      BY <1>13 DEF CopyInt, Present
  <2>2. tint' \in [Ids -> Files]
      BY <2>1 DEF Files
  <2> QED
      BY <1>0, <1>13, <2>1, <2>2, NoFilesTypes DEF CopyInt, Goto, Places, specVars, pointerVars, watchVars
<1>14. ASSUME NEW a \in Actors, WriteMeta(a) PROVE TypeOK'
    BY <1>14, DoneTypes DEF WriteMeta, specVars, pointerVars, watchVars
<1>15. ASSUME NEW a \in Actors, Use(a) \/ Switch(a) \/ Unpoint(a) PROVE TypeOK'
    BY <1>15, DoneTypes DEF Use, Switch, Unpoint, SetCurrent, Goto, Places, specVars, targetVars
<1>16. ASSUME NEW a \in Actors, RemoveTarget(a) PROVE TypeOK'
    BY <1>16, DoneTypes, NoFilesTypes DEF RemoveTarget, Goto, Places, specVars, pointerVars, watchVars
<1>17. ASSUME NEW a \in Actors, Wipe(a) PROVE TypeOK'
    BY <1>0, <1>17, NoFilesTypes DEF Wipe, Goto, Places, specVars, pointerVars, watchVars
<1>18. CASE Deliver \/ Restart
    BY <1>18, NoFilesTypes DEF Deliver, Restart, Places, specVars, targetVars, actorVars
<1> QED
    BY <1>1, <1>2, <1>3, <1>4, <1>5, <1>6, <1>7, <1>8, <1>9, <1>10, <1>11, <1>12, <1>13, <1>14,
       <1>15, <1>16, <1>17, <1>18 DEF Next

-----------------------------------------------------------------------------
LEMMA ActorsStep == TypeOK /\ ActorsFit /\ [Next]_vars => ActorsFit'
<1> SUFFICES ASSUME TypeOK, ActorsFit, [Next]_vars PROVE ActorsFit'
    OBVIOUS
<1> USE DEF TypeOK, ActorsFit
<1>1. CASE UNCHANGED vars
    BY <1>1 DEF vars, Present
<1>2. ASSUME UNCHANGED <<at, id, todo, new>> PROVE ActorsFit'
    BY <1>2 DEF Present
<1>3. ASSUME NEW p \in Packages,
             DeletePackage(p) \/ \E k \in Keys : \E e \in Entries(k) : Edit(p, k, e)
      PROVE  ActorsFit'
    BY <1>2, <1>3 DEF DeletePackage, Edit
<1>4. ASSUME NEW a \in Actors, NEW i \in Ids, BeginLock(a, i) \/ BeginUse(a, i) \/ BeginDelete(a, i)
      PROVE  ActorsFit'
  <2>1. CASE BeginLock(a, i)
      BY <2>1 DEF BeginLock, Begin, Goto, Actors, Present
  <2>2. CASE BeginUse(a, i)
      BY <2>2 DEF BeginUse, Begin, Goto, Present
  <2>3. CASE BeginDelete(a, i)
      BY <2>3 DEF BeginDelete, Begin, Goto, Present
  <2> QED
      BY <1>4, <2>1, <2>2, <2>3
<1>5. ASSUME NEW a \in Actors, NEW i \in Ids, Diff(a, i) \/ BeginApply(a, i) PROVE ActorsFit'
  <2>1. CASE Diff(a, i)
      BY <1>2, <2>1 DEF Diff
  <2>2. CASE BeginApply(a, i)
      BY <2>2 DEF BeginApply, Goto, Present
  <2> QED
      BY <1>5, <2>1, <2>2
<1>6. ASSUME NEW a \in Actors, Done(a) PROVE ActorsFit'
    BY <1>6 DEF Done, Goto, Present
<1>7. ASSUME NEW a \in Actors, NEW p \in Packages, WriteSpecs(a, p) \/ CopyPub(a, p) \/ WritePackage(a, p)
      PROVE  ActorsFit'
    BY <1>7 DEF WriteSpecs, CopyPub, WritePackage, Goto, Present
<1>8. ASSUME NEW a \in Actors, SpecsWritten(a) \/ LockStarts(a) \/ CopyInt(a) \/ Wipe(a) PROVE ActorsFit'
    BY <1>8 DEF SpecsWritten, LockStarts, CopyInt, Wipe, Goto, Present
<1>9. ASSUME NEW a \in Actors, LockFails(a) \/ WriteMeta(a) \/ Switch(a) \/ Unpoint(a) \/ Applies(a)
                                \/ Kill(a)
      PROVE  ActorsFit'
    BY <1>6, <1>9 DEF LockFails, WriteMeta, Switch, Unpoint, Applies, Kill
<1>10. ASSUME NEW a \in Actors, Use(a) \/ RemoveTarget(a) PROVE ActorsFit'
  <2>1. CASE Done(a)
      BY <1>6, <2>1
  <2>2. CASE Goto(a, "switch") /\ a \in Tools /\ at[a] = "use" /\ UNCHANGED <<id, todo, new>>
      BY <2>2 DEF Goto, Present
  <2>3. CASE Goto(a, "unpoint") /\ at[a] = "delete" /\ UNCHANGED <<id, todo, new>>
      BY <2>3 DEF Goto, Present
  <2> QED
      BY <1>10, <2>1, <2>2, <2>3 DEF Use, RemoveTarget
<1>11. CASE Deliver \/ Restart
    BY <1>2, <1>11 DEF Deliver, Restart, actorVars, Present
<1> QED
    BY <1>1, <1>3, <1>4, <1>5, <1>7, <1>8, <1>9, <1>10, <1>11 DEF Next

-----------------------------------------------------------------------------
(* CURRENT: who deletes a target without force looked at CURRENT first, and whoever  *)
(* points CURRENT there now knows that the target goes.                              *)

LEMMA DeletesStep == TypeOK /\ ActorsFit /\ DeletesWatch /\ [Next]_vars => DeletesWatch'
<1> SUFFICES ASSUME TypeOK, ActorsFit, DeletesWatch, [Next]_vars PROVE DeletesWatch'
    OBVIOUS
<1> USE DEF TypeOK, DeletesWatch, IsForced
<1>1. CASE UNCHANGED vars
    BY <1>1 DEF vars
<1>2. ASSUME UNCHANGED <<at, id, todo, current, dangling>> PROVE DeletesWatch'
    BY <1>2
<1>3. ASSUME NEW p \in Packages,
             DeletePackage(p) \/ \E k \in Keys : \E e \in Entries(k) : Edit(p, k, e)
      PROVE  DeletesWatch'
    BY <1>2, <1>3 DEF DeletePackage, Edit, pointerVars
<1>4. ASSUME NEW a \in Actors, NEW i \in Ids, BeginLock(a, i) \/ BeginUse(a, i) \/ BeginDelete(a, i)
      PROVE  DeletesWatch'
  <2>1. CASE BeginLock(a, i) \/ BeginUse(a, i)
      BY <2>1 DEF BeginLock, BeginUse, Begin, Goto, pointerVars
  <2>2. CASE BeginDelete(a, i)
      BY <2>2, PackagesAssumption DEF BeginDelete, Begin, Goto, pointerVars
  <2> QED
      BY <1>4, <2>1, <2>2
<1>5. ASSUME NEW a \in Actors, NEW i \in Ids, Diff(a, i) \/ BeginApply(a, i) PROVE DeletesWatch'
  <2>1. CASE Diff(a, i)
      BY <1>2, <2>1 DEF Diff, pointerVars
  <2>2. CASE BeginApply(a, i)
      BY <2>2 DEF BeginApply, Goto, pointerVars
  <2> QED
      BY <1>5, <2>1, <2>2
<1>6. ASSUME NEW a \in Actors, Done(a), UNCHANGED current, dangling => dangling' PROVE DeletesWatch'
    BY <1>6 DEF Done, Goto
<1>7. ASSUME NEW a \in Actors, NEW p \in Packages, WriteSpecs(a, p) \/ CopyPub(a, p) \/ WritePackage(a, p)
      PROVE  DeletesWatch'
    BY <1>7 DEF WriteSpecs, CopyPub, WritePackage, Goto, pointerVars
<1>8. ASSUME NEW a \in Actors, SpecsWritten(a) \/ LockStarts(a) \/ CopyInt(a) \/ Wipe(a) PROVE DeletesWatch'
    BY <1>8 DEF SpecsWritten, LockStarts, CopyInt, Wipe, Goto, pointerVars
<1>9. ASSUME NEW a \in Actors, LockFails(a) \/ WriteMeta(a) \/ Switch(a) \/ Applies(a) \/ Kill(a)
      PROVE  DeletesWatch'
    BY <1>6, <1>9 DEF LockFails, WriteMeta, Switch, Applies, Kill, pointerVars
<1>10. ASSUME NEW a \in Actors, Use(a) PROVE DeletesWatch'
  <2>1. ASSUME NEW b \in Actors, at'[b] = "delete", current' = id'[b] PROVE dangling'
    <3>1. b # a /\ at[b] = "delete" /\ id'[b] = id[b]
        BY <1>10, <2>1 DEF Use, Done, Goto
    <3> QED
        BY <1>10, <2>1, <3>1 DEF Use, SetCurrent
  <2> QED
      BY <2>1
<1>11. ASSUME NEW a \in Actors, RemoveTarget(a) PROVE DeletesWatch'
  <2>1. CASE IsForced(a)
      BY <1>11, <2>1 DEF RemoveTarget, Goto, pointerVars
  <2>2. CASE ~IsForced(a)
      BY <1>6, <1>11, <2>2 DEF RemoveTarget, pointerVars
  <2> QED
      BY <2>1, <2>2
<1>12. ASSUME NEW a \in Actors, Unpoint(a) PROVE DeletesWatch'
    BY <1>12, ActorsAssumption DEF Unpoint, Done, Goto, ActorsFit
<1>13. CASE Deliver \/ Restart
    BY <1>2, <1>13 DEF Deliver, Restart, actorVars
<1> QED
    BY <1>1, <1>3, <1>4, <1>5, <1>7, <1>8, <1>9, <1>10, <1>11, <1>12, <1>13 DEF Next

LEMMA CurrentStep ==
  TypeOK /\ ActorsFit /\ DeletesWatch /\ CurrentIsATarget /\ [Next]_vars => CurrentIsATarget'
<1> SUFFICES ASSUME TypeOK, ActorsFit, DeletesWatch, CurrentIsATarget, [Next]_vars
             PROVE  CurrentIsATarget'
    OBVIOUS
<1> USE DEF TypeOK, CurrentIsATarget
<1>1. CASE UNCHANGED vars
    BY <1>1 DEF vars
<1>2. ASSUME UNCHANGED <<current, dangling>>, dirs \subseteq dirs',
             \A a \in Actors : at[a] = "unpoint" => at'[a] = "unpoint"
      PROVE  CurrentIsATarget'
    BY <1>2
<1>3. ASSUME NEW p \in Packages,
             DeletePackage(p) \/ \E k \in Keys : \E e \in Entries(k) : Edit(p, k, e)
      PROVE  CurrentIsATarget'
    BY <1>2, <1>3 DEF DeletePackage, Edit, targetVars, pointerVars
<1>4. ASSUME NEW a \in Actors, NEW i \in Ids,
             BeginLock(a, i) \/ BeginUse(a, i) \/ BeginDelete(a, i) \/ Diff(a, i) \/ BeginApply(a, i)
      PROVE  CurrentIsATarget'
    BY <1>2, <1>4 DEF BeginLock, BeginUse, BeginDelete, Diff, BeginApply, Begin, Goto, targetVars, pointerVars
<1>5. ASSUME NEW a \in Actors, at[a] # "unpoint", Done(a), UNCHANGED <<current, dangling>>,
             dirs \subseteq dirs'
      PROVE  CurrentIsATarget'
    BY <1>5 DEF Done, Goto
<1>6. ASSUME NEW a \in Actors, NEW p \in Packages, WriteSpecs(a, p) \/ CopyPub(a, p) \/ WritePackage(a, p)
      PROVE  CurrentIsATarget'
    BY <1>2, <1>6 DEF WriteSpecs, CopyPub, WritePackage, Goto, targetVars, pointerVars
<1>7. ASSUME NEW a \in Actors, SpecsWritten(a) \/ LockStarts(a) \/ CopyInt(a) \/ Wipe(a)
      PROVE  CurrentIsATarget'
    BY <1>2, <1>7 DEF SpecsWritten, LockStarts, CopyInt, Wipe, Goto, targetVars, pointerVars
<1>8. ASSUME NEW a \in Actors, LockFails(a) \/ WriteMeta(a) \/ Switch(a) \/ Applies(a)
      PROVE  CurrentIsATarget'
    BY <1>5, <1>8 DEF LockFails, WriteMeta, Switch, Applies, targetVars, pointerVars
<1>9. ASSUME NEW a \in Actors, Kill(a) PROVE CurrentIsATarget'
    BY <1>9 DEF Kill, Done, Goto, targetVars
<1>10. ASSUME NEW a \in Actors, Use(a) PROVE CurrentIsATarget'
    BY <1>10 DEF Use, SetCurrent, targetVars
<1>11. ASSUME NEW a \in Actors, RemoveTarget(a) PROVE CurrentIsATarget'
  <2>1. CASE IsForced(a)
      BY <1>11, <2>1 DEF RemoveTarget, Goto, pointerVars
  <2>2. CASE ~IsForced(a)
      BY <1>11, <2>2 DEF RemoveTarget, DeletesWatch, Done, Goto, pointerVars
  <2> QED
      BY <2>1, <2>2
<1>12. ASSUME NEW a \in Actors, Unpoint(a) PROVE CurrentIsATarget'
    BY <1>12 DEF Unpoint
<1>13. CASE Deliver \/ Restart
    BY <1>2, <1>13, ActorsAssumption DEF Deliver, Restart, ActorsFit, actorVars, targetVars
<1> QED
    BY <1>1, <1>3, <1>4, <1>6, <1>7, <1>8, <1>9, <1>10, <1>11, <1>12, <1>13 DEF Next

-----------------------------------------------------------------------------
(* Files. *)

LEMMA EmptyStep == TypeOK /\ ActorsFit /\ TargetsEmpty /\ [Next]_vars => TargetsEmpty'
<1> SUFFICES ASSUME TypeOK, ActorsFit, TargetsEmpty, [Next]_vars PROVE TargetsEmpty'
    OBVIOUS
<1> USE DEF TypeOK, TargetsEmpty
<1>1. ASSUME UNCHANGED <<tpub, tint>>, dirs \subseteq dirs' PROVE TargetsEmpty'
    BY <1>1
<1>2. CASE UNCHANGED vars
    BY <1>1, <1>2 DEF vars
<1>3. ASSUME NEW p \in Packages,
             DeletePackage(p) \/ \E k \in Keys : \E e \in Entries(k) : Edit(p, k, e)
      PROVE  TargetsEmpty'
    BY <1>1, <1>3 DEF DeletePackage, Edit, targetVars
<1>4. ASSUME NEW a \in Actors, NEW i \in Ids,
             BeginLock(a, i) \/ BeginUse(a, i) \/ BeginDelete(a, i) \/ Diff(a, i) \/ BeginApply(a, i)
      PROVE  TargetsEmpty'
    BY <1>1, <1>4 DEF BeginLock, BeginUse, BeginDelete, Diff, BeginApply, targetVars
<1>5. ASSUME NEW a \in Actors, NEW p \in Packages, WriteSpecs(a, p) PROVE TargetsEmpty'
    BY <1>1, <1>5 DEF WriteSpecs, targetVars
<1>6. ASSUME NEW a \in Actors,
             \A i \in Ids \ {id[a]} : tpub'[i] = tpub[i] /\ tint'[i] = tint[i],
             dirs' = dirs \cup {id[a]}
      PROVE  TargetsEmpty'
    BY <1>6
<1>7. ASSUME NEW a \in Actors, NEW p \in Packages, CopyPub(a, p) \/ WritePackage(a, p) PROVE TargetsEmpty'
    BY <1>6, <1>7 DEF CopyPub, WritePackage
<1>8. ASSUME NEW a \in Actors, LockStarts(a) \/ CopyInt(a) \/ Wipe(a) PROVE TargetsEmpty'
    BY <1>6, <1>8 DEF LockStarts, CopyInt, Wipe
<1>9. ASSUME NEW a \in Actors, RemoveTarget(a) PROVE TargetsEmpty'
    BY <1>9 DEF RemoveTarget
<1>10. ASSUME NEW a \in Actors, SpecsWritten(a) \/ LockFails(a) \/ WriteMeta(a) \/ Use(a) \/ Switch(a)
                                 \/ Unpoint(a) \/ Applies(a) \/ Kill(a)
      PROVE  TargetsEmpty'
    BY <1>1, <1>10 DEF SpecsWritten, LockFails, WriteMeta, Use, Switch, Unpoint, Applies, Kill, targetVars
<1>11. CASE Deliver \/ Restart
    BY <1>1, <1>11 DEF Deliver, Restart, targetVars
<1> QED
    BY <1>2, <1>3, <1>4, <1>5, <1>7, <1>8, <1>9, <1>10, <1>11 DEF Next

LEMMA EntryUniform ==
  ASSUME NEW k \in Keys, NEW e \in Entries(k), e # <<>>
  PROVE  First(e) = LastOf(e)
BY DEF Entries, First, LastOf

LEMMA SavedUniform ==
  ASSUME NEW m \in Files, Uniform(m), NEW p \in Packages, m[p] # None, NEW k \in Keys
  PROVE  /\ Saved(m[p])[k] # <<>> => First(Saved(m[p])[k]) = LastOf(Saved(m[p])[k])
         /\ Saved(Public(m[p]))[k] # <<>> => First(Saved(Public(m[p]))[k]) = LastOf(Saved(Public(m[p]))[k])
<1>1. m[p] \in Content /\ Public(m[p]) \in Content
    BY SavedContent DEF Files
<1>2. m[p][k] # <<>> => First(m[p][k]) = LastOf(m[p][k])
    BY DEF Uniform
<1>3. Public(m[p])[k] # <<>> => First(Public(m[p])[k]) = LastOf(Public(m[p])[k])
    BY <1>2 DEF Public
<1> QED
    BY <1>1, <1>2, <1>3, SavedContent

LEMMA UniformStep == TypeOK /\ EntriesAreUniform /\ [Next]_vars => EntriesAreUniform'
<1> SUFFICES ASSUME TypeOK, EntriesAreUniform, [Next]_vars PROVE EntriesAreUniform'
    OBVIOUS
<1>1. ASSUME UNCHANGED <<code, pub, int>> PROVE EntriesAreUniform'
    BY <1>1 DEF EntriesAreUniform, Uniform
<1>2. CASE UNCHANGED vars
    BY <1>1, <1>2 DEF vars
<1>3. ASSUME NEW p \in Packages, DeletePackage(p) PROVE EntriesAreUniform'
    BY <1>3 DEF DeletePackage, EntriesAreUniform, Uniform, TypeOK, Files, specVars
<1>4. ASSUME NEW p \in Packages, NEW k \in Keys, NEW e \in Entries(k), Edit(p, k, e)
      PROVE  EntriesAreUniform'
  <2>1. UNCHANGED <<pub, int>> /\ code' = [code EXCEPT ![p][k] = e] /\ code[p] # None
      BY <1>4 DEF Edit, specVars
  <2>2. code[p] \in Content
      BY <2>1 DEF TypeOK, Files
  <2>3. Uniform(code')
      BY <2>1, <2>2, EntryUniform DEF EntriesAreUniform, Uniform, TypeOK, Files, Content
  <2> QED
      BY <2>1, <2>3 DEF EntriesAreUniform, Uniform
<1>5. ASSUME NEW a \in Actors, NEW p \in Packages, WriteSpecs(a, p) PROVE EntriesAreUniform'
  <2>1. code[p] # None /\ code' = code
      BY <1>5 DEF WriteSpecs
  <2>2. Uniform(int')
      BY <1>5, <2>1, SavedUniform DEF WriteSpecs, EntriesAreUniform, Uniform, TypeOK, Files
  <2>3. Uniform(pub')
      BY <1>5, <2>1, SavedUniform DEF WriteSpecs, EntriesAreUniform, Uniform, TypeOK, Files
  <2> QED
      BY <2>1, <2>2, <2>3 DEF EntriesAreUniform, Uniform
<1>6. ASSUME NEW a \in Actors, NEW i \in Ids,
             BeginLock(a, i) \/ BeginUse(a, i) \/ BeginDelete(a, i) \/ Diff(a, i) \/ BeginApply(a, i)
      PROVE  EntriesAreUniform'
    BY <1>1, <1>6 DEF BeginLock, BeginUse, BeginDelete, Diff, BeginApply, specVars
<1>7. ASSUME NEW a \in Actors, NEW p \in Packages, CopyPub(a, p) \/ WritePackage(a, p)
      PROVE  EntriesAreUniform'
    BY <1>1, <1>7 DEF CopyPub, WritePackage, specVars
<1>8. ASSUME NEW a \in Actors, SpecsWritten(a) \/ LockFails(a) \/ LockStarts(a) \/ CopyInt(a) \/ WriteMeta(a)
      PROVE  EntriesAreUniform'
    BY <1>1, <1>8 DEF SpecsWritten, LockFails, LockStarts, CopyInt, WriteMeta, specVars
<1>9. ASSUME NEW a \in Actors, Use(a) \/ Switch(a) \/ RemoveTarget(a) \/ Unpoint(a) \/ Wipe(a) \/ Applies(a)
                                \/ Kill(a)
      PROVE  EntriesAreUniform'
    BY <1>1, <1>9 DEF Use, Switch, RemoveTarget, Unpoint, Wipe, Applies, Kill, specVars
<1>10. CASE Deliver \/ Restart
    BY <1>1, <1>10 DEF Deliver, Restart, specVars
<1> QED
    BY <1>2, <1>3, <1>4, <1>5, <1>6, <1>7, <1>8, <1>9, <1>10 DEF Next

-----------------------------------------------------------------------------
(* The actor that nothing overlapped. *)

LEMMA CalmStep == TypeOK /\ CalmAlone /\ [Next]_vars => CalmAlone'
<1> SUFFICES ASSUME TypeOK, CalmAlone, [Next]_vars PROVE CalmAlone'
    OBVIOUS
<1> USE DEF TypeOK, CalmAlone
<1>1. ASSUME UNCHANGED calm, \A b \in Actors : at[b] = "idle" => at'[b] = "idle" PROVE CalmAlone'
    BY <1>1
<1>2. CASE UNCHANGED vars
    BY <1>1, <1>2 DEF vars
<1>3. ASSUME NEW p \in Packages,
             DeletePackage(p) \/ \E k \in Keys : \E e \in Entries(k) : Edit(p, k, e)
      PROVE  CalmAlone'
    BY <1>3 DEF DeletePackage, Edit
<1>4. ASSUME NEW a \in Actors, calm' = {} \/ (calm' = {a} /\ \A b \in Actors : at[b] = "idle"),
             \A b \in Actors \ {a} : at'[b] = at[b]
      PROVE  CalmAlone'
    BY <1>4
<1>5. ASSUME NEW a \in Actors, NEW i \in Ids,
             BeginLock(a, i) \/ BeginUse(a, i) \/ BeginDelete(a, i) \/ BeginApply(a, i)
      PROVE  CalmAlone'
    BY <1>4, <1>5 DEF BeginLock, BeginUse, BeginDelete, BeginApply, Begin, Goto
<1>6. ASSUME NEW a \in Actors, NEW i \in Ids, Diff(a, i) PROVE CalmAlone'
    BY <1>1, <1>6 DEF Diff
<1>7. ASSUME NEW a \in Actors, NEW p \in Packages, WriteSpecs(a, p) \/ CopyPub(a, p) \/ WritePackage(a, p)
      PROVE  CalmAlone'
    BY <1>1, <1>7 DEF WriteSpecs, CopyPub, WritePackage, Goto
<1>8. ASSUME NEW a \in Actors, SpecsWritten(a) \/ LockStarts(a) \/ CopyInt(a) \/ Wipe(a) PROVE CalmAlone'
    BY <1>1, <1>8 DEF SpecsWritten, LockStarts, CopyInt, Wipe, Goto
<1>9. ASSUME NEW a \in Actors, LockFails(a) \/ WriteMeta(a) \/ Switch(a) \/ Unpoint(a) \/ Applies(a)
                                \/ Kill(a)
      PROVE  CalmAlone'
    BY <1>1, <1>9 DEF LockFails, WriteMeta, Switch, Unpoint, Applies, Kill, Done, Goto
<1>10. ASSUME NEW a \in Actors, Use(a) \/ RemoveTarget(a) PROVE CalmAlone'
    BY <1>1, <1>10 DEF Use, RemoveTarget, Done, Goto
<1>11. CASE Deliver \/ Restart
    BY <1>1, <1>11 DEF Deliver, Restart, actorVars
<1> QED
    BY <1>2, <1>3, <1>5, <1>6, <1>7, <1>8, <1>9, <1>10, <1>11 DEF Next

LEMMA OnlyActor ==
  ASSUME TypeOK, CalmAlone, NEW c \in calm, at[c] # "idle", NEW a \in Actors, at[a] # "idle"
  PROVE  a = c
BY DEF CalmAlone

LEMMA SpecsStep == TypeOK /\ ActorsFit /\ CalmAlone /\ SpecsAreOfCode /\ [Next]_vars => SpecsAreOfCode'
<1> SUFFICES ASSUME TypeOK, ActorsFit, CalmAlone, SpecsAreOfCode, [Next]_vars PROVE SpecsAreOfCode'
    OBVIOUS
<1> USE DEF TypeOK, SpecsAreOfCode, Present
<1> DEFINE Locking == {"materialize", "check", "copyPub", "copyInt"}
<1>1. ASSUME UNCHANGED <<code, int, calm>>,
             \A c \in calm \cap Tools : at'[c] \in Locking =>
               \/ at'[c] = at[c] /\ todo'[c] = todo[c]
               \/ at[c] \in Locking \ {"materialize"}
      PROVE  SpecsAreOfCode'
    BY <1>1
<1>2. CASE UNCHANGED vars
    BY <1>1, <1>2 DEF vars
<1>3. ASSUME NEW p \in Packages,
             DeletePackage(p) \/ \E k \in Keys : \E e \in Entries(k) : Edit(p, k, e)
      PROVE  SpecsAreOfCode'
    BY <1>3 DEF DeletePackage, Edit
<1>4. ASSUME NEW a \in Actors, NEW i \in Ids, BeginLock(a, i) PROVE SpecsAreOfCode'
    BY <1>4 DEF BeginLock, Begin, Goto, Actors
<1>5. ASSUME NEW a \in Actors, NEW i \in Ids, BeginUse(a, i) \/ BeginDelete(a, i) \/ BeginApply(a, i)
      PROVE  SpecsAreOfCode'
    BY <1>5 DEF BeginUse, BeginDelete, BeginApply, Begin, Goto
<1>6. ASSUME NEW a \in Actors, NEW i \in Ids, Diff(a, i) PROVE SpecsAreOfCode'
    BY <1>1, <1>6 DEF Diff, specVars
<1>7. ASSUME NEW a \in Actors, NEW p \in Packages, WriteSpecs(a, p) PROVE SpecsAreOfCode'
  <2>1. \A c \in calm \cap Tools : at[c] \in Locking => c = a
      BY <1>7, OnlyActor DEF WriteSpecs
  <2> QED
      BY <1>7, <2>1 DEF WriteSpecs, Files
<1>8. ASSUME NEW a \in Actors, SpecsWritten(a) PROVE SpecsAreOfCode'
  <2>1. UNCHANGED <<code, int, calm>>
      BY <1>8 DEF SpecsWritten, specVars
  <2>2. \A c \in Actors \ {a} : at'[c] = at[c] /\ todo'[c] = todo[c]
      BY <1>8 DEF SpecsWritten, Goto
  <2>3. ASSUME a \in calm \cap Tools, NEW p \in Present(code) PROVE int[p] = Saved(code[p])
    <3>1. p \notin todo[a] /\ at[a] = "materialize"
        BY <1>8, <2>3, ActorsAssumption DEF SpecsWritten, ActorsFit
    <3> QED
        BY <2>3, <3>1
  <2> QED
      BY <2>1, <2>2, <2>3
<1>9. ASSUME NEW a \in Actors, at[a] \in {"check", "copyPub", "copyInt"} \/ at'[a] \notin Locking,
             \A c \in Actors \ {a} : at'[c] = at[c] /\ todo'[c] = todo[c], UNCHANGED <<code, int, calm>>
      PROVE  SpecsAreOfCode'
    BY <1>1, <1>9
<1>10. ASSUME NEW a \in Actors, NEW p \in Packages, CopyPub(a, p) \/ WritePackage(a, p)
       PROVE  SpecsAreOfCode'
    BY <1>9, <1>10 DEF CopyPub, WritePackage, Goto, specVars
<1>11. ASSUME NEW a \in Actors, LockStarts(a) \/ CopyInt(a) \/ Wipe(a) PROVE SpecsAreOfCode'
    BY <1>9, <1>11 DEF LockStarts, CopyInt, Wipe, Goto, specVars
<1>12. ASSUME NEW a \in Actors, LockFails(a) \/ WriteMeta(a) \/ Switch(a) \/ Unpoint(a) \/ Applies(a)
                                 \/ Kill(a)
       PROVE  SpecsAreOfCode'
    BY <1>9, <1>12 DEF LockFails, WriteMeta, Switch, Unpoint, Applies, Kill, Done, Goto, specVars
<1>13. ASSUME NEW a \in Actors, Use(a) \/ RemoveTarget(a) PROVE SpecsAreOfCode'
    BY <1>9, <1>13 DEF Use, RemoveTarget, Done, Goto, specVars
<1>14. CASE Deliver \/ Restart
    BY <1>1, <1>14 DEF Deliver, Restart, actorVars, specVars
<1> QED
    BY <1>2, <1>3, <1>4, <1>5, <1>6, <1>7, <1>8, <1>10, <1>11, <1>12, <1>13, <1>14 DEF Next

LEMMA CopiesStep ==
  TypeOK /\ ActorsFit /\ TargetsEmpty /\ CalmAlone /\ CopiesMatch /\ [Next]_vars => CopiesMatch'
<1> SUFFICES ASSUME TypeOK, ActorsFit, TargetsEmpty, CalmAlone, CopiesMatch, [Next]_vars
             PROVE  CopiesMatch'
    OBVIOUS
<1> USE DEF TypeOK
<1> DEFINE Copying == {"copyPub", "copyInt"}
<1>1. ASSUME UNCHANGED <<pub, int, tpub, tint, calm>>,
             \A c \in calm : at'[c] \in Copying =>
               at'[c] = at[c] /\ id'[c] = id[c] /\ todo'[c] = todo[c] /\ new'[c] = new[c]
      PROVE  CopiesMatch'
    BY <1>1 DEF CopiesMatch, Present
<1>2. CASE UNCHANGED vars
    BY <1>1, <1>2 DEF vars
<1>3. ASSUME \A c \in calm' : at'[c] \notin Copying PROVE CopiesMatch'
    BY <1>3 DEF CopiesMatch
<1>4. ASSUME NEW p \in Packages,
             DeletePackage(p) \/ \E k \in Keys : \E e \in Entries(k) : Edit(p, k, e)
      PROVE  CopiesMatch'
    BY <1>3, <1>4 DEF DeletePackage, Edit
<1>5. ASSUME NEW a \in Actors, NEW i \in Ids,
             BeginLock(a, i) \/ BeginUse(a, i) \/ BeginDelete(a, i) \/ BeginApply(a, i)
      PROVE  CopiesMatch'
    BY <1>3, <1>5 DEF BeginLock, BeginUse, BeginDelete, BeginApply, Begin, Goto
<1>6. ASSUME NEW a \in Actors, NEW i \in Ids, Diff(a, i) PROVE CopiesMatch'
    BY <1>1, <1>6 DEF Diff, specVars, targetVars
<1>7. ASSUME NEW a \in Actors, at[a] \notin Copying \cup {"idle"}, at'[a] \notin Copying, UNCHANGED calm,
             \A c \in Actors \ {a} : at'[c] = at[c]
      PROVE  CopiesMatch'
  <2>1. \A c \in calm : at'[c] \notin Copying
      BY <1>7, OnlyActor
  <2> QED
      BY <1>3, <1>7, <2>1
<1>8. ASSUME NEW a \in Actors, NEW p \in Packages, WriteSpecs(a, p) \/ WritePackage(a, p) PROVE CopiesMatch'
    BY <1>7, <1>8 DEF WriteSpecs, WritePackage
<1>9. ASSUME NEW a \in Actors, SpecsWritten(a) \/ LockFails(a) \/ Wipe(a) \/ Applies(a) PROVE CopiesMatch'
    BY <1>7, <1>9 DEF SpecsWritten, LockFails, Wipe, Applies, Done, Goto
<1>10. ASSUME NEW a \in Actors, Switch(a) \/ Unpoint(a) \/ Use(a) \/ RemoveTarget(a) PROVE CopiesMatch'
    BY <1>7, <1>10 DEF Switch, Unpoint, Use, RemoveTarget, Done, Goto
<1>11. ASSUME NEW a \in Actors, WriteMeta(a) \/ Kill(a) PROVE CopiesMatch'
    BY <1>1, <1>11 DEF WriteMeta, Kill, Done, Goto, specVars, targetVars
<1>12. ASSUME NEW a \in Actors, LockStarts(a) PROVE CopiesMatch'
  <2>1. \A c \in calm : at'[c] \in Copying => c = a
      BY <1>12, OnlyActor DEF LockStarts, Goto
  <2>2. id[a] \in Ids /\ tpub[id[a]] = NoFiles /\ tint[id[a]] = NoFiles
      BY <1>12 DEF LockStarts, ActorsFit, TargetsEmpty
  <2>3. /\ at'[a] = "copyPub" /\ todo'[a] = Present(pub) \cup Present(int) /\ todo'[a] # {}
        /\ UNCHANGED <<pub, int, tpub, tint, id, calm>>
      BY <1>12 DEF LockStarts, Goto, specVars
  <2> QED
      BY <2>1, <2>2, <2>3 DEF CopiesMatch, NoFiles, Present
<1>13. ASSUME NEW a \in Actors, NEW q \in Packages, CopyPub(a, q) PROVE CopiesMatch'
  <2>1. \A c \in calm : at'[c] \in Copying => c = a
      BY <1>13, OnlyActor DEF CopyPub, Goto
  <2>2. id[a] \in Ids /\ at'[a] = "copyInt" /\ todo'[a] = {q} \cup todo[a]
      BY <1>13 DEF CopyPub, ActorsFit, Goto
  <2>3. \A p \in Packages : new'[a][p] # None => p = q
      BY <1>13 DEF CopyPub, NoFiles
  <2>4. /\ UNCHANGED <<pub, int, tint, id, calm>>
        /\ tpub'[id[a]][q] = IF pub[q] # None THEN pub[q] ELSE tpub[id[a]][q]
        /\ \A p \in Packages \ {q} : tpub'[id[a]][p] = tpub[id[a]][p]
      BY <1>13, <2>2 DEF CopyPub, Files, specVars
  <2>5. SUFFICES ASSUME a \in calm, NEW p \in Packages
                 PROVE  /\ Present(pub) \cup Present(int) # {}
                        /\ tpub'[id[a]][p] \in {None, pub[p]} /\ tint[id[a]][p] \in {None, int[p]}
                        /\ p \notin todo'[a] => tpub'[id[a]][p] = pub[p] /\ tint[id[a]][p] = int[p]
                        /\ new'[a][p] # None => tpub'[id[a]][p] = pub[p]
      BY <2>1, <2>2, <2>4, PackagesAssumption DEF CopiesMatch, Present
  <2>6. /\ Present(pub) \cup Present(int) # {}
        /\ tpub[id[a]][p] \in {None, pub[p]} /\ tint[id[a]][p] \in {None, int[p]}
        /\ p \notin todo[a] => tpub[id[a]][p] = pub[p] /\ tint[id[a]][p] = int[p]
      BY <1>13, <2>5 DEF CopyPub, CopiesMatch
  <2>7. CASE p = q
      BY <2>2, <2>4, <2>6, <2>7
  <2>8. CASE p # q
      BY <2>2, <2>3, <2>4, <2>6, <2>8
  <2> QED
      BY <2>7, <2>8
<1>14. ASSUME NEW a \in Actors, CopyInt(a) PROVE CopiesMatch'
  <2>1. \A c \in calm : at'[c] \in Copying => c = a
      BY <1>14, OnlyActor DEF CopyInt, Goto
  <2>2. id[a] \in Ids /\ at'[a] = "copyPub"
      BY <1>14 DEF CopyInt, ActorsFit, Goto
  <2>3. PICK q \in Present(new[a]) : /\ tint' = [tint EXCEPT ![id[a]][q] = IF int[q] # None THEN int[q] ELSE @]
                                    /\ todo' = [todo EXCEPT ![a] = @ \ {q}]
      BY <1>14 DEF CopyInt
  <2>4. /\ q \in Packages /\ UNCHANGED <<pub, int, tpub, id, calm>>
        /\ tint'[id[a]][q] = IF int[q] # None THEN int[q] ELSE tint[id[a]][q]
        /\ \A p \in Packages \ {q} : tint'[id[a]][p] = tint[id[a]][p]
      BY <1>14, <2>2, <2>3 DEF CopyInt, Present, Files, specVars
  <2>5. SUFFICES ASSUME a \in calm, NEW p \in Packages
                 PROVE  /\ Present(pub) \cup Present(int) # {}
                        /\ tpub[id[a]][p] \in {None, pub[p]} /\ tint'[id[a]][p] \in {None, int[p]}
                        /\ p \notin todo'[a] => tpub[id[a]][p] = pub[p] /\ tint'[id[a]][p] = int[p]
      BY <2>1, <2>2, <2>4, PackagesAssumption DEF CopiesMatch, Present
  <2>6. /\ Present(pub) \cup Present(int) # {}
        /\ tpub[id[a]][p] \in {None, pub[p]} /\ tint[id[a]][p] \in {None, int[p]}
        /\ p \notin todo[a] => tpub[id[a]][p] = pub[p] /\ tint[id[a]][p] = int[p]
        /\ p = q => tpub[id[a]][p] = pub[p]
      BY <1>14, <2>3, <2>5 DEF CopyInt, CopiesMatch, Present
  <2> QED
      BY <2>3, <2>4, <2>6
<1>15. CASE Deliver \/ Restart
    BY <1>1, <1>15 DEF Deliver, Restart, actorVars, specVars, targetVars
<1> QED
    BY <1>2, <1>4, <1>5, <1>6, <1>8, <1>9, <1>10, <1>11, <1>12, <1>13, <1>14, <1>15 DEF Next

LEMMA WritesStep ==
  TypeOK /\ ActorsFit /\ EntriesAreUniform /\ CalmAlone /\ WritesMatch /\ [Next]_vars => WritesMatch'
<1> SUFFICES ASSUME TypeOK, ActorsFit, EntriesAreUniform, CalmAlone, WritesMatch, [Next]_vars
             PROVE  WritesMatch'
    OBVIOUS
<1> USE DEF TypeOK
<1> DEFINE Applying == {"wipe", "write"}
<1>1. ASSUME UNCHANGED <<code, pub, int, tpub, tint, calm>>,
             \A c \in calm : at'[c] \in Applying =>
               at'[c] = at[c] /\ id'[c] = id[c] /\ todo'[c] = todo[c] /\ new'[c] = new[c]
      PROVE  WritesMatch'
  <2>1. \A c \in Actors : Current(c)' = Current(c)
      BY <1>1 DEF Current, Present, Loaded
  <2>2. ASSUME NEW c \in calm, at'[c] \in Applying
        PROVE  /\ at'[c] = at[c] /\ id'[c] = id[c] /\ todo'[c] = todo[c]
               /\ Reread(new[c])' = Reread(new[c]) /\ PlainModel(Current(c))' = PlainModel(Current(c))
               /\ Matches(Current(c), Reread(new[c]))' = Matches(Current(c), Reread(new[c]))
    <3>1. new'[c] = new[c] /\ Current(c)' = Current(c)
        BY <1>1, <2>1, <2>2
    <3> QED
        BY <1>1, <2>2, <3>1 DEF Reread, PlainModel, Matches
  <2> QED
      BY <1>1, <2>2 DEF WritesMatch
<1>2. CASE UNCHANGED vars
    BY <1>1, <1>2 DEF vars
<1>3. ASSUME \A c \in calm' : at'[c] \notin Applying PROVE WritesMatch'
    BY <1>3 DEF WritesMatch
<1>4. ASSUME NEW p \in Packages,
             DeletePackage(p) \/ \E k \in Keys : \E e \in Entries(k) : Edit(p, k, e)
      PROVE  WritesMatch'
    BY <1>3, <1>4 DEF DeletePackage, Edit
<1>5. ASSUME NEW a \in Actors, NEW i \in Ids, BeginLock(a, i) \/ BeginUse(a, i) \/ BeginDelete(a, i)
      PROVE  WritesMatch'
    BY <1>3, <1>5 DEF BeginLock, BeginUse, BeginDelete, Begin, Goto
<1>6. ASSUME NEW a \in Actors, NEW i \in Ids, BeginApply(a, i) PROVE WritesMatch'
  <2> DEFINE cur == Current(a)
             tgt == Target(i)
  <2>1. UNCHANGED <<code, pub, int>> /\ calm' \subseteq {a} /\ at'[a] = "wipe"
      BY <1>6 DEF BeginApply, Goto, specVars
  <2>2. Current(a)' = cur
      BY <2>1 DEF Current, Present, Loaded
  <2>3. new'[a] = IF patch = {} THEN tgt ELSE Applied(patch, cur, tgt)
      BY <1>6 DEF BeginApply
  <2>4. ASSUME a \in calm', PlainModel(cur) PROVE Matches(cur, Reread(new'[a]))
    <3>1. patch = Compute(cur, tgt)
        BY <1>6, <2>4 DEF BeginApply, Fresh
    <3>2. cur \in Files /\ tgt \in Files
        BY CurrentFiles, TargetFiles
    <3>3. Single(tgt)
        BY <1>6, <2>4 DEF BeginApply, Fresh, Single, Present
    <3>4. Uniform(cur)
        BY DEF Current, Loaded, EntriesAreUniform, Uniform
    <3> QED
        BY <2>3, <2>4, <3>1, <3>2, <3>3, <3>4, FreshDiffIsCleared
  <2>5. Reread(new'[a]) = Reread(new[a])'
      BY DEF Reread
  <2> QED
      BY <2>1, <2>2, <2>4, <2>5 DEF WritesMatch
<1>7. ASSUME NEW a \in Actors, NEW i \in Ids, Diff(a, i) PROVE WritesMatch'
    BY <1>1, <1>7 DEF Diff, specVars, targetVars
<1>8. ASSUME NEW a \in Actors, at[a] \notin Applying \cup {"idle"}, at'[a] \notin Applying, UNCHANGED calm,
             \A c \in Actors \ {a} : at'[c] = at[c]
      PROVE  WritesMatch'
  <2>1. \A c \in calm : at'[c] \notin Applying
      BY <1>8, OnlyActor
  <2> QED
      BY <1>3, <1>8, <2>1
<1>9. ASSUME NEW a \in Actors, NEW p \in Packages, WriteSpecs(a, p) \/ CopyPub(a, p) PROVE WritesMatch'
    BY <1>8, <1>9 DEF WriteSpecs, CopyPub, Goto
<1>10. ASSUME NEW a \in Actors, SpecsWritten(a) \/ LockFails(a) \/ LockStarts(a) \/ CopyInt(a) \/ WriteMeta(a)
       PROVE  WritesMatch'
    BY <1>8, <1>10 DEF SpecsWritten, LockFails, LockStarts, CopyInt, WriteMeta, Done, Goto
<1>11. ASSUME NEW a \in Actors, Switch(a) \/ Unpoint(a) \/ Use(a) \/ RemoveTarget(a) PROVE WritesMatch'
    BY <1>8, <1>11 DEF Switch, Unpoint, Use, RemoveTarget, Done, Goto
<1>12. ASSUME NEW a \in Actors, Applies(a) \/ Kill(a) PROVE WritesMatch'
    BY <1>1, <1>12 DEF Applies, Kill, Done, Goto, specVars, targetVars
<1>13. ASSUME NEW a \in Actors, Wipe(a) PROVE WritesMatch'
  <2>1. \A c \in calm : at'[c] \in Applying => c = a
      BY <1>13, OnlyActor DEF Wipe, Goto
  <2>2. id[a] \in Ids /\ at'[a] = "write" /\ todo[a] = Present(new[a])
      BY <1>13 DEF Wipe, ActorsFit, Goto
  <2>3. /\ UNCHANGED <<code, pub, int, id, todo, new, calm>>
        /\ tpub'[id[a]] = NoFiles /\ tint'[id[a]] = NoFiles
      BY <1>13, <2>2 DEF Wipe, specVars
  <2>4. Current(a)' = Current(a)
      BY <2>3 DEF Current, Present, Loaded
  <2>5. \A p \in Packages : p \notin todo[a] => Reread(new[a])[p] = None
      BY <2>2 DEF Present, Reread
  <2>6. a \in calm /\ PlainModel(Current(a)) => Matches(Current(a), Reread(new[a]))
      BY <1>13 DEF Wipe, WritesMatch
  <2> QED
      BY <2>1, <2>2, <2>3, <2>4, <2>5, <2>6 DEF WritesMatch, NoFiles, Reread
<1>14. ASSUME NEW a \in Actors, NEW q \in Packages, WritePackage(a, q) PROVE WritesMatch'
  <2>1. \A c \in calm : at'[c] \in Applying => c = a
      BY <1>14, OnlyActor DEF WritePackage
  <2>2. id[a] \in Ids /\ at[a] = "write" /\ new[a][q] # None
      BY <1>14 DEF WritePackage, ActorsFit, Present
  <2>3. /\ UNCHANGED <<code, pub, int, tpub, at, id, new, calm>>
        /\ tint'[id[a]][q] = Saved(new[a][q]) /\ todo'[a] = todo[a] \ {q}
        /\ \A p \in Packages \ {q} : tint'[id[a]][p] = tint[id[a]][p]
      BY <1>14, <2>2 DEF WritePackage, Files, specVars
  <2>4. Current(a)' = Current(a)
      BY <2>3 DEF Current, Present, Loaded
  <2>5. Reread(new[a])[q] = Saved(new[a][q])
      BY <2>2 DEF Reread
  <2>6. a \in calm => /\ PlainModel(Current(a)) => Matches(Current(a), Reread(new[a]))
                     /\ tpub[id[a]] = NoFiles
                     /\ \A p \in Packages : p \notin todo[a] => tint[id[a]][p] = Reread(new[a])[p]
      BY <2>2 DEF WritesMatch
  <2>7. a \in calm => \A p \in Packages : p \notin todo'[a] => tint'[id[a]][p] = Reread(new[a])[p]
      BY <2>3, <2>5, <2>6
  <2>8. NoFiles' = NoFiles /\ Reread(new[a])' = Reread(new[a])
      BY <2>3 DEF Reread, NoFiles
  <2> QED
      BY <2>1, <2>2, <2>3, <2>4, <2>6, <2>7, <2>8 DEF WritesMatch
<1>15. CASE Deliver \/ Restart
    BY <1>1, <1>15 DEF Deliver, Restart, actorVars, specVars, targetVars
<1> QED
    BY <1>2, <1>4, <1>5, <1>6, <1>7, <1>9, <1>10, <1>11, <1>12, <1>13, <1>14, <1>15 DEF Next

-----------------------------------------------------------------------------
LEMMA InitInvariant == Init => IInv
<1> SUFFICES ASSUME Init PROVE IInv
    OBVIOUS
<1>1. TypeOK
    BY InitTypes
<1>2. ActorsFit /\ DeletesWatch /\ CurrentIsATarget
    BY DEF Init, ActorsFit, DeletesWatch, CurrentIsATarget
<1>3. TargetsEmpty
    BY DEF Init, TargetsEmpty
<1>4. EntriesAreUniform
  <2>1. Uniform(code)
    <3> SUFFICES ASSUME NEW p \in Packages, NEW k \in Keys, code[p][k] # <<>>
                 PROVE  First(code[p][k]) = LastOf(code[p][k])
        BY DEF Uniform
    <3>1. code[p][k] \in Entries(k)
        BY DEF Init
    <3> QED
        BY <3>1, EntryUniform
  <2>2. Uniform(pub) /\ Uniform(int)
      BY DEF Init, NoFiles, Uniform
  <2> QED
      BY <2>1, <2>2 DEF EntriesAreUniform
<1>5. CalmAlone /\ SpecsAreOfCode /\ CopiesMatch /\ WritesMatch
    BY DEF Init, CalmAlone, SpecsAreOfCode, CopiesMatch, WritesMatch
<1> QED
    BY <1>1, <1>2, <1>3, <1>4, <1>5 DEF IInv

LEMMA InvariantStep == IInv /\ [Next]_vars => IInv'
BY TypeStep, ActorsStep, DeletesStep, CurrentStep, EmptyStep, UniformStep, CalmStep, SpecsStep,
   CopiesStep, WritesStep DEF IInv

THEOREM Invariance == Spec => []IInv
BY InitInvariant, InvariantStep, PTL DEF Spec

(* Every call, run and file of every state of the model is one the code may have. *)
THEOREM TypeCorrect == Spec => []TypeOK
<1>1. IInv => TypeOK
    BY DEF IInv
<1> QED
    BY <1>1, Invariance, PTL

(* CURRENT names a target, however tools and commands interleave, unless the target was *)
(* being deleted while it was chosen or a forced delete was killed (Use, Delete).        *)
THEOREM CurrentIsATargetHolds == Spec => []CurrentIsATarget
<1>1. IInv => CurrentIsATarget
    BY DEF IInv
<1> QED
    BY <1>1, Invariance, PTL

-----------------------------------------------------------------------------
(* A target that was locked without anything in between matches the code. *)

LEMMA LockedStep ==
  ASSUME IInv, NEW a \in Actors, WriteMeta(a), a \in calm
  PROVE  \/ Compute(Current(a), Target(id[a])) = {}
         \/ a \in Tools /\ (~Plain(a) \/ Present(pub) # {} \/ Present(int) # Present(code))
<1>1. TypeOK /\ ActorsFit /\ SpecsAreOfCode /\ CopiesMatch
    BY DEF IInv
<1>2. at[a] = "copyPub" /\ todo[a] = {} /\ id[a] \in Ids
    BY <1>1 DEF WriteMeta, ActorsFit
<1>3. Present(pub) \cup Present(int) # {}
    BY <1>1, <1>2 DEF CopiesMatch
<1>4. \A p \in Packages : tpub[id[a]][p] = pub[p] /\ tint[id[a]][p] = int[p]
    BY <1>1, <1>2 DEF CopiesMatch
<1>5. Target(id[a]) = Loaded(pub, int)
    BY <1>4 DEF Target, Loaded
<1>6. CASE a \in Commands
  <2>1. Current(a) = Loaded(pub, int)
      BY <1>3, <1>6 DEF Current
  <2>2. Matches(Current(a), Target(id[a]))
      BY <1>5, <2>1 DEF Matches, EntriesMatch
  <2> QED
      BY <2>2, MatchingModels
<1>7. CASE a \in Tools /\ Plain(a) /\ Present(pub) = {} /\ Present(int) = Present(code)
  <2>1. Current(a) = code
      BY <1>7, ActorsAssumption DEF Current
  <2>2. Loaded(pub, int) = [p \in Packages |-> int[p]]
      BY <1>7 DEF Loaded, Present
  <2>3. ASSUME NEW p \in Packages PROVE int[p] = code[p]
    <3>1. CASE code[p] = None
        BY <1>7, <3>1 DEF Present
    <3>2. CASE code[p] # None
      <4>1. int[p] = Saved(code[p])
          BY <1>1, <1>2, <1>7, <3>2 DEF SpecsAreOfCode, Present
      <4>2. Saved(code[p]) = code[p]
          BY <1>7, <2>1, <3>2 DEF Plain, Present
      <4> QED
          BY <4>1, <4>2
    <3> QED
        BY <3>1, <3>2
  <2>4. Matches(Current(a), Target(id[a]))
      BY <1>5, <2>1, <2>2, <2>3 DEF Matches, EntriesMatch
  <2> QED
      BY <2>4, MatchingModels
<1> QED
    BY <1>6, <1>7 DEF Actors

(* Locked by a command, a target has no drift; locked by a tool, none if YAML holds the  *)
(* code as it is and there were no specs but those of its packages (Lock).               *)
THEOREM LockedTargetsMatchHolds == Spec => LockedTargetsMatch
<1>1. IInv => \A a \in Actors :
                WriteMeta(a) /\ a \in calm
                  => \/ Compute(Current(a), Target(id[a])) = {}
                     \/ a \in Tools /\ (~Plain(a) \/ Present(pub) # {} \/ Present(int) # Present(code))
    BY LockedStep
<1> QED
    BY <1>1, Invariance, PTL DEF LockedTargetsMatch

LEMMA AppliedStep ==
  ASSUME IInv, NEW a \in Actors, Applies(a), a \in calm, Plain(a)
  PROVE  Compute(Current(a), Target(id[a])) = {}
<1>1. TypeOK /\ ActorsFit /\ WritesMatch
    BY DEF IInv
<1>2. at[a] = "write" /\ todo[a] = {} /\ id[a] \in Ids
    BY <1>1 DEF Applies, ActorsFit
<1>3. PlainModel(Current(a))
    BY DEF Plain, PlainModel, Present
<1>4. Matches(Current(a), Reread(new[a]))
    BY <1>1, <1>2, <1>3 DEF WritesMatch
<1>5. tpub[id[a]] = NoFiles /\ \A p \in Packages : tint[id[a]][p] = Reread(new[a])[p]
    BY <1>1, <1>2 DEF WritesMatch
<1>6. Target(id[a]) = Reread(new[a])
  <2>1. Target(id[a]) = [p \in Packages |-> Reread(new[a])[p]]
      BY <1>5 DEF Target, Loaded, NoFiles
  <2> QED
      BY <2>1 DEF Reread
<1> QED
    BY <1>4, <1>6, MatchingModels

(* Applying a fresh diff that nothing overlaps takes the drift of a target away, on disk *)
(* and for whoever applied it (apply.go, writeTargetModels).                             *)
THEOREM AppliedDiffIsGoneHolds == Spec => AppliedDiffIsGone
<1>1. IInv => \A a \in Actors :
                Applies(a) /\ a \in calm /\ Plain(a) => Compute(Current(a), Target(id[a])) = {}
    BY AppliedStep
<1> QED
    BY <1>1, Invariance, PTL DEF AppliedDiffIsGone

(***************************************************************************)
(* Gates.                                                                  *)
(***************************************************************************)
(* Induction over the natural numbers, for a set in place of a predicate.  *)

LEMMA LeastNumber ==
  ASSUME NEW T \in SUBSET Nat, T # {}
  PROVE  \E x \in T : \A y \in T : ~(y < x)
<1> DEFINE R == {ss \in Nat \X Nat : ss[1] < ss[2]}
<1>1. IsWellFoundedOn(R, Nat)
    BY NatLessThanWellFounded DEF OpToRel
<1>2. \E x \in T : \A y \in T : ~(<<y, x>> \in R)
  <2> HIDE DEF R
  <2> QED BY <1>1, WFMin, Zenon
<1> QED BY <1>2 DEF R

LEMMA SetInduction ==
  ASSUME NEW T, 0 \in T, \A n \in Nat : n \in T => n + 1 \in T
  PROVE  \A n \in Nat : n \in T
<1> SUFFICES ASSUME Nat \ T # {} PROVE FALSE
    OBVIOUS
<1>1. PICK x \in Nat \ T : \A y \in Nat \ T : ~(y < x)
    BY LeastNumber
<1>2. x # 0 /\ x - 1 \in Nat /\ x - 1 < x /\ (x - 1) + 1 = x
    BY <1>1
<1> QED BY <1>1, <1>2

-----------------------------------------------------------------------------
(* The search, step by step. *)

N == Len(PkgOrder)
Start(src) == [queue |-> <<<<src>>>>, visited |-> {src}, found |-> <<>>]
HeadAt(k) == 1 + ((k - 1) \div N)
NeighborAt(k) == 1 + ((k - 1) % N)
Moved(edges, src, targets, excluded, s, k) ==
  IF HeadAt(k) > Len(s.queue) THEN s
  ELSE Look(edges, src, targets, excluded, s, HeadAt(k), PkgOrder[NeighborAt(k)])

IsRun(edges, src, targets, excluded, m, run) ==
  run = [k \in 0 .. m |-> IF k = 0 THEN Start(src)
                          ELSE Moved(edges, src, targets, excluded, run[k - 1], k)]

LEMMA RunExists ==
  ASSUME NEW edges, NEW src, NEW targets, NEW excluded
  PROVE  \A m \in Nat : \E run : IsRun(edges, src, targets, excluded, m, run)
<1> DEFINE T == {m \in Nat : \E run : IsRun(edges, src, targets, excluded, m, run)}
<1>1. 0 \in T
  <2> DEFINE run == [k \in 0 .. 0 |-> Start(src)]
  <2>1. IsRun(edges, src, targets, excluded, 0, run)
      BY DEF IsRun
  <2> QED BY <2>1
<1>2. ASSUME NEW m \in Nat, m \in T PROVE m + 1 \in T
  <2>1. PICK old : IsRun(edges, src, targets, excluded, m, old)
      BY <1>2
  <2> DEFINE run == [k \in 0 .. m + 1 |->
                       IF k = m + 1 THEN Moved(edges, src, targets, excluded, old[m], k) ELSE old[k]]
  <2>2. \A k \in 0 .. m + 1 :
          run[k] = IF k = 0 THEN Start(src) ELSE Moved(edges, src, targets, excluded, run[k - 1], k)
    <3> SUFFICES ASSUME NEW k \in 0 .. m + 1
                 PROVE  run[k] = IF k = 0 THEN Start(src)
                                 ELSE Moved(edges, src, targets, excluded, run[k - 1], k)
        OBVIOUS
    <3>1. CASE k = m + 1
        BY <3>1
    <3>2. CASE k \in 0 .. m
        BY <2>1, <3>2 DEF IsRun
    <3> QED BY <3>1, <3>2
  <2>3. IsRun(edges, src, targets, excluded, m + 1, run)
    <3> HIDE DEF run
    <3>1. run = [k \in 0 .. m + 1 |-> run[k]]
        BY DEF run
    <3> QED BY <2>2, <3>1 DEF IsRun
  <2> QED BY <2>3
<1> HIDE DEF T
<1>3. \A m \in Nat : m \in T
    BY <1>1, <1>2, SetInduction
<1> QED BY <1>3 DEF T

LEMMA SearchSteps ==
  ASSUME NEW edges, NEW src, NEW targets, NEW excluded, N \in Nat
  PROVE  LET run == Search(edges, src, targets, excluded)
         IN  /\ run[0] = Start(src)
             /\ \A k \in 1 .. N * N : run[k] = Moved(edges, src, targets, excluded, run[k - 1], k)
<1> DEFINE run == Search(edges, src, targets, excluded)
<1>1. run = CHOOSE r : IsRun(edges, src, targets, excluded, N * N, r)
    BY DEF Search, IsRun, Moved, Start, N, HeadAt, NeighborAt
<1>2. N * N \in Nat
    OBVIOUS
<1> HIDE DEF run
<1>3. IsRun(edges, src, targets, excluded, N * N, run)
    BY <1>1, <1>2, RunExists
<1>4. /\ run[0] = Start(src)
      /\ \A k \in 1 .. N * N : run[k] = Moved(edges, src, targets, excluded, run[k - 1], k)
    BY <1>2, <1>3 DEF IsRun
<1> QED BY <1>4 DEF run

(* Which pairs of a package in the queue and a neighbour have been looked at. *)
LEMMA Positions ==
  ASSUME NEW n \in Nat \ {0}, NEW k \in Nat \ {0}
  PROVE  LET h == 1 + ((k - 1) \div n)
             j == 1 + ((k - 1) % n)
         IN  /\ h \in Nat \ {0} /\ j \in 1 .. n
             /\ k = (h - 1) * n + j
<1> DEFINE q == (k - 1) \div n
           r == (k - 1) % n
<1>1. q \in Nat /\ r \in 0 .. n - 1 /\ k - 1 = n * q + r
    BY Z3
<1> HIDE DEF q, r
<1>2. n * q = q * n
    BY <1>1
<1>3. k = ((1 + q) - 1) * n + (1 + r)
    BY <1>1, <1>2
<1> QED BY <1>1, <1>3 DEF q, r

LEMMA Times ==
  ASSUME NEW n \in Nat, NEW a \in Nat, NEW b \in Nat, a <= b
  PROVE  a * n <= b * n
BY Z3

LEMMA LookedAt ==
  ASSUME NEW n \in Nat \ {0}, NEW h \in Nat \ {0}, NEW j \in 1 .. n,
         NEW i \in Nat \ {0}, NEW l \in 1 .. n
  PROVE  /\ (i - 1) * n + l <= (h - 1) * n + j <=> (i < h \/ (i = h /\ l <= j))
         /\ (i - 1) * n + l <= (h - 1) * n + j - 1 <=> (i < h \/ (i = h /\ l < j))
<1>1. CASE i < h
  <2>1. i * n <= (h - 1) * n
      BY <1>1, Times
  <2>2. (i - 1) * n = i * n - n
      OBVIOUS
  <2>3. i * n \in Nat /\ (h - 1) * n \in Nat
      OBVIOUS
  <2> QED BY <1>1, <2>1, <2>2, <2>3
<1>2. CASE i = h
  <2>1. (h - 1) * n \in Nat
      OBVIOUS
  <2> QED BY <1>2, <2>1
<1>3. CASE i > h
  <2>1. h * n <= (i - 1) * n
      BY <1>3, Times
  <2>2. (h - 1) * n = h * n - n
      OBVIOUS
  <2>3. h * n \in Nat /\ (i - 1) * n \in Nat
      OBVIOUS
  <2> QED BY <1>3, <2>1, <2>2, <2>3
<1> QED BY <1>1, <1>2, <1>3

-----------------------------------------------------------------------------
(* What holds of the search at every step. *)

Avoiding(edges, excluded) == {e \in edges : e[1] \notin excluded /\ e[2] \notin excluded}
IsPath(edges, excluded, src, p) ==
  /\ p \in Seq(AllPackages) /\ p # <<>> /\ p[1] = src
  /\ \A i \in 1 .. Len(p) - 1 : <<p[i], p[i + 1]>> \in Avoiding(edges, excluded)
SearchInput(edges, src, excluded) ==
  edges \subseteq AllPackages \X AllPackages /\ src \in AllPackages /\ src \notin excluded

States == [queue : Seq(Seq(AllPackages)), visited : SUBSET AllPackages, found : Seq(AllPackages)]
QueueFits(edges, src, excluded, s) ==
  /\ Len(s.queue) >= 1 /\ s.queue[1] = <<src>>
  /\ \A i \in 1 .. Len(s.queue) : IsPath(edges, excluded, src, s.queue[i])
  /\ \A i, j \in 1 .. Len(s.queue) : Last(s.queue[i]) = Last(s.queue[j]) => i = j
FoundFits(edges, src, targets, excluded, s) ==
  s.found # <<>> => /\ IsPath(edges, excluded, src, s.found)
                    /\ Last(s.found) \in targets \ {src}
VisitedFits(src, targets, excluded, s) ==
  s.found = <<>> => /\ s.visited = {Last(s.queue[i]) : i \in 1 .. Len(s.queue)}
                    /\ s.visited \cap targets \subseteq {src}
                    /\ s.visited \cap excluded = {}
\* A neighbour of a package of the queue that was looked at has been visited.
Explored(edges, excluded, s, k) ==
  s.found = <<>> =>
    \A i \in 1 .. Len(s.queue), l \in 1 .. N :
      (i - 1) * N + l <= k /\ <<Last(s.queue[i]), PkgOrder[l]>> \in edges =>
        PkgOrder[l] \in s.visited \cup excluded
SearchInv(edges, src, targets, excluded, s, k) ==
  /\ s \in States
  /\ QueueFits(edges, src, excluded, s)
  /\ FoundFits(edges, src, targets, excluded, s)
  /\ VisitedFits(src, targets, excluded, s)
  /\ Explored(edges, excluded, s, k)

LEMMA Order ==
  /\ N \in Nat /\ PkgOrder \in Seq(AllPackages)
  /\ \A i \in 1 .. N : PkgOrder[i] \in AllPackages
  /\ \A p \in AllPackages : \E i \in 1 .. N : PkgOrder[i] = p
  /\ IsFiniteSet(AllPackages) /\ Cardinality(AllPackages) <= N
<1>1. PkgOrder \in Seq(AllPackages) /\ AllPackages = {PkgOrder[i] : i \in 1 .. N} /\ N \in Nat
    BY PkgOrderAssumption DEF ToSet, N
<1>2. IsFiniteSet(1 .. N) /\ Cardinality(1 .. N) = N
    BY <1>1, FS_Interval
<1> DEFINE f == [i \in 1 .. N |-> PkgOrder[i]]
<1>3. f \in Surjection(1 .. N, AllPackages)
    BY <1>1 DEF Surjection
<1>4. IsFiniteSet(AllPackages) /\ Cardinality(AllPackages) <= N
  <2> HIDE DEF f
  <2> QED BY <1>2, <1>3, FS_Surjection
<1> QED BY <1>1, <1>4

LEMMA LastOfAppend ==
  ASSUME NEW S, NEW p \in Seq(S), NEW n \in S
  PROVE  /\ Append(p, n) \in Seq(S) /\ Append(p, n) # <<>> /\ Last(Append(p, n)) = n
         /\ Len(Append(p, n)) = Len(p) + 1
         /\ \A i \in 1 .. Len(p) : Append(p, n)[i] = p[i]
         /\ Append(p, n)[Len(p) + 1] = n
BY DEF Last

LEMMA PathGrows ==
  ASSUME NEW edges, NEW excluded, NEW src, NEW p, IsPath(edges, excluded, src, p),
         NEW n \in AllPackages, <<Last(p), n>> \in Avoiding(edges, excluded)
  PROVE  IsPath(edges, excluded, src, Append(p, n))
<1>1. /\ p \in Seq(AllPackages) /\ p # <<>> /\ Len(p) \in Nat \ {0} /\ p[1] = src
    BY DEF IsPath
<1> DEFINE q == Append(p, n)
<1>2. /\ q \in Seq(AllPackages) /\ q # <<>> /\ Len(q) = Len(p) + 1
      /\ \A i \in 1 .. Len(p) : q[i] = p[i]
      /\ q[Len(p) + 1] = n
    BY <1>1, LastOfAppend
<1>3. p[Len(p)] = Last(p)
    BY DEF Last
<1> HIDE DEF q
<1>4. ASSUME NEW i \in 1 .. Len(q) - 1 PROVE <<q[i], q[i + 1]>> \in Avoiding(edges, excluded)
  <2>1. CASE i = Len(p)
      BY <1>1, <1>2, <1>3, <2>1
  <2>2. CASE i < Len(p)
      BY <1>1, <1>2, <2>2 DEF IsPath
  <2> QED BY <1>1, <1>2, <2>1, <2>2
<1>5. q[1] = src
    BY <1>1, <1>2
<1>6. IsPath(edges, excluded, src, q)
    BY <1>2, <1>4, <1>5 DEF IsPath
<1> QED BY <1>6 DEF q

LEMMA SearchStarts ==
  ASSUME NEW edges, NEW src, NEW targets, NEW excluded, SearchInput(edges, src, excluded)
  PROVE  SearchInv(edges, src, targets, excluded, Start(src), 0)
<1> DEFINE s == Start(src)
<1>1. s \in States /\ Len(s.queue) = 1 /\ s.queue[1] = <<src>> /\ s.found = <<>> /\ s.visited = {src}
    BY DEF Start, States, SearchInput
<1>2. Last(<<src>>) = src
    BY DEF Last
<1>3. IsPath(edges, excluded, src, <<src>>)
    BY DEF IsPath, SearchInput
<1> HIDE DEF s
<1>4. QueueFits(edges, src, excluded, s)
    BY <1>1, <1>3 DEF QueueFits
<1>5. VisitedFits(src, targets, excluded, s)
    BY <1>1, <1>2 DEF VisitedFits, SearchInput
<1>6. FoundFits(edges, src, targets, excluded, s)
    BY <1>1 DEF FoundFits
<1>7. Explored(edges, excluded, s, 0)
    BY <1>1, Order DEF Explored
<1>8. SearchInv(edges, src, targets, excluded, s, 0)
    BY <1>1, <1>4, <1>5, <1>6, <1>7 DEF SearchInv
<1> QED BY <1>8 DEF s

LEMMA StepPosition ==
  ASSUME NEW k \in Nat \ {0}, N \in Nat \ {0}
  PROVE  /\ HeadAt(k) \in Nat \ {0} /\ NeighborAt(k) \in 1 .. N
         /\ \A i \in Nat \ {0}, l \in 1 .. N :
              /\ (i - 1) * N + l <= k <=> (i < HeadAt(k) \/ (i = HeadAt(k) /\ l <= NeighborAt(k)))
              /\ (i - 1) * N + l <= k - 1 <=> (i < HeadAt(k) \/ (i = HeadAt(k) /\ l < NeighborAt(k)))
<1> DEFINE h == HeadAt(k)
           j == NeighborAt(k)
<1>1. h \in Nat \ {0} /\ j \in 1 .. N /\ k = (h - 1) * N + j
    BY Positions DEF HeadAt, NeighborAt
<1> HIDE DEF h, j
<1>2. ASSUME NEW i \in Nat \ {0}, NEW l \in 1 .. N
      PROVE  /\ (i - 1) * N + l <= k <=> (i < h \/ (i = h /\ l <= j))
             /\ (i - 1) * N + l <= k - 1 <=> (i < h \/ (i = h /\ l < j))
  <2>1. /\ (i - 1) * N + l <= (h - 1) * N + j <=> (i < h \/ (i = h /\ l <= j))
        /\ (i - 1) * N + l <= (h - 1) * N + j - 1 <=> (i < h \/ (i = h /\ l < j))
      BY <1>1, LookedAt
  <2> QED BY <1>1, <2>1
<1> QED BY <1>1, <1>2 DEF h, j

(* A package that is not visited yet: the search ends, or its path is queued. *)
LEMMA Visiting ==
  ASSUME NEW edges, NEW src, NEW targets, NEW excluded, SearchInput(edges, src, excluded),
         NEW k \in Nat \ {0}, NEW s, SearchInv(edges, src, targets, excluded, s, k - 1),
         s.found = <<>>, HeadAt(k) <= Len(s.queue),
         NEW n, n = PkgOrder[NeighborAt(k)], <<Last(s.queue[HeadAt(k)]), n>> \in edges,
         n \notin s.visited, n \notin excluded
  PROVE  SearchInv(edges, src, targets, excluded,
                   Visit(src, targets, s, Append(s.queue[HeadAt(k)], n)), k)
<1> DEFINE h == HeadAt(k)
           path == Append(s.queue[h], n)
           t == Visit(src, targets, s, path)
<1>1. /\ s \in States /\ N \in Nat \ {0}
      /\ s.queue \in Seq(Seq(AllPackages)) /\ s.visited \subseteq AllPackages
      /\ Len(s.queue) \in Nat /\ h \in 1 .. Len(s.queue)
      /\ NeighborAt(k) \in 1 .. N /\ n \in AllPackages
  <2>1. N \in Nat \ {0}
      BY Order DEF SearchInput
  <2>2. s \in States
      BY DEF SearchInv
  <2>3. s.queue \in Seq(Seq(AllPackages)) /\ s.visited \subseteq AllPackages /\ Len(s.queue) \in Nat
      BY <2>2 DEF States
  <2>4. HeadAt(k) \in Nat \ {0} /\ NeighborAt(k) \in 1 .. N
      BY <2>1, StepPosition
  <2>5. n \in AllPackages
      BY <2>4, Order
  <2>6. HeadAt(k) \in 1 .. Len(s.queue)
      BY <2>3, <2>4
  <2> QED BY <2>1, <2>2, <2>3, <2>4, <2>5, <2>6
<1>2. /\ QueueFits(edges, src, excluded, s)
      /\ s.visited = {Last(s.queue[i]) : i \in 1 .. Len(s.queue)}
      /\ s.visited \cap targets \subseteq {src}
      /\ s.visited \cap excluded = {}
    BY DEF SearchInv, VisitedFits
<1>3. IsPath(edges, excluded, src, s.queue[h]) /\ Last(s.queue[h]) \in s.visited
    BY <1>1, <1>2 DEF QueueFits
<1>4. /\ path \in Seq(AllPackages) /\ path # <<>> /\ Last(path) = n
      /\ IsPath(edges, excluded, src, path)
  <2>1. s.queue[h] \in Seq(AllPackages)
      BY <1>3 DEF IsPath
  <2>2. <<Last(s.queue[h]), n>> \in Avoiding(edges, excluded)
      BY <1>2, <1>3 DEF Avoiding
  <2>3. n \in AllPackages
      BY <1>1
  <2>4. path \in Seq(AllPackages) /\ path # <<>> /\ Last(path) = n
      BY <2>1, <2>3, LastOfAppend
  <2>5. IsPath(edges, excluded, src, path)
      BY <1>3, <2>2, <2>3, PathGrows
  <2> QED BY <2>4, <2>5
<1> HIDE DEF path, h
<1>5. CASE n # src /\ n \in targets
  <2>1. t = [queue |-> s.queue, visited |-> s.visited \cup {n}, found |-> path]
      BY <1>1, <1>4, <1>5 DEF Visit, States
  <2>2. t \in States
      BY <1>1, <1>4, <2>1 DEF States
  <2>3. t.queue = s.queue /\ t.found = path
      BY <2>1
  <2> HIDE DEF t
  <2>4. QueueFits(edges, src, excluded, t)
      BY <1>2, <2>3 DEF QueueFits
  <2>5. FoundFits(edges, src, targets, excluded, t)
      BY <1>4, <1>5, <2>3 DEF FoundFits
  <2>6. VisitedFits(src, targets, excluded, t) /\ Explored(edges, excluded, t, k)
      BY <1>4, <2>3 DEF VisitedFits, Explored
  <2>7. SearchInv(edges, src, targets, excluded, t, k)
      BY <2>2, <2>4, <2>5, <2>6 DEF SearchInv
  <2> QED BY <2>7 DEF t, path, h
<1>6. CASE ~(n # src /\ n \in targets)
  <2>1. t = [queue |-> Append(s.queue, path), visited |-> s.visited \cup {n}, found |-> <<>>]
      BY <1>1, <1>4, <1>6 DEF Visit, States
  <2> DEFINE queue == Append(s.queue, path)
             L == Len(s.queue)
  <2>0. /\ queue \in Seq(Seq(AllPackages)) /\ Len(queue) = L + 1
        /\ \A i \in 1 .. L : queue[i] = s.queue[i]
        /\ queue[L + 1] = path
    <3>1. s.queue \in Seq(Seq(AllPackages)) /\ path \in Seq(AllPackages)
        BY <1>1, <1>4
    <3> QED BY <3>1, LastOfAppend
  <2> HIDE DEF queue
  <2>2. t \in States
    <3>1. s.visited \cup {n} \in SUBSET AllPackages /\ <<>> \in Seq(AllPackages)
        BY <1>1
    <3>2. t = [queue |-> queue, visited |-> s.visited \cup {n}, found |-> <<>>]
        BY <2>1 DEF queue
    <3> HIDE DEF t
    <3> QED BY <2>0, <3>1, <3>2 DEF States
  <2>3. /\ t.found = <<>> /\ t.visited = s.visited \cup {n}
        /\ Len(t.queue) = L + 1
        /\ \A i \in 1 .. L : t.queue[i] = s.queue[i]
        /\ t.queue[L + 1] = path
      BY <2>0, <2>1 DEF queue
  <2>l. L \in Nat
      BY <1>1
  <2> HIDE DEF L
  <2>n. L \in Nat /\ 1 .. L + 1 = 1 .. L \cup {L + 1}
    <3>1. \A i : i \in 1 .. L + 1 <=> i \in 1 .. L \/ i = L + 1
        BY <2>l
    <3> QED BY <2>l, <3>1
  <2> HIDE DEF t
  <2>4. QueueFits(edges, src, excluded, t)
    <3>1. \A i \in 1 .. Len(t.queue) : IsPath(edges, excluded, src, t.queue[i])
        BY <1>2, <1>4, <2>3, <2>n DEF QueueFits, L
    <3>2. \A i \in 1 .. L : Last(t.queue[i]) \in s.visited
        BY <1>2, <2>3 DEF L
    <3>3. \A i, j \in 1 .. Len(t.queue) : Last(t.queue[i]) = Last(t.queue[j]) => i = j
      <4> SUFFICES ASSUME NEW i \in 1 .. L + 1, NEW j \in 1 .. L + 1,
                          Last(t.queue[i]) = Last(t.queue[j])
                   PROVE  i = j
          BY <2>3
      <4>1. \A m \in 1 .. L : Last(t.queue[m]) # Last(t.queue[L + 1])
          BY <1>4, <2>3, <3>2
      <4>2. CASE i \in 1 .. L /\ j \in 1 .. L
        <5>1. Last(s.queue[i]) = Last(s.queue[j])
            BY <2>3, <4>2
        <5> QED BY <1>2, <4>2, <5>1 DEF QueueFits, L
      <4>3. CASE i = L + 1 \/ j = L + 1
          BY <2>n, <4>1, <4>3
      <4> QED BY <2>n, <4>2, <4>3
    <3>4. L >= 1 /\ s.queue[1] = <<src>>
        BY <1>2 DEF QueueFits, L
    <3>5. Len(t.queue) >= 1 /\ t.queue[1] = <<src>>
        BY <2>3, <2>n, <3>4
    <3> QED BY <3>1, <3>3, <3>5 DEF QueueFits
  <2>5. FoundFits(edges, src, targets, excluded, t)
      BY <2>3 DEF FoundFits
  <2>6. VisitedFits(src, targets, excluded, t)
    <3>1. t.visited = {Last(t.queue[i]) : i \in 1 .. Len(t.queue)}
      <4>1. {Last(t.queue[i]) : i \in 1 .. L + 1} = {Last(t.queue[i]) : i \in 1 .. L} \cup {n}
          BY <1>4, <2>3, <2>n
      <4>2. {Last(t.queue[i]) : i \in 1 .. L} = {Last(s.queue[i]) : i \in 1 .. L}
          BY <2>3
      <4> QED BY <1>2, <2>3, <4>1, <4>2 DEF L
    <3> QED BY <1>2, <1>6, <2>3, <3>1 DEF VisitedFits
  <2>7. Explored(edges, excluded, t, k)
    <3> SUFFICES ASSUME NEW i \in 1 .. Len(t.queue), NEW l \in 1 .. N, (i - 1) * N + l <= k,
                        <<Last(t.queue[i]), PkgOrder[l]>> \in edges
                 PROVE  PkgOrder[l] \in t.visited \cup excluded
        BY DEF Explored
    <3>0. N \in Nat \ {0} /\ i \in Nat \ {0} /\ h \in 1 .. L /\ NeighborAt(k) \in 1 .. N
        BY <1>1, <2>3, <2>n DEF L
    <3>1. i < h \/ (i = h /\ l <= NeighborAt(k))
        BY <3>0, StepPosition DEF h
    <3>2. i \in 1 .. L /\ t.queue[i] = s.queue[i]
      <4>1. i \in 1 .. L
          BY <2>n, <3>0, <3>1
      <4> QED BY <2>3, <4>1
    <3>3. CASE i = h /\ l = NeighborAt(k)
        BY <2>3, <3>3
    <3>4. CASE i < h \/ (i = h /\ l < NeighborAt(k))
      <4>1. (i - 1) * N + l <= k - 1
          BY <3>0, <3>4, StepPosition DEF h
      <4>2. Explored(edges, excluded, s, k - 1)
          BY DEF SearchInv
      <4> QED BY <2>3, <3>2, <4>1, <4>2 DEF Explored, L
    <3> QED BY <3>0, <3>1, <3>3, <3>4
  <2>8. SearchInv(edges, src, targets, excluded, t, k)
      BY <2>2, <2>4, <2>5, <2>6, <2>7 DEF SearchInv
  <2> QED BY <2>8 DEF t, path, h
<1> QED BY <1>5, <1>6

(* A step that changes nothing has looked at the neighbour all the same. *)
LEMMA Passing ==
  ASSUME NEW edges, NEW src, NEW targets, NEW excluded, SearchInput(edges, src, excluded),
         NEW k \in Nat \ {0}, NEW s, SearchInv(edges, src, targets, excluded, s, k - 1),
         \/ s.found # <<>>
         \/ HeadAt(k) > Len(s.queue)
         \/ <<Last(s.queue[HeadAt(k)]), PkgOrder[NeighborAt(k)]>> \notin edges
         \/ PkgOrder[NeighborAt(k)] \in s.visited \cup excluded
  PROVE  SearchInv(edges, src, targets, excluded, s, k)
<1>1. s \in States /\ N \in Nat \ {0} /\ Len(s.queue) \in Nat
    BY Order DEF SearchInv, SearchInput, States
<1>2. Explored(edges, excluded, s, k)
  <2> SUFFICES ASSUME s.found = <<>>,
                      NEW i \in 1 .. Len(s.queue), NEW l \in 1 .. N, (i - 1) * N + l <= k,
                      <<Last(s.queue[i]), PkgOrder[l]>> \in edges
               PROVE  PkgOrder[l] \in s.visited \cup excluded
      BY DEF Explored
  <2>1. i < HeadAt(k) \/ (i = HeadAt(k) /\ l <= NeighborAt(k))
      BY <1>1, StepPosition
  <2>2. CASE i = HeadAt(k) /\ l = NeighborAt(k)
      BY <1>1, <2>2
  <2>3. CASE i < HeadAt(k) \/ (i = HeadAt(k) /\ l < NeighborAt(k))
    <3>1. (i - 1) * N + l <= k - 1
        BY <1>1, <2>3, StepPosition
    <3>2. Explored(edges, excluded, s, k - 1)
        BY DEF SearchInv
    <3> QED BY <3>1, <3>2 DEF Explored
  <2>4. NeighborAt(k) \in 1 .. N
      BY <1>1, StepPosition
  <2> QED BY <1>1, <2>1, <2>2, <2>3, <2>4
<1> QED BY <1>2 DEF SearchInv

LEMMA SearchMoves ==
  ASSUME NEW edges, NEW src, NEW targets, NEW excluded, SearchInput(edges, src, excluded),
         NEW k \in Nat \ {0}, NEW s, SearchInv(edges, src, targets, excluded, s, k - 1)
  PROVE  SearchInv(edges, src, targets, excluded, Moved(edges, src, targets, excluded, s, k), k)
<1> DEFINE n == PkgOrder[NeighborAt(k)]
           same == \/ s.found # <<>>
                   \/ HeadAt(k) > Len(s.queue)
                   \/ <<Last(s.queue[HeadAt(k)]), n>> \notin edges
                   \/ n \in s.visited \cup excluded
<1>0. Len(s.queue) \in Nat /\ HeadAt(k) \in Nat
  <2>1. s \in States /\ N \in Nat \ {0}
      BY Order DEF SearchInv, SearchInput
  <2> QED BY <2>1, StepPosition DEF States
<1>1. CASE same
  <2>1. Moved(edges, src, targets, excluded, s, k) = s
      BY <1>1 DEF Moved, Look
  <2> QED BY <1>1, <2>1, Passing
<1>2. CASE ~same
  <2>1. Moved(edges, src, targets, excluded, s, k)
          = Visit(src, targets, s, Append(s.queue[HeadAt(k)], n))
      BY <1>2 DEF Moved, Look
  <2>2. HeadAt(k) <= Len(s.queue)
      BY <1>0, <1>2
  <2> QED BY <1>2, <2>1, <2>2, Visiting
<1> QED BY <1>1, <1>2

LEMMA SearchInvariance ==
  ASSUME NEW edges, NEW src, NEW targets, NEW excluded, SearchInput(edges, src, excluded)
  PROVE  \A k \in 0 .. N * N :
           SearchInv(edges, src, targets, excluded, Search(edges, src, targets, excluded)[k], k)
<1> DEFINE run == Search(edges, src, targets, excluded)
           T == {k \in Nat : k \in 0 .. N * N => SearchInv(edges, src, targets, excluded, run[k], k)}
<1>1. /\ N \in Nat /\ run[0] = Start(src)
      /\ \A k \in 1 .. N * N : run[k] = Moved(edges, src, targets, excluded, run[k - 1], k)
    BY Order, SearchSteps
<1> HIDE DEF run
<1>2. 0 \in T
    BY <1>1, SearchStarts
<1>3. ASSUME NEW k \in Nat, k \in T PROVE k + 1 \in T
  <2> SUFFICES ASSUME k + 1 \in 0 .. N * N
               PROVE  SearchInv(edges, src, targets, excluded, run[k + 1], k + 1)
      OBVIOUS
  <2>1. N * N \in Nat /\ k + 1 \in 1 .. N * N /\ k \in 0 .. N * N /\ (k + 1) - 1 = k
      BY <1>1
  <2>2. SearchInv(edges, src, targets, excluded, run[k], (k + 1) - 1)
      BY <1>3, <2>1
  <2>3. run[k + 1] = Moved(edges, src, targets, excluded, run[k], k + 1)
      BY <1>1, <2>1
  <2> HIDE DEF T
  <2> QED BY <2>2, <2>3, SearchMoves
<1> HIDE DEF T
<1>4. \A k \in Nat : k \in T
    BY <1>2, <1>3, SetInduction
<1>5. N * N \in Nat
    BY <1>1
<1> QED BY <1>4, <1>5 DEF T, run

-----------------------------------------------------------------------------
(* What the search finds. *)

(* A path stays in every closed set that its start is in. *)
LEMMA PathStays ==
  ASSUME NEW edges, NEW excluded, NEW src, NEW p, IsPath(edges, excluded, src, p),
         NEW C, src \in C, ClosedUnder(Avoiding(edges, excluded), C)
  PROVE  Last(p) \in C
<1> DEFINE T == {n \in Nat : n \in 0 .. Len(p) - 1 => p[n + 1] \in C}
<1>1. Len(p) \in Nat \ {0} /\ p[1] = src
    BY DEF IsPath
<1>2. 0 \in T
    BY <1>1
<1>3. ASSUME NEW n \in Nat, n \in T PROVE n + 1 \in T
  <2> SUFFICES ASSUME n + 1 \in 0 .. Len(p) - 1 PROVE p[n + 2] \in C
      BY <1>1
  <2>1. n + 1 \in 1 .. Len(p) - 1 /\ n \in 0 .. Len(p) - 1 /\ (n + 1) + 1 = n + 2
      BY <1>1
  <2>2. <<p[n + 1], p[n + 2]>> \in Avoiding(edges, excluded)
      BY <2>1 DEF IsPath
  <2>3. p[n + 1] \in C
      BY <1>3, <2>1
  <2> DEFINE e == <<p[n + 1], p[n + 2]>>
  <2>4. e \in Avoiding(edges, excluded) /\ e[1] \in C
      BY <2>2, <2>3
  <2> HIDE DEF e
  <2>5. e[2] \in C
      BY <2>4 DEF ClosedUnder
  <2> QED BY <2>5 DEF e
<1> HIDE DEF T
<1>4. \A n \in Nat : n \in T
    BY <1>2, <1>3, SetInduction
<1>5. Len(p) - 1 \in T
    BY <1>1, <1>4
<1>6. p[Len(p)] \in C
    BY <1>1, <1>5 DEF T
<1> QED BY <1>6 DEF Last

(* No more paths are queued than there are packages, so each has been taken when the *)
(* search ends.                                                                      *)
LEMMA QueueIsShort ==
  ASSUME NEW edges, NEW src, NEW excluded, NEW s, s \in States, QueueFits(edges, src, excluded, s)
  PROVE  Len(s.queue) \in Nat /\ Len(s.queue) <= N
<1> DEFINE L == Len(s.queue)
           f == [i \in 1 .. L |-> Last(s.queue[i])]
<1>1. L \in Nat
    BY DEF States
<1>2. ASSUME NEW i \in 1 .. L PROVE Last(s.queue[i]) \in AllPackages
    BY <1>1, <1>2 DEF QueueFits, IsPath, Last
<1>3. f \in Injection(1 .. L, AllPackages)
    BY <1>2 DEF QueueFits, Injection, IsInjective
<1>4. IsFiniteSet(1 .. L) /\ Cardinality(1 .. L) = L
    BY <1>1, FS_Interval
<1>5. Cardinality(1 .. L) <= Cardinality(AllPackages) /\ Cardinality(AllPackages) \in Nat
  <2> HIDE DEF f
  <2> QED BY <1>3, Order, FS_Injection, FS_CardinalityType
<1> HIDE DEF L
<1>6. L <= N
    BY <1>1, <1>4, <1>5, Order
<1> QED BY <1>1, <1>6 DEF L

(* A search that found nothing has visited a closed set without targets. *)
LEMMA NothingFound ==
  ASSUME NEW edges, NEW src, NEW targets, NEW excluded, SearchInput(edges, src, excluded),
         NEW s, SearchInv(edges, src, targets, excluded, s, N * N), s.found = <<>>
  PROVE  /\ s.visited \in SUBSET AllPackages /\ src \in s.visited
         /\ s.visited \cap targets \subseteq {src}
         /\ ClosedUnder(Avoiding(edges, excluded), s.visited)
<1>1. /\ s \in States /\ QueueFits(edges, src, excluded, s)
      /\ VisitedFits(src, targets, excluded, s) /\ Explored(edges, excluded, s, N * N)
    BY DEF SearchInv
<1>2. /\ s.visited = {Last(s.queue[i]) : i \in 1 .. Len(s.queue)}
      /\ s.visited \cap targets \subseteq {src}
    BY <1>1 DEF VisitedFits
<1>3. N \in Nat \ {0} /\ Len(s.queue) \in Nat /\ Len(s.queue) <= N
    BY <1>1, Order, QueueIsShort DEF SearchInput
<1>4. src \in s.visited
  <2>1. Last(s.queue[1]) = src
      BY <1>1 DEF QueueFits, Last
  <2> QED BY <1>1, <1>2, <1>3, <2>1 DEF QueueFits
<1>5. ASSUME NEW e \in Avoiding(edges, excluded), e[1] \in s.visited PROVE e[2] \in s.visited
  <2>1. e \in edges /\ e \in AllPackages \X AllPackages /\ e[2] \notin excluded
      BY <1>5 DEF Avoiding, SearchInput
  <2>2. PICK i \in 1 .. Len(s.queue) : Last(s.queue[i]) = e[1]
      BY <1>2, <1>5
  <2>3. PICK l \in 1 .. N : PkgOrder[l] = e[2]
      BY <2>1, Order
  <2>4. (i - 1) * N + l <= (N - 1) * N + N
    <3>1. i \in Nat \ {0} /\ (i < N \/ (i = N /\ l <= N))
        BY <1>3
    <3> QED BY <1>3, <3>1, LookedAt
  <2>5. (N - 1) * N + N = N * N
      BY <1>3
  <2>6. <<Last(s.queue[i]), PkgOrder[l]>> \in edges
      BY <2>1, <2>2, <2>3
  <2>7. PkgOrder[l] \in s.visited \cup excluded
      BY <1>1, <2>4, <2>5, <2>6 DEF Explored
  <2> QED BY <2>1, <2>3, <2>7
<1> QED BY <1>1, <1>2, <1>4, <1>5 DEF ClosedUnder, States

(* What findPath returns is a path of imports, from the package to another one that is a *)
(* target, and no package of it is a waypoint.                                           *)
THEOREM FoundIsAPath ==
  ASSUME NEW edges \in SUBSET (AllPackages \X AllPackages), NEW src \in AllPackages,
         NEW targets, NEW excluded, FindPath(edges, src, targets, excluded) # <<>>
  PROVE  LET path == FindPath(edges, src, targets, excluded)
         IN  IsPath(edges, excluded, src, path) /\ Last(path) \in targets \ {src}
<1>1. SearchInput(edges, src, excluded)
    BY DEF SearchInput, FindPath
<1> DEFINE s == Search(edges, src, targets, excluded)[N * N]
<1>2. SearchInv(edges, src, targets, excluded, s, N * N)
    BY <1>1, Order, SearchInvariance
<1>3. FindPath(edges, src, targets, excluded) = s.found
    BY <1>1 DEF FindPath, SearchInput, N
<1> HIDE DEF s
<1> QED BY <1>2, <1>3 DEF SearchInv, FoundFits

(* findPath finds one exactly when the package reaches a target around the waypoints. *)
THEOREM FindPathIsExact ==
  ASSUME NEW edges \in SUBSET (AllPackages \X AllPackages), NEW src \in AllPackages,
         NEW targets, NEW excluded
  PROVE  FindPath(edges, src, targets, excluded) # <<>>
           <=> Reached(Avoiding(edges, excluded), src) \cap (targets \ {src}) # {}
<1> DEFINE free == Avoiding(edges, excluded)
           found == FindPath(edges, src, targets, excluded)
<1>1. ASSUME found # <<>> PROVE Reached(free, src) \cap (targets \ {src}) # {}
  <2>1. IsPath(edges, excluded, src, found) /\ Last(found) \in targets \ {src}
      BY <1>1, FoundIsAPath
  <2>2. Last(found) \in AllPackages
      BY <2>1 DEF IsPath, Last
  <2> HIDE DEF found
  <2>3. Last(found) \in Reached(free, src)
      BY <2>1, <2>2, PathStays DEF Reached
  <2> QED BY <2>1, <2>3
<1>2. CASE src \in excluded
  <2>1. ClosedUnder(free, {src})
      BY <1>2 DEF ClosedUnder, Avoiding
  <2>2. Reached(free, src) \subseteq {src}
      BY <2>1 DEF Reached
  <2>3. found = <<>>
      BY <1>2 DEF FindPath
  <2> QED BY <2>2, <2>3
<1>3. ASSUME src \notin excluded, found = <<>> PROVE Reached(free, src) \cap (targets \ {src}) = {}
  <2>1. SearchInput(edges, src, excluded)
      BY <1>3 DEF SearchInput
  <2> DEFINE s == Search(edges, src, targets, excluded)[N * N]
  <2>2. SearchInv(edges, src, targets, excluded, s, N * N)
      BY <2>1, Order, SearchInvariance
  <2>3. s.found = <<>>
      BY <1>3 DEF FindPath, N
  <2> HIDE DEF s
  <2>4. /\ s.visited \in SUBSET AllPackages /\ src \in s.visited
        /\ s.visited \cap targets \subseteq {src}
        /\ ClosedUnder(free, s.visited)
      BY <2>1, <2>2, <2>3, NothingFound
  <2> QED BY <2>4 DEF Reached
<1> QED BY <1>1, <1>2, <1>3

-----------------------------------------------------------------------------
(* The rules over a graph. *)

LEMMA ResolveNarrow ==
  ASSUME NEW cfg, NEW scan \in SUBSET AllPackages, NEW sels
  PROVE  /\ Resolve(cfg, scan, sels) = Resolve(cfg, AllPackages, sels) \cap scan
         /\ Resolve(cfg, scan, sels) \subseteq scan
BY DEF Resolve

(* The packages a rule on paths is broken from. *)
Broken(cfg, pkgs, edges, r) ==
  {s \in Resolve(cfg, pkgs, r.lhs) :
     FindPath(edges, s, Resolve(cfg, pkgs, r.rhs), Resolve(cfg, pkgs, r.via)) # <<>>}
PathBreach(cfg, pkgs, edges, r, kind, s) ==
  Breach(kind, r, s, Last(FindPath(edges, s, Resolve(cfg, pkgs, r.rhs), Resolve(cfg, pkgs, r.via))))

LEMMA PathBreachesAre ==
  ASSUME NEW cfg, NEW pkgs, NEW edges, NEW op, NEW kind
  PROVE  /\ \A r \in Rules(cfg, op) : \A s \in Broken(cfg, pkgs, edges, r) :
                PathBreach(cfg, pkgs, edges, r, kind, s) \in PathBreaches(cfg, pkgs, edges, op, kind)
         /\ \A b \in PathBreaches(cfg, pkgs, edges, op, kind) :
              \E r \in Rules(cfg, op) : \E s \in Broken(cfg, pkgs, edges, r) :
                b = PathBreach(cfg, pkgs, edges, r, kind, s)
<1> DEFINE of(r) == {PathBreach(cfg, pkgs, edges, r, kind, s) : s \in Broken(cfg, pkgs, edges, r)}
<1>1. PathBreaches(cfg, pkgs, edges, op, kind) = UNION {of(r) : r \in Rules(cfg, op)}
  <2>1. \A r : of(r) = LET lhs == Resolve(cfg, pkgs, r.lhs)
                          rhs == Resolve(cfg, pkgs, r.rhs)
                          via == Resolve(cfg, pkgs, r.via)
                          Path(src) == FindPath(edges, src, rhs, via)
                      IN  {Breach(kind, r, src, Last(Path(src))) : src \in {s \in lhs : Path(s) # <<>>}}
      BY DEF Broken, PathBreach
  <2> HIDE DEF of
  <2> QED BY <2>1 DEF PathBreaches
<1>2. \A b, r : b \in of(r) <=> \E s \in Broken(cfg, pkgs, edges, r) : b = PathBreach(cfg, pkgs, edges, r, kind, s)
    OBVIOUS
<1> HIDE DEF of
<1> QED BY <1>1, <1>2

LEMMA BreachFields ==
  ASSUME NEW kind, NEW rule, NEW from, NEW to
  PROVE  LET b == Breach(kind, rule, from, to)
         IN  b.kind = kind /\ b.rule = rule /\ b.from = from /\ b.to = to
BY DEF Breach

LEMMA EdgeBreachRule ==
  ASSUME NEW cfg, NEW pkgs, NEW edges, NEW b \in EdgeBreaches(cfg, pkgs, edges)
  PROVE  b.rule = NoRule
BY DEF EdgeBreaches, Breach

LEMMA RuleOps ==
  ASSUME NEW cfg, NEW op, NEW r \in Rules(cfg, op)
  PROVE  r.op = op /\ PolicyDefined(cfg)
BY DEF Rules, PolicyDefined

LEMMA EdgesOf ==
  ASSUME NEW pkgs \in SUBSET AllPackages, NEW links
  PROVE  /\ Edges(pkgs, links) \in SUBSET (AllPackages \X AllPackages)
         /\ Edges(pkgs, links) \subseteq pkgs \X pkgs
         /\ Edges(pkgs, links) \subseteq Edges(AllPackages, links)
BY DEF Edges

(* A rule is broken from the packages that reach a target; an import of a package by itself *)
(* makes no difference.                                                                     *)
LEMMA BrokenIsReached ==
  ASSUME NEW cfg, NEW pkgs \in SUBSET AllPackages, NEW links, NEW r
  PROVE  \A s : s \in Broken(cfg, pkgs, Edges(pkgs, links), r) <=>
                 /\ s \in Resolve(cfg, pkgs, r.lhs)
                 /\ Reached(Avoiding(Edges(pkgs, links), Resolve(cfg, pkgs, r.via)), s)
                      \cap (Resolve(cfg, pkgs, r.rhs) \ {s}) # {}
<1>1. \A s \in Resolve(cfg, pkgs, r.lhs) : s \in AllPackages
    BY ResolveNarrow
<1> QED BY <1>1, EdgesOf, FindPathIsExact DEF Broken

LEMMA ReachedGrows ==
  ASSUME NEW few, NEW many, NEW s, \A e \in few : e[1] = e[2] \/ e \in many
  PROVE  Reached(few, s) \subseteq Reached(many, s)
<1>1. \A C \in SUBSET AllPackages : ClosedUnder(many, C) => ClosedUnder(few, C)
    BY DEF ClosedUnder
<1> QED BY <1>1 DEF Reached

LEMMA PathsAreExactLemma == GateTypeOK => PathsAreExact
<1> SUFFICES ASSUME GateTypeOK,
                    NEW op \in {"!~>", "~>"}, NEW r \in Rules(Cfg, op)
             PROVE  LET via == Resolve(Cfg, AllPackages, r.via)
                        free == {e \in imports : e[1] \notin via /\ e[2] \notin via}
                    IN  {b.from : b \in {b \in Check(Cfg, AllPackages, imports) : b.rule = r}}
                          = {s \in Resolve(Cfg, AllPackages, r.lhs) :
                               Reached(free, s) \cap (Resolve(Cfg, AllPackages, r.rhs) \ {s}) # {}}
    BY DEF PathsAreExact
<1> DEFINE cfg == Cfg
           edges == Edges(AllPackages, imports)
           all == Check(cfg, AllPackages, imports)
           via == Resolve(cfg, AllPackages, r.via)
           free == {e \in imports : e[1] \notin via /\ e[2] \notin via}
           broken == Broken(cfg, AllPackages, edges, r)
<1>1. PolicyDefined(cfg) /\ r.op = op
    BY RuleOps
<1>2. all = EdgeBreaches(cfg, AllPackages, edges)
              \cup PathBreaches(cfg, AllPackages, edges, "!~>", "reachability")
              \cup PathBreaches(cfg, AllPackages, edges, "~>", "chokepoint")
    BY <1>1 DEF Check
<1> HIDE DEF cfg, edges, all, broken, via, free
<1>3. ASSUME NEW b \in all, b.rule = r PROVE b.from \in broken
  <2>1. b \notin EdgeBreaches(cfg, AllPackages, edges)
    <3>1. r # NoRule
        BY <1>1 DEF NoRule
    <3> QED BY <1>3, <3>1, EdgeBreachRule
  <2>2. PICK o \in {"!~>", "~>"}, kind \in {"reachability", "chokepoint"} :
          b \in PathBreaches(cfg, AllPackages, edges, o, kind)
      BY <1>2, <2>1
  <2>3. PICK q \in Rules(cfg, o) : \E s \in Broken(cfg, AllPackages, edges, q) :
          b = PathBreach(cfg, AllPackages, edges, q, kind, s)
      BY <2>2, PathBreachesAre
  <2>4. PICK s \in Broken(cfg, AllPackages, edges, q) : b = PathBreach(cfg, AllPackages, edges, q, kind, s)
      BY <2>3
  <2>5. b.rule = q /\ b.from = s
      BY <2>4, BreachFields DEF PathBreach
  <2> QED BY <1>3, <2>4, <2>5 DEF broken
<1>4. ASSUME NEW s \in broken PROVE \E b \in all : b.rule = r /\ b.from = s
  <2> DEFINE kind == IF op = "!~>" THEN "reachability" ELSE "chokepoint"
             b == PathBreach(cfg, AllPackages, edges, r, kind, s)
  <2>1. b \in PathBreaches(cfg, AllPackages, edges, op, kind)
      BY <1>4, PathBreachesAre DEF broken, cfg
  <2>2. b.rule = r /\ b.from = s
      BY BreachFields DEF PathBreach
  <2>3. b \in all
      BY <1>2, <2>1
  <2> QED BY <2>2, <2>3
<1>5. {b.from : b \in {b \in all : b.rule = r}} = broken
    BY <1>3, <1>4
<1>6. broken = {s \in Resolve(cfg, AllPackages, r.lhs) :
                  Reached(Avoiding(edges, via), s) \cap (Resolve(cfg, AllPackages, r.rhs) \ {s}) # {}}
  <2>1. AllPackages \in SUBSET AllPackages
      OBVIOUS
  <2>2. \A s : s \in broken <=>
                /\ s \in Resolve(cfg, AllPackages, r.lhs)
                /\ Reached(Avoiding(edges, via), s) \cap (Resolve(cfg, AllPackages, r.rhs) \ {s}) # {}
      BY <2>1, BrokenIsReached DEF broken, edges, via
  <2> QED BY <2>2
<1>7. ASSUME NEW s PROVE Reached(Avoiding(edges, via), s) = Reached(free, s)
  <2>1. \A e \in Avoiding(edges, via) : e[1] = e[2] \/ e \in free
      BY DEF Avoiding, Edges, edges, free
  <2>2. \A e \in free : e[1] = e[2] \/ e \in Avoiding(edges, via)
    <3> TAKE e \in free
    <3>1. e \in imports /\ e \in AllPackages \X AllPackages /\ e[1] \notin via /\ e[2] \notin via
        BY DEF GateTypeOK, free
    <3>2. e[1] # e[2] => e \in edges
        BY <3>1 DEF Edges, edges
    <3> QED BY <3>1, <3>2 DEF Avoiding
  <2>3. Reached(Avoiding(edges, via), s) \subseteq Reached(free, s)
      BY <2>1, ReachedGrows
  <2>4. Reached(free, s) \subseteq Reached(Avoiding(edges, via), s)
      BY <2>2, ReachedGrows
  <2> QED BY <2>3, <2>4
<1>8. {b.from : b \in {b \in all : b.rule = r}}
        = {s \in Resolve(cfg, AllPackages, r.lhs) :
             Reached(free, s) \cap (Resolve(cfg, AllPackages, r.rhs) \ {s}) # {}}
    BY <1>5, <1>6, <1>7
<1> QED BY <1>8 DEF cfg, all, via, free

-----------------------------------------------------------------------------
(* Scans. *)

LEMMA BrokenNarrow ==
  ASSUME NEW cfg, NEW scan \in SUBSET AllPackages, NEW links, NEW r
  PROVE  Broken(cfg, scan, Edges(scan, links), r)
           \subseteq Broken(cfg, AllPackages, Edges(AllPackages, links), r)
<1> DEFINE few == Avoiding(Edges(scan, links), Resolve(cfg, scan, r.via))
           many == Avoiding(Edges(AllPackages, links), Resolve(cfg, AllPackages, r.via))
<1>1. \A e \in few : e \in many
    BY EdgesOf, ResolveNarrow DEF Avoiding
<1>2. \A s : Reached(few, s) \subseteq Reached(many, s)
    BY <1>1, ReachedGrows
<1>3. /\ Resolve(cfg, scan, r.lhs) \subseteq Resolve(cfg, AllPackages, r.lhs)
      /\ Resolve(cfg, scan, r.rhs) \subseteq Resolve(cfg, AllPackages, r.rhs)
    BY ResolveNarrow
<1> HIDE DEF few, many
<1>4. ASSUME NEW s \in Broken(cfg, scan, Edges(scan, links), r)
      PROVE  s \in Broken(cfg, AllPackages, Edges(AllPackages, links), r)
  <2>1. /\ s \in Resolve(cfg, scan, r.lhs)
        /\ Reached(few, s) \cap (Resolve(cfg, scan, r.rhs) \ {s}) # {}
      BY BrokenIsReached DEF few
  <2>2. /\ s \in Resolve(cfg, AllPackages, r.lhs)
        /\ Reached(many, s) \cap (Resolve(cfg, AllPackages, r.rhs) \ {s}) # {}
      BY <1>2, <1>3, <2>1
  <2>3. AllPackages \in SUBSET AllPackages
      OBVIOUS
  <2> QED BY <2>2, <2>3, BrokenIsReached DEF many
<1> QED BY <1>4

LEMMA HitNarrow ==
  ASSUME NEW cfg, NEW scan \in SUBSET AllPackages, NEW r, NEW e \in scan \X scan
  PROVE  Hit(cfg, scan, r, e) <=> Hit(cfg, AllPackages, r, e)
<1>1. e[1] \in scan /\ e[2] \in scan
    OBVIOUS
<1> QED BY <1>1, ResolveNarrow DEF Hit

LEMMA EdgeBreachesNarrow ==
  ASSUME NEW cfg, NEW scan \in SUBSET AllPackages, NEW links
  PROVE  EdgeBreaches(cfg, scan, Edges(scan, links))
           \subseteq EdgeBreaches(cfg, AllPackages, Edges(AllPackages, links))
<1>1. \A e \in Edges(scan, links) :
        e \in scan \X scan /\ e \in Edges(AllPackages, links)
    BY EdgesOf
<1>2. \A e \in Edges(scan, links) : \A r : Hit(cfg, scan, r, e) <=> Hit(cfg, AllPackages, r, e)
    BY <1>1, HitNarrow
<1> QED BY <1>1, <1>2 DEF EdgeBreaches

LEMMA PlacesNarrow ==
  ASSUME NEW cfg, NEW scan \in SUBSET AllPackages, NEW links
  PROVE  {Place(b) : b \in Check(cfg, scan, links)} \subseteq {Place(b) : b \in Check(cfg, AllPackages, links)}
<1> SUFFICES ASSUME PolicyDefined(cfg), NEW b \in Check(cfg, scan, links)
             PROVE  \E c \in Check(cfg, AllPackages, links) : Place(b) = Place(c)
    BY DEF Check
<1> DEFINE few == Edges(scan, links)
           many == Edges(AllPackages, links)
           Of2(pkgs, edges) == EdgeBreaches(cfg, pkgs, edges)
                                 \cup PathBreaches(cfg, pkgs, edges, "!~>", "reachability")
                                 \cup PathBreaches(cfg, pkgs, edges, "~>", "chokepoint")
<1>1. Check(cfg, scan, links) = Of2(scan, few) /\ Check(cfg, AllPackages, links) = Of2(AllPackages, many)
    BY DEF Check
<1>2. CASE b \in EdgeBreaches(cfg, scan, few)
    BY <1>1, <1>2, EdgeBreachesNarrow
<1>3. ASSUME NEW op \in {"!~>", "~>"}, NEW kind, b \in PathBreaches(cfg, scan, few, op, kind)
      PROVE  \E c \in PathBreaches(cfg, AllPackages, many, op, kind) : Place(b) = Place(c)
  <2>0. PICK r \in Rules(cfg, op) : \E s \in Broken(cfg, scan, few, r) :
          b = PathBreach(cfg, scan, few, r, kind, s)
      BY <1>3, PathBreachesAre
  <2>1. PICK s \in Broken(cfg, scan, few, r) : b = PathBreach(cfg, scan, few, r, kind, s)
      BY <2>0
  <2> DEFINE c == PathBreach(cfg, AllPackages, many, r, kind, s)
  <2>2. s \in Broken(cfg, AllPackages, many, r)
      BY <2>1, BrokenNarrow
  <2>3. c \in PathBreaches(cfg, AllPackages, many, op, kind)
      BY <2>2, PathBreachesAre
  <2>4. Place(b) = Place(c)
      BY <2>1, BreachFields DEF PathBreach, Place
  <2> QED BY <2>3, <2>4
<1> HIDE DEF few, many
<1> QED BY <1>1, <1>2, <1>3

LEMMA LayersNarrow ==
  ASSUME NEW cfg, NEW scan \in SUBSET AllPackages, NEW links
  PROVE  LayerViolations(cfg, scan, links) \subseteq LayerViolations(cfg, AllPackages, links)
<1> DEFINE some == [p \in scan |-> LayerOf(cfg, p)]
           every == [p \in AllPackages |-> LayerOf(cfg, p)]
<1>1. \A e \in scan \X scan : some[e[1]] = every[e[1]] /\ some[e[2]] = every[e[2]]
    OBVIOUS
<1> HIDE DEF some, every
<1> QED BY <1>1 DEF LayerViolations, some, every

LEMMA NarrowScansOnlyMissLemma == NarrowScansOnlyMiss
<1> SUFFICES ASSUME NEW scan \in SUBSET AllPackages
             PROVE  /\ {Place(b) : b \in Check(Cfg, scan, imports)}
                         \subseteq {Place(b) : b \in Check(Cfg, AllPackages, imports)}
                    /\ LayerViolations(Cfg, scan, imports) \subseteq LayerViolations(Cfg, AllPackages, imports)
                    /\ AllPasses(AllPackages) => OverlayPasses(scan) /\ PolicyPasses(scan)
                    /\ OverlayPasses(AllPackages) /\ PolicyPasses(AllPackages) => AllPasses(scan)
    BY DEF NarrowScansOnlyMiss
<1>1. {Place(b) : b \in Check(Cfg, scan, imports)} \subseteq {Place(b) : b \in Check(Cfg, AllPackages, imports)}
    BY PlacesNarrow
<1>2. LayerViolations(Cfg, scan, imports) \subseteq LayerViolations(Cfg, AllPackages, imports)
    BY LayersNarrow
<1>3. Check(Cfg, AllPackages, imports) = {} => Check(Cfg, scan, imports) = {}
    BY <1>1
<1>4. ~PolicyDefined(Cfg) => Check(Cfg, scan, imports) = {} /\ Check(Cfg, AllPackages, imports) = {}
    BY DEF Check
<1> QED BY <1>1, <1>2, <1>3, <1>4 DEF AllPasses, OverlayPasses, PolicyPasses

-----------------------------------------------------------------------------
(* Fragments. *)

LEMMA ComposedKeepsTheRoot == root \subseteq Cfg
BY DEF Cfg, Composed

LEMMA SameLayers ==
  ASSUME NEW cfg, NEW doc, Of(cfg, "layers") = Of(doc, "layers"), NEW pkgs, NEW sels
  PROVE  Resolve(cfg, pkgs, sels) = Resolve(doc, pkgs, sels)
<1>1. \A l : Globs(cfg, l) = Globs(doc, l)
    BY DEF Globs
<1>2. \A p : LayerOf(cfg, p) = LayerOf(doc, p)
    BY <1>1 DEF LayerOf
<1> QED BY <1>2 DEF Resolve

LEMMA ForbidsSurviveFragmentsLemma == ForbidsSurviveFragments
<1> SUFFICES ASSUME Of(Cfg, "layers") = Of(root, "layers"),
                    NEW b \in Check(root, AllPackages, imports), b.kind # "unlisted-edge"
             PROVE  b \in Check(Cfg, AllPackages, imports)
    BY DEF ForbidsSurviveFragments
<1> DEFINE cfg == Cfg
           edges == Edges(AllPackages, imports)
<1> HIDE DEF cfg, edges
<1>1. RuleClauses(root) \subseteq RuleClauses(cfg) /\ ComponentGlobs(root) \subseteq ComponentGlobs(cfg)
    BY ComposedKeepsTheRoot DEF RuleClauses, ComponentGlobs, Of, cfg
<1>2. PolicyDefined(root) /\ PolicyDefined(cfg)
    BY <1>1 DEF Check, PolicyDefined
<1>3. \A op : Rules(root, op) \subseteq Rules(cfg, op)
    BY <1>1 DEF Rules
<1>4. \A sels : Resolve(cfg, AllPackages, sels) = Resolve(root, AllPackages, sels)
    BY SameLayers DEF cfg
<1>5. CASE b \in EdgeBreaches(root, AllPackages, edges)
  <2>1. PICK e \in edges :
          /\ b = Breach("forbidden-edge", NoRule, e[1], e[2])
          /\ \E r \in Rules(root, "!->") : Hit(root, AllPackages, r, e)
    <3>1. ~\E e \in edges : b = Breach("unlisted-edge", NoRule, e[1], e[2])
        BY BreachFields
    <3> QED BY <1>5, <3>1 DEF EdgeBreaches
  <2>2. \E r \in Rules(cfg, "!->") : Hit(cfg, AllPackages, r, e)
      BY <1>3, <1>4, <2>1 DEF Hit
  <2>3. b \in EdgeBreaches(cfg, AllPackages, edges)
      BY <2>1, <2>2 DEF EdgeBreaches
  <2> QED BY <1>2, <2>3 DEF Check, cfg, edges
<1>6. ASSUME NEW op, NEW kind, b \in PathBreaches(root, AllPackages, edges, op, kind)
      PROVE  b \in PathBreaches(cfg, AllPackages, edges, op, kind)
  <2>0. PICK r \in Rules(root, op) : \E s \in Broken(root, AllPackages, edges, r) :
          b = PathBreach(root, AllPackages, edges, r, kind, s)
      BY <1>6, PathBreachesAre
  <2>1. PICK s \in Broken(root, AllPackages, edges, r) : b = PathBreach(root, AllPackages, edges, r, kind, s)
      BY <2>0
  <2>2. r \in Rules(cfg, op) /\ s \in Broken(cfg, AllPackages, edges, r)
      BY <1>3, <1>4, <2>1 DEF Broken
  <2>3. b = PathBreach(cfg, AllPackages, edges, r, kind, s)
      BY <1>4, <2>1 DEF PathBreach
  <2> QED BY <2>2, <2>3, PathBreachesAre
<1>7. \/ b \in EdgeBreaches(root, AllPackages, edges)
      \/ b \in PathBreaches(root, AllPackages, edges, "!~>", "reachability")
      \/ b \in PathBreaches(root, AllPackages, edges, "~>", "chokepoint")
    BY <1>2 DEF Check, edges
<1> QED BY <1>2, <1>5, <1>6, <1>7 DEF Check, cfg, edges

-----------------------------------------------------------------------------
(* Every edit keeps the types, and so the gates are what the properties say of them. *)

LEMMA GateTypeStep == GateTypeOK /\ [GateNext]_gateVars => GateTypeOK'
<1> SUFFICES ASSUME GateTypeOK, [GateNext]_gateVars PROVE GateTypeOK'
    OBVIOUS
<1>1. ASSUME NEW c \in RootPool, EditRoot(c) PROVE GateTypeOK'
    BY <1>1 DEF GateTypeOK, EditRoot
<1>2. ASSUME NEW p \in AllPackages, NEW c \in FragmentPool, EditFragment(p, c) PROVE GateTypeOK'
    BY <1>2 DEF GateTypeOK, EditFragment
<1>3. ASSUME NEW p \in AllPackages, NEW q \in AllPackages, AddImport(p, q) PROVE GateTypeOK'
    BY <1>3 DEF GateTypeOK, AddImport
<1>4. ASSUME NEW p \in AllPackages, NEW q \in AllPackages, DropImport(p, q) PROVE GateTypeOK'
    BY <1>4 DEF GateTypeOK, DropImport
<1>5. CASE UNCHANGED gateVars
    BY <1>5 DEF GateTypeOK, gateVars
<1> QED BY <1>1, <1>2, <1>3, <1>4, <1>5 DEF GateNext

(* Edits of documents and code keep the types. *)
THEOREM GateTypeCorrect == GateSpec => []GateTypeOK
<1>1. GateInit => GateTypeOK
    BY DEF GateInit, GateTypeOK
<1> QED BY <1>1, GateTypeStep, PTL DEF GateSpec

(* A rule on paths is reported broken exactly from the packages that reach a target around *)
(* the waypoints, over every graph of imports and every policy (findPath, Check).           *)
THEOREM PathsAreExactHolds == GateSpec => []PathsAreExact
BY GateTypeCorrect, PathsAreExactLemma, PTL

(* A gate that scans some packages reports nothing that it would not report of all of them, *)
(* and green on the whole is green on each part (newGraph, Check, RunAll).                  *)
THEOREM NarrowScansOnlyMissHolds == GateSpec => []NarrowScansOnlyMiss
BY NarrowScansOnlyMissLemma, PTL

(* What the root document forbids, no fragment that leaves the layers alone can allow       *)
(* (LoadComposed, Check).                                                                   *)
THEOREM ForbidsSurviveFragmentsHolds == GateSpec => []ForbidsSurviveFragments
BY ForbidsSurviveFragmentsLemma, PTL
==================================================================================
