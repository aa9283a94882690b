------------------------- MODULE ModelReload_proofs -------------------------
(* What ModelReload promises for every set of packages, every nesting and every  *)
(* import graph, and for any number of edits, stops and crashes, proved.         *)
EXTENDS ModelReload, TLAPS

USE RootAssumption, AboveAssumption, EdgeAssumption, SaveAssumption, BoundAssumption

-----------------------------------------------------------------------------
(* The operators. *)

\* FindOwningPackage answers a package that is there with itself.
LEMMA OwnerOfPresent ==
  ASSUME NEW p \in Pkgs, src[p] # 0
  PROVE  Owner(p) = p
<1>1. Above[p] \in Seq(Pkgs) /\ Above[p] # <<>> /\ Above[p][1] = p
  OBVIOUS
<1>2. Len(Above[p]) \in Nat /\ Len(Above[p]) >= 1
  BY <1>1, SMTT(30)
<1>3. Nearest(p, p)
  BY <1>1, <1>2 DEF Nearest
<1>4. ASSUME NEW q \in Pkgs, Nearest(p, q) PROVE q = p
  <2>1. PICK i \in 1..Len(Above[p]) :
          Above[p][i] = q /\ \A j \in 1..(i - 1) : src[Above[p][j]] = 0
    BY <1>4 DEF Nearest
  <2>2. ~(1 \in 1..(i - 1))
    BY <1>1, <2>1
  <2>3. i \in Nat /\ i >= 1
    BY <1>2, <2>1
  <2>4. i = 1
    BY <2>2, <2>3
  <2>. QED BY <1>1, <2>1, <2>4
<1>. QED BY <1>3, <1>4 DEF Owner

\* A batch is of packages, and has those that are there.
LEMMA OwnersOfBatch ==
  /\ Owners(pending) \subseteq Pkgs
  /\ \A p \in Pkgs : p \in pending /\ src[p] # 0 => p \in Owners(pending)
<1>1. ASSUME NEW p \in Pkgs, Owner(p) # None PROVE Owner(p) \in Pkgs
  BY <1>1 DEF Owner
<1>2. Owners(pending) \subseteq Pkgs
  BY <1>1 DEF Owners
<1>3. ASSUME NEW p \in Pkgs, p \in pending, src[p] # 0 PROVE p \in Owners(pending)
  <2>1. Owner(p) = p
    BY <1>3, OwnerOfPresent
  <2>2. p # None
    BY DEF Sources
  <2>. QED BY <1>3, <2>1, <2>2 DEF Owners
<1>. QED BY <1>2, <1>3

\* A save reloads a package.
LEMMA FoundType == \A p \in Pkgs : Found(p) \subseteq Pkgs
<1>. SUFFICES ASSUME NEW p \in Pkgs, Owner(p) # None PROVE Owner(p) \in Pkgs
  BY DEF Found
<1>. QED BY DEF Owner

LEMMA EdgesType == \A p \in Pkgs, R \in SUBSET Pkgs : Edges(p, R) \in SUBSET Pkgs
  BY DEF Edges, Present

-----------------------------------------------------------------------------
(* Types. *)

\* The types in two parts: the Boolean flags, and the others.
Flags  == dirty \in BOOLEAN /\ cancelled \in BOOLEAN /\ cached \in BOOLEAN /\ saved \in BOOLEAN
Files  == src \in [Sources -> Nat] /\ dir \in [Pkgs -> {"absent", "bare", "watched"}]
          /\ edits \in Nat /\ stops \in Nat
Events == /\ made \subseteq Pkgs /\ queued \subseteq Sources /\ pending \subseteq Sources
          /\ todo \subseteq Pkgs /\ changed \subseteq Pkgs
          /\ excused \subseteq Sources /\ stage \in Stage
          /\ saves \subseteq Pkgs /\ unsaid \subseteq Pkgs /\ storing \in Pkgs \cup {None}
Models == /\ own \in [Sources -> Nat] /\ told \in [Sources -> Nat]
          /\ seen \in [Pkgs -> SUBSET Pkgs] /\ cseen \in [Pkgs -> SUBSET Pkgs]
          /\ scanned \in [Pkgs -> Nat] /\ cown \in [Pkgs -> Nat] /\ cstamp \in [Pkgs -> Nat]

LEMMA TypeParts == TypeOK <=> Flags /\ Files /\ Events /\ Models
  BY DEF TypeOK, Flags, Files, Events, Models

LEMMA TypeJoin == ASSUME Flags', Files', Events', Models' PROVE TypeOK'
  BY DEF TypeOK, Flags, Files, Events, Models

LEMMA TypeInit == Init => TypeOK
<1>. SUFFICES ASSUME Init PROVE TypeOK
  OBVIOUS
<1>1. Flags
  BY Zenon DEF Init, Flags
<1>2. Files
  <2>1. src \in [Sources -> Nat]
    <3>1. src \in [Sources -> {0, 1}]
      BY DEF Init
    <3>. QED BY ONLY <3>1
  <2>2. dir \in [Pkgs -> {"absent", "bare", "watched"}]
    BY DEF Init
  <2>. QED BY <2>1, <2>2 DEF Init, Files
<1>3. Events
  <2>1. /\ made = {} /\ queued = {} /\ pending = {} /\ todo = {} /\ changed = {}
        /\ saves = {} /\ unsaid = {} /\ storing = None /\ excused = {} /\ stage = "down"
    BY DEF Init
  <2>. QED BY ONLY <2>1 DEF Events, Stage
<1>4. Models
  BY DEF Init, Models, NoModel, NoEdges, Sources
<1>. QED BY <1>1, <1>2, <1>3, <1>4, TypeParts

LEMMA TypeEdit == TypeOK /\ Edit => TypeOK'
<1>. SUFFICES ASSUME Flags, Files, Events, Models, Edit PROVE TypeOK'
  BY TypeParts
<1>. USE DEF outsideVars, batchVars, saveVars, modelVars, cacheVars, Notice, Edited
<1>1. ASSUME NEW s \in Sources, Write(s) PROVE TypeOK'
  <2>a. edits' \in Nat /\ stops' \in Nat
    BY <1>1 DEF Files, Write
  <2>b. src' \in [Sources -> Nat]
    BY <1>1, <2>a DEF Files, Write
  <2>c. dir' \in [Pkgs -> {"absent", "bare", "watched"}]
    BY <1>1 DEF Files, Write
  <2>1. Flags'
    BY <1>1, Zenon DEF Flags, Write
  <2>2. Files'
    BY <2>a, <2>b, <2>c DEF Files
  <2>d. queued' \subseteq Sources /\ excused' \subseteq Sources
    <3>1. /\ queued' = queued \/ queued' = queued \cup {s}
          /\ excused' = excused \ {s} \/ excused' = excused \cup {s}
      BY <1>1 DEF Write
    <3>2. queued \subseteq Sources /\ excused \subseteq Sources /\ s \in Sources
      BY DEF Events
    <3>. QED BY ONLY <3>1, <3>2
  <2>3. Events'
    BY <1>1, <2>d DEF Events, Write
  <2>4. Models'
    BY <1>1 DEF Models, Sources, Write
  <2>. QED BY <2>1, <2>2, <2>3, <2>4, TypeJoin
<1>2. ASSUME NEW s \in Sources, Remove(s) PROVE TypeOK'
  <2>a. edits' \in Nat /\ stops' \in Nat
    BY <1>2 DEF Files, Remove
  <2>b. src' \in [Sources -> Nat]
    BY <1>2, <2>a DEF Files, Remove
  <2>c. dir' \in [Pkgs -> {"absent", "bare", "watched"}]
    BY <1>2 DEF Files, Remove
  <2>1. Flags'
    BY <1>2, Zenon DEF Flags, Remove
  <2>2. Files'
    BY <2>a, <2>b, <2>c DEF Files
  <2>d. queued' \subseteq Sources /\ excused' \subseteq Sources
    <3>1. /\ queued' = queued \/ queued' = queued \cup {s}
          /\ excused' = excused \ {s} \/ excused' = excused \cup {s}
      BY <1>2 DEF Remove
    <3>2. queued \subseteq Sources /\ excused \subseteq Sources /\ s \in Sources
      BY DEF Events
    <3>. QED BY ONLY <3>1, <3>2
  <2>3. Events'
    BY <1>2, <2>d DEF Events, Remove
  <2>4. Models'
    BY <1>2 DEF Models, Sources, Remove
  <2>. QED BY <2>1, <2>2, <2>3, <2>4, TypeJoin
<1>3. ASSUME NEW p \in Pkgs, MakeDir(p) PROVE TypeOK'
  <2>a. edits' \in Nat /\ stops' \in Nat
    BY <1>3 DEF Files, MakeDir
  <2>b. src' \in [Sources -> Nat]
    BY <1>3, <2>a DEF Files, MakeDir
  <2>c. dir' \in [Pkgs -> {"absent", "bare", "watched"}]
    BY <1>3 DEF Files, MakeDir
  <2>1. Flags'
    BY <1>3, Zenon DEF Flags, MakeDir
  <2>2. Files'
    BY <2>a, <2>b, <2>c DEF Files
  <2>3. Events'
    BY <1>3 DEF Events, Sources, Stage, Loading, Serving, MakeDir
  <2>4. Models'
    BY <1>3 DEF Models, Sources, MakeDir
  <2>. QED BY <2>1, <2>2, <2>3, <2>4, TypeJoin
<1>4. ASSUME NEW p \in Pkgs, RemoveDir(p) PROVE TypeOK'
  <2>a. edits' \in Nat /\ stops' \in Nat
    BY <1>4 DEF Files, RemoveDir
  <2>b. src' \in [Sources -> Nat]
    BY <1>4, <2>a DEF Files, RemoveDir
  <2>c. dir' \in [Pkgs -> {"absent", "bare", "watched"}]
    BY <1>4 DEF Files, RemoveDir
  <2>1. Flags'
    BY <1>4, Zenon DEF Flags, RemoveDir
  <2>2. Files'
    BY <2>a, <2>b, <2>c DEF Files
  <2>3. Events'
    BY <1>4 DEF Events, Sources, Stage, Loading, Serving, RemoveDir
  <2>4. Models'
    BY <1>4 DEF Models, Sources, RemoveDir
  <2>. QED BY <2>1, <2>2, <2>3, <2>4, TypeJoin
<1>5. ASSUME NEW p \in Pkgs, SaveFile(p) PROVE TypeOK'
  <2>a. edits' \in Nat /\ stops' \in Nat
    BY <1>5 DEF Files, SaveFile
  <2>b. src' \in [Sources -> Nat]
    BY <1>5, <2>a DEF Files, SaveFile
  <2>c. dir' \in [Pkgs -> {"absent", "bare", "watched"}]
    BY <1>5 DEF Files, SaveFile
  <2>1. Flags'
    BY <1>5, Zenon DEF Flags, SaveFile
  <2>2. Files'
    BY <2>a, <2>b, <2>c DEF Files
  <2>d. queued' \subseteq Sources /\ excused' \subseteq Sources
    <3>1. /\ queued' = queued \/ queued' = queued \cup {p}
          /\ excused' = excused \ {p} \/ excused' = excused \cup {p}
      BY <1>5 DEF SaveFile
    <3>2. queued \subseteq Sources /\ excused \subseteq Sources /\ p \in Sources
      BY DEF Events, Sources
    <3>. QED BY ONLY <3>1, <3>2
  <2>3. Events'
    BY <1>5, <2>d DEF Events, SaveFile
  <2>4. Models'
    BY <1>5 DEF Models, Sources, SaveFile
  <2>. QED BY <2>1, <2>2, <2>3, <2>4, TypeJoin
<1>. QED BY <1>1, <1>2, <1>3, <1>4, <1>5 DEF Edit

\* A write of the cache leaves one of the right type.
LEMMA SavedType ==
  ASSUME Flags, Models, NEW o, o \in [Sources -> Nat], NEW e, e \in [Pkgs -> SUBSET Pkgs],
         NEW st, st \in [Pkgs -> Nat], Saved(o, e, st)
  PROVE  /\ cached' \in BOOLEAN /\ saved' \in BOOLEAN
         /\ cown' \in [Pkgs -> Nat] /\ cseen' \in [Pkgs -> SUBSET Pkgs]
         /\ cstamp' \in [Pkgs -> Nat]
<1>1. cached' \in BOOLEAN /\ saved' \in BOOLEAN
  BY Zenon DEF Saved, Flags
<1>2. cown' \in [Pkgs -> Nat] /\ cseen' \in [Pkgs -> SUBSET Pkgs] /\ cstamp' \in [Pkgs -> Nat]
  BY DEF Saved, Models, Sources
<1>. QED BY <1>1, <1>2

\* So does writeModelCache with the model and the stamps of the moment.
LEMMA SaveModelsType ==
  ASSUME Flags, Files, Models, SaveModels
  PROVE  /\ cached' \in BOOLEAN /\ saved' \in BOOLEAN
         /\ cown' \in [Pkgs -> Nat] /\ cseen' \in [Pkgs -> SUBSET Pkgs]
         /\ cstamp' \in [Pkgs -> Nat]
<1>1. [p \in Pkgs |-> src[p]] \in [Pkgs -> Nat]
  BY DEF Files, Sources
<1>2. own \in [Sources -> Nat] /\ seen \in [Pkgs -> SUBSET Pkgs]
  BY DEF Models
<1>. QED BY <1>1, <1>2, SavedType DEF SaveModels

LEMMA TypeLoad == TypeOK /\ Load => TypeOK'
<1>. SUFFICES ASSUME Flags, Files, Events, Models, Load PROVE TypeOK'
  BY TypeParts
<1>. USE DEF treeVars, eventVars, batchVars, saveVars, modelVars
<1>1. CASE Start
  <2>1. Flags'
    BY <1>1, Zenon DEF Flags, Start, cacheVars
  <2>2. Files'
    BY <1>1 DEF Files, Sources, Start, cacheVars
  <2>3. Events'
    BY <1>1 DEF Events, Sources, Stage, Loading, Serving, Start, cacheVars
  <2>4. Models'
    BY <1>1 DEF Models, Sources, Start, cacheVars
  <2>. QED BY <2>1, <2>2, <2>3, <2>4, TypeJoin
<1>2. CASE Scan
  <2>1. Flags'
    BY <1>2, Zenon DEF Flags, Scan, cacheVars
  <2>2. Files'
    BY <1>2 DEF Files, Sources, Scan, cacheVars
  <2>3. Events'
    BY <1>2 DEF Events, Sources, Stage, Loading, Serving, Scan, cacheVars
  <2>4. Models'
    BY <1>2 DEF Models, Files, Sources, Scan, cacheVars
  <2>. QED BY <2>1, <2>2, <2>3, <2>4, TypeJoin
<1>3. CASE ReadStale
  <2>a. Stale \in SUBSET Pkgs
    BY DEF Stale
  <2>b. own' \in [Sources -> Nat]
    BY <1>3, <2>a DEF ReadStale, Files, Models, Sources
  <2>c. seen' \in [Pkgs -> SUBSET Pkgs]
    BY <1>3, <2>a, EdgesType DEF ReadStale, Models
  <2>d. Saved(own', seen', scanned) /\ scanned \in [Pkgs -> Nat]
    BY <1>3 DEF ReadStale, Models
  <2>e. /\ cached' \in BOOLEAN /\ saved' \in BOOLEAN
        /\ cown' \in [Pkgs -> Nat] /\ cseen' \in [Pkgs -> SUBSET Pkgs]
        /\ cstamp' \in [Pkgs -> Nat]
    BY <2>b, <2>c, <2>d, SavedType
  <2>1. Flags'
    BY <1>3, <2>e, Zenon DEF Flags, ReadStale
  <2>2. Files'
    BY <1>3 DEF Files, Sources, ReadStale
  <2>3. Events'
    BY <1>3 DEF Events, Sources, Stage, Loading, Serving, ReadStale
  <2>4. Models'
    BY <1>3, <2>b, <2>c, <2>e DEF Models, ReadStale
  <2>. QED BY <2>1, <2>2, <2>3, <2>4, TypeJoin
<1>4. CASE ReadAll
  <2>1. Flags'
    BY <1>4, Zenon DEF Flags, ReadAll, cacheVars
  <2>2. Files'
    BY <1>4 DEF Files, Sources, ReadAll, cacheVars
  <2>3. Events'
    BY <1>4 DEF Events, Sources, Stage, Loading, Serving, ReadAll, cacheVars
  <2>4. Models'
    BY <1>4, EdgesType DEF Models, Files, Sources, Present, ReadAll, cacheVars
  <2>. QED BY <2>1, <2>2, <2>3, <2>4, TypeJoin
<1>5. CASE SaveAll
  <2>0. SaveModels
    BY <1>5 DEF SaveAll, Save
  <2>1. Flags'
    BY <1>5, <2>0, SaveModelsType, Zenon DEF Flags, SaveAll, Save
  <2>2. Files'
    BY <1>5 DEF Files, Sources, SaveAll
  <2>3. Events'
    BY <1>5 DEF Events, Sources, Stage, Loading, Serving, SaveAll
  <2>4. Models'
    BY <1>5, <2>0, SaveModelsType DEF Models, SaveAll, Save
  <2>. QED BY <2>1, <2>2, <2>3, <2>4, TypeJoin
<1>6. CASE ReadOverlay
  <2>1. Flags'
    BY <1>6, Zenon DEF Flags, ReadOverlay, cacheVars
  <2>2. Files'
    BY <1>6 DEF Files, Sources, ReadOverlay, cacheVars
  <2>3. Events'
    BY <1>6 DEF Events, Sources, Stage, Loading, Serving, ReadOverlay, cacheVars
  <2>4. Models'
    BY <1>6 DEF Models, Files, Sources, ReadOverlay, cacheVars
  <2>. QED BY <2>1, <2>2, <2>3, <2>4, TypeJoin
<1>7. CASE Watch
  <2>1. Flags'
    BY <1>7, Zenon DEF Flags, Watch, cacheVars
  <2>2. Files'
    BY <1>7 DEF Files, Sources, Watch, cacheVars
  <2>3. Events'
    BY <1>7 DEF Events, Sources, Stage, Loading, Serving, Watch, cacheVars
  <2>4. Models'
    BY <1>7 DEF Models, Sources, Watch, cacheVars
  <2>. QED BY <2>1, <2>2, <2>3, <2>4, TypeJoin
<1>. QED BY <1>1, <1>2, <1>3, <1>4, <1>5, <1>6, <1>7 DEF Load

LEMMA TypeRun == TypeOK /\ Run => TypeOK'
<1>. SUFFICES ASSUME Flags, Files, Events, Models, Run PROVE TypeOK'
  BY TypeParts
<1>. USE DEF treeVars, eventVars, batchVars, saveVars, modelVars
<1>1. ASSUME NEW p \in Pkgs, TakeDir(p) PROVE TypeOK'
  <2>1. Flags'
    BY <1>1, Zenon DEF Flags, TakeDir, cacheVars
  <2>2. Files'
    BY <1>1 DEF Files, Sources, TakeDir, cacheVars
  <2>3. Events'
    BY <1>1 DEF Events, Sources, Stage, Loading, Serving, TakeDir, cacheVars
  <2>4. Models'
    BY <1>1 DEF Models, Sources, TakeDir, cacheVars
  <2>. QED BY <2>1, <2>2, <2>3, <2>4, TypeJoin
<1>2. ASSUME NEW s \in Sources, TakeFile(s) PROVE TypeOK'
  <2>1. Flags'
    BY <1>2, Zenon DEF Flags, TakeFile, cacheVars
  <2>2. Files'
    BY <1>2 DEF Files, Sources, TakeFile, cacheVars
  <2>3. Events'
    BY <1>2 DEF Events, Sources, Stage, Loading, Serving, TakeFile, cacheVars
  <2>4. Models'
    BY <1>2 DEF Models, Sources, TakeFile, cacheVars
  <2>. QED BY <2>1, <2>2, <2>3, <2>4, TypeJoin
<1>3. CASE Flush
  <2>0. dirty' \in BOOLEAN
    BY <1>3 DEF Flush
  <2>1. Flags'
    BY <1>3, <2>0, Zenon DEF Flags, Flush, cacheVars
  <2>2. Files'
    BY <1>3 DEF Files, Sources, Flush, cacheVars
  <2>3. Events'
    BY <1>3, OwnersOfBatch DEF Events, Sources, Stage, Serving, Flush
  <2>4. Models'
    BY <1>3 DEF Models, Sources, Flush, cacheVars
  <2>. QED BY <2>1, <2>2, <2>3, <2>4, TypeJoin
<1>4. ASSUME NEW p \in Pkgs, Reload(p) PROVE TypeOK'
  <2>a. own' \in [Sources -> Nat] /\ told' \in [Sources -> Nat]
    BY <1>4 DEF Models, Files, Sources, Reload, Spliced
  <2>b. seen' \in [Pkgs -> SUBSET Pkgs]
    <3>1. seen' = [seen EXCEPT ![p] = Edges(p, {p})]
      BY <1>4 DEF Reload, Spliced
    <3>2. Edges(p, {p}) \in SUBSET Pkgs
      BY EdgesType
    <3>3. seen \in [Pkgs -> SUBSET Pkgs]
      BY DEF Models
    <3>. HIDE <1>4
    <3>. QED BY ONLY <3>1, <3>2, <3>3
  <2>1. Flags'
    BY <1>4, Zenon DEF Flags, Reload, Spliced, cacheVars
  <2>2. Files'
    BY <1>4 DEF Files, Sources, Reload, Spliced, cacheVars
  <2>3. Events'
    BY <1>4 DEF Events, Sources, Stage, Loading, Serving, Reload, Spliced, cacheVars
  <2>4. Models'
    BY <1>4, <2>a, <2>b DEF Models, Reload, cacheVars
  <2>. QED BY <2>1, <2>2, <2>3, <2>4, TypeJoin
<1>5. ASSUME NEW p \in Pkgs, ReloadFails(p) PROVE TypeOK'
  <2>a. own' \in [Sources -> Nat] /\ told' \in [Sources -> Nat]
    <3>1. CASE own[p] = 0
      BY <1>5, <3>1 DEF Models, ReloadFails, Dropped
    <3>2. CASE own[p] # 0
      <4>1. own' \in [Sources -> Nat]
        <5>1. own' = [own EXCEPT ![p] = 0]
          BY <1>5, <3>2 DEF ReloadFails, Dropped
        <5>2. own \in [Sources -> Nat]
          BY DEF Models
        <5>. QED BY ONLY <5>1, <5>2
      <4>. QED BY <1>5, <4>1 DEF Models, ReloadFails
    <3>. QED BY <3>1, <3>2
  <2>b. seen' \in [Pkgs -> SUBSET Pkgs]
    BY <1>5 DEF Models, ReloadFails, Dropped
  <2>1. Flags'
    BY <1>5, Zenon DEF Flags, ReloadFails, Dropped, cacheVars
  <2>2. Files'
    BY <1>5 DEF Files, Sources, ReloadFails, Dropped, cacheVars
  <2>3. Events'
    BY <1>5 DEF Events, Sources, Stage, Loading, Serving, ReloadFails, Dropped, cacheVars
  <2>4. Models'
    BY <1>5, <2>a, <2>b DEF Models, ReloadFails, cacheVars
  <2>. QED BY <2>1, <2>2, <2>3, <2>4, TypeJoin
<1>6. CASE Save
  <2>0. SaveModels
    BY <1>6 DEF SaveAll, Save
  <2>1. Flags'
    BY <1>6, <2>0, SaveModelsType, Zenon DEF Flags, SaveAll, Save
  <2>2. Files'
    BY <1>6 DEF Files, Sources, Save
  <2>3. Events'
    BY <1>6 DEF Events, Sources, Stage, Loading, Serving, Save
  <2>4. Models'
    BY <1>6, <2>0, SaveModelsType DEF Models, SaveAll, Save
  <2>. QED BY <2>1, <2>2, <2>3, <2>4, TypeJoin
<1>7. CASE Publish
  <2>1. Flags'
    BY <1>7, Zenon DEF Flags, Publish, cacheVars
  <2>2. Files'
    BY <1>7 DEF Files, Sources, Publish, cacheVars
  <2>3. Events'
    BY <1>7 DEF Events, Sources, Stage, Loading, Serving, Publish, cacheVars
  <2>4. Models'
    BY <1>7 DEF Models, Sources, Publish, cacheVars
  <2>. QED BY <2>1, <2>2, <2>3, <2>4, TypeJoin
<1>8. CASE ReloadOverlay
  <2>a. own' \in [Sources -> Nat] /\ told' \in [Sources -> Nat]
    <3>1. src[Overlay] \in Nat
      BY DEF Files, Sources
    <3>2. own' \in [Sources -> Nat]
      BY <1>8, <3>1 DEF Models, ReloadOverlay
    <3>. QED BY <1>8, <3>2 DEF Models, ReloadOverlay
  <2>b. seen' \in [Pkgs -> SUBSET Pkgs]
    BY <1>8 DEF Models, ReloadOverlay
  <2>1. Flags'
    BY <1>8, Zenon DEF Flags, ReloadOverlay, cacheVars
  <2>2. Files'
    BY <1>8 DEF Files, Sources, ReloadOverlay, cacheVars
  <2>3. Events'
    BY <1>8 DEF Events, Sources, Stage, Loading, Serving, ReloadOverlay, cacheVars
  <2>4. Models'
    BY <1>8, <2>a, <2>b DEF Models, ReloadOverlay, cacheVars
  <2>. QED BY <2>1, <2>2, <2>3, <2>4, TypeJoin
<1>9. CASE EndBatch
  <2>1. Flags'
    BY <1>9, Zenon DEF Flags, EndBatch, cacheVars
  <2>2. Files'
    BY <1>9 DEF Files, Sources, EndBatch, cacheVars
  <2>3. Events'
    BY <1>9 DEF Events, Sources, Stage, Loading, Serving, EndBatch, cacheVars
  <2>4. Models'
    BY <1>9 DEF Models, Sources, EndBatch, cacheVars
  <2>. QED BY <2>1, <2>2, <2>3, <2>4, TypeJoin
<1>. QED BY <1>1, <1>2, <1>3, <1>4, <1>5, <1>6, <1>7, <1>8, <1>9 DEF Run

LEMMA TypeHandle == TypeOK /\ Handle => TypeOK'
<1>. SUFFICES ASSUME Flags, Files, Events, Models, Handle PROVE TypeOK'
  BY TypeParts
<1>. USE DEF treeVars, eventVars, batchVars
<1>1. ASSUME NEW p \in Pkgs, NEW q \in Pkgs, NEW v \in Nat, NEW e \in SUBSET Pkgs,
             Reparse(p, q, v, e), excused' = excused \ {q} \/ excused' = excused \cup {q}
      PROVE  TypeOK'
  <2>a. own' \in [Sources -> Nat]
    <3>1. own' = [own EXCEPT ![q] = v] /\ own \in [Sources -> Nat]
      BY <1>1 DEF Reparse, Models
    <3>. QED BY ONLY <3>1, v \in Nat
  <2>b. seen' \in [Pkgs -> SUBSET Pkgs]
    <3>1. seen' = [seen EXCEPT ![q] = e] /\ seen \in [Pkgs -> SUBSET Pkgs]
      BY <1>1 DEF Reparse, Models
    <3>. QED BY ONLY <3>1, e \in SUBSET Pkgs
  <2>1. Flags'
    BY <1>1, Zenon DEF Flags, Reparse, cacheVars
  <2>2. Files'
    BY <1>1 DEF Files, Reparse
  <2>3. Events'
    <3>1. storing' \in Pkgs \cup {None}
      BY <1>1 DEF Reparse
    <3>. QED BY <1>1, <3>1 DEF Events, Sources, Reparse
  <2>4. Models'
    BY <1>1, <2>a, <2>b DEF Models, Reparse, cacheVars
  <2>. QED BY <2>1, <2>2, <2>3, <2>4, TypeJoin
<1>2. ASSUME NEW p \in Pkgs, SaveReloads(p) PROVE TypeOK'
  <2>1. PICK q \in Pkgs : Reparse(p, q, src[q], Edges(q, {q})) /\ excused' = excused \ {q}
    BY <1>2, FoundType DEF SaveReloads
  <2>2. src[q] \in Nat
    BY DEF Files, Sources
  <2>3. Edges(q, {q}) \in SUBSET Pkgs
    BY EdgesType
  <2>. HIDE DEF treeVars, eventVars, batchVars
  <2>. QED BY <1>1, <2>1, <2>2, <2>3
<1>3. ASSUME NEW p \in Pkgs, SaveReloadFails(p) PROVE TypeOK'
  <2>1. PICK q \in Pkgs : /\ Reparse(p, q, 0, IF own[q] = 0 THEN seen[q] ELSE {})
                         /\ excused' = excused \cup {q}
    BY <1>3, FoundType DEF SaveReloadFails
  <2>2. (IF own[q] = 0 THEN seen[q] ELSE {}) \in SUBSET Pkgs
    BY DEF Models
  <2>. QED BY <1>1, <2>1, <2>2
<1>. USE DEF modelVars
<1>4. ASSUME NEW p \in Pkgs, SaveIsNobodys(p) PROVE TypeOK'
  <2>1. Flags'
    BY <1>4, Zenon DEF Flags, SaveIsNobodys, cacheVars
  <2>2. Files'
    BY <1>4 DEF Files, SaveIsNobodys
  <2>3. Events'
    BY <1>4 DEF Events, SaveIsNobodys
  <2>4. Models'
    BY <1>4 DEF Models, SaveIsNobodys, cacheVars
  <2>. QED BY <2>1, <2>2, <2>3, <2>4, TypeJoin
<1>5. ASSUME NEW p \in Pkgs, SavePublishes(p) PROVE TypeOK'
  <2>1. Flags'
    BY <1>5, Zenon DEF Flags, SavePublishes, cacheVars
  <2>2. Files'
    BY <1>5 DEF Files, SavePublishes
  <2>3. Events'
    BY <1>5 DEF Events, SavePublishes
  <2>4. Models'
    BY <1>5 DEF Models, SavePublishes, cacheVars
  <2>. QED BY <2>1, <2>2, <2>3, <2>4, TypeJoin
<1>6. CASE SaveStores
  <2>0. SaveModels
    BY <1>6 DEF SaveStores
  <2>1. Flags'
    BY <1>6, <2>0, SaveModelsType, Zenon DEF Flags, SaveStores
  <2>2. Files'
    BY <1>6 DEF Files, SaveStores
  <2>3. Events'
    BY <1>6 DEF Events, SaveStores
  <2>4. Models'
    BY <1>6, <2>0, SaveModelsType DEF Models, SaveStores
  <2>. QED BY <2>1, <2>2, <2>3, <2>4, TypeJoin
<1>. QED BY <1>2, <1>3, <1>4, <1>5, <1>6 DEF Handle

LEMMA DownType ==
  ASSUME Flags, Files, Events, Models, Down, stops' \in Nat
  PROVE  TypeOK'
<1>. USE DEF Down
<1>1. Flags'
  BY Zenon DEF Flags, cacheVars
<1>2. Files'
  BY DEF Files
<1>3. Events'
  BY DEF Events, Stage
<1>4. Models'
  BY DEF Models, cacheVars, NoModel, NoEdges, Sources
<1>. QED BY <1>1, <1>2, <1>3, <1>4, TypeJoin

LEMMA TypeEnd == TypeOK /\ (Exit \/ Cancel \/ Crash) => TypeOK'
<1>. SUFFICES ASSUME Flags, Files, Events, Models, Exit \/ Cancel \/ Crash PROVE TypeOK'
  BY TypeParts
<1>1. CASE Exit
  BY <1>1, DownType DEF Exit, Files
<1>2. CASE Crash
  BY <1>2, DownType DEF Crash, Files
<1>3. CASE Cancel
  <2>1. Flags'
    BY <1>3, Zenon DEF Flags, Cancel, batchVars, cacheVars
  <2>2. Files'
    BY <1>3 DEF Files, Cancel, treeVars
  <2>3. Events'
    BY <1>3 DEF Events, Cancel, eventVars, batchVars, saveVars
  <2>4. Models'
    BY <1>3 DEF Models, Cancel, modelVars, cacheVars
  <2>. QED BY <2>1, <2>2, <2>3, <2>4, TypeJoin
<1>. QED BY <1>1, <1>2, <1>3

LEMMA TypeNext == TypeOK /\ [Next]_vars => TypeOK'
<1>1. TypeOK /\ UNCHANGED vars => TypeOK'
  BY DEF TypeOK, vars
<1>. QED BY <1>1, TypeEdit, TypeLoad, TypeRun, TypeHandle, TypeEnd DEF Next, Daemon

\* ModelReload: every variable keeps its type.
THEOREM TypeCorrect == Spec => []TypeOK
  BY TypeInit, TypeNext, PTL DEF Spec

-----------------------------------------------------------------------------
(* The parts of the inductive invariant, one at a time. *)

\* Edits: what changes is queued or excused, and nothing else is touched.
LEMMA NoticeFrame ==
  ASSUME TypeOK, NEW x \in Sources, Notice(x)
  PROVE  /\ x \in queued' \/ x \in excused'
         /\ queued \subseteq queued'
         /\ \A s \in Sources : s # x /\ s \in excused => s \in excused'
  BY DEF Notice

LEMMA EditFrame ==
  ASSUME Edit
  PROVE  UNCHANGED <<batchVars, storing, unsaid, modelVars, cacheVars, pending, stage, told>>
  BY DEF Edit, Write, Remove, MakeDir, RemoveDir, SaveFile, outsideVars, saveVars

LEMMA EditedSource ==
  ASSUME TypeOK, Edit
  PROVE  /\ queued \subseteq queued'
         /\ \A s \in Sources :
              \/ src'[s] = src[s] /\ (s \in excused => s \in excused')
              \/ s \in queued' \/ s \in excused'
<1>. USE DEF outsideVars
<1>1. ASSUME NEW x \in Sources, Write(x) \/ Remove(x) \/ SaveFile(x)
      PROVE  /\ queued \subseteq queued'
             /\ \A s \in Sources :
                  \/ src'[s] = src[s] /\ (s \in excused => s \in excused')
                  \/ s \in queued' \/ s \in excused'
  <2>1. Notice(x)
    BY <1>1 DEF Write, Remove, SaveFile
  <2>2. \A s \in Sources : s # x => src'[s] = src[s]
    BY <1>1 DEF Write, Remove, SaveFile, TypeOK
  <2>. QED BY <2>1, <2>2, NoticeFrame
<1>2. ASSUME NEW p \in Pkgs, MakeDir(p) \/ RemoveDir(p)
      PROVE  UNCHANGED <<src, queued, excused>>
  BY <1>2 DEF MakeDir, RemoveDir
<1>3. Saveable \subseteq Sources
  BY DEF Sources
<1>. QED BY <1>1, <1>2, <1>3 DEF Edit

LEMMA LostEdit == TypeOK /\ NoEditIsLost /\ Edit => NoEditIsLost'
<1>. SUFFICES ASSUME TypeOK, NoEditIsLost, Edit, stage' \in Serving,
                     NEW s \in Sources, Exists(s)', own'[s] # src'[s]
              PROVE  OnTheWay(s)' \/ s \in excused'
  BY DEF NoEditIsLost
<1>1. /\ own' = own /\ pending' = pending /\ todo' = todo /\ dirty' = dirty
      /\ stage' = stage
  BY EditFrame DEF batchVars, modelVars
<1>2. CASE s \in queued' \/ s \in excused'
  BY <1>2 DEF OnTheWay
<1>3. CASE src'[s] = src[s] /\ (s \in excused => s \in excused')
  <2>1. OnTheWay(s) \/ s \in excused
    BY <1>1, <1>3 DEF NoEditIsLost, Exists
  <2>. QED BY <1>1, <1>3, <2>1, EditedSource DEF OnTheWay
<1>. QED BY <1>2, <1>3, EditedSource

LEMMA LostLoad == TypeOK /\ NoEditIsLost /\ LoadsAreRight /\ Load => NoEditIsLost'
<1>. SUFFICES ASSUME TypeOK, NoEditIsLost, LoadsAreRight, Load, stage' \in Serving,
                     NEW s \in Sources, Exists(s)', own'[s] # src'[s]
              PROVE  OnTheWay(s)' \/ s \in excused'
  BY DEF NoEditIsLost
<1>. USE DEF Serving, treeVars, eventVars, batchVars, modelVars
<1>1. CASE ReadOverlay
  <2>1. s # Overlay
    BY <1>1 DEF ReadOverlay, TypeOK
  <2>2. s \in Pkgs /\ own[s] # src[s] /\ src[s] # 0
    BY <1>1, <2>1 DEF ReadOverlay, Exists, Sources, TypeOK
  <2>3. s \in excused
    BY <1>1, <2>2 DEF LoadsAreRight, ReadOverlay
  <2>. QED BY <1>1, <2>1, <2>3 DEF ReadOverlay
<1>2. CASE Watch
  <2>1. stage \in Serving
    BY <1>2 DEF Watch
  <2>2. OnTheWay(s) \/ s \in excused
    BY <1>2, <2>1 DEF NoEditIsLost, Exists, Watch
  <2>. QED BY <1>2, <2>2 DEF OnTheWay, Watch
<1>3. CASE ~ReadOverlay /\ ~Watch
  BY <1>3 DEF Load, Start, Scan, ReadStale, ReadAll, SaveAll
<1>. QED BY <1>1, <1>2, <1>3

LEMMA LostRun == TypeOK /\ NoEditIsLost /\ BatchKnows /\ Run => NoEditIsLost'
<1>. SUFFICES ASSUME TypeOK, NoEditIsLost, BatchKnows, Run,
                     NEW s \in Sources, Exists(s)', own'[s] # src'[s]
              PROVE  OnTheWay(s)' \/ s \in excused'
  BY DEF NoEditIsLost
<1>. USE DEF treeVars, eventVars, batchVars, saveVars, modelVars
<1>1. stage \in Serving /\ src' = src
  BY DEF Run, TakeDir, TakeFile, Flush, Reload, ReloadFails, Save, Publish, ReloadOverlay,
         EndBatch, Serving
<1>2. own[s] # src[s] => OnTheWay(s) \/ s \in excused
  BY <1>1 DEF NoEditIsLost, Exists
<1>3. ASSUME NEW p \in Pkgs, TakeDir(p) PROVE OnTheWay(s)' \/ s \in excused'
  BY <1>1, <1>2, <1>3 DEF TakeDir, OnTheWay
<1>4. ASSUME NEW x \in Sources, TakeFile(x) PROVE OnTheWay(s)' \/ s \in excused'
  BY <1>1, <1>2, <1>4 DEF TakeFile, OnTheWay
<1>5. CASE Flush
  <2>1. todo = {} /\ ~dirty
    BY <1>5 DEF Flush, BatchKnows
  <2>2. CASE s \in pending /\ s # Overlay
    <3>1. s \in Pkgs /\ src[s] # 0
      BY <1>1, <2>2 DEF Sources, Exists
    <3>2. s \in todo'
      BY <1>5, <2>2, <3>1, OwnersOfBatch DEF Flush
    <3>. QED BY <3>2 DEF OnTheWay
  <2>3. CASE ~(s \in pending /\ s # Overlay)
    BY <1>1, <1>2, <1>5, <2>1, <2>3 DEF Flush, OnTheWay
  <2>. QED BY <2>2, <2>3
<1>6. ASSUME NEW p \in Pkgs, Reload(p) PROVE OnTheWay(s)' \/ s \in excused'
  <2>1. s # p
    BY <1>1, <1>6 DEF Reload, Spliced, TypeOK, Sources
  <2>2. own'[s] = own[s]
    BY <1>6, <2>1 DEF Reload, Spliced, TypeOK
  <2>. QED BY <1>1, <1>2, <1>6, <2>1, <2>2 DEF Reload, OnTheWay
<1>7. ASSUME NEW p \in Pkgs, ReloadFails(p) PROVE OnTheWay(s)' \/ s \in excused'
  <2>1. CASE s = p
    BY <1>7, <2>1 DEF ReloadFails
  <2>2. CASE s # p
    <3>1. own'[s] = own[s]
      BY <1>7, <2>2 DEF ReloadFails, Dropped, TypeOK
    <3>. QED BY <1>1, <1>2, <1>7, <2>2, <3>1 DEF ReloadFails, OnTheWay
  <2>. QED BY <2>1, <2>2
<1>8. CASE Save
  BY <1>1, <1>2, <1>8 DEF Save, OnTheWay
<1>9. CASE Publish
  BY <1>1, <1>2, <1>9 DEF Publish, OnTheWay
<1>10. CASE ReloadOverlay
  <2>1. CASE s = Overlay
    <3>1. s \in excused'
      BY <1>1, <1>10, <2>1 DEF ReloadOverlay, TypeOK
    <3>. QED BY <3>1
  <2>2. CASE s # Overlay
    <3>1. own'[s] = own[s]
      BY <1>10, <2>2 DEF ReloadOverlay, TypeOK
    <3>. QED BY <1>1, <1>2, <1>10, <2>2, <3>1 DEF ReloadOverlay, OnTheWay
  <2>. QED BY <2>1, <2>2
<1>11. CASE EndBatch
  BY <1>1, <1>2, <1>11 DEF EndBatch, OnTheWay
<1>. QED BY <1>3, <1>4, <1>5, <1>6, <1>7, <1>8, <1>9, <1>10, <1>11 DEF Run

\* Saves are handled while the daemon serves, and leave the tree and the batch alone.
LEMMA HandleFrame ==
  ASSUME BatchKnows, Handle
  PROVE  stage \in Serving /\ UNCHANGED <<treeVars, eventVars, batchVars, stage>>
<1>1. saves # {} \/ storing # None \/ unsaid # {}
  BY DEF Handle, SaveReloads, SaveReloadFails, MayReload, SaveIsNobodys, SavePublishes,
         SaveStores
<1>2. UNCHANGED <<treeVars, eventVars, batchVars, stage>>
  BY DEF Handle, SaveReloads, SaveReloadFails, Reparse, SaveIsNobodys, SavePublishes,
         SaveStores
<1>. QED BY <1>1, <1>2 DEF BatchKnows

LEMMA LostHandle == TypeOK /\ NoEditIsLost /\ BatchKnows /\ Handle => NoEditIsLost'
<1>. SUFFICES ASSUME TypeOK, NoEditIsLost, BatchKnows, Handle, stage' \in Serving,
                     NEW s \in Sources, Exists(s)', own'[s] # src'[s]
              PROVE  OnTheWay(s)' \/ s \in excused'
  BY DEF NoEditIsLost
<1>. USE DEF treeVars, eventVars, batchVars, modelVars
<1>1. stage \in Serving /\ UNCHANGED <<src, queued, pending, todo, dirty>>
  BY HandleFrame
<1>2. own[s] # src[s] => OnTheWay(s)' \/ s \in excused
  BY <1>1 DEF NoEditIsLost, Exists, OnTheWay
<1>3. ASSUME NEW p \in Pkgs, SaveReloads(p) PROVE OnTheWay(s)' \/ s \in excused'
  <2>1. PICK q \in Pkgs : Reparse(p, q, src[q], Edges(q, {q})) /\ excused' = excused \ {q}
    BY <1>3, FoundType DEF SaveReloads
  <2>2. own' = [own EXCEPT ![q] = src[q]]
    BY <2>1 DEF Reparse
  <2>3. s # q /\ own'[s] = own[s]
    BY <1>1, <2>2 DEF TypeOK, Sources
  <2>. QED BY <1>1, <1>2, <2>1, <2>3
<1>4. ASSUME NEW p \in Pkgs, SaveReloadFails(p) PROVE OnTheWay(s)' \/ s \in excused'
  <2>1. PICK q \in Pkgs : /\ Reparse(p, q, 0, IF own[q] = 0 THEN seen[q] ELSE {})
                         /\ excused' = excused \cup {q}
    BY <1>4, FoundType DEF SaveReloadFails
  <2>2. own' = [own EXCEPT ![q] = 0]
    BY <2>1 DEF Reparse
  <2>3. s = q \/ own'[s] = own[s]
    BY <2>2 DEF TypeOK
  <2>. QED BY <1>1, <1>2, <2>1, <2>3
<1>5. CASE SaveStores \/ \E p \in Pkgs : SaveIsNobodys(p) \/ SavePublishes(p)
  BY <1>1, <1>2, <1>5 DEF SaveStores, SaveIsNobodys, SavePublishes
<1>. QED BY <1>3, <1>4, <1>5 DEF Handle

\* Cancel changes nothing the invariant reads; Exit and Crash end in "down".
LEMMA EndFrame ==
  ASSUME Exit \/ Cancel \/ Crash
  PROVE  \/ /\ stage' = "down" /\ changed' = {} /\ todo' = {} /\ ~dirty'
            /\ unsaid' = {} /\ storing' = None /\ saves' = {}
         \/ UNCHANGED <<src, own, told, queued, pending, todo, dirty, changed, stage, excused,
                        saveVars, saved, cown>>
<1>1. CASE Exit \/ Crash
  BY <1>1 DEF Exit, Crash, Down
<1>2. CASE Cancel
  BY <1>2 DEF Cancel, treeVars, eventVars, batchVars, modelVars, cacheVars
<1>. QED BY <1>1, <1>2

LEMMA LostPreserved == IInv /\ [Next]_vars => NoEditIsLost'
<1>. SUFFICES ASSUME TypeOK, NoEditIsLost, LoadsAreRight, BatchKnows, [Next]_vars
              PROVE  NoEditIsLost'
  BY DEF IInv
<1>1. CASE Exit \/ Cancel \/ Crash
  BY <1>1, EndFrame DEF NoEditIsLost, OnTheWay, Exists, Serving
<1>2. CASE UNCHANGED vars
  BY <1>2 DEF vars, NoEditIsLost, OnTheWay, Exists
<1>. QED BY <1>1, <1>2, LostEdit, LostLoad, LostRun, LostHandle DEF Next, Daemon

\* A load is right about the packages it has read.
LEMMA RightLoad == TypeOK /\ LoadsAreRight /\ Load => LoadsAreRight'
<1>. SUFFICES ASSUME TypeOK, LoadsAreRight, Load, stage' \in {"stamp", "overlay"},
                     NEW p \in Pkgs, own'[p] # src'[p], src'[p] # 0
              PROVE  p \in excused'
  BY DEF LoadsAreRight
<1>. USE DEF treeVars, modelVars
<1>1. CASE ReadStale
  <2>1. src' = src
    BY <1>1 DEF ReadStale
  <2>2. own'[p] = IF scanned[p] = 0 THEN 0 ELSE IF p \in Stale THEN src[p] ELSE cown[p]
    BY <1>1 DEF ReadStale, Sources
  <2>3. p \notin Stale
    <3>1. p \in Stale => scanned[p] # 0
      BY DEF Stale
    <3>. QED BY <2>1, <2>2, <3>1
  <2>4. src[p] # scanned[p] \/ cown[p] # cstamp[p]
    <3>1. CASE scanned[p] = 0
      BY <2>1, <3>1
    <3>2. CASE scanned[p] # 0
      <4>1. cstamp[p] = scanned[p]
        BY <2>3, <3>2 DEF Stale
      <4>. QED BY <2>1, <2>2, <2>3, <3>2, <4>1
    <3>. QED BY <3>1, <3>2
  <2>. QED BY <1>1, <2>3, <2>4 DEF ReadStale
<1>2. CASE ReadAll
  BY <1>2 DEF ReadAll, Sources
<1>3. CASE SaveAll
  BY <1>3 DEF SaveAll, LoadsAreRight
<1>4. CASE Start \/ Scan \/ ReadOverlay \/ Watch
  BY <1>4 DEF Start, Scan, ReadOverlay, Watch
<1>. QED BY <1>1, <1>2, <1>3, <1>4 DEF Load

LEMMA RightPreserved == IInv /\ [Next]_vars => LoadsAreRight'
<1>. SUFFICES ASSUME TypeOK, LoadsAreRight, NothingIsWatched, BatchKnows, [Next]_vars
              PROVE  LoadsAreRight'
  BY DEF IInv
<1>1. CASE Edit
  <2>. SUFFICES ASSUME stage' \in {"stamp", "overlay"}, NEW p \in Pkgs, own'[p] # src'[p],
                       src'[p] # 0
                PROVE  p \in excused'
    BY DEF LoadsAreRight
  <2>1. own' = own /\ stage' = stage
    BY <1>1, EditFrame DEF modelVars
  <2>2. CASE src'[p] = src[p] /\ (p \in excused => p \in excused')
    BY <2>1, <2>2 DEF LoadsAreRight
  <2>3. CASE src'[p] # src[p]
    <3>1. PICK x \in Sources : (Write(x) \/ Remove(x)) /\ x = p
      <4>1. ASSUME NEW x \in Sources, Write(x) \/ Remove(x), x # p PROVE FALSE
        <5>1. src' = [src EXCEPT ![x] = edits'] \/ src' = [src EXCEPT ![x] = 0]
          BY <4>1 DEF Write, Remove
        <5>2. src \in [Sources -> Nat]
          BY DEF TypeOK
        <5>. QED BY <2>3, <4>1, <5>1, <5>2 DEF Sources
      <4>2. ASSUME NEW q \in Pkgs, MakeDir(q) \/ RemoveDir(q) PROVE FALSE
        BY <2>3, <4>2 DEF MakeDir, RemoveDir
      <4>3. ASSUME NEW q \in Saveable, SaveFile(q) PROVE FALSE
        BY <2>1, <4>3 DEF SaveFile, Serving
      <4>. QED BY <1>1, <4>1, <4>2, <4>3 DEF Edit
    <3>2. Notice(p) /\ Home(p) = p
      BY <3>1 DEF Write, Remove, Home
    <3>3. dir[p] # "watched"
      BY <2>1 DEF NothingIsWatched, Loading
    <3>. QED BY <3>2, <3>3 DEF Notice
  <2>4. CASE src'[p] = src[p] /\ p \in excused /\ p \notin excused'
    <3>1. PICK x \in Sources : (Write(x) \/ Remove(x)) /\ x = p
      <4>1. ASSUME NEW x \in Sources, Write(x) \/ Remove(x) PROVE x = p
        BY <2>4, <4>1 DEF Write, Remove, Notice
      <4>2. ASSUME NEW q \in Saveable, SaveFile(q) PROVE FALSE
        BY <2>1, <4>2 DEF SaveFile, Serving
      <4>. QED BY <1>1, <2>4, <4>1, <4>2 DEF Edit, MakeDir, RemoveDir
    <3>2. Notice(p) /\ Home(p) = p
      BY <3>1 DEF Write, Remove, Home
    <3>3. dir[p] # "watched"
      BY <2>1 DEF NothingIsWatched, Loading
    <3>. QED BY <2>4, <3>2, <3>3 DEF Notice
  <2>. QED BY <2>2, <2>3, <2>4
<1>2. CASE Run
  BY <1>2 DEF Run, TakeDir, TakeFile, Flush, Reload, ReloadFails, Save, Publish,
              ReloadOverlay, EndBatch, LoadsAreRight, Spliced, Dropped
<1>3. CASE Exit \/ Cancel \/ Crash
  BY <1>3, EndFrame DEF LoadsAreRight
<1>4. CASE UNCHANGED vars
  BY <1>4 DEF vars, LoadsAreRight
<1>5. CASE Handle
  BY <1>5, HandleFrame DEF LoadsAreRight, Serving
<1>. QED BY <1>1, <1>2, <1>3, <1>4, <1>5, RightLoad DEF Next, Daemon

LEMMA WatchedPreserved == IInv /\ [Next]_vars => NothingIsWatched'
<1>. SUFFICES ASSUME TypeOK, NothingIsWatched, BatchKnows, [Next]_vars, NEW p \in Pkgs,
                     stage' \in {"down", "watch"} \cup Loading
              PROVE  dir'[p] # "watched"
  BY DEF IInv, NothingIsWatched
<1>. USE DEF treeVars, Loading
<1>1. CASE Edit
  <2>1. stage' = stage
    BY <1>1, EditFrame
  <2>2. dir[p] # "watched"
    BY <2>1 DEF NothingIsWatched
  <2>3. dir'[p] = dir[p] \/ dir'[p] \in {"bare", "absent"}
    <3>1. ASSUME NEW q \in Pkgs, MakeDir(q) \/ RemoveDir(q)
          PROVE  dir'[p] = dir[p] \/ dir'[p] \in {"bare", "absent"}
      <4>1. dir' = [dir EXCEPT ![q] = "bare"] \/ dir' = [dir EXCEPT ![q] = "absent"]
        BY <3>1 DEF MakeDir, RemoveDir
      <4>2. dir \in [Pkgs -> {"absent", "bare", "watched"}]
        BY DEF TypeOK
      <4>. QED BY <4>1, <4>2
    <3>2. ASSUME NEW x \in Sources, Write(x) \/ Remove(x) PROVE dir'[p] = dir[p]
      BY <3>2 DEF Write, Remove
    <3>3. ASSUME NEW q \in Saveable, SaveFile(q) PROVE dir'[p] = dir[p]
      BY <3>3 DEF SaveFile
    <3>. QED BY <1>1, <3>1, <3>2, <3>3 DEF Edit
  <2>. QED BY <2>2, <2>3
<1>2. CASE Load
  <2>1. dir' = dir /\ stage \in {"down", "watch"} \cup Loading
    BY <1>2 DEF Load, Start, Scan, ReadStale, ReadAll, SaveAll, ReadOverlay, Watch
  <2>. QED BY <2>1 DEF NothingIsWatched
<1>3. CASE Run
  BY <1>3 DEF Run, TakeDir, TakeFile, Flush, Reload, ReloadFails, Save, Publish,
              ReloadOverlay, EndBatch, Spliced, Dropped, modelVars
<1>4. CASE Exit \/ Crash
  <2>1. dir' = [q \in Pkgs |-> IF dir[q] = "watched" THEN "bare" ELSE dir[q]]
    BY <1>4 DEF Exit, Crash, Down
  <2>. QED BY <2>1
<1>5. CASE Cancel
  BY <1>5 DEF Cancel
<1>6. CASE UNCHANGED vars
  BY <1>6 DEF vars, NothingIsWatched
<1>7. CASE Handle
  BY <1>7, HandleFrame DEF NothingIsWatched
<1>. QED BY <1>1, <1>2, <1>3, <1>4, <1>5, <1>6, <1>7 DEF Next, Daemon

\* What subscribers have not been told of is in the batch or with a save, and a batch
\* is over when its stage is.
LEMMA KnowsRun == TypeOK /\ BatchKnows /\ Run => BatchKnows'
<1>. SUFFICES ASSUME TypeOK, BatchKnows, Run PROVE BatchKnows'
  OBVIOUS
<1>. USE DEF BatchKnows, treeVars, eventVars, batchVars, saveVars, modelVars, Serving
<1>1. ASSUME NEW p \in Pkgs, TakeDir(p) PROVE BatchKnows'
  BY <1>1 DEF TakeDir
<1>2. ASSUME NEW x \in Sources, TakeFile(x) PROVE BatchKnows'
  BY <1>2 DEF TakeFile
<1>3. CASE Flush
  BY <1>3 DEF Flush
<1>4. ASSUME NEW p \in Pkgs, Reload(p) PROVE BatchKnows'
  <2>1. \A s \in Sources : s # p => own'[s] = own[s]
    BY <1>4 DEF Reload, Spliced, TypeOK
  <2>2. p \in changed' \/ own'[p] = own[p]
    BY <1>4 DEF Reload, Spliced, TypeOK, Sources
  <2>3. changed \subseteq changed' /\ stage' \in {"batch", "save"} /\ told' = told
    BY <1>4 DEF Reload, Spliced
  <2>. QED BY <1>4, <2>1, <2>2, <2>3 DEF Reload
<1>5. ASSUME NEW p \in Pkgs, ReloadFails(p) PROVE BatchKnows'
  <2>1. \A s \in Sources : s # p => own'[s] = own[s]
    BY <1>5 DEF ReloadFails, Dropped, TypeOK
  <2>2. p \in changed' \/ own'[p] = own[p]
    BY <1>5 DEF ReloadFails, Dropped, TypeOK, Sources
  <2>3. changed \subseteq changed' /\ stage' \in {"batch", "save"} /\ told' = told
    BY <1>5 DEF ReloadFails, Dropped
  <2>. QED BY <1>5, <2>1, <2>2, <2>3 DEF ReloadFails
<1>6. CASE Save
  BY <1>6 DEF Save
<1>7. CASE Publish
  BY <1>7 DEF Publish
<1>8. CASE ReloadOverlay
  BY <1>8 DEF ReloadOverlay
<1>9. CASE EndBatch
  BY <1>9 DEF EndBatch
<1>. QED BY <1>1, <1>2, <1>3, <1>4, <1>5, <1>6, <1>7, <1>8, <1>9 DEF Run

LEMMA KnowsEdit == BatchKnows /\ Edit => BatchKnows'
<1>. SUFFICES ASSUME BatchKnows, Edit PROVE BatchKnows'
  OBVIOUS
<1>1. UNCHANGED <<changed, todo, dirty, storing, unsaid, own, told, stage>>
  BY EditFrame DEF batchVars, modelVars
<1>2. saves' = saves \/ stage \in Serving
  BY DEF Edit, Write, Remove, MakeDir, RemoveDir, SaveFile, outsideVars, saveVars
<1>. QED BY <1>1, <1>2 DEF BatchKnows

LEMMA KnowsHandle == TypeOK /\ BatchKnows /\ Handle => BatchKnows'
<1>. SUFFICES ASSUME TypeOK, BatchKnows, Handle PROVE BatchKnows'
  OBVIOUS
<1>1. stage \in Serving /\ UNCHANGED <<changed, todo, dirty, stage>>
  BY HandleFrame DEF batchVars
<1>2. \A s \in Sources : own[s] # told[s] => s \in changed \cup unsaid \/ s = storing
  BY <1>1 DEF BatchKnows
<1>. SUFFICES \A s \in Sources : own'[s] # told'[s] => s \in changed \cup unsaid' \/ s = storing'
  BY <1>1 DEF BatchKnows
<1>3. ASSUME NEW p \in Pkgs, NEW q \in Pkgs, NEW v, NEW e, storing = None, Reparse(p, q, v, e)
      PROVE  \A s \in Sources : own'[s] # told'[s] => s \in changed \cup unsaid' \/ s = storing'
  <2>1. \A s \in Sources : s # q => own'[s] = own[s]
    BY <1>3 DEF Reparse, TypeOK
  <2>2. q \in Sources /\ (own'[q] = own[q] \/ storing' = q)
    BY <1>3 DEF Reparse, TypeOK, Sources
  <2>3. UNCHANGED <<told, unsaid>>
    BY <1>3 DEF Reparse
  <2>. QED BY <1>2, <1>3, <2>1, <2>2, <2>3
<1>4. ASSUME NEW p \in Pkgs, SaveReloads(p) \/ SaveReloadFails(p)
      PROVE  \A s \in Sources : own'[s] # told'[s] => s \in changed \cup unsaid' \/ s = storing'
  <2>1. storing = None
    BY <1>4 DEF SaveReloads, SaveReloadFails, MayReload
  <2>2. CASE SaveReloads(p)
    <3>1. PICK q \in Pkgs : Reparse(p, q, src[q], Edges(q, {q}))
      BY <2>2, FoundType DEF SaveReloads
    <3>. QED BY <1>3, <2>1, <3>1
  <2>3. CASE SaveReloadFails(p)
    <3>1. PICK q \in Pkgs : Reparse(p, q, 0, IF own[q] = 0 THEN seen[q] ELSE {})
      BY <2>3, FoundType DEF SaveReloadFails
    <3>. QED BY <1>3, <2>1, <3>1
  <2>. QED BY <1>4, <2>2, <2>3
<1>5. ASSUME NEW p \in Pkgs, SaveIsNobodys(p) \/ SavePublishes(p)
      PROVE  \A s \in Sources : own'[s] # told'[s] => s \in changed \cup unsaid' \/ s = storing'
  BY <1>2, <1>5 DEF SaveIsNobodys, SavePublishes, modelVars
<1>6. CASE SaveStores
  BY <1>2, <1>6 DEF SaveStores, modelVars
<1>. QED BY <1>4, <1>5, <1>6 DEF Handle

LEMMA KnowsPreserved == IInv /\ [Next]_vars => BatchKnows'
<1>. SUFFICES ASSUME TypeOK, BatchKnows, [Next]_vars PROVE BatchKnows'
  BY DEF IInv
<1>1. CASE Edit
  BY <1>1, KnowsEdit
<1>2. CASE Load
  <2>. USE DEF BatchKnows, Serving, Loading, treeVars, eventVars, batchVars, saveVars, modelVars
  <2>1. CASE ReadOverlay
    BY <2>1 DEF ReadOverlay
  <2>2. CASE Watch
    BY <2>2 DEF Watch
  <2>3. CASE ~ReadOverlay /\ ~Watch
    BY <1>2, <2>3 DEF Load, Start, Scan, ReadStale, ReadAll, SaveAll
  <2>. QED BY <2>1, <2>2, <2>3
<1>3. CASE Exit \/ Cancel \/ Crash
  BY <1>3, EndFrame DEF BatchKnows, Serving, saveVars
<1>4. CASE UNCHANGED vars
  BY <1>4 DEF vars, BatchKnows
<1>. QED BY <1>1, <1>2, <1>3, <1>4, KnowsRun, KnowsHandle DEF Next, Daemon

\* The cache follows the model at each write.
LEMMA CachePreserved == IInv /\ [Next]_vars => CacheHoldsModel'
<1>. SUFFICES ASSUME TypeOK, BatchKnows, CacheHoldsModel, [Next]_vars,
                     stage' \in {"overlay", "watch", "idle", "batch"}, storing' = None, saved',
                     NEW p \in Pkgs
              PROVE  cown'[p] = own'[p]
  BY DEF IInv, CacheHoldsModel
<1>. USE DEF treeVars, eventVars, batchVars, saveVars, modelVars
<1>1. CASE Edit
  BY <1>1, EditFrame DEF CacheHoldsModel, cacheVars
<1>2. CASE ReadStale \/ SaveAll \/ Save \/ SaveStores
  <2>1. cown' = [q \in Pkgs |-> own'[q]]
    BY <1>2 DEF ReadStale, SaveAll, Save, SaveStores, SaveModels, Saved
  <2>. QED BY <2>1
<1>3. CASE ReadOverlay
  <2>1. own'[p] = own[p]
    BY <1>3 DEF ReadOverlay, TypeOK, Sources
  <2>. QED BY <1>3, <2>1 DEF ReadOverlay, CacheHoldsModel, cacheVars
<1>4. CASE Start \/ Scan \/ ReadAll \/ Watch
  BY <1>4 DEF Start, Scan, ReadAll, Watch, CacheHoldsModel, cacheVars
<1>5. CASE Run /\ ~Save
  <2>1. UNCHANGED <<storing, cown, saved>>
    BY <1>5 DEF Run, TakeDir, TakeFile, Flush, Reload, ReloadFails, Publish, ReloadOverlay,
                EndBatch, cacheVars
  <2>2. own'[p] = own[p] /\ stage \in {"overlay", "watch", "idle", "batch"}
    <3>1. ASSUME NEW q \in Pkgs, Reload(q) PROVE own'[p] = own[p]
      BY <3>1 DEF Reload, Spliced, TypeOK, Sources
    <3>2. ASSUME NEW q \in Pkgs, ReloadFails(q) PROVE own'[p] = own[p]
      BY <3>2 DEF ReloadFails, Dropped
    <3>3. CASE ReloadOverlay
      BY <3>3, RootAssumption DEF ReloadOverlay, TypeOK, Sources
    <3>4. ASSUME NEW q \in Pkgs, TakeDir(q) PROVE own'[p] = own[p]
      BY <3>4 DEF TakeDir
    <3>5. ASSUME NEW x \in Sources, TakeFile(x) PROVE own'[p] = own[p]
      BY <3>5 DEF TakeFile
    <3>6. CASE Flush \/ Publish \/ EndBatch
      BY <3>6 DEF Flush, Publish, EndBatch
    <3>7. stage \in {"overlay", "watch", "idle", "batch"}
      BY <1>5 DEF Run, TakeDir, TakeFile, Flush, Reload, ReloadFails, Publish, ReloadOverlay,
                  EndBatch
    <3>. QED BY <1>5, <3>1, <3>2, <3>3, <3>4, <3>5, <3>6, <3>7 DEF Run
  <2>. QED BY <2>1, <2>2 DEF CacheHoldsModel
<1>6. CASE Exit \/ Cancel \/ Crash
  BY <1>6, EndFrame DEF CacheHoldsModel
<1>7. CASE UNCHANGED vars
  BY <1>7 DEF vars, CacheHoldsModel
<1>8. ASSUME NEW x \in Pkgs, NEW q \in Pkgs, NEW v, NEW e, MayReload(x), Reparse(x, q, v, e)
      PROVE  cown'[p] = own'[p]
  <2>1. own'[p] = own[p]
    <3>1. storing' = IF own[q] = v /\ seen[q] = e THEN None ELSE q
      BY <1>8 DEF Reparse
    <3>2. own[q] = v
      BY <3>1 DEF Sources
    <3>3. own' = [own EXCEPT ![q] = v] /\ own \in [Sources -> Nat]
      BY <1>8 DEF Reparse, TypeOK
    <3>. QED BY <3>2, <3>3 DEF Sources
  <2>2. storing = None /\ UNCHANGED <<stage, saved, cown>>
    BY <1>8 DEF MayReload, Reparse, cacheVars
  <2>. QED BY <2>1, <2>2 DEF CacheHoldsModel
<1>9. CASE Handle /\ ~SaveStores
  <2>1. ASSUME NEW x \in Pkgs, SaveReloads(x) PROVE cown'[p] = own'[p]
    <3>1. PICK q \in Pkgs : MayReload(x) /\ Reparse(x, q, src[q], Edges(q, {q}))
      BY <2>1, FoundType DEF SaveReloads
    <3>. QED BY <1>8, <3>1
  <2>2. ASSUME NEW x \in Pkgs, SaveReloadFails(x) PROVE cown'[p] = own'[p]
    <3>1. PICK q \in Pkgs :
            MayReload(x) /\ Reparse(x, q, 0, IF own[q] = 0 THEN seen[q] ELSE {})
      BY <2>2, FoundType DEF SaveReloadFails
    <3>. QED BY <1>8, <3>1
  <2>3. ASSUME NEW x \in Pkgs, SaveIsNobodys(x) \/ SavePublishes(x) PROVE cown'[p] = own'[p]
    BY <2>3 DEF SaveIsNobodys, SavePublishes, CacheHoldsModel, cacheVars
  <2>. QED BY <1>9, <2>1, <2>2, <2>3 DEF Handle
<1>. QED BY <1>1, <1>2, <1>3, <1>4, <1>5, <1>6, <1>7, <1>9 DEF Next, Daemon, Load

-----------------------------------------------------------------------------
(* The theorems. *)

\* The inductive invariant of the module.
THEOREM Invariance == Spec => []IInv
<1>1. Init => IInv
  <2>. SUFFICES ASSUME Init PROVE IInv
    OBVIOUS
  <2>1. /\ stage = "down" /\ changed = {} /\ todo = {} /\ ~dirty
        /\ saves = {} /\ storing = None /\ unsaid = {}
    BY DEF Init
  <2>2. NothingIsWatched
    BY DEF Init, NothingIsWatched
  <2>. QED BY <2>1, <2>2, TypeInit
           DEF IInv, NoEditIsLost, LoadsAreRight, BatchKnows, CacheHoldsModel, Serving
<1>2. IInv /\ [Next]_vars => IInv'
  <2>1. IInv => TypeOK
    BY DEF IInv
  <2>2. IInv' <=> /\ TypeOK' /\ NoEditIsLost' /\ LoadsAreRight' /\ NothingIsWatched'
                  /\ BatchKnows' /\ CacheHoldsModel'
    BY DEF IInv
  <2>. QED BY <2>1, <2>2, TypeNext, LostPreserved, RightPreserved, WatchedPreserved,
              KnowsPreserved, CachePreserved
<1>. QED BY <1>1, <1>2, PTL DEF Spec

\* Watcher and handler: no edit the watcher could see is lost.
THEOREM NoEditIsLostHolds == Spec => []NoEditIsLost
<1>1. IInv => NoEditIsLost
  BY DEF IInv
<1>. QED BY <1>1, Invariance, PTL

\* buildHandler: after each batch, subscribers have been told of the model.
THEOREM SubscribersAreToldHolds == Spec => []SubscribersAreTold
<1>1. IInv => SubscribersAreTold
  BY DEF IInv, SubscribersAreTold, BatchKnows, Serving
<1>. QED BY <1>1, Invariance, PTL

\* ReloadPackage and the model cache: a package that is served as it is on disk is
\* cached as it is on disk.
THEOREM NextStartIsCurrentHolds == Spec => []NextStartIsCurrent
<1>1. IInv => NextStartIsCurrent
  <2>. SUFFICES ASSUME IInv, stage = "idle", storing = None, saved,
                       NEW p \in Present, ~OnTheWay(p),
                       p \notin excused
                PROVE  cown[p] = src[p]
    BY DEF NextStartIsCurrent
  <2>1. p \in Sources /\ p \in Pkgs /\ Exists(p)
    BY DEF Present, Sources, Exists
  <2>2. own[p] = src[p]
    BY <2>1 DEF IInv, NoEditIsLost, Serving
  <2>. QED BY <2>1, <2>2 DEF IInv, CacheHoldsModel
<1>. QED BY <1>1, Invariance, PTL
=============================================================================
