----------------------------- MODULE Search_proofs -----------------------------
(***************************************************************************)
(* Proofs about semantic search: Retrieval, the indexes of one worktree,    *)
(* for every set of nodes, versions and shapes, and VecStore, the shared    *)
(* vectors beneath them, for every set of daemons, namespaces and hashes.   *)
(* The two have nothing in common but the module.                           *)
(***************************************************************************)
EXTENDS Retrieval, VecStore, TLAPS

-----------------------------------------------------------------------------
(* The indexes of a worktree. *)

Models == [Nodes -> Versions \cup {None}]
Entries == [Nodes -> Texts \cup {None}]
Caches == [Texts -> Texts \cup {None}]
Places == {"off", "graph", "embed", "finish", "saveVectors", "saveLexical", "saveCache"} \cup Loops

IndexTypeOK ==
  /\ source \in Models /\ model \in Models /\ graph \in Models
  /\ edits \in Nat
  /\ up \in BOOLEAN /\ pending \in BOOLEAN /\ dense \in BOOLEAN /\ overlapped \in BOOLEAN
  /\ doc \in Entries /\ hash \in Entries /\ vec \in Entries /\ diskDocs \in Entries
  /\ vcache \in Caches /\ diskCache \in Caches
  /\ diskVectors \in [Nodes -> (Texts \cup {None}) \X (Texts \cup {None})]
  /\ at \in [Workers -> Places]
  /\ nodes \in [Workers -> Models]
  /\ todo \in [Workers -> SUBSET Nodes] /\ need \in [Workers -> SUBSET Nodes]
  /\ want \in [Workers -> Entries] /\ text \in [Workers -> Entries]

(* What State.packages holds differs from the source only if the watcher knows. *)
ModelIsKnown ==
  /\ up /\ ~pending => Modelled(source) = Modelled(model)
  /\ ~up => ~pending /\ \A w \in Workers : at[w] = "off"

(* A vector is of the shape that its hash is of, in memory and on disk. *)
VectorsFit ==
  /\ \A t \in Texts : vcache[t] # None => vcache[t][1] = t[1]
  /\ \A t \in Texts : diskCache[t] # None => diskCache[t][1] = t[1]
  /\ \A n \in Nodes : hash[n] # None => vec[n] # None /\ vec[n][1] = hash[n][1]
  /\ \A n \in Nodes :
       diskVectors[n][1] # None =>
         diskVectors[n][2] # None /\ diskVectors[n][2][1] = diskVectors[n][1][1]

(* A worker visits nodes it was given, and what it computed is of their shape. *)
OfShape(w, entries) ==
  \A n \in Nodes : entries[n] # None => nodes[w][n] # None /\ entries[n][1] = Shape[nodes[w][n]]
WorkFits(w) ==
  /\ w = "index" => at[w] # "remove"
  /\ w = "refresh" => at[w] # "prune"
  /\ at[w] \in {"off", "graph"} => want[w] = Nothing /\ text[w] = Nothing /\ need[w] = {}
  /\ at[w] \in {"lex", "hash"} => todo[w] \subseteq Present(nodes[w])
  /\ at[w] = "prune" => todo[w] \cap Present(nodes[w]) = {}
  /\ at[w] \in {"cached", "chunk", "store"} => todo[w] \subseteq need[w]
  /\ OfShape(w, want[w]) /\ OfShape(w, text[w])
  /\ \A n \in need[w] : want[w][n] # None
  /\ at[w] = "chunk" => \A n \in need[w] \ todo[w] : text[w][n] # None
  /\ at[w] \in {"embed", "store"} => \A n \in need[w] : text[w][n] # None

(* Without an overlap one worker runs at a time, on the model of now, and the *)
(* background index has not been turned off.                                  *)
Indexing == {"graph", "lex", "hash", "prune", "cached", "chunk", "embed", "store", "finish"}
OneWorks ==
  ~overlapped =>
    /\ at["index"] = "off" \/ at["refresh"] = "off"
    /\ \A w \in Workers : at[w] # "off" => nodes[w] = model
    /\ at["index"] \in Indexing => dense

(* A worker has yet to see to the node's document, its vector, or the vector it left. *)
Unlexed(w, n) ==
  \/ at[w] = "remove"
  \/ at[w] = "graph" /\ w = "index"
  \/ at[w] = "lex" /\ n \in todo[w]
Unembedded(w, n) ==
  \/ at[w] \in {"remove", "lex"}
  \/ at[w] = "graph" /\ w = "index"
  \/ at[w] = "hash" /\ (n \in todo[w] \/ n \in need[w])
  \/ at[w] \in {"prune", "cached", "chunk", "embed"} /\ n \in need[w]
  \/ at[w] = "store" /\ n \in todo[w]
Left(w, n) ==
  \/ at[w] \in {"graph", "lex", "hash"} /\ w = "index"
  \/ at[w] \in {"remove", "prune"} /\ n \in todo[w]

GraphFollows == ~overlapped /\ at["refresh"] = "off" /\ at["index"] # "graph" => graph = model
DocsFollow ==
  ~overlapped =>
    \A n \in Nodes :
      \/ model[n] = None
      \/ doc[n] # None /\ doc[n][1] = Shape[model[n]]
      \/ \E w \in Workers : Unlexed(w, n)
VectorsFollow ==
  ~overlapped /\ dense =>
    \A n \in Nodes :
      /\ \/ model[n] = None
         \/ hash[n] # None /\ hash[n][1] = Shape[model[n]]
         \/ \E w \in Workers : Unembedded(w, n)
      /\ \/ model[n] # None
         \/ hash[n] = None
         \/ \E w \in Workers : Left(w, n)

IndexInv ==
  /\ IndexTypeOK
  /\ ModelIsKnown
  /\ VectorsFit
  /\ \A w \in Workers : WorkFits(w)
  /\ OneWorks
  /\ GraphFollows /\ DocsFollow /\ VectorsFollow

-----------------------------------------------------------------------------
(* The parts the steps are made of. *)

LEMMA NothingFits ==
  /\ Nothing \in Models /\ Nothing \in Entries /\ Present(Nothing) = {}
  /\ [w \in Workers |-> Nothing] \in [Workers -> Models]
  /\ [w \in Workers |-> Nothing] \in [Workers -> Entries]
  /\ [t \in Texts |-> None] \in Caches
  /\ [n \in Nodes |-> <<None, None>>] \in [Nodes -> (Texts \cup {None}) \X (Texts \cup {None})]
BY DEF Nothing, Models, Entries, Caches, Present

LEMMA PresentNodes == ASSUME NEW m \in Models PROVE Present(m) \subseteq Nodes
BY DEF Present

LEMMA TextTypes ==
  ASSUME IndexTypeOK, NEW w \in Workers, NEW n \in Present(nodes[w])
  PROVE  /\ TextNow(w, n) \in Texts
         /\ TextNow(w, n) # None
         /\ TextNow(w, n)[1] = Shape[nodes[w][n]]
<1>1. nodes[w][n] \in Versions /\ source[n] \in Versions \cup {None}
    BY DEF IndexTypeOK, Models, Present
<1> QED
    BY <1>1, ShapeAssumption, NoneAssumption DEF TextNow, Texts

(* What a load takes from the files has its hash's shape. *)
LEMMA SeededFits ==
  ASSUME IndexTypeOK, VectorsFit
  PROVE  /\ Seeded \in Caches
         /\ \A t \in Texts : Seeded[t] # None => Seeded[t][1] = t[1]
<1> SUFFICES ASSUME NEW t \in Texts
             PROVE  Seeded[t] \in Texts \cup {None} /\ (Seeded[t] # None => Seeded[t][1] = t[1])
    BY DEF Seeded, Caches
<1> DEFINE same == {n \in Nodes : diskVectors[n][1] = t}
           chosen == CHOOSE n \in same : TRUE
<1>0. Seeded[t] = IF diskCache[t] # None THEN diskCache[t]
                  ELSE IF same = {} THEN None ELSE diskVectors[chosen][2]
    BY DEF Seeded
<1>1. CASE diskCache[t] # None
    BY <1>0, <1>1 DEF IndexTypeOK, Caches, VectorsFit
<1>2. CASE diskCache[t] = None /\ same = {}
    BY <1>0, <1>2
<1>3. CASE diskCache[t] = None /\ same # {}
  <2>1. chosen \in same
      BY <1>3
  <2>2. chosen \in Nodes /\ diskVectors[chosen][1] = t /\ t # None
      BY <2>1, NoneAssumption
  <2>3. diskVectors[chosen][2] \in Texts \cup {None}
      BY <2>2 DEF IndexTypeOK
  <2> QED
      BY <1>0, <1>3, <2>2, <2>3 DEF VectorsFit
<1> QED
    BY <1>1, <1>2, <1>3

(* What follows each loop. *)
LEMMA AfterLoop ==
  ASSUME NEW w \in Workers, WorkFits(w), at[w] \in Loops
  PROVE  /\ at[w] = "remove" => After(w) = <<"lex", Present(nodes[w])>>
         /\ at[w] = "lex" => After(w) = <<"hash", Present(nodes[w])>>
         /\ at[w] = "hash" /\ w = "index"
              => After(w) = <<"prune", Present(hash) \ Present(nodes[w])>>
         /\ at[w] = "hash" /\ w = "refresh" => After(w) = <<"cached", need[w]>>
         /\ at[w] = "prune" => After(w) = <<"cached", need[w]>>
         /\ at[w] = "cached" /\ need[w] # {} => After(w) = <<"chunk", need[w]>>
         /\ at[w] = "cached" /\ need[w] = {} => After(w) = <<"finish", {}>>
         /\ at[w] = "chunk" => After(w) = <<"embed", {}>>
         /\ at[w] = "store" => After(w) = <<"finish", {}>>
<1>1. CASE at[w] = "remove"
    BY <1>1 DEF After
<1>2. CASE at[w] = "lex"
    BY <1>2 DEF After
<1>3. CASE at[w] = "hash"
    BY <1>3 DEF After, Workers
<1>4. CASE at[w] = "prune"
    BY <1>4 DEF After
<1>5. CASE at[w] = "cached"
    BY <1>5 DEF After
<1>6. CASE at[w] \in {"chunk", "store"}
    BY <1>6 DEF After
<1> QED
    BY <1>1, <1>2, <1>3, <1>4, <1>5, <1>6 DEF Loops

LEMMA AfterTypes ==
  ASSUME IndexTypeOK, NEW w \in Workers, WorkFits(w), at[w] \in Loops
  PROVE  After(w)[1] \in Places \ {"off", "graph"} /\ After(w)[2] \subseteq Nodes
<1>1. /\ Present(nodes[w]) \subseteq Nodes /\ need[w] \subseteq Nodes
      /\ Present(hash) \ Present(nodes[w]) \subseteq Nodes
    BY DEF IndexTypeOK, Present
<1>2. \/ After(w) = <<"lex", Present(nodes[w])>>
      \/ After(w) = <<"hash", Present(nodes[w])>>
      \/ After(w) = <<"prune", Present(hash) \ Present(nodes[w])>>
      \/ After(w) = <<"cached", need[w]>>
      \/ After(w) = <<"chunk", need[w]>>
      \/ After(w) = <<"finish", {}>>
      \/ After(w) = <<"embed", {}>>
    BY AfterLoop DEF Loops, Workers
<1> QED
    BY <1>1, <1>2 DEF Places, Loops

-----------------------------------------------------------------------------
LEMMA IndexInit == Init => IndexInv
<1> SUFFICES ASSUME Init PROVE IndexInv
    OBVIOUS
<1>1. IndexTypeOK
    BY NothingFits DEF Init, IndexTypeOK, Places, Models
<1>2. ModelIsKnown
    BY DEF Init, ModelIsKnown
<1>3. VectorsFit
    BY DEF Init, VectorsFit, Nothing
<1>4. \A w \in Workers : WorkFits(w)
    BY DEF Init, WorkFits, OfShape, Nothing
<1>5. OneWorks
    BY DEF Init, OneWorks, Workers, Indexing
<1>6. GraphFollows /\ DocsFollow /\ VectorsFollow
    BY DEF Init, GraphFollows, DocsFollow, VectorsFollow, Nothing
<1> QED
    BY <1>1, <1>2, <1>3, <1>4, <1>5, <1>6 DEF IndexInv

LEMMA IndexTypeStep ==
  IndexTypeOK /\ VectorsFit /\ (\A w \in Workers : WorkFits(w)) /\ [Next]_vars => IndexTypeOK'
<1> SUFFICES ASSUME IndexTypeOK, VectorsFit, \A w \in Workers : WorkFits(w), [Next]_vars
             PROVE  IndexTypeOK'
    OBVIOUS
<1> USE NothingFits
<1>1. CASE UNCHANGED vars
    BY <1>1 DEF IndexTypeOK, vars, indexVars, diskVars, workVars
<1>2. ASSUME NEW n \in Nodes, NEW v \in Versions \cup {None}, Edit(n, v) PROVE IndexTypeOK'
  <2>1. source' \in Models /\ edits' \in Nat /\ pending' \in BOOLEAN
      BY <1>2 DEF IndexTypeOK, Models, Edit
  <2> QED
      BY <1>2, <2>1 DEF IndexTypeOK, Edit, indexVars, diskVars, workVars
<1>3. CASE Start
  <2>1. hash' \in Entries /\ vec' \in Entries
      BY <1>3 DEF IndexTypeOK, Start, Entries
  <2>2. at' \in [Workers -> Places] /\ nodes' \in [Workers -> Models]
      BY <1>3 DEF IndexTypeOK, Start, Places
  <2> QED
      BY <1>3, <2>1, <2>2, SeededFits DEF IndexTypeOK, Start, diskVars
<1>4. CASE Exit
    BY <1>4 DEF IndexTypeOK, Exit, diskVars, Places
<1>5. CASE Reload
  <2>1. Removed \subseteq Nodes
      BY DEF Removed, Present
  <2>2. CASE Modelled(source) = Modelled(model)
      BY <1>5, <2>2 DEF IndexTypeOK, Reload, indexVars, diskVars
  <2>3. CASE Modelled(source) # Modelled(model)
    <3>1. overlapped' \in BOOLEAN
        BY <1>5, <2>3 DEF IndexTypeOK, Reload
    <3>2. at' \in [Workers -> Places] /\ nodes' \in [Workers -> Models]
          /\ todo' \in [Workers -> SUBSET Nodes] /\ model' \in Models
        BY <1>5, <2>1, <2>3 DEF IndexTypeOK, Reload, Places, Loops
    <3> QED
        BY <1>5, <2>3, <3>1, <3>2 DEF IndexTypeOK, Reload, indexVars, diskVars
  <2> QED
      BY <2>2, <2>3
<1>6. ASSUME NEW w \in Workers, Work(w) PROVE IndexTypeOK'
  <2>1. CASE SetGraph(w)
    <3>1. Present(nodes[w]) \subseteq Nodes
        BY DEF Present
    <3>2. /\ graph' \in Models /\ nodes' \in [Workers -> Models]
          /\ at' \in [Workers -> Places] /\ todo' \in [Workers -> SUBSET Nodes]
        BY <2>1, <3>1 DEF IndexTypeOK, SetGraph, Places, Loops
    <3> QED
        BY <2>1, <3>2 DEF IndexTypeOK, SetGraph, indexVars, diskVars
  <2>2. ASSUME NEW n \in Nodes, NEW phase, Visit(w, n, phase), 
               doc' \in Entries, hash' \in Entries, vec' \in Entries, vcache' \in Caches,
               want' \in [Workers -> Entries], text' \in [Workers -> Entries],
               need' \in [Workers -> SUBSET Nodes]
        PROVE  IndexTypeOK'
    <3>1. todo' \in [Workers -> SUBSET Nodes]
        BY <2>2 DEF IndexTypeOK, Visit
    <3> QED
        BY <2>2, <3>1 DEF IndexTypeOK, Visit, diskVars
  <2>3. ASSUME NEW n \in Nodes, Lex(w, n) PROVE IndexTypeOK'
    <3>1. EmbedText(w, n) \in Texts
        BY <2>3, TextTypes DEF Lex, Visit, WorkFits, EmbedText
    <3> QED
        BY <2>2, <2>3, <3>1 DEF IndexTypeOK, Lex, Entries
  <2>4. ASSUME NEW n \in Nodes, Hash(w, n) PROVE IndexTypeOK'
    <3>1. ContentHash(w, n) \in Texts
        BY <2>4, TextTypes DEF Hash, Visit, WorkFits, ContentHash
    <3>2. want' \in [Workers -> Entries] /\ need' \in [Workers -> SUBSET Nodes]
        BY <2>4, <3>1 DEF IndexTypeOK, Hash, Entries
    <3> QED
        BY <2>2, <2>4, <3>2 DEF IndexTypeOK, Hash, indexVars
  <2>5. ASSUME NEW n \in Nodes, TakeCached(w, n) PROVE IndexTypeOK'
    <3>1. want[w][n] \in Texts /\ vcache[want[w][n]] \in Texts \cup {None}
      <4>1. n \in need[w] /\ want[w][n] # None
          BY <2>5 DEF TakeCached, Visit, WorkFits
      <4> QED
          BY <4>1 DEF IndexTypeOK, Entries, Caches
    <3>2. CASE vcache[want[w][n]] = None
        BY <2>2, <2>5, <3>2 DEF IndexTypeOK, TakeCached
    <3>3. CASE vcache[want[w][n]] # None
      <4>1. hash' = [hash EXCEPT ![n] = want[w][n]] /\ vec' = [vec EXCEPT ![n] = vcache[want[w][n]]]
            /\ need' = [need EXCEPT ![w] = @ \ {n}]
          BY <2>5, <3>3 DEF TakeCached
      <4>2. hash' \in Entries /\ vec' \in Entries
          BY <3>1, <4>1 DEF IndexTypeOK, Entries
      <4>3. need' \in [Workers -> SUBSET Nodes]
          BY <4>1 DEF IndexTypeOK
      <4> QED
          BY <2>2, <2>5, <4>2, <4>3 DEF IndexTypeOK, TakeCached
    <3> QED
        BY <3>2, <3>3
  <2>6. ASSUME NEW n \in Nodes, Chunk(w, n) PROVE IndexTypeOK'
    <3>1. n \in Present(nodes[w])
        BY <2>6 DEF Chunk, Visit, WorkFits, OfShape, Present
    <3>2. BuildChunks(w, n) \in Texts
        BY <3>1, TextTypes DEF BuildChunks
    <3>3. text' \in [Workers -> Entries]
        BY <2>6, <3>2 DEF IndexTypeOK, Chunk, Entries
    <3> QED
        BY <2>2, <2>6, <3>3 DEF IndexTypeOK, Chunk, indexVars
  <2>7. ASSUME NEW n \in Nodes, Store(w, n) PROVE IndexTypeOK'
    <3>1. want[w][n] \in Texts \cup {None} /\ text[w][n] \in Texts \cup {None}
        BY DEF IndexTypeOK, Entries
    <3>2. hash' \in Entries /\ vec' \in Entries /\ vcache' \in Caches
        BY <2>7, <3>1 DEF IndexTypeOK, Store, Entries, Caches
    <3> QED
        BY <2>2, <2>7, <3>2 DEF IndexTypeOK, Store
  <2>8. ASSUME NEW n \in Nodes, Remove(n) \/ Prune(n) PROVE IndexTypeOK'
    <3>1. doc' \in Entries /\ hash' \in Entries /\ vec' \in Entries
        BY <2>8 DEF IndexTypeOK, Remove, Prune, Entries
    <3>2. \E v \in Workers : \E phase \in Loops : Visit(v, n, phase)
        BY <2>8 DEF Remove, Prune, Workers, Loops
    <3>3. todo' \in [Workers -> SUBSET Nodes]
        BY <3>2 DEF IndexTypeOK, Visit
    <3> QED
        BY <2>8, <3>1, <3>2, <3>3 DEF IndexTypeOK, Remove, Prune, Visit, diskVars
  <2>9. CASE Proceed(w)
    <3>1. at' \in [Workers -> Places] /\ todo' \in [Workers -> SUBSET Nodes]
        BY <2>9, AfterTypes DEF IndexTypeOK, Proceed
    <3> QED
        BY <2>9, <3>1 DEF IndexTypeOK, Proceed, indexVars, diskVars
  <2>10. CASE Embed(w)
      BY <2>10 DEF IndexTypeOK, Embed, indexVars, diskVars, Places, Loops
  <2>11. CASE EmbedFails(w) \/ Finish(w)
      BY <2>11 DEF IndexTypeOK, EmbedFails, Finish, indexVars, diskVars, workVars, Places, Loops
  <2>12. CASE SaveVectors(w)
    <3>1. diskVectors' \in [Nodes -> (Texts \cup {None}) \X (Texts \cup {None})]
        BY <2>12 DEF IndexTypeOK, SaveVectors, Entries
    <3> QED
        BY <2>12, <3>1 DEF IndexTypeOK, SaveVectors, indexVars, workVars, Places
  <2>13. CASE SaveLexical(w)
      BY <2>13 DEF IndexTypeOK, SaveLexical, indexVars, workVars, Places
  <2>14. CASE SaveCache(w)
    <3>1. /\ at' \in [Workers -> Places] /\ nodes' \in [Workers -> Models]
          /\ todo' \in [Workers -> SUBSET Nodes] /\ need' \in [Workers -> SUBSET Nodes]
          /\ want' \in [Workers -> Entries] /\ text' \in [Workers -> Entries]
        BY <2>14 DEF IndexTypeOK, SaveCache, Places
    <3> QED
        BY <2>14, <3>1 DEF IndexTypeOK, SaveCache, indexVars
  <2> QED
      BY <1>6, <2>1, <2>3, <2>4, <2>5, <2>6, <2>7, <2>8, <2>9, <2>10, <2>11, <2>12, <2>13, <2>14
      DEF Work
<1> QED
    BY <1>1, <1>2, <1>3, <1>4, <1>5, <1>6 DEF Next

-----------------------------------------------------------------------------
(* Whatever changes, the watcher knows of it, or the model has it. *)
LEMMA ModelIsKnownStep ==
  IndexTypeOK /\ ModelIsKnown /\ [Next]_vars => ModelIsKnown'
<1> SUFFICES ASSUME IndexTypeOK, ModelIsKnown, [Next]_vars PROVE ModelIsKnown'
    OBVIOUS
<1>1. CASE UNCHANGED vars
    BY <1>1 DEF ModelIsKnown, Modelled, vars
<1>2. ASSUME NEW n \in Nodes, NEW v \in Versions \cup {None}, Edit(n, v) PROVE ModelIsKnown'
    BY <1>2 DEF IndexTypeOK, ModelIsKnown, Edit
<1>3. CASE Start
    BY <1>3 DEF ModelIsKnown, Modelled, Start
<1>4. CASE Exit
    BY <1>4 DEF ModelIsKnown, Exit
<1>5. CASE Reload
    BY <1>5 DEF ModelIsKnown, Modelled, Reload
<1>6. ASSUME NEW w \in Workers, Work(w) PROVE ModelIsKnown'
  <2>1. UNCHANGED <<source, model, up, pending>>
      BY <1>6 DEF Work, SetGraph, Lex, Hash, TakeCached, Chunk, Store, Remove, Prune, Visit, Proceed,
                  Embed, EmbedFails, Finish, SaveVectors, SaveLexical, SaveCache
  <2>2. at[w] # "off"
      BY <1>6 DEF Work, SetGraph, Lex, Hash, TakeCached, Chunk, Store, Remove, Prune, Visit, Proceed,
                  Embed, EmbedFails, Finish, SaveVectors, SaveLexical, SaveCache, Loops
  <2> QED
      BY <2>1, <2>2 DEF ModelIsKnown, Modelled
<1> QED
    BY <1>1, <1>2, <1>3, <1>4, <1>5, <1>6 DEF Next

(* Hashes and vectors meet only where their shapes agree. *)
LEMMA VectorsFitStep ==
  IndexTypeOK /\ VectorsFit /\ (\A w \in Workers : WorkFits(w)) /\ [Next]_vars => VectorsFit'
<1> SUFFICES ASSUME IndexTypeOK, VectorsFit, \A w \in Workers : WorkFits(w), [Next]_vars
             PROVE  VectorsFit'
    OBVIOUS
<1>0. ASSUME UNCHANGED <<hash, vec, vcache, diskVectors, diskCache>> PROVE VectorsFit'
    BY <1>0 DEF VectorsFit
<1>1. CASE UNCHANGED vars
    BY <1>0, <1>1 DEF vars, indexVars, diskVars
<1>2. ASSUME NEW n \in Nodes, NEW v \in Versions \cup {None}, Edit(n, v) PROVE VectorsFit'
    BY <1>0, <1>2 DEF Edit, indexVars, diskVars
<1>3. CASE Start
    BY <1>3, SeededFits DEF VectorsFit, Start, diskVars
<1>4. CASE Exit
    BY <1>4 DEF VectorsFit, Exit, Nothing, diskVars
<1>5. CASE Reload
    BY <1>0, <1>5 DEF Reload, indexVars, diskVars
<1>6. ASSUME NEW w \in Workers, Work(w) PROVE VectorsFit'
  <2>1. CASE SetGraph(w) \/ Proceed(w) \/ Embed(w) \/ EmbedFails(w) \/ Finish(w) \/ SaveLexical(w)
      BY <1>0, <2>1 DEF SetGraph, Proceed, Embed, EmbedFails, Finish, SaveLexical, indexVars, diskVars
  <2>2. ASSUME NEW n \in Nodes, Lex(w, n) \/ Hash(w, n) \/ Chunk(w, n) PROVE VectorsFit'
      BY <1>0, <2>2 DEF Lex, Hash, Chunk, Visit, indexVars, diskVars
  <2>3. ASSUME NEW n \in Nodes, Remove(n) \/ Prune(n) PROVE VectorsFit'
      BY <2>3 DEF IndexTypeOK, Entries, VectorsFit, Remove, Prune, Visit, diskVars
  <2>4. ASSUME NEW n \in Nodes, TakeCached(w, n) PROVE VectorsFit'
    <3>1. n \in need[w] /\ want[w][n] # None
        BY <2>4 DEF TakeCached, Visit, WorkFits
    <3>2. want[w][n] \in Texts
        BY <3>1 DEF IndexTypeOK, Entries
    <3>3. CASE vcache[want[w][n]] = None
        BY <1>0, <2>4, <3>3 DEF TakeCached, Visit, diskVars
    <3>4. CASE vcache[want[w][n]] # None
      <4>1. vcache[want[w][n]][1] = want[w][n][1]
          BY <3>2, <3>4 DEF VectorsFit
      <4>2. /\ hash' = [hash EXCEPT ![n] = want[w][n]]
            /\ vec' = [vec EXCEPT ![n] = vcache[want[w][n]]]
            /\ UNCHANGED <<vcache, diskVectors, diskCache>>
          BY <2>4, <3>4 DEF TakeCached, Visit, diskVars
      <4> QED
          BY <3>4, <4>1, <4>2 DEF IndexTypeOK, Entries, VectorsFit
    <3> QED
        BY <3>3, <3>4
  <2>5. ASSUME NEW n \in Nodes, Store(w, n) PROVE VectorsFit'
    <3>1. n \in need[w] /\ want[w][n] # None /\ text[w][n] # None
        BY <2>5 DEF Store, Visit, WorkFits
    <3>2. want[w][n][1] = text[w][n][1]
        BY <3>1 DEF WorkFits, OfShape
    <3>3. /\ hash' = [hash EXCEPT ![n] = want[w][n]] /\ vec' = [vec EXCEPT ![n] = text[w][n]]
          /\ vcache' = [vcache EXCEPT ![want[w][n]] = IF @ = None THEN text[w][n] ELSE @]
          /\ UNCHANGED <<diskVectors, diskCache>>
        BY <2>5 DEF Store, Visit, diskVars
    <3>4. \A t \in Texts : vcache'[t] # None => vcache'[t][1] = t[1]
        BY <3>2, <3>3 DEF IndexTypeOK, Caches, VectorsFit
    <3>5. \A m \in Nodes : hash'[m] # None => vec'[m] # None /\ vec'[m][1] = hash'[m][1]
        BY <3>1, <3>2, <3>3 DEF IndexTypeOK, Entries, VectorsFit
    <3> QED
        BY <3>3, <3>4, <3>5 DEF VectorsFit
  <2>6. CASE SaveVectors(w)
      BY <2>6 DEF IndexTypeOK, Entries, VectorsFit, SaveVectors, indexVars
  <2>7. CASE SaveCache(w)
      BY <2>7 DEF VectorsFit, SaveCache, indexVars
  <2> QED
      BY <1>6, <2>1, <2>2, <2>3, <2>4, <2>5, <2>6, <2>7 DEF Work
<1> QED
    BY <1>1, <1>2, <1>3, <1>4, <1>5, <1>6 DEF Next

(* A worker's loops go over what it was given, whatever else goes on. *)
LEMMA WorkFitsStep ==
  IndexTypeOK /\ ModelIsKnown /\ (\A w \in Workers : WorkFits(w)) /\ [Next]_vars
    => \A w \in Workers : WorkFits(w)'
<1> SUFFICES ASSUME IndexTypeOK, ModelIsKnown, \A w \in Workers : WorkFits(w), [Next]_vars,
                    NEW x \in Workers
             PROVE  WorkFits(x)'
    OBVIOUS
<1>0. ASSUME /\ at'[x] = at[x] /\ nodes'[x] = nodes[x] /\ todo'[x] = todo[x]
             /\ need'[x] = need[x] /\ want'[x] = want[x] /\ text'[x] = text[x]
      PROVE  WorkFits(x)'
    BY <1>0 DEF WorkFits, OfShape, Present
<1>1. CASE UNCHANGED vars
    BY <1>0, <1>1 DEF vars, workVars
<1>2. ASSUME NEW n \in Nodes, NEW v \in Versions \cup {None}, Edit(n, v) PROVE WorkFits(x)'
    BY <1>0, <1>2 DEF Edit, workVars
<1>3. CASE Start
  <2>1. CASE x = "refresh"
      BY <1>0, <1>3, <2>1 DEF IndexTypeOK, Start
  <2>2. CASE x = "index"
    <3>1. at[x] = "off" /\ at'[x] = "graph"
        BY <1>3, <2>2 DEF IndexTypeOK, ModelIsKnown, Start
    <3>2. want'[x] = Nothing /\ text'[x] = Nothing /\ need'[x] = {}
        BY <1>3, <3>1 DEF WorkFits, Start
    <3> QED
        BY <3>1, <3>2 DEF WorkFits, OfShape, Nothing
  <2> QED
      BY <2>1, <2>2 DEF Workers
<1>4. CASE Exit
    BY <1>4 DEF WorkFits, OfShape, Exit, Nothing
<1>5. CASE Reload
  <2>1. CASE x = "index" \/ Modelled(source) = Modelled(model)
      BY <1>0, <1>5, <2>1 DEF IndexTypeOK, Reload
  <2>2. CASE x = "refresh" /\ Modelled(source) # Modelled(model)
    <3>1. at[x] = "off" /\ at'[x] = "remove"
        BY <1>5, <2>2 DEF IndexTypeOK, Reload
    <3>2. want'[x] = Nothing /\ text'[x] = Nothing /\ need'[x] = {}
        BY <1>5, <3>1 DEF WorkFits, Reload
    <3> QED
        BY <2>2, <3>1, <3>2 DEF WorkFits, OfShape, Nothing
  <2> QED
      BY <2>1, <2>2 DEF Workers
<1>6. ASSUME NEW w \in Workers, Work(w) PROVE WorkFits(x)'
  <2>0. CASE x # w
    <3> DEFINE Kept == /\ at'[x] = at[x] /\ nodes'[x] = nodes[x] /\ todo'[x] = todo[x]
                       /\ need'[x] = need[x] /\ want'[x] = want[x] /\ text'[x] = text[x]
    <3>1. CASE SetGraph(w)
      <4>1. Kept
          BY <2>0, <3>1 DEF IndexTypeOK, SetGraph
      <4> QED
          BY <1>0, <4>1
    <3>2. ASSUME NEW n \in Nodes, Lex(w, n) \/ Hash(w, n) \/ Chunk(w, n) \/ Store(w, n)
          PROVE  WorkFits(x)'
      <4>1. Kept
          BY <2>0, <3>2 DEF IndexTypeOK, Lex, Hash, Chunk, Store, Visit
      <4> QED
          BY <1>0, <4>1
    <3>3. ASSUME NEW n \in Nodes, TakeCached(w, n) PROVE WorkFits(x)'
      <4>1. Kept
          BY <2>0, <3>3 DEF IndexTypeOK, TakeCached, Visit
      <4> QED
          BY <1>0, <4>1
    <3>4. ASSUME NEW n \in Nodes, (w = "refresh" /\ Remove(n)) \/ (w = "index" /\ Prune(n))
          PROVE  WorkFits(x)'
      <4>1. Kept
          BY <2>0, <3>4 DEF IndexTypeOK, Remove, Prune, Visit
      <4> QED
          BY <1>0, <4>1
    <3>5. CASE Proceed(w) \/ Embed(w) \/ EmbedFails(w) \/ Finish(w) \/ SaveVectors(w) \/ SaveLexical(w)
      <4>1. Kept
          BY <2>0, <3>5 DEF IndexTypeOK, Proceed, Embed, EmbedFails, Finish, SaveVectors, SaveLexical,
                            workVars
      <4> QED
          BY <1>0, <4>1
    <3>6. CASE SaveCache(w)
      <4>1. Kept
          BY <2>0, <3>6 DEF IndexTypeOK, SaveCache
      <4> QED
          BY <1>0, <4>1
    <3> QED
        BY <1>6, <3>1, <3>2, <3>3, <3>4, <3>5, <3>6 DEF Work
  <2> SUFFICES ASSUME x = w PROVE WorkFits(w)'
      BY <2>0
  <2>1. CASE SetGraph(w)
    <3>1. want'[w] = Nothing /\ text'[w] = Nothing /\ need'[w] = {}
        BY <2>1 DEF SetGraph, WorkFits
    <3>2. CASE w = "index"
      <4>1. at'[w] = "lex" /\ nodes'[w] = nodes[w] /\ todo'[w] = Present(nodes[w])
          BY <2>1, <3>2 DEF IndexTypeOK, SetGraph
      <4> QED
          BY <3>1, <3>2, <4>1 DEF WorkFits, OfShape, Nothing, Present
    <3>3. CASE w = "refresh"
      <4>1. at'[w] = "off"
          BY <2>1, <3>3 DEF IndexTypeOK, SetGraph
      <4> QED
          BY <3>1, <3>3, <4>1 DEF WorkFits, OfShape, Nothing
    <3> QED
        BY <3>2, <3>3 DEF Workers
  <2>2. ASSUME NEW n \in Nodes, Lex(w, n) PROVE WorkFits(w)'
    <3>1. /\ at'[w] = "lex" /\ at[w] = "lex" /\ nodes'[w] = nodes[w] /\ todo'[w] = todo[w] \ {n}
          /\ need'[w] = need[w] /\ want'[w] = want[w] /\ text'[w] = text[w]
        BY <2>2 DEF IndexTypeOK, Lex, Visit
    <3> QED
        BY <3>1 DEF WorkFits, OfShape, Present
  <2>3. ASSUME NEW n \in Nodes, Hash(w, n) PROVE WorkFits(w)'
    <3>1. n \in Present(nodes[w])
        BY <2>3 DEF Hash, Visit, WorkFits
    <3>2. ContentHash(w, n) # None /\ ContentHash(w, n)[1] = Shape[nodes[w][n]]
        BY <3>1, TextTypes DEF ContentHash
    <3>3. /\ at'[w] = "hash" /\ at[w] = "hash" /\ nodes'[w] = nodes[w] /\ todo'[w] = todo[w] \ {n}
          /\ need'[w] \subseteq need[w] \cup {n} /\ text'[w] = text[w]
        BY <2>3 DEF IndexTypeOK, Hash, Visit
    <3>4. want'[w] = [want[w] EXCEPT ![n] = ContentHash(w, n)]
        BY <2>3 DEF IndexTypeOK, Hash
    <3>5. \A m \in Nodes : want'[w][m] = IF m = n THEN ContentHash(w, n) ELSE want[w][m]
        BY <3>4 DEF IndexTypeOK, Entries
    <3>6. OfShape(w, want[w])'
        BY <3>1, <3>2, <3>3, <3>5 DEF WorkFits, OfShape, Present
    <3>7. \A m \in need'[w] : want'[w][m] # None
        BY <3>2, <3>3, <3>5 DEF WorkFits, IndexTypeOK
    <3> QED
        BY <3>3, <3>6, <3>7 DEF WorkFits, OfShape, Present
  <2>4. ASSUME NEW n \in Nodes, TakeCached(w, n) PROVE WorkFits(w)'
    <3>1. /\ at'[w] = "cached" /\ at[w] = "cached" /\ nodes'[w] = nodes[w] /\ todo'[w] = todo[w] \ {n}
          /\ want'[w] = want[w] /\ text'[w] = text[w]
        BY <2>4 DEF IndexTypeOK, TakeCached, Visit
    <3>2. need'[w] = need[w] \/ need'[w] = need[w] \ {n}
        BY <2>4 DEF IndexTypeOK, TakeCached
    <3> QED
        BY <3>1, <3>2 DEF WorkFits, OfShape
  <2>5. ASSUME NEW n \in Nodes, Chunk(w, n) PROVE WorkFits(w)'
    <3>1. n \in Present(nodes[w])
        BY <2>5 DEF Chunk, Visit, WorkFits, OfShape, Present
    <3>2. BuildChunks(w, n) # None /\ BuildChunks(w, n)[1] = Shape[nodes[w][n]]
        BY <3>1, TextTypes DEF BuildChunks
    <3>3. /\ at'[w] = "chunk" /\ at[w] = "chunk" /\ nodes'[w] = nodes[w] /\ todo'[w] = todo[w] \ {n}
          /\ want'[w] = want[w] /\ need'[w] = need[w]
        BY <2>5 DEF IndexTypeOK, Chunk, Visit
    <3>4. text'[w] = [text[w] EXCEPT ![n] = BuildChunks(w, n)]
        BY <2>5 DEF IndexTypeOK, Chunk
    <3>5. \A m \in Nodes : text'[w][m] = IF m = n THEN BuildChunks(w, n) ELSE text[w][m]
        BY <3>4 DEF IndexTypeOK, Entries
    <3>6. OfShape(w, text[w])'
        BY <3>1, <3>2, <3>3, <3>5 DEF WorkFits, OfShape, Present
    <3>7. \A m \in need'[w] \ todo'[w] : text'[w][m] # None
        BY <3>2, <3>3, <3>5 DEF WorkFits, IndexTypeOK
    <3> QED
        BY <3>3, <3>6, <3>7 DEF WorkFits, OfShape
  <2>6. ASSUME NEW n \in Nodes, Store(w, n) PROVE WorkFits(w)'
    <3>1. /\ at'[w] = "store" /\ at[w] = "store" /\ nodes'[w] = nodes[w] /\ todo'[w] = todo[w] \ {n}
          /\ need'[w] = need[w] /\ want'[w] = want[w] /\ text'[w] = text[w]
        BY <2>6 DEF IndexTypeOK, Store, Visit
    <3> QED
        BY <3>1 DEF WorkFits, OfShape
  <2>7. ASSUME NEW n \in Nodes, (w = "refresh" /\ Remove(n)) \/ (w = "index" /\ Prune(n))
        PROVE  WorkFits(w)'
    <3>1. /\ at'[w] = at[w] /\ at[w] \in {"remove", "prune"} /\ nodes'[w] = nodes[w]
          /\ todo'[w] = todo[w] \ {n}
          /\ need'[w] = need[w] /\ want'[w] = want[w] /\ text'[w] = text[w]
        BY <2>7 DEF IndexTypeOK, Remove, Prune, Visit
    <3> QED
        BY <3>1 DEF WorkFits, OfShape, Present
  <2>8. CASE Proceed(w)
    <3>1. /\ at[w] \in Loops /\ todo[w] = {} /\ at'[w] = After(w)[1] /\ todo'[w] = After(w)[2]
          /\ nodes'[w] = nodes[w] /\ need'[w] = need[w] /\ want'[w] = want[w] /\ text'[w] = text[w]
        BY <2>8 DEF IndexTypeOK, Proceed
    <3>2. Present(nodes[w])' = Present(nodes[w])
        BY <3>1 DEF Present
    <3>3. CASE at[w] \in {"remove", "lex"}
        BY <3>1, <3>2, <3>3, AfterLoop DEF WorkFits, OfShape
    <3>4. CASE at[w] = "hash" /\ w = "index"
        BY <3>1, <3>2, <3>4, AfterLoop DEF WorkFits, OfShape
    <3>5. CASE (at[w] = "hash" /\ w = "refresh") \/ at[w] = "prune"
        BY <3>1, <3>2, <3>5, AfterLoop DEF WorkFits, OfShape
    <3>6. CASE at[w] = "cached"
        BY <3>1, <3>2, <3>6, AfterLoop DEF WorkFits, OfShape
    <3>7. CASE at[w] \in {"chunk", "store"}
        BY <3>1, <3>2, <3>7, AfterLoop DEF WorkFits, OfShape
    <3> QED
        BY <3>1, <3>3, <3>4, <3>5, <3>6, <3>7 DEF Loops, Workers
  <2>9. CASE Embed(w)
    <3>1. /\ at[w] = "embed" /\ at'[w] = "store" /\ todo'[w] = need[w]
          /\ nodes'[w] = nodes[w] /\ need'[w] = need[w] /\ want'[w] = want[w] /\ text'[w] = text[w]
        BY <2>9 DEF IndexTypeOK, Embed
    <3> QED
        BY <3>1 DEF WorkFits, OfShape
  <2>10. CASE EmbedFails(w) \/ Finish(w) \/ SaveVectors(w) \/ SaveLexical(w)
    <3>1. /\ at'[w] \in {"saveVectors", "saveLexical", "saveCache"}
          /\ nodes'[w] = nodes[w] /\ need'[w] = need[w] /\ want'[w] = want[w] /\ text'[w] = text[w]
        BY <2>10 DEF IndexTypeOK, EmbedFails, Finish, SaveVectors, SaveLexical, workVars
    <3> QED
        BY <3>1 DEF WorkFits, OfShape
  <2>11. CASE SaveCache(w)
    <3>1. /\ at'[w] \in {"off", "graph"}
          /\ need'[w] = {} /\ want'[w] = Nothing /\ text'[w] = Nothing
        BY <2>11 DEF IndexTypeOK, SaveCache
    <3> QED
        BY <3>1 DEF WorkFits, OfShape, Nothing
  <2> QED
      BY <1>6, <2>1, <2>2, <2>3, <2>4, <2>5, <2>6, <2>7, <2>8, <2>9, <2>10, <2>11 DEF Work
<1> QED
    BY <1>1, <1>2, <1>3, <1>4, <1>5, <1>6 DEF Next

-----------------------------------------------------------------------------
(* Without an overlap: who works is alone. *)
LEMMA Alone ==
  ASSUME OneWorks, ~overlapped, NEW w \in Workers, at[w] # "off"
  PROVE  nodes[w] = model /\ \A x \in Workers \ {w} : at[x] = "off"
BY DEF OneWorks, Workers

LEMMA WorkFrame ==
  ASSUME IndexTypeOK, NEW w \in Workers, Work(w)
  PROVE  /\ at[w] # "off"
         /\ \A x \in Workers \ {w} : at'[x] = at[x]
         /\ UNCHANGED <<model, overlapped, up>>
         /\ at'[w] = "off" \/ nodes'[w] = nodes[w]
<1> DEFINE Frame == /\ at[w] # "off"
                    /\ \A x \in Workers \ {w} : at'[x] = at[x]
                    /\ UNCHANGED <<model, overlapped, up>>
                    /\ at'[w] = "off" \/ nodes'[w] = nodes[w]
<1>1. CASE SetGraph(w)
  <2>1. Frame
      BY <1>1 DEF IndexTypeOK, SetGraph, Workers
  <2> QED
      BY <2>1
<1>2. ASSUME NEW n \in Nodes, NEW phase \in Loops, Visit(w, n, phase) PROVE Frame
    BY <1>2 DEF Visit, Loops
<1>3. CASE \E n \in Nodes : Lex(w, n) \/ Hash(w, n) \/ TakeCached(w, n) \/ Chunk(w, n) \/ Store(w, n)
  <2>1. \E n \in Nodes : \E phase \in Loops : Visit(w, n, phase)
      BY <1>3 DEF Lex, Hash, TakeCached, Chunk, Store, Loops
  <2> QED
      BY <1>2, <2>1
<1>4. ASSUME NEW n \in Nodes, (w = "refresh" /\ Remove(n)) \/ (w = "index" /\ Prune(n)) PROVE Frame
  <2>1. \E phase \in Loops : Visit(w, n, phase)
      BY <1>4 DEF Remove, Prune, Loops
  <2> QED
      BY <1>2, <2>1
<1>5. CASE Proceed(w) \/ Embed(w) \/ EmbedFails(w) \/ Finish(w) \/ SaveVectors(w) \/ SaveLexical(w)
  <2>1. Frame
      BY <1>5 DEF IndexTypeOK, Proceed, Embed, EmbedFails, Finish, SaveVectors, SaveLexical, workVars, Loops
  <2> QED
      BY <2>1
<1>6. CASE SaveCache(w)
  <2>1. Frame
      BY <1>6 DEF IndexTypeOK, SaveCache, Workers
  <2> QED
      BY <2>1
<1> QED
    BY <1>3, <1>4, <1>5, <1>6, <1>1 DEF Work

(* The background index goes from phase to phase, and only a failure turns dense off. *)
LEMMA IndexingGoesOn ==
  ASSUME IndexTypeOK, \A w \in Workers : WorkFits(w), Work("index"), at'["index"] \in Indexing
  PROVE  at["index"] \in Indexing /\ (dense => dense')
<1> DEFINE w == "index"
<1>0. w \in Workers
    BY DEF Workers
<1>1. CASE SetGraph(w)
    BY <1>1 DEF SetGraph, Indexing
<1>2. CASE \E n \in Nodes : \E phase \in Loops \ {"remove"} : Visit(w, n, phase)
    BY <1>2 DEF Visit, Indexing, Loops
<1>3. CASE Proceed(w)
    BY <1>0, <1>3 DEF Proceed, Indexing, Loops, WorkFits
<1>4. CASE Embed(w)
    BY <1>4 DEF Embed, Indexing
<1>5. CASE EmbedFails(w) \/ Finish(w) \/ SaveVectors(w) \/ SaveLexical(w) \/ SaveCache(w)
    BY <1>0, <1>5 DEF IndexTypeOK, EmbedFails, Finish, SaveVectors, SaveLexical, SaveCache, Indexing
<1>6. CASE \E n \in Nodes : \/ Lex(w, n) \/ Hash(w, n) \/ TakeCached(w, n) \/ Chunk(w, n) \/ Store(w, n)
                            \/ Prune(n)
  <2>1. \E n \in Nodes : \E phase \in Loops \ {"remove"} : Visit(w, n, phase)
      BY <1>6 DEF Lex, Hash, TakeCached, Chunk, Store, Prune, Loops
  <2> QED
      BY <1>2, <2>1
<1> QED
    BY <1>1, <1>3, <1>4, <1>5, <1>6 DEF Work

LEMMA OneWorksStep ==
  IndexTypeOK /\ ModelIsKnown /\ (\A w \in Workers : WorkFits(w)) /\ OneWorks /\ [Next]_vars
    => OneWorks'
<1> SUFFICES ASSUME IndexTypeOK, ModelIsKnown, \A w \in Workers : WorkFits(w), OneWorks, [Next]_vars,
                    ~overlapped'
             PROVE  /\ at'["index"] = "off" \/ at'["refresh"] = "off"
                    /\ \A w \in Workers : at'[w] # "off" => nodes'[w] = model'
                    /\ at'["index"] \in Indexing => dense'
    BY DEF OneWorks
<1>1. CASE UNCHANGED vars
    BY <1>1 DEF OneWorks, vars, workVars, Indexing
<1>2. ASSUME NEW n \in Nodes, NEW v \in Versions \cup {None}, Edit(n, v) PROVE OneWorks'
    BY <1>2 DEF OneWorks, Edit, workVars
<1>3. CASE Start
    BY <1>3 DEF IndexTypeOK, ModelIsKnown, OneWorks, Start, Workers, Indexing
<1>4. CASE Exit
    BY <1>4 DEF Exit, Workers, Indexing
<1>5. CASE Reload
  <2>1. CASE Modelled(source) = Modelled(model)
      BY <1>5, <2>1 DEF OneWorks, Reload, Indexing
  <2>2. CASE Modelled(source) # Modelled(model)
    <3>1. at["index"] = "off"
        BY <1>5, <2>2 DEF Reload
    <3> QED
        BY <1>5, <2>2, <3>1 DEF IndexTypeOK, Reload, Workers, Indexing
  <2> QED
      BY <2>1, <2>2
<1>6. ASSUME NEW w \in Workers, Work(w)
      PROVE  /\ at'["index"] = "off" \/ at'["refresh"] = "off"
             /\ \A x \in Workers : at'[x] # "off" => nodes'[x] = model'
             /\ at'["index"] \in Indexing => dense'
  <2>1. /\ at[w] # "off" /\ ~overlapped /\ model' = model
        /\ \A x \in Workers \ {w} : at'[x] = at[x]
        /\ at'[w] = "off" \/ nodes'[w] = nodes[w]
      BY <1>6, WorkFrame
  <2>2. nodes[w] = model /\ \A x \in Workers \ {w} : at[x] = "off"
      BY <2>1, Alone
  <2>3. CASE w = "index"
    <3>1. at'["index"] \in Indexing => dense'
        BY <1>6, <2>1, <2>3, IndexingGoesOn DEF OneWorks
    <3> QED
        BY <2>1, <2>2, <2>3, <3>1 DEF Workers
  <2>4. CASE w = "refresh"
      BY <2>1, <2>2, <2>4 DEF Workers, Indexing
  <2> QED
      BY <2>3, <2>4 DEF Workers
<1> QED
    BY <1>1, <1>2, <1>3, <1>4, <1>5, <1>6 DEF Next, OneWorks

(* The graph is that of the model once a worker is past it. *)
LEMMA GraphFollowsStep ==
  IndexTypeOK /\ (\A w \in Workers : WorkFits(w)) /\ ModelIsKnown /\ OneWorks /\ GraphFollows /\ [Next]_vars
    => GraphFollows'
<1> SUFFICES ASSUME IndexTypeOK, \A w \in Workers : WorkFits(w), ModelIsKnown, OneWorks, GraphFollows, [Next]_vars PROVE GraphFollows'
    OBVIOUS
<1>1. CASE UNCHANGED vars
    BY <1>1 DEF GraphFollows, vars
<1>2. ASSUME NEW n \in Nodes, NEW v \in Versions \cup {None}, Edit(n, v) PROVE GraphFollows'
    BY <1>2 DEF GraphFollows, Edit
<1>3. CASE Start
    BY <1>3 DEF IndexTypeOK, GraphFollows, Start, Workers
<1>4. CASE Exit
    BY <1>4 DEF GraphFollows, Exit
<1>5. CASE Reload
    BY <1>5 DEF IndexTypeOK, GraphFollows, Reload, Workers
<1>6. ASSUME NEW w \in Workers, Work(w) PROVE GraphFollows'
  <2> SUFFICES ASSUME ~overlapped', at'["refresh"] = "off", at'["index"] # "graph"
               PROVE  graph' = model'
      BY DEF GraphFollows
  <2>1. /\ at[w] # "off" /\ ~overlapped /\ model' = model
        /\ \A x \in Workers \ {w} : at'[x] = at[x]
      BY <1>6, WorkFrame
  <2>2. nodes[w] = model /\ \A x \in Workers \ {w} : at[x] = "off"
      BY <2>1, Alone
  <2>3. CASE SetGraph(w)
      BY <2>1, <2>2, <2>3 DEF SetGraph
  <2>4. ASSUME graph' = graph, at[w] # "graph", at'[w] = "off" => w = "index" PROVE graph' = model'
    <3>1. w = "index"
        BY <2>4 DEF Workers
    <3> QED
        BY <2>1, <2>2, <2>4, <3>1 DEF GraphFollows, Workers
  <2>5. ASSUME NEW n \in Nodes, NEW phase \in Loops, Visit(w, n, phase) PROVE graph' = model'
    <3>1. graph' = graph /\ at'[w] = phase /\ at[w] = phase
        BY <2>5 DEF Visit
    <3> QED
        BY <2>4, <3>1 DEF Loops
  <2>6. CASE Proceed(w) \/ Embed(w) \/ EmbedFails(w) \/ Finish(w) \/ SaveVectors(w) \/ SaveLexical(w)
             \/ SaveCache(w)
    <3>1. graph' = graph /\ at[w] # "graph"
        BY <2>6 DEF Proceed, Embed, EmbedFails, Finish, SaveVectors, SaveLexical, SaveCache, Loops
    <3>2. CASE Proceed(w)
        BY <2>4, <3>1, <3>2, AfterTypes DEF IndexTypeOK, Proceed
    <3>3. CASE Embed(w) \/ EmbedFails(w) \/ Finish(w) \/ SaveVectors(w) \/ SaveLexical(w) \/ SaveCache(w)
      <4>1. at'[w] = "off" => w = "index"
          BY <3>3 DEF IndexTypeOK, Embed, EmbedFails, Finish, SaveVectors, SaveLexical, SaveCache
      <4> QED
          BY <2>4, <3>1, <4>1
    <3> QED
        BY <2>6, <3>2, <3>3
  <2>7. (\E n \in Nodes : \/ Lex(w, n) \/ Hash(w, n) \/ TakeCached(w, n) \/ Chunk(w, n) \/ Store(w, n)
                          \/ (w = "refresh" /\ Remove(n)) \/ (w = "index" /\ Prune(n)))
          => \E n \in Nodes : \E phase \in Loops : Visit(w, n, phase)
      BY DEF Lex, Hash, TakeCached, Chunk, Store, Remove, Prune, Loops
  <2> QED
      BY <1>6, <2>3, <2>5, <2>6, <2>7 DEF Work
<1> QED
    BY <1>1, <1>2, <1>3, <1>4, <1>5, <1>6 DEF Next

(* Every node of the model gets a document that was made of its shape. *)
LEMMA DocsFollowStep ==
  IndexTypeOK /\ (\A w \in Workers : WorkFits(w)) /\ ModelIsKnown /\ OneWorks /\ DocsFollow /\ [Next]_vars
    => DocsFollow'
<1> SUFFICES ASSUME IndexTypeOK, \A w \in Workers : WorkFits(w), ModelIsKnown, OneWorks,
                    DocsFollow, [Next]_vars, ~overlapped', NEW n \in Nodes, model'[n] # None
             PROVE  \/ doc'[n] # None /\ doc'[n][1] = Shape[model'[n]]
                    \/ \E w \in Workers : Unlexed(w, n)'
    BY DEF DocsFollow
<1> DEFINE Right == doc'[n] # None /\ doc'[n][1] = Shape[model'[n]]
           Wrong == \E w \in Workers : Unlexed(w, n)'
<1>1. CASE UNCHANGED vars
    BY <1>1 DEF DocsFollow, Unlexed, vars, indexVars, workVars
<1>2. ASSUME NEW m \in Nodes, NEW v \in Versions \cup {None}, Edit(m, v) PROVE Right \/ Wrong
    BY <1>2 DEF DocsFollow, Unlexed, Edit, indexVars, workVars
<1>3. CASE Start
  <2>1. Unlexed("index", n)'
      BY <1>3 DEF IndexTypeOK, Start, Unlexed, Workers
  <2> QED
      BY <2>1 DEF Workers
<1>4. CASE Exit
    BY <1>4 DEF Exit, Nothing
<1>5. CASE Reload
  <2>1. CASE Modelled(source) = Modelled(model)
      BY <1>5, <2>1 DEF DocsFollow, Unlexed, Reload, indexVars
  <2>2. CASE Modelled(source) # Modelled(model)
    <3>1. Unlexed("refresh", n)'
        BY <1>5, <2>2 DEF IndexTypeOK, Reload, Unlexed, Workers
    <3> QED
        BY <3>1 DEF Workers
  <2> QED
      BY <2>1, <2>2
<1>6. ASSUME NEW w \in Workers, Work(w) PROVE Right \/ Wrong
  <2>1. /\ at[w] # "off" /\ ~overlapped /\ model' = model
        /\ \A x \in Workers \ {w} : at'[x] = at[x]
      BY <1>6, WorkFrame
  <2>2. nodes[w] = model /\ \A x \in Workers \ {w} : at[x] = "off"
      BY <2>1, Alone
  <2>3. (doc[n] # None /\ doc[n][1] = Shape[model[n]]) \/ Unlexed(w, n)
      BY <2>1, <2>2 DEF DocsFollow, Unlexed
  <2>4. ASSUME doc' = doc, Unlexed(w, n) => Unlexed(w, n)' PROVE Right \/ Wrong
      BY <2>1, <2>3, <2>4
  <2>5. CASE SetGraph(w)
    <3>1. CASE w = "index"
        BY <2>2, <2>1, <2>4, <2>5, <3>1 DEF IndexTypeOK, SetGraph, Unlexed, Present, indexVars
    <3>2. CASE w = "refresh"
        BY <2>4, <2>5, <3>2 DEF SetGraph, Unlexed, indexVars
    <3> QED
        BY <3>1, <3>2 DEF Workers
  <2>6. ASSUME NEW m \in Nodes, Lex(w, m) PROVE Right \/ Wrong
    <3>1. /\ at[w] = "lex" /\ at'[w] = "lex" /\ todo'[w] = todo[w] \ {m} /\ m \in todo[w]
          /\ doc' = [doc EXCEPT ![m] = EmbedText(w, m)]
        BY <2>6 DEF IndexTypeOK, Lex, Visit
    <3>2. CASE m = n
      <4>1. EmbedText(w, n) # None /\ EmbedText(w, n)[1] = Shape[model[n]]
          BY <2>2, <3>1, <3>2, TextTypes DEF EmbedText, WorkFits
      <4> QED
          BY <2>1, <3>1, <3>2, <4>1 DEF IndexTypeOK, Entries
    <3>3. CASE m # n
      <4>1. doc'[n] = doc[n] /\ (Unlexed(w, n) => Unlexed(w, n)')
          BY <3>1, <3>3 DEF IndexTypeOK, Entries, Unlexed
      <4> QED
          BY <2>1, <2>3, <4>1
    <3> QED
        BY <3>2, <3>3
  <2>7. ASSUME NEW m \in Nodes, w = "refresh", Remove(m) PROVE Right \/ Wrong
    <3>1. Unlexed(w, n)'
        BY <2>7 DEF Remove, Visit, Unlexed
    <3> QED
        BY <3>1
  <2>8. ASSUME NEW m \in Nodes, \/ Hash(w, m) \/ TakeCached(w, m) \/ Chunk(w, m) \/ Store(w, m)
                                \/ (w = "index" /\ Prune(m))
        PROVE  Right \/ Wrong
    <3>1. doc' = doc /\ at[w] \notin {"lex", "remove", "graph"}
        BY <2>8 DEF Hash, TakeCached, Chunk, Store, Prune, Visit, indexVars
    <3> QED
        BY <2>4, <3>1 DEF Unlexed
  <2>9. CASE Proceed(w)
    <3>1. /\ at[w] \in Loops /\ todo[w] = {} /\ at'[w] = After(w)[1] /\ todo'[w] = After(w)[2] /\ doc' = doc
        BY <2>9 DEF IndexTypeOK, Proceed, indexVars
    <3>2. CASE at[w] = "remove"
      <4>1. Unlexed(w, n)'
          BY <2>1, <2>2, <3>1, <3>2, AfterLoop DEF Unlexed, Present
      <4> QED
          BY <4>1
    <3>3. CASE at[w] # "remove"
        BY <2>4, <3>1, <3>3 DEF Unlexed, Loops
    <3> QED
        BY <3>2, <3>3
  <2>10. CASE Embed(w) \/ EmbedFails(w) \/ Finish(w) \/ SaveVectors(w) \/ SaveLexical(w) \/ SaveCache(w)
    <3>1. doc' = doc /\ at[w] \notin {"lex", "remove", "graph"}
        BY <2>10 DEF Embed, EmbedFails, Finish, SaveVectors, SaveLexical, SaveCache, indexVars
    <3> QED
        BY <2>4, <3>1 DEF Unlexed
  <2> QED
      BY <1>6, <2>5, <2>6, <2>7, <2>8, <2>9, <2>10 DEF Work
<1> QED
    BY <1>1, <1>2, <1>3, <1>4, <1>5, <1>6 DEF Next

(* Dense search has the vectors of the model's shapes, and no others. *)
LEMMA VectorsFollowStep ==
  IndexTypeOK /\ (\A w \in Workers : WorkFits(w)) /\ ModelIsKnown /\ OneWorks /\ VectorsFollow /\ [Next]_vars
    => VectorsFollow'
<1> DEFINE Follows(n) ==
      /\ \/ model[n] = None
         \/ hash[n] # None /\ hash[n][1] = Shape[model[n]]
         \/ \E w \in Workers : Unembedded(w, n)
      /\ \/ model[n] # None
         \/ hash[n] = None
         \/ \E w \in Workers : Left(w, n)
<1> SUFFICES ASSUME IndexTypeOK, \A w \in Workers : WorkFits(w), ModelIsKnown, OneWorks,
                    VectorsFollow, [Next]_vars, ~overlapped', dense', NEW n \in Nodes
             PROVE  Follows(n)'
    BY DEF VectorsFollow
<1>1. CASE UNCHANGED vars
    BY <1>1 DEF VectorsFollow, Unembedded, Left, vars, indexVars, workVars
<1>2. ASSUME NEW m \in Nodes, NEW v \in Versions \cup {None}, Edit(m, v) PROVE Follows(n)'
    BY <1>2 DEF VectorsFollow, Unembedded, Left, Edit, indexVars, workVars
<1>3. CASE Start
  <2>1. Unembedded("index", n)' /\ Left("index", n)'
      BY <1>3 DEF IndexTypeOK, Start, Unembedded, Left, Workers
  <2> QED
      BY <2>1 DEF Workers
<1>4. CASE Exit
    BY <1>4 DEF Exit
<1>5. CASE Reload
  <2>1. CASE Modelled(source) = Modelled(model)
      BY <1>5, <2>1 DEF VectorsFollow, Unembedded, Left, Reload, indexVars
  <2>2. CASE Modelled(source) # Modelled(model)
    <3>1. /\ ~overlapped /\ dense /\ \A w \in Workers : at[w] = "off"
          /\ hash' = hash /\ model' = source
          /\ at'["refresh"] = "remove" /\ todo'["refresh"] = Removed
        BY <1>5, <2>2 DEF IndexTypeOK, Reload, indexVars, Workers
    <3>2. model[n] # None \/ hash[n] = None
        BY <3>1 DEF VectorsFollow, Left
    <3>3. Unembedded("refresh", n)'
        BY <3>1 DEF Unembedded
    <3>4. source[n] = None /\ model[n] # None => Left("refresh", n)'
        BY <3>1 DEF Left, Removed, Present
    <3> QED
        BY <3>1, <3>2, <3>3, <3>4 DEF Workers
  <2> QED
      BY <2>1, <2>2
<1>6. ASSUME NEW w \in Workers, Work(w) PROVE Follows(n)'
  <2>1. /\ at[w] # "off" /\ ~overlapped /\ model' = model
        /\ \A x \in Workers \ {w} : at'[x] = at[x]
      BY <1>6, WorkFrame
  <2>2. nodes[w] = model /\ \A x \in Workers \ {w} : at[x] = "off"
      BY <2>1, Alone
  <2> DEFINE New == \/ model[n] = None
                    \/ hash[n] # None /\ hash[n][1] = Shape[model[n]]
                    \/ Unembedded(w, n)
             Gone == model[n] # None \/ hash[n] = None \/ Left(w, n)
  <2>3. dense => New /\ Gone
      BY <2>1, <2>2 DEF VectorsFollow, Unembedded, Left
  <2>4. ASSUME New', Gone' PROVE Follows(n)'
      BY <2>4
  <2>5. ASSUME dense, hash'[n] = hash[n], Unembedded(w, n) => Unembedded(w, n)',
               Left(w, n) => Left(w, n)'
        PROVE  Follows(n)'
    <3>1. New' /\ Gone'
        BY <2>1, <2>3, <2>5
    <3> QED
        BY <2>4, <3>1
  <2>6. CASE SetGraph(w)
    <3>1. dense /\ hash' = hash /\ at[w] = "graph"
        BY <2>6 DEF SetGraph, indexVars
    <3>2. CASE w = "index"
      <4>1. at'[w] = "lex"
          BY <2>6, <3>2 DEF IndexTypeOK, SetGraph
      <4> QED
          BY <2>5, <3>1, <3>2, <4>1 DEF Unembedded, Left
    <3>3. CASE w = "refresh"
        BY <2>5, <3>1, <3>3 DEF Unembedded, Left
    <3> QED
        BY <3>2, <3>3 DEF Workers
  <2>7. ASSUME NEW m \in Nodes, Lex(w, m) PROVE Follows(n)'
    <3>1. /\ at[w] = "lex" /\ at'[w] = "lex" /\ hash' = hash /\ dense
        BY <2>7 DEF IndexTypeOK, Lex, Visit
    <3> QED
        BY <2>5, <3>1 DEF Unembedded, Left
  <2>8. ASSUME NEW m \in Nodes, w = "refresh", Remove(m) PROVE Follows(n)'
    <3>1. /\ at[w] = "remove" /\ at'[w] = "remove" /\ hash' = [hash EXCEPT ![m] = None] /\ dense
          /\ todo'[w] = todo[w] \ {m}
        BY <2>8 DEF IndexTypeOK, Remove, Visit
    <3>2. New'
        BY <3>1 DEF Unembedded
    <3>3. Gone'
        BY <2>1, <2>3, <3>1 DEF IndexTypeOK, Entries, Left
    <3> QED
        BY <2>4, <3>2, <3>3
  <2>9. ASSUME NEW m \in Nodes, Hash(w, m) PROVE Follows(n)'
    <3>1. /\ at[w] = "hash" /\ at'[w] = "hash" /\ hash' = hash /\ dense
          /\ todo'[w] = todo[w] \ {m} /\ m \in todo[w]
          /\ need'[w] = IF Outdated(w, m) THEN need[w] \cup {m} ELSE need[w]
        BY <2>9 DEF IndexTypeOK, Hash, Visit, indexVars
    <3>2. Gone'
        BY <2>1, <2>3, <3>1 DEF Left
    <3>3. CASE m # n
        BY <2>5, <3>1, <3>3 DEF Unembedded, Left
    <3>4. CASE m = n /\ Outdated(w, n)
      <4>1. Unembedded(w, n)'
          BY <3>1, <3>4 DEF Unembedded
      <4> QED
          BY <2>4, <3>2, <4>1
    <3>5. CASE m = n /\ ~Outdated(w, n)
      <4>1. hash[n] # None /\ hash[n][1] = Shape[model[n]]
          BY <2>2, <3>1, <3>5, TextTypes DEF Outdated, ContentHash, WorkFits
      <4> QED
          BY <2>1, <2>4, <3>1, <3>2, <4>1
    <3> QED
        BY <3>3, <3>4, <3>5
  <2>10. ASSUME NEW m \in Nodes, w = "index", Prune(m) PROVE Follows(n)'
    <3>1. /\ at[w] = "prune" /\ at'[w] = "prune" /\ hash' = [hash EXCEPT ![m] = None] /\ dense
          /\ m \in todo[w] /\ todo'[w] = todo[w] \ {m} /\ need'[w] = need[w]
        BY <2>10 DEF IndexTypeOK, Prune, Visit
    <3>2. model[m] = None
        BY <2>2, <3>1 DEF WorkFits, Present
    <3>3. New' /\ Gone'
        BY <2>1, <2>3, <3>1, <3>2 DEF IndexTypeOK, Entries, Unembedded, Left
    <3> QED
        BY <2>4, <3>3
  <2>11. ASSUME NEW m \in Nodes, TakeCached(w, m) PROVE Follows(n)'
    <3>1. /\ at[w] = "cached" /\ at'[w] = "cached" /\ dense /\ m \in todo[w]
        BY <2>11 DEF IndexTypeOK, TakeCached, Visit
    <3>2. m \in need[w] /\ want[w][m] # None /\ model[m] # None /\ want[w][m][1] = Shape[model[m]]
        BY <2>2, <3>1 DEF WorkFits, OfShape
    <3>3. CASE vcache[want[w][m]] = None
      <4>1. hash' = hash /\ need'[w] = need[w]
          BY <2>11, <3>3 DEF TakeCached
      <4> QED
          BY <2>5, <3>1, <4>1 DEF Unembedded, Left
    <3>4. CASE vcache[want[w][m]] # None
      <4>1. hash' = [hash EXCEPT ![m] = want[w][m]] /\ need'[w] = need[w] \ {m}
          BY <2>11, <3>4 DEF IndexTypeOK, TakeCached
      <4>2. New' /\ Gone'
          BY <2>1, <2>3, <3>1, <3>2, <4>1 DEF IndexTypeOK, Entries, Unembedded, Left
      <4> QED
          BY <2>4, <4>2
    <3> QED
        BY <3>3, <3>4
  <2>12. ASSUME NEW m \in Nodes, Chunk(w, m) PROVE Follows(n)'
    <3>1. /\ at[w] = "chunk" /\ at'[w] = "chunk" /\ hash' = hash /\ dense /\ need'[w] = need[w]
        BY <2>12 DEF IndexTypeOK, Chunk, Visit, indexVars
    <3> QED
        BY <2>5, <3>1 DEF Unembedded, Left
  <2>13. ASSUME NEW m \in Nodes, Store(w, m) PROVE Follows(n)'
    <3>1. /\ at[w] = "store" /\ at'[w] = "store" /\ dense /\ m \in todo[w]
          /\ todo'[w] = todo[w] \ {m} /\ hash' = [hash EXCEPT ![m] = want[w][m]]
        BY <2>13 DEF IndexTypeOK, Store, Visit
    <3>2. want[w][m] # None /\ model[m] # None /\ want[w][m][1] = Shape[model[m]]
        BY <2>2, <3>1 DEF WorkFits, OfShape
    <3>3. New' /\ Gone'
        BY <2>1, <2>3, <3>1, <3>2 DEF IndexTypeOK, Entries, Unembedded, Left
    <3> QED
        BY <2>4, <3>3
  <2>14. CASE Proceed(w)
    <3>1. /\ at[w] \in Loops /\ todo[w] = {} /\ at'[w] = After(w)[1] /\ todo'[w] = After(w)[2]
          /\ hash' = hash /\ dense /\ need'[w] = need[w]
        BY <2>14 DEF IndexTypeOK, Proceed, indexVars, workVars
    <3>2. CASE at[w] \in {"remove", "lex"}
        BY <2>1, <2>2, <2>3, <2>4, <3>1, <3>2, AfterLoop DEF Unembedded, Left, Present
    <3>3. CASE at[w] = "hash" /\ w = "index"
        BY <2>1, <2>2, <2>3, <2>4, <3>1, <3>3, AfterLoop DEF Unembedded, Left, Present
    <3>4. CASE (at[w] = "hash" /\ w = "refresh") \/ at[w] = "prune"
        BY <2>1, <2>2, <2>3, <2>4, <3>1, <3>4, AfterLoop DEF Unembedded, Left
    <3>5. CASE at[w] = "cached"
        BY <2>5, <3>1, <3>5, AfterLoop DEF Unembedded, Left
    <3>6. CASE at[w] \in {"chunk", "store"}
        BY <2>5, <3>1, <3>6, AfterLoop DEF Unembedded, Left
    <3> QED
        BY <3>1, <3>2, <3>3, <3>4, <3>5, <3>6 DEF Loops, Workers
  <2>15. CASE Embed(w)
    <3>1. /\ at[w] = "embed" /\ at'[w] = "store" /\ todo'[w] = need[w] /\ hash' = hash /\ dense
        BY <2>15 DEF IndexTypeOK, Embed, indexVars
    <3> QED
        BY <2>5, <3>1 DEF Unembedded, Left
  <2>16. CASE EmbedFails(w)
      BY <2>16 DEF EmbedFails
  <2>17. CASE Finish(w)
    <3>1. dense
        BY <2>1, <2>17 DEF Finish, OneWorks, Indexing
    <3>2. at[w] = "finish" /\ hash' = hash
        BY <2>17 DEF Finish, indexVars
    <3> QED
        BY <2>5, <3>1, <3>2 DEF Unembedded, Left
  <2>18. CASE SaveVectors(w) \/ SaveLexical(w) \/ SaveCache(w)
    <3>1. at[w] \in {"saveVectors", "saveLexical", "saveCache"} /\ hash' = hash /\ dense
        BY <2>18 DEF SaveVectors, SaveLexical, SaveCache, indexVars
    <3> QED
        BY <2>5, <3>1 DEF Unembedded, Left
  <2> QED
      BY <1>6, <2>6, <2>7, <2>8, <2>9, <2>10, <2>11, <2>12, <2>13, <2>14, <2>15, <2>16, <2>17, <2>18
      DEF Work
<1> QED
    BY <1>1, <1>2, <1>3, <1>4, <1>5, <1>6 DEF Next

-----------------------------------------------------------------------------
(* The inductive invariant of the indexes holds in every reachable state: a worker     *)
(* keeps to what it was given, hashes keep to their shapes in memory and on disk, and  *)
(* what a lone worker is done with is right (service.go Index and Refresh).            *)
THEOREM IndexInvariance == Spec => []IndexInv
<1>1. IndexInv /\ [Next]_vars => IndexInv'
    BY IndexTypeStep, ModelIsKnownStep, VectorsFitStep, WorkFitsStep, OneWorksStep, GraphFollowsStep,
       DocsFollowStep, VectorsFollowStep DEF IndexInv
<1> QED
    BY <1>1, IndexInit, PTL DEF Spec

(* Once the index and the refreshes are over, search answers from what the package is,  *)
(* for every set of nodes and versions, as long as no refresh overlapped the background *)
(* index.                                                                               *)
THEOREM IndexesFollowTheModelHolds == Spec => []IndexesFollowTheModel
<1>1. IndexInv => IndexesFollowTheModel
  <2> SUFFICES ASSUME IndexInv, Settled, ~overlapped PROVE
        /\ graph = model
        /\ \A n \in Present(source) : doc[n] # None /\ doc[n][1] = Shape[source[n]]
        /\ dense =>
             /\ Present(hash) = Present(source)
             /\ \A n \in Present(source) :
                  hash[n][1] = Shape[source[n]] /\ vec[n][1] = Shape[source[n]]
      BY DEF IndexesFollowTheModel
  <2>1. up /\ ~pending /\ \A w \in Workers : at[w] = "off"
      BY DEF Settled
  <2>2. \A n \in Nodes : (source[n] = None <=> model[n] = None)
                         /\ (source[n] # None => Shape[source[n]] = Shape[model[n]])
    <3>1. Modelled(source) = Modelled(model)
        BY <2>1 DEF IndexInv, ModelIsKnown
    <3>2. ASSUME NEW n \in Nodes PROVE Modelled(source)[n] = Modelled(model)[n]
        BY <3>1
    <3>3. ASSUME NEW m \in Models, NEW n \in Nodes, m[n] # None PROVE Shape[m[n]] # None
        BY <3>3, ShapeAssumption, NoneAssumption DEF Models
    <3>4. source \in Models /\ model \in Models
        BY DEF IndexInv, IndexTypeOK
    <3> QED
        BY <3>2, <3>3, <3>4 DEF Modelled
  <2>3. graph = model
      BY <2>1 DEF IndexInv, GraphFollows, Workers
  <2>4. \A n \in Nodes : model[n] # None => doc[n] # None /\ doc[n][1] = Shape[model[n]]
      BY <2>1 DEF IndexInv, DocsFollow, Unlexed
  <2>5. dense => \A n \in Nodes : /\ model[n] # None => hash[n] # None /\ hash[n][1] = Shape[model[n]]
                                  /\ model[n] = None => hash[n] = None
      BY <2>1 DEF IndexInv, VectorsFollow, Unembedded, Left
  <2>6. \A n \in Nodes : hash[n] # None => vec[n][1] = hash[n][1]
      BY DEF IndexInv, VectorsFit
  <2> QED
      BY <2>2, <2>3, <2>4, <2>5, <2>6 DEF Present
<1> QED
    BY <1>1, IndexInvariance, PTL

-----------------------------------------------------------------------------
(* The shared vector store. *)

(* A daemon that waits to rename, and that nobody overtook, has every vector of a *)
(* file of its namespace in hand.                                                 *)
MergedCoversFile ==
  \A d \in Daemons :
    pc[d] = "rename" /\ ~overtaken[d] /\ header = NsOf[d] => Known(file) \subseteq Known(snap[d])

SnapsAreOwn == \A d \in Daemons : \A h \in Hashes : snap[d][h] \in {Absent, NsOf[d]}

StoreInv ==
  /\ StoreTypeOK
  /\ VectorsAreOwn
  /\ SnapsAreOwn
  /\ UnsavedIsFlagged
  /\ MergedCoversFile

-----------------------------------------------------------------------------
(* What one reads of the file is a map of one's own vectors. *)
LEMMA ReadTypes ==
  ASSUME StoreTypeOK, NEW d \in Daemons
  PROVE  /\ Read(d) \in Vectors
         /\ NoVectors \in Vectors
BY NamespaceAssumption DEF StoreTypeOK, Read, Vectors, NoVectors

LEMMA ReadIsOwn ==
  ASSUME StoreTypeOK, VectorsAreOwn, NEW d \in Daemons, NEW h \in Hashes
  PROVE  Read(d)[h] \in {Absent, NsOf[d]}
BY AbsentAssumption, NamespaceAssumption DEF StoreTypeOK, VectorsAreOwn, Read, NoVectors

LEMMA NothingKnown == Known(NoVectors) = {}
BY DEF Known, NoVectors

-----------------------------------------------------------------------------
LEMMA StoreInitTypes == StoreInit => StoreTypeOK
BY NamespaceAssumption DEF StoreInit, StoreTypeOK, Vectors, NoVectors

LEMMA StoreInitInvariant == StoreInit => StoreInv
<1> SUFFICES ASSUME StoreInit PROVE StoreInv
    OBVIOUS
<1>1. StoreTypeOK
    BY StoreInitTypes
<1>2. VectorsAreOwn
    BY DEF StoreInit, VectorsAreOwn, NoVectors
<1>3. SnapsAreOwn
    BY DEF StoreInit, SnapsAreOwn, NoVectors
<1>4. UnsavedIsFlagged
    BY NothingKnown DEF StoreInit, UnsavedIsFlagged
<1>5. MergedCoversFile
    BY DEF StoreInit, MergedCoversFile
<1> QED
    BY <1>1, <1>2, <1>3, <1>4, <1>5 DEF StoreInv

LEMMA StoreTypeStep == StoreTypeOK /\ [StoreNext]_storeVars => StoreTypeOK'
<1> SUFFICES ASSUME StoreTypeOK, [StoreNext]_storeVars PROVE StoreTypeOK'
    OBVIOUS
<1>1. CASE UNCHANGED storeVars
    BY <1>1 DEF StoreTypeOK, storeVars
<1>2. CASE StoreNext
  <2> PICK d \in Daemons :
        \/ StartDaemon(d) \/ StopDaemon(d) \/ EnsureLoaded(d)
        \/ \E h \in Hashes : Put(d, h)
        \/ Snapshot(d) \/ Merge(d) \/ Rename(d) \/ Fail(d)
      BY <1>2 DEF StoreNext
  <2>1. CASE StartDaemon(d)
      BY <2>1 DEF StoreTypeOK, StartDaemon, cacheVars, fileVars
  <2>2. CASE StopDaemon(d)
      BY <2>2, ReadTypes DEF StoreTypeOK, StopDaemon, fileVars
  <2>3. CASE EnsureLoaded(d)
    <3>1. Known(Read(d)) \subseteq Hashes
        BY DEF Known
    <3> QED
        BY <2>3, <3>1, ReadTypes DEF StoreTypeOK, EnsureLoaded, fileVars
  <2>4. CASE \E h \in Hashes : Put(d, h)
    <3> PICK h \in Hashes : Put(d, h)
        BY <2>4
    <3>1. NsOf[d] \in Namespaces
        BY NamespaceAssumption
    <3>2. vectors' \in [Daemons -> Vectors]
        BY <3>1 DEF StoreTypeOK, Put, Vectors
    <3> QED
        BY <3>2 DEF StoreTypeOK, Put, fileVars
  <2>5. CASE Snapshot(d)
      BY <2>5 DEF StoreTypeOK, Snapshot, fileVars
  <2>6. CASE Merge(d)
    <3>1. [h \in Hashes |-> IF snap[d][h] # Absent THEN snap[d][h] ELSE Read(d)[h]] \in Vectors
        BY ReadTypes DEF StoreTypeOK, Vectors
    <3> QED
        BY <2>6, <3>1 DEF StoreTypeOK, Merge, cacheVars, fileVars
  <2>7. CASE Rename(d)
    <3>1. Known(snap[d]) \subseteq Hashes
        BY DEF Known
    <3>2. NsOf[d] \in Namespaces
        BY NamespaceAssumption
    <3>3. overtaken' \in [Daemons -> BOOLEAN]
        BY <2>7 DEF Rename
    <3> QED
        BY <2>7, <3>1, <3>2, <3>3, ReadTypes DEF StoreTypeOK, Rename, cacheVars
  <2>8. CASE Fail(d)
      BY <2>8, ReadTypes DEF StoreTypeOK, Fail, fileVars
  <2> QED
      BY <2>1, <2>2, <2>3, <2>4, <2>5, <2>6, <2>7, <2>8
<1> QED
    BY <1>1, <1>2

(* Vectors keep to their namespace: the only new ones are computed by Put, and what *)
(* is taken from the file passed its header.                                        *)
LEMMA OwnStep ==
  StoreTypeOK /\ VectorsAreOwn /\ SnapsAreOwn /\ [StoreNext]_storeVars => VectorsAreOwn' /\ SnapsAreOwn'
<1> SUFFICES ASSUME StoreTypeOK, VectorsAreOwn, SnapsAreOwn, [StoreNext]_storeVars
             PROVE  VectorsAreOwn' /\ SnapsAreOwn'
    OBVIOUS
<1>1. CASE UNCHANGED storeVars
    BY <1>1 DEF VectorsAreOwn, SnapsAreOwn, storeVars
<1>2. CASE StoreNext
  <2> PICK d \in Daemons :
        \/ StartDaemon(d) \/ StopDaemon(d) \/ EnsureLoaded(d)
        \/ \E h \in Hashes : Put(d, h)
        \/ Snapshot(d) \/ Merge(d) \/ Rename(d) \/ Fail(d)
      BY <1>2 DEF StoreNext
  <2>1. CASE StartDaemon(d)
      BY <2>1 DEF VectorsAreOwn, SnapsAreOwn, StartDaemon, cacheVars, fileVars
  <2>2. CASE StopDaemon(d)
      BY <2>2 DEF StoreTypeOK, VectorsAreOwn, SnapsAreOwn, StopDaemon, NoVectors, fileVars
  <2>3. CASE EnsureLoaded(d)
      BY <2>3, ReadIsOwn DEF StoreTypeOK, VectorsAreOwn, SnapsAreOwn, EnsureLoaded, fileVars
  <2>4. CASE \E h \in Hashes : Put(d, h)
      BY <2>4 DEF StoreTypeOK, Vectors, VectorsAreOwn, SnapsAreOwn, Put, fileVars
  <2>5. CASE Snapshot(d)
      BY <2>5 DEF StoreTypeOK, VectorsAreOwn, SnapsAreOwn, Snapshot, fileVars
  <2>6. CASE Merge(d)
      BY <2>6, ReadIsOwn DEF StoreTypeOK, VectorsAreOwn, SnapsAreOwn, Merge, cacheVars, fileVars
  <2>7. CASE Rename(d)
      BY <2>7 DEF StoreTypeOK, VectorsAreOwn, SnapsAreOwn, Rename, NoVectors, cacheVars
  <2>8. CASE Fail(d)
      BY <2>8 DEF StoreTypeOK, VectorsAreOwn, SnapsAreOwn, Fail, NoVectors, fileVars
  <2> QED
      BY <2>1, <2>2, <2>3, <2>4, <2>5, <2>6, <2>7, <2>8
<1> QED
    BY <1>1, <1>2

(* No vector is forgotten: every step that changes what a daemon knows, has stored *)
(* or is writing leaves it flagged, in the snapshot or in the file.                *)
LEMMA FlaggedStep == StoreTypeOK /\ UnsavedIsFlagged /\ [StoreNext]_storeVars => UnsavedIsFlagged'
<1> SUFFICES ASSUME StoreTypeOK, UnsavedIsFlagged, [StoreNext]_storeVars,
                    NEW x \in Daemons, NEW h \in Hashes,
                    vectors'[x][h] # Absent, h \notin stored'[x]
             PROVE  dirty'[x] \/ snap'[x][h] # Absent
    BY DEF UnsavedIsFlagged, Known
<1>0. vectors[x][h] # Absent /\ h \notin stored[x] => dirty[x] \/ snap[x][h] # Absent
    BY DEF UnsavedIsFlagged, Known
<1>1. CASE UNCHANGED storeVars
    BY <1>0, <1>1 DEF storeVars
<1>2. CASE StoreNext
  <2> PICK d \in Daemons :
        \/ StartDaemon(d) \/ StopDaemon(d) \/ EnsureLoaded(d)
        \/ \E k \in Hashes : Put(d, k)
        \/ Snapshot(d) \/ Merge(d) \/ Rename(d) \/ Fail(d)
      BY <1>2 DEF StoreNext
  <2>1. CASE StartDaemon(d)
      BY <1>0, <2>1 DEF StartDaemon, cacheVars
  <2>2. CASE StopDaemon(d)
      BY <1>0, <2>2 DEF StoreTypeOK, StopDaemon, NoVectors
  <2>3. CASE EnsureLoaded(d)
      BY <1>0, <2>3 DEF StoreTypeOK, EnsureLoaded, Known
  <2>4. CASE \E k \in Hashes : Put(d, k)
    <3> PICK k \in Hashes : Put(d, k)
        BY <2>4
    <3>1. CASE x = d
        BY <3>1 DEF StoreTypeOK, Put
    <3>2. CASE x # d
        BY <1>0, <3>2 DEF StoreTypeOK, Put
    <3> QED
        BY <3>1, <3>2
  <2>5. CASE Snapshot(d)
      BY <1>0, <2>5 DEF StoreTypeOK, Snapshot
  <2>6. CASE Merge(d)
      BY <1>0, <2>6 DEF StoreTypeOK, Merge, cacheVars
  <2>7. CASE Rename(d)
      BY <1>0, <2>7 DEF StoreTypeOK, Rename, cacheVars, Known
  <2>8. CASE Fail(d)
      BY <1>0, <2>8 DEF StoreTypeOK, Fail
  <2> QED
      BY <2>1, <2>2, <2>3, <2>4, <2>5, <2>6, <2>7, <2>8
<1> QED
    BY <1>1, <1>2

LEMMA MergedStep == StoreTypeOK /\ MergedCoversFile /\ [StoreNext]_storeVars => MergedCoversFile'
<1> SUFFICES ASSUME StoreTypeOK, MergedCoversFile, [StoreNext]_storeVars,
                    NEW x \in Daemons, NEW h \in Hashes,
                    pc'[x] = "rename", ~overtaken'[x], header' = NsOf[x], file'[h] # Absent
             PROVE  snap'[x][h] # Absent
    BY DEF MergedCoversFile, Known
<1>0. pc[x] = "rename" /\ ~overtaken[x] /\ header = NsOf[x] /\ file[h] # Absent
        => snap[x][h] # Absent
    BY DEF MergedCoversFile, Known
<1>1. CASE UNCHANGED storeVars
    BY <1>0, <1>1 DEF storeVars
<1>2. CASE StoreNext
  <2> PICK d \in Daemons :
        \/ StartDaemon(d) \/ StopDaemon(d) \/ EnsureLoaded(d)
        \/ \E k \in Hashes : Put(d, k)
        \/ Snapshot(d) \/ Merge(d) \/ Rename(d) \/ Fail(d)
      BY <1>2 DEF StoreNext
  <2>1. CASE StartDaemon(d)
      BY <1>0, <2>1 DEF StartDaemon, fileVars
  <2>2. CASE StopDaemon(d)
      BY <1>0, <2>2 DEF StoreTypeOK, StopDaemon, fileVars
  <2>3. CASE EnsureLoaded(d)
      BY <1>0, <2>3 DEF EnsureLoaded, fileVars
  <2>4. CASE \E k \in Hashes : Put(d, k)
      BY <1>0, <2>4 DEF Put, fileVars
  <2>5. CASE Snapshot(d)
      BY <1>0, <2>5 DEF StoreTypeOK, Snapshot, fileVars
  <2>6. CASE Merge(d)
      BY <1>0, <2>6 DEF StoreTypeOK, Merge, Read, fileVars
  <2>7. CASE Rename(d)
      BY <1>0, <2>7 DEF StoreTypeOK, Rename
  <2>8. CASE Fail(d)
      BY <1>0, <2>8 DEF StoreTypeOK, Fail, fileVars
  <2> QED
      BY <2>1, <2>2, <2>3, <2>4, <2>5, <2>6, <2>7, <2>8
<1> QED
    BY <1>1, <1>2

-----------------------------------------------------------------------------
(* Every reachable state of the vector store has the declared types.  (What the     *)
(* structs of vecstore.go declare.)                                                 *)
THEOREM StoreTypeCorrect == StoreSpec => []StoreTypeOK
<1>1. StoreInit => StoreTypeOK
    BY StoreInitTypes
<1>2. StoreTypeOK /\ [StoreNext]_storeVars => StoreTypeOK'
    BY StoreTypeStep
<1> QED
    BY <1>1, <1>2, PTL DEF StoreSpec

(* The inductive invariant behind the theorems below.  (Every operation of           *)
(* vecstore.go, in any order, in any number of daemons.)                             *)
THEOREM StoreInvariance == StoreSpec => []StoreInv
<1>1. StoreInit => StoreInv
    BY StoreInitInvariant
<1>2. StoreInv /\ [StoreNext]_storeVars => StoreInv'
    BY StoreTypeStep, OwnStep, FlaggedStep, MergedStep DEF StoreInv
<1> QED
    BY <1>1, <1>2, PTL DEF StoreSpec

(* No vector answers for another namespace than the one that computed it, however   *)
(* many namespaces share the file.  (readFile's header check.)                      *)
THEOREM VectorsAreOwnHolds == StoreSpec => []VectorsAreOwn
<1>1. StoreInv => VectorsAreOwn
    BY DEF StoreInv
<1> QED
    BY <1>1, StoreInvariance, PTL

(* No vector is forgotten by a save that fails or overlaps with an insertion.       *)
(* (cache.save and the dirty flag.)                                                 *)
THEOREM UnsavedIsFlaggedHolds == StoreSpec => []UnsavedIsFlagged
<1>1. StoreInv => UnsavedIsFlagged
    BY DEF StoreInv
<1> QED
    BY <1>1, StoreInvariance, PTL

(* The file loses a vector only to a write that read it before another daemon's      *)
(* write, or that found another namespace in it.  (The union in writeFile.)          *)
THEOREM LossNeedsARaceHolds == StoreSpec => LossNeedsARace
<1> DEFINE Race == \A h \in Known(file) \ Known(file)' :
                     \E d \in Daemons : Rename(d) /\ (overtaken[d] \/ header # NsOf[d])
<1>1. StoreInv /\ [StoreNext]_storeVars => [Race]_storeVars
  <2> SUFFICES ASSUME StoreInv, StoreNext, NEW h \in Known(file) \ Known(file)'
               PROVE  \E d \in Daemons : Rename(d) /\ (overtaken[d] \/ header # NsOf[d])
      OBVIOUS
  <2>0. h \in Hashes /\ file[h] # Absent /\ file'[h] = Absent
      BY DEF Known
  <2>1. file' # file
      BY <2>0
  <2> PICK d \in Daemons : Rename(d)
      BY <2>1 DEF StoreNext, StartDaemon, StopDaemon, EnsureLoaded, Put, Snapshot, Merge, Fail, fileVars
  <2>2. snap[d][h] = Absent /\ pc[d] = "rename"
      BY <2>0 DEF Rename
  <2>3. overtaken[d] \/ header # NsOf[d]
      BY <2>0, <2>2 DEF StoreInv, MergedCoversFile, Known
  <2> QED
      BY <2>3
<1>2. LossNeedsARace <=> [][Race]_storeVars
    BY DEF LossNeedsARace
<1> QED
    BY <1>1, <1>2, StoreInvariance, PTL DEF StoreSpec
=============================================================================
