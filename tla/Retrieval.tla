------------------------------- MODULE Retrieval -------------------------------
(***************************************************************************)
(* The search indexes of one worktree (retrieval/service.go with the        *)
(* vector index of vindex/brute and the lexical index of lindex/bm25) and   *)
(* the two goroutines of a State that fill them (serve/state.go): the full  *)
(* index that a load starts in the background, and the refresh a package    *)
(* reload makes under the State's lock.                                     *)
(*                                                                         *)
(* The worktree has one package; a node is one of its symbols and has a     *)
(* Version of its source.  Versions of one Shape give the same model:       *)
(* signature, documentation and byte span.  The text indexed for a node is  *)
(* the pair of the shape it was modelled with and of the version its span   *)
(* was read from.                                                           *)
(***************************************************************************)
EXTENDS Naturals, FiniteSets

CONSTANTS
  Nodes, Versions, Shapes,
  Shape,     \* the shape of a version
  MaxEdits,  \* bound: edits of the source
  None

Workers == {"index", "refresh"}
Texts == Shapes \X (Versions \cup {None})

ASSUME ShapeAssumption == Shape \in [Versions -> Shapes]
ASSUME NoneAssumption  == None \notin Versions \cup Shapes \cup Texts

VARIABLES
  source,      \* the node's source on disk, None without one
  edits,       \* how often the source changed
  up,          \* the daemon runs and has loaded the worktree
  pending,     \* the watcher has an event of the package to deliver
  model,       \* State.packages: the version each node was read with
  graph,       \* Service.graph, by the versions it was built from
  doc,         \* the lexical index
  hash, vec,   \* the vector index: content hash, text the vector was computed from
  vcache,      \* the shared vector cache: hash to text
  dense,       \* Service.denseAvailable
  diskVectors, \* vectors.json: pairs of hash and text
  diskDocs,    \* bm25.json
  diskCache,   \* the namespace file
  at,          \* where each worker is
  nodes,       \* the nodes it was given, by version
  todo,        \* nodes its loop still has to visit
  want,        \* the hashes it computed
  need,        \* the nodes it found to embed
  text,        \* the texts it sends to the embedder
  overlapped   \* a refresh ran before the background index was over

indexVars == <<doc, hash, vec>>
diskVars  == <<diskVectors, diskDocs, diskCache>>
workVars  == <<nodes, todo, want, need, text>>
vars == <<source, edits, up, pending, model, graph, doc, hash, vec, vcache, dense,
          diskVectors, diskDocs, diskCache, at, nodes, todo, want, need, text, overlapped>>

Nothing == [n \in Nodes |-> None]
Present(m) == {n \in Nodes : m[n] # None}
Modelled(m) == [n \in Nodes |-> IF m[n] = None THEN None ELSE Shape[m[n]]]

\* What is read for a node now: its signature and documentation come from the model, its
\* body from the file.  The document, the content hash and the chunks that are sent to
\* the embedder are functions of that text.
TextNow(w, n) == <<Shape[nodes[w][n]], source[n]>>
EmbedText(w, n) == TextNow(w, n)
ContentHash(w, n) == TextNow(w, n)
BuildChunks(w, n) == TextNow(w, n)

-----------------------------------------------------------------------------
(* The source and the daemon. *)

Edit(n, v) ==
  /\ edits < MaxEdits
  /\ v # source[n]
  /\ source' = [source EXCEPT ![n] = v]
  /\ edits' = edits + 1
  /\ pending' = up
  /\ UNCHANGED <<up, model, graph, indexVars, vcache, dense, diskVars, at, workVars, overlapped>>

\* Load: the vectors on disk also go into the shared cache (seedVectorCache).
Seeded ==
  [t \in Texts |->
     IF diskCache[t] # None THEN diskCache[t]
     ELSE LET same == {n \in Nodes : diskVectors[n][1] = t}
          IN IF same = {} THEN None ELSE diskVectors[CHOOSE n \in same : TRUE][2]]

\* initRetrievalLocked of a load that has read the models: the goroutine gets them.
Start ==
  /\ ~up
  /\ up' = TRUE
  /\ model' = source
  /\ doc' = diskDocs
  /\ hash' = [n \in Nodes |-> diskVectors[n][1]]
  /\ vec' = [n \in Nodes |-> diskVectors[n][2]]
  /\ vcache' = Seeded
  /\ dense' = TRUE
  /\ graph' = Nothing
  /\ at' = [at EXCEPT !["index"] = "graph"]
  /\ nodes' = [nodes EXCEPT !["index"] = source]
  /\ overlapped' = FALSE
  /\ UNCHANGED <<source, edits, pending, diskVars, todo, want, need, text>>

Exit ==
  /\ up
  /\ up' = FALSE
  /\ pending' = FALSE
  /\ model' = Nothing /\ graph' = Nothing
  /\ doc' = Nothing /\ hash' = Nothing /\ vec' = Nothing
  /\ vcache' = [t \in Texts |-> None]
  /\ dense' = FALSE
  /\ at' = [w \in Workers |-> "off"]
  /\ nodes' = [w \in Workers |-> Nothing]
  /\ todo' = [w \in Workers |-> {}]
  /\ want' = [w \in Workers |-> Nothing]
  /\ need' = [w \in Workers |-> {}]
  /\ text' = [w \in Workers |-> Nothing]
  /\ overlapped' = FALSE
  /\ UNCHANGED <<source, edits, diskVars>>

\* ReloadPackage, up to the refresh: the package is read again, and only a model that
\* differs goes on.  Until the refresh is over it holds the State's lock.
Removed == Present(model) \ Present(source)
Reload ==
  /\ up /\ pending
  /\ at["refresh"] = "off"
  /\ pending' = FALSE
  /\ IF Modelled(source) = Modelled(model)
       THEN UNCHANGED <<model, at, nodes, todo, overlapped>>
       ELSE /\ model' = source
            /\ nodes' = [nodes EXCEPT !["refresh"] = source]
            /\ todo' = [todo EXCEPT !["refresh"] = Removed]
            /\ at' = [at EXCEPT !["refresh"] = "remove"]
            /\ overlapped' = (overlapped \/ at["index"] # "off")
  /\ UNCHANGED <<source, edits, up, graph, indexVars, vcache, dense, diskVars, want, need, text>>

-----------------------------------------------------------------------------
(* The steps of Index and Refresh.  A loop visits its nodes in any order. *)

\* SetGraph: first thing of the index, last thing of a refresh.
SetGraph(w) ==
  /\ at[w] = "graph"
  /\ IF w = "index"
       THEN /\ graph' = nodes[w]
            /\ at' = [at EXCEPT ![w] = "lex"]
            /\ todo' = [todo EXCEPT ![w] = Present(nodes[w])]
       ELSE /\ graph' = model
            /\ at' = [at EXCEPT ![w] = "off"]
            /\ UNCHANGED todo
  /\ nodes' = [nodes EXCEPT ![w] = IF w = "index" THEN @ ELSE Nothing]
  /\ UNCHANGED <<source, edits, up, pending, model, indexVars, vcache, dense, diskVars,
                 want, need, text, overlapped>>

Visit(w, n, phase) ==
  /\ at[w] = phase
  /\ n \in todo[w]
  /\ todo' = [todo EXCEPT ![w] = @ \ {n}]
  /\ UNCHANGED <<source, edits, up, pending, model, graph, dense, diskVars, at, nodes, overlapped>>

Remove(n) ==
  /\ Visit("refresh", n, "remove")
  /\ doc' = [doc EXCEPT ![n] = None]
  /\ hash' = [hash EXCEPT ![n] = None]
  /\ vec' = [vec EXCEPT ![n] = None]
  /\ UNCHANGED <<vcache, want, need, text>>

\* All nodes go into the lexical index.
Lex(w, n) ==
  /\ Visit(w, n, "lex")
  /\ doc' = [doc EXCEPT ![n] = EmbedText(w, n)]
  /\ UNCHANGED <<hash, vec, vcache, want, need, text>>

\* The nodes whose content hash changed have to be embedded.  (Unhashed: nodes that
\* have a vector keep it.)
Unhashed(w, n) == hash[n] = None
Outdated(w, n) == hash[n] # ContentHash(w, n)
Hash(w, n) ==
  /\ Visit(w, n, "hash")
  /\ want' = [want EXCEPT ![w][n] = ContentHash(w, n)]
  /\ need' = [need EXCEPT ![w] = IF Outdated(w, n) THEN @ \cup {n} ELSE @]
  /\ UNCHANGED <<indexVars, vcache, text>>

\* Index drops the vectors of nodes it was not given.
Prune(n) ==
  /\ Visit("index", n, "prune")
  /\ hash' = [hash EXCEPT ![n] = None]
  /\ vec' = [vec EXCEPT ![n] = None]
  /\ UNCHANGED <<doc, vcache, want, need, text>>

\* takeCachedVectors.
TakeCached(w, n) ==
  /\ Visit(w, n, "cached")
  /\ IF vcache[want[w][n]] # None
       THEN /\ hash' = [hash EXCEPT ![n] = want[w][n]]
            /\ vec' = [vec EXCEPT ![n] = vcache[want[w][n]]]
            /\ need' = [need EXCEPT ![w] = @ \ {n}]
       ELSE UNCHANGED <<hash, vec, need>>
  /\ UNCHANGED <<doc, vcache, want, text>>

\* BuildChunks reads the span once more.
Chunk(w, n) ==
  /\ Visit(w, n, "chunk")
  /\ text' = [text EXCEPT ![w][n] = BuildChunks(w, n)]
  /\ UNCHANGED <<indexVars, vcache, want, need>>

\* The vector is stored, and put into the shared cache, under the hash computed before.
Store(w, n) ==
  /\ Visit(w, n, "store")
  /\ hash' = [hash EXCEPT ![n] = want[w][n]]
  /\ vec' = [vec EXCEPT ![n] = text[w][n]]
  /\ vcache' = [vcache EXCEPT ![want[w][n]] = IF @ = None THEN text[w][n] ELSE @]
  /\ UNCHANGED <<doc, want, need, text>>

\* The loop of a phase is over: the next phase, and the nodes its loop visits.
After(w) ==
  CASE at[w] = "remove" -> <<"lex", Present(nodes[w])>>
    [] at[w] = "lex"    -> <<"hash", Present(nodes[w])>>
    [] at[w] = "hash" /\ w = "index" -> <<"prune", Present(hash) \ Present(nodes[w])>>
    [] at[w] = "hash" /\ w = "refresh" -> <<"cached", need[w]>>
    [] at[w] = "prune"  -> <<"cached", need[w]>>
    [] at[w] = "cached" -> IF need[w] # {} THEN <<"chunk", need[w]>> ELSE <<"finish", {}>>
    [] at[w] = "chunk"  -> <<"embed", {}>>
    [] at[w] = "store"  -> <<"finish", {}>>
Loops == {"remove", "lex", "hash", "prune", "cached", "chunk", "store"}
Proceed(w) ==
  /\ at[w] \in Loops
  /\ todo[w] = {}
  /\ at' = [at EXCEPT ![w] = After(w)[1]]
  /\ todo' = [todo EXCEPT ![w] = After(w)[2]]
  /\ UNCHANGED <<source, edits, up, pending, model, graph, indexVars, vcache, dense, diskVars,
                 nodes, want, need, text, overlapped>>

Embed(w) ==
  /\ at[w] = "embed"
  /\ at' = [at EXCEPT ![w] = "store"]
  /\ todo' = [todo EXCEPT ![w] = need[w]]
  /\ UNCHANGED <<source, edits, up, pending, model, graph, indexVars, vcache, dense, diskVars,
                 nodes, want, need, text, overlapped>>

\* The embedder fails: dense search is off, and nothing of the batch is stored.
EmbedFails(w) ==
  /\ at[w] = "embed"
  /\ at' = [at EXCEPT ![w] = "saveVectors"]
  /\ dense' = FALSE
  /\ UNCHANGED <<source, edits, up, pending, model, graph, indexVars, vcache, diskVars, workVars,
                 overlapped>>

\* Only the full index switches dense search on again.  (FinishBatch: it waits for a
\* batch although every vector was in the cache.)
FinishBatch(w) ==
  /\ at[w] = "finish"
  /\ need[w] # {}
  /\ at' = [at EXCEPT ![w] = "saveVectors"]
  /\ dense' = (dense \/ w = "index")
  /\ UNCHANGED <<source, edits, up, pending, model, graph, indexVars, vcache, diskVars, workVars,
                 overlapped>>
Finish(w) ==
  /\ at[w] = "finish"
  /\ at' = [at EXCEPT ![w] = "saveVectors"]
  /\ dense' = (dense \/ w = "index")
  /\ UNCHANGED <<source, edits, up, pending, model, graph, indexVars, vcache, diskVars, workVars,
                 overlapped>>

\* Service.Save and Store.Save.  retrievalReady is closed after the index's.
SaveVectors(w) ==
  /\ at[w] = "saveVectors"
  /\ diskVectors' = [n \in Nodes |-> <<hash[n], vec[n]>>]
  /\ at' = [at EXCEPT ![w] = "saveLexical"]
  /\ UNCHANGED <<source, edits, up, pending, model, graph, indexVars, vcache, dense, diskDocs,
                 diskCache, workVars, overlapped>>
SaveLexical(w) ==
  /\ at[w] = "saveLexical"
  /\ diskDocs' = doc
  /\ at' = [at EXCEPT ![w] = "saveCache"]
  /\ UNCHANGED <<source, edits, up, pending, model, graph, indexVars, vcache, dense, diskVectors,
                 diskCache, workVars, overlapped>>
SaveCache(w) ==
  /\ at[w] = "saveCache"
  /\ diskCache' = vcache
  /\ at' = [at EXCEPT ![w] = IF w = "index" THEN "off" ELSE "graph"]
  /\ todo' = [todo EXCEPT ![w] = {}]
  /\ want' = [want EXCEPT ![w] = Nothing]
  /\ need' = [need EXCEPT ![w] = {}]
  /\ text' = [text EXCEPT ![w] = Nothing]
  /\ nodes' = [nodes EXCEPT ![w] = IF w = "index" THEN Nothing ELSE @]
  /\ UNCHANGED <<source, edits, up, pending, model, graph, indexVars, vcache, dense, diskVectors,
                 diskDocs, overlapped>>

-----------------------------------------------------------------------------
Init ==
  /\ source \in [Nodes -> {None} \cup Versions]
  /\ edits = 0
  /\ up = FALSE
  /\ pending = FALSE
  /\ model = Nothing /\ graph = Nothing
  /\ doc = Nothing /\ hash = Nothing /\ vec = Nothing
  /\ vcache = [t \in Texts |-> None]
  /\ dense = FALSE
  /\ diskVectors = [n \in Nodes |-> <<None, None>>]
  /\ diskDocs = Nothing
  /\ diskCache = [t \in Texts |-> None]
  /\ at = [w \in Workers |-> "off"]
  /\ nodes = [w \in Workers |-> Nothing]
  /\ todo = [w \in Workers |-> {}]
  /\ want = [w \in Workers |-> Nothing]
  /\ need = [w \in Workers |-> {}]
  /\ text = [w \in Workers |-> Nothing]
  /\ overlapped = FALSE

Work(w) ==
  \/ SetGraph(w)
  \/ \E n \in Nodes : Lex(w, n) \/ Hash(w, n) \/ TakeCached(w, n) \/ Chunk(w, n) \/ Store(w, n)
  \/ w = "refresh" /\ \E n \in Nodes : Remove(n)
  \/ w = "index" /\ \E n \in Nodes : Prune(n)
  \/ Proceed(w) \/ Embed(w) \/ EmbedFails(w) \/ Finish(w)
  \/ SaveVectors(w) \/ SaveLexical(w) \/ SaveCache(w)

Next ==
  \/ \E n \in Nodes : \E v \in Versions \cup {None} : Edit(n, v)
  \/ Start \/ Exit \/ Reload
  \/ \E w \in Workers : Work(w)

Spec == Init /\ [][Next]_vars

(* A goroutine that runs goes on, and the watcher delivers what it has. *)
FairSpec == Spec /\ WF_vars(Reload) /\ \A w \in Workers : WF_vars(Work(w))

-----------------------------------------------------------------------------
Settled == up /\ ~pending /\ \A w \in Workers : at[w] = "off"

\* Once the index and the refreshes are over, search answers from what the package
\* is: every node has a document, the graph is the model's, and, while dense search is
\* on, exactly the nodes that exist have a vector, computed with the signature,
\* documentation and span they have now.  It holds whatever was edited while the
\* indexes were being computed, whatever failed, and whatever an earlier daemon left
\* on disk, as long as no refresh overlapped the background index (service.go Index
\* and Refresh, state.go refreshRetrievalLocked).
IndexesFollowTheModel ==
  Settled /\ ~overlapped =>
    /\ graph = model
    /\ \A n \in Present(source) : doc[n] # None /\ doc[n][1] = Shape[source[n]]
    /\ dense =>
         /\ Present(hash) = Present(source)
         /\ \A n \in Present(source) :
              hash[n][1] = Shape[source[n]] /\ vec[n][1] = Shape[source[n]]

\* Search settles again and again while a daemon runs: the background index ends, so
\* that RetrievalReady is closed, the refresh gives the State's lock back, and every
\* edit reaches the indexes, whether or not the embedder answers (initRetrievalLocked,
\* ReloadPackage).
SearchSettles == []<>(Settled \/ ~up)
=============================================================================
