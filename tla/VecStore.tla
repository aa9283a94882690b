------------------------------- MODULE VecStore -------------------------------
(***************************************************************************)
(* The repository's shared vector cache                                     *)
(* (adapter/vindex/vecstore/vecstore.go): every daemon of the repository    *)
(* keeps an in-memory map from content hash to vector, reads it from one    *)
(* file on the first lookup, and merges it back into that file on Save.     *)
(* No lock spans the daemons.                                               *)
(*                                                                         *)
(* A vector is represented by the namespace (embedder and recipe) that      *)
(* computed it: two vectors of one hash and one namespace are equal.  The   *)
(* namespaces of the model sanitise to the same file name.                  *)
(***************************************************************************)
EXTENDS Naturals, FiniteSets

CONSTANTS
  Daemons,     \* processes of one repository
  Namespaces,  \* namespaces whose fileName is the same
  NsOf,        \* the namespace a daemon's embedder asks for
  Hashes,      \* content hashes
  Absent

ASSUME NamespaceAssumption == NsOf \in [Daemons -> Namespaces]
ASSUME AbsentAssumption == Absent \notin Namespaces

VARIABLES
  running,    \* the daemon runs
  opened,     \* cache.once is done
  vectors,    \* cache.vectors
  dirty,      \* cache.dirty
  pc,         \* where the daemon's Save stands
  snap,       \* the map its writeFile is about to write
  header,     \* the namespace in the file's header, Absent without a file
  file,       \* the vectors in the file
  stored,     \* hashes the daemon has read from the file or written to it
  overtaken   \* the file changed since the daemon's writeFile read it

cacheVars == <<opened, vectors, dirty>>
fileVars  == <<header, file>>
storeVars == <<running, opened, vectors, dirty, pc, snap, header, file, stored, overtaken>>

Vectors == [Hashes -> Namespaces \cup {Absent}]
NoVectors == [h \in Hashes |-> Absent]
Known(v) == {h \in Hashes : v[h] # Absent}

-----------------------------------------------------------------------------
(* readFile: what a daemon gets out of the file.  An error means nothing.   *)
(* (ReadAny: the header is not compared.)                                   *)
ReadAny(d) == file
Read(d) == IF header = NsOf[d] THEN file ELSE NoVectors

StartDaemon(d) ==
  /\ ~running[d]
  /\ running' = [running EXCEPT ![d] = TRUE]
  /\ UNCHANGED <<cacheVars, pc, snap, fileVars, stored, overtaken>>

\* The process ends, by a signal or in the middle of anything; it does not save.
StopDaemon(d) ==
  /\ running[d]
  /\ running' = [running EXCEPT ![d] = FALSE]
  /\ opened' = [opened EXCEPT ![d] = FALSE]
  /\ vectors' = [vectors EXCEPT ![d] = NoVectors]
  /\ dirty' = [dirty EXCEPT ![d] = FALSE]
  /\ pc' = [pc EXCEPT ![d] = "idle"]
  /\ snap' = [snap EXCEPT ![d] = NoVectors]
  /\ stored' = [stored EXCEPT ![d] = {}]
  /\ overtaken' = [overtaken EXCEPT ![d] = FALSE]
  /\ UNCHANGED fileVars

\* ensureLoaded, on the first Get or Put.
EnsureLoaded(d) ==
  /\ running[d]
  /\ ~opened[d]
  /\ opened' = [opened EXCEPT ![d] = TRUE]
  /\ vectors' = [vectors EXCEPT ![d] = Read(d)]
  /\ stored' = [stored EXCEPT ![d] = Known(Read(d))]
  /\ UNCHANGED <<running, dirty, pc, snap, fileVars, overtaken>>

\* Put of a hash the cache does not know; a known one changes nothing.
Put(d, h) ==
  /\ opened[d]
  /\ vectors[d][h] = Absent
  /\ vectors' = [vectors EXCEPT ![d][h] = NsOf[d]]
  /\ dirty' = [dirty EXCEPT ![d] = TRUE]
  /\ UNCHANGED <<running, opened, pc, snap, fileVars, stored, overtaken>>

-----------------------------------------------------------------------------
(* Save, one at a time in a daemon (saveMu); Put goes on meanwhile. *)

\* cache.save: the flag is cleared with the snapshot, before the write.
Snapshot(d) ==
  /\ pc[d] = "idle"
  /\ dirty[d]
  /\ dirty' = [dirty EXCEPT ![d] = FALSE]
  /\ snap' = [snap EXCEPT ![d] = vectors[d]]
  /\ pc' = [pc EXCEPT ![d] = "merge"]
  /\ UNCHANGED <<running, opened, vectors, fileVars, stored, overtaken>>

\* writeFile takes in what is on disk.  (MergeNothing: it does not.)
MergeNothing(d) ==
  /\ pc[d] = "merge"
  /\ pc' = [pc EXCEPT ![d] = "rename"]
  /\ overtaken' = [overtaken EXCEPT ![d] = FALSE]
  /\ UNCHANGED <<running, cacheVars, snap, fileVars, stored>>
Merge(d) ==
  /\ pc[d] = "merge"
  /\ pc' = [pc EXCEPT ![d] = "rename"]
  /\ snap' = [snap EXCEPT ![d] =
                [h \in Hashes |-> IF snap[d][h] # Absent THEN snap[d][h] ELSE Read(d)[h]]]
  /\ overtaken' = [overtaken EXCEPT ![d] = FALSE]
  /\ UNCHANGED <<running, cacheVars, fileVars, stored>>

\* The temporary file replaces the namespace file.  (RenameClears: the flag is
\* cleared once more, after the write.)
RenameClears(d) ==
  /\ pc[d] = "rename"
  /\ header' = NsOf[d]
  /\ file' = snap[d]
  /\ pc' = [pc EXCEPT ![d] = "idle"]
  /\ snap' = [snap EXCEPT ![d] = NoVectors]
  /\ stored' = [stored EXCEPT ![d] = @ \cup Known(snap[d])]
  /\ overtaken' = [x \in Daemons |-> x # d /\ (overtaken[x] \/ pc[x] = "rename")]
  /\ dirty' = [dirty EXCEPT ![d] = FALSE]
  /\ UNCHANGED <<running, opened, vectors>>
Rename(d) ==
  /\ pc[d] = "rename"
  /\ header' = NsOf[d]
  /\ file' = snap[d]
  /\ pc' = [pc EXCEPT ![d] = "idle"]
  /\ snap' = [snap EXCEPT ![d] = NoVectors]
  /\ stored' = [stored EXCEPT ![d] = @ \cup Known(snap[d])]
  /\ overtaken' = [x \in Daemons |-> x # d /\ (overtaken[x] \/ pc[x] = "rename")]
  /\ UNCHANGED <<running, cacheVars>>

\* Any step of writeFile fails: cache.save sets the flag again.
Fail(d) ==
  /\ pc[d] # "idle"
  /\ pc' = [pc EXCEPT ![d] = "idle"]
  /\ snap' = [snap EXCEPT ![d] = NoVectors]
  /\ dirty' = [dirty EXCEPT ![d] = TRUE]
  /\ overtaken' = [overtaken EXCEPT ![d] = FALSE]
  /\ UNCHANGED <<running, opened, vectors, fileVars, stored>>

-----------------------------------------------------------------------------
StoreInit ==
  /\ running = [d \in Daemons |-> FALSE]
  /\ opened = [d \in Daemons |-> FALSE]
  /\ vectors = [d \in Daemons |-> NoVectors]
  /\ dirty = [d \in Daemons |-> FALSE]
  /\ pc = [d \in Daemons |-> "idle"]
  /\ snap = [d \in Daemons |-> NoVectors]
  /\ header = Absent
  /\ file = NoVectors
  /\ stored = [d \in Daemons |-> {}]
  /\ overtaken = [d \in Daemons |-> FALSE]

StoreNext ==
  \E d \in Daemons :
    \/ StartDaemon(d) \/ StopDaemon(d) \/ EnsureLoaded(d)
    \/ \E h \in Hashes : Put(d, h)
    \/ Snapshot(d) \/ Merge(d) \/ Rename(d) \/ Fail(d)

StoreSpec == StoreInit /\ [][StoreNext]_storeVars

-----------------------------------------------------------------------------
\* The declared types.
StoreTypeOK ==
  /\ running \in [Daemons -> BOOLEAN] /\ opened \in [Daemons -> BOOLEAN]
  /\ vectors \in [Daemons -> Vectors]
  /\ dirty \in [Daemons -> BOOLEAN]
  /\ pc \in [Daemons -> {"idle", "merge", "rename"}]
  /\ snap \in [Daemons -> Vectors]
  /\ header \in Namespaces \cup {Absent} /\ file \in Vectors
  /\ stored \in [Daemons -> SUBSET Hashes]
  /\ overtaken \in [Daemons -> BOOLEAN]

\* A vector only ever answers for the embedder and recipe that computed it, although
\* two namespaces may share the file: neither a cache nor the file under a header
\* holds a vector of another namespace (readFile's header check, both in the first
\* load and in the merge of a save).
VectorsAreOwn ==
  /\ \A d \in Daemons : \A h \in Hashes : vectors[d][h] \in {Absent, NsOf[d]}
  /\ \A h \in Hashes : file[h] \in {Absent, header}

\* A vector a daemon paid its embedder for is never forgotten by Save: until the
\* daemon has put it into the file, the namespace is flagged or the vector is in the
\* snapshot being written, whatever is added during the write and whichever step of
\* it fails (cache.save clears the flag before the write and sets it again after an
\* error).
UnsavedIsFlagged ==
  \A d \in Daemons : \A h \in Known(vectors[d]) \ stored[d] :
    dirty[d] \/ h \in Known(snap[d])

\* A vector leaves the file only when the write that drops it read the file before
\* another daemon's write, or when the file was another namespace's: the union in
\* writeFile keeps everything else.
LossNeedsARace ==
  [][\A h \in Known(file) \ Known(file)' :
       \E d \in Daemons :
         Rename(d) /\ (overtaken[d] \/ header # NsOf[d])]_storeVars
=============================================================================
