----------------------------- MODULE OpfsStore -----------------------------
(***************************************************************************)
(* The directory store of src/opfs-directory-store.ts: a tree is written    *)
(* file by file below a generation directory with a random name, then its   *)
(* manifest, and HEAD.json, which names the generation and the hash of the  *)
(* manifest, last.  A restore follows HEAD and verifies the manifest and    *)
(* every file.                                                              *)
(*                                                                          *)
(* A hash is modelled by the value it is taken of: a manifest maps a path   *)
(* to the contents whose length and hash it lists, and HEAD holds the       *)
(* manifest whose hash it lists.  Each step is one awaited file operation;  *)
(* a step may also reject instead, and a client may disappear between two.  *)
(* createWritable() swaps the new contents in at close(); before that a new *)
(* name is an empty file.                                                   *)
(***************************************************************************)
EXTENDS Naturals, FiniteSets

CONSTANTS
  Client,          \* documents that commit to or restore from the store
  File,            \* paths below rootPath
  Rank,            \* their place in the order the entries are sorted in
  Content,         \* what a file can hold
  None,            \* no such entry
  Torn,            \* an entry created whose contents were never closed
  Damaged,         \* an entry whose contents no longer match any hash
  MaxGenerations,  \* bound: how many commits begin
  MaxDamages       \* bound: how often stored data is damaged or evicted

ASSUME StoreAssumption ==
  /\ {None, Torn, Damaged} \cap Content = {}
  /\ None # Torn /\ None # Damaged /\ Torn # Damaged
  /\ Rank \in [File -> Nat]
  /\ MaxGenerations \in Nat /\ MaxDamages \in Nat

Generation == 1..MaxGenerations
Tree == [File -> Content \cup {None}]
NoFiles == [f \in File |-> None]
Files(t) == {f \in File : t[f] # None}
SnapshotHead == [generation : Generation, manifest : Tree]

ASSUME EntryAssumption ==
  {None, Torn, Damaged} \cap (Tree \cup SnapshotHead) = {}

VARIABLES
  head,        \* HEAD.json
  manifests,   \* manifest.json of each generation
  payload,     \* the files below payload/ of each generation
  present,     \* the generation directories that exist
  commits,     \* how many commits have begun
  damages,     \* how often stored data was damaged or evicted
  tree,        \* each client's Directory below rootPath
  phase,       \* where a client's commit or restore stands
  generation,  \* the generation it works on
  listed,      \* the manifest it builds or checks against
  todo,        \* the files it has still to write or restore
  current,     \* the file it is writing
  outcome,     \* how the client's last operation ended
  delivered    \* the tree its restore left, until it is changed, or None

disk == <<head, manifests, payload, present, commits, damages>>
work == <<phase, generation, listed, todo, current>>
opfsVars == <<disk, tree, work, outcome, delivered>>

Writing == {"visiting", "writing", "manifest", "head", "committing"}
Reading == {"opened", "restoring"}

StoreTypeOK ==
  /\ head \in SnapshotHead \cup {None, Torn, Damaged}
  /\ manifests \in [Generation -> Tree \cup {None, Torn, Damaged}]
  /\ payload \in [Generation -> [File -> Content \cup {None, Torn, Damaged}]]
  /\ present \subseteq Generation
  /\ commits \in 0..MaxGenerations /\ damages \in Nat
  /\ tree \in [Client -> Tree]
  /\ phase \in [Client -> {"idle"} \cup Writing \cup Reading]
  /\ generation \in [Client -> Generation \cup {None}]
  /\ listed \in [Client -> Tree]
  /\ todo \in [Client -> SUBSET File]
  /\ current \in [Client -> File \cup {None}]
  /\ outcome \in [Client -> {"none", "committed", "restored", "failed"}]
  /\ delivered \in [Client -> Tree \cup {None}]

StoreInit ==
  /\ head = None
  /\ manifests = [g \in Generation |-> None]
  /\ payload = [g \in Generation |-> NoFiles]
  /\ present = {} /\ commits = 0 /\ damages = 0
  /\ tree = [c \in Client |-> NoFiles]
  /\ phase = [c \in Client |-> "idle"]
  /\ generation = [c \in Client |-> None]
  /\ listed = [c \in Client |-> NoFiles]
  /\ todo = [c \in Client |-> {}]
  /\ current = [c \in Client |-> None]
  /\ outcome = [c \in Client |-> "none"]
  /\ delivered = [c \in Client |-> None]

-----------------------------------------------------------------------------
Enter(c, p) == phase' = [phase EXCEPT ![c] = p]

\* The operation returns or throws: what it held in local variables is gone.
Leave(c) ==
  /\ Enter(c, "idle")
  /\ generation' = [generation EXCEPT ![c] = None]
  /\ listed' = [listed EXCEPT ![c] = NoFiles]
  /\ todo' = [todo EXCEPT ![c] = {}]
  /\ current' = [current EXCEPT ![c] = None]
End(c, o) == Leave(c) /\ outcome' = [outcome EXCEPT ![c] = o]

\* Entries are visited in sorted order, and manifest.files lists them in it.
IsNext(c, f) == f \in todo[c] /\ \A g \in todo[c] : Rank[f] <= Rank[g]

\* The directories a commit writes to or a restore reads from still exist.
Reachable(c) == generation[c] \in present

(***************************************************************************)
(* commitDirectoryTreeToOpfs.                                               *)
(***************************************************************************)
\* Slip: every commit of the store uses one directory.
SameGeneration == 1
\* crypto.randomUUID()
NewGeneration == commits + 1

BeginCommit(c) ==
  /\ phase[c] = "idle" /\ commits < MaxGenerations
  /\ Enter(c, "visiting")
  /\ commits' = commits + 1
  /\ present' = present \cup {NewGeneration}
  /\ generation' = [generation EXCEPT ![c] = NewGeneration]
  /\ todo' = [todo EXCEPT ![c] = Files(tree[c])]
  /\ listed' = [listed EXCEPT ![c] = NoFiles]
  /\ outcome' = [outcome EXCEPT ![c] = "none"]
  /\ UNCHANGED <<head, manifests, payload, damages, tree, current, delivered>>

CreateFile(c, f) ==
  /\ phase[c] = "visiting" /\ IsNext(c, f) /\ Reachable(c)
  /\ Enter(c, "writing")
  /\ current' = [current EXCEPT ![c] = f]
  /\ listed' = [listed EXCEPT ![c][f] = tree[c][f]]
  /\ payload' = [payload EXCEPT ![generation[c]][f] = Torn]
  /\ UNCHANGED <<head, manifests, present, commits, damages, tree, generation,
                 todo, outcome, delivered>>

CloseFile(c) ==
  /\ phase[c] = "writing" /\ Reachable(c)
  /\ Enter(c, "visiting")
  /\ payload' = [payload EXCEPT ![generation[c]][current[c]] =
                   listed[c][current[c]]]
  /\ todo' = [todo EXCEPT ![c] = @ \ {current[c]}]
  /\ UNCHANGED <<head, manifests, present, commits, damages, tree, generation,
                 listed, current, outcome, delivered>>

Visited(c) == phase[c] = "visiting" /\ todo[c] = {}

CreateManifest(c) ==
  /\ Visited(c) /\ Reachable(c)
  /\ Enter(c, "manifest")
  /\ manifests' = [manifests EXCEPT ![generation[c]] = Torn]
  /\ UNCHANGED <<head, payload, present, commits, damages, tree, generation,
                 listed, todo, current, outcome, delivered>>

CloseManifest(c) ==
  /\ phase[c] = "manifest" /\ Reachable(c)
  /\ Enter(c, "head")
  /\ manifests' = [manifests EXCEPT ![generation[c]] = listed[c]]
  /\ UNCHANGED <<head, payload, present, commits, damages, tree, generation,
                 listed, todo, current, outcome, delivered>>

CreateHead(c) ==
  /\ phase[c] = "head" /\ Reachable(c)
  /\ Enter(c, "committing")
  /\ head' = IF head = None THEN Torn ELSE head
  /\ UNCHANGED <<manifests, payload, present, commits, damages, tree,
                 generation, listed, todo, current, outcome, delivered>>

CloseHead(c) ==
  /\ phase[c] = "committing" /\ Reachable(c)
  /\ End(c, "committed")
  /\ head' = [generation |-> generation[c], manifest |-> listed[c]]
  /\ UNCHANGED <<manifests, payload, present, commits, damages, tree, delivered>>

CommitStep(c) ==
  \/ \E f \in File : CreateFile(c, f)
  \/ CloseFile(c) \/ CreateManifest(c) \/ CloseManifest(c)
  \/ CreateHead(c) \/ CloseHead(c)

(***************************************************************************)
(* hasDirectoryTreeSnapshot looks for the entry only; restoreDirectoryTree- *)
(* FromOpfs reads it.  Its callers pass a new Directory.                    *)
(***************************************************************************)
HasDirectoryTreeSnapshot == head # None

BeginRestore(c) ==
  /\ phase[c] = "idle" /\ tree[c] = NoFiles
  /\ IF head \in {None, Torn, Damaged}
     THEN End(c, "failed")
     ELSE /\ Enter(c, "opened")
          /\ generation' = [generation EXCEPT ![c] = head.generation]
          /\ listed' = [listed EXCEPT ![c] = head.manifest]
          /\ outcome' = [outcome EXCEPT ![c] = "none"]
          /\ UNCHANGED <<todo, current>>
  /\ UNCHANGED <<disk, tree, delivered>>

ReadManifest(c) ==
  /\ phase[c] = "opened" /\ Reachable(c)
  /\ manifests[generation[c]] = listed[c]
  /\ Enter(c, "restoring")
  /\ todo' = [todo EXCEPT ![c] = Files(listed[c])]
  /\ UNCHANGED <<disk, tree, generation, listed, current, outcome, delivered>>

Verifies(c, f) == payload[generation[c]][f] = listed[c][f]

RestoreFile(c, f) ==
  /\ phase[c] = "restoring" /\ IsNext(c, f) /\ Reachable(c)
  /\ Verifies(c, f)
  /\ tree' = [tree EXCEPT ![c][f] = payload[generation[c]][f]]
  /\ todo' = [todo EXCEPT ![c] = @ \ {f}]
  /\ UNCHANGED <<disk, phase, generation, listed, current, outcome, delivered>>

\* Slip: one file that cannot be restored is skipped.
RestoredMostFiles(c) == phase[c] = "restoring" /\ Cardinality(todo[c]) <= 1
RestoredAllFiles(c) == phase[c] = "restoring" /\ todo[c] = {}

FinishRestore(c) ==
  /\ RestoredAllFiles(c)
  /\ End(c, "restored")
  /\ delivered' = [delivered EXCEPT ![c] = tree[c]]
  /\ UNCHANGED <<disk, tree>>

RestoreStep(c) ==
  \/ ReadManifest(c) \/ FinishRestore(c)
  \/ \E f \in File : RestoreFile(c, f)

-----------------------------------------------------------------------------
\* Any awaited operation rejects: quota, limit, mismatch, missing entry.
FailOperation(c) ==
  /\ phase[c] # "idle"
  /\ End(c, "failed")
  /\ UNCHANGED <<disk, tree, delivered>>

\* The document goes away, and a later one starts with nothing in memory.
Vanish(c) ==
  /\ End(c, "none")
  /\ tree' = [tree EXCEPT ![c] = NoFiles]
  /\ delivered' = [delivered EXCEPT ![c] = None]
  /\ UNCHANGED disk

Damage ==
  /\ damages < MaxDamages /\ damages' = damages + 1
  /\ \/ /\ head # None /\ head' = Damaged
        /\ UNCHANGED <<manifests, payload>>
     \/ \E g \in present :
          /\ manifests[g] # None
          /\ manifests' = [manifests EXCEPT ![g] = Damaged]
          /\ UNCHANGED <<head, payload>>
     \/ \E g \in present, f \in File :
          /\ payload[g][f] # None
          /\ payload' = [payload EXCEPT ![g][f] = Damaged]
          /\ UNCHANGED <<head, manifests>>
  /\ UNCHANGED <<present, commits, tree, work, outcome, delivered>>

\* The browser, or its user, clears the origin's storage.
Evict ==
  /\ damages < MaxDamages /\ damages' = damages + 1
  /\ present # {}
  /\ head' = None /\ present' = {}
  /\ manifests' = [g \in Generation |-> None]
  /\ payload' = [g \in Generation |-> NoFiles]
  /\ UNCHANGED <<commits, tree, work, outcome, delivered>>

StorageStep == Damage \/ Evict

\* What the client's program does with its own tree, at any time.
ChangeTree(c, t) ==
  /\ tree' = [tree EXCEPT ![c] = t]
  /\ delivered' = [delivered EXCEPT ![c] = None]
  /\ UNCHANGED <<disk, work, outcome>>

\* The store reads the tree entry by entry and checks nothing: that it stays as
\* it is while an operation runs is what the store asks of its callers.
StoreNext ==
  \/ StorageStep
  \/ \E c \in Client :
       \/ BeginCommit(c) \/ CommitStep(c)
       \/ BeginRestore(c) \/ RestoreStep(c)
       \/ FailOperation(c) \/ Vanish(c)
       \/ phase[c] = "idle" /\ \E t \in Tree : ChangeTree(c, t)

StoreSpec == StoreInit /\ [][StoreNext]_opfsVars

-----------------------------------------------------------------------------
\* HEAD names a generation that holds exactly what HEAD's manifest lists: it is
\* the commit point, and "a partially written generation is never read".
HeadIsComplete ==
  head \in SnapshotHead /\ head.generation \in present =>
    /\ manifests[head.generation] \in {head.manifest, Damaged}
    /\ \A f \in File :
         payload[head.generation][f] \in {head.manifest[f], Damaged}

\* The store as its callers see it: HEAD decides what is saved, a restore
\* delivers what HEAD named when it was read.
Store == INSTANCE SnapshotStore WITH
  snapshot <- IF head \in SnapshotHead THEN head.manifest ELSE None,
  reading <- [c \in Client |-> IF phase[c] \in Reading THEN listed[c] ELSE None]

\* commitDirectoryTreeToOpfs saves the whole tree at once or not at all, and
\* restoreDirectoryTreeFromOpfs delivers one saved tree whole or fails.
StoreIsAtomic == Store!Spec
=============================================================================
