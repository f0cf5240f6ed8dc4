------------------------- MODULE GatewayBootProofs -------------------------
(***************************************************************************)
(* The store of src/opfs-directory-store.ts keeps its promise for any       *)
(* number of documents, files and commits, whatever is damaged or evicted,  *)
(* and the boots of any number of documents work on it as OpfsStore allows, *)
(* so what holds of the store holds of them.                                *)
(***************************************************************************)
EXTENDS GatewayBoot, SequenceTheorems, TLAPS

-----------------------------------------------------------------------------
(***************************************************************************)
(* The store by itself.  HeadIsComplete is not inductive: HEAD names what   *)
(* the commit that closed it wrote, so the invariant follows every commit   *)
(* through its steps (CommitIsOnDisk), and says that no other commit writes *)
(* below the same directory (CommitsApart).                                 *)
(***************************************************************************)
\* The files a commit has still to list, and those it has still to write.
Unlisted(c) == IF phase[c] = "writing" THEN todo[c] \ {current[c]} ELSE todo[c]

\* What each client has in memory fits where it stands.
WorkIsSound(c) ==
  /\ phase[c] # "idle" => generation[c] \in Generation
  /\ phase[c] = "writing" => current[c] \in todo[c]
  /\ phase[c] \in {"manifest", "head", "committing"} => todo[c] = {}
  /\ phase[c] \in Writing =>
       \A f \in File : f \in Unlisted(c) \/ listed[c][f] = tree[c][f]
  /\ phase[c] = "opened" => tree[c] = NoFiles
  /\ phase[c] = "restoring" =>
       \A f \in File : f \in todo[c] \/ tree[c][f] = listed[c][f]

\* What a commit has written is on disk unless it was damaged, and HEAD names
\* another commit.
CommitIsOnDisk(c) ==
  phase[c] \in Writing =>
    /\ generation[c] <= commits
    /\ head \in SnapshotHead => head.generation # generation[c]
    /\ generation[c] \in present =>
         /\ \A f \in File :
              \/ f \in todo[c]
              \/ payload[generation[c]][f] \in {listed[c][f], Damaged}
         /\ phase[c] \in {"head", "committing"} =>
              manifests[generation[c]] \in {listed[c], Damaged}

CommitsApart ==
  \A c, d \in Client :
    /\ phase[c] \in Writing /\ phase[d] \in Writing
    /\ generation[c] = generation[d]
    => c = d

\* A generation that no commit has been given yet is empty.
UnusedIsEmpty ==
  /\ head \in SnapshotHead => head.generation <= commits
  /\ \A g \in Generation : g > commits =>
       manifests[g] = None /\ payload[g] = NoFiles

StoreInv ==
  /\ StoreTypeOK
  /\ \A c \in Client : WorkIsSound(c) /\ CommitIsOnDisk(c)
  /\ CommitsApart
  /\ UnusedIsEmpty
  /\ HeadIsComplete

USE StoreAssumption, EntryAssumption DEF Writing, Reading, Generation

-----------------------------------------------------------------------------
LEMMA NoFilesIsTree == NoFiles \in Tree
BY DEF NoFiles, Tree

LEMMA TypeInit == StoreInit => StoreTypeOK
BY NoFilesIsTree DEF StoreInit, StoreTypeOK, NoFiles

LEMMA InvInit == StoreInit => StoreInv
<1> SUFFICES ASSUME StoreInit PROVE StoreInv
  OBVIOUS
<1>1. StoreTypeOK
  BY TypeInit
<1>2. ASSUME NEW c \in Client PROVE WorkIsSound(c) /\ CommitIsOnDisk(c)
  BY DEF StoreInit, WorkIsSound, CommitIsOnDisk
<1>3. CommitsApart
  BY DEF StoreInit, CommitsApart
<1>4. head \notin SnapshotHead
  BY DEF StoreInit
<1>5. UnusedIsEmpty /\ HeadIsComplete
  BY <1>4 DEF StoreInit, UnusedIsEmpty, HeadIsComplete
<1> QED
  BY <1>1, <1>2, <1>3, <1>5 DEF StoreInv

-----------------------------------------------------------------------------
\* Types, one action after the other.
LEMMA LeaveTypes ==
  ASSUME StoreTypeOK, NEW c \in Client, Leave(c)
  PROVE  /\ phase' \in [Client -> {"idle"} \cup Writing \cup Reading]
         /\ generation' \in [Client -> Generation \cup {None}]
         /\ listed' \in [Client -> Tree]
         /\ todo' \in [Client -> SUBSET File]
         /\ current' \in [Client -> File \cup {None}]
BY NoFilesIsTree DEF StoreTypeOK, Leave, Enter

LEMMA CommitTypes ==
  ASSUME StoreInv, NEW c \in Client, BeginCommit(c) \/ CommitStep(c)
  PROVE  StoreTypeOK'
<1> USE DEF StoreInv, StoreTypeOK
<1>1. CASE BeginCommit(c)
  BY <1>1, NoFilesIsTree DEF BeginCommit, Enter, NewGeneration, Files
<1>2. ASSUME NEW f \in File, CreateFile(c, f) PROVE StoreTypeOK'
  <2>1. generation[c] \in Generation
    BY <1>2 DEF CreateFile, WorkIsSound
  <2>2. listed' \in [Client -> Tree]
    BY <1>2 DEF CreateFile, Tree
  <2>3. payload' \in [Generation -> [File -> Content \cup {None, Torn, Damaged}]]
    BY <1>2, <2>1 DEF CreateFile
  <2> QED
    BY <1>2, <2>2, <2>3 DEF CreateFile, Enter
<1>3. CASE CloseFile(c)
  <2>1. generation[c] \in Generation /\ current[c] \in File
    BY <1>3 DEF CloseFile, WorkIsSound
  <2>2. listed[c][current[c]] \in Content \cup {None}
    BY <2>1 DEF Tree
  <2>3. payload' \in [Generation -> [File -> Content \cup {None, Torn, Damaged}]]
    BY <1>3, <2>1, <2>2 DEF CloseFile
  <2> QED
    BY <1>3, <2>3 DEF CloseFile, Enter
<1>4. CASE CreateManifest(c) \/ CloseManifest(c)
  BY <1>4 DEF CreateManifest, CloseManifest, Enter
<1>5. CASE CreateHead(c)
  BY <1>5 DEF CreateHead, Enter
<1>6. CASE CloseHead(c)
  <2>1. generation[c] \in Generation
    BY <1>6 DEF CloseHead, WorkIsSound
  <2>2. head' \in SnapshotHead
    BY <1>6, <2>1 DEF CloseHead, SnapshotHead
  <2> QED
    BY <1>6, <2>2, LeaveTypes DEF CloseHead, End
<1> QED
  BY <1>1, <1>2, <1>3, <1>4, <1>5, <1>6 DEF CommitStep

LEMMA RestoreTypes ==
  ASSUME StoreInv, NEW c \in Client, BeginRestore(c) \/ RestoreStep(c)
  PROVE  StoreTypeOK'
<1> USE DEF StoreInv, StoreTypeOK, disk
<1>1. CASE BeginRestore(c) /\ head \in {None, Torn, Damaged}
  BY <1>1, LeaveTypes DEF BeginRestore, End
<1>2. CASE BeginRestore(c) /\ head \notin {None, Torn, Damaged}
  <2>1. head \in SnapshotHead
    BY <1>2
  <2>2. head.generation \in Generation /\ head.manifest \in Tree
    BY <2>1 DEF SnapshotHead
  <2> QED
    BY ZenonT(40), <1>2, <2>2 DEF BeginRestore, Enter
<1>3. CASE ReadManifest(c)
  BY <1>3 DEF ReadManifest, Enter, Files
<1>4. ASSUME NEW f \in File, RestoreFile(c, f) PROVE StoreTypeOK'
  <2>1. listed[c][f] \in Content \cup {None}
    BY DEF Tree
  <2>2. tree' \in [Client -> Tree]
    BY <1>4, <2>1 DEF RestoreFile, Verifies, Tree
  <2> QED
    BY <1>4, <2>2 DEF RestoreFile
<1>5. CASE FinishRestore(c)
  BY <1>5, LeaveTypes DEF FinishRestore, End
<1> QED
  BY <1>1, <1>2, <1>3, <1>4, <1>5 DEF RestoreStep

LEMMA OtherTypes ==
  ASSUME StoreTypeOK,
         \/ StorageStep
         \/ \E c \in Client : \/ FailOperation(c) \/ Vanish(c)
                              \/ \E t \in Tree : ChangeTree(c, t)
  PROVE  StoreTypeOK'
<1> USE DEF StoreTypeOK, disk, work
<1>1. ASSUME NEW c \in Client, FailOperation(c) PROVE StoreTypeOK'
  BY <1>1, LeaveTypes DEF FailOperation, End
<1>2. ASSUME NEW c \in Client, Vanish(c) PROVE StoreTypeOK'
  BY <1>2, LeaveTypes, NoFilesIsTree DEF Vanish, End
<1>3. ASSUME NEW c \in Client, NEW t \in Tree, ChangeTree(c, t)
      PROVE  StoreTypeOK'
  BY <1>3 DEF ChangeTree
<1>4. CASE Damage
  <2>1. head' \in SnapshotHead \cup {None, Torn, Damaged}
    BY <1>4 DEF Damage
  <2>2. manifests' \in [Generation -> Tree \cup {None, Torn, Damaged}]
    BY <1>4 DEF Damage
  <2>3. payload' \in [Generation -> [File -> Content \cup {None, Torn, Damaged}]]
    <3>1. ASSUME NEW g \in present, NEW f \in File,
                 payload' = [payload EXCEPT ![g][f] = Damaged]
          PROVE  payload' \in
                   [Generation -> [File -> Content \cup {None, Torn, Damaged}]]
      BY <3>1
    <3>2. CASE UNCHANGED payload
      BY <3>2
    <3> QED
      BY <1>4, <3>1, <3>2 DEF Damage
  <2> QED
    BY <1>4, <2>1, <2>2, <2>3 DEF Damage
<1>5. CASE Evict
  BY <1>5, NoFilesIsTree DEF Evict, NoFiles
<1> QED
  BY <1>1, <1>2, <1>3, <1>4, <1>5 DEF StorageStep

-----------------------------------------------------------------------------
\* A step that leaves the disk alone and no client further in a commit.
LEMMA MemoryStep ==
  ASSUME StoreInv, StoreTypeOK', UNCHANGED disk,
         \A d \in Client : WorkIsSound(d)',
         \A d \in Client : phase'[d] \in Writing =>
           /\ phase'[d] = phase[d] /\ generation'[d] = generation[d]
           /\ listed'[d] = listed[d] /\ todo'[d] = todo[d]
  PROVE  StoreInv'
<1> USE DEF StoreInv, disk
<1>1. ASSUME NEW d \in Client PROVE CommitIsOnDisk(d)'
  BY DEF CommitIsOnDisk
<1>2. CommitsApart'
  BY DEF CommitsApart
<1>3. UnusedIsEmpty' /\ HeadIsComplete'
  BY DEF UnusedIsEmpty, HeadIsComplete
<1> QED
  BY <1>1, <1>2, <1>3

\* Client c's step does not touch what the others have in memory.
LEMMA OthersAreSound ==
  ASSUME StoreInv, NEW c \in Client, NEW d \in Client \ {c},
         phase'[d] = phase[d], generation'[d] = generation[d],
         listed'[d] = listed[d], todo'[d] = todo[d],
         current'[d] = current[d], tree'[d] = tree[d]
  PROVE  WorkIsSound(d)'
BY DEF StoreInv, WorkIsSound, Unlisted

LEMMA LeaveKeepsMemory ==
  ASSUME StoreInv, StoreTypeOK', UNCHANGED disk, NEW c \in Client, Leave(c),
         \A d \in Client \ {c} : tree'[d] = tree[d]
  PROVE  StoreInv'
<1> USE DEF StoreInv, StoreTypeOK, Leave, Enter
<1>1. phase'[c] = "idle" /\ WorkIsSound(c)'
  BY DEF WorkIsSound
<1>2. ASSUME NEW d \in Client \ {c}
      PROVE  /\ phase'[d] = phase[d] /\ generation'[d] = generation[d]
             /\ listed'[d] = listed[d] /\ todo'[d] = todo[d]
             /\ current'[d] = current[d]
  OBVIOUS
<1>3. ASSUME NEW d \in Client \ {c} PROVE WorkIsSound(d)'
  BY <1>2, OthersAreSound
<1> QED
  BY <1>1, <1>2, <1>3, MemoryStep

LEMMA RestoreKeepsInv ==
  ASSUME StoreInv, NEW c \in Client, BeginRestore(c) \/ RestoreStep(c)
  PROVE  StoreInv'
<1> USE DEF Enter
<1>0. StoreTypeOK' /\ StoreTypeOK
  BY RestoreTypes DEF StoreInv
<1>1. CASE BeginRestore(c) /\ head \in {None, Torn, Damaged}
  BY <1>0, <1>1, LeaveKeepsMemory DEF BeginRestore, End
<1>2. CASE BeginRestore(c) /\ head \notin {None, Torn, Damaged}
  <2>1. head.generation \in Generation
    BY <1>0, <1>2 DEF StoreTypeOK, SnapshotHead
  <2>2. /\ phase'[c] = "opened" /\ generation'[c] = head.generation
        /\ tree'[c] = NoFiles /\ UNCHANGED disk
    BY <1>0, <1>2 DEF BeginRestore, StoreTypeOK
  <2>3. WorkIsSound(c)'
    BY <2>1, <2>2 DEF WorkIsSound
  <2>4. ASSUME NEW d \in Client \ {c}
        PROVE  /\ phase'[d] = phase[d] /\ generation'[d] = generation[d]
               /\ listed'[d] = listed[d] /\ todo'[d] = todo[d]
               /\ current'[d] = current[d] /\ tree'[d] = tree[d]
    BY <1>0, <1>2 DEF BeginRestore, StoreTypeOK
  <2>5. \A d \in Client : WorkIsSound(d)'
    BY <2>3, <2>4, OthersAreSound
  <2> QED
    BY <1>0, <2>2, <2>4, <2>5, MemoryStep
<1>3. CASE ReadManifest(c)
  <2>1. /\ phase'[c] = "restoring" /\ generation'[c] = generation[c]
        /\ todo'[c] = Files(listed[c]) /\ listed'[c] = listed[c]
        /\ tree'[c] = NoFiles /\ UNCHANGED disk
    BY <1>0, <1>3 DEF ReadManifest, StoreTypeOK, StoreInv, WorkIsSound
  <2>2. WorkIsSound(c)'
    BY <1>0, <1>3, <2>1
    DEF ReadManifest, StoreInv, WorkIsSound, Files, NoFiles
  <2>3. ASSUME NEW d \in Client \ {c}
        PROVE  /\ phase'[d] = phase[d] /\ generation'[d] = generation[d]
               /\ listed'[d] = listed[d] /\ todo'[d] = todo[d]
               /\ current'[d] = current[d] /\ tree'[d] = tree[d]
    BY <1>0, <1>3 DEF ReadManifest, StoreTypeOK
  <2>4. \A d \in Client : WorkIsSound(d)'
    BY <2>2, <2>3, OthersAreSound
  <2> QED
    BY <1>0, <2>1, <2>3, <2>4, MemoryStep
<1>4. ASSUME NEW f \in File, RestoreFile(c, f) PROVE StoreInv'
  <2>1. /\ phase'[c] = "restoring" /\ generation'[c] = generation[c]
        /\ todo'[c] = todo[c] \ {f} /\ listed'[c] = listed[c]
        /\ UNCHANGED disk
    BY <1>0, <1>4 DEF RestoreFile, StoreTypeOK
  <2>2. tree'[c] = [tree[c] EXCEPT ![f] = listed[c][f]]
    BY <1>0, <1>4 DEF RestoreFile, StoreTypeOK, Verifies
  <2>3. tree[c] \in [File -> Content \cup {None}]
    BY <1>0 DEF StoreTypeOK, Tree
  <2>4. WorkIsSound(c)'
    BY <1>4, <2>1, <2>2, <2>3 DEF RestoreFile, StoreInv, WorkIsSound
  <2>5. ASSUME NEW d \in Client \ {c}
        PROVE  /\ phase'[d] = phase[d] /\ generation'[d] = generation[d]
               /\ listed'[d] = listed[d] /\ todo'[d] = todo[d]
               /\ current'[d] = current[d] /\ tree'[d] = tree[d]
    BY <1>0, <1>4 DEF RestoreFile, StoreTypeOK
  <2>6. \A d \in Client : WorkIsSound(d)'
    BY <2>4, <2>5, OthersAreSound
  <2> QED
    BY <1>0, <2>1, <2>5, <2>6, MemoryStep
<1>5. CASE FinishRestore(c)
  BY <1>0, <1>5, LeaveKeepsMemory DEF FinishRestore, End
<1> QED
  BY <1>1, <1>2, <1>3, <1>4, <1>5 DEF RestoreStep

LEMMA OtherKeepsInv ==
  ASSUME StoreInv, NEW c \in Client,
         \/ FailOperation(c) \/ Vanish(c)
         \/ phase[c] = "idle" /\ \E t \in Tree : ChangeTree(c, t)
  PROVE  StoreInv'
<1>0. StoreTypeOK' /\ StoreTypeOK
  BY OtherTypes DEF StoreInv
<1>1. CASE FailOperation(c)
  BY <1>0, <1>1, LeaveKeepsMemory DEF FailOperation, End
<1>2. CASE Vanish(c)
  BY <1>0, <1>2, LeaveKeepsMemory DEF Vanish, End, StoreTypeOK
<1>3. ASSUME NEW t \in Tree, ChangeTree(c, t), phase[c] = "idle"
      PROVE  StoreInv'
  <2>1. UNCHANGED <<disk, work>> /\ phase[c] = "idle"
    BY <1>3 DEF ChangeTree
  <2>2. WorkIsSound(c)'
    BY <2>1 DEF WorkIsSound, work
  <2>3. ASSUME NEW d \in Client \ {c} PROVE tree'[d] = tree[d]
    BY <1>0, <1>3 DEF ChangeTree, StoreTypeOK
  <2>4. \A d \in Client : WorkIsSound(d)'
    BY <2>1, <2>2, <2>3, OthersAreSound DEF work
  <2> QED
    BY <1>0, <2>1, <2>4, MemoryStep DEF work
<1> QED
  BY <1>1, <1>2, <1>3

-----------------------------------------------------------------------------
\* Damage replaces entries that exist, and eviction removes every directory.
LEMMA StorageKeepsInv ==
  ASSUME StoreInv, StorageStep
  PROVE  StoreInv'
<1> USE DEF StoreInv
<1>1. StoreTypeOK'
  BY OtherTypes
<1>2. UNCHANGED <<tree, work, commits>>
  BY DEF StorageStep, Damage, Evict
<1>3. ASSUME NEW c \in Client PROVE WorkIsSound(c)'
  BY <1>2 DEF WorkIsSound, Unlisted, work
<1>4. CommitsApart'
  BY <1>2 DEF CommitsApart, work
<1>5. CASE Damage
  <2>1. head' \in SnapshotHead => head' = head
    BY <1>5 DEF Damage
  <2>2. \A g \in Generation : manifests'[g] \in {manifests[g], Damaged}
    BY <1>5 DEF Damage, StoreTypeOK
  <2>3. \A g \in Generation, f \in File :
          payload'[g][f] \in {payload[g][f], Damaged}
    <3>1. ASSUME NEW h \in present, NEW e \in File,
                 payload' = [payload EXCEPT ![h][e] = Damaged]
          PROVE  \A g \in Generation, f \in File :
                   payload'[g][f] \in {payload[g][f], Damaged}
      BY <3>1 DEF StoreTypeOK
    <3> QED
      BY <1>5, <3>1 DEF Damage
  <2>4. ASSUME NEW g \in Generation, g > commits
        PROVE  manifests'[g] = None /\ payload'[g] = NoFiles
    <3>1. manifests[g] = None /\ payload[g] = NoFiles
      BY <2>4 DEF UnusedIsEmpty
    <3>2. manifests'[g] = manifests[g]
      BY <1>5, <3>1 DEF Damage, StoreTypeOK
    <3>3. ASSUME NEW h \in present, NEW e \in File, payload[h][e] # None,
                 payload' = [payload EXCEPT ![h][e] = Damaged]
          PROVE  payload'[g] = payload[g]
      <4>1. h # g
        BY <3>1, <3>3 DEF NoFiles
      <4> QED
        BY <3>3, <4>1 DEF StoreTypeOK
    <3>4. payload'[g] = payload[g]
      BY <1>5, <3>3 DEF Damage
    <3> QED
      BY <3>1, <3>2, <3>4
  <2>5. UNCHANGED present
    BY <1>5 DEF Damage
  <2>6. ASSUME NEW c \in Client PROVE CommitIsOnDisk(c)'
    BY <1>2, <2>1, <2>2, <2>3, <2>5 DEF CommitIsOnDisk, work, StoreTypeOK
  <2>7. UnusedIsEmpty'
    BY <1>2, <2>1, <2>4 DEF UnusedIsEmpty
  <2>8. HeadIsComplete'
    BY <2>1, <2>2, <2>3, <2>5 DEF HeadIsComplete, StoreTypeOK
  <2> QED
    BY <1>1, <1>3, <1>4, <2>6, <2>7, <2>8
<1>6. CASE Evict
  <2>1. head' \notin SnapshotHead /\ present' = {}
    BY <1>6 DEF Evict
  <2>2. \A c \in Client : CommitIsOnDisk(c)'
    BY <1>2, <2>1 DEF CommitIsOnDisk, work
  <2>3. UnusedIsEmpty' /\ HeadIsComplete'
    BY <1>6, <2>1 DEF Evict, UnusedIsEmpty, HeadIsComplete
  <2> QED
    BY <1>1, <1>3, <1>4, <2>2, <2>3
<1> QED
  BY <1>5, <1>6 DEF StorageStep

-----------------------------------------------------------------------------
\* A new commit takes a generation that nobody has.
LEMMA BeginCommitKeepsInv ==
  ASSUME StoreInv, NEW c \in Client, BeginCommit(c)
  PROVE  StoreInv'
<1> USE DEF StoreInv, StoreTypeOK
<1>1. StoreTypeOK'
  BY CommitTypes
<1>2. /\ phase'[c] = "visiting" /\ generation'[c] = commits + 1
      /\ todo'[c] = Files(tree[c]) /\ listed'[c] = NoFiles
      /\ commits' = commits + 1 /\ commits + 1 \in Generation
      /\ present' = present \cup {commits + 1}
      /\ UNCHANGED <<head, manifests, payload, tree>>
  BY DEF BeginCommit, Enter, NewGeneration
<1>3. ASSUME NEW d \in Client \ {c}
      PROVE  /\ phase'[d] = phase[d] /\ generation'[d] = generation[d]
             /\ listed'[d] = listed[d] /\ todo'[d] = todo[d]
             /\ current'[d] = current[d] /\ tree'[d] = tree[d]
  BY DEF BeginCommit, Enter
<1>4. WorkIsSound(c)'
  BY <1>2 DEF WorkIsSound, Unlisted, Files, NoFiles
<1>5. \A d \in Client : WorkIsSound(d)'
  BY <1>3, <1>4, OthersAreSound
<1>6. ASSUME NEW d \in Client \ {c}, phase[d] \in Writing
      PROVE  generation[d] \in Generation /\ generation[d] <= commits
  BY <1>6 DEF WorkIsSound, CommitIsOnDisk
<1>7. CommitIsOnDisk(c)'
  <2>1. head \in SnapshotHead => head.generation # commits + 1
    BY DEF UnusedIsEmpty, SnapshotHead
  <2>2. payload[commits + 1] = NoFiles
    BY <1>2 DEF UnusedIsEmpty
  <2> QED
    BY <1>2, <2>1, <2>2 DEF CommitIsOnDisk, NoFiles
<1>8. ASSUME NEW d \in Client \ {c} PROVE CommitIsOnDisk(d)'
  BY <1>2, <1>3, <1>6 DEF CommitIsOnDisk
<1>9. CommitsApart'
  BY <1>2, <1>3, <1>6 DEF CommitsApart
<1>10. UnusedIsEmpty'
  BY <1>2 DEF UnusedIsEmpty, SnapshotHead
<1>11. HeadIsComplete'
  <2>1. head \in SnapshotHead =>
          head.generation <= commits /\ head.generation \in Generation
    BY DEF UnusedIsEmpty, SnapshotHead
  <2> QED
    BY <1>2, <2>1 DEF HeadIsComplete
<1> QED
  BY <1>1, <1>5, <1>7, <1>8, <1>9, <1>10, <1>11

-----------------------------------------------------------------------------
\* What the other clients see of a step of c's commit.
LEMMA OthersOnDisk ==
  ASSUME StoreInv, NEW c \in Client, NEW d \in Client \ {c},
         phase[c] \in Writing,
         phase'[d] = phase[d], generation'[d] = generation[d],
         listed'[d] = listed[d], todo'[d] = todo[d],
         UNCHANGED <<commits, present>>,
         head' \in SnapshotHead => head' = head,
         \A g \in Generation \ {generation[c]} :
           manifests'[g] = manifests[g] /\ payload'[g] = payload[g]
  PROVE  CommitIsOnDisk(d)'
<1> SUFFICES ASSUME phase[d] \in Writing PROVE CommitIsOnDisk(d)'
  BY DEF CommitIsOnDisk
<1>1. generation[d] \in Generation \ {generation[c]}
  BY DEF StoreInv, CommitsApart, WorkIsSound
<1> QED
  BY <1>1 DEF StoreInv, CommitIsOnDisk

\* A step of a commit writes below its own directory only: that is not the one
\* HEAD names, and not an unused one.
LEMMA CommitWritesApart ==
  ASSUME StoreInv, StoreTypeOK', NEW c \in Client,
         phase[c] \in Writing, phase'[c] \in Writing,
         UNCHANGED <<commits, present, generation>>,
         head' \in SnapshotHead => head' = head,
         \A g \in Generation \ {generation[c]} :
           manifests'[g] = manifests[g] /\ payload'[g] = payload[g],
         \A d \in Client \ {c} :
           /\ phase'[d] = phase[d] /\ listed'[d] = listed[d]
           /\ todo'[d] = todo[d] /\ current'[d] = current[d]
           /\ tree'[d] = tree[d],
         WorkIsSound(c)', CommitIsOnDisk(c)'
  PROVE  StoreInv'
<1>1. ASSUME NEW d \in Client PROVE WorkIsSound(d)' /\ CommitIsOnDisk(d)'
  BY OthersAreSound, OthersOnDisk
<1>2. generation[c] \in Generation /\ generation[c] <= commits
  BY DEF StoreInv, WorkIsSound, CommitIsOnDisk
<1>3. CommitsApart'
  BY DEF StoreInv, CommitsApart
<1>4. UnusedIsEmpty'
  <2>1. ASSUME NEW g \in Generation, g > commits
        PROVE  manifests'[g] = None /\ payload'[g] = NoFiles
    <3>1. g \in Generation \ {generation[c]}
      BY <1>2, <2>1 DEF StoreInv, StoreTypeOK
    <3> QED
      BY <2>1, <3>1 DEF StoreInv, UnusedIsEmpty
  <2>2. head' \in SnapshotHead => head'.generation <= commits
    BY DEF StoreInv, UnusedIsEmpty
  <2> QED
    BY <2>1, <2>2 DEF UnusedIsEmpty
<1>5. HeadIsComplete'
  <2> SUFFICES ASSUME head' \in SnapshotHead, head'.generation \in present'
               PROVE  HeadIsComplete'
    BY DEF HeadIsComplete
  <2>1. head' = head /\ head.generation \in Generation \ {generation[c]}
    BY DEF StoreInv, CommitIsOnDisk, SnapshotHead
  <2> QED
    BY <2>1 DEF StoreInv, HeadIsComplete
<1> QED
  BY <1>1, <1>3, <1>4, <1>5 DEF StoreInv

LEMMA FilesKeepInv ==
  ASSUME StoreInv, NEW c \in Client,
         (\E f \in File : CreateFile(c, f)) \/ CloseFile(c)
  PROVE  StoreInv'
<1> USE DEF Enter
<1>0. StoreTypeOK' /\ StoreTypeOK
  BY CommitTypes DEF CommitStep, StoreInv
<1>1. ASSUME NEW f \in File, CreateFile(c, f) PROVE StoreInv'
  <2>1. /\ phase[c] = "visiting" /\ phase'[c] = "writing"
        /\ f \in todo[c] /\ current'[c] = f
        /\ listed'[c] = [listed[c] EXCEPT ![f] = tree[c][f]]
        /\ UNCHANGED <<head, manifests, present, commits, tree, generation, todo>>
    BY <1>0, <1>1 DEF CreateFile, IsNext, StoreTypeOK
  <2>2. generation[c] \in Generation
    BY <2>1 DEF StoreInv, WorkIsSound
  <2>3. payload' = [payload EXCEPT ![generation[c]][f] = Torn]
    BY <1>1 DEF CreateFile
  <2>4. \A g \in Generation \ {generation[c]} : payload'[g] = payload[g]
    BY <1>0, <2>2, <2>3 DEF StoreTypeOK
  <2>5. \A e \in File \ {f} :
          /\ payload'[generation[c]][e] = payload[generation[c]][e]
          /\ listed'[c][e] = listed[c][e]
    BY <1>0, <2>1, <2>2, <2>3 DEF StoreTypeOK, Tree
  <2>6. listed'[c][f] = tree[c][f]
    BY <1>0, <2>1 DEF StoreTypeOK, Tree
  <2>7. WorkIsSound(c)'
    BY <2>1, <2>2, <2>5, <2>6 DEF StoreInv, WorkIsSound, Unlisted
  <2>8. CommitIsOnDisk(c)'
    BY <2>1, <2>5 DEF StoreInv, CommitIsOnDisk
  <2>9. ASSUME NEW d \in Client \ {c}
        PROVE  /\ phase'[d] = phase[d] /\ listed'[d] = listed[d]
               /\ current'[d] = current[d]
    BY <1>0, <1>1 DEF CreateFile, StoreTypeOK
  <2> QED
    BY <1>0, <2>1, <2>4, <2>7, <2>8, <2>9, CommitWritesApart
<1>2. CASE CloseFile(c)
  <2>1. /\ phase[c] = "writing" /\ phase'[c] = "visiting"
        /\ todo'[c] = todo[c] \ {current[c]}
        /\ UNCHANGED <<head, manifests, present, commits, tree, generation,
                       listed, current>>
    BY <1>0, <1>2 DEF CloseFile, StoreTypeOK
  <2>2. generation[c] \in Generation /\ current[c] \in File
    BY <1>0, <2>1 DEF StoreInv, WorkIsSound, StoreTypeOK
  <2>3. payload' = [payload EXCEPT ![generation[c]][current[c]] =
                      listed[c][current[c]]]
    BY <1>2 DEF CloseFile
  <2>4. \A g \in Generation \ {generation[c]} : payload'[g] = payload[g]
    BY <1>0, <2>2, <2>3 DEF StoreTypeOK
  <2>5. /\ payload'[generation[c]][current[c]] = listed[c][current[c]]
        /\ \A e \in File \ {current[c]} :
             payload'[generation[c]][e] = payload[generation[c]][e]
    BY <1>0, <2>2, <2>3 DEF StoreTypeOK
  <2>6. WorkIsSound(c)'
    BY <2>1, <2>2 DEF StoreInv, WorkIsSound, Unlisted
  <2>7. CommitIsOnDisk(c)'
    BY <2>1, <2>5 DEF StoreInv, CommitIsOnDisk
  <2>8. ASSUME NEW d \in Client \ {c}
        PROVE  phase'[d] = phase[d] /\ todo'[d] = todo[d]
    BY <1>0, <1>2 DEF CloseFile, StoreTypeOK
  <2> QED
    BY <1>0, <2>1, <2>4, <2>6, <2>7, <2>8, CommitWritesApart
<1> QED
  BY <1>1, <1>2

LEMMA ManifestKeepsInv ==
  ASSUME StoreInv, NEW c \in Client, CreateManifest(c) \/ CloseManifest(c)
  PROVE  StoreInv'
<1>0. StoreTypeOK' /\ StoreTypeOK
  BY CommitTypes DEF CommitStep, StoreInv
<1>1. /\ phase[c] \in {"visiting", "manifest"} /\ phase'[c] \in {"manifest", "head"}
      /\ todo[c] = {}
      /\ UNCHANGED <<head, payload, present, commits, tree, generation, listed,
                     todo, current>>
  BY <1>0 DEF CreateManifest, CloseManifest, Visited, Enter, StoreTypeOK,
              StoreInv, WorkIsSound
<1>2. generation[c] \in Generation
  BY <1>1 DEF StoreInv, WorkIsSound
<1>3. \A g \in Generation \ {generation[c]} : manifests'[g] = manifests[g]
  BY <1>0, <1>2 DEF CreateManifest, CloseManifest, StoreTypeOK
<1>4. phase'[c] = "head" => manifests'[generation[c]] = listed[c]
  BY <1>0, <1>2 DEF CreateManifest, CloseManifest, Enter, StoreTypeOK
<1>5. WorkIsSound(c)'
  BY <1>1 DEF StoreInv, WorkIsSound, Unlisted
<1>6. CommitIsOnDisk(c)'
  BY <1>1, <1>4 DEF StoreInv, CommitIsOnDisk
<1>7. \A d \in Client \ {c} : phase'[d] = phase[d]
  BY <1>0 DEF CreateManifest, CloseManifest, Enter, StoreTypeOK
<1> QED
  BY <1>0, <1>1, <1>3, <1>5, <1>6, <1>7, CommitWritesApart

LEMMA CreateHeadKeepsInv ==
  ASSUME StoreInv, NEW c \in Client, CreateHead(c)
  PROVE  StoreInv'
<1>0. StoreTypeOK' /\ StoreTypeOK
  BY CommitTypes DEF CommitStep, StoreInv
<1>1. /\ phase[c] = "head" /\ phase'[c] = "committing"
      /\ UNCHANGED <<manifests, payload, present, commits, tree, generation,
                     listed, todo, current>>
  BY <1>0 DEF CreateHead, Enter, StoreTypeOK
<1>2. head' \in SnapshotHead => head' = head
  BY DEF CreateHead
<1>3. WorkIsSound(c)'
  BY <1>1 DEF StoreInv, WorkIsSound, Unlisted
<1>4. CommitIsOnDisk(c)'
  BY <1>1, <1>2 DEF StoreInv, CommitIsOnDisk
<1>5. \A d \in Client \ {c} : phase'[d] = phase[d]
  BY <1>0 DEF CreateHead, Enter, StoreTypeOK
<1> QED
  BY <1>0, <1>1, <1>2, <1>3, <1>4, <1>5, CommitWritesApart

\* The commit point: HEAD now names what this commit has written.
LEMMA CloseHeadKeepsInv ==
  ASSUME StoreInv, NEW c \in Client, CloseHead(c)
  PROVE  StoreInv'
<1>0. StoreTypeOK' /\ StoreTypeOK
  BY CommitTypes DEF CommitStep, StoreInv
<1>1. /\ phase[c] = "committing" /\ phase'[c] = "idle"
      /\ todo[c] = {} /\ generation[c] \in Generation /\ generation[c] \in present
      /\ head' = [generation |-> generation[c], manifest |-> listed[c]]
      /\ UNCHANGED <<manifests, payload, present, commits, tree>>
  BY <1>0 DEF CloseHead, End, Leave, Enter, Reachable, StoreTypeOK, StoreInv,
              WorkIsSound
<1>2. head'.generation = generation[c] /\ head'.manifest = listed[c]
  BY <1>1
<1>3. WorkIsSound(c)' /\ CommitIsOnDisk(c)'
  BY <1>1 DEF WorkIsSound, CommitIsOnDisk
<1>4. ASSUME NEW d \in Client \ {c}
      PROVE  /\ phase'[d] = phase[d] /\ generation'[d] = generation[d]
             /\ listed'[d] = listed[d] /\ todo'[d] = todo[d]
             /\ current'[d] = current[d] /\ tree'[d] = tree[d]
  BY <1>0 DEF CloseHead, End, Leave, Enter, StoreTypeOK
<1>5. ASSUME NEW d \in Client \ {c} PROVE WorkIsSound(d)'
  BY <1>4, OthersAreSound
<1>6. ASSUME NEW d \in Client \ {c} PROVE CommitIsOnDisk(d)'
  <2> SUFFICES ASSUME phase[d] \in Writing PROVE CommitIsOnDisk(d)'
    BY <1>4 DEF CommitIsOnDisk
  <2>1. generation[d] # generation[c]
    BY <1>1 DEF StoreInv, CommitsApart
  <2> QED
    BY <1>1, <1>2, <1>4, <2>1 DEF StoreInv, CommitIsOnDisk
<1>7. CommitsApart'
  BY <1>1, <1>4 DEF StoreInv, CommitsApart
<1>8. generation[c] <= commits
  BY <1>1 DEF StoreInv, CommitIsOnDisk
<1>9. UnusedIsEmpty'
  BY <1>1, <1>2, <1>8 DEF StoreInv, UnusedIsEmpty
<1>10. HeadIsComplete'
  BY <1>1, <1>2 DEF StoreInv, CommitIsOnDisk, HeadIsComplete
<1> QED
  BY <1>0, <1>3, <1>5, <1>6, <1>7, <1>9, <1>10 DEF StoreInv

-----------------------------------------------------------------------------
LEMMA InvStep == StoreInv /\ [StoreNext]_opfsVars => StoreInv'
<1> SUFFICES ASSUME StoreInv, [StoreNext]_opfsVars PROVE StoreInv'
  OBVIOUS
<1>1. CASE UNCHANGED opfsVars
  BY <1>1 DEF opfsVars, disk, work, StoreInv, StoreTypeOK, WorkIsSound, Unlisted,
              CommitIsOnDisk, CommitsApart, UnusedIsEmpty, HeadIsComplete
<1>2. ASSUME NEW c \in Client, CommitStep(c) PROVE StoreInv'
  BY <1>2, FilesKeepInv, ManifestKeepsInv, CreateHeadKeepsInv, CloseHeadKeepsInv
  DEF CommitStep
<1> QED
  BY <1>1, <1>2, StorageKeepsInv, BeginCommitKeepsInv, RestoreKeepsInv,
     OtherKeepsInv DEF StoreNext

\* What a commit has written and what a restore has read stay consistent with
\* HEAD, however operations of several documents, failures, damage and
\* eviction interleave.
THEOREM StoreInvariant == StoreSpec => []StoreInv
<1> QED
  BY InvInit, InvStep, PTL DEF StoreSpec

\* commitDirectoryTreeToOpfs, lines 437-443: HEAD is written last and names a
\* generation that is complete, for any number of concurrent commits.
THEOREM HeadStaysComplete == StoreSpec => []HeadIsComplete
<1>1. StoreInv => HeadIsComplete
  BY DEF StoreInv
<1> QED
  BY <1>1, StoreInvariant, PTL

-----------------------------------------------------------------------------
(***************************************************************************)
(* The store implements the atomic one.  CloseHead is the save: until then  *)
(* HEAD, and with it the snapshot, is that of the commit before.            *)
(***************************************************************************)
Saved == IF head \in SnapshotHead THEN head.manifest ELSE None
ReadBy(c) == IF phase[c] \in Reading THEN listed[c] ELSE None

\* The directories keep their types, and the snapshot, what is read and what
\* was delivered are the abstract store's.
LEMMA InitIsAtomic == StoreInit => Store!Init
<1> SUFFICES ASSUME StoreInit PROVE Store!Init
  OBVIOUS
<1>1. head \notin SnapshotHead /\ \A c \in Client : phase[c] = "idle"
  BY DEF StoreInit
<1>2. tree \in [Client -> Tree]
  BY NoFilesIsTree DEF StoreInit
<1> QED
  BY <1>1, <1>2 DEF StoreInit, Store!Init

\* Steps the abstract store does not see, but for the clients' directories.
LEMMA WorkIsInvisible ==
  ASSUME StoreTypeOK', UNCHANGED delivered, Saved' = Saved,
         \A d \in Client : ReadBy(d)' = ReadBy(d)
  PROVE  Store!Next
<1>1. tree' \in [Client -> Tree]
  BY DEF StoreTypeOK
<1>2. Store!WorkOnTree
  BY DEF Store!WorkOnTree, Saved, ReadBy
<1> QED
  BY <1>1, <1>2 DEF Store!Next

\* The directory did not change since the commit began to list it.
LEMMA ListedIsTree ==
  ASSUME StoreInv, NEW c \in Client, phase[c] = "committing"
  PROVE  listed[c] = tree[c]
<1>1. tree[c] \in Tree /\ listed[c] \in Tree
  BY DEF StoreInv, StoreTypeOK
<1>2. \A f \in File : listed[c][f] = tree[c][f]
  BY DEF StoreInv, WorkIsSound, Unlisted
<1> QED
  BY <1>1, <1>2 DEF Tree

\* A restore that is through its list has made the directory what was listed.
LEMMA RestoredIsListed ==
  ASSUME StoreInv, NEW c \in Client, phase[c] = "restoring", todo[c] = {}
  PROVE  tree[c] = listed[c]
<1>1. tree[c] \in Tree /\ listed[c] \in Tree
  BY DEF StoreInv, StoreTypeOK
<1>2. \A f \in File : tree[c][f] = listed[c][f]
  BY DEF StoreInv, WorkIsSound
<1> QED
  BY <1>1, <1>2 DEF Tree

LEMMA CommitIsAtomic ==
  ASSUME StoreInv, StoreInv', NEW c \in Client, BeginCommit(c) \/ CommitStep(c)
  PROVE  Store!Next
<1>0. StoreTypeOK /\ StoreTypeOK'
  BY DEF StoreInv
<1>1. UNCHANGED delivered /\ \A d \in Client : ReadBy(d)' = ReadBy(d)
  BY <1>0 DEF BeginCommit, CommitStep, CreateFile, CloseFile, CreateManifest,
              Visited, CloseManifest, CreateHead, CloseHead, End, Leave, Enter,
              ReadBy, StoreTypeOK
<1>2. CASE CloseHead(c)
  <2>1. phase[c] = "committing" /\ tree[c] \in Tree /\ listed[c] \in Tree
    BY <1>0, <1>2 DEF CloseHead, StoreTypeOK
  <2>2. listed[c] = tree[c]
    BY <2>1, ListedIsTree
  <2>4. head' = [generation |-> generation[c], manifest |-> listed[c]]
    BY <1>2 DEF CloseHead
  <2>5. head' \in SnapshotHead
    BY <2>1, <2>4 DEF SnapshotHead, StoreInv, WorkIsSound
  <2>6. Saved' = tree[c]
    BY <2>2, <2>4, <2>5 DEF Saved
  <2>7. Store!Save(c)
    BY <1>1, <2>6 DEF Store!Save, Saved, ReadBy
  <2> QED
    BY <1>0, <2>7 DEF Store!Next, StoreTypeOK
<1>3. CASE ~CloseHead(c)
  <2>1. head' = head \/ (head = None /\ head' = Torn)
    BY <1>3 DEF BeginCommit, CommitStep, CreateFile, CloseFile, CreateManifest,
                CloseManifest, CreateHead
  <2>2. Saved' = Saved
    BY <2>1 DEF Saved
  <2> QED
    BY <1>0, <1>1, <2>2, WorkIsInvisible
<1> QED
  BY <1>2, <1>3

LEMMA RestoreIsAtomic ==
  ASSUME StoreInv, StoreInv', NEW c \in Client, BeginRestore(c) \/ RestoreStep(c)
  PROVE  Store!Next
<1>0. StoreTypeOK /\ StoreTypeOK'
  BY DEF StoreInv
<1>1. Saved' = Saved
  BY DEF BeginRestore, RestoreStep, ReadManifest, RestoreFile, FinishRestore,
         disk, Saved
<1>2. CASE BeginRestore(c) /\ head \in {None, Torn, Damaged}
  <2>1. UNCHANGED delivered /\ \A d \in Client : ReadBy(d)' = ReadBy(d)
    BY <1>0, <1>2 DEF BeginRestore, End, Leave, Enter, ReadBy, StoreTypeOK
  <2> QED
    BY <1>0, <1>1, <2>1, WorkIsInvisible
<1>3. CASE BeginRestore(c) /\ head \notin {None, Torn, Damaged}
  <2>1. head \in SnapshotHead /\ head.manifest \in Tree
    BY <1>0, <1>3 DEF StoreTypeOK, SnapshotHead
  <2>2. Saved = head.manifest /\ Saved # None
    BY <2>1 DEF Saved
  <2>3. [d \in Client |-> ReadBy(d)'] =
          [[d \in Client |-> ReadBy(d)] EXCEPT ![c] = Saved]
    <3>1. phase'[c] = "opened" /\ listed'[c] = head.manifest
      BY <1>0, <1>3 DEF BeginRestore, Enter, StoreTypeOK
    <3>2. \A d \in Client \ {c} : phase'[d] = phase[d] /\ listed'[d] = listed[d]
      BY <1>0, <1>3 DEF BeginRestore, Enter, StoreTypeOK
    <3>3. ReadBy(c)' = Saved
      BY <3>1, <2>2 DEF ReadBy
    <3>4. \A d \in Client \ {c} : ReadBy(d)' = ReadBy(d)
      BY <3>2 DEF ReadBy
    <3> QED
      BY <3>3, <3>4
  <2>4. UNCHANGED delivered
    BY <1>3 DEF BeginRestore
  <2>5. Store!BeginLoad(c)
    BY <1>1, <2>2, <2>3, <2>4 DEF Store!BeginLoad, Saved, ReadBy
  <2> QED
    BY <1>0, <2>5 DEF Store!Next, StoreTypeOK
<1>4. CASE ReadManifest(c) \/ \E f \in File : RestoreFile(c, f)
  <2>1. UNCHANGED delivered /\ \A d \in Client : ReadBy(d)' = ReadBy(d)
    BY <1>0, <1>4 DEF ReadManifest, RestoreFile, Enter, ReadBy, StoreTypeOK
  <2> QED
    BY <1>0, <1>1, <2>1, WorkIsInvisible
<1>5. CASE FinishRestore(c)
  <2>1. /\ phase[c] = "restoring" /\ todo[c] = {}
        /\ tree[c] \in Tree /\ listed[c] \in Tree
    BY <1>0, <1>5 DEF FinishRestore, RestoredAllFiles, StoreTypeOK
  <2>2. tree[c] = listed[c]
    BY <2>1, RestoredIsListed
  <2>4. ReadBy(c) = tree[c] /\ ReadBy(c) # None
    BY <2>1, <2>2 DEF ReadBy
  <2>5. delivered' = [delivered EXCEPT ![c] = ReadBy(c)]
    BY <1>5, <2>4 DEF FinishRestore
  <2>6. [d \in Client |-> ReadBy(d)'] =
          [[d \in Client |-> ReadBy(d)] EXCEPT ![c] = None]
    BY <1>0, <1>5 DEF FinishRestore, End, Leave, Enter, ReadBy, StoreTypeOK
  <2>7. Store!EndLoad(c)
    BY <1>1, <2>4, <2>5, <2>6 DEF Store!EndLoad, Saved, ReadBy
  <2> QED
    BY <1>0, <2>7 DEF Store!Next, StoreTypeOK
<1> QED
  BY <1>2, <1>3, <1>4, <1>5 DEF RestoreStep

LEMMA OtherIsAtomic ==
  ASSUME StoreInv, StoreInv', NEW c \in Client,
         \/ FailOperation(c) \/ Vanish(c)
         \/ \E t \in Tree : ChangeTree(c, t)
  PROVE  Store!Next
<1>0. StoreTypeOK /\ StoreTypeOK'
  BY DEF StoreInv
<1>1. Saved' = Saved
  BY DEF FailOperation, Vanish, ChangeTree, disk, Saved
<1>2. CASE FailOperation(c) \/ Vanish(c)
  <2>1. [d \in Client |-> ReadBy(d)'] =
          [[d \in Client |-> ReadBy(d)] EXCEPT ![c] = None]
    BY ZenonT(40), <1>0, <1>2 DEF FailOperation, Vanish, End, Leave, Enter, ReadBy, StoreTypeOK
  <2>2. delivered' \in {delivered, [delivered EXCEPT ![c] = None]}
    BY <1>2 DEF FailOperation, Vanish
  <2>3. Store!GiveUp(c)
    BY <1>1, <2>1, <2>2 DEF Store!GiveUp, Saved, ReadBy
  <2> QED
    BY <1>0, <2>3 DEF Store!Next, StoreTypeOK
<1>3. ASSUME NEW t \in Tree, ChangeTree(c, t) PROVE Store!Next
  <2>1. \A d \in Client : ReadBy(d)' = ReadBy(d)
    BY <1>3 DEF ChangeTree, work, ReadBy
  <2>2. Store!Change(c)
    BY <1>1, <1>3, <2>1 DEF ChangeTree, Store!Change, Saved, ReadBy
  <2> QED
    BY <1>0, <2>2 DEF Store!Next, StoreTypeOK
<1> QED
  BY <1>2, <1>3

LEMMA StorageIsAtomic ==
  ASSUME StoreInv, StoreInv', StorageStep
  PROVE  Store!Next
<1>0. StoreTypeOK'
  BY DEF StoreInv
<1>1. UNCHANGED delivered /\ \A d \in Client : ReadBy(d)' = ReadBy(d)
  BY DEF StorageStep, Damage, Evict, work, ReadBy
<1>2. CASE head' = head
  BY <1>0, <1>1, <1>2, WorkIsInvisible DEF Saved
<1>3. CASE head' # head
  <2>1. head' \notin SnapshotHead
    BY <1>3 DEF StorageStep, Damage, Evict
  <2>2. Store!Lose
    BY <1>1, <2>1 DEF Store!Lose, Saved, ReadBy
  <2> QED
    BY <1>0, <2>2 DEF Store!Next, StoreTypeOK
<1> QED
  BY <1>2, <1>3

\* Every step of the store is one of the atomic store, or none of it.
LEMMA StepIsAtomic ==
  ASSUME StoreInv, StoreInv', [StoreNext]_opfsVars
  PROVE  [Store!Next]_Store!storeVars
<1>1. CASE UNCHANGED opfsVars
  BY <1>1 DEF opfsVars, disk, work, Store!storeVars
<1>2. CASE StoreNext
  BY <1>2, CommitIsAtomic, RestoreIsAtomic, OtherIsAtomic, StorageIsAtomic
  DEF StoreNext
<1> QED
  BY <1>1, <1>2

\* commitDirectoryTreeToOpfs and restoreDirectoryTreeFromOpfs, file by file,
\* implement one save and one load of a whole tree.
THEOREM StoreRefinesSnapshot == StoreSpec => StoreIsAtomic
<1>1. StoreInv /\ StoreInv' /\ [StoreNext]_opfsVars
        => [Store!Next]_Store!storeVars
  BY StepIsAtomic
<1> QED
  BY <1>1, InitIsAtomic, StoreInvariant, PTL DEF StoreSpec, StoreIsAtomic, Store!Spec

-----------------------------------------------------------------------------
(***************************************************************************)
(* The boots.  A Gateway starts on one whole installation, whichever        *)
(* documents saved, restored, failed or closed beside it.  For that the     *)
(* invariant follows an installation from the scripts that made it through  *)
(* a directory, a commit, HEAD and a restore to the next directory          *)
(* (BootIsSound, StoredIsSound).                                            *)
(***************************************************************************)
Whole(t) == \E v \in Installation : \A f \in Installed : t[f] = v
HasNoLive(t) == \A f \in File : t[f] # Live

\* Where a boot has a whole installation in its directory.
Holding == {"checking", "inspecting", "configuring", "snapshot", "saving"}

StartsWhole(c) ==
  /\ \E v \in Installation : \A f \in Installed : tree[c][f] \in {v, Live}
  /\ tree[c][Config] \in {Settings, Live}

BootIsSound(c) ==
  /\ phase[c] \in Writing => pc[c] = "saving"
  /\ phase[c] \in Reading => pc[c] = "restoring" /\ Whole(listed[c])
  /\ HasNoLive(listed[c])
  /\ pc[c] \notin Running \cup Terminal => HasNoLive(tree[c])
  /\ pc[c] \in Holding => Whole(tree[c])
  /\ pc[c] = "restoring" /\ phase[c] = "idle" /\ outcome[c] = "restored"
       => Whole(tree[c])
  /\ pc[c] \in {"snapshot", "saving"} /\ Kind(c) = "automatic"
       => tree[c][Config] = Settings
  /\ pc[c] = "starting" => StartsWhole(c)

StoredIsSound ==
  /\ NoLiveStateSaved
  /\ head \in SnapshotHead => HasNoLive(head.manifest) /\ Whole(head.manifest)

PcTypeOK == pc \in [Client -> {"closed", "queued"} \cup Booting \cup Terminal]

BootInv ==
  /\ StoreInv
  /\ PcTypeOK
  /\ StoredIsSound
  /\ \A c \in Client : BootIsSound(c)

USE BootAssumption

-----------------------------------------------------------------------------
(* What is started and saved is one installation.                           *)

LEMMA BootInit == Init => BootInv
<1> SUFFICES ASSUME Init PROVE BootInv
  OBVIOUS
<1>1. StoreInv
  BY InvInit DEF Init
<1>2. PcTypeOK
  BY DEF Init, PcTypeOK
<1>3. StoredIsSound
  BY DEF Init, StoreInit, StoredIsSound, NoLiveStateSaved, NoFiles
<1>4. ASSUME NEW c \in Client PROVE BootIsSound(c)
  <2>1. /\ pc[c] = "closed" /\ phase[c] = "idle"
        /\ listed[c] = NoFiles /\ tree[c] = NoFiles
    BY DEF Init, StoreInit
  <2>2. HasNoLive(NoFiles)
    BY DEF HasNoLive, NoFiles
  <2> QED
    BY <2>1, <2>2 DEF BootIsSound, Holding
<1> QED
  BY <1>1, <1>2, <1>3, <1>4 DEF BootInv

\* A document sees of the others only the store.
LEMMA OthersStaySound ==
  ASSUME NEW d \in Client, BootIsSound(d),
         pc'[d] = pc[d], phase'[d] = phase[d], listed'[d] = listed[d],
         tree'[d] = tree[d], outcome'[d] = outcome[d], launch' = launch
  PROVE  BootIsSound(d)'
BY DEF BootIsSound, HasNoLive, Whole, StartsWhole, Kind

\* The step of document c's boot: what remains to be shown for it.
LEMMA BootOf ==
  ASSUME BootInv, StoreInv', PcTypeOK', StoredIsSound', launch' = launch,
         NEW c \in Client, BootIsSound(c)',
         \A d \in Client \ {c} :
           /\ pc'[d] = pc[d] /\ phase'[d] = phase[d] /\ listed'[d] = listed[d]
           /\ tree'[d] = tree[d] /\ outcome'[d] = outcome[d]
  PROVE  BootInv'
BY OthersStaySound DEF BootInv

\* A step that moves the boot and leaves the store, and its directory, alone.
LEMMA BootMoves ==
  ASSUME BootInv, UNCHANGED <<opfsVars, launch>>, NEW c \in Client,
         NEW p \in {"closed", "queued"} \cup Booting \cup Terminal,
         pc' = [pc EXCEPT ![c] = p],
         phase[c] = "idle", p # "restoring",
         p \in Running \cup Terminal \/ HasNoLive(tree[c]),
         p \in Holding => Whole(tree[c]),
         p \in {"snapshot", "saving"} /\ Kind(c) = "automatic"
           => tree[c][Config] = Settings,
         p = "starting" => StartsWhole(c)
  PROVE  BootInv'
<1> USE DEF opfsVars, disk, work
<1>1. StoreInv'
  BY InvStep DEF BootInv
<1>2. PcTypeOK'
  BY DEF BootInv, PcTypeOK
<1>3. StoredIsSound'
  BY DEF BootInv, StoredIsSound, NoLiveStateSaved, HasNoLive, Whole
<1>4. pc'[c] = p
  BY DEF BootInv, PcTypeOK
<1>5. BootIsSound(c)'
  BY <1>4 DEF BootInv, BootIsSound, HasNoLive, Whole, StartsWhole, Kind
<1>6. \A d \in Client \ {c} : pc'[d] = pc[d]
  BY DEF BootInv, PcTypeOK
<1> QED
  BY <1>1, <1>2, <1>3, <1>5, <1>6, BootOf

\* A step that replaces the directory and moves the boot.
LEMMA BootChangesTree ==
  ASSUME BootInv, launch' = launch, NEW c \in Client, NEW t \in Tree,
         ChangeTree(c, t), phase[c] = "idle",
         NEW p \in {"closed", "queued"} \cup Booting \cup Terminal,
         pc' = [pc EXCEPT ![c] = p],
         p # "restoring",
         p \in Running \cup Terminal \/ HasNoLive(t),
         p \in Holding => Whole(t),
         p \in {"snapshot", "saving"} /\ Kind(c) = "automatic"
           => t[Config] = Settings,
         p = "starting" =>
           /\ \E v \in Installation : \A f \in Installed : t[f] \in {v, Live}
           /\ t[Config] \in {Settings, Live}
  PROVE  BootInv'
<1> USE DEF ChangeTree, disk, work
<1>1. StoreInv'
  BY OtherKeepsInv DEF BootInv
<1>2. PcTypeOK'
  BY DEF BootInv, PcTypeOK
<1>3. StoredIsSound'
  BY DEF BootInv, StoredIsSound, NoLiveStateSaved, HasNoLive, Whole
<1>4. /\ pc'[c] = p /\ tree'[c] = t /\ phase'[c] = "idle"
      /\ listed'[c] = listed[c] /\ Kind(c)' = Kind(c)
  BY DEF BootInv, PcTypeOK, StoreInv, StoreTypeOK, Kind
<1>5. BootIsSound(c)'
  BY <1>4 DEF BootInv, BootIsSound, HasNoLive, Whole, StartsWhole
<1>6. \A d \in Client \ {c} : pc'[d] = pc[d] /\ tree'[d] = tree[d]
  BY DEF BootInv, PcTypeOK, StoreInv, StoreTypeOK
<1> QED
  BY <1>1, <1>2, <1>3, <1>5, <1>6, BootOf

\* Only a save or a restore keeps the store busy.
LEMMA IdleElsewhere ==
  ASSUME BootInv, NEW c \in Client, pc[c] \notin {"saving", "restoring"}
  PROVE  phase[c] = "idle"
BY DEF BootInv, BootIsSound, StoreInv, StoreTypeOK

-----------------------------------------------------------------------------
LEMMA ProcessKeepsInv ==
  ASSUME BootInv, NEW c \in Client,
         \/ Start(c) \/ GrantLock(c)
         \/ GatewayReady(c) \/ GatewayBlocked(c) \/ Prewarmed(c)
         \/ RpcBridgeReady(c) \/ ClientAttempt(c) \/ ProbeThrows(c)
  PROVE  BootInv'
<1> USE DEF Goto, Continue, Settle, Others, Booting, Terminal, Running, Holding
<1>1. CASE Start(c) \/ GrantLock(c)
  <2>1. phase[c] = "idle" /\ HasNoLive(tree[c])
    BY <1>1, IdleElsewhere DEF Start, GrantLock, BootInv, BootIsSound
  <2> QED
    BY <1>1, <2>1, BootMoves DEF Start, GrantLock
<1>2. CASE GatewayReady(c) \/ GatewayBlocked(c) \/ Prewarmed(c) \/ RpcBridgeReady(c)
  BY <1>2, IdleElsewhere, BootMoves
  DEF GatewayReady, GatewayBlocked, Prewarmed, RpcBridgeReady
<1>3. CASE ClientAttempt(c)
  <2>1. pc = [pc EXCEPT ![c] = "trying"] /\ phase[c] = "idle"
    BY <1>3, IdleElsewhere DEF ClientAttempt, BootInv, PcTypeOK
  <2> QED
    BY <1>3, <2>1, BootMoves DEF ClientAttempt
<1>4. CASE ProbeThrows(c)
  BY <1>4, IdleElsewhere, BootMoves DEF ProbeThrows
<1> QED
  BY <1>1, <1>2, <1>3, <1>4

LEMMA FreshKeepsInv ==
  ASSUME BootInv, launch' = launch, NEW c \in Client, FreshDirectory(c),
         phase[c] = "idle",
         NEW p \in {"opening", "installing"}, pc' = [pc EXCEPT ![c] = p]
  PROVE  BootInv'
<1>1. HasNoLive(NoFiles)
  BY DEF HasNoLive, NoFiles
<1> QED
  BY <1>1, NoFilesIsTree, BootChangesTree
  DEF FreshDirectory, Booting, Terminal, Running, Holding

LEMMA FallBackKeepsInv ==
  ASSUME BootInv, launch' = launch, NEW c \in Client, FallBack(c),
         phase[c] = "idle"
  PROVE  BootInv'
<1>1. CASE Kind(c) = "automatic"
  BY <1>1, FreshKeepsInv DEF FallBack, InstallFrom, Continue, Goto
<1>2. CASE Kind(c) # "automatic"
  BY <1>2, BootMoves
  DEF FallBack, Settle, Goto, Booting, Terminal, Running, Holding
<1> QED
  BY <1>1, <1>2

\* Lookup, restore and its check, up to the fresh directory of a cold boot.
LEMMA LookUpKeepsInv ==
  ASSUME BootInv, NEW c \in Client,
         \/ LookUpSnapshot(c) \/ LookUpFails(c) \/ EndRestore(c)
         \/ CheckRestored(c) \/ RefuseRestored(c)
  PROVE  BootInv'
<1> USE DEF Goto, Continue, Others
<1>1. CASE LookUpSnapshot(c) \/ LookUpFails(c)
  BY <1>1, IdleElsewhere, FreshKeepsInv
  DEF LookUpSnapshot, LookUpFails, InstallFrom
<1>2. CASE EndRestore(c) /\ outcome[c] = "restored"
  <2>1. Whole(tree[c]) /\ HasNoLive(tree[c])
    BY <1>2 DEF EndRestore, BootInv, BootIsSound, Running, Terminal
  <2> QED
    BY <1>2, <2>1, BootMoves
    DEF EndRestore, Booting, Terminal, Running, Holding
<1>3. CASE EndRestore(c) /\ outcome[c] # "restored"
  BY <1>3, FallBackKeepsInv DEF EndRestore
<1>4. CASE CheckRestored(c)
  <2>1. Whole(tree[c]) /\ HasNoLive(tree[c]) /\ phase[c] = "idle"
    BY <1>4, IdleElsewhere
    DEF CheckRestored, BootInv, BootIsSound, Running, Terminal, Holding
  <2> QED
    BY <1>4, <2>1, BootMoves
    DEF CheckRestored, Settle, Booting, Terminal, Running, Holding
<1>5. CASE RefuseRestored(c)
  BY <1>5, IdleElsewhere, FallBackKeepsInv DEF RefuseRestored
<1> QED
  BY <1>1, <1>2, <1>3, <1>4, <1>5

LEMMA InstallKeepsInv ==
  ASSUME BootInv, NEW c \in Client,
         RunLifecycleScript(c) \/ InspectOpenClawInstallState(c)
  PROVE  BootInv'
<1> USE DEF Goto, Continue, Others, Booting, Terminal, Running, Holding
<1>0. phase[c] = "idle" /\ HasNoLive(tree[c])
  BY IdleElsewhere
  DEF RunLifecycleScript, InspectOpenClawInstallState, BootInv, BootIsSound
<1>1. CASE RunLifecycleScript(c) /\ script[c] + 1 < Scripts
  <2>1. pc' = [pc EXCEPT ![c] = "installing"]
    BY <1>1 DEF RunLifecycleScript, BootInv, PcTypeOK
  <2> QED
    BY <1>0, <1>1, <2>1, BootMoves DEF RunLifecycleScript
<1>2. CASE RunLifecycleScript(c) /\ ~(script[c] + 1 < Scripts)
  <2> DEFINE New(v) == [f \in File |-> IF f \in Installed THEN v ELSE tree[c][f]]
  <2>1. PICK v \in Leaves[c] : ChangeTree(c, New(v))
    BY <1>2 DEF RunLifecycleScript
  <2>2. v \in Installation /\ tree[c] \in Tree
    BY DEF BootInv, StoreInv, StoreTypeOK
  <2>3. New(v) \in Tree
    BY <2>2 DEF Tree
  <2>4. HasNoLive(New(v)) /\ Whole(New(v))
    BY <1>0, <2>2 DEF HasNoLive, Whole
  <2>5. pc' = [pc EXCEPT ![c] = "inspecting"] /\ launch' = launch
    BY <1>2 DEF RunLifecycleScript
  <2> QED
    BY <1>0, <2>1, <2>3, <2>4, <2>5, BootChangesTree
<1>3. CASE InspectOpenClawInstallState(c)
  <2>1. Whole(tree[c])
    BY <1>3 DEF InspectOpenClawInstallState, BootInv, BootIsSound
  <2> QED
    BY <1>0, <1>3, <2>1, BootMoves DEF InspectOpenClawInstallState
<1> QED
  BY <1>1, <1>2, <1>3

LEMMA ConfigureKeepsInv ==
  ASSUME BootInv, NEW c \in Client, Configure(c) \/ GatewayWrites(c)
  PROVE  BootInv'
<1> USE DEF Goto, Continue, Others, Booting, Terminal, Running, Holding
<1>0. tree[c] \in Tree /\ phase[c] = "idle"
  BY IdleElsewhere DEF Configure, GatewayWrites, BootInv, StoreInv, StoreTypeOK
<1>1. CASE Configure(c)
  <2> DEFINE t == [tree[c] EXCEPT ![Config] = Settings]
  <2>1. HasNoLive(tree[c]) /\ Whole(tree[c])
    BY <1>1 DEF Configure, BootInv, BootIsSound
  <2>2. /\ t \in Tree /\ t[Config] = Settings
        /\ \A f \in File \ {Config} : t[f] = tree[c][f]
    BY <1>0 DEF Tree
  <2>3. HasNoLive(t) /\ Whole(t)
    BY <2>1, <2>2 DEF HasNoLive, Whole
  <2>4. ChangeTree(c, t) /\ launch' = launch
    BY <1>1 DEF Configure
  <2>5. \E p \in {"snapshot", "starting"} : pc' = [pc EXCEPT ![c] = p]
    BY <1>1 DEF Configure
  <2>6. \E v \in Installation : \A f \in Installed : t[f] \in {v, Live}
    BY <2>3 DEF Whole
  <2> HIDE DEF t
  <2>7. CASE pc' = [pc EXCEPT ![c] = "snapshot"]
    BY <1>0, <2>2, <2>3, <2>4, <2>7, BootChangesTree
  <2>8. CASE pc' = [pc EXCEPT ![c] = "starting"]
    BY <1>0, <2>2, <2>4, <2>6, <2>8, BootChangesTree
  <2> QED
    BY <2>5, <2>7, <2>8
<1>2. CASE GatewayWrites(c)
  <2> DEFINE t == [f \in File |-> Live]
  <2>1. t \in Tree
    BY DEF Tree
  <2>2. pc' = [pc EXCEPT ![c] = pc[c]] /\ launch' = launch /\ pc[c] \in Running
    BY <1>2 DEF GatewayWrites, bootVars, BootInv, PcTypeOK
  <2>3. pc[c] = "starting" =>
          /\ \E v \in Installation : \A f \in Installed : t[f] \in {v, Live}
          /\ t[Config] \in {Settings, Live}
    BY DEF BootInv, BootIsSound, StartsWhole
  <2>4. ChangeTree(c, t)
    BY <1>2 DEF GatewayWrites
  <2> HIDE DEF t
  <2> QED
    BY <1>0, <2>1, <2>2, <2>3, <2>4, BootChangesTree
<1> QED
  BY <1>1, <1>2

\* After the save the boot goes on, saved or not.
LEMMA EndSaveKeepsInv ==
  ASSUME BootInv, NEW c \in Client, EndSave(c) \/ SaveFails(c)
  PROVE  BootInv'
<1>1. /\ phase[c] = "idle" /\ Whole(tree[c])
      /\ Kind(c) = "automatic" => tree[c][Config] = Settings
  BY IdleElsewhere DEF EndSave, SaveFails, BootInv, BootIsSound, Holding
<1>2. Kind(c) = "automatic" => StartsWhole(c)
  BY <1>1 DEF StartsWhole, Whole
<1>3. UNCHANGED <<opfsVars, launch>>
  BY DEF EndSave, SaveFails, Others
<1>4. CASE Kind(c) = "automatic"
  <2>1. pc' = [pc EXCEPT ![c] = "starting"]
    BY <1>4 DEF EndSave, SaveFails, AfterSave, Continue, Goto
  <2> QED
    BY <1>1, <1>2, <1>3, <1>4, <2>1, BootMoves
    DEF Booting, Terminal, Running, Holding
<1>5. CASE Kind(c) # "automatic"
  <2>1. \E p \in {"passed", "failed"} : pc' = [pc EXCEPT ![c] = p]
    BY <1>5 DEF EndSave, SaveFails, AfterSave, Settle, Goto
  <2> QED
    BY <1>1, <1>3, <2>1, BootMoves DEF Booting, Terminal, Running, Holding
<1> QED
  BY <1>4, <1>5

-----------------------------------------------------------------------------
(* The steps inside a save or a restore, and what happens to both.          *)

LEMMA StoreStepsAreOwn ==
  ASSUME StoreTypeOK, NEW c \in Client,
         \/ BeginCommit(c) \/ CommitStep(c) \/ BeginRestore(c) \/ RestoreStep(c)
         \/ FailOperation(c) \/ Vanish(c)
  PROVE  \A d \in Client \ {c} :
           /\ phase'[d] = phase[d] /\ listed'[d] = listed[d]
           /\ tree'[d] = tree[d] /\ outcome'[d] = outcome[d]
<1> USE DEF StoreTypeOK, Enter, End, Leave
<1>1. CASE BeginCommit(c) \/ BeginRestore(c)
  BY <1>1 DEF BeginCommit, BeginRestore
<1>2. CASE CommitStep(c)
  BY <1>2 DEF CommitStep, CreateFile, CloseFile, CreateManifest, CloseManifest,
              CreateHead, CloseHead
<1>3. CASE RestoreStep(c)
  BY <1>3 DEF RestoreStep, ReadManifest, RestoreFile, FinishRestore
<1>4. CASE FailOperation(c) \/ Vanish(c)
  BY <1>4 DEF FailOperation, Vanish
<1> QED
  BY <1>1, <1>2, <1>3, <1>4

LEMMA StoredStaysSound ==
  ASSUME BootInv, UNCHANGED <<head, payload>>
  PROVE  StoredIsSound'
BY DEF BootInv, StoredIsSound, NoLiveStateSaved, HasNoLive, Whole

\* An operation that fails leaves a boot that may fall back.
LEMMA FailureKeepsInv ==
  ASSUME BootInv, NEW c \in Client, FailOperation(c), UNCHANGED bootVars
  PROVE  BootInv'
<1>0. StoreTypeOK
  BY DEF BootInv, StoreInv
<1>1. StoreInv' /\ StoredIsSound' /\ PcTypeOK' /\ UNCHANGED <<pc, launch>>
  BY OtherKeepsInv, StoredStaysSound DEF BootInv, FailOperation, disk, bootVars, PcTypeOK
<1>2. /\ phase'[c] = "idle" /\ outcome'[c] = "failed" /\ listed'[c] = NoFiles
      /\ tree' = tree
  BY <1>0 DEF FailOperation, End, Leave, Enter, StoreTypeOK
<1>3. HasNoLive(NoFiles)
  BY DEF HasNoLive, NoFiles
<1>4. BootIsSound(c)'
  BY <1>1, <1>2, <1>3 DEF BootInv, BootIsSound, HasNoLive, Whole, StartsWhole, Kind
<1> QED
  BY <1>0, <1>1, <1>4, StoreStepsAreOwn, BootOf

LEMMA RestoreKeepsBoot ==
  ASSUME BootInv, NEW c \in Client, OpenSnapshot(c) \/ RestoreWork(c)
  PROVE  BootInv'
<1>0. StoreTypeOK
  BY DEF BootInv, StoreInv
<1>1. CASE OpenSnapshot(c)
  <2>1. StoreInv' /\ StoredIsSound' /\ UNCHANGED <<head, payload, launch, tree>>
    BY <1>1, RestoreKeepsInv, StoredStaysSound
    DEF BootInv, OpenSnapshot, BeginRestore, disk, Others
  <2>2. PcTypeOK' /\ pc'[c] = "restoring" /\ \A d \in Client \ {c} : pc'[d] = pc[d]
    BY <1>1 DEF OpenSnapshot, Continue, Goto, BootInv, PcTypeOK, Booting
  <2>3. HasNoLive(tree[c]) /\ HasNoLive(NoFiles)
    BY <1>1 DEF OpenSnapshot, BootInv, BootIsSound, Running, Terminal, HasNoLive,
                NoFiles
  <2>4. \/ phase'[c] = "idle" /\ outcome'[c] = "failed" /\ listed'[c] = NoFiles
        \/ /\ head \in SnapshotHead
           /\ phase'[c] = "opened" /\ listed'[c] = head.manifest
    BY <1>0, <1>1 DEF OpenSnapshot, BeginRestore, End, Leave, Enter, StoreTypeOK
  <2>5. HasNoLive(listed[c])' /\ (phase'[c] \in Reading => Whole(listed[c])')
    BY <2>3, <2>4 DEF BootInv, StoredIsSound, HasNoLive, Whole
  <2>6. HasNoLive(tree[c])'
    BY <2>1, <2>3 DEF HasNoLive
  <2>7. phase'[c] \notin Writing /\ ~(phase'[c] = "idle" /\ outcome'[c] = "restored")
    BY <2>4
  <2>8. BootIsSound(c)'
    BY <2>2, <2>5, <2>6, <2>7 DEF BootIsSound, Holding
  <2> QED
    BY <1>0, <1>1, <2>1, <2>2, <2>8, StoreStepsAreOwn, BootOf DEF OpenSnapshot
<1>2. CASE RestoreWork(c) /\ RestoreStep(c)
  <2>1. StoreInv' /\ StoredIsSound' /\ PcTypeOK' /\ UNCHANGED <<pc, launch>>
    BY <1>2, RestoreKeepsInv, StoredStaysSound
    DEF BootInv, RestoreWork, RestoreStep, ReadManifest, RestoreFile,
        FinishRestore, disk, bootVars, PcTypeOK
  <2>2. pc[c] = "restoring" /\ HasNoLive(tree[c]) /\ HasNoLive(listed[c])
    BY <1>2 DEF RestoreWork, BootInv, BootIsSound, Running, Terminal
  <2>3. phase[c] \in Reading /\ Whole(listed[c])
    BY <1>2 DEF RestoreStep, ReadManifest, RestoreFile, FinishRestore,
                RestoredAllFiles, BootInv, BootIsSound
  <2>4. ASSUME FinishRestore(c) PROVE BootIsSound(c)'
    <3>1. /\ phase'[c] = "idle" /\ listed'[c] = NoFiles /\ tree' = tree
          /\ tree[c] = listed[c]
      BY <1>0, <2>4, RestoredIsListed
      DEF FinishRestore, RestoredAllFiles, End, Leave, Enter, StoreTypeOK, BootInv
    <3>2. Whole(tree[c])' /\ HasNoLive(tree[c])' /\ HasNoLive(listed[c])'
      BY <2>2, <2>3, <3>1 DEF Whole, HasNoLive, NoFiles
    <3> QED
      BY <2>1, <2>2, <3>1, <3>2 DEF BootIsSound, Holding
  <2>5. ASSUME ReadManifest(c) \/ \E f \in File : RestoreFile(c, f)
        PROVE  BootIsSound(c)'
    <3>1. phase'[c] = "restoring" /\ listed' = listed
      BY <1>0, <2>5 DEF ReadManifest, RestoreFile, Enter, StoreTypeOK
    <3>2. \A f \in File : tree'[c][f] \in {tree[c][f], listed[c][f]}
      BY <1>0, <2>5 DEF ReadManifest, RestoreFile, Verifies, StoreTypeOK, Tree
    <3>3. HasNoLive(tree[c])' /\ HasNoLive(listed[c])' /\ Whole(listed[c])'
      BY <2>2, <2>3, <3>1, <3>2 DEF HasNoLive, Whole
    <3> QED
      BY <2>1, <2>2, <3>1, <3>3 DEF BootIsSound, Holding
  <2>6. BootIsSound(c)'
    BY <1>2, <2>4, <2>5 DEF RestoreStep
  <2> QED
    BY <1>0, <1>2, <2>1, <2>6, StoreStepsAreOwn, BootOf
<1>3. CASE RestoreWork(c) /\ FailOperation(c)
  BY <1>3, FailureKeepsInv DEF RestoreWork
<1> QED
  BY <1>1, <1>2, <1>3 DEF RestoreWork

\* A commit lists the directory of a boot that has not started its Gateway.
LEMMA SaveKeepsBoot ==
  ASSUME BootInv, NEW c \in Client, BeginSave(c) \/ SaveWork(c)
  PROVE  BootInv'
<1>0. StoreTypeOK
  BY DEF BootInv, StoreInv
<1>1. HasNoLive(NoFiles)
  BY DEF HasNoLive, NoFiles
<1>2. CASE BeginSave(c)
  <2>1. /\ StoreInv' /\ StoredIsSound' /\ UNCHANGED <<launch, tree>>
    BY <1>2, BeginCommitKeepsInv, StoredStaysSound
    DEF BootInv, BeginSave, BeginCommit, Others
  <2>2. PcTypeOK' /\ pc'[c] = "saving" /\ \A d \in Client \ {c} : pc'[d] = pc[d]
    BY <1>2 DEF BeginSave, Continue, Goto, BootInv, PcTypeOK, Booting
  <2>3. phase'[c] = "visiting" /\ listed'[c] = NoFiles
    BY <1>0, <1>2 DEF BeginSave, BeginCommit, Enter, StoreTypeOK
  <2>4. /\ HasNoLive(tree[c]) /\ Whole(tree[c])
        /\ Kind(c) = "automatic" => tree[c][Config] = Settings
    BY <1>2 DEF BeginSave, BootInv, BootIsSound, Running, Terminal, Holding
  <2>5. BootIsSound(c)'
    BY <1>1, <2>1, <2>2, <2>3, <2>4 DEF BootIsSound, HasNoLive, Whole, Kind
  <2> QED
    BY <1>0, <1>2, <2>1, <2>2, <2>5, StoreStepsAreOwn, BootOf DEF BeginSave
<1>3. CASE SaveWork(c) /\ CommitStep(c)
  <2>1. StoreInv' /\ PcTypeOK' /\ UNCHANGED <<pc, launch, tree>>
    BY <1>3, InvStep
    DEF BootInv, SaveWork, StoreNext, CommitStep, CreateFile, CloseFile,
        CreateManifest, CloseManifest, CreateHead, CloseHead, bootVars, PcTypeOK
  <2>2. /\ pc[c] = "saving" /\ HasNoLive(tree[c]) /\ Whole(tree[c])
        /\ HasNoLive(listed[c])
        /\ Kind(c) = "automatic" => tree[c][Config] = Settings
    BY <1>3 DEF SaveWork, BootInv, BootIsSound, Running, Terminal, Holding
  <2>3. HasNoLive(listed[c])'
    <3>1. ASSUME NEW f \in File, CreateFile(c, f)
          PROVE  \A e \in File : listed'[c][e] \in {listed[c][e], tree[c][e]}
      BY <1>0, <3>1 DEF CreateFile, StoreTypeOK, Tree
    <3>2. CASE \E f \in File : CreateFile(c, f)
      BY <2>2, <3>1, <3>2 DEF HasNoLive
    <3>3. CASE CloseHead(c)
      BY <1>0, <1>1, <3>3 DEF CloseHead, End, Leave, StoreTypeOK, HasNoLive, NoFiles
    <3>4. CASE CloseFile(c) \/ CreateManifest(c) \/ CloseManifest(c) \/ CreateHead(c)
      BY <2>2, <3>4
      DEF CloseFile, CreateManifest, CloseManifest, CreateHead, HasNoLive
    <3> QED
      BY <1>3, <3>2, <3>3, <3>4 DEF CommitStep
  <2>4. /\ phase'[c] \in {"idle"} \cup Writing
        /\ phase[c] \in Writing
    BY <1>0, <1>3 DEF CommitStep, CreateFile, CloseFile, CreateManifest, Visited,
        CloseManifest, CreateHead, CloseHead, End, Leave, Enter, StoreTypeOK
  <2>5. BootIsSound(c)'
    BY <2>1, <2>2, <2>3, <2>4 DEF BootIsSound, Whole, HasNoLive, Kind
  <2>6. NoLiveStateSaved'
    <3>1. generation[c] \in Generation
      BY <2>4 DEF BootInv, StoreInv, WorkIsSound
    <3>2. ASSUME NEW e \in File, CreateFile(c, e) PROVE NoLiveStateSaved'
      BY <1>0, <3>1, <3>2
      DEF CreateFile, BootInv, StoredIsSound, NoLiveStateSaved, StoreTypeOK
    <3>3. CASE CloseFile(c)
      <4>1. current[c] \in File
        BY <1>0, <3>3 DEF CloseFile, BootInv, StoreInv, WorkIsSound, StoreTypeOK
      <4>2. listed[c][current[c]] # Live
        BY <2>2, <4>1 DEF HasNoLive
      <4> QED
        BY <1>0, <3>1, <3>3, <4>1, <4>2
        DEF CloseFile, BootInv, StoredIsSound, NoLiveStateSaved, StoreTypeOK
    <3>4. CASE CreateManifest(c) \/ CloseManifest(c) \/ CreateHead(c) \/ CloseHead(c)
      BY <3>4 DEF CreateManifest, CloseManifest, CreateHead, CloseHead,
                  BootInv, StoredIsSound, NoLiveStateSaved
    <3> QED
      BY <1>3, <3>2, <3>3, <3>4 DEF CommitStep
  <2>7. head' \in SnapshotHead =>
          HasNoLive(head.manifest)' /\ Whole(head.manifest)'
    <3>1. CASE CloseHead(c)
      <4>1. head'.manifest = tree[c]
        BY <3>1, ListedIsTree DEF CloseHead, BootInv
      <4> QED
        BY <2>2, <4>1 DEF HasNoLive, Whole
    <3>2. CASE ~CloseHead(c)
      <4>1. head' = head \/ head' = Torn
        BY <1>3, <3>2 DEF CommitStep, CreateFile, CloseFile, CreateManifest,
                          CloseManifest, CreateHead
      <4> QED
        BY <4>1 DEF BootInv, StoredIsSound, HasNoLive, Whole
    <3> QED
      BY <3>1, <3>2
  <2>8. StoredIsSound'
    BY <2>6, <2>7 DEF StoredIsSound
  <2> QED
    BY <1>0, <1>3, <2>1, <2>5, <2>8, StoreStepsAreOwn, BootOf
<1>4. CASE SaveWork(c) /\ FailOperation(c)
  BY <1>4, FailureKeepsInv DEF SaveWork
<1> QED
  BY <1>2, <1>3, <1>4 DEF SaveWork

LEMMA CloseKeepsBoot ==
  ASSUME BootInv, NEW c \in Client, Close(c)
  PROVE  BootInv'
<1>0. StoreTypeOK /\ HasNoLive(NoFiles)
  BY DEF BootInv, StoreInv, HasNoLive, NoFiles
<1>1. StoreInv' /\ StoredIsSound' /\ launch' = launch
  BY OtherKeepsInv, StoredStaysSound DEF BootInv, Close, Vanish, disk
<1>2. PcTypeOK' /\ pc'[c] = "closed" /\ \A d \in Client \ {c} : pc'[d] = pc[d]
  BY DEF Close, Settle, Goto, BootInv, PcTypeOK
<1>3. phase'[c] = "idle" /\ listed'[c] = NoFiles /\ tree'[c] = NoFiles
  BY <1>0 DEF Close, Vanish, End, Leave, Enter, StoreTypeOK
<1>4. HasNoLive(listed[c])' /\ HasNoLive(tree[c])'
  BY <1>0, <1>3 DEF HasNoLive
<1>5. BootIsSound(c)'
  BY <1>2, <1>3, <1>4 DEF BootIsSound, Holding
<1> QED
  BY <1>0, <1>1, <1>2, <1>5, StoreStepsAreOwn, BootOf DEF Close

LEMMA StorageKeepsBoot ==
  ASSUME BootInv, StorageEvent
  PROVE  BootInv'
<1>0. StoreTypeOK
  BY DEF BootInv, StoreInv
<1>1. StoreInv' /\ UNCHANGED <<pc, launch, tree, work, outcome>>
  BY StorageKeepsInv
  DEF BootInv, StorageEvent, StorageStep, Damage, Evict, bootVars
<1>2. PcTypeOK' /\ \A c \in Client : BootIsSound(c)'
  BY <1>1 DEF BootInv, PcTypeOK, BootIsSound, HasNoLive, Whole, StartsWhole, Kind, work
<1>3. head' \in SnapshotHead => head' = head
  BY DEF StorageEvent, StorageStep, Damage, Evict
<1>4. NoLiveStateSaved'
  <2>1. ASSUME NEW h \in present, NEW e \in File,
               payload' = [payload EXCEPT ![h][e] = Damaged]
        PROVE  NoLiveStateSaved'
    BY <1>0, <2>1 DEF BootInv, StoredIsSound, NoLiveStateSaved, StoreTypeOK
  <2>2. CASE Evict
    BY <2>2 DEF Evict, NoLiveStateSaved, NoFiles
  <2>3. CASE UNCHANGED payload
    BY <2>3 DEF BootInv, StoredIsSound, NoLiveStateSaved
  <2> QED
    BY <2>1, <2>2, <2>3 DEF StorageEvent, StorageStep, Damage
<1>5. StoredIsSound'
  BY <1>3, <1>4 DEF BootInv, StoredIsSound, HasNoLive, Whole
<1> QED
  BY <1>1, <1>2, <1>5 DEF BootInv

-----------------------------------------------------------------------------
LEMMA BootStepKeepsInv ==
  ASSUME BootInv, NEW c \in Client, BootStep(c) \/ Start(c) \/ GatewayWrites(c)
  PROVE  BootInv'
BY ProcessKeepsInv, LookUpKeepsInv, RestoreKeepsBoot, InstallKeepsInv,
   ConfigureKeepsInv, SaveKeepsBoot, EndSaveKeepsInv DEF BootStep

LEMMA BootInvKept == BootInv /\ [Next]_vars => BootInv'
<1> SUFFICES ASSUME BootInv, [Next]_vars PROVE BootInv'
  OBVIOUS
<1>1. CASE UNCHANGED vars
  <2>1. StoreInv'
    BY <1>1, InvStep DEF BootInv, vars
  <2> QED
    BY <1>1, <2>1
    DEF vars, opfsVars, bootVars, disk, work, BootInv, PcTypeOK, StoredIsSound,
        NoLiveStateSaved, BootIsSound, HasNoLive, Whole, StartsWhole, Kind
<1> QED
  BY <1>1, BootStepKeepsInv, CloseKeepsBoot, StorageKeepsBoot DEF Next

\* Whatever a boot holds, saves or restores is what one install left.
THEOREM BootInvariant == Spec => []BootInv
<1> QED
  BY BootInit, BootInvKept, PTL DEF Spec

\* runProbe: a Gateway starts on one whole installation and the host's
\* configuration, never on what a failed restore left behind.
THEOREM GatewaysStartWhole == Spec => []GatewayStartsWhole
<1>1. BootInv => GatewayStartsWhole
  BY DEF BootInv, BootIsSound, StartsWhole, GatewayStartsWhole
<1> QED
  BY <1>1, BootInvariant, PTL

\* runProbe: the boot cache never holds what a running Gateway wrote.
THEOREM CachePrecedesGateways == Spec => []NoLiveStateSaved
<1>1. BootInv => NoLiveStateSaved
  BY DEF BootInv, StoredIsSound
<1> QED
  BY <1>1, BootInvariant, PTL

-----------------------------------------------------------------------------
(* Every step of a boot is one of the store's, or none: a boot leaves its   *)
(* directory alone while the store works on it.                             *)

LEMMA BootStepIsStoreStep ==
  ASSUME BootInv, NEW c \in Client, BootStep(c)
  PROVE  [StoreNext]_opfsVars
<1> USE DEF StoreNext
<1>0. StoreTypeOK
  BY DEF BootInv, StoreInv
<1>1. ASSUME FreshDirectory(c), phase[c] = "idle" PROVE StoreNext
  BY <1>1, NoFilesIsTree DEF FreshDirectory
<1>2. ASSUME FallBack(c), phase[c] = "idle" PROVE [StoreNext]_opfsVars
  BY <1>1, <1>2 DEF FallBack, InstallFrom
<1>3. CASE LookUpSnapshot(c) \/ LookUpFails(c)
  BY <1>1, <1>3, IdleElsewhere DEF LookUpSnapshot, LookUpFails, InstallFrom
<1>4. CASE OpenSnapshot(c) \/ RestoreWork(c)
  BY <1>4 DEF OpenSnapshot, RestoreWork
<1>5. CASE EndRestore(c) \/ RefuseRestored(c)
  BY <1>2, <1>5, IdleElsewhere DEF EndRestore, RefuseRestored
<1>6. CASE RunLifecycleScript(c)
  <2>1. ASSUME NEW v \in Leaves[c]
        PROVE  [f \in File |-> IF f \in Installed THEN v ELSE tree[c][f]] \in Tree
    <3>1. v \in Installation /\ tree[c] \in Tree
      BY <1>0 DEF StoreTypeOK
    <3> QED
      BY <3>1 DEF Tree
  <2> QED
    BY <1>6, <2>1, IdleElsewhere DEF RunLifecycleScript
<1>7. CASE Configure(c)
  <2>1. [tree[c] EXCEPT ![Config] = Settings] \in Tree
    BY <1>0 DEF StoreTypeOK, Tree
  <2> QED
    BY <1>7, <2>1, IdleElsewhere DEF Configure
<1>8. CASE BeginSave(c) \/ SaveWork(c)
  BY <1>8 DEF BeginSave, SaveWork
<1>9. CASE \/ GrantLock(c) \/ CheckRestored(c) \/ InspectOpenClawInstallState(c)
           \/ EndSave(c) \/ SaveFails(c) \/ GatewayReady(c) \/ GatewayBlocked(c)
           \/ Prewarmed(c) \/ RpcBridgeReady(c) \/ ClientAttempt(c) \/ ProbeThrows(c)
  BY <1>9 DEF GrantLock, CheckRestored, InspectOpenClawInstallState, EndSave,
              SaveFails, GatewayReady, GatewayBlocked, Prewarmed, RpcBridgeReady,
              ClientAttempt, ProbeThrows
<1> QED
  BY <1>3, <1>4, <1>5, <1>6, <1>7, <1>8, <1>9 DEF BootStep

LEMMA NextIsStoreStep ==
  ASSUME BootInv, [Next]_vars
  PROVE  [StoreNext]_opfsVars
<1>1. ASSUME NEW c \in Client, GatewayWrites(c) PROVE StoreNext
  <2>1. [f \in File |-> Live] \in Tree
    BY DEF Tree
  <2>2. phase[c] = "idle"
    BY <1>1, IdleElsewhere DEF GatewayWrites, Running
  <2> QED
    BY <1>1, <2>1, <2>2 DEF GatewayWrites, StoreNext
<1>2. ASSUME NEW c \in Client, Start(c) \/ Close(c)
      PROVE  [StoreNext]_opfsVars
  BY <1>2 DEF Start, Close, StoreNext
<1>3. CASE StorageEvent
  BY <1>3 DEF StorageEvent, StoreNext
<1>4. CASE UNCHANGED vars
  BY <1>4 DEF vars
<1> QED
  BY <1>1, <1>2, <1>3, <1>4, BootStepIsStoreStep DEF Next

\* runProbe uses the store through its three functions and otherwise changes
\* its own Directory only, never while a commit reads it: whatever it does,
\* the store of each boot is one of OpfsStore's.
THEOREM BootsUseTheStore == Spec => StoreSpec
<1>1. Init => StoreInit
  BY DEF Init
<1>2. BootInv /\ [Next]_vars => [StoreNext]_opfsVars
  BY NextIsStoreStep
<1> QED
  BY <1>1, <1>2, BootInvariant, PTL DEF Spec, StoreSpec

\* HEAD names a complete generation, with all that boots do around commits.
THEOREM BootKeepsHeadComplete == Spec => []HeadIsComplete
<1> QED
  BY BootsUseTheStore, HeadStaysComplete, PTL

\* A boot sees the store save and restore whole trees at once.
THEOREM BootSeesAtomicStore == Spec => StoreIsAtomic
<1> QED
  BY BootsUseTheStore, StoreRefinesSnapshot, PTL

-----------------------------------------------------------------------------
(* Scripts and client attempts are counted within their bounds: a boot      *)
(* begins with counts of zero, and its end resets them.                     *)

BootTypeOK ==
  /\ launch \in [Client -> Launch]
  /\ PcTypeOK
  /\ mode \in [Client -> {"cold", "warm"}]
  /\ script \in [Client -> 0 .. Scripts]
  /\ attempt \in [Client -> 0 .. MaxClientAttempts - 1]
  /\ lock \in Client \cup {None}
  /\ queue \in Seq(Client)
  /\ closes \in 0 .. MaxMishaps

CountsFitBoot ==
  \A c \in Client :
    /\ pc[c] \in {"closed", "queued", "lookup", "opening", "restoring", "checking"}
         => script[c] = 0
    /\ pc[c] = "installing" => script[c] < Scripts

LEMMA BootTypeInit == Init => BootTypeOK /\ CountsFitBoot
BY DEF Init, BootTypeOK, PcTypeOK, CountsFitBoot, Booting, Terminal, Launch

\* A boot that ends, or goes on with its counts as they are.
LEMMA SettleTypes ==
  ASSUME BootTypeOK, CountsFitBoot, NEW c \in Client,
         NEW p \in {"closed"} \cup Terminal, Settle(c, p),
         launch' = launch, queue' \in Seq(Client), closes' \in 0 .. MaxMishaps
  PROVE  BootTypeOK' /\ CountsFitBoot'
BY DEF Settle, Goto, ForgetLocals, BootTypeOK, PcTypeOK, CountsFitBoot,
       Booting, Terminal

LEMMA ContinueTypes ==
  ASSUME BootTypeOK, CountsFitBoot, NEW c \in Client,
         NEW p \in Booting \ {"lookup"}, Continue(c, p), UNCHANGED Others,
         p \in {"opening", "restoring", "checking", "installing"} => script[c] = 0
  PROVE  BootTypeOK' /\ CountsFitBoot'
<1>1. pc' = [pc EXCEPT ![c] = p] /\ UNCHANGED <<lock, mode, script, attempt>>
      /\ UNCHANGED <<launch, queue, closes>>
  BY DEF Continue, Goto, Others, locals
<1>2. BootTypeOK'
  BY <1>1 DEF BootTypeOK, PcTypeOK
<1> QED
  BY <1>1, <1>2 DEF CountsFitBoot, BootTypeOK, PcTypeOK, Booting

LEMMA StartTypes ==
  ASSUME BootTypeOK, CountsFitBoot, NEW c \in Client, Start(c) \/ GrantLock(c)
  PROVE  BootTypeOK' /\ CountsFitBoot'
<1>1. CASE Start(c)
  <2>1. queue' \in Seq(Client)
    <3>1. Append(queue, c) \in Seq(Client)
      BY AppendProperties DEF BootTypeOK
    <3> QED
      BY <1>1, <3>1 DEF Start, BootTypeOK
  <2> QED
    BY ZenonT(40), <1>1, <2>1
    DEF Start, Goto, locals, BootTypeOK, PcTypeOK, CountsFitBoot, Booting, Terminal
<1>2. CASE GrantLock(c)
  <2>1. queue' \in Seq(Client)
    BY <1>2 DEF GrantLock, BootTypeOK
  <2> QED
    BY <1>2, <2>1
    DEF GrantLock, Goto, locals, BootTypeOK, PcTypeOK, CountsFitBoot, Booting,
        Terminal
<1> QED
  BY <1>1, <1>2

LEMMA BootStepTypes ==
  ASSUME BootTypeOK, CountsFitBoot, NEW c \in Client, BootStep(c)
  PROVE  BootTypeOK' /\ CountsFitBoot'
<1>1. pc[c] \in {"lookup", "opening", "restoring", "checking"} => script[c] = 0
  BY DEF CountsFitBoot
<1>2. ASSUME FallBack(c), UNCHANGED Others, script[c] = 0
      PROVE  BootTypeOK' /\ CountsFitBoot'
  BY <1>2, SettleTypes, ContinueTypes
  DEF FallBack, InstallFrom, Others, Booting, Terminal, BootTypeOK
<1>3. CASE LookUpSnapshot(c) \/ LookUpFails(c) \/ OpenSnapshot(c)
  BY <1>1, <1>3, ContinueTypes
  DEF LookUpSnapshot, LookUpFails, OpenSnapshot, InstallFrom, Booting
<1>4. CASE EndRestore(c) \/ RefuseRestored(c)
  BY <1>1, <1>2, <1>4, ContinueTypes DEF EndRestore, RefuseRestored, Booting
<1>5. CASE RestoreWork(c) \/ SaveWork(c)
  BY <1>5
  DEF RestoreWork, SaveWork, bootVars, BootTypeOK, PcTypeOK, CountsFitBoot
<1>6. CASE CheckRestored(c)
  <2>1. CASE Kind(c) = "read"
    BY <1>6, <2>1, SettleTypes DEF CheckRestored, Others, Terminal, BootTypeOK
  <2>2. CASE Kind(c) # "read"
    BY ZenonT(40), <1>6, <2>2
    DEF CheckRestored, Goto, Others, BootTypeOK, PcTypeOK, CountsFitBoot,
        Booting, Terminal
  <2> QED
    BY <2>1, <2>2
<1>7. CASE RunLifecycleScript(c)
  <2>1. /\ pc[c] = "installing" /\ script[c] < Scripts
        /\ script' = [script EXCEPT ![c] = @ + 1]
        /\ UNCHANGED <<mode, attempt, lock, launch, queue, closes>>
    BY <1>7 DEF RunLifecycleScript, Others, CountsFitBoot
  <2>2. \/ script[c] + 1 < Scripts /\ pc' = pc
        \/ pc' = [pc EXCEPT ![c] = "inspecting"]
    BY <1>7 DEF RunLifecycleScript, Goto
  <2>3. script' \in [Client -> 0 .. Scripts]
    BY <2>1 DEF BootTypeOK
  <2>4. PcTypeOK'
    BY <2>2 DEF BootTypeOK, PcTypeOK, Booting
  <2>5. BootTypeOK'
    BY <2>1, <2>3, <2>4 DEF BootTypeOK
  <2> QED
    BY <2>1, <2>2, <2>5 DEF CountsFitBoot, BootTypeOK, PcTypeOK
<1>8. CASE \/ InspectOpenClawInstallState(c) \/ Configure(c) \/ BeginSave(c)
           \/ GatewayReady(c) \/ Prewarmed(c)
  BY <1>8, ContinueTypes
  DEF InspectOpenClawInstallState, Configure, BeginSave, GatewayReady, Prewarmed,
      Booting
<1>9. CASE EndSave(c) \/ SaveFails(c)
  BY <1>9, SettleTypes, ContinueTypes
  DEF EndSave, SaveFails, AfterSave, Others, Booting, Terminal, BootTypeOK
<1>10. CASE GatewayBlocked(c) \/ RpcBridgeReady(c) \/ ProbeThrows(c)
  BY <1>10, SettleTypes
  DEF GatewayBlocked, RpcBridgeReady, ProbeThrows, Others, Terminal, BootTypeOK
<1>11. CASE ClientAttempt(c)
  <2>1. CASE Settle(c, "passed") \/ Settle(c, "blocked")
    BY <1>11, <2>1, SettleTypes DEF ClientAttempt, Others, Terminal, BootTypeOK
  <2>2. CASE /\ attempt[c] + 1 < MaxClientAttempts
             /\ attempt' = [attempt EXCEPT ![c] = @ + 1]
             /\ UNCHANGED <<pc, lock, mode, script>>
    BY <1>11, <2>2
    DEF ClientAttempt, Others, BootTypeOK, PcTypeOK, CountsFitBoot
  <2> QED
    BY <1>11, <2>1, <2>2 DEF ClientAttempt, AttemptsLeft
<1> QED
  BY <1>3, <1>4, <1>5, <1>6, <1>7, <1>8, <1>9, <1>10, <1>11, StartTypes
  DEF BootStep

LEMMA BootTypesKept ==
  ASSUME StoreTypeOK, BootTypeOK, CountsFitBoot, [Next]_vars
  PROVE  BootTypeOK' /\ CountsFitBoot'
<1>1. ASSUME NEW c \in Client, Close(c)
      PROVE  BootTypeOK' /\ CountsFitBoot'
  <2>1. queue' \in Seq(Client)
    <3>1. ASSUME NEW i \in 1 .. Len(queue)
          PROVE  SubSeq(queue, 1, i - 1) \o SubSeq(queue, i + 1, Len(queue))
                   \in Seq(Client)
      <4>1. /\ Len(queue) \in Nat /\ i \in Int /\ i - 1 \in Int /\ i + 1 \in Int
            /\ \A j \in 1 .. Len(queue) : queue[j] \in Client
        BY ElementOfSeq, LenProperties DEF BootTypeOK
      <4>2. /\ \A j \in 1 .. i - 1 : queue[j] \in Client
            /\ \A j \in i + 1 .. Len(queue) : queue[j] \in Client
        BY <4>1
      <4>3. SubSeq(queue, 1, i - 1) \in Seq(Client)
        BY <4>1, <4>2, SubSeqProperties
      <4>4. SubSeq(queue, i + 1, Len(queue)) \in Seq(Client)
        BY <4>1, <4>2, SubSeqProperties
      <4> QED
        BY <4>3, <4>4, ConcatProperties
    <3> QED
      BY ZenonT(40), <1>1, <3>1 DEF Close, LeaveQueue, BootTypeOK
  <2>2. closes' \in 0 .. MaxMishaps
    BY <1>1 DEF Close, StoreTypeOK, BootTypeOK
  <2> QED
    BY <1>1, <2>1, <2>2, SettleTypes DEF Close
<1>2. CASE StorageEvent \/ \E c \in Client : GatewayWrites(c)
  BY <1>2
  DEF StorageEvent, GatewayWrites, bootVars, BootTypeOK, PcTypeOK, CountsFitBoot
<1>3. CASE UNCHANGED vars
  BY <1>3 DEF vars, bootVars, BootTypeOK, PcTypeOK, CountsFitBoot
<1> QED
  BY <1>1, <1>2, <1>3, StartTypes, BootStepTypes DEF Next

\* runProbe: its counters and the lock's queue keep their types; no install
\* runs a script too many, and no client attempt exceeds maxClientAttempts.
THEOREM BootTypeCorrect == Spec => []TypeOK
<1>1. BootInv => StoreTypeOK
  BY DEF BootInv, StoreInv
<1>2. StoreTypeOK /\ BootTypeOK => TypeOK
  BY DEF BootTypeOK, PcTypeOK, TypeOK
<1>3. (BootTypeOK /\ CountsFitBoot) /\ StoreTypeOK /\ [Next]_vars
        => (BootTypeOK /\ CountsFitBoot)'
  BY BootTypesKept
<1> QED
  BY <1>1, <1>2, <1>3, BootTypeInit, BootInvariant, PTL DEF Spec
=============================================================================
