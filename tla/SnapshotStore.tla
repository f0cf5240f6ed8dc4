--------------------------- MODULE SnapshotStore ---------------------------
(***************************************************************************)
(* What src/opfs-directory-store.ts promises: one saved tree.  A save       *)
(* replaces it by the client's whole tree in one step, a load delivers a    *)
(* tree that was saved, whole, or fails; and the browser may throw the      *)
(* store away.  Clients change their own trees as they like.                *)
(***************************************************************************)
CONSTANTS
  Client,
  Tree,      \* the contents a client's directory can have
  None

VARIABLES
  snapshot,  \* the saved tree, or None
  tree,      \* each client's directory
  reading,   \* the tree a load has begun to deliver, or None
  delivered  \* the tree a load delivered, until its client changes it

storeVars == <<snapshot, tree, reading, delivered>>

Init ==
  /\ snapshot = None
  /\ tree \in [Client -> Tree]
  /\ reading = [c \in Client |-> None]
  /\ delivered = [c \in Client |-> None]

Save(c) == snapshot' = tree[c] /\ UNCHANGED <<reading, delivered>>

Lose == snapshot' = None /\ UNCHANGED <<reading, delivered>>

BeginLoad(c) ==
  /\ snapshot # None
  /\ reading' = [reading EXCEPT ![c] = snapshot]
  /\ UNCHANGED <<snapshot, delivered>>

EndLoad(c) ==
  /\ reading[c] # None
  /\ delivered' = [delivered EXCEPT ![c] = reading[c]]
  /\ reading' = [reading EXCEPT ![c] = None]
  /\ UNCHANGED snapshot

GiveUp(c) ==
  /\ reading' = [reading EXCEPT ![c] = None]
  /\ delivered' \in {delivered, [delivered EXCEPT ![c] = None]}
  /\ UNCHANGED snapshot

Change(c) ==
  /\ delivered' = [delivered EXCEPT ![c] = None]
  /\ UNCHANGED <<snapshot, reading>>

WorkOnTree == UNCHANGED <<snapshot, reading, delivered>>

Next ==
  /\ tree' \in [Client -> Tree]
  /\ \/ Lose \/ WorkOnTree
     \/ \E c \in Client : \/ Save(c) \/ Change(c)
                         \/ BeginLoad(c) \/ EndLoad(c) \/ GiveUp(c)

Spec == Init /\ [][Next]_storeVars
=============================================================================
