--------------------------- MODULE MCGatewayBoot ---------------------------
(***************************************************************************)
(* Two documents of one origin: two tabs that boot under the lock, two that *)
(* have none to boot under, a tab beside a proof that restores its store,   *)
(* and the two phases of the persistence probe.                             *)
(***************************************************************************)
EXTENDS GatewayBoot, TLC

CONSTANTS d1, d2, db, app, config, i1, i2

Ranks == config :> 1 @@ db :> 2 @@ app :> 3

InstallOf == d1 :> {i1} @@ d2 :> {i2}

Document(kind, locks) == [kind |-> kind, lock |-> locks]
Pairs ==
  {d1 :> Document("automatic", b) @@ d2 :> Document("automatic", b) :
     b \in BOOLEAN}
  \cup {d1 :> Document("automatic", FALSE) @@ d2 :> Document("restore", FALSE),
        d1 :> Document("write", FALSE) @@ d2 :> Document("read", FALSE)}
=============================================================================
