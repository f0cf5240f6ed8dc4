-------------------------- MODULE MCGatewayConfig --------------------------
(***************************************************************************)
(* A capability is attached, its configuration asked for twice, as a tab    *)
(* that retries or a second tab does, and the Wizard called in between.     *)
(***************************************************************************)
EXTENDS GatewayConfig, TLC

CONSTANTS attach, configure, again, wizard, k

Attached == attach :> k

\* The two configurations are alike: "again" is the one asked for second.
Bounded == again \in asked' => configure \in asked'
BoundedSpec == Init /\ [][Next /\ Bounded]_vars /\ Fairness
=============================================================================
