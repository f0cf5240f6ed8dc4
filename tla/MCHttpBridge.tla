---------------------------- MODULE MCHttpBridge ----------------------------
(***************************************************************************)
(* Two granted calls and one that is refused.                               *)
(***************************************************************************)
EXTENDS HttpBridge

CONSTANTS c1, c2, wrong
=============================================================================
