---------------------------- MODULE MCOnboarding ----------------------------
(***************************************************************************)
(* A Wizard that asks for the credential, shows the channel primer and      *)
(* offers the channels before a last question.                              *)
(***************************************************************************)
EXTENDS Onboarding

CONSTANTS f1, f2

MCScript == <<"auth", "primer", "channels", "other">>
=============================================================================
