-------------------------- MODULE MCSessionHistory --------------------------
(***************************************************************************)
(* SessionHistory for TLC.                                                 *)
(***************************************************************************)
EXTENDS SessionHistory

=============================================================================
