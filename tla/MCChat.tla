------------------------------- MODULE MCChat -------------------------------
(***************************************************************************)
(* An instance of Chat for TLC.                                            *)
(***************************************************************************)
EXTENDS Chat

CONSTANTS r1, r2

=============================================================================
