------------------------------ MODULE MCRakPeer ------------------------------
(***************************************************************************)
(* An instance of RakPeer for TLC.                                         *)
(***************************************************************************)
EXTENDS RakPeer

CONSTANTS t1, t2

=============================================================================
