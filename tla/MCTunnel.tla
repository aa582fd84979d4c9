------------------------------ MODULE MCTunnel ------------------------------
(***************************************************************************)
(* Tunnel with three clients and three remotes.                            *)
(***************************************************************************)
EXTENDS Tunnel
=============================================================================
