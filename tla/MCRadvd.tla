------------------------------ MODULE MCRadvd -------------------------------
(***************************************************************************)
(* Instances of Radvd: three configurations, interface indices that are    *)
(* and are not the identifier of one.                                      *)
(***************************************************************************)
EXTENDS Radvd
=============================================================================
