------------------------------- MODULE MCMag --------------------------------
(***************************************************************************)
(* Instances of Mag: two nodes of one LMA, the prefix of one of them known *)
(* from its profile, that of the other only to the LMA.                    *)
(***************************************************************************)
EXTENDS Mag

CONSTANTS n1, n2, h1, h2, lma

MCLmaAddress == (n1 :> lma) @@ (n2 :> lma)
MCProfileHnp == (n1 :> {h1}) @@ (n2 :> {})
MCLmaHnp     == (n1 :> {h1}) @@ (n2 :> {h2})
=============================================================================
