------------------------------- MODULE MCPmip6 ------------------------------
(***************************************************************************)
(* Two nodes and two MAGs.  The first node has its prefix from the pool,   *)
(* and a radio of its own for each MAG; the second has it from its profile.*)
(***************************************************************************)
EXTENDS Pmip6, TLC

CONSTANTS n1, n2, l1, l2, h1, h2

\* The answer of the last step is read by no action (it is in pbas once sent) and
\* by no property here: states that differ in it alone are one state.
MCView ==
    <<bces, profileHnp, poolIndex, lmaTunnels, lmaRoutes, aborted,
      magVars1, magVars2, now, nextId, notes, pbas>>

MCProfileHnp == (n1 :> {}) @@ (n2 :> {h2})
MCPool == 0 :> h1
MCCover == (n1 :> {mag1, mag2}) @@ (n2 :> {mag2})
MCLinkOf == (n1 :> l1) @@ (n2 :> l2)
MCAtt ==
    (n1 :> ((mag1 :> "IEEE_802_11ABG") @@ (mag2 :> "IEEE_802_16E")))
    @@ (n2 :> ((mag1 :> "IEEE_802_11ABG") @@ (mag2 :> "IEEE_802_11ABG")))
=============================================================================
