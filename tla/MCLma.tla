------------------------------- MODULE MCLma --------------------------------
(***************************************************************************)
(* Instances of Lma.  Each run takes the updates of one slice of the input *)
(* space: MCMobility, updates of two nodes with and without handoff hints, *)
(* some of which name prefixes; MCOpen, one node, also deregistrations.    *)
(* An update that comes before its timestamp stands for those refused.     *)
(***************************************************************************)
EXTENDS Lma

CONSTANTS m1, m2, n1, n2, n3, l1, l2, h0, h1, h2

Update(src, mn, hnps, hi, link, life, time) ==
    [src |-> src, mn |-> mn, hnps |-> hnps, hi |-> hi, att |-> "IEEE_802_11ABG",
     link |-> link, life |-> life, time |-> time, seq |-> time]

MCUnassigned == (n1 :> {}) @@ (n2 :> {})
MCAssigned == (n1 :> {h0, h1}) @@ (n2 :> {})
MCPool == (0 :> h1) @@ (1 :> h2)

\* Two nodes move between two MAGs, one of them with two interfaces; updates of
\* the other also name a prefix of the pool, or two of which one at most is its own.
MCMobility ==
    {Update(s, n1, {ZeroPrefix}, hi, l, 1, 1) :
        s \in {m1, m2}, hi \in {"UNKNOWN", "BETWEEN_MAGS"}, l \in {l1, l2}}
    \cup {Update(s, n2, {ZeroPrefix}, "UNKNOWN", NoLink, 1, 1) :
             s \in {m1, m2}}
    \cup {Update(m2, n2, hs, "UNKNOWN", NoLink, 1, 1) :
             hs \in {{h2}, {h1, h2}}}

\* One node with two prefixes of its own, at two links; deregistrations.
MCOpen ==
    {Update(s, n1, {ZeroPrefix}, "UNKNOWN", l1, life, 1) :
        s \in {m1, m2}, life \in {0, 1}}
    \cup {Update(m2, n1, {ZeroPrefix}, hi, l2, 1, 1) :
             hi \in {"UNKNOWN", "ATTACH"}}
=============================================================================
