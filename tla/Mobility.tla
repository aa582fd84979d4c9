------------------------------ MODULE Mobility ------------------------------
(***************************************************************************)
(* What Proxy Mobile IPv6 promises the mobile nodes, whatever messages are *)
(* lost, repeated or overtaken: a node gets its home network prefixes once,*)
(* when it is first registered, shares them with no other node and keeps   *)
(* them; packets for them leave the LMA towards one MAG, one the node has  *)
(* been attached to; and they all move there in one step.                  *)
(***************************************************************************)
CONSTANTS
    Mn, Mag,      \* the mobile nodes and the access gateways
    Prefix,       \* the home network prefixes
    Reserved,     \* the prefixes a node has from the start
    None          \* packets are not forwarded

VARIABLES
    visited,      \* the pairs of a node and a MAG it has attached to
    prefixes,     \* the home network prefixes of each node
    exit          \* the MAG to which the packets of each prefix are sent

vars == <<visited, prefixes, exit>>

Init ==
    /\ visited = {}
    /\ prefixes = Reserved
    /\ exit = [h \in Prefix |-> None]

Attach(n, k) ==
    /\ visited' = visited \cup {<<n, k>>}
    /\ UNCHANGED <<prefixes, exit>>

\* Prefixes node n may have once it is registered.
Assignable(n) ==
    IF prefixes[n] # {} THEN {prefixes[n]}
    ELSE {{h} : h \in Prefix \ UNION {prefixes[o] : o \in Mn}}

Register(n, k) ==
    /\ <<n, k>> \in visited
    /\ \E hs \in Assignable(n) :
          /\ prefixes' = [prefixes EXCEPT ![n] = hs]
          /\ exit' = [h \in Prefix |-> IF h \in hs THEN k ELSE exit[h]]
    /\ UNCHANGED visited

Next == \E n \in Mn, k \in Mag : Attach(n, k) \/ Register(n, k)

Spec == Init /\ [][Next]_vars
=============================================================================
