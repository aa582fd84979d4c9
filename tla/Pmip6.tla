------------------------------- MODULE Pmip6 --------------------------------
(***************************************************************************)
(* The protocol as a whole: one LMA and two MAGs over a network that may   *)
(* lose, repeat, delay and reorder every message, mobile nodes that attach *)
(* where they like, and access points that report them to their MAG by a   *)
(* notification (pmipv6-mag-notifier.cc).                                  *)
(*                                                                         *)
(* What was sent stays in the network; a message that is lost is never     *)
(* taken from it.  All events are run by one simulator, so there is one    *)
(* clock, and the identifiers of advertisements are counted over all MAGs. *)
(***************************************************************************)
EXTENDS Integers, Sequences, FiniteSets

CONSTANTS
    Addr, Zero, Prefix, ZeroPrefix, Mn, NoMn, Link, NoLink, None,
    ProfileHnp,             \* the prefixes the profile names for each node
    PoolSize, PoolPrefix,   \* the prefix pool of the LMA
    lma, mag1, mag2,        \* the addresses of the agents
    Cover,                  \* the MAGs each node can come to
    linkOf,                 \* the link-layer identifier of each node
    Att,                    \* the access technology of each node at each MAG
    AccessIf,               \* the access interfaces of a MAG
    Life,                   \* the lifetime every update asks for
    MaxRetry,               \* MAX_BINDING_UPDATE_RETRY_COUNT
    MaxBce, MaxTime,        \* bounds: bindings, the clock,
    MaxSeq1, MaxSeq2        \* the updates each MAG sends

VARIABLES
    bces, profileHnp, poolIndex, lmaTunnels, lmaRoutes, out, aborted,  \* the LMA
    buList1, sequence1, tunnels1, routes1, sourceRoutes1, radvd1, sent1,
    buList2, sequence2, tunnels2, routes2, sourceRoutes2, radvd2, sent2,
    now, nextId,            \* Simulator::Now, UnicastRadvdInterface::m_idGen
    notes,                  \* the notifications sent: pairs of node and MAG
    pbas                    \* the acknowledgements sent

lmaVars  == <<bces, profileHnp, poolIndex, lmaTunnels, lmaRoutes, out, aborted>>
magVars1 == <<buList1, sequence1, tunnels1, routes1, sourceRoutes1, radvd1, sent1>>
magVars2 == <<buList2, sequence2, tunnels2, routes2, sourceRoutes2, radvd2, sent2>>
vars == <<lmaVars, magVars1, magVars2, now, nextId, notes, pbas>>

\* The updates the MAGs may send, as they reach the LMA.
Updates ==
    [src : {mag1, mag2}, mn : Mn, hnps : SUBSET (Prefix \cup {ZeroPrefix}),
     hi : {"UNKNOWN"}, att : {Att[n][k] : n \in Mn, k \in {mag1, mag2}},
     link : {linkOf[n] : n \in Mn}, life : {Life}, time : Nat, seq : Nat]

L == INSTANCE Lma WITH
        Profiled <- Mn, Pbu <- Updates, MaxRef <- 0,
        tunnelList <- lmaTunnels, routes <- lmaRoutes

M1 == INSTANCE Mag WITH
        LmaAddress <- [n \in Mn |-> lma], LmaHnp <- ProfileHnp,
        Lifetime <- {Life}, MaxSeq <- MaxSeq1, buList <- buList1, sequence <- sequence1,
        tunnelList <- tunnels1, routes <- routes1,
        sourceRoutes <- sourceRoutes1, radvd <- radvd1, sent <- sent1

M2 == INSTANCE Mag WITH
        LmaAddress <- [n \in Mn |-> lma], LmaHnp <- ProfileHnp,
        Lifetime <- {Life}, MaxSeq <- MaxSeq2, buList <- buList2, sequence <- sequence2,
        tunnelList <- tunnels2, routes <- routes2,
        sourceRoutes <- sourceRoutes2, radvd <- radvd2, sent <- sent2

ASSUME AgentAssumption ==
    /\ {lma, mag1, mag2} \subseteq Addr /\ Zero \notin Addr /\ None \notin Addr
    /\ AccessIf \subseteq Nat \ {0}
ASSUME NodeAssumption ==
    /\ IsFiniteSet(Mn) /\ NoMn \notin Mn
    /\ linkOf \in [Mn -> Link]
    /\ Att \in [Mn -> [{mag1, mag2} -> L!AccessTechnology]]
ASSUME PrefixAssumption ==
    /\ ZeroPrefix \notin Prefix /\ ProfileHnp \in [Mn -> SUBSET Prefix]
    /\ PoolSize \in Nat \ {0} /\ PoolPrefix \in [0 .. PoolSize - 1 -> Prefix]
ASSUME BoundAssumption ==
    /\ Life \in Nat \ {0}
    /\ {MaxRetry, MaxBce, MaxTime, MaxSeq1, MaxSeq2} \subseteq Nat
ASSUME NoneAssumption ==
    /\ None \notin L!TentativeType
    /\ None \notin M1!PbuType /\ None \notin M1!EntryType

Init ==
    /\ L!Init /\ M1!Init /\ M2!Init
    /\ notes = {} /\ pbas = {}

-----------------------------------------------------------------------------
\* A node associates with an access point of MAG k, which sends a notification
\* once and keeps nothing of it.  The exchange of frames before it takes time.
Attach(n, k) ==
    /\ now > 0 /\ k \in Cover[n]
    /\ <<n, k>> \notin notes
    /\ notes' = notes \cup {<<n, k>>}
    /\ out' = None
    /\ UNCHANGED <<bces, profileHnp, poolIndex, lmaTunnels, lmaRoutes, aborted,
                   magVars1, magVars2, now, nextId, pbas>>

\* Update p of MAG k as it reaches the LMA: BuildPbu asks for the prefixes the
\* entry has, or for any; it never hints at the kind of handoff.
Received(p, k) ==
    [src |-> k, mn |-> p.mn,
     hnps |-> IF p.hnps = {} THEN {ZeroPrefix} ELSE p.hnps,
     hi |-> "UNKNOWN", att |-> Att[p.mn][k], link |-> linkOf[p.mn],
     life |-> Life, time |-> p.time, seq |-> p.seq]

\* The LMA handles an update or lets a timer expire; its answer is sent.
LmaStep ==
    /\ \/ \E p \in sent1 : L!HandlePbu(Received(p, mag1))
       \/ \E p \in sent2 : L!HandlePbu(Received(p, mag2))
       \/ \E i \in DOMAIN bces : L!RegisterTimeout(i)
    /\ pbas' = IF out' = None THEN pbas ELSE pbas \cup {out'}
    /\ UNCHANGED <<magVars1, magVars2, nextId, notes>>

\* Notifications that arrive, answers that arrive and timers at either MAG.
MagStep1 ==
    /\ \/ \E n \in Mn, i \in AccessIf :
              <<n, mag1>> \in notes /\ M1!HandleNewNode(n, i)
       \/ \E n \in Mn :
              \/ M1!RefreshTimeout(n)
              \/ M1!RetransTimeout(n)
              \/ M1!ReachableTimeout(n)
       \/ \E a \in pbas : /\ a.dst = mag1 /\ a.status = "ACCEPTED"
                          /\ M1!HandlePba(a, a.hnps, a.life)
    /\ out' = None
    /\ UNCHANGED <<bces, profileHnp, poolIndex, lmaTunnels, lmaRoutes, aborted,
                   magVars2, notes, pbas>>

MagStep2 ==
    /\ \/ \E n \in Mn, i \in AccessIf :
              <<n, mag2>> \in notes /\ M2!HandleNewNode(n, i)
       \/ \E n \in Mn :
              \/ M2!RefreshTimeout(n)
              \/ M2!RetransTimeout(n)
              \/ M2!ReachableTimeout(n)
       \/ \E a \in pbas : /\ a.dst = mag2 /\ a.status = "ACCEPTED"
                          /\ M2!HandlePba(a, a.hnps, a.life)
    /\ out' = None
    /\ UNCHANGED <<bces, profileHnp, poolIndex, lmaTunnels, lmaRoutes, aborted,
                   magVars1, notes, pbas>>

Tick ==
    /\ L!Tick
    /\ UNCHANGED <<magVars1, magVars2, nextId, notes, pbas>>

Next ==
    \/ \E n \in Mn, k \in {mag1, mag2} : Attach(n, k)
    \/ LmaStep \/ MagStep1 \/ MagStep2 \/ Tick

Spec == Init /\ [][Next]_vars

-----------------------------------------------------------------------------
\* Where the LMA sends a packet for prefix h.
ExitOf(h) ==
    IF lmaRoutes[h] = <<>> THEN None
    ELSE lmaTunnels[L!LookupStatic(lmaRoutes[h])].remote

\* The promise of the protocol, read off the tables packets are sent by.
Mob == INSTANCE Mobility WITH
          Mag <- {mag1, mag2}, Reserved <- ProfileHnp, visited <- notes,
          prefixes <- profileHnp, exit <- [h \in Prefix |-> ExitOf(h)]

\* LMA, MAGs and network together keep the promise of Mobility: whatever is
\* lost, repeated and overtaken, packets for a node leave for a MAG it was
\* attached to, all its prefixes move at once, and no other node's do.
KeepsPromise == Mob!Spec

\* LMA and MAGs agree on the prefixes of a node: a MAG names none, or those the
\* LMA has assigned.
PrefixAgreement ==
    \A n \in Mn :
        /\ buList1[n] # None => buList1[n].hnps \in {{}, profileHnp[n]}
        /\ buList2[n] # None => buList2[n].hnps \in {{}, profileHnp[n]}
        /\ n \in M1!Bound => buList1[n].hnps # {}
        /\ n \in M2!Bound => buList2[n].hnps # {}

\* A MAG that routes for a node knows of an LMA that does: packets for its
\* prefixes are sent to some MAG, and packets from them reach the LMA.
ServedEndToEnd ==
    /\ \A n \in M1!Bound : \A h \in buList1[n].hnps : ExitOf(h) # None
    /\ \A n \in M2!Bound : \A h \in buList2[n].hnps : ExitOf(h) # None
    /\ M1!TunnelLeadsToLma /\ M2!TunnelLeadsToLma
    /\ M1!PrefixRouted /\ M2!PrefixRouted
=============================================================================
