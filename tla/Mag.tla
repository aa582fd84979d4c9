-------------------------------- MODULE Mag ---------------------------------
(***************************************************************************)
(* A mobile access gateway: Pmipv6Mag, its binding update list             *)
(* (binding-update-list.cc), and the tunnel, the routes and the router     *)
(* advertisements it keeps for each mobile node.  The network is open: any *)
(* update that was sent may be answered at any time, more than once, with  *)
(* any status and any lifetime of Lifetime.                                *)
(*                                                                         *)
(* Timers are flags.  A refresh timer is started together with the         *)
(* reachable timer and runs 0.9 of its time, so the reachable timer goes   *)
(* off only when the refresh timer has; the retransmission timer is free.  *)
(* Access technology, link identifier and link-local address are fixed per *)
(* node and only echoed; they are left out.  0 stands for index -1.        *)
(***************************************************************************)
EXTENDS TunnelOps, StaticRoutes, FiniteSets

CONSTANTS
    Mn,                 \* the mobile nodes with a profile
    LmaAddress,         \* the LMA the profile names for each of them
    ProfileHnp,         \* the prefixes the profile of a node names
    LmaHnp,             \* the prefixes the LMA answers for a node
    AccessIf,           \* the IPv6 interfaces towards the mobile nodes
    Lifetime,           \* the lifetimes, in seconds, an answer may carry
    None,
    MaxRetry,           \* MAX_BINDING_UPDATE_RETRY_COUNT
    MaxSeq, MaxTime     \* bounds: updates sent by this MAG, the clock

ASSUME MagAssumption ==
    /\ IsFiniteSet(Mn)
    /\ LmaAddress \in [Mn -> Addr]
    /\ ProfileHnp \in [Mn -> SUBSET Prefix]
    /\ LmaHnp \in [Mn -> SUBSET Prefix]
    /\ AccessIf \subseteq Nat \ {0} /\ Lifetime \subseteq Nat
    /\ {MaxRetry, MaxSeq, MaxTime} \subseteq Nat

\* A binding update: what of it the MAG decides.
PbuType == [mn : Mn, hnps : SUBSET Prefix, seq : Nat, time : Nat]

\* A BindingUpdateList::Entry.
EntryType ==
    [state : {"UNREACHABLE", "UPDATING", "REFRESHING", "REACHABLE"},
     hnps : SUBSET Prefix, ifIndex : Nat, tunnelIf : Nat, radvdIf : Nat,
     seq : Nat, time : Nat, packet : PbuType \cup {None}, retry : Nat,
     retransTimer : BOOLEAN, refreshTimer : BOOLEAN, reachableTimer : BOOLEAN]

ASSUME NoneAssumption == None \notin PbuType /\ None \notin EntryType

VARIABLES
    buList,        \* the entry of each mobile node, or None
    sequence,      \* m_sequence
    tunnelList,    \* m_tunnelList of the node's Ipv6TunnelL4Protocol
    routes,        \* per prefix the access interfaces of the routes to it
    sourceRoutes,  \* per prefix the tunnel interfaces of the routes from it
    radvd,         \* the configurations of the UnicastRadvd, oldest first
    nextId,        \* UnicastRadvdInterface::m_idGen
    now,           \* Simulator::Now
    sent           \* the updates handed to the network

netVars == <<tunnelList, routes, sourceRoutes, radvd, nextId>>
vars == <<buList, sequence, netVars, now, sent>>

Init ==
    /\ buList = [m \in Mn |-> None]
    /\ sequence = 0
    /\ tunnelList = <<>>
    /\ routes = [h \in Prefix |-> <<>>]
    /\ sourceRoutes = [h \in Prefix |-> <<>>]
    /\ radvd = <<>>
    /\ nextId = 1
    /\ now = 0
    /\ sent = {}

-----------------------------------------------------------------------------
\* The entry the constructor makes.
NewEntry ==
    [state |-> "UNREACHABLE", hnps |-> {}, ifIndex |-> 0, tunnelIf |-> 0,
     radvdIf |-> 0, seq |-> 0, time |-> 0, packet |-> None, retry |-> 0,
     retransTimer |-> FALSE, refreshTimer |-> FALSE, reachableTimer |-> FALSE]

\* HandleNewNode up to the search for the device: the entry, found or added,
\* with the prefixes of the profile if that names any.
AttachedEntry(m) ==
    LET e == IF buList[m] = None THEN NewEntry ELSE buList[m]
    IN  [e EXCEPT !.hnps = IF ProfileHnp[m] = {} THEN @ ELSE ProfileHnp[m]]

\* BuildPbu: no prefix at all is sent as the all-zero one.
BuildPbu(m, e) == [mn |-> m, hnps |-> e.hnps, seq |-> e.seq, time |-> e.time]

\* A new update under the next sequence number is built, kept for
\* retransmission and timed; the entry is marked state.
WithNewPbu(m, e, state) ==
    LET f == [e EXCEPT !.seq = sequence + 1, !.time = now]
    IN  [f EXCEPT !.packet = BuildPbu(m, f), !.retry = 0,
                  !.retransTimer = TRUE, !.state = state]

SendUpdate(m, e) ==
    /\ sequence < MaxSeq
    /\ sequence' = sequence + 1
    /\ buList' = [buList EXCEPT ![m] = e]
    /\ sent' = sent \cup {e.packet}

\* HandleNewNode: the node has attached to access interface i.
HandleNewNode(m, i) ==
    LET e == [AttachedEntry(m) EXCEPT !.ifIndex = i]
    IN  /\ SendUpdate(m, WithNewPbu(m, e, IF e.state = "REACHABLE"
                                          THEN "REFRESHING" ELSE "UPDATING"))
        /\ UNCHANGED <<netVars, now>>

\* HandleNewNode for an access point that is no device of this node or has no
\* IPv6 interface: it returns with the entry half filled in.
HandleNewNodeNoDevice(m) ==
    /\ buList' = [buList EXCEPT ![m] = AttachedEntry(m)]
    /\ UNCHANGED <<sequence, netVars, now, sent>>

\* FunctionRefreshTimeout.
RefreshTimeout(m) ==
    /\ buList[m] # None
    /\ buList[m].refreshTimer
    /\ SendUpdate(m, WithNewPbu(m, [buList[m] EXCEPT !.refreshTimer = FALSE],
                                "REFRESHING"))
    /\ UNCHANGED <<netVars, now>>

\* Slip: the count is reset with every transmission, not with every update.
RetransTimeoutResets(m) ==
    /\ buList[m] # None
    /\ buList[m].retransTimer
    /\ buList' = [buList EXCEPT ![m].retry = 0]
    /\ sent' = sent \cup {buList[m].packet}
    /\ UNCHANGED <<sequence, netVars, now>>

\* Slip: the count is compared before it is increased.
RetransTimeoutLate(m) ==
    LET giveUp == buList[m].retry > MaxRetry
    IN  /\ buList[m] # None
        /\ buList[m].retransTimer
        /\ buList' = [buList EXCEPT ![m].retry = @ + 1,
                                    ![m].retransTimer = ~giveUp]
        /\ sent' = IF giveUp THEN sent ELSE sent \cup {buList[m].packet}
        /\ UNCHANGED <<sequence, netVars, now>>

\* FunctionRetransTimeout: the kept packet is sent again, or given up.
RetransTimeout(m) ==
    LET giveUp == buList[m].retry + 1 > MaxRetry
    IN  /\ buList[m] # None
        /\ buList[m].retransTimer
        /\ buList' = [buList EXCEPT ![m].retry = @ + 1,
                                    ![m].retransTimer = ~giveUp]
        /\ sent' = IF giveUp THEN sent ELSE sent \cup {buList[m].packet}
        /\ UNCHANGED <<sequence, netVars, now>>

-----------------------------------------------------------------------------
\* SetupRadvdInterface and SetupTunnelAndRouting for node m with entry e.
SetupNetwork(m, e) ==
    LET d == AddTunnelIf(tunnelList, LmaAddress[m])
    IN  /\ radvd' = Append(radvd, [id |-> nextId, mn |-> m])
        /\ nextId' = nextId + 1
        /\ tunnelList' = AddTunnelList(tunnelList, LmaAddress[m])
        /\ routes' = [h \in Prefix |->
               IF h \in e.hnps THEN AddNetworkRoute(routes[h], e.ifIndex)
               ELSE routes[h]]
        /\ sourceRoutes' = [h \in Prefix |->
               IF h \in e.hnps THEN AddNetworkRoute(sourceRoutes[h], d)
               ELSE sourceRoutes[h]]

\* ClearRadvdInterface: RemoveConfiguration compares the interface index it
\* is given with the identifiers of the configurations, and removes the first.
ClearRadvdInterface(e) ==
    LET Matches(c) == c.id = e.radvdIf
    IN  /\ radvd' = RemoveFirstMatch(radvd, Matches)
        /\ UNCHANGED nextId

\* Slip: the reference is given back twice.
ClearTunnelAndRoutingTwice(m, e) ==
    /\ tunnelList' = RemoveTunnelList(RemoveTunnelList(tunnelList, LmaAddress[m]),
                                      LmaAddress[m])
    /\ UNCHANGED <<routes, sourceRoutes>>

ClearTunnelAndRouting(m, e) ==
    /\ tunnelList' = RemoveTunnelList(tunnelList, LmaAddress[m])
    /\ routes' = [h \in Prefix |->
           IF h \in e.hnps THEN RemoveRoute(routes[h], e.ifIndex, h)
           ELSE routes[h]]
    /\ sourceRoutes' = [h \in Prefix |->
           IF h \in e.hnps THEN RemoveRoute(sourceRoutes[h], e.tunnelIf, h)
           ELSE sourceRoutes[h]]

\* HandlePba takes answer a to be about its current update: the timestamp is
\* there, and both it and the sequence number match.
Current(a) ==
    /\ a.time # 0
    /\ buList[a.mn] # None
    /\ buList[a.mn].seq = a.seq /\ buList[a.mn].time = a.time

\* Slip: the packet is dropped, its retransmission timer left running.
AcceptedEntryKeepsRetrans(e, hnps) ==
    [e EXCEPT !.packet = None, !.hnps = hnps, !.state = "REACHABLE",
              !.refreshTimer = TRUE, !.reachableTimer = TRUE]

\* Slip: the prefixes of the answer are not taken over.
AcceptedEntryOwnPrefixes(e, hnps) ==
    [e EXCEPT !.packet = None, !.retransTimer = FALSE, !.state = "REACHABLE",
              !.refreshTimer = TRUE, !.reachableTimer = TRUE]

\* The entry once its update is accepted with a lifetime.
AcceptedEntry(e, hnps) ==
    [e EXCEPT !.packet = None, !.retransTimer = FALSE, !.hnps = hnps,
              !.state = "REACHABLE", !.refreshTimer = TRUE,
              !.reachableTimer = TRUE]

\* HandlePba, accepted: the network is set up unless this was a refresh.
HandlePbaAccepted(a, hnps, life) ==
    LET m == a.mn
        e == AcceptedEntry(buList[m], hnps)
    IN  /\ Current(a)
        /\ life > 0
        /\ IF buList[m].state = "UPDATING"
           THEN /\ SetupNetwork(m, e)
                /\ buList' = [buList EXCEPT ![m] =
                       [e EXCEPT !.tunnelIf = AddTunnelIf(tunnelList, LmaAddress[m]),
                                 !.radvdIf = e.ifIndex]]
           ELSE /\ UNCHANGED netVars
                /\ buList' = [buList EXCEPT ![m] = e]
        /\ UNCHANGED <<sequence, now, sent>>

\* HandlePba, accepted with lifetime 0: the binding is gone.
HandlePbaDeregistered(a, hnps, life) ==
    LET e == AcceptedEntry(buList[a.mn], hnps)
    IN  /\ Current(a)
        /\ life = 0
        /\ ClearRadvdInterface(e)
        /\ ClearTunnelAndRouting(a.mn, e)
        /\ buList' = [buList EXCEPT ![a.mn] = None]
        /\ UNCHANGED <<sequence, now, sent>>

\* HandlePba of an answer with status ACCEPTED to update a.
HandlePba(a, hnps, life) ==
    HandlePbaAccepted(a, hnps, life) \/ HandlePbaDeregistered(a, hnps, life)

\* Slip: the state is left to the next answer.
TimedOutUnmarked(e) ==
    [e EXCEPT !.reachableTimer = FALSE, !.tunnelIf = 0, !.radvdIf = 0]

\* The entry after FunctionReachableTimeout.
TimedOut(e) ==
    [e EXCEPT !.reachableTimer = FALSE, !.tunnelIf = 0, !.radvdIf = 0,
              !.state = IF @ = "REACHABLE" THEN "UNREACHABLE"
                        ELSE IF @ = "REFRESHING" THEN "UPDATING" ELSE @]

\* FunctionReachableTimeout: the network is cleared if it was set up.
ReachableTimeout(m) ==
    LET e == buList[m]
    IN  /\ e # None
        /\ e.reachableTimer /\ ~e.refreshTimer
        /\ IF e.radvdIf # 0 THEN ClearRadvdInterface(e)
           ELSE UNCHANGED <<radvd, nextId>>
        /\ IF e.tunnelIf # 0 THEN ClearTunnelAndRouting(m, e)
           ELSE UNCHANGED <<tunnelList, routes, sourceRoutes>>
        /\ buList' = [buList EXCEPT ![m] = TimedOut(e)]
        /\ UNCHANGED <<sequence, now, sent>>

Tick ==
    /\ now < MaxTime
    /\ now' = now + 1
    /\ UNCHANGED <<buList, sequence, netVars, sent>>

Next ==
    \/ \E m \in Mn :
          \/ \E i \in AccessIf : HandleNewNode(m, i)
          \/ HandleNewNodeNoDevice(m)
          \/ RefreshTimeout(m)
          \/ RetransTimeout(m)
          \/ ReachableTimeout(m)
    \/ \E p \in sent, life \in Lifetime : HandlePba(p, LmaHnp[p.mn], life)
    \/ Tick

Spec == Init /\ [][Next]_vars

\* The simulator runs every scheduled event.
FairSpec == Spec /\ \A m \in Mn : WF_vars(RetransTimeout(m))

-----------------------------------------------------------------------------
TypeOK ==
    /\ buList \in [Mn -> EntryType \cup {None}]
    /\ \A m \in Mn : buList[m] # None => buList[m].retry <= MaxRetry + 1
    /\ sequence \in 0 .. MaxSeq
    /\ tunnelList \in Seq(Device)
    /\ routes \in [Prefix -> Seq(Nat)]
    /\ sourceRoutes \in [Prefix -> Seq(Nat)]
    /\ radvd \in Seq([id : Nat, mn : Mn])
    /\ nextId \in Nat
    /\ now \in 0 .. MaxTime
    /\ sent \subseteq PbuType

Entries == {m \in Mn : buList[m] # None}
Bound   == {m \in Entries : buList[m].tunnelIf # 0}

\* The retransmission timer never runs without a packet to send again, and
\* what it sends is the update whose answer HandlePba would take.
RetransmitsCurrent ==
    \A m \in Entries :
        LET e == buList[m]
        IN  /\ e.retransTimer => e.packet # None
            /\ e.packet # None =>
                  /\ e.packet \in sent
                  /\ e.packet.seq = e.seq /\ e.packet.time = e.time

\* A node has its tunnel exactly while the reachable timer runs that will
\* clear it; it is REACHABLE only while a refresh is due, and REACHABLE or
\* REFRESHING only with a tunnel, so no answer finds one without it.
TimersGuardBinding ==
    \A m \in Entries :
        LET e == buList[m]
        IN  /\ e.reachableTimer <=> e.tunnelIf # 0
            /\ e.refreshTimer => e.reachableTimer
            /\ e.state = "REACHABLE" => e.refreshTimer /\ ~e.retransTimer
            /\ e.state = "REFRESHING" => e.tunnelIf # 0

\* The tunnel of a node leads to its LMA, and no reference to a device is
\* lost: it counts at least the nodes that use it besides its construction.
TunnelLeadsToLma ==
    /\ \A m \in Bound : /\ buList[m].tunnelIf \in DOMAIN tunnelList
                        /\ tunnelList[buList[m].tunnelIf].remote = LmaAddress[m]
    /\ \A d \in DOMAIN tunnelList :
          tunnelList[d].ref >
              Cardinality({m \in Bound : buList[m].tunnelIf = d})

\* Packets to the prefixes of a bound node leave by its access interface,
\* packets from them by its tunnel (for nodes that attach at one interface).
PrefixRouted ==
    \A m \in Bound : \A h \in buList[m].hnps :
        /\ routes[h] # <<>> /\ LookupStatic(routes[h]) = buList[m].ifIndex
        /\ sourceRoutes[h] # <<>>
        /\ LookupStatic(sourceRoutes[h]) = buList[m].tunnelIf

\* Once a node stops moving, an unanswered update is given up.
RetransEnds ==
    \A m \in Mn : (m \in Entries /\ buList[m].retransTimer)
                      ~> (m \in Entries => ~buList[m].retransTimer)

\* ClearRadvdInterface asks RemoveConfiguration (int32_t ifIndex) to end the
\* advertisements for a node: none are left without a binding.
TimeoutEndsAdvertisement ==
    \A m \in Entries \ Bound : \A k \in DOMAIN radvd : radvd[k].mn # m
=============================================================================
