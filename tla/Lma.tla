-------------------------------- MODULE Lma ---------------------------------
(***************************************************************************)
(* The local mobility anchor: Pmipv6Lma::HandlePbu, its binding cache      *)
(* (binding-cache.cc) and the tunnels and routes it keeps for the bindings *)
(* (pmipv6-lma.cc).  The network is open: any proxy binding update of Pbu  *)
(* may arrive at any time, again and again and in any order.               *)
(*                                                                         *)
(* bces holds the binding cache entries in the order they were made; the   *)
(* list of one mobile node has the newest first, so a lookup answers the   *)
(* newest entry that matches.  Entries are never removed (nothing calls    *)
(* BindingCache::Remove).  A timer is a flag: it may fire at any time after*)
(* it was started.  The reachable timer is left out, its handler is empty; *)
(* so is the MAG link address, which is only echoed.  The list of prefixes *)
(* of an entry is a set.                                                   *)
(***************************************************************************)
EXTENDS TunnelOps, StaticRoutes, FiniteSets

CONSTANTS
    Mn, NoMn,             \* MN identifiers; the empty one
    Link, NoLink,         \* MN link-layer identifiers; the empty one
    Profiled,             \* the MNs the policy profile of this LMA knows
    ProfileHnp,           \* the prefixes it reserves for each of them
    PoolSize, PoolPrefix, \* how many prefixes the pool has, and which
    Pbu,                  \* the binding updates that may arrive
    None,                 \* no tentative entry, no answer
    MaxBce, MaxTime,      \* bounds: binding cache entries, the clock,
    MaxRef                \* devices and their references at a deregistration

HandoffIndicator ==
    {"RESERVED", "ATTACH", "BETWEEN_INTERFACES", "BETWEEN_MAGS", "UNKNOWN",
     "NOT_CHANGED"}

AccessTechnology ==
    {"RESERVED", "VIRTUAL", "PPP", "IEEE_802_3", "IEEE_802_11ABG",
     "IEEE_802_16E"}

\* The fields HandlePbu reads from the header and the option bundle.
PbuType ==
    [src : Addr, mn : Mn \cup {NoMn}, hnps : SUBSET (Prefix \cup {ZeroPrefix}),
     hi : HandoffIndicator, att : AccessTechnology, link : Link \cup {NoLink},
     life : Nat, time : Nat, seq : Nat]

ASSUME PbuAssumption == Pbu \subseteq PbuType
ASSUME ProfileAssumption ==
    /\ Profiled \subseteq Mn /\ NoMn \notin Mn
    /\ ProfileHnp \in [Profiled -> SUBSET Prefix]
ASSUME PoolAssumption ==
    PoolSize \in Nat \ {0} /\ PoolPrefix \in [0 .. PoolSize - 1 -> Prefix]
ASSUME BoundAssumption == {MaxBce, MaxTime, MaxRef} \subseteq Nat

\* The part of a tentative entry DoDelayedRegistration reads.
TentativeType ==
    [src : Addr, hi : HandoffIndicator, att : AccessTechnology, life : Nat,
     time : Nat, seq : Nat]

ASSUME NoneAssumption == None \notin TentativeType

\* A BindingCache::Entry.
BceType ==
    [mn : Mn, link : Link \cup {NoLink}, att : AccessTechnology,
     hi : HandoffIndicator, hnps : SUBSET Prefix, coa : Addr, tunnelIf : Nat,
     time : Nat, life : Nat, seq : Nat,
     state : {"REACHABLE", "REGISTERING", "DEREGISTERING"},
     tentative : TentativeType \cup {None}, registerTimer : BOOLEAN,
     deregisterTimer : BOOLEAN]

VARIABLES
    bces,         \* the binding cache, oldest entry first
    profileHnp,   \* the home network prefixes of each profile entry
    poolIndex,    \* m_lastPrefixIndex of the prefix pool
    tunnelList,   \* m_tunnelList of the node's Ipv6TunnelL4Protocol
    routes,       \* per prefix the tunnel interfaces of its routes, in table order
    now,          \* Simulator::Now
    out,          \* the binding acknowledgement the last step sent, or None
    aborted       \* an NS_ASSERT failed and the program ended

vars == <<bces, profileHnp, poolIndex, tunnelList, routes, now, out, aborted>>

Init ==
    /\ bces = <<>>
    /\ profileHnp = ProfileHnp
    /\ poolIndex = 0
    /\ tunnelList = <<>>
    /\ routes = [h \in Prefix |-> <<>>]
    /\ now = 0
    /\ out = None
    /\ aborted = FALSE

-----------------------------------------------------------------------------
\* The checks of HandlePbu, first failure first.
Status(p) ==
    IF p.mn = NoMn THEN "MISSING_MN_IDENTIFIER"
    ELSE IF p.mn \notin Profiled THEN "NOT_LMA_FOR_THIS_MN"
    ELSE IF p.time # 0 /\ p.time > now THEN "TIMESTAMP_MISMATCH"
    ELSE IF p.hnps = {} THEN "MISSING_HNP"
    ELSE IF p.hi = "RESERVED" THEN "MISSING_HANDOFF_INDICATOR"
    ELSE IF p.att = "RESERVED" THEN "MISSING_ACCESS_TECH"
    ELSE "ACCEPTED"

\* The non-zero prefixes of the update.
HnpList(p) == p.hnps \ {ZeroPrefix}

\* The newest of a set of entries, 0 if there is none.
Newest(S) == IF S = {} THEN 0 ELSE CHOOSE i \in S : \A j \in S : j <= i

\* The three BindingCache::Lookup.  The one by prefixes also answers an entry
\* that matches only in part, which HandlePbu then treats like none.
LookupMn(m) == Newest({i \in DOMAIN bces : bces[i].mn = m})

LookupLink(m, att, l) ==
    Newest({i \in DOMAIN bces :
               bces[i].mn = m /\ bces[i].att = att /\ bces[i].link = l})

LookupHnp(m, hnps) ==
    Newest({i \in DOMAIN bces : bces[i].mn = m /\ hnps \subseteq bces[i].hnps})

\* The binding cache entry existence test: the entry p is about, or 0.
Existing(p) ==
    IF HnpList(p) # {} THEN LookupHnp(p.mn, HnpList(p))
    ELSE IF p.link = NoLink THEN LookupMn(p.mn)
    ELSE IF LookupLink(p.mn, p.att, p.link) # 0
         THEN LookupLink(p.mn, p.att, p.link)
    ELSE IF p.hi \in {"BETWEEN_INTERFACES", "UNKNOWN"} THEN LookupMn(p.mn)
    ELSE 0

\* delayedRegister: the entry was found by the MN identifier alone.
DelayedRegister(p) ==
    /\ HnpList(p) = {}
    /\ \/ p.link = NoLink
       \/ p.hi = "UNKNOWN" /\ LookupLink(p.mn, p.att, p.link) = 0

-----------------------------------------------------------------------------
\* BuildPba from an entry, and from the update itself (its lifetime stays 0).
PbaOfBce(b, dst) ==
    [dst |-> dst, status |-> "ACCEPTED", mn |-> b.mn, hnps |-> b.hnps,
     hi |-> b.hi, att |-> b.att, link |-> b.link, life |-> b.life,
     time |-> b.time, seq |-> b.seq]

PbaOfPbu(p, status) ==
    [dst |-> p.src, status |-> status, mn |-> p.mn, hnps |-> p.hnps,
     hi |-> p.hi, att |-> p.att, link |-> p.link, life |-> 0,
     time |-> p.time, seq |-> p.seq]

\* What DoDelayedRegistration takes over from the tentative entry; the link
\* identifier and the prefixes stay.
LateUpdated(b, p) ==
    [b EXCEPT !.coa = p.src, !.att = p.att, !.hi = p.hi, !.time = p.time,
              !.life = p.life, !.seq = p.seq, !.state = "REACHABLE"]

\* What HandlePbu writes to an entry it updates.
Updated(b, p) == [LateUpdated(b, p) EXCEPT !.link = p.link]

\* Slip: no route through the new tunnel is added.
MovedRoutesDropped(hnps, old, new) ==
    [h \in Prefix |->
        IF h \in hnps THEN RemoveRoute(routes[h], old, h) ELSE routes[h]]

\* The routes to the prefixes hnps, moved from interface old to new.
MovedRoutes(hnps, old, new) ==
    [h \in Prefix |->
        IF h \in hnps THEN AddNetworkRoute(RemoveRoute(routes[h], old, h), new)
        ELSE routes[h]]

\* ModifyTunnelAndRouting for entry i, which becomes b, and the answer to it.
\* The tunnel is looked up by the address the entry had before.
ModifyTunnelAndRouting(i, b) ==
    LET old   == bces[i]
        newIf == ModifyTunnelIf(tunnelList, old.coa, b.coa)
    IN  IF ModifyTunnelAsserts(tunnelList, old.coa)
        THEN /\ tunnelList' = ModifyTunnelList(tunnelList, old.coa, b.coa)
             /\ routes' = IF newIf = old.tunnelIf THEN routes
                          ELSE MovedRoutes(b.hnps, old.tunnelIf, newIf)
             /\ bces' = [bces EXCEPT ![i] = [b EXCEPT !.tunnelIf = newIf]]
             /\ out' = PbaOfBce(b, b.coa)
             /\ UNCHANGED aborted
        ELSE /\ aborted' = TRUE
             /\ UNCHANGED <<tunnelList, routes, bces, out>>

-----------------------------------------------------------------------------
\* HandlePbu, one action per way through it.
Reject(p) ==
    /\ ~aborted
    /\ Status(p) # "ACCEPTED"
    /\ out' = PbaOfPbu(p, Status(p))
    /\ UNCHANGED <<bces, profileHnp, poolIndex, tunnelList, routes, now, aborted>>

\* The update is in order and entry i is the one it is about.
Finds(p, i) ==
    /\ ~aborted
    /\ Status(p) = "ACCEPTED"
    /\ Existing(p) = i
    /\ UNCHANGED <<profileHnp, poolIndex, now>>

\* From the MAG that has the binding, or from any MAG once it is deregistering.
Refresh(p, i) ==
    /\ Finds(p, i)
    /\ p.life > 0
    /\ bces[i].coa = p.src \/ bces[i].state = "DEREGISTERING"
    /\ bces' = [bces EXCEPT ![i] = Updated(@, p)]
    /\ out' = PbaOfBce(Updated(bces[i], p), p.src)
    /\ UNCHANGED <<tunnelList, routes, aborted>>

FromAnotherMag(p, i) ==
    p.life > 0 /\ bces[i].coa # p.src /\ bces[i].state # "DEREGISTERING"

\* The tentative entry: the copy of the entry with p's fields written to it.
Tentative(p) ==
    [src |-> p.src, hi |-> p.hi, att |-> p.att, life |-> p.life,
     time |-> p.time, seq |-> p.seq]

\* Slip: the timer is stopped as before a start, and then not started.
DelayRegistrationNoTimer(p, i) ==
    /\ Finds(p, i)
    /\ FromAnotherMag(p, i)
    /\ p.hi = "UNKNOWN" /\ DelayedRegister(p)
    /\ bces' = IF bces[i].state = "REGISTERING" THEN bces
               ELSE [bces EXCEPT ![i].state = "REGISTERING",
                                 ![i].tentative = Tentative(p)]
    /\ out' = None
    /\ UNCHANGED <<tunnelList, routes, aborted>>

\* Slip: the handler runs on to the answer after it has set up the delay.
DelayRegistrationAnswers(p, i) ==
    /\ Finds(p, i)
    /\ FromAnotherMag(p, i)
    /\ p.hi = "UNKNOWN" /\ DelayedRegister(p)
    /\ bces' = IF bces[i].state = "REGISTERING" THEN bces
               ELSE [bces EXCEPT ![i].state = "REGISTERING",
                                 ![i].tentative = Tentative(p),
                                 ![i].registerTimer = TRUE]
    /\ out' = PbaOfBce(bces[i], p.src)
    /\ UNCHANGED <<tunnelList, routes, aborted>>

\* The handoff state cannot be told: wait for the old MAG to deregister.
\* Nothing is answered, and nothing changes if the entry waits already.
DelayRegistration(p, i) ==
    /\ Finds(p, i)
    /\ FromAnotherMag(p, i)
    /\ p.hi = "UNKNOWN" /\ DelayedRegister(p)
    /\ bces' = IF bces[i].state = "REGISTERING" THEN bces
               ELSE [bces EXCEPT ![i].state = "REGISTERING",
                                 ![i].tentative = Tentative(p),
                                 ![i].registerTimer = TRUE]
    /\ out' = None
    /\ UNCHANGED <<tunnelList, routes, aborted>>

Handoff(p, i) ==
    /\ Finds(p, i)
    /\ FromAnotherMag(p, i)
    /\ ~(p.hi = "UNKNOWN" /\ DelayedRegister(p))
    /\ ModifyTunnelAndRouting(i, Updated(bces[i], p))

\* Deregistrations can make the tunnel list grow for ever; the bound on it.
TunnelsInBound ==
    /\ Len(tunnelList) <= MaxRef
    /\ \A d \in DOMAIN tunnelList : tunnelList[d].ref <= MaxRef

\* Lifetime 0: the entry is marked if its own MAG asks, answered in any case.
Deregister(p, i) ==
    /\ Finds(p, i)
    /\ TunnelsInBound
    /\ p.life = 0
    /\ bces' = IF bces[i].coa # p.src THEN bces
               ELSE [bces EXCEPT ![i].state = "DEREGISTERING",
                                 ![i].deregisterTimer = TRUE]
    /\ out' = PbaOfBce(bces[i], p.src)
    /\ UNCHANGED <<tunnelList, routes, aborted>>

\* Slip: the counter is read, and not advanced.
AssignNotAdvanced(n) == PoolPrefix[0]

\* Pmipv6PrefixPool::Assign: the counter wraps at the size of the pool.
Assign(n) == PoolPrefix[n % PoolSize]

\* Slip: a prefix is assigned although the profile has one.
NewPrefixesIgnoreProfile(p) == {Assign(poolIndex + 1)}

\* The prefixes a new entry of p's mobile node gets.
NewPrefixes(p) ==
    IF profileHnp[p.mn] # {} THEN profileHnp[p.mn] ELSE {Assign(poolIndex + 1)}

\* Slip: the entry stays as its constructor made it, UNREACHABLE.
NewBceUnmarked(p) ==
    [mn |-> p.mn, link |-> p.link, att |-> p.att, hi |-> p.hi,
     hnps |-> NewPrefixes(p), coa |-> p.src,
     tunnelIf |-> AddTunnelIf(tunnelList, p.src), time |-> p.time,
     life |-> p.life, seq |-> p.seq, state |-> "UNREACHABLE",
     tentative |-> None, registerTimer |-> FALSE, deregisterTimer |-> FALSE]

\* The entry BindingCache::Add makes, as HandlePbu fills it in.
NewBce(p) ==
    [mn |-> p.mn, link |-> p.link, att |-> p.att, hi |-> p.hi,
     hnps |-> NewPrefixes(p), coa |-> p.src,
     tunnelIf |-> AddTunnelIf(tunnelList, p.src), time |-> p.time,
     life |-> p.life, seq |-> p.seq, state |-> "REACHABLE",
     tentative |-> None, registerTimer |-> FALSE, deregisterTimer |-> FALSE]

\* SetupTunnelAndRouting for a new entry b.
SetupTunnelAndRouting(b) ==
    /\ tunnelList' = AddTunnelList(tunnelList, b.coa)
    /\ routes' = [h \in Prefix |->
                     IF h \in b.hnps THEN AddNetworkRoute(routes[h], b.tunnelIf)
                     ELSE routes[h]]

\* Slip: the assigned prefix is not kept in the profile.
CreateForgets(p) ==
    /\ ~aborted
    /\ Status(p) = "ACCEPTED" /\ Existing(p) = 0
    /\ p.life > 0
    /\ Len(bces) < MaxBce
    /\ bces' = Append(bces, NewBce(p))
    /\ poolIndex' = IF profileHnp[p.mn] # {} THEN poolIndex ELSE poolIndex + 1
    /\ SetupTunnelAndRouting(NewBce(p))
    /\ out' = PbaOfBce(NewBce(p), p.src)
    /\ UNCHANGED <<profileHnp, now, aborted>>

Create(p) ==
    /\ ~aborted
    /\ Status(p) = "ACCEPTED" /\ Existing(p) = 0
    /\ p.life > 0
    /\ Len(bces) < MaxBce
    /\ bces' = Append(bces, NewBce(p))
    /\ IF profileHnp[p.mn] # {}
       THEN UNCHANGED <<poolIndex, profileHnp>>
       ELSE /\ poolIndex' = poolIndex + 1
            /\ profileHnp' = [profileHnp EXCEPT ![p.mn] = NewPrefixes(p)]
    /\ SetupTunnelAndRouting(NewBce(p))
    /\ out' = PbaOfBce(NewBce(p), p.src)
    /\ UNCHANGED <<now, aborted>>

UnknownDeregister(p) ==
    /\ Finds(p, 0)
    /\ p.life = 0
    /\ out' = PbaOfPbu(p, "ACCEPTED")
    /\ UNCHANGED <<bces, tunnelList, routes, aborted>>

\* FunctionRegisterTimeout and DoDelayedRegistration.
RegisterTimeout(i) ==
    /\ ~aborted
    /\ bces[i].registerTimer
    /\ UNCHANGED <<profileHnp, poolIndex, now>>
    /\ IF bces[i].tentative = None
       THEN aborted' = TRUE /\ UNCHANGED <<bces, tunnelList, routes, out>>
       ELSE ModifyTunnelAndRouting(i,
                [LateUpdated(bces[i], bces[i].tentative) EXCEPT
                    !.tentative = None, !.registerTimer = FALSE])

\* FunctionDeregisterTimeout is empty: the timer stops, the entry stays.
DeregisterTimeout(i) ==
    /\ ~aborted
    /\ bces[i].deregisterTimer
    /\ bces' = [bces EXCEPT ![i].deregisterTimer = FALSE]
    /\ out' = None
    /\ UNCHANGED <<profileHnp, poolIndex, tunnelList, routes, now, aborted>>

Tick ==
    /\ ~aborted
    /\ now < MaxTime
    /\ now' = now + 1
    /\ out' = None
    /\ UNCHANGED <<bces, profileHnp, poolIndex, tunnelList, routes, aborted>>

HandlePbu(p) ==
    \/ Reject(p)
    \/ \E i \in DOMAIN bces :
          \/ Refresh(p, i)
          \/ DelayRegistration(p, i)
          \/ Handoff(p, i)
          \/ Deregister(p, i)
    \/ Create(p)
    \/ UnknownDeregister(p)

Next ==
    \/ \E p \in Pbu : HandlePbu(p)
    \/ \E i \in DOMAIN bces : RegisterTimeout(i) \/ DeregisterTimeout(i)
    \/ Tick

Spec == Init /\ [][Next]_vars

\* The simulator runs every scheduled event: a register timer that is not
\* restarted goes off.
FairSpec == Spec /\ \A i \in 1 .. MaxBce :
                       WF_vars(i \in DOMAIN bces /\ RegisterTimeout(i))

-----------------------------------------------------------------------------
TypeOK ==
    /\ bces \in Seq(BceType) /\ Len(bces) <= MaxBce
    /\ profileHnp \in [Profiled -> SUBSET Prefix]
    /\ poolIndex \in Nat
    /\ tunnelList \in Seq(Device)
    /\ routes \in [Prefix -> Seq(Nat)]
    /\ now \in 0 .. MaxTime
    /\ aborted \in BOOLEAN

Bindings(Test(_)) == {i \in DOMAIN bces : Test(bces[i])}

\* No ModifyTunnel and no DoDelayedRegistration runs into its assertions.
NeverAborts == ~aborted

\* The tunnel of a binding leads to its care-of address, whichever way the
\* address was last changed and whoever shares the device.
TunnelServesCoa ==
    \A i \in DOMAIN bces :
        /\ bces[i].tunnelIf \in DOMAIN tunnelList
        /\ tunnelList[bces[i].tunnelIf].remote = bces[i].coa

\* A tunnel device counts the bindings that lead through it, and one more for
\* its construction: handoffs neither leak nor lose references.
RefCountsBindings ==
    \A d \in DOMAIN tunnelList :
        LET Through(b) == b.coa = tunnelList[d].remote
        IN  tunnelList[d].ref = 1 + Cardinality(Bindings(Through))

\* There is a route to every prefix of a binding through the tunnel of that
\* binding, however its tunnel was moved and shared.
BindingsRouted ==
    \A i \in DOMAIN bces : \A h \in bces[i].hnps :
        bces[i].tunnelIf \in Range(routes[h])

\* A packet for a bound prefix leaves for a MAG that holds a binding of that
\* very prefix for that very node, whatever routes were left behind.
PacketsReachMag ==
    \A i \in DOMAIN bces : \A h \in bces[i].hnps :
        /\ routes[h] # <<>>
        /\ \E j \in DOMAIN bces :
              /\ h \in bces[j].hnps
              /\ bces[j].mn = bces[i].mn
              /\ tunnelList[LookupStatic(routes[h])].remote = bces[j].coa

\* All bindings of a mobile node carry the prefixes its profile names, those
\* made after the pool assigned one included, so a node keeps its prefix.
PrefixContinuity ==
    \A i \in DOMAIN bces :
        bces[i].hnps # {} /\ bces[i].hnps = profileHnp[bces[i].mn]

\* Two mobile nodes never share a home network prefix.
NoSharedPrefix ==
    \A i, j \in DOMAIN bces :
        bces[i].mn # bces[j].mn => bces[i].hnps \cap bces[j].hnps = {}

\* A tentative entry waits exactly while the register timer runs, and an
\* entry is REGISTERING only then, whatever updates arrive in between.
DelayedPending ==
    \A i \in DOMAIN bces :
        /\ bces[i].registerTimer <=> bces[i].tentative # None
        /\ bces[i].state = "REGISTERING" => bces[i].registerTimer

\* A MAG that is told ACCEPTED with a lifetime holds a binding of the node
\* with just the prefixes it was told.
AcceptedMeansBound ==
    out # None /\ out.status = "ACCEPTED" /\ out.life > 0 =>
        \E i \in DOMAIN bces :
            /\ bces[i].mn = out.mn /\ bces[i].hnps = out.hnps
            /\ bces[i].coa = out.dst

Registering(i) == i \in DOMAIN bces /\ bces[i].state = "REGISTERING"

\* A delayed registration comes to an end: the entry is answered for, whatever
\* updates keep arriving, unless an assertion ends the program first.
RegistrationEnds ==
    \A i \in 1 .. MaxBce : Registering(i) ~> ~Registering(i) \/ aborted
=============================================================================
