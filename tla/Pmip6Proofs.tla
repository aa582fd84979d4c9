----------------------------- MODULE Pmip6Proofs ----------------------------
(***************************************************************************)
(* The protocol as a whole keeps its promise, for any nodes, prefixes and  *)
(* bounds, if the pool has a prefix for each node that needs one.  What    *)
(* LmaProofs and MagProofs show of each agent is put together here.        *)
(***************************************************************************)
EXTENDS Pmip6, FiniteSetTheorems, TLAPS

LP == INSTANCE LmaProofs WITH
        Profiled <- Mn, Pbu <- Updates, MaxRef <- 0,
        tunnelList <- lmaTunnels, routes <- lmaRoutes

MP1 == INSTANCE MagProofs WITH
        LmaAddress <- [n \in Mn |-> lma], LmaHnp <- ProfileHnp,
        Lifetime <- {Life}, MaxSeq <- MaxSeq1, buList <- buList1, sequence <- sequence1,
        tunnelList <- tunnels1, routes <- routes1,
        sourceRoutes <- sourceRoutes1, radvd <- radvd1, sent <- sent1

MP2 == INSTANCE MagProofs WITH
        LmaAddress <- [n \in Mn |-> lma], LmaHnp <- ProfileHnp,
        Lifetime <- {Life}, MaxSeq <- MaxSeq2, buList <- buList2, sequence <- sequence2,
        tunnelList <- tunnels2, routes <- routes2,
        sourceRoutes <- sourceRoutes2, radvd <- radvd2, sent <- sent2

\* What LmaProofs assumes of its constants.
LEMMA LmaAssumptions ==
    /\ Zero \notin Addr /\ ZeroPrefix \notin Prefix
    /\ Updates \subseteq LP!PbuType
    /\ Mn \subseteq Mn /\ NoMn \notin Mn
    /\ ProfileHnp \in [Mn -> SUBSET Prefix]
    /\ PoolSize \in Nat \ {0} /\ PoolPrefix \in [0 .. PoolSize - 1 -> Prefix]
    /\ {MaxBce, MaxTime, 0} \subseteq Nat
    /\ None \notin LP!TentativeType
    /\ LP!NoDeregistration
<1>1. L!AccessTechnology = LP!AccessTechnology /\ "UNKNOWN" \in LP!HandoffIndicator
  BY DEF L!AccessTechnology, LP!AccessTechnology, LP!HandoffIndicator
<1>2. L!TentativeType = LP!TentativeType
  BY DEF L!AccessTechnology, LP!AccessTechnology, L!HandoffIndicator,
         LP!HandoffIndicator, L!TentativeType, LP!TentativeType
<1>3. Updates \subseteq LP!PbuType
  <2>1. {Att[n][k] : n \in Mn, k \in {mag1, mag2}} \subseteq LP!AccessTechnology
    BY <1>1, NodeAssumption
  <2>2. {linkOf[n] : n \in Mn} \subseteq Link
    BY NodeAssumption
  <2>3. {mag1, mag2} \subseteq Addr /\ Life \in Nat
    BY AgentAssumption, BoundAssumption
  <2>. QED BY <1>1, <2>1, <2>2, <2>3 DEF Updates, LP!PbuType
<1>4. LP!NoDeregistration
  BY BoundAssumption DEF LP!NoDeregistration, Updates
<1>5. {MaxBce, MaxTime, 0} \subseteq Nat
  BY BoundAssumption
<1>. QED BY <1>2, <1>3, <1>4, <1>5, AgentAssumption, NodeAssumption, PrefixAssumption,
            NoneAssumption

\* What MagProofs assumes of its constants, for both MAGs.
LEMMA MagAssumptions ==
    /\ Zero \notin Addr /\ ZeroPrefix \notin Prefix
    /\ MP1!IsFiniteSet(Mn) /\ MP2!IsFiniteSet(Mn)
    /\ [n \in Mn |-> lma] \in [Mn -> Addr]
    /\ ProfileHnp \in [Mn -> SUBSET Prefix]
    /\ AccessIf \subseteq Nat \ {0} /\ {Life} \subseteq Nat
    /\ {MaxRetry, MaxSeq1, MaxTime} \subseteq Nat
    /\ {MaxRetry, MaxSeq2, MaxTime} \subseteq Nat
    /\ None \notin MP1!PbuType /\ None \notin MP1!EntryType
    /\ None \notin MP2!PbuType /\ None \notin MP2!EntryType
<1>1. M1!PbuType = MP1!PbuType /\ M1!PbuType = MP2!PbuType
  BY DEF M1!PbuType, MP1!PbuType, MP2!PbuType
<1>2. M1!EntryType = MP1!EntryType /\ M1!EntryType = MP2!EntryType
  BY <1>1 DEF M1!EntryType, MP1!EntryType, MP2!EntryType
<1>3. [n \in Mn |-> lma] \in [Mn -> Addr]
  BY AgentAssumption
<1>4. /\ {Life} \subseteq Nat /\ {MaxRetry, MaxSeq1, MaxTime} \subseteq Nat
      /\ {MaxRetry, MaxSeq2, MaxTime} \subseteq Nat
  BY BoundAssumption
<1>5. MP1!IsFiniteSet(Mn) /\ MP2!IsFiniteSet(Mn)
  BY NodeAssumption, Zenon DEF IsFiniteSet, MP1!IsFiniteSet, MP2!IsFiniteSet
<1>. QED BY <1>1, <1>2, <1>3, <1>4, <1>5, AgentAssumption, PrefixAssumption, NoneAssumption

-----------------------------------------------------------------------------
(***************************************************************************)
(* LmaProofs and MagProofs have their own copies of the operators of Lma   *)
(* and Mag, of which Pmip6 is made: they are the same.                     *)
(***************************************************************************)

LEMMA SameTunnels ==
    /\ \A l, s : L!AddTunnelIf(l, s) = LP!AddTunnelIf(l, s)
    /\ \A l, s : L!AddTunnelList(l, s) = LP!AddTunnelList(l, s)
    /\ \A l, s : L!ModifyTunnelAsserts(l, s) <=> LP!ModifyTunnelAsserts(l, s)
    /\ \A l, s, q : L!ModifyTunnelIf(l, s, q) = LP!ModifyTunnelIf(l, s, q)
    /\ \A l, s, q : L!ModifyTunnelList(l, s, q) = LP!ModifyTunnelList(l, s, q)
<1>1. \A l, s : L!GetTunnelDevice(l, s) = LP!GetTunnelDevice(l, s)
  BY Zenon DEF L!GetTunnelDevice, LP!GetTunnelDevice
<1>2. \A l, s : L!AddTunnelIf(l, s) = LP!AddTunnelIf(l, s)
  BY <1>1, Zenon DEF L!AddTunnelIf, LP!AddTunnelIf
<1>3. \A l, d : L!WithDevice(l, d) = LP!WithDevice(l, d)
  BY Zenon DEF L!WithDevice, LP!WithDevice, L!NewDevice, LP!NewDevice
<1>4. \A l, s : L!AddTunnelList(l, s) = LP!AddTunnelList(l, s)
  BY <1>2, <1>3, Zenon DEF L!AddTunnelList, LP!AddTunnelList
<1>5. \A l, s : L!RemoveTunnelList(l, s) = LP!RemoveTunnelList(l, s)
  BY <1>1, Zenon DEF L!RemoveTunnelList, LP!RemoveTunnelList
<1>6. \A l, s : L!ModifyTunnelAsserts(l, s) <=> LP!ModifyTunnelAsserts(l, s)
  BY <1>1, Zenon DEF L!ModifyTunnelAsserts, LP!ModifyTunnelAsserts
<1>7. \A l, s, q : L!ModifyTunnelIf(l, s, q) = LP!ModifyTunnelIf(l, s, q)
  BY <1>1, <1>2, <1>5, Zenon DEF L!ModifyTunnelIf, LP!ModifyTunnelIf
<1>8. \A l, s, q : L!ModifyTunnelList(l, s, q) = LP!ModifyTunnelList(l, s, q)
  BY <1>1, <1>4, <1>5, Zenon DEF L!ModifyTunnelList, LP!ModifyTunnelList
<1>. QED BY <1>2, <1>4, <1>6, <1>7, <1>8

LEMMA SameRoutes ==
    /\ \A t, i : L!AddNetworkRoute(t, i) = LP!AddNetworkRoute(t, i)
    /\ \A t, i, h : L!RemoveRoute(t, i, h) = LP!RemoveRoute(t, i, h)
    /\ \A t : L!LookupStatic(t) = LP!LookupStatic(t)
<1>1. \A s, e : L!RemoveFirst(s, e) = LP!RemoveFirst(s, e)
  BY Zenon DEF L!RemoveFirst, LP!RemoveFirst, L!SelectInSeq, LP!SelectInSeq,
               L!RemoveAt, LP!RemoveAt, L!Min, LP!Min
<1>2. \A t : L!LookupStatic(t) = LP!LookupStatic(t)
  BY Zenon DEF L!LookupStatic, LP!LookupStatic, L!Last, LP!Last
<1>. QED BY <1>1, <1>2, Zenon
        DEF L!AddNetworkRoute, LP!AddNetworkRoute, L!RemoveRoute, LP!RemoveRoute

LEMMA SameLookups ==
    ASSUME NEW p
    PROVE  /\ L!Status(p) = LP!Status(p) /\ L!Existing(p) = LP!Existing(p)
           /\ L!DelayedRegister(p) <=> LP!DelayedRegister(p)
           /\ \A i : L!Finds(p, i) <=> LP!Finds(p, i)
<1>1. L!Status(p) = LP!Status(p)
  BY Zenon DEF L!Status, LP!Status
<1>2. \A S : L!Newest(S) = LP!Newest(S)
  BY Zenon DEF L!Newest, LP!Newest
<1>3. /\ \A m : L!LookupMn(m) = LP!LookupMn(m)
      /\ \A m, a, l : L!LookupLink(m, a, l) = LP!LookupLink(m, a, l)
      /\ \A m, hs : L!LookupHnp(m, hs) = LP!LookupHnp(m, hs)
  BY <1>2, Zenon DEF L!LookupMn, LP!LookupMn, L!LookupLink, LP!LookupLink, L!LookupHnp,
                     LP!LookupHnp
<1>4. L!HnpList(p) = LP!HnpList(p)
  BY Zenon DEF L!HnpList, LP!HnpList
<1>5. L!Existing(p) = LP!Existing(p)
  BY <1>3, <1>4, Zenon DEF L!Existing, LP!Existing
<1>6. L!DelayedRegister(p) <=> LP!DelayedRegister(p)
  BY <1>3, <1>4, Zenon DEF L!DelayedRegister, LP!DelayedRegister
<1>7. \A i : L!Finds(p, i) <=> LP!Finds(p, i)
  BY <1>1, <1>5, Zenon DEF L!Finds, LP!Finds
<1>. QED BY <1>1, <1>5, <1>6, <1>7

LEMMA SameEntries ==
    /\ \A b, d : L!PbaOfBce(b, d) = LP!PbaOfBce(b, d)
    /\ \A p, s : L!PbaOfPbu(p, s) = LP!PbaOfPbu(p, s)
    /\ \A b, p : L!LateUpdated(b, p) = LP!LateUpdated(b, p)
    /\ \A b, p : L!Updated(b, p) = LP!Updated(b, p)
    /\ \A p : L!Tentative(p) = LP!Tentative(p)
    /\ \A p : L!NewPrefixes(p) = LP!NewPrefixes(p) /\ L!NewBce(p) = LP!NewBce(p)
<1>1. /\ \A b, d : L!PbaOfBce(b, d) = LP!PbaOfBce(b, d)
      /\ \A p, s : L!PbaOfPbu(p, s) = LP!PbaOfPbu(p, s)
  BY Zenon DEF L!PbaOfBce, LP!PbaOfBce, L!PbaOfPbu, LP!PbaOfPbu
<1>2. \A b, p : L!LateUpdated(b, p) = LP!LateUpdated(b, p)
  BY Zenon DEF L!LateUpdated, LP!LateUpdated
<1>3. \A b, p : L!Updated(b, p) = LP!Updated(b, p)
  BY <1>2, Zenon DEF L!Updated, LP!Updated
<1>4. \A p : L!Tentative(p) = LP!Tentative(p)
  BY Zenon DEF L!Tentative, LP!Tentative
<1>5. \A p : L!NewPrefixes(p) = LP!NewPrefixes(p)
  BY Zenon DEF L!NewPrefixes, LP!NewPrefixes, L!Assign, LP!Assign
<1>6. \A p : L!NewBce(p) = LP!NewBce(p)
  BY <1>5, SameTunnels, Zenon DEF L!NewBce, LP!NewBce
<1>. QED BY <1>1, <1>2, <1>3, <1>4, <1>5, <1>6, Zenon

LEMMA SameModify ==
    ASSUME NEW i, NEW b
    PROVE  L!ModifyTunnelAndRouting(i, b) <=> LP!ModifyTunnelAndRouting(i, b)
<1>1. \A hs, o, n : L!MovedRoutes(hs, o, n) = LP!MovedRoutes(hs, o, n)
  BY SameRoutes, Zenon DEF L!MovedRoutes, LP!MovedRoutes
<1>. QED BY <1>1, SameTunnels, SameEntries, Zenon
        DEF L!ModifyTunnelAndRouting, LP!ModifyTunnelAndRouting

\* What Pmip6 lets the LMA do is what LmaProofs is about.
LEMMA SameLma ==
    /\ L!Init <=> LP!Init
    /\ L!Tick <=> LP!Tick
    /\ \A p : L!HandlePbu(p) => LP!HandlePbu(p)
    /\ \A i : L!RegisterTimeout(i) => LP!RegisterTimeout(i)
<1>1. L!Init <=> LP!Init
  BY Zenon DEF L!Init, LP!Init
<1>2. L!Tick <=> LP!Tick
  BY Zenon DEF L!Tick, LP!Tick
<1>3. ASSUME NEW i, L!RegisterTimeout(i) PROVE LP!RegisterTimeout(i)
  BY <1>3, SameModify, SameEntries, Zenon DEF L!RegisterTimeout, LP!RegisterTimeout
<1>4. ASSUME NEW p, L!Reject(p) PROVE LP!Reject(p)
  BY <1>4, SameLookups, SameEntries, Zenon DEF L!Reject, LP!Reject
<1>5. ASSUME NEW p, NEW i, L!Refresh(p, i) PROVE LP!Refresh(p, i)
  BY <1>5, SameLookups, SameEntries, Zenon DEF L!Refresh, LP!Refresh
<1>6. ASSUME NEW p, NEW i PROVE L!FromAnotherMag(p, i) <=> LP!FromAnotherMag(p, i)
  BY Zenon DEF L!FromAnotherMag, LP!FromAnotherMag
<1>7. ASSUME NEW p, NEW i, L!DelayRegistration(p, i) PROVE LP!DelayRegistration(p, i)
  BY <1>6, <1>7, SameLookups, SameEntries, Zenon
     DEF L!DelayRegistration, LP!DelayRegistration
<1>8. ASSUME NEW p, NEW i, L!Handoff(p, i) PROVE LP!Handoff(p, i)
  BY <1>6, <1>8, SameLookups, SameEntries, SameModify, Zenon DEF L!Handoff, LP!Handoff
<1>9. ASSUME NEW p, NEW i, L!Deregister(p, i) PROVE LP!Deregister(p, i)
  BY <1>9, SameLookups, SameEntries, Zenon
     DEF L!Deregister, LP!Deregister, L!TunnelsInBound, LP!TunnelsInBound
<1>10. ASSUME NEW p, L!Create(p) PROVE LP!Create(p)
  BY <1>10, SameLookups, SameEntries, SameTunnels, SameRoutes, Zenon
     DEF L!Create, LP!Create, L!SetupTunnelAndRouting, LP!SetupTunnelAndRouting
<1>11. ASSUME NEW p, L!UnknownDeregister(p) PROVE LP!UnknownDeregister(p)
  BY <1>11, SameLookups, SameEntries, Zenon DEF L!UnknownDeregister, LP!UnknownDeregister
<1>12. ASSUME NEW p, L!HandlePbu(p) PROVE LP!HandlePbu(p)
  BY <1>4, <1>5, <1>7, <1>8, <1>9, <1>10, <1>11, <1>12, Zenon DEF L!HandlePbu, LP!HandlePbu
<1>. QED BY <1>1, <1>2, <1>3, <1>12, Zenon

\* What Pmip6 lets a MAG do is what MagProofs is about.
LEMMA SameMag1 ==
    /\ M1!Init <=> MP1!Init
    /\ \A m, i : M1!HandleNewNode(m, i) => MP1!HandleNewNode(m, i)
    /\ \A m : M1!RefreshTimeout(m) => MP1!RefreshTimeout(m)
    /\ \A m : M1!RetransTimeout(m) => MP1!RetransTimeout(m)
    /\ \A m : M1!ReachableTimeout(m) => MP1!ReachableTimeout(m)
    /\ \A a, hs, life : M1!HandlePba(a, hs, life) =>
          MP1!HandlePbaAccepted(a, hs, life) \/ life = 0
    /\ M1!Bound = MP1!Bound
    /\ M1!TunnelLeadsToLma <=> MP1!TunnelLeadsToLma
    /\ M1!PrefixRouted <=> MP1!PrefixRouted
<1>1. M1!Init <=> MP1!Init
  BY Zenon DEF M1!Init, MP1!Init
<1>2. \A m : M1!AttachedEntry(m) = MP1!AttachedEntry(m)
  BY Zenon DEF M1!AttachedEntry, MP1!AttachedEntry, M1!NewEntry, MP1!NewEntry
<1>3. \A m, e, st : M1!WithNewPbu(m, e, st) = MP1!WithNewPbu(m, e, st)
  BY Zenon DEF M1!WithNewPbu, MP1!WithNewPbu, M1!BuildPbu, MP1!BuildPbu
<1>4. \A m, e : M1!SendUpdate(m, e) <=> MP1!SendUpdate(m, e)
  BY Zenon DEF M1!SendUpdate, MP1!SendUpdate
<1>5. M1!netVars = MP1!netVars /\ (M1!netVars)' = (MP1!netVars)'
  BY Zenon DEF M1!netVars, MP1!netVars
<1>6. ASSUME NEW m, NEW i, M1!HandleNewNode(m, i) PROVE MP1!HandleNewNode(m, i)
  BY <1>2, <1>3, <1>4, <1>5, <1>6, Zenon DEF M1!HandleNewNode, MP1!HandleNewNode
<1>7. ASSUME NEW m, M1!RefreshTimeout(m) PROVE MP1!RefreshTimeout(m)
  BY <1>3, <1>4, <1>5, <1>7, Zenon DEF M1!RefreshTimeout, MP1!RefreshTimeout
<1>8. ASSUME NEW m, M1!RetransTimeout(m) PROVE MP1!RetransTimeout(m)
  BY <1>5, <1>8, Zenon DEF M1!RetransTimeout, MP1!RetransTimeout
<1>9. \A l, s : M1!GetTunnelDevice(l, s) = MP1!GetTunnelDevice(l, s)
  BY Zenon DEF M1!GetTunnelDevice, MP1!GetTunnelDevice
<1>10. \A l, s : M1!AddTunnelIf(l, s) = MP1!AddTunnelIf(l, s)
  BY <1>9, Zenon DEF M1!AddTunnelIf, MP1!AddTunnelIf
<1>11. \A l, d : M1!WithDevice(l, d) = MP1!WithDevice(l, d)
  BY Zenon DEF M1!WithDevice, MP1!WithDevice, M1!NewDevice, MP1!NewDevice
<1>12. \A l, s : M1!AddTunnelList(l, s) = MP1!AddTunnelList(l, s)
  BY <1>10, <1>11, Zenon DEF M1!AddTunnelList, MP1!AddTunnelList
<1>13. \A l, s : M1!RemoveTunnelList(l, s) = MP1!RemoveTunnelList(l, s)
  BY <1>9, Zenon DEF M1!RemoveTunnelList, MP1!RemoveTunnelList
<1>14. \A s, e : M1!RemoveFirst(s, e) = MP1!RemoveFirst(s, e)
  BY Zenon DEF M1!RemoveFirst, MP1!RemoveFirst, M1!SelectInSeq, MP1!SelectInSeq,
               M1!RemoveAt, MP1!RemoveAt, M1!Min, MP1!Min
<1>15. /\ \A t, i : M1!AddNetworkRoute(t, i) = MP1!AddNetworkRoute(t, i)
       /\ \A t, i, h : M1!RemoveRoute(t, i, h) = MP1!RemoveRoute(t, i, h)
       /\ \A t : M1!LookupStatic(t) = MP1!LookupStatic(t)
  BY <1>14, Zenon DEF M1!AddNetworkRoute, MP1!AddNetworkRoute, M1!RemoveRoute,
     MP1!RemoveRoute, M1!LookupStatic, MP1!LookupStatic, M1!Last, MP1!Last
<1>16. \A e : M1!ClearRadvdInterface(e) <=> MP1!ClearRadvdInterface(e)
  BY Zenon DEF M1!ClearRadvdInterface, MP1!ClearRadvdInterface, M1!RemoveFirstMatch,
     MP1!RemoveFirstMatch, M1!SelectInSeq, MP1!SelectInSeq, M1!RemoveAt, MP1!RemoveAt,
     M1!Min, MP1!Min
<1>17. \A m, e : M1!ClearTunnelAndRouting(m, e) <=> MP1!ClearTunnelAndRouting(m, e)
  BY <1>13, <1>15, Zenon DEF M1!ClearTunnelAndRouting, MP1!ClearTunnelAndRouting
<1>18. \A e : M1!TimedOut(e) = MP1!TimedOut(e)
  BY Zenon DEF M1!TimedOut, MP1!TimedOut
<1>19. ASSUME NEW m, M1!ReachableTimeout(m) PROVE MP1!ReachableTimeout(m)
  BY <1>16, <1>17, <1>18, <1>19, Zenon DEF M1!ReachableTimeout, MP1!ReachableTimeout
<1>20. \A m, e : M1!SetupNetwork(m, e) <=> MP1!SetupNetwork(m, e)
  BY <1>10, <1>12, <1>15, Zenon DEF M1!SetupNetwork, MP1!SetupNetwork
<1>21. \A e, hs : M1!AcceptedEntry(e, hs) = MP1!AcceptedEntry(e, hs)
  BY Zenon DEF M1!AcceptedEntry, MP1!AcceptedEntry
<1>22. ASSUME NEW a, NEW hs, NEW life, M1!HandlePba(a, hs, life)
       PROVE  MP1!HandlePbaAccepted(a, hs, life) \/ life = 0
  <2>1. CASE M1!HandlePbaAccepted(a, hs, life)
    BY <1>5, <1>10, <1>20, <1>21, <2>1, Zenon
       DEF M1!HandlePbaAccepted, MP1!HandlePbaAccepted, M1!Current, MP1!Current
  <2>2. CASE M1!HandlePbaDeregistered(a, hs, life)
    BY <2>2, Zenon DEF M1!HandlePbaDeregistered
  <2>. QED BY <1>22, <2>1, <2>2, Zenon DEF M1!HandlePba
<1>23. M1!Bound = MP1!Bound
  BY Zenon DEF M1!Bound, MP1!Bound, M1!Entries, MP1!Entries
<1>24. M1!TunnelLeadsToLma <=> MP1!TunnelLeadsToLma
  BY <1>23, Zenon DEF M1!TunnelLeadsToLma, MP1!TunnelLeadsToLma,
     M1!Cardinality, MP1!Cardinality
<1>25. M1!PrefixRouted <=> MP1!PrefixRouted
  BY <1>15, <1>23, Zenon DEF M1!PrefixRouted, MP1!PrefixRouted
<1>. QED BY <1>1, <1>6, <1>7, <1>8, <1>19, <1>22, <1>23, <1>24, <1>25, Zenon

LEMMA SameMag2 ==
    /\ M2!Init <=> MP2!Init
    /\ \A m, i : M2!HandleNewNode(m, i) => MP2!HandleNewNode(m, i)
    /\ \A m : M2!RefreshTimeout(m) => MP2!RefreshTimeout(m)
    /\ \A m : M2!RetransTimeout(m) => MP2!RetransTimeout(m)
    /\ \A m : M2!ReachableTimeout(m) => MP2!ReachableTimeout(m)
    /\ \A a, hs, life : M2!HandlePba(a, hs, life) =>
          MP2!HandlePbaAccepted(a, hs, life) \/ life = 0
    /\ M2!Bound = MP2!Bound
    /\ M2!TunnelLeadsToLma <=> MP2!TunnelLeadsToLma
    /\ M2!PrefixRouted <=> MP2!PrefixRouted
<1>1. M2!Init <=> MP2!Init
  BY Zenon DEF M2!Init, MP2!Init
<1>2. \A m : M2!AttachedEntry(m) = MP2!AttachedEntry(m)
  BY Zenon DEF M2!AttachedEntry, MP2!AttachedEntry, M2!NewEntry, MP2!NewEntry
<1>3. \A m, e, st : M2!WithNewPbu(m, e, st) = MP2!WithNewPbu(m, e, st)
  BY Zenon DEF M2!WithNewPbu, MP2!WithNewPbu, M2!BuildPbu, MP2!BuildPbu
<1>4. \A m, e : M2!SendUpdate(m, e) <=> MP2!SendUpdate(m, e)
  BY Zenon DEF M2!SendUpdate, MP2!SendUpdate
<1>5. M2!netVars = MP2!netVars /\ (M2!netVars)' = (MP2!netVars)'
  BY Zenon DEF M2!netVars, MP2!netVars
<1>6. ASSUME NEW m, NEW i, M2!HandleNewNode(m, i) PROVE MP2!HandleNewNode(m, i)
  BY <1>2, <1>3, <1>4, <1>5, <1>6, Zenon DEF M2!HandleNewNode, MP2!HandleNewNode
<1>7. ASSUME NEW m, M2!RefreshTimeout(m) PROVE MP2!RefreshTimeout(m)
  BY <1>3, <1>4, <1>5, <1>7, Zenon DEF M2!RefreshTimeout, MP2!RefreshTimeout
<1>8. ASSUME NEW m, M2!RetransTimeout(m) PROVE MP2!RetransTimeout(m)
  BY <1>5, <1>8, Zenon DEF M2!RetransTimeout, MP2!RetransTimeout
<1>9. \A l, s : M2!GetTunnelDevice(l, s) = MP2!GetTunnelDevice(l, s)
  BY Zenon DEF M2!GetTunnelDevice, MP2!GetTunnelDevice
<1>10. \A l, s : M2!AddTunnelIf(l, s) = MP2!AddTunnelIf(l, s)
  BY <1>9, Zenon DEF M2!AddTunnelIf, MP2!AddTunnelIf
<1>11. \A l, d : M2!WithDevice(l, d) = MP2!WithDevice(l, d)
  BY Zenon DEF M2!WithDevice, MP2!WithDevice, M2!NewDevice, MP2!NewDevice
<1>12. \A l, s : M2!AddTunnelList(l, s) = MP2!AddTunnelList(l, s)
  BY <1>10, <1>11, Zenon DEF M2!AddTunnelList, MP2!AddTunnelList
<1>13. \A l, s : M2!RemoveTunnelList(l, s) = MP2!RemoveTunnelList(l, s)
  BY <1>9, Zenon DEF M2!RemoveTunnelList, MP2!RemoveTunnelList
<1>14. \A s, e : M2!RemoveFirst(s, e) = MP2!RemoveFirst(s, e)
  BY Zenon DEF M2!RemoveFirst, MP2!RemoveFirst, M2!SelectInSeq, MP2!SelectInSeq,
               M2!RemoveAt, MP2!RemoveAt, M2!Min, MP2!Min
<1>15. /\ \A t, i : M2!AddNetworkRoute(t, i) = MP2!AddNetworkRoute(t, i)
       /\ \A t, i, h : M2!RemoveRoute(t, i, h) = MP2!RemoveRoute(t, i, h)
       /\ \A t : M2!LookupStatic(t) = MP2!LookupStatic(t)
  BY <1>14, Zenon DEF M2!AddNetworkRoute, MP2!AddNetworkRoute, M2!RemoveRoute,
     MP2!RemoveRoute, M2!LookupStatic, MP2!LookupStatic, M2!Last, MP2!Last
<1>16. \A e : M2!ClearRadvdInterface(e) <=> MP2!ClearRadvdInterface(e)
  BY Zenon DEF M2!ClearRadvdInterface, MP2!ClearRadvdInterface, M2!RemoveFirstMatch,
     MP2!RemoveFirstMatch, M2!SelectInSeq, MP2!SelectInSeq, M2!RemoveAt, MP2!RemoveAt,
     M2!Min, MP2!Min
<1>17. \A m, e : M2!ClearTunnelAndRouting(m, e) <=> MP2!ClearTunnelAndRouting(m, e)
  BY <1>13, <1>15, Zenon DEF M2!ClearTunnelAndRouting, MP2!ClearTunnelAndRouting
<1>18. \A e : M2!TimedOut(e) = MP2!TimedOut(e)
  BY Zenon DEF M2!TimedOut, MP2!TimedOut
<1>19. ASSUME NEW m, M2!ReachableTimeout(m) PROVE MP2!ReachableTimeout(m)
  BY <1>16, <1>17, <1>18, <1>19, Zenon DEF M2!ReachableTimeout, MP2!ReachableTimeout
<1>20. \A m, e : M2!SetupNetwork(m, e) <=> MP2!SetupNetwork(m, e)
  BY <1>10, <1>12, <1>15, Zenon DEF M2!SetupNetwork, MP2!SetupNetwork
<1>21. \A e, hs : M2!AcceptedEntry(e, hs) = MP2!AcceptedEntry(e, hs)
  BY Zenon DEF M2!AcceptedEntry, MP2!AcceptedEntry
<1>22. ASSUME NEW a, NEW hs, NEW life, M2!HandlePba(a, hs, life)
       PROVE  MP2!HandlePbaAccepted(a, hs, life) \/ life = 0
  <2>1. CASE M2!HandlePbaAccepted(a, hs, life)
    BY <1>5, <1>10, <1>20, <1>21, <2>1, Zenon
       DEF M2!HandlePbaAccepted, MP2!HandlePbaAccepted, M2!Current, MP2!Current
  <2>2. CASE M2!HandlePbaDeregistered(a, hs, life)
    BY <2>2, Zenon DEF M2!HandlePbaDeregistered
  <2>. QED BY <1>22, <2>1, <2>2, Zenon DEF M2!HandlePba
<1>23. M2!Bound = MP2!Bound
  BY Zenon DEF M2!Bound, MP2!Bound, M2!Entries, MP2!Entries
<1>24. M2!TunnelLeadsToLma <=> MP2!TunnelLeadsToLma
  BY <1>23, Zenon DEF M2!TunnelLeadsToLma, MP2!TunnelLeadsToLma,
     M2!Cardinality, MP2!Cardinality
<1>25. M2!PrefixRouted <=> MP2!PrefixRouted
  BY <1>15, <1>23, Zenon DEF M2!PrefixRouted, MP2!PrefixRouted
<1>. QED BY <1>1, <1>6, <1>7, <1>8, <1>19, <1>22, <1>23, <1>24, <1>25, Zenon

-----------------------------------------------------------------------------
(***************************************************************************)
(* What is known of the LMA.                                               *)
(***************************************************************************)

LEMMA LmaInitially ==
    ASSUME LP!PoolSuffices, L!Init
    PROVE  /\ LP!AnchorInv /\ bces = <<>> /\ profileHnp = ProfileHnp
           /\ \A h \in Prefix : lmaRoutes[h] = <<>>
<1>1. LP!Init
  BY SameLma
<1>. QED BY <1>1, LmaAssumptions, LP!AnchorInit

LEMMA LmaSteps ==
    ASSUME LP!PoolSuffices, LP!AnchorInv, [LP!Next]_(LP!vars), LP!Lasting'
    PROVE  /\ LP!AnchorInv'
           /\ \A m, hs : LP!Assigned(bces, m, hs) => LP!Assigned(bces', m, hs)
           /\ \A m \in Mn : profileHnp[m] # {} => profileHnp'[m] = profileHnp[m]
           /\ \/ profileHnp' = profileHnp /\ \A h \in Prefix : LP!Exit(h)' = LP!Exit(h)
              \/ \E i \in DOMAIN bces' : LP!Registers(i)
BY LmaAssumptions, LP!AnchorStep

LEMMA LmaHandles ==
    ASSUME LP!PoolSuffices, LP!AnchorInv, NEW p \in Updates, L!HandlePbu(p)
    PROVE  /\ [LP!Next]_(LP!vars) /\ LP!Lasting' /\ LP!Honest(out', bces')
           /\ \A N : LP!Grounded(bces, N) /\ <<p.mn, p.src>> \in N => LP!Grounded(bces', N)
<1>1. LP!HandlePbu(p)
  BY SameLma
<1>. QED BY <1>1, LmaAssumptions, LP!AnchorHandles

LEMMA LmaDelayed ==
    ASSUME LP!PoolSuffices, LP!AnchorInv, NEW i \in DOMAIN bces, L!RegisterTimeout(i)
    PROVE  /\ [LP!Next]_(LP!vars) /\ LP!Lasting' /\ LP!Honest(out', bces')
           /\ \A N : LP!Grounded(bces, N) => LP!Grounded(bces', N)
<1>1. LP!RegisterTimeout(i)
  BY SameLma
<1>. QED BY <1>1, LmaAssumptions, LP!AnchorDelayed

LEMMA LmaElsewhere ==
    ASSUME LP!AnchorInv, out' = None,
           UNCHANGED <<bces, profileHnp, poolIndex, lmaTunnels, lmaRoutes, aborted>>
    PROVE  LP!AnchorInv'
BY LmaAssumptions, LP!AnchorElsewhere

LEMMA LmaMeans ==
    ASSUME LP!AnchorInv, NEW m, NEW hs, LP!Assigned(bces, m, hs)
    PROVE  /\ m \in Mn /\ hs \in SUBSET Prefix /\ hs # {} /\ hs = profileHnp[m]
           /\ \A h \in hs : LP!Exit(h) # None
BY LmaAssumptions, AgentAssumption, LP!AnchorMeans

-----------------------------------------------------------------------------
(***************************************************************************)
(* What is known of each MAG.                                              *)
(***************************************************************************)

LEMMA MagInitially1 ==
    ASSUME M1!Init, NEW l, NEW i
    PROVE  MP1!MagInv /\ MP1!Serving(l, i)
<1>1. MP1!Init
  BY SameMag1
<1>2. MP1!MagInv
  BY <1>1, MagAssumptions, MP1!InitMagInv
<1>. QED BY <1>1, <1>2, MagAssumptions, MP1!ServingInit

LEMMA MagOwn1 ==
    ASSUME MP1!MagInv, NEW P, NEW V, NEW H, MP1!Knows(buList1, sent1, P, V, H),
           NEW m \in Mn, MP1!OwnStep(m), buList1[m] # None \/ m \in V,
           ProfileHnp[m] # {} => P[m] = ProfileHnp[m]
    PROVE  /\ MP1!MagInv' /\ MP1!Knows(buList1', sent1', P, V, H)
           /\ m \in MP1!Bound /\ ProfileHnp[m] # {} => buList1[m].hnps = ProfileHnp[m]
BY MagAssumptions, MP1!OwnStepKnows

LEMMA MagOwnServes1 ==
    ASSUME MP1!MagInv, NEW l, NEW i, MP1!OneWay(l, i), MP1!Serving(l, i), NEW m \in Mn,
           MP1!OwnStep(m),
           m \in MP1!Bound /\ ProfileHnp[m] # {} => buList1[m].hnps = ProfileHnp[m]
    PROVE  MP1!Serving(l, i)'
BY MagAssumptions, MP1!OwnStepServes

LEMMA MagAnswer1 ==
    ASSUME MP1!MagInv, NEW P, NEW V, NEW H, MP1!Knows(buList1, sent1, P, V, H), NEW a,
           a.mn \in Mn, a.mn \in H, NEW hs \in SUBSET Prefix, hs # {}, hs = P[a.mn],
           NEW life, MP1!HandlePbaAccepted(a, hs, life)
    PROVE  /\ MP1!MagInv' /\ MP1!Knows(buList1', sent1', P, V, H)
           /\ a.mn \in MP1!Bound => buList1[a.mn].hnps = hs
BY MagAssumptions, MP1!AnswerKnows

LEMMA MagAnswerServes1 ==
    ASSUME MP1!MagInv, NEW l, NEW i, MP1!OneWay(l, i), MP1!Serving(l, i), NEW a,
           a.mn \in Mn, NEW hs \in SUBSET Prefix, NEW life,
           MP1!HandlePbaAccepted(a, hs, life),
           a.mn \in MP1!Bound => buList1[a.mn].hnps = hs
    PROVE  MP1!Serving(l, i)'
BY MagAssumptions, MP1!AnswerServes

LEMMA MagElsewhere1 ==
    ASSUME MP1!MagInv, now' \in Nat,
           UNCHANGED <<buList1, sequence1, tunnels1, routes1, sourceRoutes1, sent1>>
    PROVE  MP1!MagInv' /\ \A l, i : MP1!Serving(l, i) => MP1!Serving(l, i)'
BY MagAssumptions, MP1!ElsewhereKeeps

LEMMA MagMeans1 ==
    ASSUME MP1!MagInv, NEW l, NEW i, MP1!OneWay(l, i), MP1!Serving(l, i)
    PROVE  M1!TunnelLeadsToLma /\ M1!PrefixRouted
<1>1. MP1!TunnelLeadsToLma /\ MP1!PrefixRouted
  BY MagAssumptions, MP1!ServingMeans
<1>. QED BY <1>1, SameMag1

LEMMA MagInitially2 ==
    ASSUME M2!Init, NEW l, NEW i
    PROVE  MP2!MagInv /\ MP2!Serving(l, i)
<1>1. MP2!Init
  BY SameMag2
<1>2. MP2!MagInv
  BY <1>1, MagAssumptions, MP2!InitMagInv
<1>. QED BY <1>1, <1>2, MagAssumptions, MP2!ServingInit

LEMMA MagOwn2 ==
    ASSUME MP2!MagInv, NEW P, NEW V, NEW H, MP2!Knows(buList2, sent2, P, V, H),
           NEW m \in Mn, MP2!OwnStep(m), buList2[m] # None \/ m \in V,
           ProfileHnp[m] # {} => P[m] = ProfileHnp[m]
    PROVE  /\ MP2!MagInv' /\ MP2!Knows(buList2', sent2', P, V, H)
           /\ m \in MP2!Bound /\ ProfileHnp[m] # {} => buList2[m].hnps = ProfileHnp[m]
BY MagAssumptions, MP2!OwnStepKnows

LEMMA MagOwnServes2 ==
    ASSUME MP2!MagInv, NEW l, NEW i, MP2!OneWay(l, i), MP2!Serving(l, i), NEW m \in Mn,
           MP2!OwnStep(m),
           m \in MP2!Bound /\ ProfileHnp[m] # {} => buList2[m].hnps = ProfileHnp[m]
    PROVE  MP2!Serving(l, i)'
BY MagAssumptions, MP2!OwnStepServes

LEMMA MagAnswer2 ==
    ASSUME MP2!MagInv, NEW P, NEW V, NEW H, MP2!Knows(buList2, sent2, P, V, H), NEW a,
           a.mn \in Mn, a.mn \in H, NEW hs \in SUBSET Prefix, hs # {}, hs = P[a.mn],
           NEW life, MP2!HandlePbaAccepted(a, hs, life)
    PROVE  /\ MP2!MagInv' /\ MP2!Knows(buList2', sent2', P, V, H)
           /\ a.mn \in MP2!Bound => buList2[a.mn].hnps = hs
BY MagAssumptions, MP2!AnswerKnows

LEMMA MagAnswerServes2 ==
    ASSUME MP2!MagInv, NEW l, NEW i, MP2!OneWay(l, i), MP2!Serving(l, i), NEW a,
           a.mn \in Mn, NEW hs \in SUBSET Prefix, NEW life,
           MP2!HandlePbaAccepted(a, hs, life),
           a.mn \in MP2!Bound => buList2[a.mn].hnps = hs
    PROVE  MP2!Serving(l, i)'
BY MagAssumptions, MP2!AnswerServes

LEMMA MagElsewhere2 ==
    ASSUME MP2!MagInv, now' \in Nat,
           UNCHANGED <<buList2, sequence2, tunnels2, routes2, sourceRoutes2, sent2>>
    PROVE  MP2!MagInv' /\ \A l, i : MP2!Serving(l, i) => MP2!Serving(l, i)'
BY MagAssumptions, MP2!ElsewhereKeeps

LEMMA MagMeans2 ==
    ASSUME MP2!MagInv, NEW l, NEW i, MP2!OneWay(l, i), MP2!Serving(l, i)
    PROVE  M2!TunnelLeadsToLma /\ M2!PrefixRouted
<1>1. MP2!TunnelLeadsToLma /\ MP2!PrefixRouted
  BY MagAssumptions, MP2!ServingMeans
<1>. QED BY <1>1, SameMag2

-----------------------------------------------------------------------------
(***************************************************************************)
(* The invariant of the whole.  The LMA has bindings only for nodes and    *)
(* MAGs that notifications are about; an answer under way that says        *)
(* ACCEPTED is about a binding; what the MAGs know is true.                *)
(***************************************************************************)

\* The nodes that attached to MAG k by the notifications N, and those with a
\* binding in cache s.
At(N, k) == {n \in Mn : <<n, k>> \in N}
Registered(s) == {n \in Mn : \E hs : LP!Assigned(s, n, hs)}

MessagesInv ==
    /\ notes \subseteq Mn \X {mag1, mag2}
    /\ LP!Grounded(bces, notes)
    /\ None \notin pbas /\ \A a \in pbas : LP!Honest(a, bces)

Mag1Inv ==
    /\ MP1!MagInv
    /\ MP1!Knows(buList1, sent1, profileHnp, At(notes, mag1), Registered(bces))
    /\ \A i : AccessIf = {i} => MP1!Serving(lma, i)

Mag2Inv ==
    /\ MP2!MagInv
    /\ MP2!Knows(buList2, sent2, profileHnp, At(notes, mag2), Registered(bces))
    /\ \A i : AccessIf = {i} => MP2!Serving(lma, i)

Pmip6Inv == LP!AnchorInv /\ MessagesInv /\ Mag1Inv /\ Mag2Inv

LEMMA Pmip6Init ==
    ASSUME LP!PoolSuffices, Init
    PROVE  Pmip6Inv
<1>1. L!Init /\ M1!Init /\ M2!Init /\ notes = {} /\ pbas = {}
  BY DEF Init
<1>2. LP!AnchorInv /\ bces = <<>>
  BY <1>1, LmaInitially
<1>3. MessagesInv
  BY <1>1, <1>2 DEF MessagesInv, LP!Grounded
<1>4. /\ MP1!MagInv /\ MP2!MagInv
      /\ \A i : MP1!Serving(lma, i) /\ MP2!Serving(lma, i)
  BY <1>1, MagInitially1, MagInitially2
<1>5. /\ sent1 = {} /\ \A m \in Mn : buList1[m] = None
      /\ sent2 = {} /\ \A m \in Mn : buList2[m] = None
  BY <1>1 DEF M1!Init, M2!Init
<1>6. MP1!Knows(buList1, sent1, profileHnp, At(notes, mag1), Registered(bces))
  BY <1>5 DEF MP1!Knows
<1>7. MP2!Knows(buList2, sent2, profileHnp, At(notes, mag2), Registered(bces))
  BY <1>5 DEF MP2!Knows
<1>. QED BY <1>2, <1>3, <1>4, <1>6, <1>7 DEF Pmip6Inv, Mag1Inv, Mag2Inv

\* A MAG that takes no part in a step, whatever attaches or is registered in it.
LEMMA OtherMag1 ==
    ASSUME Mag1Inv, now' \in Nat, notes \subseteq notes',
           \A m, hs : LP!Assigned(bces, m, hs) => LP!Assigned(bces', m, hs),
           \A m \in Mn : profileHnp[m] # {} => profileHnp'[m] = profileHnp[m],
           UNCHANGED <<buList1, sequence1, tunnels1, routes1, sourceRoutes1, sent1>>
    PROVE  Mag1Inv'
<1>1. MP1!MagInv' /\ \A l, i : MP1!Serving(l, i) => MP1!Serving(l, i)'
  BY MagElsewhere1 DEF Mag1Inv
<1>2. At(notes, mag1) \subseteq At(notes', mag1) /\ Registered(bces) \subseteq Registered(bces')
  BY DEF At, Registered
<1>3. MP1!Knows(buList1, sent1, profileHnp, At(notes, mag1), Registered(bces))
  BY DEF Mag1Inv
<1>4. MP1!Knows(buList1, sent1, profileHnp', At(notes', mag1), Registered(bces'))
  BY <1>2, <1>3, MagAssumptions, MP1!KnowsMore
<1>5. MP1!Knows(buList1', sent1', profileHnp', At(notes', mag1), Registered(bces'))
  BY <1>4
<1>. QED BY <1>1, <1>5 DEF Mag1Inv

LEMMA OtherMag2 ==
    ASSUME Mag2Inv, now' \in Nat, notes \subseteq notes',
           \A m, hs : LP!Assigned(bces, m, hs) => LP!Assigned(bces', m, hs),
           \A m \in Mn : profileHnp[m] # {} => profileHnp'[m] = profileHnp[m],
           UNCHANGED <<buList2, sequence2, tunnels2, routes2, sourceRoutes2, sent2>>
    PROVE  Mag2Inv'
<1>1. MP2!MagInv' /\ \A l, i : MP2!Serving(l, i) => MP2!Serving(l, i)'
  BY MagElsewhere2 DEF Mag2Inv
<1>2. At(notes, mag2) \subseteq At(notes', mag2) /\ Registered(bces) \subseteq Registered(bces')
  BY DEF At, Registered
<1>3. MP2!Knows(buList2, sent2, profileHnp, At(notes, mag2), Registered(bces))
  BY DEF Mag2Inv
<1>4. MP2!Knows(buList2, sent2, profileHnp', At(notes', mag2), Registered(bces'))
  BY <1>2, <1>3, MagAssumptions, MP2!KnowsMore
<1>5. MP2!Knows(buList2', sent2', profileHnp', At(notes', mag2), Registered(bces'))
  BY <1>4
<1>. QED BY <1>1, <1>5 DEF Mag2Inv

\* Node n attaches to MAG k.
LEMMA AttachKeeps ==
    ASSUME Pmip6Inv, NEW n \in Mn, NEW k \in {mag1, mag2}, Attach(n, k)
    PROVE  Pmip6Inv'
<1>1. /\ notes' = notes \cup {<<n, k>>} /\ out' = None /\ pbas' = pbas
      /\ UNCHANGED <<bces, profileHnp, poolIndex, lmaTunnels, lmaRoutes, aborted>>
      /\ UNCHANGED <<buList1, sequence1, tunnels1, routes1, sourceRoutes1, sent1>>
      /\ UNCHANGED <<buList2, sequence2, tunnels2, routes2, sourceRoutes2, sent2>>
      /\ now' = now
  BY DEF Attach, magVars1, magVars2
<1>2. LP!AnchorInv'
  BY <1>1, LmaElsewhere DEF Pmip6Inv
<1>3. MessagesInv'
  BY <1>1 DEF Pmip6Inv, MessagesInv, LP!Grounded
<1>4. now' \in Nat
  BY <1>1 DEF Pmip6Inv, Mag1Inv, MP1!MagInv
<1>5. /\ notes \subseteq notes'
      /\ \A m, hs : LP!Assigned(bces, m, hs) => LP!Assigned(bces', m, hs)
      /\ \A m \in Mn : profileHnp[m] # {} => profileHnp'[m] = profileHnp[m]
  BY <1>1
<1>6. Mag1Inv' /\ Mag2Inv'
  BY <1>1, <1>4, <1>5, OtherMag1, OtherMag2 DEF Pmip6Inv
<1>. QED BY <1>2, <1>3, <1>6 DEF Pmip6Inv

\* An update of a MAG is one the LMA is ready for, and comes from a MAG its node
\* attached to.
LEMMA UpdateArrives1 ==
    ASSUME Pmip6Inv, NEW p \in sent1
    PROVE  /\ Received(p, mag1) \in Updates
           /\ <<Received(p, mag1).mn, Received(p, mag1).src>> \in notes
<1>1. p \in MP1!PbuType /\ p.mn \in At(notes, mag1)
  BY DEF Pmip6Inv, Mag1Inv, MP1!MagInv, MP1!Knows
<1>2. /\ p.mn \in Mn /\ p.hnps \in SUBSET Prefix /\ p.seq \in Nat /\ p.time \in Nat
      /\ <<p.mn, mag1>> \in notes
  BY <1>1 DEF MP1!PbuType, At
<1>3. /\ Att[p.mn][mag1] \in {Att[n][k] : n \in Mn, k \in {mag1, mag2}}
      /\ linkOf[p.mn] \in {linkOf[n] : n \in Mn}
      /\ (IF p.hnps = {} THEN {ZeroPrefix} ELSE p.hnps) \in SUBSET (Prefix \cup {ZeroPrefix})
  BY <1>2
<1>. QED BY <1>2, <1>3 DEF Received, Updates

LEMMA UpdateArrives2 ==
    ASSUME Pmip6Inv, NEW p \in sent2
    PROVE  /\ Received(p, mag2) \in Updates
           /\ <<Received(p, mag2).mn, Received(p, mag2).src>> \in notes
<1>1. p \in MP2!PbuType /\ p.mn \in At(notes, mag2)
  BY DEF Pmip6Inv, Mag2Inv, MP2!MagInv, MP2!Knows
<1>2. /\ p.mn \in Mn /\ p.hnps \in SUBSET Prefix /\ p.seq \in Nat /\ p.time \in Nat
      /\ <<p.mn, mag2>> \in notes
  BY <1>1 DEF MP2!PbuType, At
<1>3. /\ Att[p.mn][mag2] \in {Att[n][k] : n \in Mn, k \in {mag1, mag2}}
      /\ linkOf[p.mn] \in {linkOf[n] : n \in Mn}
      /\ (IF p.hnps = {} THEN {ZeroPrefix} ELSE p.hnps) \in SUBSET (Prefix \cup {ZeroPrefix})
  BY <1>2
<1>. QED BY <1>2, <1>3 DEF Received, Updates

\* What the LMA does in a step of its own.
LmaActs ==
    /\ [LP!Next]_(LP!vars) /\ LP!Lasting' /\ LP!Honest(out', bces')
    /\ LP!Grounded(bces', notes)
    /\ now' = now

LEMMA LmaStepActs ==
    ASSUME LP!PoolSuffices, Pmip6Inv, LmaStep
    PROVE  LmaActs
<1>0. LP!AnchorInv /\ LP!Grounded(bces, notes)
  BY DEF Pmip6Inv, MessagesInv
<1>1. ASSUME NEW p \in Updates, <<p.mn, p.src>> \in notes, L!HandlePbu(p) PROVE LmaActs
  <2>1. now' = now
    BY <1>1 DEF L!HandlePbu, L!Reject, L!Refresh, L!DelayRegistration, L!Handoff,
                L!Deregister, L!Finds, L!Create, L!UnknownDeregister
  <2>. QED BY <1>0, <1>1, <2>1, LmaHandles DEF LmaActs
<1>2. ASSUME NEW i \in DOMAIN bces, L!RegisterTimeout(i) PROVE LmaActs
  <2>1. now' = now
    BY <1>2 DEF L!RegisterTimeout
  <2>. QED BY <1>0, <1>2, <2>1, LmaDelayed DEF LmaActs
<1>3. ASSUME NEW p \in sent1, L!HandlePbu(Received(p, mag1)) PROVE LmaActs
  BY <1>1, <1>3, UpdateArrives1
<1>4. ASSUME NEW p \in sent2, L!HandlePbu(Received(p, mag2)) PROVE LmaActs
  BY <1>1, <1>4, UpdateArrives2
<1>. QED BY <1>2, <1>3, <1>4 DEF LmaStep

\* The LMA handles an update or a timeout.
LEMMA LmaStepKeeps ==
    ASSUME LP!PoolSuffices, Pmip6Inv, LmaStep
    PROVE  Pmip6Inv'
<1>1. /\ [LP!Next]_(LP!vars) /\ LP!Lasting' /\ LP!Honest(out', bces')
      /\ LP!Grounded(bces', notes) /\ now' = now
  BY LmaStepActs DEF LmaActs
<1>2. /\ pbas' = IF out' = None THEN pbas ELSE pbas \cup {out'}
      /\ notes' = notes
      /\ UNCHANGED <<buList1, sequence1, tunnels1, routes1, sourceRoutes1, sent1>>
      /\ UNCHANGED <<buList2, sequence2, tunnels2, routes2, sourceRoutes2, sent2>>
  BY DEF LmaStep, magVars1, magVars2
<1>3. /\ LP!AnchorInv'
      /\ \A m, hs : LP!Assigned(bces, m, hs) => LP!Assigned(bces', m, hs)
      /\ \A m \in Mn : profileHnp[m] # {} => profileHnp'[m] = profileHnp[m]
  BY <1>1, LmaSteps DEF Pmip6Inv
<1>4. \A a : LP!Honest(a, bces) => LP!Honest(a, bces')
  BY <1>3 DEF LP!Honest
<1>5. None \notin pbas' /\ \A a \in pbas' : LP!Honest(a, bces')
  BY <1>1, <1>2, <1>4 DEF Pmip6Inv, MessagesInv
<1>6. MessagesInv'
  BY <1>1, <1>2, <1>5 DEF Pmip6Inv, MessagesInv
<1>7. now' \in Nat /\ notes \subseteq notes'
  BY <1>1, <1>2 DEF Pmip6Inv, Mag1Inv, MP1!MagInv
<1>8. Mag1Inv' /\ Mag2Inv'
  BY <1>2, <1>3, <1>7, OtherMag1, OtherMag2 DEF Pmip6Inv
<1>. QED BY <1>3, <1>6, <1>8 DEF Pmip6Inv

\* Time passes.
LEMMA TickKeeps ==
    ASSUME LP!PoolSuffices, Pmip6Inv, Tick
    PROVE  Pmip6Inv'
<1>1. /\ out' = None /\ now' = now + 1
      /\ UNCHANGED <<bces, profileHnp, poolIndex, lmaTunnels, lmaRoutes, aborted>>
  BY DEF Tick, L!Tick
<1>2. /\ notes' = notes /\ pbas' = pbas
      /\ UNCHANGED <<buList1, sequence1, tunnels1, routes1, sourceRoutes1, sent1>>
      /\ UNCHANGED <<buList2, sequence2, tunnels2, routes2, sourceRoutes2, sent2>>
  BY DEF Tick, magVars1, magVars2
<1>3. LP!AnchorInv'
  BY <1>1, LmaElsewhere DEF Pmip6Inv
<1>4. MessagesInv'
  BY <1>1, <1>2 DEF Pmip6Inv, MessagesInv
<1>5. now' \in Nat
  BY <1>1 DEF Pmip6Inv, Mag1Inv, MP1!MagInv
<1>6. /\ notes \subseteq notes'
      /\ \A m, hs : LP!Assigned(bces, m, hs) => LP!Assigned(bces', m, hs)
      /\ \A m \in Mn : profileHnp[m] # {} => profileHnp'[m] = profileHnp[m]
  BY <1>1, <1>2
<1>7. Mag1Inv' /\ Mag2Inv'
  BY <1>2, <1>5, <1>6, OtherMag1, OtherMag2 DEF Pmip6Inv
<1>. QED BY <1>3, <1>4, <1>7 DEF Pmip6Inv

\* A MAG handles a notification, an answer or a timeout.
LEMMA MagStepKeeps1 ==
    ASSUME LP!PoolSuffices, Pmip6Inv, MagStep1
    PROVE  Pmip6Inv'
<1>1. /\ out' = None /\ pbas' = pbas /\ notes' = notes
      /\ UNCHANGED <<bces, profileHnp, poolIndex, lmaTunnels, lmaRoutes, aborted>>
      /\ UNCHANGED <<buList2, sequence2, tunnels2, routes2, sourceRoutes2, sent2>>
  BY DEF MagStep1, magVars2
<1>2. LP!AnchorInv'
  BY <1>1, LmaElsewhere DEF Pmip6Inv
<1>3. MessagesInv'
  BY <1>1 DEF Pmip6Inv, MessagesInv
<1>4. /\ MP1!MagInv
      /\ MP1!Knows(buList1, sent1, profileHnp, At(notes, mag1), Registered(bces))
      /\ \A i : AccessIf = {i} => MP1!Serving(lma, i)
  BY DEF Pmip6Inv, Mag1Inv
<1>5. \A i : AccessIf = {i} => MP1!OneWay(lma, i)
  BY AgentAssumption DEF MP1!OneWay
<1> DEFINE Kept ==
      /\ MP1!MagInv'
      /\ MP1!Knows(buList1', sent1', profileHnp, At(notes, mag1), Registered(bces))
      /\ \A i : AccessIf = {i} => MP1!Serving(lma, i)'
<1>6. ASSUME NEW m \in Mn, MP1!OwnStep(m), buList1[m] # None \/ m \in At(notes, mag1)
      PROVE  Kept
  <2>1. ProfileHnp[m] # {} => profileHnp[m] = ProfileHnp[m]
    BY DEF Pmip6Inv, LP!AnchorInv, LP!PoolInv
  <2>2. /\ MP1!MagInv'
        /\ MP1!Knows(buList1', sent1', profileHnp, At(notes, mag1), Registered(bces))
        /\ m \in MP1!Bound /\ ProfileHnp[m] # {} => buList1[m].hnps = ProfileHnp[m]
    BY <1>4, <1>6, <2>1, MagOwn1
  <2>3. ASSUME NEW i, AccessIf = {i} PROVE MP1!Serving(lma, i)'
    <3>1. MP1!Serving(lma, i) /\ MP1!OneWay(lma, i)
      BY <1>4, <1>5, <2>3
    <3>. QED BY <1>4, <1>6, <2>2, <3>1, MagOwnServes1
  <2>. QED BY <2>2, <2>3
<1>7. ASSUME NEW a \in pbas, a.status = "ACCEPTED", M1!HandlePba(a, a.hnps, a.life)
      PROVE  Kept
  <2>1. a # None /\ LP!Honest(a, bces)
    BY DEF Pmip6Inv, MessagesInv
  <2>2. a.life > 0 /\ LP!Assigned(bces, a.mn, a.hnps)
    BY <1>7, <2>1 DEF LP!Honest
  <2>3. /\ a.mn \in Mn /\ a.hnps \in SUBSET Prefix /\ a.hnps # {}
        /\ a.hnps = profileHnp[a.mn]
    BY <2>2, LmaMeans DEF Pmip6Inv
  <2>4. a.mn \in Registered(bces)
    BY <2>2, <2>3 DEF Registered
  <2>5. MP1!HandlePbaAccepted(a, a.hnps, a.life)
    <3>1. a.life # 0
      BY <2>2
    <3>. QED BY <1>7, <3>1, SameMag1
  <2>6. /\ MP1!MagInv'
        /\ MP1!Knows(buList1', sent1', profileHnp, At(notes, mag1), Registered(bces))
        /\ a.mn \in MP1!Bound => buList1[a.mn].hnps = a.hnps
    BY <1>4, <2>3, <2>4, <2>5, MagAnswer1
  <2>7. ASSUME NEW i, AccessIf = {i} PROVE MP1!Serving(lma, i)'
    <3>1. MP1!Serving(lma, i) /\ MP1!OneWay(lma, i)
      BY <1>4, <1>5, <2>7
    <3>. QED BY <1>4, <2>3, <2>5, <2>6, <3>1, MagAnswerServes1
  <2>. QED BY <2>6, <2>7
<1>8. Kept
  <2>1. ASSUME NEW n \in Mn, NEW i \in AccessIf, <<n, mag1>> \in notes,
               M1!HandleNewNode(n, i)
        PROVE  Kept
    <3>1. MP1!HandleNewNode(n, i) /\ n \in At(notes, mag1)
      BY <2>1, SameMag1 DEF At
    <3>2. MP1!OwnStep(n)
      BY <3>1 DEF MP1!OwnStep
    <3>. QED BY <1>6, <3>1, <3>2
  <2>2. ASSUME NEW n \in Mn, M1!RefreshTimeout(n) \/ M1!RetransTimeout(n)
                             \/ M1!ReachableTimeout(n)
        PROVE  Kept
    <3>1. MP1!OwnStep(n)
      BY <2>2, SameMag1 DEF MP1!OwnStep
    <3>2. buList1[n] # None
      BY <2>2 DEF M1!RefreshTimeout, M1!RetransTimeout, M1!ReachableTimeout
    <3>. QED BY <1>6, <3>1, <3>2
  <2>. QED BY <1>7, <2>1, <2>2 DEF MagStep1
<1>9. Mag1Inv'
  BY <1>1, <1>8 DEF Mag1Inv
<1>10. now' \in Nat
  BY <1>8 DEF MP1!MagInv
<1>11. Mag2Inv'
  BY <1>1, <1>10, OtherMag2 DEF Pmip6Inv
<1>. QED BY <1>2, <1>3, <1>9, <1>11 DEF Pmip6Inv

LEMMA MagStepKeeps2 ==
    ASSUME LP!PoolSuffices, Pmip6Inv, MagStep2
    PROVE  Pmip6Inv'
<1>1. /\ out' = None /\ pbas' = pbas /\ notes' = notes
      /\ UNCHANGED <<bces, profileHnp, poolIndex, lmaTunnels, lmaRoutes, aborted>>
      /\ UNCHANGED <<buList1, sequence1, tunnels1, routes1, sourceRoutes1, sent1>>
  BY DEF MagStep2, magVars1
<1>2. LP!AnchorInv'
  BY <1>1, LmaElsewhere DEF Pmip6Inv
<1>3. MessagesInv'
  BY <1>1 DEF Pmip6Inv, MessagesInv
<1>4. /\ MP2!MagInv
      /\ MP2!Knows(buList2, sent2, profileHnp, At(notes, mag2), Registered(bces))
      /\ \A i : AccessIf = {i} => MP2!Serving(lma, i)
  BY DEF Pmip6Inv, Mag2Inv
<1>5. \A i : AccessIf = {i} => MP2!OneWay(lma, i)
  BY AgentAssumption DEF MP2!OneWay
<1> DEFINE Kept ==
      /\ MP2!MagInv'
      /\ MP2!Knows(buList2', sent2', profileHnp, At(notes, mag2), Registered(bces))
      /\ \A i : AccessIf = {i} => MP2!Serving(lma, i)'
<1>6. ASSUME NEW m \in Mn, MP2!OwnStep(m), buList2[m] # None \/ m \in At(notes, mag2)
      PROVE  Kept
  <2>1. ProfileHnp[m] # {} => profileHnp[m] = ProfileHnp[m]
    BY DEF Pmip6Inv, LP!AnchorInv, LP!PoolInv
  <2>2. /\ MP2!MagInv'
        /\ MP2!Knows(buList2', sent2', profileHnp, At(notes, mag2), Registered(bces))
        /\ m \in MP2!Bound /\ ProfileHnp[m] # {} => buList2[m].hnps = ProfileHnp[m]
    BY <1>4, <1>6, <2>1, MagOwn2
  <2>3. ASSUME NEW i, AccessIf = {i} PROVE MP2!Serving(lma, i)'
    <3>1. MP2!Serving(lma, i) /\ MP2!OneWay(lma, i)
      BY <1>4, <1>5, <2>3
    <3>. QED BY <1>4, <1>6, <2>2, <3>1, MagOwnServes2
  <2>. QED BY <2>2, <2>3
<1>7. ASSUME NEW a \in pbas, a.status = "ACCEPTED", M2!HandlePba(a, a.hnps, a.life)
      PROVE  Kept
  <2>1. a # None /\ LP!Honest(a, bces)
    BY DEF Pmip6Inv, MessagesInv
  <2>2. a.life > 0 /\ LP!Assigned(bces, a.mn, a.hnps)
    BY <1>7, <2>1 DEF LP!Honest
  <2>3. /\ a.mn \in Mn /\ a.hnps \in SUBSET Prefix /\ a.hnps # {}
        /\ a.hnps = profileHnp[a.mn]
    BY <2>2, LmaMeans DEF Pmip6Inv
  <2>4. a.mn \in Registered(bces)
    BY <2>2, <2>3 DEF Registered
  <2>5. MP2!HandlePbaAccepted(a, a.hnps, a.life)
    <3>1. a.life # 0
      BY <2>2
    <3>. QED BY <1>7, <3>1, SameMag2
  <2>6. /\ MP2!MagInv'
        /\ MP2!Knows(buList2', sent2', profileHnp, At(notes, mag2), Registered(bces))
        /\ a.mn \in MP2!Bound => buList2[a.mn].hnps = a.hnps
    BY <1>4, <2>3, <2>4, <2>5, MagAnswer2
  <2>7. ASSUME NEW i, AccessIf = {i} PROVE MP2!Serving(lma, i)'
    <3>1. MP2!Serving(lma, i) /\ MP2!OneWay(lma, i)
      BY <1>4, <1>5, <2>7
    <3>. QED BY <1>4, <2>3, <2>5, <2>6, <3>1, MagAnswerServes2
  <2>. QED BY <2>6, <2>7
<1>8. Kept
  <2>1. ASSUME NEW n \in Mn, NEW i \in AccessIf, <<n, mag2>> \in notes,
               M2!HandleNewNode(n, i)
        PROVE  Kept
    <3>1. MP2!HandleNewNode(n, i) /\ n \in At(notes, mag2)
      BY <2>1, SameMag2 DEF At
    <3>2. MP2!OwnStep(n)
      BY <3>1 DEF MP2!OwnStep
    <3>. QED BY <1>6, <3>1, <3>2
  <2>2. ASSUME NEW n \in Mn, M2!RefreshTimeout(n) \/ M2!RetransTimeout(n)
                             \/ M2!ReachableTimeout(n)
        PROVE  Kept
    <3>1. MP2!OwnStep(n)
      BY <2>2, SameMag2 DEF MP2!OwnStep
    <3>2. buList2[n] # None
      BY <2>2 DEF M2!RefreshTimeout, M2!RetransTimeout, M2!ReachableTimeout
    <3>. QED BY <1>6, <3>1, <3>2
  <2>. QED BY <1>7, <2>1, <2>2 DEF MagStep2
<1>9. Mag2Inv'
  BY <1>1, <1>8 DEF Mag2Inv
<1>10. now' \in Nat
  BY <1>8 DEF MP2!MagInv
<1>11. Mag1Inv'
  BY <1>1, <1>10, OtherMag1 DEF Pmip6Inv
<1>. QED BY <1>2, <1>3, <1>9, <1>11 DEF Pmip6Inv

LEMMA Pmip6Next ==
    ASSUME LP!PoolSuffices
    PROVE  Pmip6Inv /\ [Next]_vars => Pmip6Inv'
<1> SUFFICES ASSUME Pmip6Inv, [Next]_vars PROVE Pmip6Inv'
  OBVIOUS
<1>1. CASE UNCHANGED vars
  <2>1. /\ notes' = notes /\ pbas' = pbas /\ now' = now
        /\ UNCHANGED <<bces, profileHnp, poolIndex, lmaTunnels, lmaRoutes, out, aborted>>
        /\ UNCHANGED <<buList1, sequence1, tunnels1, routes1, sourceRoutes1, sent1>>
        /\ UNCHANGED <<buList2, sequence2, tunnels2, routes2, sourceRoutes2, sent2>>
    BY <1>1 DEF vars, lmaVars, magVars1, magVars2
  <2>2. LP!AnchorInv' 
    <3>1. [LP!Next]_(LP!vars)
      BY <2>1 DEF LP!vars
    <3>2. LP!Lasting'
      BY <2>1 DEF Pmip6Inv, LP!AnchorInv, LP!Lasting
    <3>. QED BY <3>1, <3>2, LmaSteps DEF Pmip6Inv
  <2>3. MessagesInv'
    BY <2>1 DEF Pmip6Inv, MessagesInv
  <2>4. /\ notes \subseteq notes'
        /\ \A m, hs : LP!Assigned(bces, m, hs) => LP!Assigned(bces', m, hs)
        /\ \A m \in Mn : profileHnp[m] # {} => profileHnp'[m] = profileHnp[m]
    BY <2>1
  <2>5. now' \in Nat
    BY <2>1 DEF Pmip6Inv, Mag1Inv, MP1!MagInv
  <2>6. Mag1Inv' /\ Mag2Inv'
    BY <2>1, <2>4, <2>5, OtherMag1, OtherMag2 DEF Pmip6Inv
  <2>. QED BY <2>2, <2>3, <2>6 DEF Pmip6Inv
<1>. QED BY <1>1, AttachKeeps, LmaStepKeeps, MagStepKeeps1, MagStepKeeps2, TickKeeps DEF Next

\* The LMA, the MAGs and the messages between them always fit together.
THEOREM Pmip6InvCorrect ==
    ASSUME LP!PoolSuffices
    PROVE  Spec => []Pmip6Inv
<1>1. Init => Pmip6Inv
  BY Pmip6Init
<1>. QED BY <1>1, Pmip6Next, PTL DEF Spec

\* In whatever order notifications, updates, answers and timeouts arrive, a MAG
\* names no prefixes for a node but those the LMA assigned to it.
THEOREM PrefixAgreementCorrect ==
    ASSUME LP!PoolSuffices
    PROVE  Spec => []PrefixAgreement
<1>1. Pmip6Inv => PrefixAgreement
  <2> SUFFICES ASSUME Pmip6Inv PROVE PrefixAgreement
    OBVIOUS
  <2>1. MP1!Knows(buList1, sent1, profileHnp, At(notes, mag1), Registered(bces))
    BY DEF Pmip6Inv, Mag1Inv
  <2>2. MP2!Knows(buList2, sent2, profileHnp, At(notes, mag2), Registered(bces))
    BY DEF Pmip6Inv, Mag2Inv
  <2>. QED BY <2>1, <2>2 DEF PrefixAgreement, MP1!Knows, MP2!Knows, M1!Bound, M2!Bound,
                             M1!Entries, M2!Entries
<1>. QED BY <1>1, Pmip6InvCorrect, PTL

LEMMA SameExit ==
    /\ \A h : ExitOf(h) = LP!Exit(h)
    /\ \A h : ExitOf(h)' = LP!Exit(h)'
<1>1. \A t : L!LookupStatic(t) = LP!LookupStatic(t)
  BY SameRoutes
<1>. QED BY <1>1, Zenon DEF ExitOf, LP!Exit

\* If each MAG has one access interface, a node with a tunnel at a MAG is served
\* from end to end: the LMA sends its packets to some MAG, the tunnel leads to
\* the LMA, and both directions are routed there.
THEOREM ServedEndToEndCorrect ==
    ASSUME LP!PoolSuffices, NEW i, AccessIf = {i}
    PROVE  Spec => []ServedEndToEnd
<1>1. Pmip6Inv => ServedEndToEnd
  <2> SUFFICES ASSUME Pmip6Inv PROVE ServedEndToEnd
    OBVIOUS
  <2>1. MP1!Knows(buList1, sent1, profileHnp, At(notes, mag1), Registered(bces))
        /\ MP1!MagInv /\ MP1!Serving(lma, i)
    BY DEF Pmip6Inv, Mag1Inv
  <2>2. MP2!Knows(buList2, sent2, profileHnp, At(notes, mag2), Registered(bces))
        /\ MP2!MagInv /\ MP2!Serving(lma, i)
    BY DEF Pmip6Inv, Mag2Inv
  <2>3. MP1!OneWay(lma, i) /\ MP2!OneWay(lma, i)
    BY AgentAssumption DEF MP1!OneWay, MP2!OneWay
  <2>4. M1!TunnelLeadsToLma /\ M2!TunnelLeadsToLma /\ M1!PrefixRouted /\ M2!PrefixRouted
    BY <2>1, <2>2, <2>3, MagMeans1, MagMeans2
  <2>5. ASSUME NEW n \in Mn, n \in Registered(bces), NEW h \in profileHnp[n]
        PROVE  ExitOf(h) # None
    <3>1. PICK hs : LP!Assigned(bces, n, hs)
      BY <2>5 DEF Registered
    <3>2. hs = profileHnp[n] /\ \A x \in hs : LP!Exit(x) # None
      BY <3>1, LmaMeans DEF Pmip6Inv
    <3>. QED BY <3>2, SameExit
  <2>6. ASSUME NEW n \in M1!Bound
        PROVE  n \in Mn /\ n \in Registered(bces) /\ buList1[n].hnps = profileHnp[n]
    BY <2>1 DEF MP1!Knows, M1!Bound, M1!Entries
  <2>7. ASSUME NEW n \in M2!Bound
        PROVE  n \in Mn /\ n \in Registered(bces) /\ buList2[n].hnps = profileHnp[n]
    BY <2>2 DEF MP2!Knows, M2!Bound, M2!Entries
  <2>8. \A n \in M1!Bound : \A h \in buList1[n].hnps : ExitOf(h) # None
    BY <2>5, <2>6
  <2>9. \A n \in M2!Bound : \A h \in buList2[n].hnps : ExitOf(h) # None
    BY <2>5, <2>7
  <2>. QED BY <2>4, <2>8, <2>9 DEF ServedEndToEnd
<1>. QED BY <1>1, Pmip6InvCorrect, PTL

-----------------------------------------------------------------------------
(***************************************************************************)
(* The promise of Mobility.                                                *)
(***************************************************************************)

LEMMA PromiseInit ==
    ASSUME LP!PoolSuffices, Init
    PROVE  Mob!Init
<1>1. L!Init /\ notes = {}
  BY DEF Init
<1>2. profileHnp = ProfileHnp /\ \A h \in Prefix : lmaRoutes[h] = <<>>
  BY <1>1, LmaInitially
<1>3. \A h \in Prefix : ExitOf(h) = None
  BY <1>2 DEF ExitOf
<1>. QED BY <1>1, <1>2, <1>3 DEF Mob!Init

\* Neither who attached nor what the LMA sends where is changed.
LEMMA PromiseStutters ==
    ASSUME UNCHANGED <<notes, profileHnp>>, \A h \in Prefix : ExitOf(h)' = ExitOf(h)
    PROVE  UNCHANGED Mob!vars
<1>1. [h \in Prefix |-> ExitOf(h)]' = [h \in Prefix |-> ExitOf(h)]
  OBVIOUS
<1>. QED BY <1>1 DEF Mob!vars

\* A step of the LMA is a registration or nothing.
LEMMA LmaStepPromise ==
    ASSUME LP!PoolSuffices, Pmip6Inv, LmaStep
    PROVE  [Mob!Next]_(Mob!vars)
<1>1. [LP!Next]_(LP!vars) /\ LP!Lasting' /\ LP!Grounded(bces', notes)
  BY LmaStepActs DEF LmaActs
<1>2. notes' = notes /\ notes \subseteq Mn \X {mag1, mag2}
  BY DEF LmaStep, Pmip6Inv, MessagesInv
<1>3. \/ profileHnp' = profileHnp /\ \A h \in Prefix : LP!Exit(h)' = LP!Exit(h)
      \/ \E i \in DOMAIN bces' : LP!Registers(i)
  BY <1>1, LmaSteps DEF Pmip6Inv
<1>4. CASE profileHnp' = profileHnp /\ \A h \in Prefix : LP!Exit(h)' = LP!Exit(h)
  <2>1. \A h \in Prefix : ExitOf(h)' = ExitOf(h)
    BY <1>4, SameExit
  <2>. QED BY <1>2, <1>4, <2>1, PromiseStutters
<1>5. ASSUME NEW i \in DOMAIN bces', LP!Registers(i) PROVE Mob!Next
  <2> DEFINE n  == bces'[i].mn
             k  == bces'[i].coa
             hs == bces'[i].hnps
  <2>1. <<n, k>> \in notes
    BY <1>1 DEF LP!Grounded
  <2>2. n \in Mn /\ k \in {mag1, mag2}
    BY <1>2, <2>1
  <2>3. /\ profileHnp' = [profileHnp EXCEPT ![n] = hs]
        /\ profileHnp[n] # {} => hs = profileHnp[n]
        /\ profileHnp[n] = {} =>
              \E x \in Prefix : hs = {x} /\ \A o \in Mn : x \notin profileHnp[o]
        /\ \A h \in Prefix : LP!Exit(h)' = IF h \in hs THEN k ELSE LP!Exit(h)
    BY <1>5 DEF LP!Registers
  <2>4. \A h \in Prefix : ExitOf(h)' = IF h \in hs THEN k ELSE ExitOf(h)
    BY <2>3, SameExit
  <2> HIDE DEF n, k, hs
  <2>5. hs \in Mob!Assignable(n)
    BY <2>2, <2>3 DEF Mob!Assignable
  <2>6. [h \in Prefix |-> ExitOf(h)]' =
            [h \in Prefix |-> IF h \in hs THEN k ELSE [x \in Prefix |-> ExitOf(x)][h]]
    BY <2>4
  <2>7. Mob!Register(n, k)
    BY <1>2, <2>1, <2>3, <2>5, <2>6 DEF Mob!Register
  <2>. QED BY <2>2, <2>7 DEF Mob!Next
<1>. QED BY <1>3, <1>4, <1>5

\* An attachment is one of the promise; no other step is seen there.
LEMMA OthersPromise ==
    ASSUME (\E n \in Mn, k \in {mag1, mag2} : Attach(n, k)) \/ MagStep1 \/ MagStep2 \/ Tick
           \/ UNCHANGED vars
    PROVE  [Mob!Next]_(Mob!vars)
<1>1. UNCHANGED <<profileHnp, lmaTunnels, lmaRoutes>>
  BY DEF Attach, MagStep1, MagStep2, Tick, L!Tick, vars, lmaVars
<1>2. \A h \in Prefix : ExitOf(h)' = ExitOf(h)
  BY <1>1 DEF ExitOf
<1>3. ASSUME NEW n \in Mn, NEW k \in {mag1, mag2}, Attach(n, k) PROVE Mob!Next
  <2>1. [h \in Prefix |-> ExitOf(h)]' = [h \in Prefix |-> ExitOf(h)]
    BY <1>2
  <2>2. notes' = notes \cup {<<n, k>>}
    BY <1>3 DEF Attach
  <2>3. Mob!Attach(n, k)
    BY <1>1, <2>1, <2>2 DEF Mob!Attach
  <2>. QED BY <2>3 DEF Mob!Next
<1>4. CASE notes' = notes
  BY <1>1, <1>2, <1>4, PromiseStutters
<1>5. MagStep1 \/ MagStep2 \/ Tick \/ UNCHANGED vars => notes' = notes
  BY DEF MagStep1, MagStep2, Tick, vars
<1>. QED BY <1>3, <1>4, <1>5

\* The program keeps the promise of Mobility: packets for a node leave for a MAG
\* it was attached to, its prefixes move together, and no other node's with them,
\* whatever is lost, repeated and overtaken.
THEOREM KeepsPromiseCorrect ==
    ASSUME LP!PoolSuffices
    PROVE  Spec => KeepsPromise
<1>1. Init => Mob!Init
  BY PromiseInit
<1>2. Pmip6Inv /\ [Next]_vars => [Mob!Next]_(Mob!vars)
  BY LmaStepPromise, OthersPromise DEF Next
<1>. QED BY <1>1, <1>2, Pmip6InvCorrect, PTL DEF Spec, KeepsPromise, Mob!Spec

-----------------------------------------------------------------------------
(***************************************************************************)
(* What that is worth to the nodes.                                        *)
(***************************************************************************)

\* No two nodes share a prefix, and a packet that the LMA sends on goes to a MAG
\* to which the node that has the prefix, and so no other, has been attached.
NodesIsolated ==
    /\ \A m, n \in Mn : m # n => profileHnp[m] \cap profileHnp[n] = {}
    /\ \A h \in Prefix : ExitOf(h) # None =>
          \E n \in Mn : h \in profileHnp[n] /\ <<n, ExitOf(h)>> \in notes

\* The traffic of a node never leaks to a MAG only other nodes have visited.
THEOREM NodesIsolatedCorrect ==
    ASSUME LP!PoolSuffices
    PROVE  Spec => []NodesIsolated
<1>1. Pmip6Inv => NodesIsolated
  <2> SUFFICES ASSUME Pmip6Inv PROVE NodesIsolated
    OBVIOUS
  <2>1. \A m, n \in Mn : m # n => profileHnp[m] \cap profileHnp[n] = {}
    BY DEF Pmip6Inv, LP!AnchorInv, LP!PoolInv, LP!ProfilesApart
  <2>2. ASSUME NEW h \in Prefix, ExitOf(h) # None
        PROVE  \E n \in Mn : h \in profileHnp[n] /\ <<n, ExitOf(h)>> \in notes
    <3>1. lmaRoutes[h] # <<>> /\ LP!Exit(h) = lmaTunnels[LP!LookupStatic(lmaRoutes[h])].remote
      BY <2>2, SameExit DEF LP!Exit
    <3>2. PICK i \in DOMAIN bces : h \in bces[i].hnps
      BY <3>1 DEF Pmip6Inv, LP!AnchorInv, LP!RoutesOwned
    <3>3. PICK j \in DOMAIN bces : /\ h \in bces[j].hnps
                                   /\ LP!LookupStatic(lmaRoutes[h]) = bces[j].tunnelIf
      BY <3>2 DEF Pmip6Inv, LP!AnchorInv, LP!RouteInv, LP!LookupServes
    <3>4. lmaTunnels[bces[j].tunnelIf].remote = bces[j].coa
      <4>1. j # 0
        BY DEF Pmip6Inv, LP!AnchorInv, LP!TunnelInv, LP!CacheInv, LP!TypeInv
      <4>. QED BY <4>1 DEF Pmip6Inv, LP!AnchorInv, LP!TunnelInv, LP!Fits, LP!Served
    <3>5. bces[j].mn \in Mn /\ bces[j].hnps = profileHnp[bces[j].mn]
      BY DEF Pmip6Inv, LP!AnchorInv, LP!TunnelInv, LP!CacheInv, LP!PrefixContinuity
    <3>6. <<bces[j].mn, bces[j].coa>> \in notes
      BY DEF Pmip6Inv, MessagesInv, LP!Grounded
    <3>7. ExitOf(h) = bces[j].coa
      BY <3>1, <3>3, <3>4, SameExit
    <3>. QED BY <3>3, <3>5, <3>6, <3>7
  <2>. QED BY <2>1, <2>2 DEF NodesIsolated
<1>. QED BY <1>1, Pmip6InvCorrect, PTL

\* The prefixes of a node, once it has any, stay.
PrefixesKept == \A n \in Mn : profileHnp[n] # {} => profileHnp'[n] = profileHnp[n]

\* Session continuity: a node keeps its prefixes across every handover between
\* the MAGs, whatever is lost, repeated or delayed on the way.
THEOREM PrefixesKeptCorrect ==
    ASSUME LP!PoolSuffices
    PROVE  Spec => [][PrefixesKept]_vars
<1>1. Pmip6Inv /\ [Next]_vars => [PrefixesKept]_vars
  <2> SUFFICES ASSUME Pmip6Inv, Next PROVE PrefixesKept
    OBVIOUS
  <2>1. CASE LmaStep
    <3>1. [LP!Next]_(LP!vars) /\ LP!Lasting'
      BY <2>1, LmaStepActs DEF LmaActs
    <3>. QED BY <3>1, LmaSteps DEF Pmip6Inv, PrefixesKept
  <2>2. CASE (\E n \in Mn, k \in {mag1, mag2} : Attach(n, k))
             \/ MagStep1 \/ MagStep2 \/ Tick
    <3>1. profileHnp' = profileHnp
      BY <2>2 DEF Attach, MagStep1, MagStep2, Tick, L!Tick
    <3>. QED BY <3>1 DEF PrefixesKept
  <2>. QED BY <2>1, <2>2 DEF Next
<1>. QED BY <1>1, Pmip6InvCorrect, PTL DEF Spec
=============================================================================
