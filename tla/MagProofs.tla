------------------------------ MODULE MagProofs -----------------------------
(***************************************************************************)
(* The invariants of Mag about the entries of the binding update list and  *)
(* their timers, for any mobile nodes, interfaces, answers and bounds.     *)
(***************************************************************************)
EXTENDS Mag, ForwardingProofs, FiniteSetTheorems, TLAPS

\* RetransmitsCurrent for one entry, when S is what was sent.
Retransmits(e, S) ==
    /\ e.retransTimer => e.packet # None
    /\ e.packet # None =>
          e.packet \in S /\ e.packet.seq = e.seq /\ e.packet.time = e.time

\* TimersGuardBinding for one entry.
Guarded(e) ==
    /\ e.reachableTimer <=> e.tunnelIf # 0
    /\ e.refreshTimer => e.reachableTimer
    /\ e.state = "REACHABLE" => e.refreshTimer /\ ~e.retransTimer
    /\ e.state = "REFRESHING" => e.tunnelIf # 0

\* An update is sent MaxRetry + 1 times at most.
Retried(e) ==
    /\ e.retry <= MaxRetry + 1
    /\ e.retransTimer => e.retry <= MaxRetry

\* Only an entry for which no update was ever sent is UNREACHABLE: the handler
\* of the reachable timer never finds one REACHABLE.
EntryOK(e, S) ==
    /\ e \in EntryType
    /\ Retransmits(e, S)
    /\ Guarded(e)
    /\ Retried(e)
    /\ e.state = "UNREACHABLE" => e.time = 0

MagInv ==
    /\ DOMAIN buList = Mn
    /\ \A m \in Mn : buList[m] # None => EntryOK(buList[m], sent)
    /\ buList \in [Mn -> EntryType \cup {None}]
    /\ sequence \in Nat /\ now \in Nat
    /\ sent \subseteq PbuType
    /\ LiveList(tunnelList)

\* What a step may do to the list of node m: its entry becomes e.
LEMMA EntryStep ==
    ASSUME MagInv, NEW m \in Mn, NEW e \in EntryType \cup {None},
           e # None => EntryOK(e, sent'),
           buList' = [buList EXCEPT ![m] = e], sent \subseteq sent',
           sent' \subseteq PbuType,
           sequence' \in Nat, now' \in Nat, LiveList(tunnelList')
    PROVE  MagInv'
<1>1. \A k \in Mn : buList'[k] # None => EntryOK(buList'[k], sent')
  <2> SUFFICES ASSUME NEW k \in Mn, buList'[k] # None
               PROVE  EntryOK(buList'[k], sent')
    OBVIOUS
  <2>1. CASE k = m
    BY <2>1 DEF MagInv
  <2>2. CASE k # m
    <3>1. buList'[k] = buList[k] /\ EntryOK(buList[k], sent)
      BY <2>2 DEF MagInv
    <3>. QED BY <3>1 DEF EntryOK, Retransmits
  <2>. QED BY <2>1, <2>2
<1>2. buList' \in [Mn -> EntryType \cup {None}] /\ DOMAIN buList' = Mn
  BY DEF MagInv
<1>. QED BY <1>1, <1>2 DEF MagInv

LEMMA InitMagInv == Init => MagInv
<1> SUFFICES ASSUME Init PROVE MagInv
  OBVIOUS
<1>1. LiveList(<<>>)
  BY DEF LiveList
<1>. QED BY <1>1 DEF Init, MagInv

\* The entry HandleNewNode works on is in order, and typed like its prefixes.
LEMMA AttachedEntryOK ==
    ASSUME MagInv, NEW m \in Mn
    PROVE  EntryOK(AttachedEntry(m), sent)
<1> DEFINE e == IF buList[m] = None THEN NewEntry ELSE buList[m]
<1>1. EntryOK(e, sent)
  <2>1. CASE buList[m] = None
    <3>1. e = NewEntry
      BY <2>1
    <3>2. NewEntry \in EntryType
      BY DEF NewEntry, EntryType
    <3>3. MaxRetry \in Nat
      BY MagAssumption
    <3>. QED BY <3>1, <3>2, <3>3 DEF NewEntry, EntryOK, Retransmits, Guarded, Retried
  <2>2. CASE buList[m] # None
    BY <2>2 DEF MagInv
  <2>. QED BY <2>1, <2>2
<1>2. ProfileHnp[m] \in SUBSET Prefix
  BY MagAssumption
<1>3. AttachedEntry(m) =
        [e EXCEPT !.hnps = IF ProfileHnp[m] = {} THEN e.hnps ELSE ProfileHnp[m]]
  BY DEF AttachedEntry
<1> HIDE DEF e
<1>. QED BY <1>1, <1>2, <1>3 DEF EntryOK, EntryType, Retransmits, Guarded, Retried

\* A new update leaves an entry in order once it is sent, whatever its state
\* becomes, as long as that does not claim a tunnel the entry lacks.
LEMMA NewPbuOK ==
    ASSUME MagInv, NEW m \in Mn, NEW e \in EntryType,
           NEW st \in {"UPDATING", "REFRESHING"},
           e.reachableTimer <=> e.tunnelIf # 0,
           e.refreshTimer => e.reachableTimer,
           st = "REFRESHING" => e.tunnelIf # 0,
           NEW S, WithNewPbu(m, e, st).packet \in S
    PROVE  EntryOK(WithNewPbu(m, e, st), S) /\ WithNewPbu(m, e, st).packet \in PbuType
<1> DEFINE f == [e EXCEPT !.seq = sequence + 1, !.time = now]
           p == BuildPbu(m, f)
           g == WithNewPbu(m, e, st)
<1>1. sequence + 1 \in Nat /\ now \in Nat
  BY DEF MagInv
<1>2. f \in EntryType /\ f.seq = sequence + 1 /\ f.time = now
  BY <1>1 DEF EntryType
<1>3. p \in PbuType /\ p.seq = f.seq /\ p.time = f.time
  BY <1>2 DEF BuildPbu, PbuType, EntryType
<1>4. g = [f EXCEPT !.packet = p, !.retry = 0,
                    !.retransTimer = TRUE, !.state = st]
  BY DEF WithNewPbu
<1>5. f.tunnelIf = e.tunnelIf /\ f.reachableTimer = e.reachableTimer
      /\ f.refreshTimer = e.refreshTimer
  BY DEF EntryType
<1>p. WithNewPbu(m, e, st) = g
  OBVIOUS
<1> HIDE DEF f, p, g
<1>6. g \in EntryType
  BY <1>2, <1>3, <1>4 DEF EntryType
<1>7. g.packet = p /\ g.retransTimer = TRUE /\ g.state = st /\ g.retry = 0
      /\ g.seq = f.seq /\ g.time = f.time /\ g.tunnelIf = f.tunnelIf
      /\ g.reachableTimer = f.reachableTimer /\ g.refreshTimer = f.refreshTimer
  BY <1>2, <1>4 DEF EntryType
<1>. QED
  <2>1. g.packet # None
    BY <1>3, <1>7, NoneAssumption
  <2>2. Retransmits(g, S)
    BY <1>3, <1>7, <1>p, <2>1 DEF Retransmits
  <2>3. Guarded(g)
    BY <1>5, <1>7 DEF Guarded
  <2>4. Retried(g)
    BY <1>7, MagAssumption DEF Retried
  <2>. QED BY <1>3, <1>6, <1>7, <1>p, <2>2, <2>3, <2>4 DEF EntryOK

LEMMA HandleNewNodeKeeps ==
    ASSUME MagInv, NEW m \in Mn, NEW i \in AccessIf, HandleNewNode(m, i)
    PROVE  MagInv'
<1> DEFINE a  == AttachedEntry(m)
           e  == [a EXCEPT !.ifIndex = i]
           st == IF e.state = "REACHABLE" THEN "REFRESHING" ELSE "UPDATING"
           g  == WithNewPbu(m, e, st)
<1>1. EntryOK(a, sent)
  BY AttachedEntryOK
<1>2. SendUpdate(m, g) /\ UNCHANGED <<netVars, now>>
  BY DEF HandleNewNode
<1> HIDE DEF a
<1>3. i \in Nat
  BY MagAssumption
<1>4. /\ e \in EntryType /\ e.state = a.state
      /\ e.reachableTimer = a.reachableTimer /\ e.refreshTimer = a.refreshTimer
      /\ e.tunnelIf = a.tunnelIf
  BY <1>1, <1>3 DEF EntryOK, EntryType
<1> HIDE DEF e
<1>5. /\ e.reachableTimer <=> e.tunnelIf # 0
      /\ e.refreshTimer => e.reachableTimer
      /\ e.state = "REACHABLE" => e.tunnelIf # 0
  BY <1>1, <1>4 DEF EntryOK, Guarded
<1>6. st \in {"UPDATING", "REFRESHING"} /\ (st = "REFRESHING" => e.tunnelIf # 0)
  BY <1>5
<1> HIDE DEF st
<1>7. g.packet \in sent' /\ sent \subseteq sent'
  BY <1>2 DEF SendUpdate
<1>8. EntryOK(g, sent') /\ g.packet \in PbuType
  BY <1>4, <1>5, <1>6, <1>7, NewPbuOK
<1> HIDE DEF g
<1>9. g \in EntryType
  BY <1>8 DEF EntryOK
<1>10. buList' = [buList EXCEPT ![m] = g]
  BY <1>2 DEF SendUpdate
<1>11. sequence' \in Nat /\ now' \in Nat /\ LiveList(tunnelList')
       /\ sent' \subseteq PbuType
  BY <1>2, <1>8 DEF SendUpdate, MagInv, netVars
<1>. QED BY <1>7, <1>8, <1>9, <1>10, <1>11, EntryStep

LEMMA NoDeviceKeeps ==
    ASSUME MagInv, NEW m \in Mn, HandleNewNodeNoDevice(m)
    PROVE  MagInv'
<1> DEFINE a == AttachedEntry(m)
<1>1. EntryOK(a, sent)
  BY AttachedEntryOK
<1>2. /\ buList' = [buList EXCEPT ![m] = a]
      /\ UNCHANGED <<sequence, netVars, now, sent>>
  BY DEF HandleNewNodeNoDevice
<1> HIDE DEF a
<1>3. a \in EntryType
  BY <1>1 DEF EntryOK
<1>4. sequence' \in Nat /\ now' \in Nat /\ LiveList(tunnelList') /\ sent' = sent
      /\ sent \subseteq PbuType
  BY <1>2 DEF MagInv, netVars
<1>. QED BY <1>1, <1>2, <1>3, <1>4, EntryStep

LEMMA RefreshTimeoutKeeps ==
    ASSUME MagInv, NEW m \in Mn, RefreshTimeout(m)
    PROVE  MagInv'
<1> DEFINE b == buList[m]
           e == [b EXCEPT !.refreshTimer = FALSE]
           g == WithNewPbu(m, e, "REFRESHING")
<1>1. EntryOK(b, sent) /\ b.refreshTimer
  BY DEF RefreshTimeout, MagInv
<1>2. SendUpdate(m, g) /\ UNCHANGED <<netVars, now>>
  BY DEF RefreshTimeout
<1> HIDE DEF b
<1>3. /\ e \in EntryType /\ e.refreshTimer = FALSE
      /\ e.reachableTimer = b.reachableTimer /\ e.tunnelIf = b.tunnelIf
  BY <1>1 DEF EntryOK, EntryType
<1> HIDE DEF e
<1>4. (e.reachableTimer <=> e.tunnelIf # 0) /\ e.tunnelIf # 0
  BY <1>1, <1>3 DEF EntryOK, Guarded
<1>5. g.packet \in sent' /\ sent \subseteq sent'
  BY <1>2 DEF SendUpdate
<1>6. EntryOK(g, sent') /\ g.packet \in PbuType
  BY <1>3, <1>4, <1>5, NewPbuOK
<1> HIDE DEF g
<1>7. g \in EntryType
  BY <1>6 DEF EntryOK
<1>8. buList' = [buList EXCEPT ![m] = g]
  BY <1>2 DEF SendUpdate
<1>9. sequence' \in Nat /\ now' \in Nat /\ LiveList(tunnelList')
      /\ sent' \subseteq PbuType
  BY <1>2, <1>6 DEF SendUpdate, MagInv, netVars
<1>. QED BY <1>5, <1>6, <1>7, <1>8, <1>9, EntryStep

LEMMA RetransTimeoutKeeps ==
    ASSUME MagInv, NEW m \in Mn, RetransTimeout(m)
    PROVE  MagInv'
<1> DEFINE b == buList[m]
           t == ~(b.retry + 1 > MaxRetry)
           e == [b EXCEPT !.retry = b.retry + 1, !.retransTimer = t]
<1>1. EntryOK(b, sent) /\ b.retransTimer
  BY DEF RetransTimeout, MagInv
<1>2. sent \subseteq sent' /\ UNCHANGED <<sequence, netVars, now>>
  BY DEF RetransTimeout
<1>d. sent' \subseteq PbuType
  <2>1. b.packet \in PbuType
    BY <1>1 DEF EntryOK, Retransmits, EntryType
  <2>. QED BY <2>1 DEF RetransTimeout, MagInv
<1>a. buList' = [buList EXCEPT ![m] = e]
  <2>1. buList' = [buList EXCEPT ![m].retry = @ + 1, ![m].retransTimer = t]
    BY DEF RetransTimeout
  <2> HIDE DEF t
  <2>. QED BY <2>1 DEF MagInv
<1>3. t \in BOOLEAN /\ (t <=> ~(b.retry + 1 > MaxRetry))
  OBVIOUS
<1> HIDE DEF b, t
<1>b. b \in EntryType /\ b.retry + 1 \in Nat
  BY <1>1 DEF EntryOK, EntryType
<1>4. /\ e.packet = b.packet /\ e.seq = b.seq
      /\ e.time = b.time /\ e.state = b.state /\ e.tunnelIf = b.tunnelIf
      /\ e.reachableTimer = b.reachableTimer /\ e.refreshTimer = b.refreshTimer
      /\ e.retry = b.retry + 1 /\ e.retransTimer = t
  BY <1>b DEF EntryType
<1>c. e \in EntryType
  BY <1>b, <1>3 DEF EntryType
<1> HIDE DEF e
<1>5. Retransmits(e, sent')
  BY <1>1, <1>2, <1>4 DEF EntryOK, Retransmits
<1>6. Guarded(e)
  BY <1>1, <1>4 DEF EntryOK, Guarded
<1>e. Retried(e)
  <2>1. b.retry <= MaxRetry /\ b.retry \in Nat /\ MaxRetry \in Nat
    BY <1>1, MagAssumption DEF EntryOK, Retried, EntryType
  <2>2. e.retry <= MaxRetry + 1
    BY <1>4, <2>1
  <2>3. t => e.retry <= MaxRetry
    BY <1>3, <1>4, <2>1
  <2>. QED BY <1>4, <2>2, <2>3 DEF Retried
<1>7. EntryOK(e, sent')
  BY <1>1, <1>4, <1>c, <1>e, <1>5, <1>6 DEF EntryOK
<1>8. sequence' \in Nat /\ now' \in Nat /\ LiveList(tunnelList')
  BY <1>2 DEF MagInv, netVars
<1>. QED BY <1>2, <1>a, <1>c, <1>d, <1>7, <1>8, EntryStep

LEMMA AcceptedKeeps ==
    ASSUME MagInv, NEW p, p.mn \in Mn, NEW h \in SUBSET Prefix, NEW life,
           HandlePbaAccepted(p, h, life)
    PROVE  MagInv'
<1> DEFINE m == p.mn
           b == buList[m]
           e == AcceptedEntry(b, h)
           d == AddTunnelIf(tunnelList, LmaAddress[m])
           g == [e EXCEPT !.tunnelIf = d, !.radvdIf = e.ifIndex]
<1>1. m \in Mn
  OBVIOUS
<1>2. LmaAddress[m] \in Addr
  BY <1>1, MagAssumption
<1>3. Current(p) /\ EntryOK(b, sent) /\ b.state # "UNREACHABLE"
  BY <1>1 DEF HandlePbaAccepted, Current, MagInv, EntryOK
<1>4. /\ UNCHANGED <<sequence, now, sent>>
      /\ \/ /\ b.state = "UPDATING" /\ SetupNetwork(m, e)
            /\ buList' = [buList EXCEPT ![m] = g]
         \/ /\ b.state # "UPDATING" /\ UNCHANGED netVars
            /\ buList' = [buList EXCEPT ![m] = e]
  BY DEF HandlePbaAccepted
<1>5. e = [b EXCEPT !.packet = None, !.retransTimer = FALSE, !.hnps = h,
                    !.state = "REACHABLE", !.refreshTimer = TRUE,
                    !.reachableTimer = TRUE]
  BY DEF AcceptedEntry
<1>6. d \in Nat \ {0} /\ LiveList(AddTunnelList(tunnelList, LmaAddress[m]))
  BY <1>2, AddTunnelLive DEF MagInv
<1>m. p.mn = m
  OBVIOUS
<1> HIDE DEF b, d, e, m
<1>7. b \in EntryType
  BY <1>3 DEF EntryOK
<1>8. /\ e \in EntryType /\ e.packet = None /\ e.retransTimer = FALSE
      /\ e.state = "REACHABLE" /\ e.refreshTimer = TRUE
      /\ e.reachableTimer = TRUE /\ e.tunnelIf = b.tunnelIf /\ e.retry = b.retry
  BY <1>5, <1>7 DEF EntryType
<1>9. sequence' \in Nat /\ now' \in Nat /\ sent' = sent /\ sent \subseteq PbuType
  BY <1>4 DEF MagInv
<1>10. CASE b.state = "UPDATING"
  <2>1. tunnelList' = AddTunnelList(tunnelList, LmaAddress[m])
        /\ buList' = [buList EXCEPT ![m] = g]
    BY <1>4, <1>10 DEF SetupNetwork
  <2>2. /\ g \in EntryType /\ g.packet = None /\ g.retransTimer = FALSE
        /\ g.state = "REACHABLE" /\ g.refreshTimer = TRUE
        /\ g.reachableTimer = TRUE /\ g.tunnelIf = d /\ g.retry = b.retry
    BY <1>6, <1>8 DEF EntryType
  <2> HIDE DEF g
  <2>3. EntryOK(g, sent)
    BY <1>3, <1>6, <2>2 DEF EntryOK, Retransmits, Guarded, Retried
  <2>. QED BY <1>1, <1>6, <1>9, <2>1, <2>2, <2>3, EntryStep
<1>11. CASE b.state # "UPDATING"
  <2>1. tunnelList' = tunnelList /\ buList' = [buList EXCEPT ![m] = e]
    BY <1>4, <1>11 DEF netVars
  <2>2. b.state \in {"REFRESHING", "REACHABLE"}
    BY <1>3, <1>7, <1>11 DEF EntryType
  <2>3. e.tunnelIf # 0
    BY <1>3, <1>8, <2>2 DEF EntryOK, Guarded
  <2>4. EntryOK(e, sent)
    BY <1>3, <1>8, <2>3 DEF EntryOK, Retransmits, Guarded, Retried
  <2>5. LiveList(tunnelList')
    BY <2>1 DEF MagInv
  <2>. QED BY <1>1, <1>8, <1>9, <2>1, <2>4, <2>5, EntryStep
<1>. QED BY <1>10, <1>11

LEMMA DeregisteredKeeps ==
    ASSUME MagInv, NEW p, p.mn \in Mn, NEW h, NEW life,
           HandlePbaDeregistered(p, h, life)
    PROVE  MagInv'
<1>1. p.mn \in Mn
  OBVIOUS
<1>2. LmaAddress[p.mn] \in Addr
  BY <1>1, MagAssumption
<1>3. tunnelList' = RemoveTunnelList(tunnelList, LmaAddress[p.mn])
  BY DEF HandlePbaDeregistered, ClearTunnelAndRouting
<1>4. LiveList(tunnelList')
  BY <1>2, <1>3, RemoveTunnelLive DEF MagInv
<1>5. buList' = [buList EXCEPT ![p.mn] = None] /\ UNCHANGED <<sequence, now, sent>>
  BY DEF HandlePbaDeregistered
<1>6. sequence' \in Nat /\ now' \in Nat /\ sent' \subseteq PbuType
      /\ sent \subseteq sent'
  BY <1>5 DEF MagInv
<1>7. None \in EntryType \cup {None}
  OBVIOUS
<1>. QED BY <1>1, <1>4, <1>5, <1>6, <1>7, EntryStep

LEMMA ReachableTimeoutKeeps ==
    ASSUME MagInv, NEW m \in Mn, ReachableTimeout(m)
    PROVE  MagInv'
<1> DEFINE b == buList[m]
           st == IF b.state = "REACHABLE" THEN "UNREACHABLE"
                 ELSE IF b.state = "REFRESHING" THEN "UPDATING" ELSE b.state
           e == TimedOut(b)
<1>1. EntryOK(b, sent) /\ b.reachableTimer /\ ~b.refreshTimer
  BY DEF ReachableTimeout, MagInv
<1>2. /\ buList' = [buList EXCEPT ![m] = e]
      /\ UNCHANGED <<sequence, now, sent>>
  BY DEF ReachableTimeout
<1>3. e = [b EXCEPT !.reachableTimer = FALSE, !.tunnelIf = 0, !.radvdIf = 0,
                    !.state = st]
  BY DEF TimedOut
<1>4. LiveList(tunnelList')
  <2>1. LmaAddress[m] \in Addr
    BY MagAssumption
  <2>2. tunnelList' \in {tunnelList, RemoveTunnelList(tunnelList, LmaAddress[m])}
    BY DEF ReachableTimeout, ClearTunnelAndRouting
  <2>. QED BY <2>1, <2>2, RemoveTunnelLive DEF MagInv
<1> HIDE DEF b, e
<1>5. b \in EntryType /\ b.state # "REACHABLE"
  BY <1>1 DEF EntryOK, Guarded
<1>6. /\ st \in {"UNREACHABLE", "UPDATING"}
      /\ st = "UNREACHABLE" => b.state = "UNREACHABLE"
  BY <1>5 DEF EntryType
<1> HIDE DEF st
<1>7. e \in EntryType
  BY <1>3, <1>5, <1>6 DEF EntryType
<1>8. /\ e.packet = b.packet /\ e.retransTimer = b.retransTimer
      /\ e.state = st /\ e.refreshTimer = b.refreshTimer /\ e.seq = b.seq
      /\ e.time = b.time /\ e.reachableTimer = FALSE /\ e.tunnelIf = 0
      /\ e.retry = b.retry
  BY <1>3, <1>5 DEF EntryType
<1>9. Retransmits(e, sent)
  BY <1>1, <1>8 DEF EntryOK, Retransmits
<1>10. Guarded(e)
  BY <1>1, <1>6, <1>8 DEF Guarded
<1>11. EntryOK(e, sent)
  BY <1>1, <1>6, <1>7, <1>8, <1>9, <1>10 DEF EntryOK, Retried
<1>12. sequence' \in Nat /\ now' \in Nat /\ sent' = sent /\ sent \subseteq PbuType
  BY <1>2 DEF MagInv
<1>. QED BY <1>2, <1>4, <1>7, <1>11, <1>12, EntryStep

\* Every action keeps the invariant.
LEMMA NextMagInv == MagInv /\ [Next]_vars => MagInv'
<1> SUFFICES ASSUME MagInv, [Next]_vars PROVE MagInv'
  OBVIOUS
<1>1. CASE \E m \in Mn : \/ \E i \in AccessIf : HandleNewNode(m, i)
                         \/ HandleNewNodeNoDevice(m)
                         \/ RefreshTimeout(m)
                         \/ RetransTimeout(m)
                         \/ ReachableTimeout(m)
  BY <1>1, HandleNewNodeKeeps, NoDeviceKeeps, RefreshTimeoutKeeps,
     RetransTimeoutKeeps, ReachableTimeoutKeeps
<1>2. CASE \E p \in sent, life \in Lifetime : HandlePba(p, LmaHnp[p.mn], life)
  <2>1. PICK p \in sent, life \in Lifetime : HandlePba(p, LmaHnp[p.mn], life)
    BY <1>2
  <2>2. p.mn \in Mn
    BY DEF MagInv, PbuType
  <2>3. LmaHnp[p.mn] \in SUBSET Prefix
    BY <2>2, MagAssumption
  <2>. QED BY <2>1, <2>2, <2>3, AcceptedKeeps, DeregisteredKeeps DEF HandlePba
<1>3. CASE Tick
  <2>1. now' \in Nat
    BY <1>3 DEF Tick, MagInv
  <2>. QED BY <1>3, <2>1 DEF Tick, MagInv, netVars
<1>4. CASE UNCHANGED vars
  BY <1>4 DEF vars, netVars, MagInv
<1>. QED BY <1>1, <1>2, <1>3, <1>4 DEF Next

LEMMA MagInvCorrect == Spec => []MagInv
BY InitMagInv, NextMagInv, PTL DEF Spec

\* The retransmission timer of a MAG never runs without a packet, and what it
\* sends is the update whose answer HandlePba would still take.
THEOREM RetransmitsCurrentCorrect == Spec => []RetransmitsCurrent
<1>1. MagInv => RetransmitsCurrent
  BY DEF MagInv, EntryOK, Retransmits, RetransmitsCurrent, Entries
<1>. QED BY <1>1, MagInvCorrect, PTL

\* The state, the timers and the tunnel of an entry fit together, in whichever
\* order updates, answers and timeouts come.
THEOREM TimersGuardBindingCorrect == Spec => []TimersGuardBinding
<1>1. MagInv => TimersGuardBinding
  BY DEF MagInv, EntryOK, Guarded, TimersGuardBinding, Entries
<1>. QED BY <1>1, MagInvCorrect, PTL

-----------------------------------------------------------------------------
(* What the MAG sets up in its node: the tables stay typed and the bounds    *)
(* on updates and clock are kept.                                            *)
Adverts == [id : Nat, mn : Mn]

NetInv ==
    /\ sequence <= MaxSeq /\ now <= MaxTime
    /\ routes \in [Prefix -> Seq(Nat)]
    /\ sourceRoutes \in [Prefix -> Seq(Nat)]
    /\ radvd \in Seq(Adverts)
    /\ nextId \in Nat

LEMMA RemoveRouteTyped ==
    ASSUME NEW T, NEW table \in Seq(T), NEW i, NEW h
    PROVE  RemoveRoute(table, i, h) \in Seq(T)
BY RemoveFirstCorrect DEF RemoveRoute

LEMMA ClearRadvdTyped ==
    ASSUME radvd \in Seq(Adverts), NEW e, ClearRadvdInterface(e)
    PROVE  radvd' \in Seq(Adverts) /\ nextId' = nextId
<1> DEFINE Matches(c) == c.id = e.radvdIf
           I == {i \in 1 .. Len(radvd) : radvd[i].id = e.radvdIf}
<1>1. radvd' = RemoveFirstMatch(radvd, Matches) /\ nextId' = nextId
  BY DEF ClearRadvdInterface
<1>2. CASE I = {}
  <2>1. radvd' = radvd
    BY <1>1, <1>2 DEF RemoveFirstMatch
  <2>. QED BY <1>1, <2>1
<1>3. CASE I # {}
  <2>1. radvd' = RemoveAt(radvd, Min(I))
    BY <1>1, <1>3 DEF RemoveFirstMatch, SelectInSeq
  <2>2. I \subseteq Nat
    OBVIOUS
  <2>3. Min(I) \in I
    BY <1>3, <2>2, LeastPlace
  <2>4. Min(I) \in 1 .. Len(radvd)
    BY <2>3
  <2> HIDE DEF I
  <2>. QED BY <1>1, <2>1, <2>4, RemoveAtCorrect
<1>. QED BY <1>2, <1>3

LEMMA ClearTunnelTyped ==
    ASSUME NetInv, NEW m, NEW e, ClearTunnelAndRouting(m, e)
    PROVE  routes' \in [Prefix -> Seq(Nat)] /\ sourceRoutes' \in [Prefix -> Seq(Nat)]
<1>1. \A h \in Prefix : routes[h] \in Seq(Nat) /\ sourceRoutes[h] \in Seq(Nat)
  BY DEF NetInv
<1>2. \A h \in Prefix : /\ RemoveRoute(routes[h], e.ifIndex, h) \in Seq(Nat)
                        /\ RemoveRoute(sourceRoutes[h], e.tunnelIf, h) \in Seq(Nat)
  BY <1>1, RemoveRouteTyped
<1>. QED BY <1>1, <1>2 DEF ClearTunnelAndRouting

LEMMA SetupTyped ==
    ASSUME MagInv, NetInv, NEW m \in Mn, NEW e \in EntryType, SetupNetwork(m, e)
    PROVE  /\ routes' \in [Prefix -> Seq(Nat)] /\ sourceRoutes' \in [Prefix -> Seq(Nat)]
           /\ radvd' \in Seq(Adverts) /\ nextId' \in Nat
<1> DEFINE d == AddTunnelIf(tunnelList, LmaAddress[m])
<1>1. \A h \in Prefix : routes[h] \in Seq(Nat) /\ sourceRoutes[h] \in Seq(Nat)
  BY DEF NetInv
<1>2. LmaAddress[m] \in Addr
  BY MagAssumption
<1>3. d \in Nat /\ e.ifIndex \in Nat
  BY <1>2, AddTunnelLive DEF MagInv, EntryType
<1>4. /\ radvd' = Append(radvd, [id |-> nextId, mn |-> m]) /\ nextId' = nextId + 1
      /\ routes' = [h \in Prefix |->
             IF h \in e.hnps THEN AddNetworkRoute(routes[h], e.ifIndex) ELSE routes[h]]
      /\ sourceRoutes' = [h \in Prefix |->
             IF h \in e.hnps THEN AddNetworkRoute(sourceRoutes[h], d)
             ELSE sourceRoutes[h]]
  BY DEF SetupNetwork
<1> HIDE DEF d
<1>5. \A h \in Prefix : /\ AddNetworkRoute(routes[h], e.ifIndex) \in Seq(Nat)
                        /\ AddNetworkRoute(sourceRoutes[h], d) \in Seq(Nat)
  BY <1>1, <1>3, AddNetworkRouteCorrect
<1>6. [id |-> nextId, mn |-> m] \in Adverts /\ radvd \in Seq(Adverts) /\ nextId \in Nat
  BY DEF NetInv, Adverts
<1>7. radvd' \in Seq(Adverts) /\ nextId' \in Nat
  BY <1>4, <1>6
<1>. QED BY <1>1, <1>4, <1>5, <1>7

\* Only answers and the reachable timer touch the tables of the node.
LEMMA NetInvNext == MagInv /\ NetInv /\ [Next]_vars => NetInv'
<1> SUFFICES ASSUME MagInv, NetInv, [Next]_vars PROVE NetInv'
  OBVIOUS
<1>a. sequence \in Nat /\ now \in Nat
  BY DEF MagInv
<1>b. MaxSeq \in Nat /\ MaxTime \in Nat
  BY MagAssumption
<1>1. ASSUME NEW m \in Mn, \/ \E i \in AccessIf : HandleNewNode(m, i)
                           \/ RefreshTimeout(m)
      PROVE  NetInv'
  <2>1. UNCHANGED <<netVars, now>> /\ sequence < MaxSeq /\ sequence' = sequence + 1
    BY <1>1 DEF HandleNewNode, RefreshTimeout, SendUpdate
  <2>2. sequence' <= MaxSeq
    BY <1>a, <1>b, <2>1
  <2>. QED BY <2>1, <2>2 DEF netVars, NetInv
<1>2. ASSUME NEW m \in Mn, HandleNewNodeNoDevice(m) \/ RetransTimeout(m)
      PROVE  NetInv'
  BY <1>2 DEF HandleNewNodeNoDevice, RetransTimeout, netVars, NetInv
<1>3. ASSUME NEW m \in Mn, ReachableTimeout(m) PROVE NetInv'
  <2>1. /\ ClearRadvdInterface(buList[m]) \/ UNCHANGED <<radvd, nextId>>
        /\ \/ ClearTunnelAndRouting(m, buList[m])
           \/ UNCHANGED <<tunnelList, routes, sourceRoutes>>
        /\ UNCHANGED <<sequence, now>>
    BY <1>3 DEF ReachableTimeout
  <2>2. radvd' \in Seq(Adverts) /\ nextId' \in Nat
    BY <2>1, ClearRadvdTyped DEF NetInv
  <2>3. routes' \in [Prefix -> Seq(Nat)] /\ sourceRoutes' \in [Prefix -> Seq(Nat)]
    BY <2>1, ClearTunnelTyped DEF NetInv
  <2>. QED BY <2>1, <2>2, <2>3 DEF NetInv
<1>4. ASSUME NEW p \in sent, NEW life \in Lifetime,
             HandlePbaAccepted(p, LmaHnp[p.mn], life)
      PROVE  NetInv'
  <2> DEFINE e == AcceptedEntry(buList[p.mn], LmaHnp[p.mn])
  <2>1. p.mn \in Mn
    BY DEF MagInv, PbuType
  <2>2. buList[p.mn] \in EntryType /\ LmaHnp[p.mn] \in SUBSET Prefix
    BY <1>4, <2>1, MagAssumption DEF MagInv, EntryOK, HandlePbaAccepted, Current
  <2>3. e \in EntryType
    BY <2>2 DEF AcceptedEntry, EntryType
  <2>4. (SetupNetwork(p.mn, e) \/ UNCHANGED netVars) /\ UNCHANGED <<sequence, now>>
    BY <1>4 DEF HandlePbaAccepted
  <2> HIDE DEF e
  <2>5. CASE SetupNetwork(p.mn, e)
    BY <2>1, <2>3, <2>4, <2>5, SetupTyped DEF NetInv
  <2>6. CASE UNCHANGED netVars
    BY <2>4, <2>6 DEF netVars, NetInv
  <2>. QED BY <2>4, <2>5, <2>6
<1>5. ASSUME NEW p \in sent, NEW life \in Lifetime,
             HandlePbaDeregistered(p, LmaHnp[p.mn], life)
      PROVE  NetInv'
  <2> DEFINE e == AcceptedEntry(buList[p.mn], LmaHnp[p.mn])
  <2>1. ClearRadvdInterface(e) /\ ClearTunnelAndRouting(p.mn, e)
        /\ UNCHANGED <<sequence, now>>
    BY <1>5 DEF HandlePbaDeregistered
  <2> HIDE DEF e
  <2>2. radvd' \in Seq(Adverts) /\ nextId' \in Nat
    BY <2>1, ClearRadvdTyped DEF NetInv
  <2>3. routes' \in [Prefix -> Seq(Nat)] /\ sourceRoutes' \in [Prefix -> Seq(Nat)]
    BY <2>1, ClearTunnelTyped
  <2>. QED BY <2>1, <2>2, <2>3 DEF NetInv
<1>6. CASE Tick
  <2>1. now' <= MaxTime
    BY <1>6, <1>a, <1>b DEF Tick
  <2>. QED BY <1>6, <2>1 DEF Tick, netVars, NetInv
<1>7. CASE UNCHANGED vars
  BY <1>7 DEF vars, netVars, NetInv
<1>. QED BY <1>1, <1>2, <1>3, <1>4, <1>5, <1>6, <1>7 DEF Next, HandlePba

\* The entries, tables, advertisements and counters of a MAG keep their types
\* and bounds: no update is retransmitted more often than the code allows.
THEOREM MagTypeCorrect == Spec => []TypeOK
<1>1. Init => NetInv
  BY MagAssumption DEF Init, NetInv, Adverts
<1>2. MagInv /\ NetInv => TypeOK
  <2> SUFFICES ASSUME MagInv, NetInv PROVE TypeOK
    OBVIOUS
  <2>1. sequence \in 0 .. MaxSeq /\ now \in 0 .. MaxTime
    BY MagAssumption DEF MagInv, NetInv
  <2>2. \A m \in Mn : buList[m] # None => buList[m].retry <= MaxRetry + 1
    BY DEF MagInv, EntryOK, Retried
  <2>. QED BY <2>1, <2>2 DEF TypeOK, MagInv, NetInv, Adverts, LiveList
<1>. QED BY <1>1, <1>2, NetInvNext, MagInvCorrect, PTL DEF Spec

-----------------------------------------------------------------------------
(***************************************************************************)
(* What one step does to the entry it is about, and to the updates sent.   *)
(***************************************************************************)

\* The prefixes of a node's entry, none if there is no entry.
Hnps(m) == IF buList[m] = None THEN {} ELSE buList[m].hnps

\* An attachment of node m, or one of the timers of its entry.
OwnStep(m) ==
    \/ \E i \in AccessIf : HandleNewNode(m, i)
    \/ RefreshTimeout(m) \/ RetransTimeout(m) \/ ReachableTimeout(m)

\* The entry of m becomes e without an answer: it keeps its prefixes or takes
\* those of the profile, gets no tunnel, and may lose the one it has.
Writes(m, e) ==
    /\ e \in EntryType /\ buList' = [buList EXCEPT ![m] = e]
    /\ e.hnps = Hnps(m) \/ (ProfileHnp[m] # {} /\ e.hnps = ProfileHnp[m])
    /\ e.tunnelIf = 0 \/ (buList[m] # None /\ e.tunnelIf = buList[m].tunnelIf)
    /\ e.ifIndex \in AccessIf \/ (buList[m] # None /\ e.ifIndex = buList[m].ifIndex)
    /\ \A q \in sent' : q \in sent \/ q.mn = m
    /\ \/ UNCHANGED <<tunnelList, routes, sourceRoutes>>
       \/ /\ buList[m] # None /\ buList[m].tunnelIf # 0 /\ e.tunnelIf = 0
          /\ ClearTunnelAndRouting(m, buList[m])

LEMMA AttachedFields ==
    ASSUME MagInv, NEW m \in Mn
    PROVE  LET e == AttachedEntry(m)
           IN  /\ e \in EntryType
               /\ e.hnps = Hnps(m) \/ (ProfileHnp[m] # {} /\ e.hnps = ProfileHnp[m])
               /\ e.tunnelIf = 0 \/ (buList[m] # None /\ e.tunnelIf = buList[m].tunnelIf)
<1> DEFINE b == IF buList[m] = None THEN NewEntry ELSE buList[m]
           hs == IF ProfileHnp[m] = {} THEN b.hnps ELSE ProfileHnp[m]
<1>1. b \in EntryType
  BY DEF MagInv, EntryOK, NewEntry, EntryType
<1>2. b.hnps = Hnps(m) /\ (b.tunnelIf = 0 \/ (buList[m] # None /\ b.tunnelIf = buList[m].tunnelIf))
  BY DEF Hnps, NewEntry
<1>3. AttachedEntry(m) = [b EXCEPT !.hnps = hs]
  BY DEF AttachedEntry
<1>4. hs \in SUBSET Prefix /\ (hs = b.hnps \/ (ProfileHnp[m] # {} /\ hs = ProfileHnp[m]))
  BY <1>1, MagAssumption DEF EntryType
<1> HIDE DEF b, hs
<1>5. [b EXCEPT !.hnps = hs] \in EntryType /\ [b EXCEPT !.hnps = hs].hnps = hs
      /\ [b EXCEPT !.hnps = hs].tunnelIf = b.tunnelIf
  BY <1>1, <1>4 DEF EntryType
<1>. QED BY <1>2, <1>3, <1>4, <1>5, Zenon

\* What of an entry WithNewPbu leaves alone, and whose update it makes.
LEMMA NewPbuFields ==
    ASSUME MagInv, NEW m \in Mn, NEW e \in EntryType,
           NEW st \in {"UPDATING", "REFRESHING"}
    PROVE  LET g == WithNewPbu(m, e, st)
           IN  /\ g \in EntryType /\ g.hnps = e.hnps /\ g.tunnelIf = e.tunnelIf
               /\ g.ifIndex = e.ifIndex /\ g.packet.mn = m
<1> DEFINE f == [e EXCEPT !.seq = sequence + 1, !.time = now]
           p == BuildPbu(m, f)
           g == WithNewPbu(m, e, st)
<1>1. sequence + 1 \in Nat /\ now \in Nat
  BY DEF MagInv
<1>2. f \in EntryType /\ f.hnps = e.hnps /\ f.tunnelIf = e.tunnelIf /\ f.ifIndex = e.ifIndex
  BY <1>1 DEF EntryType
<1>3. p \in PbuType /\ p.mn = m
  BY <1>2 DEF BuildPbu, PbuType, EntryType
<1>4. g = [f EXCEPT !.packet = p, !.retry = 0,
                    !.retransTimer = TRUE, !.state = st]
  BY DEF WithNewPbu
<1>p. WithNewPbu(m, e, st) = g
  OBVIOUS
<1> HIDE DEF f, p, g
<1>5. g \in EntryType /\ g.hnps = f.hnps /\ g.tunnelIf = f.tunnelIf
      /\ g.ifIndex = f.ifIndex /\ g.packet = p
  BY <1>2, <1>3, <1>4 DEF EntryType
<1>. QED BY <1>2, <1>3, <1>5, <1>p

LEMMA OwnStepWrites ==
    ASSUME MagInv, NEW m \in Mn, OwnStep(m)
    PROVE  \E e : Writes(m, e)
<1>1. ASSUME NEW i \in AccessIf, HandleNewNode(m, i) PROVE \E e : Writes(m, e)
  <2> DEFINE a  == AttachedEntry(m)
             e  == [a EXCEPT !.ifIndex = i]
             st == IF e.state = "REACHABLE" THEN "REFRESHING" ELSE "UPDATING"
             g  == WithNewPbu(m, e, st)
  <2>1. /\ a \in EntryType
        /\ a.hnps = Hnps(m) \/ (ProfileHnp[m] # {} /\ a.hnps = ProfileHnp[m])
        /\ a.tunnelIf = 0 \/ (buList[m] # None /\ a.tunnelIf = buList[m].tunnelIf)
    BY AttachedFields
  <2>2. SendUpdate(m, g) /\ UNCHANGED <<netVars, now>>
    BY <1>1 DEF HandleNewNode
  <2> HIDE DEF a
  <2>3. i \in Nat
    BY MagAssumption
  <2>4. e \in EntryType /\ e.hnps = a.hnps /\ e.tunnelIf = a.tunnelIf /\ e.ifIndex = i
    BY <2>1, <2>3 DEF EntryType
  <2>5. st \in {"UPDATING", "REFRESHING"}
    OBVIOUS
  <2> HIDE DEF e, st
  <2>6. /\ g \in EntryType /\ g.hnps = e.hnps /\ g.tunnelIf = e.tunnelIf
        /\ g.ifIndex = e.ifIndex /\ g.packet.mn = m
    BY <2>4, <2>5, NewPbuFields
  <2> HIDE DEF g
  <2>7. buList' = [buList EXCEPT ![m] = g] /\ sent' = sent \cup {g.packet}
        /\ UNCHANGED <<tunnelList, routes, sourceRoutes>>
    BY <2>2 DEF SendUpdate, netVars
  <2>8. Writes(m, g)
    BY <2>1, <2>4, <2>6, <2>7 DEF Writes
  <2>. QED BY <2>8
<1>2. ASSUME RefreshTimeout(m) PROVE \E e : Writes(m, e)
  <2> DEFINE b == buList[m]
             e == [b EXCEPT !.refreshTimer = FALSE]
             g == WithNewPbu(m, e, "REFRESHING")
  <2>1. b \in EntryType /\ b # None /\ b.hnps = Hnps(m)
    BY <1>2 DEF RefreshTimeout, MagInv, EntryOK, Hnps
  <2>2. SendUpdate(m, g) /\ UNCHANGED <<netVars, now>>
    BY <1>2 DEF RefreshTimeout
  <2>b. buList[m] = b
    OBVIOUS
  <2> HIDE DEF b
  <2>3. /\ e \in EntryType /\ e.hnps = b.hnps /\ e.tunnelIf = b.tunnelIf
        /\ e.ifIndex = b.ifIndex
    BY <2>1 DEF EntryType
  <2> HIDE DEF e
  <2>4. /\ g \in EntryType /\ g.hnps = e.hnps /\ g.tunnelIf = e.tunnelIf
        /\ g.ifIndex = e.ifIndex /\ g.packet.mn = m
    BY <2>3, NewPbuFields
  <2> HIDE DEF g
  <2>5. buList' = [buList EXCEPT ![m] = g] /\ sent' = sent \cup {g.packet}
        /\ UNCHANGED <<tunnelList, routes, sourceRoutes>>
    BY <2>2 DEF SendUpdate, netVars
  <2>6. Writes(m, g)
    BY <2>1, <2>b, <2>3, <2>4, <2>5 DEF Writes
  <2>. QED BY <2>6
<1>3. ASSUME RetransTimeout(m) PROVE \E e : Writes(m, e)
  <2> DEFINE b == buList[m]
             t == ~(b.retry + 1 > MaxRetry)
             e == [b EXCEPT !.retry = b.retry + 1, !.retransTimer = t]
  <2>1. b \in EntryType /\ b # None /\ b.hnps = Hnps(m) /\ b.packet \in sent
    BY <1>3 DEF RetransTimeout, MagInv, EntryOK, Hnps, Retransmits
  <2>2. UNCHANGED <<netVars, now>> /\ sent' \subseteq sent \cup {b.packet}
    BY <1>3 DEF RetransTimeout
  <2>3. buList' = [buList EXCEPT ![m] = e]
    <3>1. buList' = [buList EXCEPT ![m].retry = @ + 1, ![m].retransTimer = t]
      BY <1>3 DEF RetransTimeout
    <3> HIDE DEF t
    <3>. QED BY <3>1 DEF MagInv
  <2>b. buList[m] = b /\ t \in BOOLEAN
    OBVIOUS
  <2> HIDE DEF b, t
  <2>4. b.retry + 1 \in Nat
    BY <2>1 DEF EntryType
  <2>5. /\ e \in EntryType /\ e.hnps = b.hnps /\ e.tunnelIf = b.tunnelIf
        /\ e.ifIndex = b.ifIndex
    BY <2>1, <2>b, <2>4 DEF EntryType
  <2> HIDE DEF e
  <2>6. Writes(m, e)
    BY <2>1, <2>2, <2>3, <2>b, <2>5 DEF Writes, netVars
  <2>. QED BY <2>6
<1>4. ASSUME ReachableTimeout(m) PROVE \E e : Writes(m, e)
  <2> DEFINE b == buList[m]
             st == IF b.state = "REACHABLE" THEN "UNREACHABLE"
                   ELSE IF b.state = "REFRESHING" THEN "UPDATING" ELSE b.state
             e == TimedOut(b)
  <2>1. b \in EntryType /\ b # None /\ b.hnps = Hnps(m)
    BY <1>4 DEF ReachableTimeout, MagInv, EntryOK, Hnps
  <2>2. /\ buList' = [buList EXCEPT ![m] = e] /\ sent' = sent
        /\ \/ UNCHANGED <<tunnelList, routes, sourceRoutes>>
           \/ b.tunnelIf # 0 /\ ClearTunnelAndRouting(m, b)
    BY <1>4 DEF ReachableTimeout
  <2>3. e = [b EXCEPT !.reachableTimer = FALSE, !.tunnelIf = 0, !.radvdIf = 0,
                      !.state = st]
    BY DEF TimedOut
  <2>4. st \in {"UNREACHABLE", "UPDATING", "REFRESHING", "REACHABLE"}
    BY <2>1 DEF EntryType
  <2>b. buList[m] = b
    OBVIOUS
  <2> HIDE DEF b, e, st
  <2>5. e \in EntryType /\ e.hnps = b.hnps /\ e.tunnelIf = 0 /\ e.ifIndex = b.ifIndex
    BY <2>1, <2>3, <2>4 DEF EntryType
  <2>6. Writes(m, e)
    BY <2>1, <2>2, <2>b, <2>5, Zenon DEF Writes
  <2>. QED BY <2>6
<1>. QED BY <1>1, <1>2, <1>3, <1>4 DEF OwnStep

\* The entry of m becomes e by an answer that names the prefixes hs: the node is
\* set up, or has its tunnel already.
Takes(m, hs, e) ==
    /\ e \in EntryType /\ buList[m] # None /\ buList' = [buList EXCEPT ![m] = e]
    /\ e.hnps = hs /\ e.ifIndex = buList[m].ifIndex /\ sent' = sent
    /\ \/ /\ UNCHANGED <<tunnelList, routes, sourceRoutes>>
          /\ e.tunnelIf = buList[m].tunnelIf
       \/ SetupNetwork(m, e) /\ e.tunnelIf = AddTunnelIf(tunnelList, LmaAddress[m])

LEMMA AcceptedTakes ==
    ASSUME MagInv, NEW p, p.mn \in Mn, NEW hs \in SUBSET Prefix, NEW life,
           HandlePbaAccepted(p, hs, life)
    PROVE  \E e : Takes(p.mn, hs, e)
<1> DEFINE m == p.mn
           b == buList[m]
           e == AcceptedEntry(b, hs)
           d == AddTunnelIf(tunnelList, LmaAddress[m])
           g == [e EXCEPT !.tunnelIf = d, !.radvdIf = e.ifIndex]
<1>1. m \in Mn /\ LmaAddress[m] \in Addr
  BY MagAssumption
<1>2. b # None /\ b \in EntryType
  BY <1>1 DEF HandlePbaAccepted, Current, MagInv, EntryOK
<1>3. /\ sent' = sent
      /\ \/ SetupNetwork(m, e) /\ buList' = [buList EXCEPT ![m] = g]
         \/ UNCHANGED netVars /\ buList' = [buList EXCEPT ![m] = e]
  BY DEF HandlePbaAccepted
<1>4. e = [b EXCEPT !.packet = None, !.retransTimer = FALSE, !.hnps = hs,
                    !.state = "REACHABLE", !.refreshTimer = TRUE,
                    !.reachableTimer = TRUE]
  BY DEF AcceptedEntry
<1>5. d \in Nat
  BY <1>1, AddTunnelLive DEF MagInv
<1>m. p.mn = m /\ buList[m] = b
  OBVIOUS
<1>n. AddTunnelIf(tunnelList, LmaAddress[m]) = d
  OBVIOUS
<1> HIDE DEF b, d, e, m
<1>6. /\ e \in EntryType /\ e.hnps = hs /\ e.ifIndex = b.ifIndex
      /\ e.tunnelIf = b.tunnelIf
  BY <1>2, <1>4 DEF EntryType
<1>7. /\ g \in EntryType /\ g.hnps = hs /\ g.ifIndex = b.ifIndex /\ g.tunnelIf = d
  BY <1>5, <1>6 DEF EntryType
<1> HIDE DEF g
<1>8. CASE SetupNetwork(m, e) /\ buList' = [buList EXCEPT ![m] = g]
  <2>1. SetupNetwork(m, g)
    BY <1>6, <1>7, <1>8 DEF SetupNetwork
  <2>2. Takes(m, hs, g)
    BY <1>2, <1>3, <1>m, <1>n, <1>7, <1>8, <2>1, Zenon DEF Takes
  <2>. QED BY <1>m, <2>2
<1>9. CASE UNCHANGED netVars /\ buList' = [buList EXCEPT ![m] = e]
  <2>1. Takes(m, hs, e)
    BY <1>2, <1>3, <1>m, <1>6, <1>9 DEF Takes, netVars
  <2>. QED BY <1>m, <2>1
<1>. QED BY <1>3, <1>8, <1>9

-----------------------------------------------------------------------------
(***************************************************************************)
(* A MAG with one access interface whose nodes are all of one LMA, which   *)
(* grants a lifetime with every answer and never changes its mind about    *)
(* the prefixes of a bound node.                                           *)
(***************************************************************************)

\* All nodes have LMA l and attach at interface i.
OneWay(l, i) ==
    /\ l \in Addr /\ \A m \in Mn : LmaAddress[m] = l
    /\ AccessIf = {i}

\* The only device leads to l and counts more than the bound nodes, which all
\* use it; every route to a node goes out by i, every route from it by that
\* device, and bound nodes have both for each of their prefixes.
Serving(l, i) ==
    /\ ListOK(tunnelList)
    /\ \A d \in DOMAIN tunnelList : tunnelList[d].remote = l
    /\ \A d \in DOMAIN tunnelList : tunnelList[d].ref > Cardinality(Bound)
    /\ routes \in [Prefix -> Seq({i})] /\ sourceRoutes \in [Prefix -> Seq({1})]
    /\ \A m \in Mn : buList[m] # None => buList[m].ifIndex = i
    /\ \A m \in Bound :
          /\ buList[m].tunnelIf \in DOMAIN tunnelList
          /\ \A h \in buList[m].hnps : routes[h] # <<>> /\ sourceRoutes[h] # <<>>

\* One remote for all makes one device at most.
LEMMA OneDevice ==
    ASSUME NEW list, ListOK(list), NEW l, \A d \in DOMAIN list : list[d].remote = l
    PROVE  DOMAIN list \subseteq {1}
<1>1. DOMAIN list = 1 .. Len(list) /\ Len(list) \in Nat
  BY DEF ListOK
<1> SUFFICES ASSUME NEW d \in DOMAIN list, d # 1 PROVE FALSE
  OBVIOUS
<1>2. 1 \in DOMAIN list
  BY <1>1
<1>. QED BY <1>2 DEF ListOK

LEMMA BoundMn ==
    ASSUME MagInv
    PROVE  /\ Bound = {m \in Mn : buList[m] # None /\ buList[m].tunnelIf # 0}
           /\ IsFiniteSet(Bound) /\ Cardinality(Bound) \in Nat
<1>1. Bound = {m \in Mn : buList[m] # None /\ buList[m].tunnelIf # 0}
  BY DEF Bound, Entries
<1>2. IsFiniteSet(Mn) /\ Bound \subseteq Mn
  BY <1>1, MagAssumption
<1>. QED BY <1>1, <1>2, FS_Subset, FS_CardinalityType

\* How the bound nodes change when the entry of m becomes e.
LEMMA BoundMoves ==
    ASSUME MagInv, NEW m \in Mn, NEW e \in EntryType, buList' = [buList EXCEPT ![m] = e]
    PROVE  /\ buList'[m] = e /\ e # None
           /\ \A n \in Mn : n # m => buList'[n] = buList[n]
           /\ e.tunnelIf # 0 => Bound' = Bound \cup {m}
           /\ e.tunnelIf = 0 => Bound' = Bound \ {m}
<1>1. buList'[m] = e /\ \A n \in Mn : n # m => buList'[n] = buList[n]
  BY DEF MagInv
<1>2. e # None
  BY NoneAssumption
<1>3. Bound' = {n \in Mn : buList'[n] # None /\ buList'[n].tunnelIf # 0}
  BY DEF Bound, Entries
<1>4. Bound = {n \in Mn : buList[n] # None /\ buList[n].tunnelIf # 0}
  BY DEF Bound, Entries
<1>. QED BY <1>1, <1>2, <1>3, <1>4

\* The entry of m changes, devices and routes do not.
LEMMA QuietServes ==
    ASSUME MagInv, NEW l, NEW i, Serving(l, i), NEW m \in Mn, NEW e \in EntryType,
           buList' = [buList EXCEPT ![m] = e], e.ifIndex = i,
           UNCHANGED <<tunnelList, routes, sourceRoutes>>,
           \/ e.tunnelIf = 0
           \/ /\ buList[m] # None /\ e.tunnelIf = buList[m].tunnelIf
              /\ e.hnps = buList[m].hnps
    PROVE  Serving(l, i)'
<1>1. /\ buList'[m] = e /\ e # None
      /\ \A n \in Mn : n # m => buList'[n] = buList[n]
      /\ e.tunnelIf # 0 => Bound' = Bound \cup {m}
      /\ e.tunnelIf = 0 => Bound' = Bound \ {m}
  BY BoundMoves
<1>2. /\ Bound = {n \in Mn : buList[n] # None /\ buList[n].tunnelIf # 0}
      /\ IsFiniteSet(Bound) /\ Cardinality(Bound) \in Nat
  BY BoundMn
<1>3. Bound' \subseteq Bound
  BY <1>1, <1>2
<1>4. Cardinality(Bound') \in Nat /\ Cardinality(Bound') <= Cardinality(Bound)
  BY <1>2, <1>3, FS_Subset, FS_CardinalityType
<1>5. \A d \in DOMAIN tunnelList' : tunnelList'[d].ref > Cardinality(Bound')
  <2> SUFFICES ASSUME NEW d \in DOMAIN tunnelList
               PROVE  tunnelList[d].ref > Cardinality(Bound')
    OBVIOUS
  <2>1. tunnelList[d].ref > Cardinality(Bound) /\ tunnelList[d] \in Device
    BY DEF Serving, ListOK
  <2>2. tunnelList[d].ref \in Nat
    BY <2>1 DEF Device
  <2>. QED BY <1>2, <1>4, <2>1, <2>2
<1>6. \A n \in Mn : buList'[n] # None => buList'[n].ifIndex = i
  BY <1>1 DEF Serving
<1>7. ASSUME NEW n \in Bound'
      PROVE  /\ buList'[n].tunnelIf \in DOMAIN tunnelList
             /\ \A h \in buList'[n].hnps : routes[h] # <<>> /\ sourceRoutes[h] # <<>>
  <2>1. n \in Bound /\ n \in Mn
    BY <1>2, <1>3
  <2>2. CASE n = m
    BY <1>1, <2>1, <2>2 DEF Serving
  <2>3. CASE n # m
    BY <1>1, <2>1, <2>3 DEF Serving
  <2>. QED BY <2>2, <2>3
<1>. QED BY <1>5, <1>6, <1>7 DEF Serving

\* The tunnel of a bound node is given back: other nodes keep theirs, and no
\* route goes, as RemoveRoute is asked for another prefixToUse.
LEMMA ClearServes ==
    ASSUME MagInv, NEW l, NEW i, OneWay(l, i), Serving(l, i), NEW m \in Mn,
           NEW e \in EntryType, buList' = [buList EXCEPT ![m] = e], e.ifIndex = i,
           buList[m] # None, buList[m].tunnelIf # 0, e.tunnelIf = 0,
           ClearTunnelAndRouting(m, buList[m])
    PROVE  Serving(l, i)'
<1> DEFINE d == buList[m].tunnelIf
           new == RemoveTunnelList(tunnelList, l)
<1>1. /\ buList'[m] = e /\ e # None
      /\ \A n \in Mn : n # m => buList'[n] = buList[n]
      /\ Bound' = Bound \ {m}
  BY BoundMoves
<1>2. /\ Bound = {n \in Mn : buList[n] # None /\ buList[n].tunnelIf # 0}
      /\ IsFiniteSet(Bound) /\ Cardinality(Bound) \in Nat
  BY BoundMn
<1>3. m \in Bound
  BY <1>2
<1>4. Cardinality(Bound') = Cardinality(Bound) - 1 /\ Cardinality(Bound) > 0
  <2>1. Cardinality(Bound \ {m}) = Cardinality(Bound) - 1
    BY <1>2, <1>3, FS_RemoveElement
  <2>2. Cardinality(Bound) # 0
    BY <1>2, <1>3, FS_EmptySet
  <2>. QED BY <1>1, <1>2, <2>1, <2>2
<1>5. /\ d \in DOMAIN tunnelList /\ tunnelList[d].remote = l
      /\ tunnelList[d].ref > Cardinality(Bound) /\ tunnelList[d] \in Device
      /\ DOMAIN tunnelList \subseteq {1} /\ ListOK(tunnelList)
  BY <1>3, OneDevice DEF Serving, ListOK
<1>6. tunnelList[d].ref > 1
  BY <1>2, <1>4, <1>5 DEF Device
<1>7. Drops(tunnelList, d, new)
  BY <1>5, <1>6, RemoveTunnelCorrect
<1>8. /\ tunnelList' = new
      /\ routes' = [h \in Prefix |-> routes[h]]
      /\ sourceRoutes' = [h \in Prefix |-> sourceRoutes[h]]
  <2>1. \A h \in Prefix : \A t, k : RemoveRoute(t, k, h) = t
    BY PrefixAssumption DEF RemoveRoute
  <2>. QED BY <2>1 DEF ClearTunnelAndRouting, OneWay
<1>9. routes' = routes /\ sourceRoutes' = sourceRoutes
  BY <1>8 DEF Serving
<1> HIDE DEF d, new
<1>10. /\ ListOK(tunnelList') /\ DOMAIN tunnelList' = DOMAIN tunnelList
       /\ \A x \in DOMAIN tunnelList' : tunnelList'[x].remote = l
  BY <1>7, <1>8 DEF Drops, Serving
<1>11. \A x \in DOMAIN tunnelList' : tunnelList'[x].ref > Cardinality(Bound')
  <2>1. DOMAIN tunnelList' = {d}
    BY <1>5, <1>10
  <2>2. tunnelList'[d].ref = tunnelList[d].ref - 1 /\ tunnelList[d].ref \in Nat
    BY <1>5, <1>7, <1>8 DEF Drops, Device
  <2>. QED BY <1>2, <1>4, <1>5, <2>1, <2>2
<1>12. \A n \in Mn : buList'[n] # None => buList'[n].ifIndex = i
  BY <1>1 DEF Serving
<1>13. \A n \in Bound' :
          /\ buList'[n].tunnelIf \in DOMAIN tunnelList'
          /\ \A h \in buList'[n].hnps : routes'[h] # <<>> /\ sourceRoutes'[h] # <<>>
  BY <1>1, <1>2, <1>9, <1>10 DEF Serving
<1>. QED BY <1>9, <1>10, <1>11, <1>12, <1>13 DEF Serving

\* The tunnel and the routes of a node are set up.
LEMMA SetupServes ==
    ASSUME MagInv, NEW l, NEW i, OneWay(l, i), Serving(l, i), NEW m \in Mn,
           NEW e \in EntryType, buList' = [buList EXCEPT ![m] = e], e.ifIndex = i,
           SetupNetwork(m, e), e.tunnelIf = AddTunnelIf(tunnelList, LmaAddress[m])
    PROVE  Serving(l, i)'
<1> DEFINE d == AddTunnelIf(tunnelList, l)
           new == AddTunnelList(tunnelList, l)
<1>0. /\ ListOK(tunnelList) /\ l \in Addr /\ LmaAddress[m] = l
      /\ routes \in [Prefix -> Seq({i})] /\ sourceRoutes \in [Prefix -> Seq({1})]
  BY DEF Serving, OneWay
<1>1. Adds(tunnelList, l, d, new)
  BY <1>0, AddTunnelCorrect
<1>2. /\ e.tunnelIf = d /\ tunnelList' = new
      /\ routes' = [h \in Prefix |-> IF h \in e.hnps THEN AddNetworkRoute(routes[h], i)
                                     ELSE routes[h]]
      /\ sourceRoutes' = [h \in Prefix |->
             IF h \in e.hnps THEN AddNetworkRoute(sourceRoutes[h], d) ELSE sourceRoutes[h]]
  BY <1>0 DEF SetupNetwork
<1> HIDE DEF d, new
<1>3. \A x \in DOMAIN new : new[x].remote = l
  BY <1>1 DEF Adds, Serving
<1>4. ListOK(new) /\ d \in DOMAIN new
  BY <1>1 DEF Adds
<1>5. DOMAIN new = {1} /\ d = 1
  BY <1>3, <1>4, OneDevice
<1>6. /\ buList'[m] = e /\ e # None
      /\ \A n \in Mn : n # m => buList'[n] = buList[n]
      /\ Bound' = Bound \cup {m}
  <2>1. e.tunnelIf # 0
    BY <1>2, <1>5
  <2>. QED BY <2>1, BoundMoves
<1>7. /\ Bound = {n \in Mn : buList[n] # None /\ buList[n].tunnelIf # 0}
      /\ IsFiniteSet(Bound) /\ Cardinality(Bound) \in Nat
  BY BoundMn
<1>8. Cardinality(Bound') \in Nat /\ Cardinality(Bound') <= Cardinality(Bound) + 1
  <2>1. CASE m \in Bound
    <3>1. Bound' = Bound
      BY <1>6, <2>1
    <3>. QED BY <1>7, <3>1
  <2>2. CASE m \notin Bound
    <3>1. Cardinality(Bound \cup {m}) = Cardinality(Bound) + 1
      BY <1>7, <2>2, FS_AddElement
    <3>. QED BY <1>6, <1>7, <3>1
  <2>. QED BY <2>1, <2>2
<1>9. new[1].ref > Cardinality(Bound')
  <2>1. CASE d \in DOMAIN tunnelList
    <3>0. 1 \in DOMAIN tunnelList /\ tunnelList[1] \in Device
      BY <1>0, <1>5, <2>1 DEF ListOK
    <3>1. new[1].ref = tunnelList[1].ref + 1 /\ tunnelList[1].ref \in Nat
          /\ tunnelList[1].ref > Cardinality(Bound)
      BY <1>1, <1>5, <3>0 DEF Adds, Serving, Device
    <3>. QED BY <1>7, <1>8, <3>1
  <2>2. CASE d \notin DOMAIN tunnelList
    <3>1. new[1].ref = 2
      BY <1>1, <1>5, <2>2 DEF Adds
    <3>2. DOMAIN tunnelList = {}
      BY <1>0, <1>5, <2>2, OneDevice DEF Serving
    <3>3. Bound = {}
      BY <3>2 DEF Serving
    <3>4. Cardinality(Bound) = 0
      BY <3>3, FS_EmptySet
    <3>. QED BY <1>8, <3>1, <3>4
  <2>. QED BY <2>1, <2>2
<1>10. \A h \in Prefix :
          /\ routes'[h] \in Seq({i})
          /\ h \in e.hnps \/ routes[h] # <<>> => routes'[h] # <<>>
  <2> SUFFICES ASSUME NEW h \in Prefix
               PROVE  /\ routes'[h] \in Seq({i})
                      /\ h \in e.hnps \/ routes[h] # <<>> => routes'[h] # <<>>
    OBVIOUS
  <2>1. routes[h] \in Seq({i}) /\ i \in {i}
    BY <1>0
  <2>2. AddNetworkRoute(routes[h], i) \in Seq({i}) /\ AddNetworkRoute(routes[h], i) # <<>>
    BY <2>1, AddNetworkRouteCorrect
  <2>. QED BY <1>2, <2>1, <2>2
<1>11. \A h \in Prefix :
          /\ sourceRoutes'[h] \in Seq({1})
          /\ h \in e.hnps \/ sourceRoutes[h] # <<>> => sourceRoutes'[h] # <<>>
  <2> SUFFICES ASSUME NEW h \in Prefix
               PROVE  /\ sourceRoutes'[h] \in Seq({1})
                      /\ h \in e.hnps \/ sourceRoutes[h] # <<>> => sourceRoutes'[h] # <<>>
    OBVIOUS
  <2>1. sourceRoutes[h] \in Seq({1}) /\ 1 \in {1}
    BY <1>0
  <2>2. /\ AddNetworkRoute(sourceRoutes[h], 1) \in Seq({1})
        /\ AddNetworkRoute(sourceRoutes[h], 1) # <<>>
    BY <2>1, AddNetworkRouteCorrect
  <2>. QED BY <1>2, <1>5, <2>1, <2>2
<1>12. routes' \in [Prefix -> Seq({i})] /\ sourceRoutes' \in [Prefix -> Seq({1})]
  BY <1>2, <1>10, <1>11
<1>13. \A n \in Mn : buList'[n] # None => buList'[n].ifIndex = i
  BY <1>6 DEF Serving
<1>14. ASSUME NEW n \in Bound'
       PROVE  /\ buList'[n].tunnelIf \in DOMAIN tunnelList'
              /\ \A h \in buList'[n].hnps : routes'[h] # <<>> /\ sourceRoutes'[h] # <<>>
  <2>1. CASE n = m
    <3>1. e.hnps \subseteq Prefix
      BY DEF EntryType
    <3>. QED BY <1>2, <1>4, <1>6, <1>10, <1>11, <2>1, <3>1
  <2>2. CASE n # m
    <3>1. n \in Bound /\ n \in Mn /\ buList'[n] = buList[n] /\ buList[n] \in EntryType
      BY <1>6, <1>7, <2>2 DEF MagInv, EntryOK
    <3>2. buList[n].hnps \subseteq Prefix
      BY <3>1 DEF EntryType
    <3>3. buList[n].tunnelIf \in DOMAIN tunnelList
      BY <3>1 DEF Serving
    <3>4. DOMAIN tunnelList \subseteq DOMAIN new
      BY <1>0, <1>5, OneDevice DEF Serving
    <3>. QED BY <1>2, <1>10, <1>11, <3>1, <3>2, <3>3, <3>4 DEF Serving
  <2>. QED BY <2>1, <2>2
<1>15. \A x \in DOMAIN new : new[x].ref > Cardinality(Bound')
  BY <1>5, <1>9
<1>. QED BY <1>2, <1>3, <1>4, <1>12, <1>13, <1>14, <1>15 DEF Serving

\* A step of the node itself leaves a serving MAG serving, if the profile of a
\* bound node names no prefixes but those it has.
LEMMA OwnStepServes ==
    ASSUME MagInv, NEW l, NEW i, OneWay(l, i), Serving(l, i), NEW m \in Mn,
           OwnStep(m),
           m \in Bound /\ ProfileHnp[m] # {} => buList[m].hnps = ProfileHnp[m]
    PROVE  Serving(l, i)'
<1>1. PICK e : Writes(m, e)
  BY OwnStepWrites
<1>2. /\ e \in EntryType /\ buList' = [buList EXCEPT ![m] = e]
      /\ e.hnps = Hnps(m) \/ (ProfileHnp[m] # {} /\ e.hnps = ProfileHnp[m])
      /\ e.tunnelIf = 0 \/ (buList[m] # None /\ e.tunnelIf = buList[m].tunnelIf)
      /\ e.ifIndex \in AccessIf \/ (buList[m] # None /\ e.ifIndex = buList[m].ifIndex)
      /\ \/ UNCHANGED <<tunnelList, routes, sourceRoutes>>
         \/ /\ buList[m] # None /\ buList[m].tunnelIf # 0 /\ e.tunnelIf = 0
            /\ ClearTunnelAndRouting(m, buList[m])
  BY <1>1 DEF Writes
<1>3. e.ifIndex = i
  BY <1>2 DEF OneWay, Serving
<1>4. CASE UNCHANGED <<tunnelList, routes, sourceRoutes>>
  <2>1. \/ e.tunnelIf = 0
        \/ /\ buList[m] # None /\ e.tunnelIf = buList[m].tunnelIf
           /\ e.hnps = buList[m].hnps
    <3> SUFFICES ASSUME e.tunnelIf # 0
                 PROVE  /\ buList[m] # None /\ e.tunnelIf = buList[m].tunnelIf
                        /\ e.hnps = buList[m].hnps
      OBVIOUS
    <3>1. buList[m] # None /\ e.tunnelIf = buList[m].tunnelIf
      BY <1>2
    <3>2. m \in Bound /\ Hnps(m) = buList[m].hnps
      BY <3>1 DEF Bound, Entries, Hnps
    <3>. QED BY <1>2, <3>1, <3>2
  <2>. QED BY <1>2, <1>3, <1>4, <2>1, QuietServes
<1>5. CASE /\ buList[m] # None /\ buList[m].tunnelIf # 0 /\ e.tunnelIf = 0
           /\ ClearTunnelAndRouting(m, buList[m])
  BY <1>2, <1>3, <1>5, ClearServes
<1>. QED BY <1>2, <1>4, <1>5

\* So does an answer that names the prefixes a bound node has.
LEMMA AnswerServes ==
    ASSUME MagInv, NEW l, NEW i, OneWay(l, i), Serving(l, i), NEW a, a.mn \in Mn,
           NEW hs \in SUBSET Prefix, NEW life, HandlePbaAccepted(a, hs, life),
           a.mn \in Bound => buList[a.mn].hnps = hs
    PROVE  Serving(l, i)'
<1> DEFINE m == a.mn
<1>m. m \in Mn /\ (m \in Bound => buList[m].hnps = hs)
  OBVIOUS
<1>1. PICK e : Takes(m, hs, e)
  BY AcceptedTakes
<1> HIDE DEF m
<1>2. /\ e \in EntryType /\ buList[m] # None /\ buList' = [buList EXCEPT ![m] = e]
      /\ e.hnps = hs /\ e.ifIndex = buList[m].ifIndex
      /\ \/ /\ UNCHANGED <<tunnelList, routes, sourceRoutes>>
            /\ e.tunnelIf = buList[m].tunnelIf
         \/ SetupNetwork(m, e) /\ e.tunnelIf = AddTunnelIf(tunnelList, LmaAddress[m])
  BY <1>1 DEF Takes
<1>3. e.ifIndex = i
  BY <1>2, <1>m DEF Serving
<1>4. CASE UNCHANGED <<tunnelList, routes, sourceRoutes>> /\ e.tunnelIf = buList[m].tunnelIf
  <2>1. e.tunnelIf = 0 \/ e.hnps = buList[m].hnps
    BY <1>2, <1>4, <1>m DEF Bound, Entries
  <2>. QED BY <1>2, <1>3, <1>4, <1>m, <2>1, QuietServes
<1>5. CASE SetupNetwork(m, e) /\ e.tunnelIf = AddTunnelIf(tunnelList, LmaAddress[m])
  BY <1>2, <1>3, <1>5, <1>m, SetupServes
<1>. QED BY <1>2, <1>4, <1>5

LEMMA ServingInit ==
    ASSUME NEW l, NEW i, Init
    PROVE  Serving(l, i)
<1>1. tunnelList = <<>> /\ Bound = {}
  BY DEF Init, Bound, Entries
<1>2. ListOK(tunnelList)
  BY <1>1 DEF ListOK
<1>. QED BY <1>1, <1>2 DEF Init, Serving

\* The tunnels and the routes of a serving MAG are in order.
LEMMA ServingMeans ==
    ASSUME MagInv, NEW l, NEW i, OneWay(l, i), Serving(l, i)
    PROVE  TunnelLeadsToLma /\ PrefixRouted
<1>1. /\ Bound = {m \in Mn : buList[m] # None /\ buList[m].tunnelIf # 0}
      /\ IsFiniteSet(Bound) /\ Cardinality(Bound) \in Nat
  BY BoundMn
<1>2. DOMAIN tunnelList \subseteq {1} /\ tunnelList \in Seq(Device)
  BY OneDevice DEF Serving, ListOK
<1>3. ASSUME NEW m \in Bound
      PROVE  /\ buList[m].tunnelIf \in DOMAIN tunnelList
             /\ tunnelList[buList[m].tunnelIf].remote = LmaAddress[m]
  BY <1>1 DEF Serving, OneWay
<1>4. ASSUME NEW d \in DOMAIN tunnelList
      PROVE  tunnelList[d].ref > Cardinality({m \in Bound : buList[m].tunnelIf = d})
  <2> DEFINE U == {m \in Bound : buList[m].tunnelIf = d}
  <2>1. Cardinality(U) \in Nat /\ Cardinality(U) <= Cardinality(Bound)
    BY <1>1, FS_Subset, FS_CardinalityType
  <2>2. tunnelList[d] \in Device /\ tunnelList[d].ref > Cardinality(Bound)
    BY <1>2 DEF Serving
  <2>3. tunnelList[d].ref \in Nat
    BY <2>2 DEF Device
  <2>. QED BY <1>1, <2>1, <2>2, <2>3
<1>5. \A T, t : t \in Seq({T}) /\ t # <<>> => LookupStatic(t) = T
  <2> SUFFICES ASSUME NEW T, NEW t \in Seq({T}), t # <<>> PROVE LookupStatic(t) = T
    OBVIOUS
  <2>1. Len(t) \in DOMAIN t
    OBVIOUS
  <2>. QED BY <2>1 DEF LookupStatic, Last
<1>6. ASSUME NEW m \in Bound, NEW h \in buList[m].hnps
      PROVE  /\ routes[h] # <<>> /\ LookupStatic(routes[h]) = buList[m].ifIndex
             /\ sourceRoutes[h] # <<>>
             /\ LookupStatic(sourceRoutes[h]) = buList[m].tunnelIf
  <2>1. m \in Mn /\ buList[m] # None /\ buList[m] \in EntryType
    BY <1>1 DEF MagInv, EntryOK
  <2>2. h \in Prefix
    BY <2>1 DEF EntryType
  <2>3. /\ routes[h] \in Seq({i}) /\ routes[h] # <<>>
        /\ sourceRoutes[h] \in Seq({1}) /\ sourceRoutes[h] # <<>>
        /\ buList[m].ifIndex = i /\ buList[m].tunnelIf = 1
    BY <1>2, <2>1, <2>2 DEF Serving
  <2>. QED BY <1>5, <2>3
<1>. QED BY <1>3, <1>4, <1>6 DEF TunnelLeadsToLma, PrefixRouted

-----------------------------------------------------------------------------
(***************************************************************************)
(* What a MAG knows of the nodes, against what is true of them: the        *)
(* prefixes P[m] the LMA has for each node, the nodes V that have attached *)
(* to this MAG and the nodes H the LMA has registered.                     *)
(***************************************************************************)

\* Entries B and updates S are about nodes that came here, name no prefixes or
\* those of the node, and a tunnel is kept only for registered nodes.
Knows(B, S, P, V, H) ==
    /\ \A m \in Mn : B[m] # None =>
          /\ m \in V /\ B[m].hnps \in {{}, P[m]}
          /\ B[m].tunnelIf # 0 => B[m].hnps # {} /\ m \in H
    /\ \A q \in S : q.mn \in V

LEMMA OwnStepKnows ==
    ASSUME MagInv, NEW P, NEW V, NEW H, Knows(buList, sent, P, V, H), NEW m \in Mn,
           OwnStep(m), buList[m] # None \/ m \in V,
           ProfileHnp[m] # {} => P[m] = ProfileHnp[m]
    PROVE  /\ MagInv' /\ Knows(buList', sent', P, V, H)
           /\ m \in Bound /\ ProfileHnp[m] # {} => buList[m].hnps = ProfileHnp[m]
<1>1. MagInv'
  BY HandleNewNodeKeeps, RefreshTimeoutKeeps, RetransTimeoutKeeps,
     ReachableTimeoutKeeps DEF OwnStep
<1>2. PICK e : Writes(m, e)
  BY OwnStepWrites
<1>3. /\ e \in EntryType /\ buList' = [buList EXCEPT ![m] = e]
      /\ e.hnps = Hnps(m) \/ (ProfileHnp[m] # {} /\ e.hnps = ProfileHnp[m])
      /\ e.tunnelIf = 0 \/ (buList[m] # None /\ e.tunnelIf = buList[m].tunnelIf)
      /\ \A q \in sent' : q \in sent \/ q.mn = m
  BY <1>2 DEF Writes
<1>4. buList'[m] = e /\ \A n \in Mn : n # m => buList'[n] = buList[n]
  BY <1>3, BoundMoves
<1>5. m \in V /\ Hnps(m) \in {{}, P[m]}
  BY DEF Knows, Hnps
<1>6. e.hnps \in {{}, P[m]}
  BY <1>3, <1>5
<1>7. e.tunnelIf # 0 => e.hnps # {} /\ m \in H
  BY <1>3 DEF Knows, Hnps
<1>8. \A q \in sent' : q.mn \in V
  BY <1>3, <1>5 DEF Knows
<1>9. ASSUME NEW n \in Mn, buList'[n] # None
      PROVE  /\ n \in V /\ buList'[n].hnps \in {{}, P[n]}
             /\ buList'[n].tunnelIf # 0 => buList'[n].hnps # {} /\ n \in H
  <2>1. CASE n = m
    BY <1>4, <1>5, <1>6, <1>7, <2>1
  <2>2. CASE n # m
    BY <1>4, <1>9, <2>2 DEF Knows
  <2>. QED BY <2>1, <2>2
<1>10. Knows(buList', sent', P, V, H)
  BY <1>8, <1>9 DEF Knows
<1>11. m \in Bound /\ ProfileHnp[m] # {} => buList[m].hnps = ProfileHnp[m]
  BY DEF Knows, Bound, Entries
<1>. QED BY <1>1, <1>10, <1>11

LEMMA AnswerKnows ==
    ASSUME MagInv, NEW P, NEW V, NEW H, Knows(buList, sent, P, V, H), NEW a,
           a.mn \in Mn, a.mn \in H, NEW hs \in SUBSET Prefix, hs # {}, hs = P[a.mn],
           NEW life, HandlePbaAccepted(a, hs, life)
    PROVE  /\ MagInv' /\ Knows(buList', sent', P, V, H)
           /\ a.mn \in Bound => buList[a.mn].hnps = hs
<1> DEFINE m == a.mn
<1>m. m \in Mn /\ m \in H /\ hs = P[m]
  OBVIOUS
<1>1. MagInv'
  BY AcceptedKeeps
<1>2. PICK e : Takes(m, hs, e)
  BY AcceptedTakes
<1>a. a.mn = m
  OBVIOUS
<1> HIDE DEF m
<1>3. /\ e \in EntryType /\ buList[m] # None /\ buList' = [buList EXCEPT ![m] = e]
      /\ e.hnps = hs /\ sent' = sent
  BY <1>2 DEF Takes
<1>4. buList'[m] = e /\ \A n \in Mn : n # m => buList'[n] = buList[n]
  BY <1>3, <1>m, BoundMoves
<1>5. m \in V
  BY <1>3, <1>m DEF Knows
<1>6. ASSUME NEW n \in Mn, buList'[n] # None
      PROVE  /\ n \in V /\ buList'[n].hnps \in {{}, P[n]}
             /\ buList'[n].tunnelIf # 0 => buList'[n].hnps # {} /\ n \in H
  <2>1. CASE n = m
    BY <1>3, <1>4, <1>5, <1>m, <2>1
  <2>2. CASE n # m
    BY <1>4, <1>6, <2>2 DEF Knows
  <2>. QED BY <2>1, <2>2
<1>7. Knows(buList', sent', P, V, H)
  BY <1>3, <1>6 DEF Knows
<1>8. m \in Bound => buList[m].hnps = hs
  BY <1>m DEF Knows, Bound, Entries
<1>. QED BY <1>1, <1>7, <1>8, <1>a

\* Knowledge is not lost as nodes attach and the LMA registers them.
LEMMA KnowsMore ==
    ASSUME NEW B, NEW S, NEW P, NEW V, NEW H, NEW Q, NEW W, NEW K,
           Knows(B, S, P, V, H), V \subseteq W, H \subseteq K,
           \A m \in Mn : P[m] # {} => Q[m] = P[m]
    PROVE  Knows(B, S, Q, W, K)
<1>1. ASSUME NEW m \in Mn, B[m] # None
      PROVE  /\ m \in W /\ B[m].hnps \in {{}, Q[m]}
             /\ B[m].tunnelIf # 0 => B[m].hnps # {} /\ m \in K
  BY <1>1 DEF Knows
<1>. QED BY <1>1 DEF Knows

\* A step of somebody else.
LEMMA ElsewhereKeeps ==
    ASSUME MagInv, UNCHANGED <<buList, sequence, tunnelList, routes, sourceRoutes, sent>>,
           now' \in Nat
    PROVE  MagInv' /\ \A l, i : Serving(l, i) => Serving(l, i)'
<1>1. MagInv'
  BY DEF MagInv
<1>2. Bound' = Bound
  BY DEF Bound, Entries
<1>3. \A l, i : Serving(l, i) => Serving(l, i)'
  BY <1>2 DEF Serving
<1>. QED BY <1>1, <1>3
=============================================================================
