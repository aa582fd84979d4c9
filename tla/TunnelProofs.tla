---------------------------- MODULE TunnelProofs ----------------------------
(***************************************************************************)
(* The invariants of Tunnel, for any number of clients and remotes.        *)
(***************************************************************************)
EXTENDS Tunnel, ForwardingProofs, FiniteSetTheorems, TLAPS

(***************************************************************************)
(* How the number of users of a remote changes with one client's peer.     *)
(***************************************************************************)

UsersOf(p, r) == {c \in Client : p[c] = r}

\* The clients are finitely many, so the users of a remote can be counted.
LEMMA UsersFinite ==
    ASSUME NEW p, NEW r
    PROVE  IsFiniteSet(UsersOf(p, r)) /\ Cardinality(UsersOf(p, r)) \in Nat
BY ClientAssumption, FS_Subset, FS_CardinalityType DEF UsersOf

\* A client that turns to remote n is one more user of n, one less of the
\* remote it had, and nobody else's count changes.
Moves(p, q, old, n) ==
    /\ Cardinality(UsersOf(q, n)) = Cardinality(UsersOf(p, n)) + 1
    /\ Cardinality(UsersOf(q, old)) = Cardinality(UsersOf(p, old)) - 1
    /\ \A r : r \notin {n, old} => UsersOf(q, r) = UsersOf(p, r)

\* What every AddTunnel, RemoveTunnel and ModifyTunnel of a client does to
\* the number of users of each remote.
LEMMA UsersMove ==
    ASSUME NEW p, NEW q, NEW c \in Client, p[c] # q[c],
           \A x \in Client : x # c => q[x] = p[x]
    PROVE  Moves(p, q, p[c], q[c])
<1> DEFINE n   == q[c]
           old == p[c]
<1>1. UsersOf(q, n) = UsersOf(p, n) \cup {c} /\ c \notin UsersOf(p, n)
  BY DEF UsersOf
<1>2. UsersOf(q, old) = UsersOf(p, old) \ {c} /\ c \in UsersOf(p, old)
  BY DEF UsersOf
<1>3. \A r : r \notin {n, old} => UsersOf(q, r) = UsersOf(p, r)
  BY DEF UsersOf
<1> HIDE DEF n, old
<1>4. Cardinality(UsersOf(q, n)) = Cardinality(UsersOf(p, n)) + 1
  BY <1>1, UsersFinite, FS_AddElement
<1>5. Cardinality(UsersOf(q, old)) = Cardinality(UsersOf(p, old)) - 1
  BY <1>2, UsersFinite, FS_RemoveElement
<1>6. Moves(p, q, old, n)
  BY <1>3, <1>4, <1>5 DEF Moves
<1>. QED BY <1>6 DEF n, old

-----------------------------------------------------------------------------
(***************************************************************************)
(* The inductive invariant.  RefCountsUsers alone is not inductive: that   *)
(* AddTunnel and RemoveTunnel count on the right device needs the remotes  *)
(* to be distinct, and that needs the reuse of a freed device and the      *)
(* re-addressing in ModifyTunnel to be unreachable, which follows from the *)
(* count being above 1 as long as the device has a user.                   *)
(***************************************************************************)

IInv ==
    /\ TypeOK
    /\ ListOK(tunnelList)
    /\ RefCountsUsers
    /\ TunnelServesPeer

\* The device of a client, its remote and its count.
LEMMA ClientDevice ==
    ASSUME IInv, NEW c \in Client, peer[c] # Zero
    PROVE  /\ iface[c] \in DOMAIN tunnelList
           /\ tunnelList[iface[c]].remote = peer[c]
           /\ tunnelList[iface[c]].ref > 1
           /\ GetTunnelDevice(tunnelList, peer[c]) = iface[c]
<1>1. iface[c] \in DOMAIN tunnelList /\ tunnelList[iface[c]].remote = peer[c]
  BY DEF IInv, TunnelServesPeer
<1>2. c \in Users(peer[c])
  BY DEF Users
<1>3. Cardinality(Users(peer[c])) \in Nat /\ Cardinality(Users(peer[c])) > 0
  <2>1. IsFiniteSet(Users(peer[c]))
    BY UsersFinite DEF Users, UsersOf
  <2>. QED BY <1>2, <2>1, FS_CardinalityType, FS_EmptySet
<1>4. tunnelList[iface[c]].ref = 1 + Cardinality(Users(peer[c]))
  BY <1>1 DEF IInv, RefCountsUsers
<1>5. tunnelList[iface[c]].ref > 1
  BY <1>3, <1>4
<1>6. GetTunnelDevice(tunnelList, peer[c]) = iface[c]
  BY <1>1, GetTunnelDeviceOf DEF IInv
<1>. QED BY <1>1, <1>5, <1>6

\* AddTunnel keeps the invariant: the one device it counts up is the one of
\* the remote the client turns to.
LEMMA AddTunnelPreserves ==
    ASSUME IInv, NEW c \in Client, NEW r \in Addr, AddTunnel(c, r)
    PROVE  IInv'
<1> DEFINE list == tunnelList
           d    == AddTunnelIf(list, r)
           new  == AddTunnelList(list, r)
<1>0. /\ ListOK(list) /\ peer \in [Client -> Addr \cup {Zero}]
      /\ iface \in [Client -> Nat] /\ peer[c] = Zero /\ r # Zero
      /\ tunnelList' = new
      /\ peer' = [peer EXCEPT ![c] = r] /\ iface' = [iface EXCEPT ![c] = d]
  BY ZeroAssumption DEF IInv, TypeOK, AddTunnel
<1>1. Adds(list, r, d, new)
  BY <1>0, AddTunnelCorrect
<1>2. Moves(peer, peer', Zero, r)
  <2>1. peer'[c] = r /\ \A x \in Client : x # c => peer'[x] = peer[x]
    BY <1>0
  <2>2. peer[c] # peer'[c]
    BY <1>0, <2>1
  <2>3. Moves(peer, peer', peer[c], peer'[c])
    BY <2>1, <2>2, UsersMove, Zenon
  <2>. QED BY <1>0, <2>1, <2>3, Zenon
<1>3. \A e \in DOMAIN list : list[e].ref = 1 + Cardinality(UsersOf(peer, list[e].remote))
  BY DEF IInv, RefCountsUsers, Users, UsersOf
<1>4. d \notin DOMAIN list => Cardinality(UsersOf(peer, r)) = 0
  <2>1. SUFFICES ASSUME d \notin DOMAIN list PROVE UsersOf(peer, r) = {}
    BY FS_EmptySet
  <2>. QED BY <1>0, <1>1, <2>1 DEF IInv, TunnelServesPeer, UsersOf, Adds
<1>5. d \in Nat /\ new \in Seq(Device) /\ DOMAIN list \subseteq DOMAIN new
      /\ \A e \in DOMAIN new : new[e].remote \in Addr
  BY <1>1 DEF ListOK, Adds
<1> HIDE DEF list, d, new
<1> USE DEF Adds, Drops, Moves
<1>6. TypeOK'
  BY <1>0, <1>5 DEF TypeOK
<1>7. RefCountsUsers'
  <2>1. SUFFICES ASSUME NEW e \in DOMAIN new
                 PROVE  new[e].ref = 1 + Cardinality(UsersOf(peer', new[e].remote))
    BY <1>0 DEF RefCountsUsers, Users, UsersOf
  <2>2. CASE e = d
    BY <1>1, <1>2, <1>3, <1>4, <2>2, UsersFinite
  <2>3. CASE e # d
    <3>1. e \in DOMAIN list /\ new[e] = list[e] /\ new[e].remote \notin {r, Zero}
      BY <1>1, <1>5, <2>1, <2>3, ZeroAssumption DEF ListOK
    <3>. QED BY <1>2, <1>3, <3>1
  <2>. QED BY <2>2, <2>3
<1>8. TunnelServesPeer'
  <2>1. SUFFICES ASSUME NEW x \in Client, peer'[x] # Zero
                 PROVE  iface'[x] \in DOMAIN new /\ new[iface'[x]].remote = peer'[x]
    BY <1>0 DEF TunnelServesPeer
  <2>2. CASE x = c
    BY <1>0, <1>1, <2>2
  <2>3. CASE x # c
    <3>1. /\ peer'[x] = peer[x] /\ iface'[x] = iface[x]
          /\ iface[x] \in DOMAIN list /\ list[iface[x]].remote = peer[x]
      BY <1>0, <2>1, <2>3 DEF IInv, TunnelServesPeer, list
    <3>. QED BY <1>1, <1>5, <3>1
  <2>. QED BY <2>2, <2>3
<1>. QED BY <1>0, <1>1, <1>6, <1>7, <1>8 DEF IInv

\* RemoveTunnel keeps the invariant: the device counts one client less and is
\* not freed, the reference of its construction is left.
LEMMA RemoveTunnelPreserves ==
    ASSUME IInv, NEW c \in Client, RemoveTunnel(c)
    PROVE  IInv'
<1> DEFINE list == tunnelList
           d    == iface[c]
           new  == RemoveTunnelList(list, peer[c])
<1>0. /\ ListOK(list) /\ peer \in [Client -> Addr \cup {Zero}]
      /\ iface \in [Client -> Nat] /\ peer[c] # Zero
      /\ tunnelList' = new
      /\ peer' = [peer EXCEPT ![c] = Zero] /\ iface' = [iface EXCEPT ![c] = 0]
  BY DEF IInv, TypeOK, RemoveTunnel
<1>1. d \in DOMAIN list /\ list[d].remote = peer[c] /\ list[d].ref > 1
  BY <1>0, ClientDevice
<1>2. Drops(list, d, new)
  BY <1>0, <1>1, RemoveTunnelCorrect
<1>3. Moves(peer, peer', peer[c], Zero)
  <2>1. peer'[c] = Zero /\ \A x \in Client : x # c => peer'[x] = peer[x]
    BY <1>0
  <2>2. peer[c] # peer'[c]
    BY <1>0, <2>1
  <2>3. Moves(peer, peer', peer[c], peer'[c])
    BY <2>1, <2>2, UsersMove, Zenon
  <2>. QED BY <1>0, <2>1, <2>3, Zenon
<1>4. \A e \in DOMAIN list : list[e].ref = 1 + Cardinality(UsersOf(peer, list[e].remote))
  BY DEF IInv, RefCountsUsers, Users, UsersOf
<1> HIDE DEF list, d, new
<1> USE DEF Adds, Drops, Moves
<1>5. TypeOK'
  BY <1>0, <1>2 DEF TypeOK, ListOK
<1>6. RefCountsUsers'
  <2>1. SUFFICES ASSUME NEW e \in DOMAIN list
                 PROVE  new[e].ref = 1 + Cardinality(UsersOf(peer', new[e].remote))
    BY <1>0, <1>2 DEF RefCountsUsers, Users, UsersOf
  <2>2. CASE e = d
    BY <1>1, <1>2, <1>3, <1>4, <2>2, UsersFinite
  <2>3. CASE e # d
    <3>1. new[e] = list[e] /\ list[e].remote \notin {Zero, peer[c]}
      BY <1>0, <1>1, <1>2, <2>1, <2>3, ZeroAssumption DEF ListOK
    <3>. QED BY <1>3, <1>4, <3>1
  <2>. QED BY <2>2, <2>3
<1>7. TunnelServesPeer'
  <2>1. SUFFICES ASSUME NEW x \in Client, peer'[x] # Zero
                 PROVE  iface'[x] \in DOMAIN new /\ new[iface'[x]].remote = peer'[x]
    BY <1>0 DEF TunnelServesPeer
  <2>2. /\ peer'[x] = peer[x] /\ iface'[x] = iface[x]
        /\ iface[x] \in DOMAIN list /\ list[iface[x]].remote = peer[x]
    BY <1>0, <2>1 DEF IInv, TunnelServesPeer, list
  <2>. QED BY <1>2, <2>2
<1>. QED BY <1>0, <1>2, <1>5, <1>6, <1>7 DEF IInv

\* ModifyTunnel keeps the invariant: as the device of a client counts more
\* than 1, it is a RemoveTunnel followed by an AddTunnel.
LEMMA ModifyTunnelPreserves ==
    ASSUME IInv, NEW c \in Client, NEW r \in Addr, ModifyTunnel(c, r)
    PROVE  IInv'
<1> DEFINE list == tunnelList
           o    == iface[c]
           mid  == RemoveTunnelList(list, peer[c])
           d    == AddTunnelIf(mid, r)
           new  == AddTunnelList(mid, r)
<1>1. /\ o \in DOMAIN list /\ list[o].remote = peer[c] /\ list[o].ref > 1
      /\ GetTunnelDevice(list, peer[c]) = o
  BY ClientDevice DEF ModifyTunnel
<1>2. /\ ModifyTunnelList(list, peer[c], r) = new
      /\ ModifyTunnelIf(list, peer[c], r) = d
  BY <1>1, Zenon DEF ModifyTunnelList, ModifyTunnelIf
<1>0. /\ ListOK(list) /\ peer \in [Client -> Addr \cup {Zero}]
      /\ iface \in [Client -> Nat] /\ peer[c] # Zero /\ peer[c] # r /\ r # Zero
      /\ tunnelList' = new
      /\ peer' = [peer EXCEPT ![c] = r] /\ iface' = [iface EXCEPT ![c] = d]
  BY <1>2, ZeroAssumption DEF IInv, TypeOK, ModifyTunnel
<1>3. Drops(list, o, mid)
  BY <1>0, <1>1, RemoveTunnelCorrect
<1>4. Adds(mid, r, d, new)
  <2>1. ListOK(mid)
    BY <1>3 DEF Drops
  <2>. QED BY <2>1, AddTunnelCorrect, Zenon
<1>5. Moves(peer, peer', peer[c], r)
  <2>1. peer'[c] = r /\ \A x \in Client : x # c => peer'[x] = peer[x]
    BY <1>0
  <2>2. peer[c] # peer'[c]
    BY <1>0, <2>1
  <2>3. Moves(peer, peer', peer[c], peer'[c])
    BY <2>1, <2>2, UsersMove, Zenon
  <2>. QED BY <2>1, <2>3, Zenon
<1>6. \A e \in DOMAIN list : list[e].ref = 1 + Cardinality(UsersOf(peer, list[e].remote))
  BY DEF IInv, RefCountsUsers, Users, UsersOf
<1>7. d \notin DOMAIN list => Cardinality(UsersOf(peer, r)) = 0
  <2>1. SUFFICES ASSUME d \notin DOMAIN list PROVE UsersOf(peer, r) = {}
    BY FS_EmptySet
  <2>2. \A e \in DOMAIN list : list[e].remote # r
    BY <1>3, <1>4, <2>1 DEF Drops, Adds
  <2>. QED BY <1>0, <2>2 DEF IInv, TunnelServesPeer, UsersOf
<1>8. d \in Nat /\ new \in Seq(Device) /\ DOMAIN list \subseteq DOMAIN new
      /\ \A e \in DOMAIN new : new[e].remote \in Addr
  BY <1>3, <1>4 DEF ListOK, Adds, Drops
<1> HIDE DEF list, o, mid, d, new
<1> USE DEF Adds, Drops, Moves
<1>9. TypeOK'
  BY <1>0, <1>8 DEF TypeOK
<1>10. RefCountsUsers'
  <2>1. SUFFICES ASSUME NEW e \in DOMAIN new
                 PROVE  new[e].ref = 1 + Cardinality(UsersOf(peer', new[e].remote))
    BY <1>0 DEF RefCountsUsers, Users, UsersOf
  <2>2. o # d
    BY <1>0, <1>1, <1>3, <1>4
  <2>3. CASE e = d
    <3>1. CASE d \in DOMAIN list
      <4>1. new[d].ref = list[d].ref + 1 /\ list[d].remote = r
        BY <1>3, <1>4, <2>2, <3>1
      <4>. QED BY <1>4, <1>5, <1>6, <2>3, <3>1, <4>1, UsersFinite
    <3>2. CASE d \notin DOMAIN list
      BY <1>3, <1>4, <1>5, <1>7, <2>3, <3>2
    <3>. QED BY <3>1, <3>2
  <2>4. CASE e = o
    <3>1. new[o] = mid[o] /\ mid[o].ref = list[o].ref - 1 /\ new[o].remote = peer[c]
      BY <1>1, <1>3, <1>4, <2>2
    <3>. QED BY <1>1, <1>5, <1>6, <2>4, <3>1, UsersFinite
  <2>5. CASE e \notin {d, o}
    <3>1. e \in DOMAIN list /\ new[e] = list[e] /\ new[e].remote \notin {r, peer[c]}
      BY <1>0, <1>1, <1>3, <1>4, <2>1, <2>5 DEF ListOK
    <3>. QED BY <1>5, <1>6, <3>1
  <2>. QED BY <2>3, <2>4, <2>5
<1>11. TunnelServesPeer'
  <2>1. SUFFICES ASSUME NEW x \in Client, peer'[x] # Zero
                 PROVE  iface'[x] \in DOMAIN new /\ new[iface'[x]].remote = peer'[x]
    BY <1>0 DEF TunnelServesPeer
  <2>2. CASE x = c
    BY <1>0, <1>4, <2>2
  <2>3. CASE x # c
    <3>1. /\ peer'[x] = peer[x] /\ iface'[x] = iface[x]
          /\ iface[x] \in DOMAIN list /\ list[iface[x]].remote = peer[x]
      BY <1>0, <2>1, <2>3 DEF IInv, TunnelServesPeer, list
    <3>. QED BY <1>3, <1>4, <1>8, <3>1
  <2>. QED BY <2>2, <2>3
<1>. QED BY <1>0, <1>4, <1>9, <1>10, <1>11 DEF IInv

\* The invariant holds in every state of the tunnel manager, whatever the
\* number of clients and remotes.
THEOREM TunnelInvariant == Spec => []IInv
<1>1. Init => IInv
  <2> SUFFICES ASSUME Init PROVE IInv
    OBVIOUS
  <2>1. TypeOK /\ ListOK(tunnelList) /\ RefCountsUsers
    BY DEF Init, TypeOK, ListOK, RefCountsUsers, Device
  <2>2. TunnelServesPeer
    BY DEF Init, TunnelServesPeer
  <2>. QED BY <2>1, <2>2 DEF IInv
<1>2. IInv /\ [Next]_vars => IInv'
  <2> SUFFICES ASSUME IInv, [Next]_vars PROVE IInv'
    OBVIOUS
  <2>1. ASSUME NEW c \in Client, NEW r \in Addr, AddTunnel(c, r) PROVE IInv'
    BY <2>1, AddTunnelPreserves
  <2>2. ASSUME NEW c \in Client, RemoveTunnel(c) PROVE IInv'
    BY <2>2, RemoveTunnelPreserves
  <2>3. ASSUME NEW c \in Client, NEW r \in Addr, ModifyTunnel(c, r) PROVE IInv'
    BY <2>3, ModifyTunnelPreserves
  <2>4. CASE UNCHANGED vars
    BY <2>4 DEF vars, IInv, TypeOK, RefCountsUsers, Users, TunnelServesPeer
  <2>. QED BY <2>1, <2>2, <2>3, <2>4 DEF Next
<1>. QED BY <1>1, <1>2, PTL DEF Spec

\* Type correctness of the device list and of what the clients were told.
THEOREM TunnelTypeCorrect == Spec => []TypeOK
<1>1. IInv => TypeOK
  BY DEF IInv
<1>. QED BY <1>1, TunnelInvariant, PTL

\* No two tunnel devices ever lead to the same remote.
THEOREM TunnelRemotesDistinct == Spec => []RemotesDistinct
<1>1. IInv => RemotesDistinct
  BY DEF IInv, ListOK, RemotesDistinct
<1>. QED BY <1>1, TunnelInvariant, PTL

\* Every device's count is one more than its clients.
THEOREM TunnelRefCounts == Spec => []RefCountsUsers
<1>1. IInv => RefCountsUsers
  BY DEF IInv
<1>. QED BY <1>1, TunnelInvariant, PTL

\* A client's interface leads to its peer.
THEOREM TunnelServes == Spec => []TunnelServesPeer
<1>1. IInv => TunnelServesPeer
  BY DEF IInv
<1>. QED BY <1>1, TunnelInvariant, PTL

\* ModifyTunnel's assertions on the device of a client always hold.
THEOREM TunnelModifyNeverAborts == Spec => []ModifyNeverAborts
<1>1. IInv => ModifyNeverAborts
  <2> SUFFICES ASSUME IInv PROVE ModifyNeverAborts
    OBVIOUS
  <2>1. SUFFICES ASSUME NEW c \in Client, peer[c] # Zero
                 PROVE  ModifyTunnelAsserts(tunnelList, peer[c])
    BY DEF ModifyNeverAborts
  <2>2. /\ iface[c] \in DOMAIN tunnelList /\ tunnelList[iface[c]].ref > 1
        /\ GetTunnelDevice(tunnelList, peer[c]) = iface[c]
    BY <2>1, ClientDevice
  <2>3. tunnelList \in Seq(Device)
    BY DEF IInv, TypeOK
  <2>4. iface[c] # 0 /\ tunnelList[iface[c]].ref > 0
    <3>1. tunnelList[iface[c]] \in Device /\ iface[c] # 0
      BY <2>2, <2>3
    <3>. QED BY <2>2, <3>1 DEF Device
  <2>. QED BY <2>2, <2>4, Zenon DEF ModifyTunnelAsserts
<1>. QED BY <1>1, TunnelInvariant, PTL
=============================================================================
