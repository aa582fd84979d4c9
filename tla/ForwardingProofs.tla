-------------------------- MODULE ForwardingProofs --------------------------
(***************************************************************************)
(* What the operators of TunnelOps do to any well-formed device list, and  *)
(* those of StaticRoutes to any route table.                               *)
(***************************************************************************)
EXTENDS TunnelOps, StaticRoutes, SequenceTheorems, WellFoundedInduction, TLAPS

\* A device list as the node keeps it: every device has a remote of its own
\* and none has been freed.
ListOK(list) ==
    /\ list \in Seq(Device)
    /\ \A d \in DOMAIN list : list[d].remote \in Addr
    /\ \A d, e \in DOMAIN list : list[d].remote = list[e].remote => d = e

\* On a well-formed list GetTunnelDevice finds the one device with remote r.
LEMMA GetTunnelDeviceCorrect ==
    ASSUME NEW list, ListOK(list), NEW r
    PROVE  \/ /\ GetTunnelDevice(list, r) = 0
              /\ \A d \in DOMAIN list : list[d].remote # r
           \/ /\ GetTunnelDevice(list, r) \in DOMAIN list
              /\ list[GetTunnelDevice(list, r)].remote = r
<1> DEFINE Found == {d \in DOMAIN list : list[d].remote = r}
<1>1. CASE Found = {}
  BY <1>1 DEF GetTunnelDevice
<1>2. CASE Found # {}
  <2>1. PICK d \in DOMAIN list : list[d].remote = r
    BY <1>2
  <2>2. Found = {d}
    BY <2>1 DEF ListOK
  <2>3. d \in Nat
    BY <2>1 DEF ListOK
  <2>4. GetTunnelDevice(list, r) = CHOOSE x \in Found : \A e \in Found : x <= e
    BY <1>2 DEF GetTunnelDevice
  <2>5. GetTunnelDevice(list, r) = d
    <3>1. d \in Found /\ \A e \in Found : d <= e
      BY <2>2, <2>3
    <3>2. \A x \in Found : x = d
      BY <2>2
    <3>. QED BY <2>4, <3>1, <3>2, Zenon
  <2>. QED BY <2>1, <2>5
<1>. QED BY <1>1, <1>2

\* A device is found by its own remote.
LEMMA GetTunnelDeviceOf ==
    ASSUME NEW list, ListOK(list), NEW d \in DOMAIN list
    PROVE  GetTunnelDevice(list, list[d].remote) = d
BY GetTunnelDeviceCorrect DEF ListOK

\* What AddTunnel does: the list stays well formed, device d leads to r and
\* has one reference more (two if it is new), no other device is disturbed.
Adds(list, r, d, new) ==
    /\ ListOK(new)
    /\ d \in DOMAIN new
    /\ new[d].remote = r
    /\ d \in DOMAIN list =>
         /\ DOMAIN new = DOMAIN list
         /\ list[d].remote = r
         /\ new[d].ref = list[d].ref + 1
    /\ d \notin DOMAIN list =>
         /\ DOMAIN new = DOMAIN list \cup {d}
         /\ new[d].ref = 2
         /\ \A e \in DOMAIN list : list[e].remote # r
    /\ \A e \in DOMAIN list : e # d => new[e] = list[e]

\* What RemoveTunnel does to a device that keeps another reference.
Drops(list, d, new) ==
    /\ ListOK(new)
    /\ DOMAIN new = DOMAIN list
    /\ \A e \in DOMAIN list : new[e].remote = list[e].remote
    /\ new[d].ref = list[d].ref - 1
    /\ \A e \in DOMAIN list : e # d => new[e] = list[e]

\* AddTunnel has its effect on every well-formed list.
LEMMA AddTunnelCorrect ==
    ASSUME NEW list, ListOK(list), NEW r \in Addr
    PROVE  Adds(list, r, AddTunnelIf(list, r), AddTunnelList(list, r))
<1> DEFINE d   == AddTunnelIf(list, r)
           new == AddTunnelList(list, r)
<1>0. list \in Seq(Device) /\ Len(list) \in Nat /\ DOMAIN list = 1 .. Len(list)
  BY DEF ListOK
<1>a. d = AddTunnelIf(list, r) /\ new = AddTunnelList(list, r)
  OBVIOUS
<1> HIDE DEF d, new
<1>1. CASE GetTunnelDevice(list, r) # 0
  <2>0. SUFFICES Adds(list, r, d, new)
    BY <1>a
  <2>1. d = GetTunnelDevice(list, r) /\ d \in DOMAIN list /\ list[d].remote = r
    BY <1>1, <1>a, GetTunnelDeviceCorrect DEF AddTunnelIf
  <2>2. new = [list EXCEPT ![d] = [remote |-> r, ref |-> list[d].ref + 1]]
    <3>1. WithDevice(list, d) = list
      <4>1. ~(d > Len(list))
        BY <1>0, <2>1
      <4>. QED BY <4>1, Zenon DEF WithDevice
    <3>. QED BY <1>a, <3>1, Zenon DEF AddTunnelList
  <2>3. list[d] \in Device
    BY <1>0, <2>1
  <2>4. new \in Seq(Device) /\ Len(new) = Len(list) /\ DOMAIN new = DOMAIN list
    <3>1. [remote |-> r, ref |-> list[d].ref + 1] \in Device
      BY <2>3 DEF Device
    <3>. QED BY <1>0, <2>1, <2>2, <3>1, ExceptSeq
  <2>5. /\ new[d] = [remote |-> r, ref |-> list[d].ref + 1]
        /\ \A e \in DOMAIN list : e # d => new[e] = list[e]
    BY <2>1, <2>2, <1>0
  <2>6. ListOK(new)
    BY <2>1, <2>4, <2>5 DEF ListOK
  <2>. QED BY <2>1, <2>4, <2>5, <2>6 DEF Adds
<1>2. CASE GetTunnelDevice(list, r) = 0
  <2>0. SUFFICES Adds(list, r, d, new)
    BY <1>a
  <2>1. GetTunnelDevice(list, Zero) = 0
    BY GetTunnelDeviceCorrect, ZeroAssumption DEF ListOK
  <2>2. d = Len(list) + 1
    BY <1>2, <1>a, <2>1 DEF AddTunnelIf
  <2>3. \A e \in DOMAIN list : list[e].remote # r
    <3>1. 0 \notin DOMAIN list
      BY <1>0
    <3>. QED BY <1>2, <3>1, GetTunnelDeviceCorrect
  <2>4. new = [Append(list, NewDevice) EXCEPT ![d] =
                 [remote |-> r, ref |-> Append(list, NewDevice)[d].ref + 1]]
    <3>1. WithDevice(list, d) = Append(list, NewDevice)
      <4>1. d > Len(list)
        BY <1>0, <2>2
      <4>. QED BY <4>1, Zenon DEF WithDevice
    <3>. QED BY <1>a, <3>1, Zenon DEF AddTunnelList
  <2>5. Append(list, NewDevice)[d].ref = 1
    BY <1>0, <2>2 DEF NewDevice
  <2>6. NewDevice \in Device
    BY DEF NewDevice, Device
  <2>7. /\ Append(list, NewDevice) \in Seq(Device)
        /\ Len(Append(list, NewDevice)) = Len(list) + 1
        /\ \A e \in DOMAIN list : Append(list, NewDevice)[e] = list[e]
    BY <1>0, <2>6
  <2>8. /\ new \in Seq(Device)
        /\ Len(new) = Len(list) + 1
        /\ DOMAIN new = DOMAIN list \cup {d}
        /\ new[d] = [remote |-> r, ref |-> 2]
        /\ \A e \in DOMAIN list : new[e] = list[e]
    <3>1. [remote |-> r, ref |-> 2] \in Device
      BY DEF Device
    <3>2. d \in 1 .. Len(Append(list, NewDevice))
      BY <1>0, <2>2, <2>7
    <3>0. new = [Append(list, NewDevice) EXCEPT ![d] = [remote |-> r, ref |-> 2]]
      <4>1. 1 + 1 = 2
        OBVIOUS
      <4>. QED BY <2>4, <2>5, <4>1, Zenon
    <3>3. /\ new \in Seq(Device)
          /\ Len(new) = Len(list) + 1
          /\ \A e \in 1 .. (Len(list) + 1) :
                new[e] = IF e = d THEN [remote |-> r, ref |-> 2]
                         ELSE Append(list, NewDevice)[e]
      <4> DEFINE s == Append(list, NewDevice)
                 v == [remote |-> r, ref |-> 2]
      <4>1. s \in Seq(Device) /\ v \in Device /\ d \in 1 .. Len(s)
            /\ new = [s EXCEPT ![d] = v] /\ Len(s) = Len(list) + 1
        BY <2>7, <3>0, <3>1, <3>2, Zenon
      <4> HIDE DEF s, v
      <4>2. /\ new \in Seq(Device)
            /\ Len(new) = Len(list) + 1
            /\ \A e \in 1 .. (Len(list) + 1) : new[e] = IF e = d THEN v ELSE s[e]
        BY <4>1, ExceptSeq
      <4>. QED BY <4>2, Zenon DEF s, v
    <3>. QED BY <1>0, <2>2, <2>7, <3>3
  <2>9. ListOK(new)
    BY <2>3, <2>8 DEF ListOK
  <2>. QED BY <1>0, <2>2, <2>3, <2>8, <2>9 DEF Adds
<1>. QED BY <1>1, <1>2 DEF d, new

\* RemoveTunnel on a device with more than one reference only drops one.
LEMMA RemoveTunnelCorrect ==
    ASSUME NEW list, ListOK(list), NEW d \in DOMAIN list, list[d].ref > 1
    PROVE  Drops(list, d, RemoveTunnelList(list, list[d].remote))
<1> DEFINE new == RemoveTunnelList(list, list[d].remote)
<1>0. list \in Seq(Device) /\ list[d] \in Device /\ DOMAIN list = 1 .. Len(list)
  BY DEF ListOK
<1>1. GetTunnelDevice(list, list[d].remote) = d /\ d # 0
  BY GetTunnelDeviceOf, <1>0
<1>2. new = [list EXCEPT ![d] = [remote |-> list[d].remote, ref |-> list[d].ref - 1]]
  <2>1. list[d].ref - 1 # 0
    BY <1>0 DEF Device
  <2>. QED BY <1>1, <2>1, Zenon DEF RemoveTunnelList
<1>3. [remote |-> list[d].remote, ref |-> list[d].ref - 1] \in Device
  BY <1>0 DEF Device
<1>4. new \in Seq(Device) /\ DOMAIN new = DOMAIN list
  BY <1>0, <1>2, <1>3, ExceptSeq
<1>5. /\ new[d] = [remote |-> list[d].remote, ref |-> list[d].ref - 1]
      /\ \A e \in DOMAIN list : e # d => new[e] = list[e]
  BY <1>0, <1>2
<1>6. ListOK(new)
  BY <1>4, <1>5 DEF ListOK
<1>. QED BY <1>4, <1>5, <1>6 DEF Drops

(***************************************************************************)
(* The tunnel operators on any list of devices, freed ones included.       *)
(***************************************************************************)

\* A non-empty set of interface indices has a least element.
LEMMA LeastIndex ==
    ASSUME NEW S, S \subseteq Nat, S # {}
    PROVE  \E x \in S : \A y \in S : x <= y
<1> DEFINE R == OpToRel(<, Nat)
<1>1. IsWellFoundedOn(R, Nat)
  BY NatLessThanWellFounded
<1>2. \A x, y \in Nat : y < x => <<y, x>> \in R
  BY DEF OpToRel
<1> HIDE DEF R
<1>3. PICK x \in S : \A y \in S : ~(<<y, x>> \in R)
  BY <1>1, WFMin
<1>4. \A y \in S : y \in Nat /\ x \in Nat /\ ~(y < x)
  BY <1>2, <1>3, Zenon
<1>. QED BY <1>4

\* GetTunnelDevice answers 0 or a device of the list with that remote.
LEMMA GetTunnelDeviceFinds ==
    ASSUME NEW list \in Seq(Device), NEW r
    PROVE  \/ GetTunnelDevice(list, r) = 0
           \/ /\ GetTunnelDevice(list, r) \in DOMAIN list
              /\ list[GetTunnelDevice(list, r)].remote = r
<1> DEFINE Found == {d \in DOMAIN list : list[d].remote = r}
<1>1. CASE Found = {}
  BY <1>1 DEF GetTunnelDevice
<1>2. CASE Found # {}
  <2>1. PICK x \in Found : \A y \in Found : x <= y
    <3>1. Found \subseteq Nat
      OBVIOUS
    <3> HIDE DEF Found
    <3>. QED BY <1>2, <3>1, LeastIndex
  <2>2. GetTunnelDevice(list, r) = CHOOSE d \in Found : \A e \in Found : d <= e
    BY <1>2 DEF GetTunnelDevice
  <2>3. GetTunnelDevice(list, r) \in Found
    BY <2>1, <2>2, Zenon
  <2>. QED BY <2>3
<1>. QED BY <1>1, <1>2

\* AddTunnel answers an interface and leaves a list of devices.
LEMMA AddTunnelTyped ==
    ASSUME NEW list \in Seq(Device), NEW r \in Addr
    PROVE  AddTunnelIf(list, r) \in Nat /\ AddTunnelList(list, r) \in Seq(Device)
<1> DEFINE d == AddTunnelIf(list, r)
           s == WithDevice(list, d)
<1>1. d \in 1 .. Len(list) + 1
  BY GetTunnelDeviceFinds DEF AddTunnelIf
<1>2. s \in Seq(Device) /\ d \in 1 .. Len(s)
  <2>1. CASE d > Len(list)
    <3>1. s = Append(list, NewDevice) /\ NewDevice \in Device
      BY <2>1, Zenon DEF WithDevice, NewDevice, Device
    <3>. QED BY <1>1, <2>1, <3>1
  <2>2. CASE ~(d > Len(list))
    <3>1. s = list
      BY <2>2, Zenon DEF WithDevice
    <3>. QED BY <1>1, <2>2, <3>1
  <2>. QED BY <2>1, <2>2
<1>3. AddTunnelList(list, r) = [s EXCEPT ![d] = [remote |-> r, ref |-> s[d].ref + 1]]
  BY DEF AddTunnelList
<1> HIDE DEF s, d
<1>4. [remote |-> r, ref |-> s[d].ref + 1] \in Device
  <2>1. s[d] \in Device
    BY <1>2
  <2>. QED BY <2>1 DEF Device
<1>5. AddTunnelList(list, r) \in Seq(Device)
  BY <1>2, <1>3, <1>4, ExceptSeq
<1>. QED BY <1>1, <1>5 DEF d

\* So does ModifyTunnel, once it is past its assertions.
LEMMA ModifyTunnelTyped ==
    ASSUME NEW list \in Seq(Device), NEW r, NEW new \in Addr,
           ModifyTunnelAsserts(list, r)
    PROVE  /\ ModifyTunnelIf(list, r, new) \in Nat
           /\ ModifyTunnelList(list, r, new) \in Seq(Device)
<1> DEFINE d == GetTunnelDevice(list, r)
<1>1. d \in DOMAIN list /\ list[d].remote = r /\ list[d].ref > 0 /\ d # 0
  BY GetTunnelDeviceFinds DEF ModifyTunnelAsserts
<1>2. list[d] \in Device /\ d \in 1 .. Len(list)
  BY <1>1
<1>3. CASE list[d].ref > 1
  <2>1. RemoveTunnelList(list, r) \in Seq(Device)
    <3> DEFINE v == [remote |-> IF list[d].ref - 1 = 0 THEN Zero ELSE r,
                     ref |-> list[d].ref - 1]
    <3>1. RemoveTunnelList(list, r) = [list EXCEPT ![d] = v]
      BY <1>1, Zenon DEF RemoveTunnelList
    <3>2. v \in Device
      BY <1>1, <1>2 DEF Device
    <3> HIDE DEF v, d
    <3>. QED BY <1>2, <3>1, <3>2, ExceptSeq
  <2>2. /\ ModifyTunnelIf(list, r, new) = AddTunnelIf(RemoveTunnelList(list, r), new)
        /\ ModifyTunnelList(list, r, new) = AddTunnelList(RemoveTunnelList(list, r), new)
    BY <1>3, Zenon DEF ModifyTunnelIf, ModifyTunnelList
  <2>. QED BY <2>1, <2>2, AddTunnelTyped, Zenon
<1>4. CASE ~(list[d].ref > 1)
  <2>1. /\ ModifyTunnelIf(list, r, new) = d
        /\ ModifyTunnelList(list, r, new) = [list EXCEPT ![d].remote = new]
    BY <1>4, Zenon DEF ModifyTunnelIf, ModifyTunnelList
  <2>2. [list[d] EXCEPT !.remote = new] \in Device
    BY <1>2 DEF Device
  <2>3. ModifyTunnelList(list, r, new) \in Seq(Device)
    <3> HIDE DEF d
    <3>. QED BY <1>2, <2>1, <2>2, ExceptSeq
  <2>. QED BY <1>2, <2>1, <2>3
<1>. QED BY <1>3, <1>4

\* A list on which no device is in use without a reference.
LiveList(list) ==
    /\ list \in Seq(Device)
    /\ \A d \in DOMAIN list : list[d].remote # Zero => list[d].ref > 0

\* AddTunnel answers an interface and leaves no device in use unreferenced.
LEMMA AddTunnelLive ==
    ASSUME NEW list, LiveList(list), NEW r \in Addr
    PROVE  AddTunnelIf(list, r) \in Nat \ {0} /\ LiveList(AddTunnelList(list, r))
<1> DEFINE d == AddTunnelIf(list, r)
           s == WithDevice(list, d)
           v == [remote |-> r, ref |-> s[d].ref + 1]
<1>0. list \in Seq(Device)
  BY DEF LiveList
<1>1. d \in 1 .. Len(list) + 1
  BY <1>0, GetTunnelDeviceFinds DEF AddTunnelIf
<1>2. /\ s \in Seq(Device) /\ d \in 1 .. Len(s)
      /\ \A e \in DOMAIN s : e # d => e \in DOMAIN list /\ s[e] = list[e]
  <2>1. CASE d > Len(list)
    <3>1. s = Append(list, NewDevice) /\ NewDevice \in Device
      BY <2>1, Zenon DEF WithDevice, NewDevice, Device
    <3>. QED BY <1>0, <1>1, <2>1, <3>1
  <2>2. CASE ~(d > Len(list))
    <3>1. s = list
      BY <2>2, Zenon DEF WithDevice
    <3>. QED BY <1>0, <1>1, <2>2, <3>1
  <2>. QED BY <2>1, <2>2
<1>3. AddTunnelList(list, r) = [s EXCEPT ![d] = v]
  BY DEF AddTunnelList
<1> HIDE DEF s, d
<1>4. v \in Device /\ v.ref > 0
  <2>1. s[d] \in Device
    BY <1>2
  <2>. QED BY <2>1 DEF Device
<1> HIDE DEF v
<1>5. [s EXCEPT ![d] = v] \in Seq(Device)
  BY <1>2, <1>4, ExceptSeq
<1>6. \A e \in DOMAIN s : e # d /\ s[e].remote # Zero => s[e].ref > 0
  BY <1>2 DEF LiveList
<1>7. LiveList([s EXCEPT ![d] = v])
  BY <1>2, <1>4, <1>5, <1>6 DEF LiveList
<1>. QED BY <1>1, <1>3, <1>7, <1>0 DEF d

\* Nor does RemoveTunnel: the last reference frees the device.
LEMMA RemoveTunnelLive ==
    ASSUME NEW list, LiveList(list), NEW r \in Addr
    PROVE  LiveList(RemoveTunnelList(list, r))
<1> DEFINE d == GetTunnelDevice(list, r)
           v == [remote |-> IF list[d].ref - 1 = 0 THEN Zero ELSE r,
                 ref |-> list[d].ref - 1]
<1>0. list \in Seq(Device)
  BY DEF LiveList
<1>1. CASE d = 0
  BY <1>1 DEF RemoveTunnelList
<1>2. CASE d # 0
  <2>1. d \in DOMAIN list /\ list[d].remote = r
    BY <1>0, <1>2, GetTunnelDeviceFinds
  <2>2. list[d] \in Device /\ d \in 1 .. Len(list)
    BY <1>0, <2>1
  <2>3. list[d].ref > 0
    BY <2>1, ZeroAssumption DEF LiveList
  <2>4. v \in Device /\ (v.remote # Zero => v.ref > 0)
    BY <2>2, <2>3 DEF Device
  <2>5. RemoveTunnelList(list, r) = [list EXCEPT ![d] = v]
    BY <1>2, Zenon DEF RemoveTunnelList
  <2> HIDE DEF v, d
  <2>6. [list EXCEPT ![d] = v] \in Seq(Device)
    BY <1>0, <2>2, <2>4, ExceptSeq
  <2>7. LiveList([list EXCEPT ![d] = v])
    BY <1>0, <2>2, <2>4, <2>6 DEF LiveList
  <2>. QED BY <2>5, <2>7
<1>. QED BY <1>1, <1>2

(***************************************************************************)
(* Route tables.                                                           *)
(***************************************************************************)

\* The least of a set of places in a table is one of them.
LEMMA LeastPlace ==
    ASSUME NEW S, S \subseteq Nat, S # {}
    PROVE  Min(S) \in S
BY LeastIndex DEF Min

\* A table without its entry k holds all the others.
LEMMA RemoveAtCorrect ==
    ASSUME NEW T, NEW s \in Seq(T), NEW k \in 1 .. Len(s)
    PROVE  /\ RemoveAt(s, k) \in Seq(T)
           /\ \A j \in DOMAIN s : j # k => s[j] \in Range(RemoveAt(s, k))
           /\ Len(RemoveAt(s, k)) = Len(s) - 1
<1> DEFINE a == SubSeq(s, 1, k - 1)
           b == SubSeq(s, k + 1, Len(s))
           r == RemoveAt(s, k)
<1>1. a \in Seq(T) /\ Len(a) = k - 1 /\ \A j \in 1 .. k - 1 : a[j] = s[j]
  OBVIOUS
<1>2. b \in Seq(T) /\ Len(b) = Len(s) - k
      /\ \A j \in 1 .. Len(s) - k : b[j] = s[k + j]
  OBVIOUS
<1>3. r = a \o b
  BY DEF RemoveAt
<1> HIDE DEF a, b, r
<1>4. \A i \in 1 .. Len(a) + Len(b) :
         r[i] = IF i <= Len(a) THEN a[i] ELSE b[i - Len(a)]
  BY <1>1, <1>2, <1>3, ConcatProperties, Zenon
<1>5. r \in Seq(T) /\ Len(r) = Len(s) - 1 /\ DOMAIN r = 1 .. Len(s) - 1
  BY <1>1, <1>2, <1>3
<1>6. ASSUME NEW j \in DOMAIN s, j # k PROVE s[j] \in Range(r)
  <2>1. CASE j < k
    <3>1. j \in DOMAIN r /\ r[j] = s[j]
      BY <1>1, <1>2, <1>3, <1>5, <2>1
    <3>. QED BY <3>1 DEF Range
  <2>2. CASE j > k
    <3>1. j - k \in 1 .. Len(s) - k /\ k + (j - k) = j /\ j - 1 = (k - 1) + (j - k)
      BY <2>2
    <3>2. j - 1 \in DOMAIN r
      BY <1>5, <2>2
    <3>3. j - 1 \in 1 .. Len(a) + Len(b) /\ ~(j - 1 <= Len(a)) /\ j - 1 - Len(a) = j - k
      BY <1>1, <1>2, <2>2
    <3>4. r[j - 1] = b[j - k]
      BY <1>4, <3>3, Zenon
    <3>5. r[j - 1] = s[j]
      BY <1>2, <3>1, <3>4
    <3>. QED BY <3>2, <3>5 DEF Range
  <2>. QED BY <1>6, <2>1, <2>2
<1>. QED BY <1>5, <1>6 DEF r

\* A table without its first route through e holds those through the others.
LEMMA RemoveFirstCorrect ==
    ASSUME NEW T, NEW s \in Seq(T), NEW e
    PROVE  /\ RemoveFirst(s, e) \in Seq(T)
           /\ Range(s) \ {e} \subseteq Range(RemoveFirst(s, e))
<1> DEFINE I == {i \in 1 .. Len(s) : s[i] = e}
<1>1. CASE I = {}
  BY <1>1 DEF RemoveFirst
<1>2. CASE I # {}
  <2>1. RemoveFirst(s, e) = RemoveAt(s, Min(I))
    BY <1>2 DEF RemoveFirst, SelectInSeq
  <2>2. I \in SUBSET Nat
    OBVIOUS
  <2>3. Min(I) \in I
    BY <1>2, <2>2, LeastPlace
  <2>4. Min(I) \in 1 .. Len(s) /\ s[Min(I)] = e
    BY <2>3
  <2> HIDE DEF I
  <2>5. DOMAIN s = 1 .. Len(s)
    OBVIOUS
  <2>6. \A j \in DOMAIN s : j # Min(I) => s[j] \in Range(RemoveAt(s, Min(I)))
    BY <2>4, RemoveAtCorrect
  <2>7. RemoveAt(s, Min(I)) \in Seq(T)
    BY <2>4, RemoveAtCorrect
  <2>8. ASSUME NEW x \in Range(s), x # e PROVE x \in Range(RemoveAt(s, Min(I)))
    <3>1. PICK j \in DOMAIN s : x = s[j]
      BY DEF Range
    <3>. QED BY <2>4, <2>6, <2>8, <3>1
  <2>. QED BY <2>1, <2>7, <2>8
<1>. QED BY <1>1, <1>2

\* A route that is added is the one lookups find, and no other is lost.
LEMMA AddNetworkRouteCorrect ==
    ASSUME NEW T, NEW table \in Seq(T), NEW i \in T
    PROVE  LET new == AddNetworkRoute(table, i)
           IN  /\ new \in Seq(T) /\ new # <<>>
               /\ LookupStatic(new) = i
               /\ Range(table) \cup {i} \subseteq Range(new)
<1> DEFINE r == RemoveFirst(table, i)
           new == Append(r, i)
<1>1. r \in Seq(T) /\ Range(table) \ {i} \subseteq Range(r)
  BY RemoveFirstCorrect
<1>2. AddNetworkRoute(table, i) = new
  BY DEF AddNetworkRoute
<1> HIDE DEF r
<1>3. new \in Seq(T) /\ Len(new) = Len(r) + 1 /\ new[Len(r) + 1] = i
      /\ DOMAIN new = 1 .. Len(r) + 1
      /\ \A j \in DOMAIN r : j \in DOMAIN new /\ new[j] = r[j]
  BY <1>1
<1>4. Len(r) + 1 \in DOMAIN new
  BY <1>1, <1>3
<1> HIDE DEF new
<1>5. Range(r) \cup {i} \subseteq Range(new)
  BY <1>3, <1>4 DEF Range
<1>6. new # <<>> /\ LookupStatic(new) = i
  BY <1>1, <1>3 DEF LookupStatic, Last
<1>. QED BY <1>1, <1>2, <1>3, <1>5, <1>6
=============================================================================
