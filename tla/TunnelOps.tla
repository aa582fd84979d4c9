------------------------------ MODULE TunnelOps -----------------------------
(***************************************************************************)
(* AddTunnel, RemoveTunnel and ModifyTunnel of Ipv6TunnelL4Protocol as     *)
(* operators on a list of reference-counted TunnelNetDevice objects        *)
(* (ipv6-tunnel-l4-protocol.cc, tunnel-net-device.cc).  Tunnel, Lma and    *)
(* Mag apply them to the list of their own node.                           *)
(*                                                                         *)
(* A device is known by its place in m_tunnelList, which stands for its    *)
(* IPv6 interface index: devices are appended, never removed, and each one *)
(* gets its interface once, in AddTunnel.  The local address and the MAC   *)
(* address of a device are left out.                                       *)
(***************************************************************************)
EXTENDS Integers, Sequences

CONSTANTS
    Addr,    \* the unicast addresses a tunnel may lead to
    Zero     \* Ipv6Address::GetZero (), the remote of a freed device

ASSUME ZeroAssumption == Zero \notin Addr

\* m_remoteAddress and m_refCount of a TunnelNetDevice.
Device == [remote : Addr \cup {Zero}, ref : Nat]

\* Slip: the constructor starts the count at 0.
NewDeviceUncounted == [remote |-> Zero, ref |-> 0]

\* The device made by the TunnelNetDevice constructor.
NewDevice == [remote |-> Zero, ref |-> 1]

\* GetTunnelDevice: the first device of the list with this remote, 0 if none.
GetTunnelDevice(list, r) ==
    LET Found == {d \in DOMAIN list : list[d].remote = r}
    IN  IF Found = {} THEN 0 ELSE CHOOSE d \in Found : \A e \in Found : d <= e

\* The device AddTunnel settles on: an existing one, else a freed one, else
\* a new one at the end of the list.
AddTunnelIf(list, r) ==
    IF GetTunnelDevice(list, r) # 0 THEN GetTunnelDevice(list, r)
    ELSE IF GetTunnelDevice(list, Zero) # 0 THEN GetTunnelDevice(list, Zero)
    ELSE Len(list) + 1

\* The list with device d in it, created if it is not there yet.
WithDevice(list, d) ==
    IF d > Len(list) THEN Append(list, NewDevice) ELSE list

\* The list AddTunnel leaves behind.
AddTunnelList(list, r) ==
    LET d == AddTunnelIf(list, r)
    IN  [WithDevice(list, d) EXCEPT
            ![d] = [remote |-> r, ref |-> WithDevice(list, d)[d].ref + 1]]

\* Slip: the reference is dropped twice, by the caller and by RemoveTunnel.
RemoveTunnelListTwice(list, r) ==
    LET d == GetTunnelDevice(list, r)
    IN  IF d = 0 THEN list ELSE [list EXCEPT ![d].ref = @ - 2]

\* Slip: the device is freed although others still use it.
RemoveTunnelListFrees(list, r) ==
    LET d == GetTunnelDevice(list, r)
    IN  IF d = 0 THEN list
        ELSE [list EXCEPT ![d] = [remote |-> Zero, ref |-> @.ref - 1]]

\* RemoveTunnel: one user less; the device is freed with its last reference.
RemoveTunnelList(list, r) ==
    LET d == GetTunnelDevice(list, r)
        n == list[d].ref - 1
    IN  IF d = 0 THEN list
        ELSE [list EXCEPT ![d] =
                 [remote |-> IF n = 0 THEN Zero ELSE r, ref |-> n]]

\* The assertions on entry to ModifyTunnel.
ModifyTunnelAsserts(list, r) ==
    LET d == GetTunnelDevice(list, r) IN d # 0 /\ list[d].ref > 0

\* Slip: the new remote's device is taken without giving the old one back.
ModifyTunnelListKeepsOld(list, r, new) == AddTunnelList(list, new)

\* Slip: the old interface index is returned with the new device list.
ModifyTunnelIfStale(list, r, new) == GetTunnelDevice(list, r)

\* ModifyTunnel: a shared device is left for the new remote's device, an
\* unshared one is re-addressed in place.
ModifyTunnelIf(list, r, new) ==
    LET d == GetTunnelDevice(list, r)
    IN  IF list[d].ref > 1 THEN AddTunnelIf(RemoveTunnelList(list, r), new)
        ELSE d

ModifyTunnelList(list, r, new) ==
    LET d == GetTunnelDevice(list, r)
    IN  IF list[d].ref > 1 THEN AddTunnelList(RemoveTunnelList(list, r), new)
        ELSE [list EXCEPT ![d].remote = new]
=============================================================================
