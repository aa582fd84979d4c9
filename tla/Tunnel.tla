------------------------------- MODULE Tunnel -------------------------------
(***************************************************************************)
(* The tunnel manager of a node on its own: Ipv6TunnelL4Protocol and its   *)
(* clients, the bindings, each of which holds at most one tunnel and hands *)
(* it from one remote to another.                                          *)
(***************************************************************************)
EXTENDS TunnelOps, FiniteSets

CONSTANT Client      \* the bindings of the node that may own a tunnel

ASSUME ClientAssumption == IsFiniteSet(Client)

VARIABLES
    tunnelList,      \* m_tunnelList
    peer,            \* the remote each client asked for, Zero if it has none
    iface            \* the interface index AddTunnel or ModifyTunnel gave it

vars == <<tunnelList, peer, iface>>

TypeOK ==
    /\ tunnelList \in Seq(Device)
    /\ peer \in [Client -> Addr \cup {Zero}]
    /\ iface \in [Client -> Nat]

Init ==
    /\ tunnelList = <<>>
    /\ peer = [c \in Client |-> Zero]
    /\ iface = [c \in Client |-> 0]

AddTunnel(c, r) ==
    /\ peer[c] = Zero
    /\ tunnelList' = AddTunnelList(tunnelList, r)
    /\ iface' = [iface EXCEPT ![c] = AddTunnelIf(tunnelList, r)]
    /\ peer' = [peer EXCEPT ![c] = r]

RemoveTunnel(c) ==
    /\ peer[c] # Zero
    /\ tunnelList' = RemoveTunnelList(tunnelList, peer[c])
    /\ iface' = [iface EXCEPT ![c] = 0]
    /\ peer' = [peer EXCEPT ![c] = Zero]

ModifyTunnel(c, new) ==
    /\ peer[c] \notin {Zero, new}
    /\ tunnelList' = ModifyTunnelList(tunnelList, peer[c], new)
    /\ iface' = [iface EXCEPT ![c] = ModifyTunnelIf(tunnelList, peer[c], new)]
    /\ peer' = [peer EXCEPT ![c] = new]

Next ==
    \E c \in Client :
        \/ \E r \in Addr : AddTunnel(c, r)
        \/ RemoveTunnel(c)
        \/ \E r \in Addr : ModifyTunnel(c, r)

Spec == Init /\ [][Next]_vars

-----------------------------------------------------------------------------
Users(r) == {c \in Client : peer[c] = r}

\* GetTunnelDevice takes the first device with the asked-for remote, so no
\* remote may be served by two devices: re-addressing one in ModifyTunnel
\* must never collide with another.
RemotesDistinct ==
    \A d, e \in DOMAIN tunnelList :
        tunnelList[d].remote = tunnelList[e].remote => d = e

\* The reference count is the number of clients of the device plus the one
\* the constructor starts with; no path of ModifyTunnel loses or gains one.
RefCountsUsers ==
    \A d \in DOMAIN tunnelList :
        tunnelList[d].ref = 1 + Cardinality(Users(tunnelList[d].remote))

\* The interface a client was given leads to the remote it asked for, however
\* the other clients have moved their tunnels since.
TunnelServesPeer ==
    \A c \in Client : peer[c] # Zero =>
        /\ iface[c] \in DOMAIN tunnelList
        /\ tunnelList[iface[c]].remote = peer[c]

\* The assertions of ModifyTunnel hold for every client that has a tunnel.
ModifyNeverAborts ==
    \A c \in Client :
        peer[c] # Zero => ModifyTunnelAsserts(tunnelList, peer[c])
=============================================================================
