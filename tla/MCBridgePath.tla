---------------------------- MODULE MCBridgePath ----------------------------
EXTENDS BridgePath, TLC

Kind(t, d, a) == [type |-> t, dst |-> d, dip |-> a]

\* To the router by its MACs, to the host, and broadcast.
SomeStationKinds ==
  {Kind("arp_req", Bcast, a) : a \in {StaIp, HostIp}}
  \cup {Kind("ip", d, HostIp) : d \in {ApMac, Bcast, Host}}
  \cup {Kind("arp_req", ApMac, StaIp), Kind("arp_req", StaMac, StaIp), Kind("arp_rep", ApMac, HostIp),
        Kind("arp_rep", Host, HostIp), Kind("other", Bcast, HostIp)}

\* To each address of a client and of the router, broadcast, and a stray one.
SomeHostKinds ==
  {Kind(t, StaMac, a) : t \in ArpTypes \cup {"ip"}, a \in Pool \cup {StaIp}}
  \cup {Kind("arp_req", Bcast, a) : a \in Pool \cup {StaIp}}
  \cup {Kind("ip", Bcast, BcastIp), Kind("other", Bcast, BcastIp), Kind("other", StaMac, StaIp),
        Kind("ip", ApMac, StaIp)}

\* Stations are alike, and so are the addresses of the pool.
Symmetry == Permutations(Stations) \cup Permutations(Pool)
=============================================================================
