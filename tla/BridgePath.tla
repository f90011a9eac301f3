----------------------------- MODULE BridgePath -----------------------------
(***************************************************************************)
(* What the hooks of bridge.c do with frames while the bridge is enabled.  *)
(* The uplink accepts frames of one station only, so everything sent there *)
(* bears the MAC of the router's station, and what comes back is given to  *)
(* the right client by means of two tables: address -> MAC (s_fdb) and     *)
(* DHCP transaction -> MAC (s_xid_map).  Here they are tables as specified *)
(* in LearningTable, which may forget an entry at any time; that the code  *)
(* keeps them so is shown in Fdb.                                          *)
(*                                                                         *)
(* A frame is handled in one step; what it caused to be sent is in up and  *)
(* down until the next step, which delivers it or loses it.  The stations, *)
(* and the DHCP server and the access point of the uplink, are external.   *)
(* A transaction id is written as the MAC of the client that chose it:     *)
(* clients choose them at random, and the model has no two alike.          *)
(***************************************************************************)
EXTENDS FiniteSetsExt, Functions

CONSTANTS
  Stations,         \* the clients of the access point, by their MACs
  Host,             \* a host of the uplink's network
  StaMac, ApMac,    \* the router's two interfaces
  Bcast, NoMac,
  Pool,             \* the addresses that the uplink's DHCP server leases
  StaIp, HostIp, BcastIp,
  NoIp,             \* address 0
  NoMsg,            \* a frame that is not DHCP
  StationKinds,     \* the frames, other than DHCP, that stations send to the
  HostKinds         \* router or the host, and the host to them: [type, dst, dip]

ASSUME PathAssumption ==
  /\ {StaMac, ApMac, Host, Bcast, NoMac} \cap Stations = {}
  /\ StaMac \notin {Bcast, NoMac} /\ ApMac # NoMac /\ Host # NoMac
  /\ {StaIp, HostIp, NoIp} \cap Pool = {} /\ NoIp \notin {StaIp, HostIp}

VARIABLES
  fdb, xid_map,
  sta_ip,           \* the address of the router's station, or 0
  up, down,         \* what was sent last, to the uplink and to the stations
  stack,            \* the frame was given to the router's own stack
  cast,             \* what that frame was: see FromAp and FromSta, or "none"
  addr,             \* per station: the address it uses
  opt61,            \* whether it sends option 61 itself, leaves room for it, or
                    \* neither: "own", "room", "full"
  lan,              \* the DHCP requests that reached the server
  lease             \* its leases, per client identity

tables == <<fdb, xid_map, sta_ip>>
sent == <<up, down, stack, cast>>
hosts == <<addr, opt61, lan, lease>>
vars == <<tables, sent, hosts>>

Ips == Pool \cup {StaIp, HostIp}
ArpTypes == {"arp_req", "arp_rep"}
Clients == Stations \cup {StaMac}

FdbTable == INSTANCE LearningTable WITH Key <- Ips, Value <- Stations, None <- NoMac, table <- fdb
XidTable == INSTANCE LearningTable WITH Key <- Clients, Value <- Clients, None <- NoMac,
                                        table <- xid_map

Msg == [op : {"DISCOVER", "REQUEST", "OFFER", "ACK"}, xid : Clients,
        chaddr : Clients, id : Stations \cup {NoMac}, yiaddr : Ips \cup {NoIp}]
Frame == [type : ArpTypes \cup {"ip", "other"}, src : Clients \cup {ApMac, Host},
          dst : Clients \cup {ApMac, Host, Bcast}, sha : Clients \cup {ApMac, Host, NoMac},
          sip : Ips \cup {NoIp}, dip : Ips \cup {NoIp, BcastIp}, msg : Msg \cup {NoMsg},
          origin : {"station", "uplink", "router"}]

ASSUME FramesAssumption ==
  /\ NoMsg \notin Msg
  /\ StationKinds \cup HostKinds \subseteq
       [type : ArpTypes \cup {"ip", "other"}, dst : Clients \cup {ApMac, Host, Bcast},
        dip : Ips \cup {NoIp, BcastIp}]

-----------------------------------------------------------------------------
\* Every variable has its type; only clients of the access point are learned.
TypeOK ==
  /\ fdb \in [Ips -> Stations \cup {NoMac}]
  /\ xid_map \in [Clients -> Clients \cup {NoMac}]
  /\ sta_ip \in {StaIp, NoIp}
  /\ up \subseteq Frame /\ down \subseteq Frame
  /\ stack \in BOOLEAN /\ cast \in {"unicast", "request", "stray", "broadcast", "none"}
  /\ addr \in [Stations -> Ips \cup {NoIp}] /\ opt61 \in [Stations -> {"own", "room", "full"}]
  /\ lan \subseteq Msg
  /\ lease \in [Clients -> Ips \cup {NoIp}]

\* bridge_init has cleared the tables; the router has a lease.
Init ==
  /\ fdb = FdbTable!Empty /\ xid_map = XidTable!Empty
  /\ sta_ip = StaIp
  /\ up = {} /\ down = {} /\ stack = FALSE /\ cast = "none"
  /\ addr = [m \in Stations |-> NoIp]
  /\ opt61 \in [Stations -> {"own", "room", "full"}]
  /\ lan = {[op |-> "REQUEST", xid |-> StaMac, chaddr |-> StaMac, id |-> NoMac, yiaddr |-> NoIp]}
  /\ lease = [i \in Clients |-> IF i = StaMac THEN StaIp ELSE NoIp]

Quiet == up' = {} /\ down' = {} /\ stack' = FALSE /\ cast' = "none"

-----------------------------------------------------------------------------
(* The parts of the hooks.                                                  *)

\* Faulty variant: the router's own frames are not recognised.
OwnSourceNot(f) == FALSE

\* A frame of the router itself that the access point of the uplink repeats.
OwnSource(f) == f.src \in {StaMac, ApMac}

Lookup(a) == IF a \in Ips THEN fdb[a] ELSE NoMac
Learned(a, m) == IF a \in {NoIp, sta_ip} THEN fdb ELSE FdbTable!With(a, m)

LearnedFrom(f) == IF f.type = "other" THEN fdb ELSE Learned(f.sip, f.src)

\* Faulty variant: the address of the sender in an ARP packet is not replaced.
MaskSource(f) == [f EXCEPT !.src = StaMac]

\* What goes up bears the MAC of the router's station.
Mask(f) == [f EXCEPT !.src = StaMac, !.sha = IF f.type \in ArpTypes THEN StaMac ELSE @]

\* What goes down bears that of its access point.
MaskDown(f) == [f EXCEPT !.src = ApMac, !.sha = IF f.type \in ArpTypes THEN ApMac ELSE @]

\* An ARP request that the bridge answers itself: of a station for the router's
\* address, of the uplink for the address of a client.
AsksRouter(f) == f.type = "arp_req" /\ sta_ip # NoIp /\ f.dip = sta_ip
AsksClient(f) == f.type = "arp_req" /\ Lookup(f.dip) # NoMac

\* What a frame is: a broadcast, a request that is the bridge's to answer, one from
\* the uplink for none of the router's MACs ("stray"), or a unicast to be handed on.
FromAp(f) == IF f.dst = Bcast THEN "broadcast" ELSE IF AsksRouter(f) THEN "request" ELSE "unicast"
FromSta(f) == IF f.dst = Bcast THEN "broadcast" ELSE IF AsksClient(f) THEN "request"
              ELSE IF f.dst = StaMac THEN "unicast" ELSE "stray"

ProxyReply(mac, req) ==
  [type |-> "arp_rep", src |-> mac, sha |-> mac, dst |-> req.sha, sip |-> req.dip,
   dip |-> req.sip, msg |-> NoMsg, origin |-> "router"]

\* send_proxy_arp_reply: the reply, or nothing if there is no buffer for it.
Replies(mac, req) == {{}, {ProxyReply(mac, req)}}

\* Faulty variant: no option 61 is added.
SnoopedNoId(m) == [m EXCEPT !.chaddr = StaMac]

\* snoop_dhcp_request: the client is hidden, and named in option 61 if it has
\* not done so itself and there is room.
Snooped(m) ==
  [m EXCEPT !.chaddr = StaMac,
            !.id = IF @ = NoMac /\ opt61[m.chaddr] = "room" THEN m.chaddr ELSE @]

\* Faulty variant: the client is noted after it has been hidden.
NotedHidden(m) == XidTable!With(m.xid, Snooped(m).chaddr)

Noted(m) == XidTable!With(m.xid, m.chaddr)

-----------------------------------------------------------------------------
(* bridge_input_ap: a frame f from a station.                               *)

\* For the router's own stack: its own frames, those for its own MAC, and any
\* when there is no buffer for the copy.
ApToStack(f) ==
  /\ fdb' = IF OwnSource(f) THEN fdb ELSE LearnedFrom(f)
  /\ stack' = TRUE /\ up' = {} /\ down' = {}
  /\ UNCHANGED xid_map

ApArpForRouter(f) ==
  /\ AsksRouter(f)
  /\ fdb' = LearnedFrom(f)
  /\ down' \in Replies(ApMac, f) /\ up' = {} /\ stack' = (f.dst = Bcast)
  /\ UNCHANGED xid_map

ApForward(f) ==
  /\ f.msg = NoMsg
  /\ ~AsksRouter(f)
  /\ fdb' = LearnedFrom(f)
  /\ up' = {Mask(f)} /\ down' = {} /\ stack' = (f.dst = Bcast)
  /\ UNCHANGED xid_map

ApDhcp(f) ==
  /\ f.msg # NoMsg
  /\ fdb' = LearnedFrom(f)
  /\ xid_map' = Noted(f.msg)
  /\ up' = {[Mask(f) EXCEPT !.msg = Snooped(f.msg)]} /\ down' = {} /\ stack' = (f.dst = Bcast)

bridge_input_ap(f) ==
  /\ \/ ApToStack(f)
     \/ /\ ~OwnSource(f) /\ f.dst # ApMac
        /\ ApArpForRouter(f) \/ ApForward(f) \/ ApDhcp(f)
  /\ cast' = FromAp(f)
  /\ UNCHANGED <<sta_ip, hosts>>

-----------------------------------------------------------------------------
(* bridge_input_sta: a frame f from the uplink.                             *)

StaToStack(f) ==
  /\ stack' = TRUE /\ up' = {} /\ down' = {}
  /\ UNCHANGED fdb

\* A DHCP answer in a transaction that a client began.
ClientReply(f) ==
  f.msg # NoMsg /\ f.msg.op \in {"OFFER", "ACK"} /\ xid_map[f.msg.xid] # NoMac

\* Faulty variant: the address that a client is given is not learned.
StaDhcpNoLearn(f) ==
  /\ ClientReply(f)
  /\ LET m == xid_map[f.msg.xid]
     IN /\ down' = {[MaskDown(f) EXCEPT !.dst = m, !.msg.chaddr = m]}
        /\ fdb' = fdb
  /\ up' = {} /\ stack' = (f.dst = Bcast)

\* snoop_dhcp_reply finds the client of the transaction.
StaDhcp(f) ==
  /\ ClientReply(f)
  /\ LET m == xid_map[f.msg.xid]
     IN /\ down' = {[MaskDown(f) EXCEPT !.dst = m, !.msg.chaddr = m]}
        /\ fdb' = IF f.msg.op = "ACK" THEN Learned(f.msg.yiaddr, m) ELSE fdb
  /\ up' = {} /\ stack' = (f.dst = Bcast)

StaArpProxy(f) ==
  /\ AsksClient(f)
  /\ up' \in Replies(StaMac, f) /\ down' = {} /\ stack' = FALSE
  /\ UNCHANGED fdb

\* The client that a unicast is for, if it is not for the router itself.
Client(f) == IF f.type # "other" /\ sta_ip # NoIp /\ f.dip # sta_ip THEN Lookup(f.dip) ELSE NoMac

\* Faulty variant: a unicast that was sent on is also given to the stack.
StaForwardBoth(f) ==
  /\ ~ClientReply(f)
  /\ ~AsksClient(f)
  /\ down' = IF f.dst = Bcast /\ f.type # "other" THEN {MaskDown(f)}
             ELSE IF f.dst # Bcast /\ Client(f) # NoMac
                  THEN {[MaskDown(f) EXCEPT !.dst = Client(f)]} ELSE {}
  /\ up' = {} /\ stack' = TRUE
  /\ UNCHANGED fdb

\* Any other frame.
StaForward(f) ==
  /\ ~ClientReply(f)
  /\ ~AsksClient(f)
  /\ down' = IF f.dst = Bcast /\ f.type # "other" THEN {MaskDown(f)}
             ELSE IF f.dst # Bcast /\ Client(f) # NoMac
                  THEN {[MaskDown(f) EXCEPT !.dst = Client(f)]} ELSE {}
  /\ up' = {} /\ stack' = (f.dst = Bcast \/ (f.dst = StaMac /\ down' = {}))
  /\ UNCHANGED fdb

bridge_input_sta(f) ==
  /\ \/ StaToStack(f)
     \/ ~OwnSource(f) /\ (StaDhcp(f) \/ StaArpProxy(f) \/ StaForward(f))
  /\ cast' = FromSta(f)
  /\ UNCHANGED <<xid_map, sta_ip>>

-----------------------------------------------------------------------------
(* bridge_output_sta and bridge_output_ap: an IP packet of the stack.       *)

Packet(src, dst, a) ==
  [type |-> "ip", src |-> src, dst |-> dst, sha |-> NoMac, sip |-> sta_ip, dip |-> a,
   msg |-> NoMsg, origin |-> "router"]

\* To the client, if the address is one's and the frame's header fits.
bridge_output(a) ==
  /\ \/ Lookup(a) # NoMac /\ down' = {Packet(ApMac, Lookup(a), a)} /\ up' = {}
     \/ down' = {} /\ up' = {Packet(StaMac, Host, a)}
  /\ stack' = FALSE /\ cast' = "none"
  /\ UNCHANGED <<tables, hosts>>

\* Multicast leaves the station's interface on both sides.
OutputMulticast ==
  /\ down' = {Packet(ApMac, Bcast, BcastIp)} /\ up' = {Packet(StaMac, Bcast, BcastIp)}
  /\ stack' = FALSE /\ cast' = "none"
  /\ UNCHANGED <<tables, hosts>>

-----------------------------------------------------------------------------
(* The stations.                                                            *)

StationSends(m) ==
  \E k \in StationKinds :
    bridge_input_ap([type |-> k.type, src |-> m, dst |-> k.dst, sip |-> addr[m], dip |-> k.dip,
                     sha |-> IF k.type \in ArpTypes THEN m ELSE NoMac, msg |-> NoMsg,
                     origin |-> "station"])

StationAsks(m) ==
  \E op \in {"DISCOVER", "REQUEST"} :
    bridge_input_ap([type |-> "ip", src |-> m, dst |-> Bcast, sha |-> NoMac, sip |-> NoIp,
                     dip |-> BcastIp, origin |-> "station",
                     msg |-> [op |-> op, xid |-> m, chaddr |-> m, yiaddr |-> NoIp,
                              id |-> IF opt61[m] = "own" THEN m ELSE NoMac]])

\* It takes the address of an acknowledgement meant for it.
StationReceives(m) ==
  /\ \E f \in down :
       /\ f.dst \in {m, Bcast} /\ f.msg # NoMsg
       /\ f.msg.op = "ACK" /\ f.msg.xid = m /\ f.msg.chaddr = m
       /\ addr' = [addr EXCEPT ![m] = f.msg.yiaddr]
  /\ Quiet
  /\ UNCHANGED <<tables, opt61, lan, lease>>

StationLeaves(m) ==
  /\ addr[m] # NoIp /\ addr' = [addr EXCEPT ![m] = NoIp]
  /\ Quiet
  /\ UNCHANGED <<tables, opt61, lan, lease>>

Station(m) == StationSends(m) \/ StationAsks(m) \/ StationReceives(m) \/ StationLeaves(m)

-----------------------------------------------------------------------------
(* The uplink's network: its access point, a host, its DHCP server.         *)

\* The access point repeats a broadcast to all its stations, the sender too.
Repeat ==
  /\ \E f \in up : f.dst = Bcast /\ bridge_input_sta(f)
  /\ UNCHANGED hosts

HostSends ==
  /\ \E k \in HostKinds :
       bridge_input_sta([type |-> k.type, src |-> Host, dst |-> k.dst, sip |-> HostIp,
                         dip |-> k.dip, sha |-> IF k.type \in ArpTypes THEN Host ELSE NoMac,
                         msg |-> NoMsg, origin |-> "uplink"])
  /\ UNCHANGED hosts

DhcpArrives ==
  /\ lan' = lan \cup {f.msg : f \in {g \in up : g.msg # NoMsg}}
  /\ lan' # lan
  /\ Quiet
  /\ UNCHANGED <<tables, addr, opt61, lease>>

\* The server knows a client by option 61, else by its MAC.
Identity(q) == IF q.id # NoMac THEN q.id ELSE q.chaddr

\* It answers a request, perhaps late and perhaps again, with the address that
\* the client has or a free one.
DhcpAnswers ==
  \E q \in lan, d \in {Bcast, StaMac} :
    \E a \in IF lease[Identity(q)] # NoIp THEN {lease[Identity(q)]} ELSE Pool \ Range(lease) :
      /\ bridge_input_sta(
           [type |-> "ip", src |-> Host, dst |-> d, sha |-> NoMac, sip |-> HostIp,
            dip |-> IF d = Bcast THEN BcastIp ELSE a, origin |-> "uplink",
            msg |-> [op |-> IF q.op = "DISCOVER" THEN "OFFER" ELSE "ACK", xid |-> q.xid,
                     chaddr |-> q.chaddr, id |-> q.id, yiaddr |-> a]])
      /\ lease' = [lease EXCEPT ![Identity(q)] = a]
      /\ UNCHANGED <<addr, opt61, lan>>

\* The lease of a client that no longer uses its address.
LeaseExpires ==
  /\ \E m \in Stations : /\ addr[m] = NoIp /\ lease[m] # NoIp
                         /\ lease' = [lease EXCEPT ![m] = NoIp]
  /\ Quiet
  /\ UNCHANGED <<tables, addr, opt61, lan>>

Uplink == Repeat \/ HostSends \/ DhcpArrives \/ DhcpAnswers \/ LeaseExpires

-----------------------------------------------------------------------------
\* An entry expires or makes room for another.
Forget ==
  /\ \/ \E a \in Ips : /\ fdb[a] # NoMac /\ FdbTable!Forget({a})
                       /\ UNCHANGED xid_map
     \/ \E x \in Clients : /\ xid_map[x] # NoMac /\ XidTable!Forget({x})
                           /\ UNCHANGED fdb
  /\ Quiet
  /\ UNCHANGED <<sta_ip, hosts>>

\* The router's own lease is lost or renewed.
OwnLease ==
  /\ sta_ip' \in {StaIp, NoIp} \ {sta_ip}
  /\ Quiet
  /\ UNCHANGED <<fdb, xid_map, hosts>>

Next == \/ \E m \in Stations : Station(m)
        \/ Uplink
        \/ (\E a \in Ips : bridge_output(a)) \/ OutputMulticast
        \/ Forget \/ OwnLease

Spec == Init /\ [][Next]_vars

-----------------------------------------------------------------------------
(* Correctness.                                                             *)

\* The access point of the uplink knows one station: whatever is sent to it
\* bears that MAC, as sender, in ARP and as the client of a DHCP message.
UplinkSeesOneStation ==
  \A f \in up : /\ f.src = StaMac
                /\ f.type \in ArpTypes => f.sha = StaMac
                /\ f.msg # NoMsg => f.msg.chaddr = StaMac

\* A broadcast that the uplink repeats is not sent back to where it came from:
\* nothing goes round.
NoEcho == /\ \A f \in down : f.origin # "station"
          /\ \A f \in up : f.origin # "uplink"

\* While a transaction is remembered its answer is sent to the client that
\* began it, and names it, although the request named the router.
ReplyReachesRequester ==
  \A f \in down : f.msg # NoMsg /\ xid_map[f.msg.xid] # NoMac =>
     f.dst = f.msg.xid /\ f.msg.chaddr = f.msg.xid

\* The DHCP server of the uplink sees all clients under one MAC and yet gives
\* each its own address, neither another's nor the router's, as long as their
\* messages leave room for the bridge to name them.
Named == {m \in Stations : opt61[m] # "full"}
AddressesDistinct ==
  /\ \A m, n \in Named : addr[m] = addr[n] /\ addr[m] # NoIp => m = n
  /\ \A m \in Named : addr[m] # StaIp

\* What is sent to one station for an address reaches the station that has it
\* now, whoever had it before.
DeliveredToHolder ==
  \A f \in down : f.msg = NoMsg /\ f.dst # Bcast /\ f.type # "arp_rep" =>
     \A m \in Named : addr[m] # NoIp /\ addr[m] = f.dip => f.dst = m

\* A frame that is not a broadcast goes to one place at most, the uplink, a station
\* or the router's stack, whichever hook it comes to and whatever buffers there are.
\* It is lost only if it was not for the router's MAC, or was an ARP request that
\* the bridge meant to answer: then the lack of a buffer loses it.
Places == Cardinality(up) + Cardinality(down) + (IF stack THEN 1 ELSE 0)
OnePlace ==
  /\ cast \in {"unicast", "request", "stray"} => Places =< 1
  /\ cast = "unicast" => Places = 1
=============================================================================
