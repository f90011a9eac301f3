-------------------------- MODULE BridgePathProofs --------------------------
(***************************************************************************)
(* Proofs about BridgePath, for any number of stations, addresses and      *)
(* frames: the uplink sees one station, nothing goes round, no unicast is  *)
(* doubled and which can be lost, and each client gets its own address and *)
(* what is sent to it.                                                     *)
(***************************************************************************)
EXTENDS BridgePath, FiniteSetTheorems, TLAPS

-----------------------------------------------------------------------------
(* The invariant.                                                           *)

\* The client of a transaction is who began it.
Transactions == \A x \in Clients : xid_map[x] # NoMac => x \in Stations /\ xid_map[x] = x

\* A request, once sent up, names its client if it can, and the router's MAC.
Request(q) == /\ q.chaddr = StaMac
              /\ q.id = IF q.xid \in Named THEN q.xid ELSE NoMac
Requests == /\ \A f \in up : f.msg # NoMsg => Request(f.msg)
            /\ \A q \in lan : Request(q)

\* The server leases each address to one identity, the router's own included;
\* who can be named has its own identity, and who cannot has the router's.
Leases ==
  /\ lease[StaMac] = StaIp
  /\ \A m \in Stations : lease[m] \in (IF m \in Named THEN Pool ELSE {}) \cup {NoIp}
  /\ \A i, j \in Clients : lease[i] = lease[j] /\ lease[i] # NoIp => i = j

\* A station uses the address of its identity.
Holders ==
  \A m \in Stations :
    addr[m] # NoIp => addr[m] = IF m \in Named THEN lease[m] ELSE StaIp

\* So does an acknowledgement that is on its way to it, and the bridge has
\* learned of it.
Acknowledged ==
  \A f \in down : f.msg # NoMsg /\ f.msg.op = "ACK" /\ f.msg.chaddr \in Stations =>
    IF f.msg.xid \in Named THEN /\ f.msg.yiaddr = lease[f.msg.xid]
                                /\ fdb[f.msg.yiaddr] = f.msg.xid
                           ELSE f.msg.yiaddr = StaIp

\* The bridge knows the address of a station by its MAC or not at all.
Located ==
  \A m \in Named : addr[m] # NoIp => fdb[addr[m]] \in {m, NoMac}

PathInv ==
  /\ TypeOK /\ UplinkSeesOneStation /\ NoEcho /\ ReplyReachesRequester
  /\ DeliveredToHolder /\ OnePlace
  /\ Transactions /\ Requests /\ Leases /\ Holders /\ Acknowledged /\ Located

-----------------------------------------------------------------------------
(* Frames.                                                                  *)

\* Hiding the sender of a frame changes its sender and nothing else.
LEMMA Masked ==
  ASSUME NEW f \in Frame
  PROVE  /\ Mask(f) \in Frame /\ Mask(f).src = StaMac
         /\ f.type \in ArpTypes => Mask(f).sha = StaMac
         /\ Mask(f).type = f.type /\ Mask(f).msg = f.msg /\ Mask(f).origin = f.origin
BY DEF Mask, Frame, Clients

LEMMA MaskedDown ==
  ASSUME NEW f \in Frame
  PROVE  /\ MaskDown(f) \in Frame /\ MaskDown(f).dst = f.dst /\ MaskDown(f).dip = f.dip
         /\ MaskDown(f).type = f.type /\ MaskDown(f).msg = f.msg
         /\ MaskDown(f).origin = f.origin
BY DEF MaskDown, Frame, Clients

\* So does naming another receiver.
LEMMA Redirected ==
  ASSUME NEW f \in Frame, NEW m \in Stations
  PROVE  LET g == [MaskDown(f) EXCEPT !.dst = m]
         IN /\ g \in Frame /\ g.dst = m /\ g.dip = f.dip /\ g.type = f.type
            /\ g.msg = f.msg /\ g.origin = f.origin
<1> DEFINE h == MaskDown(f)
<1>1. h \in Frame
  BY MaskedDown
<1>2. m \in Clients
  BY DEF Clients
<1> HIDE DEF h
<1>3. LET g == [h EXCEPT !.dst = m]
      IN /\ g \in Frame /\ g.dst = m /\ g.dip = h.dip /\ g.type = h.type
         /\ g.msg = h.msg /\ g.origin = h.origin
  BY <1>1, <1>2 DEF Frame
<1> QED BY <1>3, MaskedDown DEF h

\* An ARP request is answered to who asked.
LEMMA Answered ==
  ASSUME NEW f \in Frame, f.sha # NoMac, f.dip \in Ips, NEW mac \in {StaMac, ApMac}
  PROVE  LET g == ProxyReply(mac, f)
         IN /\ g \in Frame /\ g.src = mac /\ g.sha = mac /\ g.type = "arp_rep"
            /\ g.msg = NoMsg /\ g.origin = "router"
BY DEF ProxyReply, Frame, Clients, ArpTypes

-----------------------------------------------------------------------------
(* A frame of a station, at bridge_input_ap.                                *)

\* What the stations send: frames of their own, from the address they use,
\* and requests for one.
Sent(m, f) ==
  /\ f \in Frame /\ f.src = m /\ f.origin = "station"
  /\ f.sip \in {NoIp, addr[m]}
  /\ f.type \in ArpTypes => f.sha = m
  /\ f.msg # NoMsg => /\ f.msg.xid = m /\ f.msg.chaddr = m
                      /\ f.msg.id = IF opt61[m] = "own" THEN m ELSE NoMac

\* The request, as it is sent up.
LEMMA SnoopedRequest ==
  ASSUME TypeOK, NEW m \in Stations, NEW f, Sent(m, f), f.msg # NoMsg
  PROVE  LET g == [Mask(f) EXCEPT !.msg = Snooped(f.msg)]
         IN /\ g \in Frame /\ g.src = StaMac /\ g.origin = "station"
            /\ g.type \in ArpTypes => g.sha = StaMac
            /\ g.msg # NoMsg /\ Request(g.msg)
<1> DEFINE q == Snooped(f.msg)
           h == Mask(f)
           g == [h EXCEPT !.msg = q]
<1>1. f \in Frame /\ f.msg \in Msg
  BY DEF Sent, Frame
<1>2. q \in Msg /\ q.chaddr = StaMac /\ q.xid = m
      /\ q.id = IF m \in Named THEN m ELSE NoMac
  <2>1. opt61[m] \in {"own", "room", "full"}
    BY DEF TypeOK
  <2>2. m \in Named <=> opt61[m] # "full"
    BY DEF Named
  <2>3. f.msg.xid = m /\ f.msg.chaddr = m /\ f.msg.id = IF opt61[m] = "own" THEN m ELSE NoMac
    BY DEF Sent
  <2>4. m # NoMac
    BY PathAssumption
  <2>5. q = [f.msg EXCEPT !.chaddr = StaMac,
                          !.id = IF f.msg.id = NoMac /\ opt61[m] = "room" THEN m ELSE f.msg.id]
    BY <2>3 DEF Snooped
  <2> HIDE DEF q
  <2>6. q \in Msg /\ q.chaddr = StaMac /\ q.xid = m
        /\ q.id = IF f.msg.id = NoMac /\ opt61[m] = "room" THEN m ELSE f.msg.id
    BY <1>1, <2>3, <2>5 DEF Msg, Clients
  <2> QED BY <2>1, <2>2, <2>3, <2>4, <2>6
<1>3. /\ h \in Frame /\ h.src = StaMac /\ h.origin = "station"
      /\ h.type \in ArpTypes => h.sha = StaMac
  BY <1>1, Masked DEF Sent
<1> HIDE DEF h, q
<1>4. /\ g \in Frame /\ g.src = h.src /\ g.origin = h.origin /\ g.type = h.type
      /\ g.sha = h.sha /\ g.msg = q
  BY <1>2, <1>3 DEF Frame
<1>5. Request(q)
  BY <1>2 DEF Request
<1>6. g.msg # NoMsg
  BY <1>2, <1>4, FramesAssumption
<1> QED BY <1>3, <1>4, <1>5, <1>6 DEF h, q

\* What a station teaches the bridge: its own address, or nothing.
LEMMA LearnedOfStation ==
  ASSUME PathInv, NEW m \in Stations, NEW f, Sent(m, f),
         fdb' \in {fdb, LearnedFrom(f)}, UNCHANGED <<addr, opt61>>
  PROVE  fdb' \in [Ips -> Stations \cup {NoMac}] /\ Located'
<1> USE DEF PathInv, TypeOK
<1>1. CASE fdb' = fdb
  BY <1>1 DEF Located, Named
<1>2. CASE fdb' # fdb
  <2>1. f.sip = addr[m] /\ addr[m] # NoIp /\ fdb' = [fdb EXCEPT ![addr[m]] = m]
    BY <1>2 DEF LearnedFrom, Learned, FdbTable!With, Sent
  <2>2. addr[m] \in Ips
    BY <2>1
  <2>3. fdb' \in [Ips -> Stations \cup {NoMac}]
    BY <2>1, <2>2
  <2>4. ASSUME NEW n \in Named, addr[n] # NoIp, n # m PROVE addr[n] # addr[m]
    <3>1. n \in Stations /\ addr[n] = lease[n] /\ lease[n] \in Pool \cup {NoIp}
      BY <2>4 DEF Named, Holders, Leases
    <3>2. CASE m \in Named
      <4>1. addr[m] = lease[m]
        BY <2>1, <3>2 DEF Holders
      <4> QED BY <2>1, <2>4, <3>1, <4>1 DEF Leases, Clients
    <3>3. CASE m \notin Named
      <4>1. addr[m] = StaIp
        BY <2>1, <3>3 DEF Holders
      <4> QED BY <2>4, <3>1, <4>1, PathAssumption
    <3> QED BY <3>2, <3>3
  <2>5. ASSUME NEW n \in Named, addr[n] # NoIp PROVE fdb'[addr[n]] \in {n, NoMac}
    <3>1. addr[n] \in Ips
      BY <2>5 DEF Named
    <3>2. CASE n = m
      BY <2>1, <2>2, <3>2
    <3>3. CASE n # m
      BY <2>1, <2>2, <2>4, <2>5, <3>1, <3>3 DEF Located
    <3> QED BY <3>2, <3>3
  <2> QED BY <2>3, <2>5 DEF Located, Named
<1> QED BY <1>1, <1>2
\* bridge_input_ap keeps the invariant.
LEMMA FromStation ==
  ASSUME PathInv, NEW m \in Stations, NEW f, Sent(m, f), bridge_input_ap(f)
  PROVE  PathInv'
<1> USE DEF PathInv
<1>1. f \in Frame /\ f.src = m /\ f.origin = "station" /\ f.msg \in Msg \cup {NoMsg}
  BY DEF Sent, Frame
<1>2. UNCHANGED <<sta_ip, addr, opt61, lan, lease>>
  BY DEF bridge_input_ap, hosts
<1>3. fdb' \in {fdb, LearnedFrom(f)}
  BY DEF bridge_input_ap, ApToStack, ApArpForRouter, ApForward, ApDhcp
<1>4. fdb' \in [Ips -> Stations \cup {NoMac}] /\ Located'
  BY <1>2, <1>3, LearnedOfStation
<1>6. /\ up' \in SUBSET Frame /\ down' \in SUBSET Frame /\ stack' \in BOOLEAN
      /\ \A g \in up' : /\ g.src = StaMac /\ g.origin = "station"
                        /\ g.type \in ArpTypes => g.sha = StaMac
                        /\ g.msg # NoMsg => Request(g.msg)
      /\ \A g \in down' : g.type = "arp_rep" /\ g.msg = NoMsg /\ g.origin = "router"
      /\ f.dst # Bcast => Places' = 1 \/ (FromAp(f) = "request" /\ Places' = 0)
  <2>1. CASE ApToStack(f)
    BY <2>1, FS_EmptySet DEF ApToStack, Places
  <2>2. CASE ApArpForRouter(f)
    <3> DEFINE g == ProxyReply(ApMac, f)
    <3>1. f.sha = m /\ m # NoMac /\ f.dip \in Ips
      BY <2>2, PathAssumption DEF ApArpForRouter, AsksRouter, Sent, ArpTypes, TypeOK, Ips
    <3>2. g \in Frame /\ g.type = "arp_rep" /\ g.msg = NoMsg /\ g.origin = "router"
      BY <1>1, <3>1, Answered
    <3>3. down' \in {{}, {g}} /\ up' = {} /\ stack' = (f.dst = Bcast)
      BY <2>2 DEF ApArpForRouter, Replies
    <3> HIDE DEF g
    <3>4. Cardinality(up') = 0 /\ Cardinality(down') \in {0, 1}
      BY <3>3, FS_EmptySet, FS_Singleton
    <3>5. stack' \in BOOLEAN /\ (f.dst # Bcast => ~stack')
      BY <3>3
    <3>6. f.dst # Bcast => FromAp(f) = "request"
      BY <2>2 DEF ApArpForRouter, FromAp
    <3> QED BY <3>2, <3>3, <3>4, <3>5, <3>6 DEF Places
  <2>3. CASE ApForward(f)
    <3> DEFINE g == Mask(f)
    <3>1. /\ g \in Frame /\ g.src = StaMac /\ g.origin = "station" /\ g.msg = NoMsg
          /\ g.type \in ArpTypes => g.sha = StaMac
      BY <1>1, <2>3, Masked DEF ApForward
    <3>2. up' = {g} /\ down' = {} /\ stack' = (f.dst = Bcast)
      BY <2>3 DEF ApForward
    <3> HIDE DEF g
    <3>3. Cardinality(up') = 1 /\ Cardinality(down') = 0
      BY <3>2, FS_EmptySet, FS_Singleton
    <3>4. stack' \in BOOLEAN /\ (f.dst # Bcast => ~stack')
      BY <3>2
    <3> QED BY <3>1, <3>2, <3>3, <3>4 DEF Places
  <2>4. CASE ApDhcp(f)
    <3> DEFINE g == [Mask(f) EXCEPT !.msg = Snooped(f.msg)]
    <3>1. /\ g \in Frame /\ g.src = StaMac /\ g.origin = "station"
          /\ g.type \in ArpTypes => g.sha = StaMac
          /\ g.msg # NoMsg /\ Request(g.msg)
      BY <2>4, SnoopedRequest DEF ApDhcp
    <3>2. up' = {g} /\ down' = {} /\ stack' = (f.dst = Bcast)
      BY <2>4 DEF ApDhcp
    <3> HIDE DEF g
    <3>3. Cardinality(up') = 1 /\ Cardinality(down') = 0
      BY <3>2, FS_EmptySet, FS_Singleton
    <3>4. stack' \in BOOLEAN /\ (f.dst # Bcast => ~stack')
      BY <3>2
    <3> QED BY <3>1, <3>2, <3>3, <3>4 DEF Places
  <2> QED BY <2>1, <2>2, <2>3, <2>4 DEF bridge_input_ap
<1>7. xid_map' \in [Clients -> Clients \cup {NoMac}] /\ Transactions'
  <2>1. CASE xid_map' = xid_map
    BY <2>1 DEF TypeOK, Transactions
  <2>2. CASE f.msg # NoMsg /\ xid_map' = [xid_map EXCEPT ![m] = m]
    BY <2>2 DEF TypeOK, Transactions, Clients
  <2>3. f.msg # NoMsg => f.msg.xid = m /\ f.msg.chaddr = m
    BY DEF Sent
  <2> QED BY <2>1, <2>2, <2>3
      DEF bridge_input_ap, ApToStack, ApArpForRouter, ApForward, ApDhcp, Noted, XidTable!With
<1>8. /\ cast' = FromAp(f) /\ cast' \in {"broadcast", "request", "unicast"}
      /\ cast' # "broadcast" => f.dst # Bcast
  BY DEF bridge_input_ap, FromAp
<1>9. TypeOK'
  BY <1>2, <1>4, <1>6, <1>7, <1>8 DEF TypeOK
<1>10. UplinkSeesOneStation'
  <2>1. \A g \in Frame : g.msg # NoMsg /\ Request(g.msg) => g.msg.chaddr = StaMac
    BY DEF Request
  <2> QED BY <1>6, <2>1 DEF UplinkSeesOneStation
<1>11. NoEcho'
  BY <1>6 DEF NoEcho
<1>12. ReplyReachesRequester' /\ DeliveredToHolder' /\ Acknowledged'
  BY <1>6 DEF ReplyReachesRequester, DeliveredToHolder, Acknowledged
<1>13. OnePlace'
  BY <1>6, <1>8 DEF OnePlace
<1>14. Requests'
  BY <1>2, <1>6 DEF Requests, Request, Named
<1>15. Leases' /\ Holders'
  BY <1>2 DEF Leases, Holders, Named
<1> QED BY <1>4, <1>7, <1>9, <1>10, <1>11, <1>12, <1>13, <1>14, <1>15

-----------------------------------------------------------------------------
(* A frame of the uplink, at bridge_input_sta.                              *)

\* What comes from the uplink, unless it is the router's own: frames of its
\* hosts, and answers to requests, which name the router, with the address
\* that the server has leased to the one who asked.
Given(f) ==
  /\ f \in Frame /\ f.origin = "uplink"
  /\ f.type \in ArpTypes => f.sha # NoMac
  /\ f.msg # NoMsg => /\ f.msg.op \in {"OFFER", "ACK"} /\ f.msg.chaddr = StaMac
                      /\ f.msg.yiaddr # NoIp
                      /\ f.msg.yiaddr = IF f.msg.xid \in Named THEN lease'[f.msg.xid] ELSE StaIp

\* An answer, as it is sent to its client.
LEMMA ReturnedAnswer ==
  ASSUME NEW f \in Frame, NEW m \in Stations, f.msg \in Msg
  PROVE  LET g == [MaskDown(f) EXCEPT !.dst = m, !.msg.chaddr = m]
         IN /\ g \in Frame /\ g.dst = m /\ g.origin = f.origin
            /\ g.msg \in Msg /\ g.msg.chaddr = m /\ g.msg.xid = f.msg.xid
            /\ g.msg.op = f.msg.op /\ g.msg.yiaddr = f.msg.yiaddr
<1> DEFINE h == MaskDown(f)
           q == [f.msg EXCEPT !.chaddr = m]
           g == [h EXCEPT !.dst = m, !.msg.chaddr = m]
<1>1. h \in Frame /\ h.msg = f.msg /\ h.origin = f.origin
  BY MaskedDown
<1>2. m \in Clients
  BY DEF Clients
<1>3. /\ q \in Msg /\ q.chaddr = m /\ q.xid = f.msg.xid
      /\ q.op = f.msg.op /\ q.yiaddr = f.msg.yiaddr
  BY <1>2 DEF Msg
<1> HIDE DEF h
<1>4. g = [h EXCEPT !.dst = m, !.msg = q]
  BY <1>1 DEF Frame
<1> HIDE DEF q
<1>5. g \in Frame /\ g.dst = m /\ g.origin = h.origin /\ g.msg = q
  BY <1>1, <1>2, <1>3, <1>4 DEF Frame
<1> QED BY <1>1, <1>3, <1>5 DEF h

\* What the bridge learns of an answer: the address that it gives its client.
LEMMA LearnedOfAnswer ==
  ASSUME PathInv, Leases', Holders', UNCHANGED <<sta_ip, addr, opt61>>,
         NEW f, Given(f), ClientReply(f),
         fdb' = IF f.msg.op = "ACK" THEN Learned(f.msg.yiaddr, f.msg.xid) ELSE fdb
  PROVE  /\ f.msg.xid \in Stations
         /\ fdb' \in [Ips -> Stations \cup {NoMac}] /\ Located'
         /\ f.msg.op = "ACK" /\ f.msg.xid \in Named => fdb'[f.msg.yiaddr] = f.msg.xid
<1> USE DEF PathInv, TypeOK
<1> DEFINE m == f.msg.xid
           a == f.msg.yiaddr
<1>1. f \in Frame /\ f.msg \in Msg
  BY DEF Given, ClientReply, Frame
<1>2. m \in Clients /\ a \in Ips
  BY <1>1 DEF Msg, Given, ClientReply
<1>3. m \in Stations
  BY <1>2 DEF Transactions, ClientReply
<1>4. a = IF m \in Named THEN lease'[m] ELSE StaIp
  BY DEF Given, ClientReply
<1>5. \A n \in Named : addr[n] # NoIp => addr[n] = lease'[n] /\ addr[n] \in Pool
  <2> SUFFICES ASSUME NEW n \in Named, addr[n] # NoIp
               PROVE  addr[n] = lease'[n] /\ addr[n] \in Pool
    OBVIOUS
  <2>1. n \in Stations /\ n \in Named'
    BY DEF Named
  <2>2. addr'[n] = lease'[n] /\ lease'[n] \in Pool \cup {NoIp}
    BY <2>1 DEF Holders, Leases
  <2> QED BY <2>2
<1>6. CASE fdb' = fdb
  <2>1. m \in Named => a \in Pool
    <3>1. m \in Named => m \in Named'
      BY DEF Named
    <3>2. a # NoIp
      BY DEF Given, ClientReply
    <3> QED BY <1>3, <1>4, <3>1, <3>2 DEF Leases
  <2>2. f.msg.op = "ACK" /\ m \in Named => fdb' = [fdb EXCEPT ![a] = m]
    <3>1. a # NoIp
      BY DEF Given, ClientReply
    <3> QED BY <2>1, <3>1, PathAssumption DEF Learned, FdbTable!With
  <2>3. Located'
    BY <1>6 DEF Located, Named
  <2> QED BY <1>2, <1>3, <1>6, <2>2, <2>3
<1>7. CASE fdb' # fdb
  <2>1. fdb' = [fdb EXCEPT ![a] = m]
    BY <1>7 DEF Learned, FdbTable!With
  <2>2. fdb' \in [Ips -> Stations \cup {NoMac}]
    BY <1>2, <1>3, <2>1
  <2>3. ASSUME NEW n \in Named, addr[n] # NoIp, n # m PROVE addr[n] # a
    <3>1. CASE m \in Named
      <4>1. lease'[n] = lease'[m] /\ lease'[n] # NoIp => n = m
        BY <1>3 DEF Leases, Clients, Named
      <4> QED BY <1>4, <1>5, <2>3, <3>1, <4>1
    <3>2. CASE m \notin Named
      BY <1>4, <1>5, <2>3, <3>2, PathAssumption
    <3> QED BY <3>1, <3>2
  <2>4. ASSUME NEW n \in Named, addr[n] # NoIp PROVE fdb'[addr[n]] \in {n, NoMac}
    <3>1. addr[n] \in Ips
      BY <2>4 DEF Named
    <3>2. CASE n = m
      BY <1>2, <2>1, <3>1, <3>2, <2>4 DEF Located
    <3>3. CASE n # m
      BY <1>2, <2>1, <2>3, <2>4, <3>1, <3>3 DEF Located
    <3> QED BY <3>2, <3>3
  <2>5. Located'
    BY <2>4 DEF Located, Named
  <2> QED BY <1>2, <1>3, <2>1, <2>2, <2>5
<1> QED BY <1>6, <1>7

\* bridge_input_sta keeps the invariant, whatever it makes of the frame.
LEMMA FromUplink ==
  ASSUME PathInv, NEW f \in Frame, OwnSource(f) \/ Given(f), bridge_input_sta(f),
         UNCHANGED <<addr, opt61, lan>>,
         lease' \in [Clients -> Ips \cup {NoIp}], Leases', Holders'
  PROVE  PathInv'
<1> USE DEF PathInv
<1>1. UNCHANGED <<xid_map, sta_ip>>
  BY DEF bridge_input_sta
<1>2. Transactions'
  BY <1>1 DEF Transactions
<1>3. /\ cast' = FromSta(f) /\ cast' \in {"broadcast", "request", "unicast", "stray"}
      /\ cast' # "broadcast" => f.dst # Bcast
  BY DEF bridge_input_sta, FromSta
<1>4. ASSUME fdb' = fdb PROVE fdb' \in [Ips -> Stations \cup {NoMac}] /\ Located'
  BY <1>4 DEF Located, Named, TypeOK
<1>5. ASSUME /\ fdb' \in [Ips -> Stations \cup {NoMac}] /\ Located'
             /\ up' \in SUBSET Frame /\ down' \in SUBSET Frame /\ stack' \in BOOLEAN
             /\ \A g \in up' : /\ g.src = StaMac /\ g.origin = "router" /\ g.msg = NoMsg
                               /\ g.type \in ArpTypes => g.sha = StaMac
             /\ \A g \in down' : g.origin = "uplink"
             /\ f.dst # Bcast => Places' = 1 \/ (FromSta(f) # "unicast" /\ Places' = 0)
             /\ ReplyReachesRequester' /\ DeliveredToHolder' /\ Acknowledged'
      PROVE  PathInv'
  <2>1. TypeOK'
    BY <1>1, <1>3, <1>5 DEF TypeOK
  <2>2. UplinkSeesOneStation' /\ NoEcho'
    BY <1>5 DEF UplinkSeesOneStation, NoEcho
  <2>3. OnePlace'
    BY <1>3, <1>5 DEF OnePlace
  <2>4. Requests'
    BY <1>5 DEF Requests, Request, Named
  <2> QED BY <1>2, <1>5, <2>1, <2>2, <2>3, <2>4
<1>6. CASE StaToStack(f)
  <2>1. up' = {} /\ down' = {} /\ stack' = TRUE /\ fdb' = fdb
    BY <1>6 DEF StaToStack
  <2>2. ReplyReachesRequester' /\ DeliveredToHolder' /\ Acknowledged'
    BY <2>1 DEF ReplyReachesRequester, DeliveredToHolder, Acknowledged
  <2>3. Places' = 1
    BY <2>1, FS_EmptySet DEF Places
  <2> QED BY <1>4, <1>5, <2>1, <2>2, <2>3
<1>7. CASE ~OwnSource(f) /\ StaDhcp(f)
  <2> DEFINE m == f.msg.xid
             g == [MaskDown(f) EXCEPT !.dst = m, !.msg.chaddr = m]
  <2>1. Given(f) /\ ClientReply(f)
    BY <1>7 DEF StaDhcp
  <2>2. f.msg \in Msg /\ m \in Clients
    BY <2>1 DEF ClientReply, Frame, Msg
  <2>3. xid_map[m] = m
    BY <2>1, <2>2 DEF ClientReply, Transactions
  <2>4. /\ down' = {g} /\ up' = {} /\ stack' = (f.dst = Bcast)
        /\ fdb' = IF f.msg.op = "ACK" THEN Learned(f.msg.yiaddr, m) ELSE fdb
    BY <1>7, <2>3 DEF StaDhcp
  <2>5. /\ m \in Stations
        /\ fdb' \in [Ips -> Stations \cup {NoMac}] /\ Located'
        /\ f.msg.op = "ACK" /\ m \in Named => fdb'[f.msg.yiaddr] = m
    BY <1>1, <2>1, <2>4, LearnedOfAnswer
  <2>6. /\ g \in Frame /\ g.dst = m /\ g.origin = "uplink"
        /\ g.msg \in Msg /\ g.msg.chaddr = m /\ g.msg.xid = m
        /\ g.msg.op = f.msg.op /\ g.msg.yiaddr = f.msg.yiaddr
    BY <2>1, <2>2, <2>5, ReturnedAnswer DEF Given
  <2>7. f.msg.yiaddr = IF m \in Named THEN lease'[m] ELSE StaIp
    BY <2>1 DEF Given, ClientReply
  <2> HIDE DEF g, m
  <2>8. ReplyReachesRequester'
    BY <2>4, <2>6 DEF ReplyReachesRequester
  <2>9. DeliveredToHolder'
    BY <2>4, <2>6, FramesAssumption DEF DeliveredToHolder
  <2>10. Acknowledged'
    BY <2>4, <2>5, <2>6, <2>7 DEF Acknowledged, Named
  <2>11. Cardinality(up') = 0 /\ Cardinality(down') = 1
    BY <2>4, FS_EmptySet, FS_Singleton
  <2>12. stack' \in BOOLEAN /\ (f.dst # Bcast => ~stack')
    BY <2>4
  <2>13. f.dst # Bcast => Places' = 1
    BY <2>11, <2>12 DEF Places
  <2> QED BY <1>5, <2>4, <2>5, <2>6, <2>8, <2>9, <2>10, <2>12, <2>13
<1>8. CASE ~OwnSource(f) /\ StaArpProxy(f)
  <2> DEFINE g == ProxyReply(StaMac, f)
  <2>1. f.sha # NoMac /\ f.dip \in Ips
    BY <1>8 DEF StaArpProxy, AsksClient, Given, ArpTypes, Lookup
  <2>2. /\ g \in Frame /\ g.src = StaMac /\ g.sha = StaMac
        /\ g.msg = NoMsg /\ g.origin = "router"
    BY <2>1, Answered
  <2>3. up' \in {{}, {g}} /\ down' = {} /\ stack' = FALSE /\ fdb' = fdb
    BY <1>8 DEF StaArpProxy, Replies
  <2> HIDE DEF g
  <2>4. ReplyReachesRequester' /\ DeliveredToHolder' /\ Acknowledged'
    BY <2>3 DEF ReplyReachesRequester, DeliveredToHolder, Acknowledged
  <2>5. f.dst # Bcast => Places' = 1 \/ (FromSta(f) # "unicast" /\ Places' = 0)
    <3>1. Cardinality(up') \in {0, 1} /\ Cardinality(down') = 0
      BY <2>3, FS_EmptySet, FS_Singleton
    <3>2. f.dst # Bcast => FromSta(f) = "request"
      BY <1>8 DEF StaArpProxy, FromSta
    <3> QED BY <2>3, <3>1, <3>2 DEF Places
  <2>6. /\ up' \in SUBSET Frame /\ down' \in SUBSET Frame
        /\ stack' \in BOOLEAN /\ ~stack'
        /\ \A h \in up' : /\ h.src = StaMac /\ h.origin = "router" /\ h.msg = NoMsg
                          /\ h.type \in ArpTypes => h.sha = StaMac
        /\ \A h \in down' : h.origin = "uplink"
    BY <2>2, <2>3
  <2>7. fdb' \in [Ips -> Stations \cup {NoMac}] /\ Located'
    BY <1>4, <2>3
  <2> QED BY <1>5, <2>4, <2>5, <2>6, <2>7
<1>9. CASE ~OwnSource(f) /\ StaForward(f)
  <2>1. Given(f)
    BY <1>9
  <2>2. /\ up' = {} /\ stack' = (f.dst = Bcast \/ (f.dst = StaMac /\ down' = {}))
        /\ fdb' = fdb /\ ~ClientReply(f)
    BY <1>9 DEF StaForward
  <2>3. ASSUME /\ down' \in SUBSET Frame
               /\ \A g \in down' : g.origin = "uplink" /\ g.msg = f.msg
               /\ f.dst # Bcast /\ down' # {} => Cardinality(down') = 1
               /\ DeliveredToHolder'
        PROVE  PathInv'
    <3>1. ReplyReachesRequester' /\ Acknowledged'
      <4>1. f.msg # NoMsg => xid_map'[f.msg.xid] = NoMac
        BY <1>1, <2>1, <2>2 DEF ClientReply, Given
      <4>2. f.msg # NoMsg => f.msg.chaddr \notin Stations
        BY <2>1, PathAssumption DEF Given
      <4> QED BY <2>3, <4>1, <4>2 DEF ReplyReachesRequester, Acknowledged
    <3>2. Cardinality(up') = 0 /\ (down' = {} => Cardinality(down') = 0)
      BY <2>2, FS_EmptySet
    <3>3. stack' \in BOOLEAN /\ (f.dst # Bcast => (stack' <=> f.dst = StaMac /\ down' = {}))
      BY <2>2
    <3>4. f.dst # Bcast => Places' = 1 \/ (FromSta(f) # "unicast" /\ Places' = 0)
      <4>1. f.dst \notin {Bcast, StaMac} => FromSta(f) # "unicast"
        BY DEF FromSta
      <4> QED BY <2>3, <3>2, <3>3, <4>1 DEF Places
    <3> QED BY <1>4, <1>5, <2>2, <2>3, <3>1, <3>3, <3>4
  <2>4. CASE down' = {}
    BY <2>3, <2>4 DEF DeliveredToHolder
  <2>5. CASE f.dst = Bcast /\ down' = {MaskDown(f)}
    <3> DEFINE g == MaskDown(f)
    <3>1. g \in Frame /\ g.dst = Bcast /\ g.msg = f.msg /\ g.origin = "uplink"
      BY <2>1, <2>5, MaskedDown DEF Given
    <3> HIDE DEF g
    <3> QED BY <2>3, <2>5, <3>1 DEF DeliveredToHolder, g
  <2>6. CASE /\ f.dst # Bcast /\ Client(f) # NoMac
             /\ down' = {[MaskDown(f) EXCEPT !.dst = Client(f)]}
    <3> DEFINE m == Client(f)
               g == [MaskDown(f) EXCEPT !.dst = m]
    <3>1. m = fdb[f.dip] /\ f.dip \in Ips /\ m \in Stations
      BY <2>6 DEF Client, Lookup, TypeOK
    <3>2. g \in Frame /\ g.dst = m /\ g.dip = f.dip /\ g.msg = f.msg /\ g.origin = "uplink"
      BY <2>1, <3>1, Redirected DEF Given
    <3>3. down' = {g} /\ m # NoMac
      BY <2>6
    <3> HIDE DEF m, g
    <3>4. \A n \in Named : addr[n] # NoIp /\ addr[n] = f.dip => m = n
      BY <3>1, <3>3 DEF Located
    <3>5. DeliveredToHolder'
      BY <3>2, <3>3, <3>4 DEF DeliveredToHolder, Named
    <3>6. Cardinality(down') = 1
      BY <3>3, FS_Singleton
    <3> QED BY <2>3, <3>2, <3>3, <3>5, <3>6
  <2> QED BY <1>9, <2>4, <2>5, <2>6 DEF StaForward
<1> QED BY <1>6, <1>7, <1>8, <1>9 DEF bridge_input_sta

-----------------------------------------------------------------------------
(* The steps of the stations.                                               *)

LEMMA SendsKeep ==
  ASSUME PathInv, NEW m \in Stations, StationSends(m) \/ StationAsks(m)
  PROVE  PathInv'
<1> USE DEF PathInv, TypeOK
<1>1. m \in Clients /\ addr[m] \in Ips \cup {NoIp} /\ m # NoMac
  BY PathAssumption DEF Clients
<1>2. CASE StationSends(m)
  <2>1. PICK k \in StationKinds :
          bridge_input_ap([type |-> k.type, src |-> m, dst |-> k.dst, sip |-> addr[m], dip |-> k.dip,
                           sha |-> IF k.type \in ArpTypes THEN m ELSE NoMac, msg |-> NoMsg,
                           origin |-> "station"])
    BY <1>2 DEF StationSends
  <2> DEFINE f == [type |-> k.type, src |-> m, dst |-> k.dst, sip |-> addr[m], dip |-> k.dip,
                   sha |-> IF k.type \in ArpTypes THEN m ELSE NoMac, msg |-> NoMsg,
                   origin |-> "station"]
  <2>2. /\ k.type \in ArpTypes \cup {"ip", "other"} /\ k.dst \in Clients \cup {ApMac, Host, Bcast}
        /\ k.dip \in Ips \cup {NoIp, BcastIp}
    BY FramesAssumption
  <2>3. f \in Frame
    BY <1>1, <2>2 DEF Frame
  <2>4. Sent(m, f)
    BY <2>3 DEF Sent
  <2> HIDE DEF f
  <2> QED BY <2>1, <2>4, FromStation DEF f
<1>3. CASE StationAsks(m)
  <2>1. PICK op \in {"DISCOVER", "REQUEST"} :
          bridge_input_ap([type |-> "ip", src |-> m, dst |-> Bcast, sha |-> NoMac, sip |-> NoIp,
                     dip |-> BcastIp, origin |-> "station",
                     msg |-> [op |-> op, xid |-> m, chaddr |-> m, yiaddr |-> NoIp,
                              id |-> IF opt61[m] = "own" THEN m ELSE NoMac]])
    BY <1>3 DEF StationAsks
  <2> DEFINE q == [op |-> op, xid |-> m, chaddr |-> m, yiaddr |-> NoIp,
                   id |-> IF opt61[m] = "own" THEN m ELSE NoMac]
             f == [type |-> "ip", src |-> m, dst |-> Bcast, sha |-> NoMac, sip |-> NoIp,
                   dip |-> BcastIp, origin |-> "station", msg |-> q]
  <2>2. q \in Msg
    BY <1>1 DEF Msg
  <2>3. q.xid = m /\ q.chaddr = m /\ q.id = IF opt61[m] = "own" THEN m ELSE NoMac
    OBVIOUS
  <2> HIDE DEF q
  <2>4. f \in Frame
    BY <1>1, <2>2 DEF Frame
  <2>5. Sent(m, f)
    BY <2>3, <2>4 DEF Sent, ArpTypes
  <2> HIDE DEF f
  <2>6. bridge_input_ap(f)
    BY <2>1 DEF f, q
  <2> QED BY <2>5, <2>6, FromStation
<1> QED BY <1>2, <1>3

\* A step in which no frame is handled cannot break what is said of frames.
LEMMA QuietKeeps ==
  ASSUME PathInv, Quiet, opt61' = opt61,
         TypeOK', Transactions', Requests', Leases', Holders', Located'
  PROVE  PathInv'
<1>1. up' = {} /\ down' = {} /\ cast' = "none"
  BY DEF Quiet
<1> QED BY <1>1 DEF PathInv, UplinkSeesOneStation, NoEcho, ReplyReachesRequester,
                    DeliveredToHolder, OnePlace, Acknowledged

LEMMA ReceivesKeeps ==
  ASSUME PathInv, NEW m \in Stations, StationReceives(m)
  PROVE  PathInv'
<1> USE DEF PathInv
<1>1. UNCHANGED <<tables, opt61, lan, lease>> /\ Quiet
  BY DEF StationReceives
<1>2. PICK f \in down : /\ f.msg # NoMsg
                        /\ f.msg.op = "ACK" /\ f.msg.xid = m /\ f.msg.chaddr = m
                        /\ addr' = [addr EXCEPT ![m] = f.msg.yiaddr]
  BY DEF StationReceives
<1> DEFINE a == f.msg.yiaddr
<1>3. a \in Ips \cup {NoIp}
  BY <1>2 DEF TypeOK, Frame, Msg
<1>4. IF m \in Named THEN a = lease[m] /\ fdb[a] = m ELSE a = StaIp
  BY <1>2 DEF Acknowledged
<1>5. addr' = [addr EXCEPT ![m] = a]
  BY <1>2
<1> HIDE DEF a
<1>6. TypeOK'
  BY <1>1, <1>3, <1>5 DEF TypeOK, Quiet, tables
<1>7. Transactions' /\ Requests' /\ Leases'
  BY <1>1 DEF Transactions, Requests, Request, Leases, Named, Quiet, tables
<1>8. Holders'
  BY <1>1, <1>4, <1>5 DEF Holders, Named, TypeOK
<1>9. Located'
  BY <1>1, <1>4, <1>5 DEF Located, Named, TypeOK, tables
<1> QED BY <1>1, <1>6, <1>7, <1>8, <1>9, QuietKeeps

LEMMA LeavesKeeps ==
  ASSUME PathInv, NEW m \in Stations, StationLeaves(m)
  PROVE  PathInv'
<1> USE DEF PathInv
<1>1. UNCHANGED <<tables, opt61, lan, lease>> /\ Quiet
  BY DEF StationLeaves
<1>2. addr' = [addr EXCEPT ![m] = NoIp]
  BY DEF StationLeaves
<1>3. TypeOK'
  BY <1>1, <1>2 DEF TypeOK, Quiet, tables
<1>4. Transactions' /\ Requests' /\ Leases'
  BY <1>1 DEF Transactions, Requests, Request, Leases, Named, Quiet, tables
<1>5. Holders' /\ Located'
  BY <1>1, <1>2 DEF Holders, Located, Named, TypeOK, tables
<1> QED BY <1>1, <1>3, <1>4, <1>5, QuietKeeps

-----------------------------------------------------------------------------
(* The steps of the uplink.                                                 *)

LEMMA RepeatKeeps ==
  ASSUME PathInv, Repeat
  PROVE  PathInv'
<1> USE DEF PathInv
<1>1. PICK f \in up : bridge_input_sta(f)
  BY DEF Repeat
<1>2. f \in Frame /\ OwnSource(f)
  BY DEF TypeOK, UplinkSeesOneStation, OwnSource
<1>3. UNCHANGED <<addr, opt61, lan, lease>>
  BY DEF Repeat, hosts
<1>4. lease' \in [Clients -> Ips \cup {NoIp}] /\ Leases' /\ Holders'
  BY <1>3 DEF TypeOK, Leases, Holders, Named
<1> QED BY <1>1, <1>2, <1>3, <1>4, FromUplink

LEMMA HostKeeps ==
  ASSUME PathInv, HostSends
  PROVE  PathInv'
<1> USE DEF PathInv
<1>1. PICK k \in HostKinds :
        bridge_input_sta([type |-> k.type, src |-> Host, dst |-> k.dst, sip |-> HostIp,
                          dip |-> k.dip, sha |-> IF k.type \in ArpTypes THEN Host ELSE NoMac,
                          msg |-> NoMsg, origin |-> "uplink"])
  BY DEF HostSends
<1> DEFINE f == [type |-> k.type, src |-> Host, dst |-> k.dst, sip |-> HostIp,
                 dip |-> k.dip, sha |-> IF k.type \in ArpTypes THEN Host ELSE NoMac,
                 msg |-> NoMsg, origin |-> "uplink"]
<1>2. /\ k.type \in ArpTypes \cup {"ip", "other"} /\ k.dst \in Clients \cup {ApMac, Host, Bcast}
      /\ k.dip \in Ips \cup {NoIp, BcastIp}
  BY FramesAssumption
<1>3. f \in Frame
  BY <1>2 DEF Frame, Ips
<1>4. Given(f)
  BY <1>3, PathAssumption DEF Given
<1>5. UNCHANGED <<addr, opt61, lan, lease>>
  BY DEF HostSends, hosts
<1>6. lease' \in [Clients -> Ips \cup {NoIp}] /\ Leases' /\ Holders'
  BY <1>5 DEF TypeOK, Leases, Holders, Named
<1>7. bridge_input_sta(f)
  BY <1>1
<1> HIDE DEF f
<1> QED BY <1>3, <1>4, <1>5, <1>6, <1>7, FromUplink

LEMMA ArrivesKeeps ==
  ASSUME PathInv, DhcpArrives
  PROVE  PathInv'
<1> USE DEF PathInv
<1>1. UNCHANGED <<tables, addr, opt61, lease>> /\ Quiet
  BY DEF DhcpArrives
<1>2. \A q \in lan' : q \in lan \/ \E f \in up : f.msg # NoMsg /\ q = f.msg
  BY DEF DhcpArrives
<1>3. \A f \in up : f.msg # NoMsg => f.msg \in Msg
  BY DEF TypeOK, Frame
<1>4. TypeOK'
  BY <1>1, <1>2, <1>3 DEF TypeOK, Quiet, tables
<1>5. Requests'
  BY <1>1, <1>2 DEF Requests, Request, Named, Quiet
<1>6. Transactions' /\ Leases' /\ Holders' /\ Located'
  BY <1>1 DEF Transactions, Leases, Holders, Located, Named, tables
<1> QED BY <1>1, <1>4, <1>5, <1>6, QuietKeeps

\* The server answers with the address of the requester's identity.
LEMMA AnswersKeep ==
  ASSUME PathInv, DhcpAnswers
  PROVE  PathInv'
<1> USE DEF PathInv
<1>0. PICK q \in lan, d \in {Bcast, StaMac} :
        \E a \in IF lease[Identity(q)] # NoIp THEN {lease[Identity(q)]} ELSE Pool \ Range(lease) :
          /\ bridge_input_sta(
               [type |-> "ip", src |-> Host, dst |-> d, sha |-> NoMac, sip |-> HostIp,
                dip |-> IF d = Bcast THEN BcastIp ELSE a, origin |-> "uplink",
                msg |-> [op |-> IF q.op = "DISCOVER" THEN "OFFER" ELSE "ACK", xid |-> q.xid,
                         chaddr |-> q.chaddr, id |-> q.id, yiaddr |-> a]])
          /\ lease' = [lease EXCEPT ![Identity(q)] = a]
          /\ UNCHANGED <<addr, opt61, lan>>
  BY DEF DhcpAnswers
<1>1. PICK a \in IF lease[Identity(q)] # NoIp THEN {lease[Identity(q)]} ELSE Pool \ Range(lease) :
         /\ bridge_input_sta(
              [type |-> "ip", src |-> Host, dst |-> d, sha |-> NoMac, sip |-> HostIp,
               dip |-> IF d = Bcast THEN BcastIp ELSE a, origin |-> "uplink",
               msg |-> [op |-> IF q.op = "DISCOVER" THEN "OFFER" ELSE "ACK", xid |-> q.xid,
                        chaddr |-> q.chaddr, id |-> q.id, yiaddr |-> a]])
         /\ lease' = [lease EXCEPT ![Identity(q)] = a]
         /\ UNCHANGED <<addr, opt61, lan>>
  BY <1>0
<1> DEFINE i == Identity(q)
           r == [op |-> IF q.op = "DISCOVER" THEN "OFFER" ELSE "ACK", xid |-> q.xid,
                 chaddr |-> q.chaddr, id |-> q.id, yiaddr |-> a]
           f == [type |-> "ip", src |-> Host, dst |-> d, sha |-> NoMac, sip |-> HostIp,
                 dip |-> IF d = Bcast THEN BcastIp ELSE a, origin |-> "uplink", msg |-> r]
<1>2. /\ q.xid \in Clients /\ q.chaddr = StaMac /\ q.id \in Stations \cup {NoMac}
      /\ q.id = IF q.xid \in Named THEN q.xid ELSE NoMac
  BY DEF TypeOK, Msg, Requests, Request
<1>3. i = IF q.xid \in Named THEN q.xid ELSE StaMac
  BY <1>2, PathAssumption DEF Identity, Named
<1>4. i \in Clients
  BY <1>2, <1>3 DEF Clients
<1>5. lease \in [Clients -> Ips \cup {NoIp}]
  BY DEF TypeOK
<1>6. a \in Ips /\ a # NoIp
  BY <1>4, <1>5, PathAssumption DEF Ips
<1>7. a = lease[i] \/ (lease[i] = NoIp /\ a \in Pool /\ \A j \in Clients : lease[j] # a)
  BY <1>5 DEF Range
<1>8. i \notin Named => i = StaMac /\ a = StaIp
  BY <1>3, <1>7, PathAssumption DEF Leases
<1> HIDE DEF i
<1>9. lease' = [lease EXCEPT ![i] = a] /\ lease'[i] = a
  BY <1>1, <1>4, <1>5 DEF i
<1>10. lease' \in [Clients -> Ips \cup {NoIp}]
  BY <1>5, <1>6, <1>9
<1>11. Leases'
  <2>1. StaMac \in Clients /\ StaMac \notin Named /\ Named \subseteq Clients /\ Named \subseteq Stations
    BY PathAssumption DEF Clients, Named
  <2>2. lease'[StaMac] = StaIp
    BY <1>4, <1>5, <1>7, <1>8, <1>9, <2>1 DEF Leases
  <2>3. \A m \in Stations : lease'[m] \in (IF m \in Named' THEN Pool ELSE {}) \cup {NoIp}
    <3> SUFFICES ASSUME NEW m \in Stations
                 PROVE  lease'[m] \in (IF m \in Named THEN Pool ELSE {}) \cup {NoIp}
      BY <1>1 DEF Named
    <3>1. m # StaMac /\ m \in Clients
      BY PathAssumption DEF Clients
    <3> QED BY <1>4, <1>5, <1>7, <1>8, <1>9, <3>1 DEF Leases
  <2>4. \A j, k \in Clients : lease'[j] = lease'[k] /\ lease'[j] # NoIp => j = k
    BY <1>4, <1>5, <1>7, <1>9 DEF Leases
  <2> QED BY <2>2, <2>3, <2>4 DEF Leases
<1>12. Holders'
  <2> SUFFICES ASSUME NEW m \in Stations, addr[m] # NoIp
               PROVE  addr[m] = IF m \in Named THEN lease'[m] ELSE StaIp
    BY <1>1 DEF Holders, Named
  <2>1. m \in Clients
    BY DEF Clients
  <2> QED BY <1>4, <1>5, <1>7, <1>9, <2>1 DEF Holders
<1>13. r \in Msg
  BY <1>2, <1>6 DEF Msg, Clients
<1>14. /\ r.op \in {"OFFER", "ACK"} /\ r.chaddr = StaMac /\ r.yiaddr = a /\ r.xid = q.xid
  BY <1>2
<1> HIDE DEF r
<1>15. f \in Frame
  BY <1>6, <1>13 DEF Frame, Clients, Ips
<1>16. Given(f)
  BY <1>3, <1>6, <1>8, <1>9, <1>14, <1>15, PathAssumption DEF Given, ArpTypes, Named
<1>17. bridge_input_sta(f) /\ UNCHANGED <<addr, opt61, lan>>
  BY <1>1 DEF r
<1> HIDE DEF f
<1> QED BY <1>10, <1>11, <1>12, <1>15, <1>16, <1>17, FromUplink

LEMMA ExpiresKeeps ==
  ASSUME PathInv, LeaseExpires
  PROVE  PathInv'
<1> USE DEF PathInv
<1>1. UNCHANGED <<tables, addr, opt61, lan>> /\ Quiet
  BY DEF LeaseExpires
<1>2. PICK m \in Stations : addr[m] = NoIp /\ lease' = [lease EXCEPT ![m] = NoIp]
  BY DEF LeaseExpires
<1>3. m \in Clients /\ m # StaMac /\ StaMac \in Clients /\ Stations \subseteq Clients
  BY PathAssumption DEF Clients
<1>4. TypeOK'
  BY <1>1, <1>2 DEF TypeOK, Quiet, tables
<1>5. Transactions' /\ Requests' /\ Located'
  BY <1>1 DEF Transactions, Requests, Request, Located, Named, Quiet, tables
<1>6. Leases'
  BY <1>1, <1>2, <1>3 DEF Leases, Named, TypeOK
<1>7. Holders'
  BY <1>1, <1>2, <1>3 DEF Holders, Named, TypeOK
<1> QED BY <1>1, <1>4, <1>5, <1>6, <1>7, QuietKeeps

-----------------------------------------------------------------------------
(* The router's own packets, and what it forgets.                           *)

LEMMA PacketFrame ==
  ASSUME PathInv, NEW src \in {StaMac, ApMac}, NEW dst \in Clients \cup {Host, Bcast},
         NEW a \in Ips \cup {BcastIp}
  PROVE  LET g == Packet(src, dst, a)
         IN /\ g \in Frame /\ g.src = src /\ g.dst = dst /\ g.dip = a
            /\ g.type = "ip" /\ g.msg = NoMsg /\ g.origin = "router"
BY DEF PathInv, TypeOK, Packet, Frame, Clients, Ips

LEMMA PacketsKeep ==
  ASSUME PathInv, (\E a \in Ips : bridge_output(a)) \/ OutputMulticast
  PROVE  PathInv'
<1> USE DEF PathInv
<1>1. UNCHANGED <<tables, hosts>> /\ stack' = FALSE /\ cast' = "none"
  BY DEF bridge_output, OutputMulticast
<1>2. /\ up' \in SUBSET Frame /\ down' \in SUBSET Frame
      /\ \A g \in up' : g.src = StaMac /\ g.type = "ip" /\ g.msg = NoMsg /\ g.origin = "router"
      /\ \A g \in down' : /\ g.msg = NoMsg /\ g.origin = "router"
                          /\ g.dst # Bcast => g.dip \in Ips /\ g.dst = fdb[g.dip] /\ g.dst # NoMac
  <2>1. ASSUME NEW a \in Ips, Lookup(a) # NoMac, down' = {Packet(ApMac, Lookup(a), a)}, up' = {}
        PROVE  <1>2!:
    <3>1. Lookup(a) = fdb[a] /\ Lookup(a) \in Clients
      BY <2>1 DEF Lookup, TypeOK, Clients
    <3> DEFINE g == Packet(ApMac, Lookup(a), a)
    <3>2. /\ g \in Frame /\ g.dst = fdb[a] /\ g.dip = a /\ g.msg = NoMsg /\ g.origin = "router"
      BY <3>1, PacketFrame
    <3> HIDE DEF g
    <3>3. down' = {g} /\ fdb[a] # NoMac
      BY <2>1, <3>1 DEF g
    <3> QED BY <2>1, <3>2, <3>3
  <2>2. ASSUME NEW a \in Ips, down' = {}, up' = {Packet(StaMac, Host, a)}
        PROVE  <1>2!:
    <3> DEFINE g == Packet(StaMac, Host, a)
    <3>1. /\ g \in Frame /\ g.src = StaMac /\ g.type = "ip" /\ g.msg = NoMsg
          /\ g.origin = "router"
      BY PacketFrame
    <3> HIDE DEF g
    <3>2. up' = {g}
      BY <2>2 DEF g
    <3> QED BY <2>2, <3>1, <3>2
  <2>3. CASE OutputMulticast
    <3> DEFINE g == Packet(ApMac, Bcast, BcastIp)
               h == Packet(StaMac, Bcast, BcastIp)
    <3>1. /\ g \in Frame /\ g.dst = Bcast /\ g.msg = NoMsg /\ g.origin = "router"
          /\ h \in Frame /\ h.src = StaMac /\ h.type = "ip" /\ h.msg = NoMsg
          /\ h.origin = "router"
      BY PacketFrame
    <3> HIDE DEF g, h
    <3>2. down' = {g} /\ up' = {h}
      BY <2>3 DEF OutputMulticast, g, h
    <3> QED BY <3>1, <3>2
  <2> QED BY <2>1, <2>2, <2>3 DEF bridge_output
<1>3. TypeOK'
  BY <1>1, <1>2 DEF TypeOK, tables, hosts
<1>4. UplinkSeesOneStation' /\ NoEcho' /\ ReplyReachesRequester' /\ Acknowledged'
  BY <1>2 DEF UplinkSeesOneStation, NoEcho, ReplyReachesRequester, Acknowledged, ArpTypes
<1>5. DeliveredToHolder'
  <2>1. addr' = addr /\ opt61' = opt61
    BY <1>1 DEF hosts
  <2>2. \A g \in down' : g.dst # Bcast =>
          \A m \in Named : addr[m] # NoIp /\ addr[m] = g.dip => g.dst = m
    BY <1>2 DEF Located
  <2> QED BY <2>1, <2>2 DEF DeliveredToHolder, Named
<1>6. OnePlace'
  BY <1>1 DEF OnePlace
<1>7. Transactions' /\ Requests' /\ Leases' /\ Holders' /\ Located'
  BY <1>1, <1>2 DEF Transactions, Requests, Request, Leases, Holders, Located, Named, tables, hosts
<1> QED BY <1>3, <1>4, <1>5, <1>6, <1>7

\* A table that forgets tells nobody wrong, and an address of the router that
\* comes or goes changes nothing that was learned.
LEMMA ForgetsKeep ==
  ASSUME PathInv, Forget \/ OwnLease
  PROVE  PathInv'
<1> USE DEF PathInv
<1>1. UNCHANGED hosts /\ Quiet
  BY DEF Forget, OwnLease
<1>2. UNCHANGED <<addr, opt61, lan, lease>>
  BY <1>1 DEF hosts
<1>3. /\ fdb' \in [Ips -> Stations \cup {NoMac}]
      /\ \A a \in Ips : fdb'[a] \in {fdb[a], NoMac}
  BY DEF Forget, OwnLease, FdbTable!Forget, FdbTable!Without, TypeOK
<1>4. /\ xid_map' \in [Clients -> Clients \cup {NoMac}]
      /\ \A x \in Clients : xid_map'[x] \in {xid_map[x], NoMac}
  BY DEF Forget, OwnLease, XidTable!Forget, XidTable!Without, TypeOK
<1>5. TypeOK'
  BY <1>1, <1>2, <1>3, <1>4 DEF TypeOK, Quiet, Forget, OwnLease
<1>6. Transactions'
  BY <1>4 DEF Transactions
<1>7. Located'
  <2>1. \A m \in Named : addr[m] \in Ips \cup {NoIp}
    BY DEF Named, TypeOK
  <2> QED BY <1>2, <1>3, <2>1 DEF Located, Named
<1>8. Requests' /\ Leases' /\ Holders'
  BY <1>1, <1>2 DEF Requests, Request, Leases, Holders, Named, Quiet
<1> QED BY <1>1, <1>2, <1>5, <1>6, <1>7, <1>8, QuietKeeps

-----------------------------------------------------------------------------
(* The theorems.                                                            *)

LEMMA PathInitial == Init => PathInv
<1> SUFFICES ASSUME Init PROVE PathInv
  OBVIOUS
<1>1. /\ up = {} /\ down = {} /\ stack = FALSE /\ cast = "none"
      /\ sta_ip = StaIp /\ opt61 \in [Stations -> {"own", "room", "full"}]
      /\ \A m \in Stations : addr[m] = NoIp
  BY DEF Init
<1>2. /\ fdb \in [Ips -> Stations \cup {NoMac}] /\ xid_map \in [Clients -> Clients \cup {NoMac}]
      /\ \A x \in Clients : xid_map[x] = NoMac
  BY DEF Init, FdbTable!Empty, XidTable!Empty
<1>3. StaMac \in Clients /\ StaMac \notin Stations /\ Stations \subseteq Clients
  BY PathAssumption DEF Clients
<1>4. /\ lease \in [Clients -> Ips \cup {NoIp}] /\ lease[StaMac] = StaIp
      /\ \A i \in Clients : i # StaMac => lease[i] = NoIp
  BY <1>3 DEF Init, Ips
<1>5. \A q \in lan : q \in Msg /\ Request(q)
  <2> DEFINE q == [op |-> "REQUEST", xid |-> StaMac, chaddr |-> StaMac, id |-> NoMac,
                   yiaddr |-> NoIp]
  <2>1. q \in Msg
    BY <1>3 DEF Msg
  <2>2. q.xid = StaMac /\ q.chaddr = StaMac /\ q.id = NoMac
    OBVIOUS
  <2>3. lan = {q}
    BY DEF Init
  <2> HIDE DEF q
  <2> QED BY <1>3, <2>1, <2>2, <2>3 DEF Request, Named
<1>6. TypeOK
  BY <1>1, <1>2, <1>4, <1>5 DEF TypeOK, Init
<1>7. UplinkSeesOneStation /\ NoEcho /\ ReplyReachesRequester /\ DeliveredToHolder /\ OnePlace
  BY <1>1 DEF UplinkSeesOneStation, NoEcho, ReplyReachesRequester, DeliveredToHolder, OnePlace
<1>8. Transactions /\ Requests /\ Holders /\ Acknowledged /\ Located
  BY <1>1, <1>2, <1>5 DEF Transactions, Requests, Holders, Acknowledged, Located, Named
<1>9. Leases
  BY <1>3, <1>4 DEF Leases
<1> QED BY <1>6, <1>7, <1>8, <1>9 DEF PathInv

LEMMA PathStep == PathInv /\ [Next]_vars => PathInv'
<1> SUFFICES ASSUME PathInv, [Next]_vars PROVE PathInv'
  OBVIOUS
<1>1. CASE \E m \in Stations : Station(m)
  BY <1>1, SendsKeep, ReceivesKeeps, LeavesKeeps DEF Station
<1>2. CASE Uplink
  BY <1>2, RepeatKeeps, HostKeeps, ArrivesKeeps, AnswersKeep, ExpiresKeeps DEF Uplink
<1>3. CASE (\E a \in Ips : bridge_output(a)) \/ OutputMulticast
  BY <1>3, PacketsKeep
<1>4. CASE Forget \/ OwnLease
  BY <1>4, ForgetsKeep
<1>5. CASE UNCHANGED vars
  <2>1. UNCHANGED <<fdb, xid_map, sta_ip, up, down, stack, cast, addr, opt61, lan, lease>>
    BY <1>5 DEF vars, tables, sent, hosts
  <2>2. TypeOK'
    BY <2>1 DEF PathInv, TypeOK
  <2>3. UplinkSeesOneStation' /\ NoEcho' /\ ReplyReachesRequester' /\ OnePlace'
    BY <2>1 DEF PathInv, UplinkSeesOneStation, NoEcho, ReplyReachesRequester, OnePlace, Places
  <2>4. DeliveredToHolder' /\ Acknowledged' /\ Located'
    BY <2>1 DEF PathInv, DeliveredToHolder, Acknowledged, Located, Named
  <2>5. Transactions' /\ Requests' /\ Leases' /\ Holders'
    BY <2>1 DEF PathInv, Transactions, Requests, Request, Leases, Holders, Named
  <2> QED BY <2>2, <2>3, <2>4, <2>5 DEF PathInv
<1> QED BY <1>1, <1>2, <1>3, <1>4, <1>5 DEF Next

LEMMA PathAlways == Spec => []PathInv
BY PathInitial, PathStep, PTL DEF Spec

\* Every variable has its type: only clients of the access point are learned,
\* and the router never has an address of theirs.
THEOREM TypeCorrect == Spec => []TypeOK
BY PathAlways, PTL DEF PathInv

\* Whatever the stations send and the tables forget, the uplink sees the
\* router's MAC only.
THEOREM OneStation == Spec => []UplinkSeesOneStation
BY PathAlways, PTL DEF PathInv

\* What the uplink's access point repeats is recognised, and nothing goes round.
THEOREM NothingGoesRound == Spec => []NoEcho
BY PathAlways, PTL DEF PathInv

\* A DHCP answer goes to the client that asked, however many ask at once.
THEOREM RepliesArrive == Spec => []ReplyReachesRequester
BY PathAlways, PTL DEF PathInv

\* The clients have different addresses, and none the router's, if all of them
\* can be named to the server.
THEOREM AddressesDiffer == Spec => []AddressesDistinct
<1>1. PathInv => AddressesDistinct
  <2> SUFFICES ASSUME PathInv PROVE AddressesDistinct
    OBVIOUS
  <2>1. \A m \in Named : /\ m \in Clients
                         /\ addr[m] # NoIp => addr[m] = lease[m]
                         /\ addr[m] = NoIp \/ addr[m] \in Pool
    BY DEF PathInv, Holders, Leases, Named, Clients
  <2>2. \A m, n \in Named : addr[m] = addr[n] /\ addr[m] # NoIp => m = n
    BY <2>1 DEF PathInv, Leases
  <2>3. \A m \in Named : addr[m] # StaIp
    BY <2>1, PathAssumption
  <2> QED BY <2>2, <2>3 DEF AddressesDistinct
<1> QED BY <1>1, PathAlways, PTL

\* What is sent to a station for an address reaches the one that has it now.
THEOREM HolderReached == Spec => []DeliveredToHolder
BY PathAlways, PTL DEF PathInv

\* Whatever a frame is and wherever it comes from, unless it is a broadcast it goes
\* to one place; or to none if it is a stray one or a request with no buffer for the
\* bridge's answer.
THEOREM OnePlaceOnly == Spec => []OnePlace
BY PathAlways, PTL DEF PathInv

=============================================================================
