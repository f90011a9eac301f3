----------------------------- MODULE TaskProofs -----------------------------
(***************************************************************************)
(* Proofs about the tasks that serve and the tasks that update:            *)
(* CaptivePortal, for any datagrams that the server may receive, and Ota,  *)
(* for any number of updates and firmware of any size.                     *)
(***************************************************************************)
EXTENDS CaptivePortal, Ota, TLAPS

(***************************************************************************)
(* The captive DNS server and the DHCP offer.                              *)
(***************************************************************************)

Started == boot \in {"start", "create", "done"}

\* The socket: at which places of the DNS task it is open, and published.
Sockets ==
  /\ boot # "done" => dns = "none"
  /\ dns \in {"none", "socket", "exit"} => ~open /\ ~s_dns_sock
  /\ dns = "publish" => open /\ ~s_dns_sock
  /\ dns \in {"bind", "loop", "recv", "parse", "send", "closing"} => open /\ s_dns_sock
  /\ dns = "closed" => ~open /\ s_dns_sock

\* The uplink comes up in a handler that only the started driver calls.
UplinkStarted ==
  /\ ev # "idle" \/ was_up => Started
  /\ ev = "dns" => was_up

\* Before the first connection is reported, the server runs from its creation on.
Quiet == ~was_up /\ ev = "idle" /\ ~failed
Serving ==
  Quiet =>
    /\ ~shut
    /\ boot \in {"dhcps", "offer", "wifi", "start"} => ~s_dns_running /\ ~task
    /\ boot \in {"create", "done"} => s_dns_running
    /\ boot = "done" => dns \in {"socket", "publish", "bind", "loop", "recv", "parse", "send"}

\* A connection withdraws the offer of the router as a DNS server.
OfferWithdrawn == was_up /\ ev # "dns" /\ ~conf.bridge /\ ~conf.static => offer # "ap"

PortalInv == TypeOK /\ Sockets /\ UplinkStarted /\ Serving /\ OfferWithdrawn

-----------------------------------------------------------------------------
LEMMA Booleans == TRUE \in BOOLEAN /\ FALSE \in BOOLEAN
BY Zenon

\* The types of the flags, one by one.
Flags ==
  /\ ap_connect \in BOOLEAN /\ dhcps \in BOOLEAN /\ s_dns_running \in BOOLEAN /\ task \in BOOLEAN
  /\ s_dns_sock \in BOOLEAN /\ open \in BOOLEAN /\ shut \in BOOLEAN /\ failed \in BOOLEAN
  /\ was_up \in BOOLEAN

LEMMA BoolTypes ==
  {ap_connect, dhcps, s_dns_running, task, s_dns_sock, open, shut, failed, was_up} \subseteq BOOLEAN
    <=> Flags
BY Zenon DEF Flags

LEMMA PortalInitial == Init => PortalInv
<1> SUFFICES ASSUME Init PROVE PortalInv
  OBVIOUS
<1>1. TypeOK
  <2>1. Flags
    BY Booleans, Zenon DEF Init, Flags
  <2> QED BY <2>1, BoolTypes, Zenon DEF Init, TypeOK, DnsPCs
<1>2. Sockets /\ UplinkStarted /\ Serving /\ OfferWithdrawn
  BY DEF Init, Sockets, UplinkStarted, Started, Serving, Quiet, OfferWithdrawn
<1> QED BY <1>1, <1>2 DEF PortalInv

LEMMA MainTypes == TypeOK /\ Main => TypeOK'
<1> SUFFICES ASSUME TypeOK, Main PROVE TypeOK'
  OBVIOUS
<1>1. Flags
  BY BoolTypes DEF TypeOK, Flags
<1>2. conf.bridge \in BOOLEAN
  BY DEF TypeOK
<1>3. Flags'
  BY <1>1, <1>2, Booleans, Zenon DEF Flags, Main, InitDhcps, InitOffer, StartWifi, StartDns, CreateDns,
     SetDnsServer, wifi, server
<1>4. {ap_connect, dhcps, s_dns_running, task, s_dns_sock, open, shut, failed, was_up}' \subseteq BOOLEAN
  BY <1>3, Zenon DEF Flags
<1> QED BY <1>4 DEF TypeOK, Main, InitDhcps, InitOffer, StartWifi, StartDns, CreateDns, SetDnsServer,
           wifi, server, DnsPCs
LEMMA EventTypes == TypeOK /\ EventTask => TypeOK'
<1> SUFFICES ASSUME TypeOK, EventTask PROVE TypeOK'
  OBVIOUS
<1>1. Flags
  BY BoolTypes DEF TypeOK
<1>2. CASE ShutdownDns
  <2>1. shut' \in BOOLEAN
    BY <1>2, Zenon DEF ShutdownDns
  <2>2. Flags'
    BY <1>1, <1>2, <2>1, Zenon DEF Flags, ShutdownDns, wifi
  <2>3. {ap_connect, dhcps, s_dns_running, task, s_dns_sock, open, shut, failed, was_up}' \subseteq BOOLEAN
    BY <2>2, Zenon DEF Flags
  <2> QED BY <1>2, <2>3 DEF TypeOK, ShutdownDns, wifi
<1>3. CASE ~ShutdownDns
  <2>1. Flags'
    BY <1>1, <1>3, Booleans, Zenon DEF Flags, EventTask, Disconnected, GotIp, StopDns, Connected, Offer,
       SetDnsServer, wifi, server
  <2>2. {ap_connect, dhcps, s_dns_running, task, s_dns_sock, open, shut, failed, was_up}' \subseteq BOOLEAN
    BY <2>1, Zenon DEF Flags
  <2> QED BY <1>3, <2>2 DEF TypeOK, EventTask, Disconnected, GotIp, StopDns, Connected, Offer,
             SetDnsServer, wifi, server
<1> QED BY <1>2, <1>3

LEMMA DnsTypes == TypeOK /\ DnsTask => TypeOK'
<1> SUFFICES ASSUME TypeOK, DnsTask PROVE TypeOK'
  OBVIOUS
<1>1. Flags
  BY BoolTypes DEF TypeOK
<1>2. failed' \in BOOLEAN /\ open' \in BOOLEAN
  BY <1>1, Booleans, Zenon DEF Flags, DnsTask, Socket, Publish, Bind, Loop, Recv, Parse, Send, CloseDns,
     ForgetSocket, Exit, server
<1>3. /\ s_dns_running' \in BOOLEAN /\ task' \in BOOLEAN /\ s_dns_sock' \in BOOLEAN /\ shut' = shut
      /\ UNCHANGED <<conf, boot, ev, wifi>>
  BY <1>1, Booleans, Zenon DEF Flags, DnsTask, Socket, Publish, Bind, Loop, Recv, Parse, Send, CloseDns,
     ForgetSocket, Exit
<1>4. Flags'
  BY <1>1, <1>2, <1>3, Zenon DEF Flags, wifi
<1>5. {ap_connect, dhcps, s_dns_running, task, s_dns_sock, open, shut, failed, was_up}' \subseteq BOOLEAN
  BY <1>4, Zenon DEF Flags
<1>6. dns' \in DnsPCs
  BY DEF DnsTask, Socket, Publish, Bind, Loop, Recv, Parse, Send, CloseDns, ForgetSocket, Exit, DnsPCs, TypeOK
<1>7. query' \in Queries \cup {NoQuery} /\ (dns' \in {"parse", "send"} => query' # NoQuery)
  BY CaptiveAssumption DEF DnsTask, Socket, Publish, Bind, Loop, Recv, Parse, Send, CloseDns, ForgetSocket,
     Exit, TypeOK
<1> QED BY <1>3, <1>5, <1>6, <1>7 DEF TypeOK, wifi

-----------------------------------------------------------------------------
LEMMA MainKeeps == PortalInv /\ Main => PortalInv'
<1> SUFFICES ASSUME PortalInv, Main PROVE Sockets' /\ UplinkStarted' /\ Serving' /\ OfferWithdrawn'
  BY MainTypes DEF PortalInv
<1>1. Sockets'
  BY DEF PortalInv, Sockets, Main, InitDhcps, InitOffer, StartWifi, StartDns, CreateDns, server
<1>2. UplinkStarted'
  BY DEF PortalInv, UplinkStarted, Started, Main, InitDhcps, InitOffer, StartWifi, StartDns, CreateDns,
     wifi, server
<1>3. Serving'
  BY DEF PortalInv, Sockets, Serving, Quiet, Main, InitDhcps, InitOffer, StartWifi, StartDns, CreateDns,
     wifi, server
<1>4. OfferWithdrawn'
  BY DEF PortalInv, UplinkStarted, Started, OfferWithdrawn, Main, InitDhcps, InitOffer, StartWifi, StartDns,
     CreateDns, wifi, server
<1> QED BY <1>1, <1>2, <1>3, <1>4

LEMMA EventKeeps == PortalInv /\ EventTask => PortalInv'
<1> SUFFICES ASSUME PortalInv, EventTask PROVE Sockets' /\ UplinkStarted' /\ Serving' /\ OfferWithdrawn'
  BY EventTypes DEF PortalInv
<1>1. Sockets'
  BY DEF PortalInv, Sockets, EventTask, Disconnected, GotIp, StopDns, ShutdownDns, Connected, Offer, wifi, server
<1>2. UplinkStarted'
  BY DEF PortalInv, UplinkStarted, Started, EventTask, Disconnected, GotIp, StopDns, ShutdownDns, Connected,
     Offer, wifi, server
<1>3. Serving'
  BY DEF PortalInv, UplinkStarted, Serving, Quiet, EventTask, Disconnected, GotIp, StopDns, ShutdownDns,
     Connected, Offer, wifi, server
<1>4. OfferWithdrawn'
  BY DEF PortalInv, OfferWithdrawn, EventTask, Disconnected, GotIp, StopDns, ShutdownDns, Connected, Offer,
     SetDnsServer, wifi, server
<1> QED BY <1>1, <1>2, <1>3, <1>4

LEMMA DnsKeeps == PortalInv /\ DnsTask => PortalInv'
<1> SUFFICES ASSUME PortalInv, DnsTask PROVE Sockets' /\ UplinkStarted' /\ Serving' /\ OfferWithdrawn'
  BY DnsTypes DEF PortalInv
<1>1. UNCHANGED <<conf, boot, ev, wifi, shut>>
  BY DEF DnsTask, Socket, Publish, Bind, Loop, Recv, Parse, Send, CloseDns, ForgetSocket, Exit, server
<1>2. Sockets'
  <2>1. dns # "none" /\ boot' = "done"
    BY <1>1 DEF PortalInv, Sockets, DnsTask, Socket, Publish, Bind, Loop, Recv, Parse, Send, CloseDns,
       ForgetSocket, Exit
  <2>2. CASE Socket \/ Publish \/ Bind
    BY <2>1, <2>2 DEF PortalInv, Sockets, Socket, Publish, Bind
  <2>3. CASE Loop \/ Recv \/ Parse \/ Send
    BY <2>1, <2>3 DEF PortalInv, Sockets, Loop, Recv, Parse, Send
  <2>4. CASE CloseDns
    BY <2>1, <2>4 DEF PortalInv, Sockets, CloseDns
  <2>5. CASE ForgetSocket \/ Exit
    BY <2>1, <2>5 DEF PortalInv, Sockets, ForgetSocket, Exit
  <2> QED BY <2>2, <2>3, <2>4, <2>5 DEF DnsTask
<1>3. UplinkStarted' /\ OfferWithdrawn'
  BY <1>1 DEF PortalInv, UplinkStarted, Started, OfferWithdrawn, wifi
<1>4. Serving'
  BY <1>1 DEF PortalInv, Sockets, Serving, Quiet, DnsTask, Socket, Publish, Bind, Loop, Recv, Parse, Send,
     CloseDns, ForgetSocket, Exit, wifi, server, TypeOK
<1> QED BY <1>2, <1>3, <1>4

LEMMA PortalAlways == Spec => []PortalInv
<1>1. PortalInv /\ [Next]_vars => PortalInv'
  <2>1. PortalInv /\ UNCHANGED vars => PortalInv'
    BY DEF vars, wifi, server, PortalInv, TypeOK, Sockets, UplinkStarted, Started, Serving, Quiet, OfferWithdrawn
  <2> QED BY <2>1, MainKeeps, EventKeeps, DnsKeeps DEF Next
<1> QED BY <1>1, PortalInitial, PTL DEF Spec

\* Every variable has its type: the server never answers a datagram that it
\* has not received.
THEOREM TypeCorrect == Spec => []TypeOK
BY PortalAlways, PTL DEF PortalInv

\* Whatever fails, and whenever it is stopped, an ended server holds no socket.
THEOREM SocketReleased == Spec => []PortReleased
<1>1. PortalInv => PortReleased
  BY DEF PortalInv, Sockets, PortReleased
<1> QED BY <1>1, PortalAlways, PTL

\* No datagram, of whatever content, ends the server before the uplink is up.
THEOREM ServesAll == Spec => []ServesUntilConnected
<1>1. PortalInv => ServesUntilConnected
  BY DEF PortalInv, Serving, Quiet, ServesUntilConnected
<1> QED BY <1>1, PortalAlways, PTL

\* Where no call fails, the router is offered as a DNS server only while it is one.
THEOREM OfferHeld == Spec => []OfferedServerRuns
<1>1. PortalInv => OfferedServerRuns
  BY DEF PortalInv, Serving, Quiet, OfferWithdrawn, OfferedServerRuns
<1> QED BY <1>1, PortalAlways, PTL

-----------------------------------------------------------------------------
(***************************************************************************)
(* Updates of the firmware.                                                *)
(***************************************************************************)

\* One update at a time is under way.
Alone == \A u, v \in Active : u = v

\* What has been validated is not written again.
Validated == \A u \in Updates : pc[u] = "select" => \A c \in Chunks : part[c] = u

\* Once a partition is selected, the only update left is the one that did it.
Selected ==
  boot_partition = "new" =>
    Complete /\ \A u \in Updates : pc[u] \in {"unused", "gone", "arm", "success", "finish"}

\* An update writes while there are chunks to write.
Room ==
  \A u \in Updates :
     /\ pc[u] \in {"unused", "created", "begin"} => pos[u] = 0
     /\ pc[u] = "write" => pos[u] < CHUNKS

ImageInv == OtaTypeOK /\ Room /\ (~overlap => Alone /\ Validated /\ Selected)

-----------------------------------------------------------------------------
(* Types.                                                                   *)

LEMMA FlagTypes ==
  flags \in BOOLEAN \X BOOLEAN \X BOOLEAN
    <=> otaRunning \in BOOLEAN /\ finished \in BOOLEAN /\ otaSuccess \in BOOLEAN
BY DEF flags

LEMMA OtaInitial == OtaInit => ImageInv
<1> SUFFICES ASSUME OtaInit PROVE ImageInv
  OBVIOUS
<1>1. /\ otaRunning \in BOOLEAN /\ finished \in BOOLEAN /\ otaSuccess \in BOOLEAN
      /\ restart \in BOOLEAN /\ page \in BOOLEAN /\ overlap \in BOOLEAN
  BY Booleans, Zenon DEF OtaInit
<1>2. OtaTypeOK
  BY <1>1, FlagTypes, OtaAssumption DEF OtaInit, OtaTypeOK, PCs
<1>3. Room /\ Alone /\ Validated /\ Selected
  BY DEF OtaInit, Room, Alone, Active, Validated, Selected
<1> QED BY <1>2, <1>3 DEF ImageInv

LEMMA OtaTypes == OtaTypeOK /\ Room /\ [OtaNext]_ota_vars => OtaTypeOK' /\ Room'
<1> SUFFICES ASSUME OtaTypeOK, Room, [OtaNext]_ota_vars PROVE OtaTypeOK' /\ Room'
  OBVIOUS
<1> USE OtaAssumption
<1>1. /\ otaRunning \in BOOLEAN /\ finished \in BOOLEAN /\ otaSuccess \in BOOLEAN
      /\ restart \in BOOLEAN /\ page \in BOOLEAN /\ overlap \in BOOLEAN
  BY FlagTypes DEF OtaTypeOK
<1>2. flags' \in BOOLEAN \X BOOLEAN \X BOOLEAN <=>
        otaRunning' \in BOOLEAN /\ finished' \in BOOLEAN /\ otaSuccess' \in BOOLEAN
  BY DEF flags
<1>3. CASE UNCHANGED ota_vars
  BY <1>3 DEF ota_vars, flags, history, OtaTypeOK, Room
<1>4. CASE Reboot
  <2>1. /\ otaRunning' \in BOOLEAN /\ finished' \in BOOLEAN /\ otaSuccess' \in BOOLEAN
        /\ restart' \in BOOLEAN /\ page' \in BOOLEAN /\ overlap' \in BOOLEAN
    BY <1>4, Booleans, Zenon DEF Reboot
  <2>2. pc' \in [Updates -> PCs] /\ pos' = pos /\ boot_partition' \in {"old", "new"}
        /\ part' \in [Chunks -> Updates \cup {NoUpdate}] /\ mistaken' \subseteq Updates
    BY <1>4 DEF Reboot, OtaTypeOK, PCs
  <2>3. Room'
    BY <1>4 DEF Reboot, Room, Active, OtaTypeOK
  <2> QED BY <1>2, <2>1, <2>2, <2>3 DEF OtaTypeOK
<1>5. CASE GetLog \/ LogResult
  <2>1. /\ otaRunning' \in BOOLEAN /\ finished' \in BOOLEAN /\ otaSuccess' \in BOOLEAN
        /\ restart' \in BOOLEAN /\ page' \in BOOLEAN /\ overlap' \in BOOLEAN
    BY <1>1, <1>5, Booleans, Zenon DEF GetLog, LogResult, flags, history
  <2>2. mistaken' \subseteq Updates
    BY <1>5 DEF GetLog, LogResult, NotFinished, Active, history, OtaTypeOK
  <2> QED BY <1>2, <1>5, <2>1, <2>2 DEF GetLog, LogResult, OtaTypeOK, Room
<1>6. ASSUME NEW u \in Updates, PostLog(u) \/ PostUpload(u) \/ Step(u) PROVE OtaTypeOK' /\ Room'
  <2>1. /\ otaRunning' \in BOOLEAN /\ finished' \in BOOLEAN /\ restart' \in BOOLEAN /\ page' \in BOOLEAN
    BY <1>1, <1>6, Booleans, Zenon DEF PostLog, PostUpload, Step, TaskStart, OtaBegin, Write, End, Select,
       Fail, UploadArms, TaskResult, TaskFinish, flags
  <2>h. overlap' \in BOOLEAN /\ mistaken' \subseteq Updates
    <3>1. CASE PostLog(u) \/ PostUpload(u)
      <4>1. overlap' \in BOOLEAN
        BY <3>1, Zenon DEF PostLog, PostUpload, Requested
      <4> QED BY <3>1, <4>1 DEF PostLog, PostUpload, Requested, OtaTypeOK
    <3>2. CASE Step(u)
      BY <1>1, <3>2 DEF Step, TaskStart, OtaBegin, Write, End, Select, Fail, UploadArms, TaskResult,
         TaskFinish, history, OtaTypeOK
    <3> QED BY <1>6, <3>1, <3>2
  <2>2. otaSuccess' \in BOOLEAN
    <3>1. CASE TaskResult(u)
      BY <3>1, Zenon DEF TaskResult, At
    <3>2. CASE ~TaskResult(u)
      BY <1>1, <1>6, <3>2, Booleans, Zenon DEF PostLog, PostUpload, Step, TaskStart, OtaBegin, Write, End,
         Select, Fail, UploadArms, TaskFinish, flags
    <3> QED BY <3>1, <3>2
  <2>3. boot_partition' \in {"old", "new"}
    BY <1>6 DEF PostLog, PostUpload, Step, TaskStart, OtaBegin, Write, End, Select, Fail, UploadArms,
       TaskResult, TaskFinish, OtaTypeOK
  <2>4. \E l \in PCs : Goto(u, l)
    BY <1>6 DEF PostLog, PostUpload, Step, TaskStart, OtaBegin, Write, End, Select, Fail, UploadArms,
       TaskResult, TaskFinish, PCs
  <2>5. pc' \in [Updates -> PCs]
    BY <2>4 DEF Goto, OtaTypeOK
  <2>6. CASE Write(u)
    <3>1. pos[u] \in 0..CHUNKS /\ pos[u] < CHUNKS /\ pos[u] + 1 \in Chunks
      BY <2>6 DEF Write, At, Room, OtaTypeOK, Chunks
    <3>2. pos' = [pos EXCEPT ![u] = pos[u] + 1] /\ pos'[u] = pos[u] + 1
      BY <2>6 DEF Write, OtaTypeOK
    <3>3. pos' \in [Updates -> 0..CHUNKS]
      BY <3>1, <3>2 DEF OtaTypeOK, Chunks
    <3>4. part' \in [Chunks -> Updates \cup {NoUpdate}]
      BY <2>6, <3>1, <3>2 DEF Write, OtaTypeOK
    <3>5. pc'[u] = IF pos[u] + 1 = CHUNKS THEN "end" ELSE "write"
      BY <2>6, <3>2 DEF Write, Goto, OtaTypeOK
    <3>6. \A v \in Updates \ {u} : pc'[v] = pc[v] /\ pos'[v] = pos[v]
      BY <2>6, <3>2 DEF Write, Goto, OtaTypeOK
    <3>7. Room'
      BY <3>1, <3>2, <3>5, <3>6 DEF Room
    <3> QED BY <1>2, <2>1, <2>h, <2>2, <2>3, <2>5, <3>3, <3>4, <3>7 DEF OtaTypeOK
  <2>7. CASE ~Write(u)
    <3>1. pos' = pos /\ part' = part
      BY <1>6, <2>7 DEF PostLog, PostUpload, Step, TaskStart, OtaBegin, End, Select, Fail, UploadArms,
         TaskResult, TaskFinish
    <3>2. \A v \in Updates \ {u} : pc'[v] = pc[v]
      BY <2>4 DEF Goto, OtaTypeOK
    <3>3. pc'[u] \in {"unused", "created", "begin"} => pc[u] \in {"unused", "created", "begin"}
      BY <1>6, <2>7 DEF PostLog, Requested, PostUpload, Step, TaskStart, OtaBegin, End, Select, Fail,
         UploadArms, TaskResult, TaskFinish, Goto, At, OtaTypeOK
    <3>4. pc'[u] = "write" => pc[u] \in {"unused", "begin"}
      BY <1>6, <2>7 DEF PostLog, Requested, PostUpload, Step, TaskStart, OtaBegin, End, Select, Fail,
         UploadArms, TaskResult, TaskFinish, Goto, At, OtaTypeOK
    <3>5. Room'
      BY <3>1, <3>2, <3>3, <3>4 DEF Room
    <3> QED BY <1>2, <2>1, <2>h, <2>2, <2>3, <2>5, <3>1, <3>5 DEF OtaTypeOK
  <2> QED BY <2>6, <2>7
<1> QED BY <1>3, <1>4, <1>5, <1>6 DEF OtaNext, TimerFires, PowerLoss
-----------------------------------------------------------------------------
(* What is started.                                                         *)

\* What a step of update u does to the places of the updates.
LEMMA OthersStay ==
  ASSUME OtaTypeOK, NEW u \in Updates, PostLog(u) \/ PostUpload(u) \/ Step(u)
  PROVE  \A v \in Updates \ {u} : pc'[v] = pc[v]
<1>1. \E l \in PCs : Goto(u, l)
  BY DEF PostLog, PostUpload, Step, TaskStart, OtaBegin, Write, End, Select, Fail, UploadArms,
     TaskResult, TaskFinish, PCs
<1> QED BY <1>1 DEF Goto, OtaTypeOK

\* A request that does not overlap finds nothing under way, and a step is that of
\* the one update.
LEMMA NoOtherActive ==
  ASSUME ~overlap', OtaTypeOK, Alone, NEW u \in Updates, PostLog(u) \/ PostUpload(u) \/ Step(u)
  PROVE  \A v \in Updates \ {u} : pc[v] \in {"unused", "gone"}
<1>1. CASE PostLog(u) \/ PostUpload(u)
  BY <1>1 DEF PostLog, PostUpload, Requested, Active
<1>2. CASE Step(u)
  <2>1. u \in Active
    BY <1>2 DEF Step, TaskStart, OtaBegin, Write, End, Select, Fail, UploadArms, TaskResult, TaskFinish,
       At, Active
  <2> QED BY <2>1 DEF Alone, Active
<1> QED BY <1>1, <1>2

LEMMA ImageStep == ImageInv /\ [OtaNext]_ota_vars => ImageInv'
<1> SUFFICES ASSUME ImageInv, [OtaNext]_ota_vars, ~overlap' PROVE Alone' /\ Validated' /\ Selected'
  BY OtaTypes DEF ImageInv
<1>1. CASE UNCHANGED ota_vars
  BY <1>1 DEF ota_vars, history, ImageInv, Alone, Active, Validated, Selected, Complete
<1>2. CASE Reboot
  <2>1. \A u \in Updates : pc'[u] \in {"unused", "gone"}
    BY <1>2 DEF Reboot, Active
  <2> QED BY <1>2, <2>1 DEF Reboot, Alone, Active, Validated, Selected
<1>3. CASE GetLog \/ LogResult
  BY <1>3 DEF GetLog, LogResult, history, ImageInv, Alone, Active, Validated, Selected, Complete
<1>4. ASSUME NEW u \in Updates, PostLog(u) \/ PostUpload(u) \/ Step(u)
      PROVE  Alone' /\ Validated' /\ Selected'
  <2>o. ~overlap /\ OtaTypeOK /\ Alone /\ Validated /\ Selected
    <3>1. CASE PostLog(u) \/ PostUpload(u)
      <4>1. ~overlap
        BY <3>1, Zenon DEF PostLog, PostUpload, Requested
      <4> QED BY <4>1 DEF ImageInv
    <3>2. CASE Step(u)
      <4>1. overlap' = overlap
        BY <3>2 DEF Step, TaskStart, OtaBegin, Write, End, Select, Fail, UploadArms, TaskResult, TaskFinish,
           history
      <4> QED BY <4>1 DEF ImageInv
    <3> QED BY <1>4, <3>1, <3>2
  <2>1. \A v \in Updates \ {u} : pc'[v] = pc[v] /\ pc[v] \in {"unused", "gone"}
    BY <1>4, <2>o, OthersStay, NoOtherActive
  <2>2. Alone'
    BY <2>1 DEF Alone, Active
  <2>3. CASE Write(u)
    <3>1. boot_partition' = boot_partition /\ boot_partition # "new" /\ pc'[u] # "select"
      BY <2>o, <2>3 DEF Write, At, Goto, Selected, OtaTypeOK
    <3> QED BY <2>1, <2>2, <3>1 DEF Validated, Selected
  <2>4. CASE ~Write(u)
    <3>1. part' = part
      BY <1>4, <2>4 DEF PostLog, PostUpload, Step, TaskStart, OtaBegin, End, Select, Fail, UploadArms,
         TaskResult, TaskFinish
    <3>2. Validated'
      <4>1. pc'[u] = "select" => End(u)
        BY <1>4, <2>o, <2>4 DEF PostLog, PostUpload, Step, TaskStart, OtaBegin, End, Select, Fail, UploadArms,
           TaskResult, TaskFinish, Goto, OtaTypeOK
      <4>2. pc'[u] = "select" => \A c \in Chunks : part[c] = u
        BY <4>1 DEF End
      <4> QED BY <2>1, <3>1, <4>2 DEF Validated
    <3>3. Selected'
      <4>1. CASE Select(u)
        <5>1. pc'[u] \in {"arm", "success"} /\ \A c \in Chunks : part[c] = u
          BY <2>o, <4>1 DEF Select, At, Goto, OtaTypeOK, Validated
        <5> QED BY <2>1, <3>1, <5>1 DEF Selected, Complete
      <4>2. CASE boot_partition' = boot_partition
        <5>1. boot_partition = "new" => pc'[u] \in {"unused", "gone", "arm", "success", "finish"}
          BY <1>4, <2>o, <2>4 DEF PostLog, PostUpload, Requested, Step, TaskStart, OtaBegin, End,
             Select, Fail, UploadArms, TaskResult, TaskFinish, At, Goto, OtaTypeOK, Selected
        <5> QED BY <2>o, <2>1, <3>1, <4>2, <5>1 DEF Selected, Complete
      <4> QED BY <1>4, <2>4, <4>1, <4>2 DEF PostLog, PostUpload, Step, TaskStart, OtaBegin, End, Fail,
              UploadArms, TaskResult, TaskFinish
    <3> QED BY <2>2, <3>2, <3>3
  <2> QED BY <2>3, <2>4
<1> QED BY <1>1, <1>2, <1>3, <1>4 DEF OtaNext, TimerFires, PowerLoss

\* Every variable has its type, also where updates overlap: in particular no
\* update writes behind the end of a firmware.
THEOREM OtaTypeCorrect == OtaSpec => []OtaTypeOK
<1>1. OtaInit => OtaTypeOK /\ Room
  BY OtaInitial DEF ImageInv
<1> QED BY <1>1, OtaTypes, PTL DEF OtaSpec

\* Updates that are not requested over one another leave the device with a whole
\* image to start, whenever its timer or a loss of power restarts it.
THEOREM BootsComplete == OtaSpec => []BootsCompleteImage
<1>1. ImageInv => BootsCompleteImage
  BY DEF ImageInv, Selected, BootsCompleteImage
<1> QED BY <1>1, ImageStep, OtaInitial, PTL DEF OtaSpec

-----------------------------------------------------------------------------
(* The flag that refuses uploads.                                           *)

\* A download runs under the flag unless the page was mistaken, which the page is
\* about all that is under way as it looks at a result; what else is under way
\* beside an upload is mistaken.
FlagInv ==
  /\ \A u \in Active : ~IsUpload(u) => otaRunning \/ u \in mistaken
  /\ page => \A u \in Active : ~IsUpload(u) /\ u \in mistaken
  /\ UploadAlone

\* Uploads are none of the task's.
UploadPlaces ==
  \A u \in Updates : IsUpload(u) => pc[u] \in {"unused", "write", "end", "select", "arm", "gone"}

LEMMA UploadPlacesStep == OtaTypeOK /\ UploadPlaces /\ [OtaNext]_ota_vars => UploadPlaces'
<1> SUFFICES ASSUME OtaTypeOK, UploadPlaces, [OtaNext]_ota_vars PROVE UploadPlaces'
  OBVIOUS
<1>1. CASE UNCHANGED ota_vars
  BY <1>1 DEF ota_vars, UploadPlaces
<1>2. CASE Reboot \/ GetLog \/ LogResult
  BY <1>2 DEF Reboot, GetLog, LogResult, Active, OtaTypeOK, UploadPlaces
<1>3. ASSUME NEW u \in Updates, PostLog(u) \/ PostUpload(u) \/ Step(u) PROVE UploadPlaces'
  <2>1. \A v \in Updates \ {u} : pc'[v] = pc[v]
    BY <1>3, OthersStay
  <2>2. IsUpload(u) => pc'[u] \in {"unused", "write", "end", "select", "arm", "gone"}
    BY <1>3 DEF PostLog, PostUpload, Step, TaskStart, OtaBegin, Write, End, Select, Fail, UploadArms,
       TaskResult, TaskFinish, At, Goto, OtaTypeOK, UploadPlaces
  <2> QED BY <2>1, <2>2 DEF UploadPlaces
<1> QED BY <1>1, <1>2, <1>3 DEF OtaNext, TimerFires, PowerLoss

LEMMA FlagStep == OtaTypeOK /\ FlagInv /\ [OtaNext]_ota_vars => FlagInv'
<1> SUFFICES ASSUME OtaTypeOK, FlagInv, [OtaNext]_ota_vars PROVE FlagInv'
  OBVIOUS
<1>1. CASE UNCHANGED ota_vars
  BY <1>1 DEF ota_vars, flags, history, FlagInv, UploadAlone, Active
<1>2. CASE Reboot
  <2>1. Active' = {}
    BY <1>2 DEF Reboot, Active, OtaTypeOK
  <2> QED BY <2>1 DEF FlagInv, UploadAlone
<1>3. CASE GetLog
  BY <1>3 DEF GetLog, NotFinished, HttpdIdle, flags, FlagInv, UploadAlone, Active
<1>4. CASE LogResult
  BY <1>4 DEF LogResult, history, FlagInv, UploadAlone, Active
<1>5. ASSUME NEW u \in Updates, PostLog(u) \/ PostUpload(u) \/ Step(u) PROVE FlagInv'
  <2>1. /\ \A v \in Updates \ {u} : v \in Active' <=> v \in Active
        /\ mistaken' = mistaken /\ page' = page
    <3>1. \A v \in Updates \ {u} : pc'[v] = pc[v]
      BY <1>5, OthersStay
    <3> QED BY <1>5, <3>1 DEF Active, PostLog, PostUpload, Requested, Step, TaskStart, OtaBegin, Write, End,
            Select, Fail, UploadArms, TaskResult, TaskFinish, history
  <2>2. CASE PostLog(u)
    <3>1. ~IsUpload(u) /\ otaRunning' = TRUE /\ ~page' /\ \A v \in Active : ~IsUpload(v)
      BY <2>1, <2>2 DEF PostLog, Requested, HttpdIdle
    <3>2. \A v \in Active' : ~IsUpload(v)
      BY <2>1, <3>1 DEF Active
    <3> QED BY <3>1, <3>2 DEF FlagInv, UploadAlone
  <2>3. CASE PostUpload(u)
    <3>1. /\ IsUpload(u) /\ otaRunning' = TRUE /\ ~page'
          /\ \A v \in Active : ~IsUpload(v) /\ v \in mistaken
      BY <2>1, <2>3 DEF PostUpload, Requested, HttpdIdle, FlagInv
    <3>2. \A v \in Active' : v = u \/ (~IsUpload(v) /\ v \in mistaken')
      BY <2>1, <3>1 DEF Active
    <3> QED BY <3>1, <3>2 DEF FlagInv, UploadAlone
  <2>4. CASE Step(u)
    <3>1. u \in Active
      BY <2>4 DEF Step, TaskStart, OtaBegin, Write, End, Select, Fail, UploadArms, TaskResult, TaskFinish,
         At, Active
    <3>2. Active' \subseteq Active
      BY <2>1, <3>1 DEF Active
    <3>3. CASE otaRunning' = otaRunning
      BY <2>1, <3>2, <3>3 DEF FlagInv, UploadAlone
    <3>4. CASE IsUpload(u) /\ u \notin Active'
      <4>1. \A v \in Active' : v \in mistaken'
        BY <2>1, <3>1, <3>2, <3>4 DEF FlagInv, UploadAlone
      <4> QED BY <2>1, <3>2, <4>1 DEF FlagInv, UploadAlone
    <3>5. otaRunning' = otaRunning \/ (IsUpload(u) /\ u \notin Active')
      BY <2>4 DEF Step, TaskStart, OtaBegin, Write, End, Select, Fail, UploadArms, TaskResult, TaskFinish,
         flags, Goto, Active, OtaTypeOK
    <3> QED BY <3>3, <3>4, <3>5
  <2> QED BY <1>5, <2>2, <2>3, <2>4
<1> QED BY <1>1, <1>2, <1>3, <1>4, <1>5 DEF OtaNext, TimerFires, PowerLoss

\* However downloads and uploads are requested, fail and are cut off, and however
\* the page is polled: no upload is under way beside a download whose flag stands.
THEOREM UploadsAlone == OtaSpec => []UploadAlone
<1>1. OtaInit => FlagInv
  BY DEF OtaInit, FlagInv, UploadAlone, Active
<1>2. FlagInv => UploadAlone
  BY DEF FlagInv
<1> QED BY <1>1, <1>2, FlagStep, OtaTypeCorrect, PTL DEF OtaSpec

\* An upload that fails leaves the flag clear, whatever other uploads do.
THEOREM FlagReleased == OtaSpec => []UploadReleasesFlag
<1> DEFINE Inv == OtaTypeOK /\ Room /\ UploadPlaces /\ UploadReleasesFlag
<1>1. OtaInit => Inv
  BY OtaInitial DEF ImageInv, OtaInit, UploadPlaces, UploadReleasesFlag
<1>2. Inv /\ [OtaNext]_ota_vars => Inv'
  <2> SUFFICES ASSUME OtaTypeOK, UploadPlaces, UploadReleasesFlag, [OtaNext]_ota_vars PROVE UploadReleasesFlag'
    BY OtaTypes, UploadPlacesStep
  <2>1. CASE UNCHANGED ota_vars
    BY <2>1 DEF ota_vars, flags, UploadReleasesFlag, Active
  <2>2. CASE Reboot
    BY <2>2 DEF Reboot, UploadReleasesFlag
  <2>3. CASE GetLog \/ LogResult
    BY <2>3 DEF GetLog, LogResult, flags, UploadReleasesFlag, Active
  <2>4. ASSUME NEW u \in Updates, PostLog(u) \/ PostUpload(u) \/ Step(u) PROVE UploadReleasesFlag'
    <3>1. \A v \in Updates \ {u} : pc'[v] = pc[v]
      BY <2>4, OthersStay
    <3>2. CASE ~IsUpload(u)
      BY <2>4, <3>2 DEF PostLog, PostUpload, Step, TaskStart, OtaBegin, Write, End, Select, Fail, UploadArms,
         TaskResult, TaskFinish, At, Goto, OtaTypeOK, UploadReleasesFlag
    <3>3. CASE IsUpload(u)
      BY <2>4, <3>1, <3>3 DEF PostLog, PostUpload, Step, TaskStart, OtaBegin, Write, End, Select, Fail,
         UploadArms, TaskResult, TaskFinish, At, Goto, OtaTypeOK, UploadPlaces, UploadReleasesFlag, Active, flags
    <3> QED BY <3>2, <3>3
  <2> QED BY <2>1, <2>2, <2>3, <2>4 DEF OtaNext, TimerFires, PowerLoss
<1> QED BY <1>1, <1>2, PTL DEF OtaSpec
=============================================================================
