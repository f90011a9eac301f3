--------------------------- MODULE CaptivePortal ----------------------------
(***************************************************************************)
(* What the clients of the access point are told: by the DHCP server, of   *)
(* which DNS server to use, and by the captive DNS server itself, which    *)
(* answers every name with the address of the router until the uplink is   *)
(* connected.                                                              *)
(*                                                                         *)
(* Three tasks: the main task, in wifi_init; the system event task, in     *)
(* wifi_event_handler, which can handle GOT_IP as soon as the main task    *)
(* has started the driver; and the DNS task, dns_server_task.              *)
(***************************************************************************)
EXTENDS Naturals

CONSTANTS
  Queries,    \* the datagrams received: [flags, count, name, short]
  NoQuery

ASSUME CaptiveAssumption == NoQuery \notin Queries

VARIABLES
  conf,       \* the configuration, which a start does not change: bridge_enabled,
              \* whether static_ip, subnet_mask or gateway_addr is set, custom_dns
  boot,       \* main task: where it is in wifi_init
  ev,         \* event task: where it is in the GOT_IP handler
  ap_connect,
  dhcps,      \* the DHCP server of the access point runs
  offer,      \* the DNS server that it offers
  s_dns_running, task, s_dns_sock,   \* the flags of dnserver.c (a handle, a
                                     \* socket number: set or not)
  dns,        \* DNS task: where it is
  open,       \* its socket is open
  shut,       \* and has been shut down
  query,      \* the datagram being handled
  failed,     \* history: a call of the socket layer, or xTaskCreate, has failed
  was_up      \* history: the uplink has been connected

wifi == <<ap_connect, was_up, dhcps, offer>>
server == <<dns, open, shut, query, failed>>
vars == <<conf, boot, ev, wifi, s_dns_running, task, s_dns_sock, server>>

DnsPCs == {"none", "socket", "publish", "bind", "loop", "recv", "parse",
           "send", "closing", "closed", "exit"}

-----------------------------------------------------------------------------
(* parse_dns_request.  The flags of the header are the bits of the 16-bit   *)
(* word as this little-endian processor reads it: 7 is QR, 3..6 the opcode, *)
(* 0 RD, and 8..15 the second byte (13 is AD).                              *)

QR_FLAG == 7
OPCODE_MASK == 11..14

\* parse_dns_request prepares an answer.
Answers(q) ==
  /\ ~q.short
  /\ QR_FLAG \notin q.flags
  /\ q.flags \cap OPCODE_MASK = {}
  /\ q.count = 1 /\ q.name = "ok"

-----------------------------------------------------------------------------
\* Every variable has its type.
TypeOK ==
  /\ conf \in [bridge : BOOLEAN, static : BOOLEAN, custom : BOOLEAN]
  /\ boot \in {"dhcps", "offer", "wifi", "start", "create", "done"}
  /\ ev \in {"idle", "stop", "shutdown", "connect", "dns"}
  /\ {ap_connect, dhcps, s_dns_running, task, s_dns_sock, open, shut, failed,
      was_up} \subseteq BOOLEAN
  /\ offer \in {"ap", "uplink", "custom"}
  /\ dns \in DnsPCs
  /\ query \in Queries \cup {NoQuery}
  /\ dns \in {"parse", "send"} => query # NoQuery

\* When wifi_init begins; until told otherwise the DHCP server offers itself.
Init ==
  /\ conf \in [bridge : BOOLEAN, static : BOOLEAN, custom : BOOLEAN]
  /\ boot = "dhcps" /\ ev = "idle"
  /\ ap_connect = FALSE /\ dhcps = TRUE /\ offer = "ap"
  /\ s_dns_running = FALSE /\ task = FALSE /\ s_dns_sock = FALSE
  /\ dns = "none" /\ open = FALSE /\ shut = FALSE
  /\ query = NoQuery /\ failed = FALSE
  /\ was_up = FALSE

\* setDnsServer.
SetDnsServer(d) ==
  IF conf.static THEN UNCHANGED <<dhcps, offer>>
  ELSE offer' = d /\ dhcps' = TRUE

-----------------------------------------------------------------------------
(* The main task: the end of wifi_init.                                     *)

InitDhcps ==
  /\ boot = "dhcps" /\ boot' = "offer"
  /\ dhcps' = ~conf.bridge
  /\ UNCHANGED <<conf, ev, ap_connect, was_up, offer, s_dns_running, task, s_dns_sock, server>>

InitOffer ==
  /\ boot = "offer" /\ boot' = "wifi"
  /\ SetDnsServer("ap")
  /\ UNCHANGED <<conf, ev, ap_connect, was_up, s_dns_running, task, s_dns_sock, server>>

StartWifi ==
  /\ boot = "wifi" /\ boot' = "start"
  /\ UNCHANGED <<conf, ev, wifi, s_dns_running, task, s_dns_sock, server>>

\* start_dns_server.
StartDns ==
  /\ boot = "start"
  /\ IF s_dns_running \/ task
     THEN boot' = "done" /\ UNCHANGED s_dns_running
     ELSE boot' = "create" /\ s_dns_running' = TRUE
  /\ UNCHANGED <<conf, ev, wifi, task, s_dns_sock, server>>

\* xTaskCreate; its result is not looked at.
CreateDns ==
  /\ boot = "create" /\ boot' = "done"
  /\ \/ task' = TRUE /\ dns' = "socket" /\ UNCHANGED failed
     \/ failed' = TRUE /\ UNCHANGED <<task, dns>>
  /\ UNCHANGED <<conf, ev, wifi, s_dns_running, s_dns_sock, open, shut, query>>

Main == InitDhcps \/ InitOffer \/ StartWifi \/ StartDns \/ CreateDns

-----------------------------------------------------------------------------
(* The event task: IP_EVENT_STA_GOT_IP, once or, when the lease changes,    *)
(* again.                                                                   *)

GotIp ==
  /\ boot \in {"start", "create", "done"}
  /\ ev = "idle" /\ ev' = "stop"
  /\ UNCHANGED <<conf, boot, wifi, s_dns_running, task, s_dns_sock, server>>

\* stop_dns_server.
StopDns ==
  /\ ev = "stop"
  /\ ev' = IF ~s_dns_running /\ ~task THEN "connect" ELSE "shutdown"
  /\ s_dns_running' = FALSE
  /\ UNCHANGED <<conf, boot, wifi, task, s_dns_sock, server>>

\* The number may be one that the DNS task has closed in the meantime.
ShutdownDns ==
  /\ ev = "shutdown" /\ ev' = "connect"
  /\ shut' = (shut \/ (s_dns_sock /\ open))
  /\ UNCHANGED <<conf, boot, wifi, s_dns_running, task, s_dns_sock, dns, open, query, failed>>

Connected ==
  /\ ev = "connect"
  /\ ap_connect' = TRUE /\ was_up' = TRUE
  /\ ev' = IF conf.bridge THEN "idle" ELSE "dns"
  /\ UNCHANGED <<conf, boot, dhcps, offer, s_dns_running, task, s_dns_sock, server>>

\* Faulty variant: the clients keep the DNS server they were offered.
OfferKeep ==
  /\ ev = "dns" /\ ev' = "idle"
  /\ SetDnsServer("ap")
  /\ UNCHANGED <<conf, boot, ap_connect, was_up, s_dns_running, task, s_dns_sock, server>>

\* fillDNS and setDnsServer.
Offer ==
  /\ ev = "dns" /\ ev' = "idle"
  /\ SetDnsServer(IF conf.custom THEN "custom" ELSE "uplink")
  /\ UNCHANGED <<conf, boot, ap_connect, was_up, s_dns_running, task, s_dns_sock, server>>

\* WIFI_EVENT_STA_DISCONNECTED: the portal is not started again (what the
\* handler does for the bridge and the driver is in the module Bridge).
Disconnected ==
  /\ boot \in {"start", "create", "done"} /\ ev = "idle"
  /\ ap_connect' = FALSE
  /\ UNCHANGED <<conf, boot, ev, was_up, dhcps, offer, s_dns_running, task, s_dns_sock, server>>

EventTask == Disconnected \/ GotIp \/ StopDns \/ ShutdownDns \/ Connected \/ Offer

-----------------------------------------------------------------------------
(* dns_server_task.                                                         *)

Socket ==
  /\ dns = "socket"
  /\ \/ dns' = "publish" /\ open' = TRUE /\ UNCHANGED <<s_dns_running, task, failed>>
     \/ /\ failed' = TRUE
        /\ dns' = "none" /\ s_dns_running' = FALSE /\ task' = FALSE /\ UNCHANGED open
  /\ UNCHANGED <<conf, boot, ev, wifi, s_dns_sock, shut, query>>

Publish ==
  /\ dns = "publish" /\ dns' = "bind"
  /\ s_dns_sock' = TRUE
  /\ UNCHANGED <<conf, boot, ev, wifi, s_dns_running, task, open, shut, query, failed>>

\* Faulty variant: a socket that cannot be bound is not closed.
BindNoClose ==
  /\ dns = "bind"
  /\ \/ dns' = "loop" /\ UNCHANGED <<s_dns_sock, s_dns_running, task, failed>>
     \/ /\ failed' = TRUE
        /\ dns' = "none" /\ s_dns_sock' = FALSE
        /\ s_dns_running' = FALSE /\ task' = FALSE
  /\ UNCHANGED <<conf, boot, ev, wifi, open, shut, query>>

Bind ==
  /\ dns = "bind"
  /\ \/ dns' = "loop" /\ UNCHANGED <<open, s_dns_sock, s_dns_running, task, failed>>
     \/ /\ failed' = TRUE
        /\ dns' = "none" /\ open' = FALSE /\ s_dns_sock' = FALSE
        /\ s_dns_running' = FALSE /\ task' = FALSE
  /\ UNCHANGED <<conf, boot, ev, wifi, shut, query>>

\* Faulty variant: the loop does not look at the flag.
LoopForever ==
  /\ dns = "loop" /\ dns' = "recv"
  /\ UNCHANGED <<conf, boot, ev, wifi, s_dns_running, task, s_dns_sock, open, shut, query, failed>>

Loop ==
  /\ dns = "loop"
  /\ dns' = IF s_dns_running THEN "recv" ELSE "closing"
  /\ UNCHANGED <<conf, boot, ev, wifi, s_dns_running, task, s_dns_sock, open, shut, query, failed>>

\* recvfrom: a datagram, nothing for 500 ms, or an error.
Recv ==
  /\ dns = "recv"
  /\ \/ dns' = "parse" /\ query' \in Queries /\ UNCHANGED failed
     \/ dns' = "loop" /\ UNCHANGED <<query, failed>>
     \/ dns' = "closing" /\ failed' = (failed \/ ~shut) /\ UNCHANGED query
  /\ UNCHANGED <<conf, boot, ev, wifi, s_dns_running, task, s_dns_sock, open, shut>>

\* Faulty variant: a datagram that is not answered ends the server.
ParseBreak ==
  /\ dns = "parse"
  /\ dns' = IF Answers(query) THEN "send" ELSE "closing"
  /\ UNCHANGED <<conf, boot, ev, wifi, s_dns_running, task, s_dns_sock, open, shut, query, failed>>

Parse ==
  /\ dns = "parse"
  /\ dns' = IF Answers(query) THEN "send" ELSE "loop"
  /\ UNCHANGED <<conf, boot, ev, wifi, s_dns_running, task, s_dns_sock, open, shut, query, failed>>

\* sendto; a socket shut down for reading still sends.
Send ==
  /\ dns = "send"
  /\ \/ dns' = "loop" /\ UNCHANGED failed
     \/ failed' = TRUE /\ dns' = "closing"
  /\ UNCHANGED <<conf, boot, ev, wifi, s_dns_running, task, s_dns_sock, open, shut, query>>

CloseDns ==
  /\ dns = "closing"
  /\ dns' = IF s_dns_sock THEN "closed" ELSE "exit"
  /\ open' = (open /\ ~s_dns_sock)
  /\ UNCHANGED <<conf, boot, ev, wifi, s_dns_running, task, s_dns_sock, shut, query, failed>>

ForgetSocket ==
  /\ dns = "closed" /\ dns' = "exit"
  /\ s_dns_sock' = FALSE
  /\ UNCHANGED <<conf, boot, ev, wifi, s_dns_running, task, open, shut, query, failed>>

Exit ==
  /\ dns = "exit" /\ dns' = "none"
  /\ s_dns_running' = FALSE /\ task' = FALSE
  /\ UNCHANGED <<conf, boot, ev, wifi, s_dns_sock, open, shut, query, failed>>

DnsTask == \/ Socket \/ Publish \/ Bind \/ Loop \/ Recv \/ Parse \/ Send
           \/ CloseDns \/ ForgetSocket \/ Exit

-----------------------------------------------------------------------------
Next == Main \/ EventTask \/ DnsTask

\* No task is starved; recvfrom returns after its timeout at the latest.
Fairness == WF_vars(DnsTask)

Spec == Init /\ [][Next]_vars
FairSpec == Spec /\ Fairness

-----------------------------------------------------------------------------
(* Correctness.                                                             *)

\* Once the flag is cleared, by stop_dns_server or by an error, the server
\* task ends, whatever it receives and at whatever point it was.
DnsEnds == (boot = "done" /\ ~s_dns_running) ~> dns = "none"

\* A server that has ended, on whichever path, holds no socket: nothing is
\* left bound to port 53.
PortReleased == dns = "none" => ~open /\ ~s_dns_sock

\* While no call fails, nothing that a client sends ends the captive portal:
\* it is up from the end of the boot until the uplink is first connected.
ServesUntilConnected ==
  boot = "done" /\ ~was_up /\ ev = "idle" /\ ~failed => s_dns_running /\ dns # "closing"

\* Between events and while no call fails, clients that are told to ask the
\* router for names find the captive DNS server running there, in routing mode
\* with an uplink lease.
OfferedServerRuns ==
  boot = "done" /\ ev = "idle" /\ offer = "ap" /\ ~failed /\ ~conf.bridge /\ ~conf.static
    => s_dns_running

-----------------------------------------------------------------------------
(* What the log says; the run that names this finds that the code does         *)
(* otherwise.                                                               *)

\* In bridge mode the DHCP server of the access point is disabled.
NoDhcpInBridge == boot = "done" /\ conf.bridge => ~dhcps
=============================================================================
