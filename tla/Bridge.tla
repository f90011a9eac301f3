------------------------------- MODULE Bridge -------------------------------
(***************************************************************************)
(* Bridge mode: wifi_event_handler, run by the system event task, and the  *)
(* functions bridge_init and bridge_deinit with which it installs and      *)
(* removes the hooks of bridge.c in the two network interfaces, store by   *)
(* store, while other tasks deliver frames through those same pointers.    *)
(*                                                                         *)
(* The Wi-Fi driver and the DHCP client are modelled as the handler sees   *)
(* them: they post events to a queue, and a connection attempt that the    *)
(* handler asks for ends in an association or in a disconnection event.    *)
(* The tables that bridge_init and bridge_deinit also clear are those of   *)
(* the module Fdb, which can be cleared at any time.                       *)
(***************************************************************************)
EXTENDS Naturals, SequencesExt

CONSTANTS
  Threads,    \* the tasks that send and receive frames (Wi-Fi task, tcpip thread)
  QueueMax    \* bound on the events that wait

ASSUME BridgeAssumption == QueueMax \in Nat \ {0}

VARIABLES
  netif,      \* the function pointers of the two interfaces
  saved,      \* s_orig_input_sta ... s_orig_lo_ap
  nifs,       \* s_sta_nif and s_ap_nif are set
  enabled,    \* s_bridge_enabled
  ap_connect,
  ev_pc, ev_i,  \* the event task: where it is, and in which store
  queue,      \* the events posted and not yet handled
  sta,        \* the station of the driver
  dhcp,       \* the DHCP client runs
  reachable,  \* the uplink access point answers
  pc, fn      \* per thread: where it is in a hook, and in which

router == <<netif, saved, nifs, enabled, ap_connect, ev_pc, ev_i>>
driver == <<queue, sta, dhcp, reachable>>
frames == <<pc, fn>>
vars == <<router, driver, frames>>

\* The pointers that are replaced, and those that are only read.
Hooks == {"input_sta", "input_ap", "output_sta", "output_ap"}
Fields == Hooks \cup {"lo_sta", "lo_ap"}

SaveOrder == <<"input_sta", "input_ap", "lo_sta", "lo_ap", "output_sta", "output_ap">>
InstallOrder == <<"input_sta", "input_ap", "output_sta", "output_ap">>
RestoreOrder == <<"input_sta", "output_sta", "input_ap", "output_ap">>

\* The saved pointers that each hook calls.
Uses == [input_sta  |-> {"input_sta", "lo_ap", "lo_sta"},
         input_ap   |-> {"input_ap", "lo_sta", "lo_ap"},
         output_sta |-> {"output_sta", "lo_ap"},
         output_ap  |-> {"output_sta", "lo_ap"}]

EvPCs == {"idle", "init", "save", "install", "enable", "deinit", "restore", "retry"}
Events == {"STA_START", "DISCONNECTED", "GOT_IP"}

-----------------------------------------------------------------------------
\* Every variable has its type.
TypeOK ==
  /\ netif \in [Fields -> {"orig", "bridge"}]
  /\ saved \in [Fields -> {"NULL", "orig", "bridge"}]
  /\ nifs \in BOOLEAN /\ enabled \in BOOLEAN /\ ap_connect \in BOOLEAN
  /\ ev_pc \in EvPCs /\ ev_i \in 1..7
  /\ queue \in Seq(Events) /\ Len(queue) =< QueueMax
  /\ sta \in {"down", "trying", "up"}
  /\ dhcp \in BOOLEAN /\ reachable \in BOOLEAN
  /\ pc \in [Threads -> {"out", "called", "pass", "body"}]
  /\ fn \in [Threads -> Hooks]

\* After wifi_init has started the driver.
Init ==
  /\ netif = [f \in Fields |-> "orig"]
  /\ saved = [f \in Fields |-> "NULL"]
  /\ nifs = FALSE /\ enabled = FALSE /\ ap_connect = FALSE
  /\ ev_pc = "idle" /\ ev_i = 1
  /\ queue = <<"STA_START">>
  /\ sta = "down" /\ dhcp = FALSE /\ reachable \in BOOLEAN
  /\ pc = [t \in Threads |-> "out"]
  /\ fn = [t \in Threads |-> "input_sta"]

-----------------------------------------------------------------------------
(* The driver and the DHCP client.                                          *)

Post(e) == Len(queue) < QueueMax /\ queue' = Append(queue, e)

\* esp_wifi_connect.
Connect == sta' = IF sta = "down" THEN "trying" ELSE sta

Associate ==
  /\ sta = "trying" /\ reachable
  /\ sta' = "up" /\ dhcp' = TRUE
  /\ UNCHANGED <<queue, reachable, router, frames>>

\* An attempt fails, or an association is lost.
Disconnect ==
  /\ sta \in {"trying", "up"} /\ ~reachable
  /\ sta' = "down"
  /\ Post("DISCONNECTED")
  /\ UNCHANGED <<dhcp, reachable, router, frames>>

\* The DHCP client has an address, a first or a new one.  It is stopped only
\* when the event task comes to the disconnection, so its event may follow it.
Lease ==
  /\ dhcp /\ ~Contains(queue, "GOT_IP")
  /\ Post("GOT_IP")
  /\ UNCHANGED <<sta, dhcp, reachable, router, frames>>

Reach ==
  /\ reachable' = ~reachable
  /\ UNCHANGED <<queue, sta, dhcp, router, frames>>

Driver == Associate \/ Disconnect \/ Lease \/ Reach

-----------------------------------------------------------------------------
(* The event task: wifi_event_handler in bridge mode.                       *)

Take(e) == ev_pc = "idle" /\ queue # <<>> /\ Head(queue) = e /\ queue' = Tail(queue)

StaStart ==
  /\ Take("STA_START")
  /\ Connect
  /\ UNCHANGED <<router, dhcp, reachable, frames>>

StaDisconnected ==
  /\ Take("DISCONNECTED")
  /\ dhcp' = FALSE
  /\ ev_pc' = "deinit"
  /\ UNCHANGED <<netif, saved, nifs, enabled, ap_connect, ev_i, sta, reachable, frames>>

GotIp ==
  /\ Take("GOT_IP")
  /\ ap_connect' = TRUE
  /\ ev_pc' = "init"
  /\ UNCHANGED <<netif, saved, nifs, enabled, ev_i, sta, dhcp, reachable, frames>>

\* Faulty variant: bridge_init does not look whether the bridge is enabled.
BridgeInitAlways ==
  /\ ev_pc = "init"
  /\ nifs' = TRUE /\ ev_pc' = "save" /\ ev_i' = 1
  /\ UNCHANGED <<netif, saved, enabled, ap_connect, driver, frames>>

\* bridge_init: nothing to do when the bridge is enabled.
BridgeInit ==
  /\ ev_pc = "init"
  /\ IF enabled
     THEN ev_pc' = "idle" /\ UNCHANGED <<nifs, ev_i>>
     ELSE nifs' = TRUE /\ ev_pc' = "save" /\ ev_i' = 1
  /\ UNCHANGED <<netif, saved, enabled, ap_connect, driver, frames>>

Save ==
  /\ ev_pc = "save"
  /\ saved' = [saved EXCEPT ![SaveOrder[ev_i]] = netif[SaveOrder[ev_i]]]
  /\ IF ev_i < Len(SaveOrder)
     THEN ev_i' = ev_i + 1 /\ UNCHANGED ev_pc
     ELSE ev_i' = 1 /\ ev_pc' = "install"
  /\ UNCHANGED <<netif, nifs, enabled, ap_connect, driver, frames>>

Install ==
  /\ ev_pc = "install"
  /\ netif' = [netif EXCEPT ![InstallOrder[ev_i]] = "bridge"]
  /\ IF ev_i < Len(InstallOrder)
     THEN ev_i' = ev_i + 1 /\ UNCHANGED ev_pc
     ELSE ev_i' = 1 /\ ev_pc' = "enable"
  /\ UNCHANGED <<saved, nifs, enabled, ap_connect, driver, frames>>

\* The last store of bridge_init (the default interface, set just before, is
\* not restored by bridge_deinit and is read by none of this).
Enable ==
  /\ ev_pc = "enable"
  /\ enabled' = TRUE /\ ev_pc' = "idle"
  /\ UNCHANGED <<netif, saved, nifs, ap_connect, ev_i, driver, frames>>

BridgeDeinit ==
  /\ ev_pc = "deinit"
  /\ enabled' = FALSE /\ ev_i' = 1
  /\ ev_pc' = IF enabled THEN "restore" ELSE "retry"
  /\ UNCHANGED <<netif, saved, nifs, ap_connect, driver, frames>>

\* Faulty variant: the output hook of the access point stays installed.
RestoreThree ==
  /\ ev_pc = "restore"
  /\ netif' = [netif EXCEPT ![RestoreOrder[ev_i]] = saved[RestoreOrder[ev_i]]]
  /\ IF ev_i < Len(RestoreOrder) - 1
     THEN ev_i' = ev_i + 1 /\ UNCHANGED ev_pc
     ELSE ev_i' = 1 /\ ev_pc' = "retry"
  /\ UNCHANGED <<saved, nifs, enabled, ap_connect, driver, frames>>

\* bridge_deinit puts the pointers back (the interfaces and the saved input
\* functions, which it tests first, are set by then).
Restore ==
  /\ ev_pc = "restore"
  /\ netif' = [netif EXCEPT ![RestoreOrder[ev_i]] = saved[RestoreOrder[ev_i]]]
  /\ IF ev_i < Len(RestoreOrder)
     THEN ev_i' = ev_i + 1 /\ UNCHANGED ev_pc
     ELSE ev_i' = 1 /\ ev_pc' = "retry"
  /\ UNCHANGED <<saved, nifs, enabled, ap_connect, driver, frames>>

\* Faulty variant: only an established connection is retried.
RetryConnected ==
  /\ ev_pc = "retry" /\ ev_pc' = "idle"
  /\ ap_connect' = FALSE
  /\ IF ap_connect THEN Connect ELSE UNCHANGED sta
  /\ UNCHANGED <<netif, saved, nifs, enabled, ev_i, queue, dhcp, reachable, frames>>

\* The end of the disconnection handler.
Retry ==
  /\ ev_pc = "retry" /\ ev_pc' = "idle"
  /\ ap_connect' = FALSE
  /\ Connect
  /\ UNCHANGED <<netif, saved, nifs, enabled, ev_i, queue, dhcp, reachable, frames>>

EventTask == \/ StaStart \/ StaDisconnected \/ GotIp \/ Retry
             \/ BridgeInit \/ Save \/ Install \/ Enable
             \/ BridgeDeinit \/ Restore

-----------------------------------------------------------------------------
(* A task with a frame: bridge_input_sta, bridge_input_ap,                  *)
(* bridge_output_sta, bridge_output_ap.                                     *)

\* It reads the pointer of the interface, and calls it.
Call(t, f) ==
  /\ pc[t] = "out" /\ netif[f] = "bridge"
  /\ pc' = [pc EXCEPT ![t] = "called"] /\ fn' = [fn EXCEPT ![t] = f]
  /\ UNCHANGED <<router, driver>>

\* The hook looks at s_bridge_enabled once.
Check(t) ==
  /\ pc[t] = "called"
  /\ pc' = [pc EXCEPT ![t] = IF enabled THEN "body" ELSE "pass"]
  /\ UNCHANGED <<fn, router, driver>>

\* It hands the frame on through saved pointers and returns.
Return(t) ==
  /\ pc[t] \in {"pass", "body"}
  /\ pc' = [pc EXCEPT ![t] = "out"]
  /\ UNCHANGED <<fn, router, driver>>

Frame(t) == (\E f \in Hooks : Call(t, f)) \/ Check(t) \/ Return(t)

-----------------------------------------------------------------------------
Next == Driver \/ EventTask \/ \E t \in Threads : Frame(t)

\* The event task is never starved, the driver ends every attempt that it
\* starts, and the DHCP server of a reachable uplink answers.
Fairness == WF_vars(EventTask) /\ WF_vars(Associate) /\ WF_vars(Disconnect) /\ WF_vars(Lease)

Spec == Init /\ [][Next]_vars
FairSpec == Spec /\ Fairness

-----------------------------------------------------------------------------
(* Correctness.                                                             *)

\* A task inside a hook finds the interfaces set, and in every saved pointer
\* that the hook calls the function of the stack: not NULL, and not a hook of
\* the bridge, which would call itself without end.
HooksCallOriginals ==
  \A t \in Threads : pc[t] # "out" =>
     nifs /\ \A f \in Uses[fn[t]] : saved[f] = "orig"

\* Between events the hooks are installed, all of them, exactly when the
\* bridge is enabled, and the bridge is enabled exactly when the handler
\* believes the uplink to be connected.
HooksFollowLink ==
  ev_pc = "idle" =>
     /\ enabled = ap_connect
     /\ \A f \in Hooks : netif[f] = IF enabled THEN "bridge" ELSE "orig"

\* When the uplink stays within reach, the router ends up bridging.
BridgeComesUp == <>[]reachable => <>[](sta = "up" /\ enabled)
=============================================================================
