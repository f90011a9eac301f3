---------------------------- MODULE BridgeProofs ----------------------------
(***************************************************************************)
(* Proofs about Bridge: for any number of tasks in the hooks, and any      *)
(* length of the event queue.                                              *)
(***************************************************************************)
EXTENDS Bridge, TLAPS

Uniform == \A f \in Hooks : netif[f] = IF enabled THEN "bridge" ELSE "orig"

\* Which of the pointers are replaced, and which saved, at each store of the
\* event task.
Stores ==
  /\ netif["lo_sta"] = "orig" /\ netif["lo_ap"] = "orig"
  /\ ev_pc \in {"idle", "init", "save", "deinit", "retry"} => Uniform
  /\ ev_pc = "save" => ev_i \in 1..6 /\ nifs /\ \A j \in 1..6 : j < ev_i => saved[SaveOrder[j]] = "orig"
  /\ ev_pc = "install" =>
       ev_i \in 1..4 /\ \A j \in 1..4 : netif[InstallOrder[j]] = IF j < ev_i THEN "bridge" ELSE "orig"
  /\ ev_pc = "enable" => \A f \in Hooks : netif[f] = "bridge"
  /\ ev_pc = "restore" =>
       ev_i \in 1..4 /\ \A j \in 1..4 : netif[RestoreOrder[j]] = IF j < ev_i THEN "orig" ELSE "bridge"

\* How far the bridge follows the connection.
Follows ==
  /\ ev_pc = "idle" => enabled = ap_connect
  /\ ev_pc \in {"init", "save", "install", "enable"} => ap_connect
  /\ ev_pc \in {"save", "install", "enable", "restore", "retry"} => ~enabled

\* Wherever a hook is installed, or still runs, the stack's functions are saved.
Originals == nifs /\ \A f \in Fields : saved[f] = "orig"
SavedInUse ==
  enabled \/ ev_pc \in {"install", "enable", "restore"} \/ (\E t \in Threads : pc[t] # "out")
    => Originals

BridgeInv == TypeOK /\ Stores /\ Follows /\ SavedInUse

-----------------------------------------------------------------------------
(* The orders in which the pointers are stored.                             *)

LEMMA SaveOrderCovers ==
  /\ Len(SaveOrder) = 6
  /\ \A j \in 1..6 : SaveOrder[j] \in Fields
  /\ \A f \in Fields : \E j \in 1..6 : SaveOrder[j] = f
BY DEF SaveOrder, Fields, Hooks

LEMMA InstallOrderCovers ==
  /\ Len(InstallOrder) = 4
  /\ \A j \in 1..4 : InstallOrder[j] \in Hooks
  /\ \A f \in Hooks : \E j \in 1..4 : InstallOrder[j] = f
  /\ \A i, j \in 1..4 : InstallOrder[i] = InstallOrder[j] => i = j
BY DEF InstallOrder, Hooks

LEMMA RestoreOrderCovers ==
  /\ Len(RestoreOrder) = 4
  /\ \A j \in 1..4 : RestoreOrder[j] \in Hooks
  /\ \A f \in Hooks : \E j \in 1..4 : RestoreOrder[j] = f
  /\ \A i, j \in 1..4 : RestoreOrder[i] = RestoreOrder[j] => i = j
BY DEF RestoreOrder, Hooks

LEMMA HooksAreFields ==
  /\ Hooks \subseteq Fields
  /\ "lo_sta" \in Fields \ Hooks /\ "lo_ap" \in Fields \ Hooks
  /\ \A f \in Fields : f \in Hooks \/ f = "lo_sta" \/ f = "lo_ap"
BY DEF Fields, Hooks

-----------------------------------------------------------------------------
LEMMA Booleans == TRUE \in BOOLEAN /\ FALSE \in BOOLEAN
BY Zenon

\* The queue only takes and gives events.
LEMMA QueueTyped ==
  ASSUME queue \in Seq(Events), Len(queue) =< QueueMax
  PROVE  /\ \A e \in Events : Post(e) => queue' \in Seq(Events) /\ Len(queue') =< QueueMax
         /\ \A e \in Events : Take(e) => queue' \in Seq(Events) /\ Len(queue') =< QueueMax
<1> USE BridgeAssumption
<1>1. ASSUME NEW e \in Events, Post(e) PROVE queue' \in Seq(Events) /\ Len(queue') =< QueueMax
  BY <1>1 DEF Post
<1>2. ASSUME NEW e \in Events, Take(e) PROVE queue' \in Seq(Events) /\ Len(queue') =< QueueMax
  BY <1>2 DEF Take
<1> QED BY <1>1, <1>2

LEMMA BridgeInitial == Init => BridgeInv
<1> SUFFICES ASSUME Init PROVE BridgeInv
  OBVIOUS
<1>1. TypeOK
  <2>1. nifs \in BOOLEAN /\ enabled \in BOOLEAN /\ ap_connect \in BOOLEAN /\ dhcp \in BOOLEAN
        /\ reachable \in BOOLEAN
    BY Booleans, Zenon DEF Init
  <2>2. queue \in Seq(Events) /\ Len(queue) =< QueueMax
    BY BridgeAssumption DEF Init, Events
  <2>3. netif \in [Fields -> {"orig", "bridge"}] /\ saved \in [Fields -> {"NULL", "orig", "bridge"}]
    BY DEF Init
  <2>4. ev_pc \in EvPCs /\ ev_i \in 1..7 /\ sta \in {"down", "trying", "up"}
    BY DEF Init, EvPCs
  <2>5. pc \in [Threads -> {"out", "called", "pass", "body"}] /\ fn \in [Threads -> Hooks]
    BY DEF Init, Hooks
  <2> QED BY <2>1, <2>2, <2>3, <2>4, <2>5 DEF TypeOK
<1>2. Stores /\ Follows /\ SavedInUse
  BY HooksAreFields DEF Init, Stores, Uniform, Follows, SavedInUse
<1> QED BY <1>1, <1>2 DEF BridgeInv

-----------------------------------------------------------------------------
(* The steps.  Those of the driver touch none of what the invariant is      *)
(* about, those of the frames only how many tasks run in the hooks.         *)

LEMMA DriverKeeps == BridgeInv /\ Driver => BridgeInv'
<1> SUFFICES ASSUME BridgeInv, Driver PROVE BridgeInv'
  OBVIOUS
<1>1. UNCHANGED router /\ UNCHANGED frames
  BY DEF Driver, Associate, Disconnect, Lease, Reach
<1>2. Stores' /\ Follows' /\ SavedInUse'
  BY <1>1 DEF BridgeInv, router, frames, Stores, Uniform, Follows, SavedInUse, Originals
<1>3. queue' \in Seq(Events) /\ Len(queue') =< QueueMax
  <2>1. "DISCONNECTED" \in Events /\ "GOT_IP" \in Events
    BY DEF Events
  <2>2. Post("DISCONNECTED") \/ Post("GOT_IP") \/ queue' = queue
    BY DEF Driver, Associate, Disconnect, Lease, Reach
  <2> QED BY <2>1, <2>2, QueueTyped DEF BridgeInv, TypeOK
<1>4. sta' \in {"down", "trying", "up"}
  BY DEF Driver, Associate, Disconnect, Lease, Reach, BridgeInv, TypeOK
<1>5. dhcp' \in BOOLEAN /\ reachable' \in BOOLEAN
  BY Booleans, Zenon DEF Driver, Associate, Disconnect, Lease, Reach, BridgeInv, TypeOK
<1>6. TypeOK'
  BY <1>1, <1>3, <1>4, <1>5 DEF BridgeInv, TypeOK, router, frames
<1> QED BY <1>2, <1>6 DEF BridgeInv

LEMMA FrameKeeps == ASSUME BridgeInv, NEW t \in Threads, Frame(t) PROVE BridgeInv'
<1>1. UNCHANGED router /\ UNCHANGED driver
  BY DEF Frame, Call, Check, Return
<1>2. pc' \in [Threads -> {"out", "called", "pass", "body"}] /\ fn' \in [Threads -> Hooks]
  BY DEF Frame, Call, Check, Return, BridgeInv, TypeOK
<1>3. TypeOK'
  BY <1>1, <1>2 DEF BridgeInv, TypeOK, router, driver
<1>4. Stores' /\ Follows'
  BY <1>1 DEF BridgeInv, router, Stores, Uniform, Follows
<1>5. SavedInUse'
  <2>1. CASE \E f \in Hooks : Call(t, f)
    <3>1. PICK f \in Hooks : netif[f] = "bridge"
      BY <2>1 DEF Call
    <3>2. Originals
      BY <3>1 DEF BridgeInv, TypeOK, EvPCs, Stores, Uniform, SavedInUse
    <3> QED BY <1>1, <3>2 DEF router, SavedInUse, Originals
  <2>2. CASE Check(t) \/ Return(t)
    <3>1. pc[t] # "out"
      BY <2>2 DEF Check, Return
    <3>2. Originals
      BY <3>1 DEF BridgeInv, SavedInUse
    <3> QED BY <1>1, <3>2 DEF router, SavedInUse, Originals
  <2> QED BY <2>1, <2>2 DEF Frame
<1> QED BY <1>3, <1>4, <1>5 DEF BridgeInv

\* The event task touches neither the frames nor, but for its queue, the driver.
LEMMA EventTypes == BridgeInv /\ EventTask => TypeOK'
<1> SUFFICES ASSUME BridgeInv, EventTask PROVE TypeOK'
  OBVIOUS
<1>1. UNCHANGED frames /\ UNCHANGED reachable
  BY DEF EventTask, StaStart, StaDisconnected, GotIp, Retry, BridgeInit, Save, Install, Enable,
         BridgeDeinit, Restore, driver
<1>2. queue' \in Seq(Events) /\ Len(queue') =< QueueMax
  <2>1. "STA_START" \in Events /\ "DISCONNECTED" \in Events /\ "GOT_IP" \in Events
    BY DEF Events
  <2>2. Take("STA_START") \/ Take("DISCONNECTED") \/ Take("GOT_IP") \/ queue' = queue
    BY DEF EventTask, StaStart, StaDisconnected, GotIp, Retry, BridgeInit, Save, Install, Enable,
           BridgeDeinit, Restore, driver
  <2> QED BY <2>1, <2>2, QueueTyped DEF BridgeInv, TypeOK
<1>3. sta' \in {"down", "trying", "up"}
  BY DEF EventTask, StaStart, StaDisconnected, GotIp, Retry, BridgeInit, Save, Install, Enable,
         BridgeDeinit, Restore, driver, Connect, BridgeInv, TypeOK
<1>4. /\ nifs' \in BOOLEAN /\ enabled' \in BOOLEAN /\ ap_connect' \in BOOLEAN
      /\ dhcp' \in BOOLEAN
  BY Booleans, Zenon DEF EventTask, StaStart, StaDisconnected, GotIp, Retry, BridgeInit, Save, Install,
         Enable, BridgeDeinit, Restore, driver, router, BridgeInv, TypeOK
<1>5. ev_pc' \in EvPCs
  BY DEF EventTask, StaStart, StaDisconnected, GotIp, Retry, BridgeInit, Save, Install, Enable,
         BridgeDeinit, Restore, router, BridgeInv, TypeOK, EvPCs
<1>6. ev_i' \in 1..7
  <2>1. CASE Save
    BY <2>1, SaveOrderCovers DEF Save, BridgeInv, Stores
  <2>2. CASE Install
    BY <2>2, InstallOrderCovers DEF Install, BridgeInv, Stores
  <2>3. CASE Restore
    BY <2>3, RestoreOrderCovers DEF Restore, BridgeInv, Stores
  <2>4. CASE ev_i' = 1 \/ ev_i' = ev_i
    BY <2>4 DEF BridgeInv, TypeOK
  <2> QED BY <2>1, <2>2, <2>3, <2>4 DEF EventTask, StaStart, StaDisconnected, GotIp, Retry, BridgeInit,
                                        Enable, BridgeDeinit, router
<1>7. netif' \in [Fields -> {"orig", "bridge"}]
  <2>1. CASE Install
    BY <2>1 DEF Install, BridgeInv, TypeOK
  <2>2. CASE Restore
    <3>1. ev_i \in 1..4 /\ Originals
      BY <2>2 DEF Restore, BridgeInv, Stores, SavedInUse
    <3>2. saved[RestoreOrder[ev_i]] = "orig"
      BY <3>1, RestoreOrderCovers, HooksAreFields DEF Originals
    <3> QED BY <2>2, <3>2 DEF Restore, BridgeInv, TypeOK
  <2>3. CASE netif' = netif
    BY <2>3 DEF BridgeInv, TypeOK
  <2> QED BY <2>1, <2>2, <2>3 DEF EventTask, StaStart, StaDisconnected, GotIp, Retry, BridgeInit, Save,
                                  Enable, BridgeDeinit, router
<1>8. saved' \in [Fields -> {"NULL", "orig", "bridge"}]
  <2>1. CASE Save
    <3>1. netif[SaveOrder[ev_i]] \in {"orig", "bridge"}
      BY <2>1, SaveOrderCovers DEF Save, BridgeInv, TypeOK, Stores
    <3> QED BY <2>1, <3>1 DEF Save, BridgeInv, TypeOK
  <2>2. CASE saved' = saved
    BY <2>2 DEF BridgeInv, TypeOK
  <2> QED BY <2>1, <2>2 DEF EventTask, StaStart, StaDisconnected, GotIp, Retry, BridgeInit, Install,
                            Enable, BridgeDeinit, Restore, router
<1> QED BY <1>1, <1>2, <1>3, <1>4, <1>5, <1>6, <1>7, <1>8 DEF TypeOK, frames, BridgeInv

\* Handlers that begin or end, and leave the pointers alone.
LEMMA HandlersKeep ==
  ASSUME BridgeInv, StaStart \/ StaDisconnected \/ GotIp \/ Retry \/ BridgeInit \/ BridgeDeinit
  PROVE  Stores' /\ Follows' /\ SavedInUse'
<1>1. netif' = netif /\ saved' = saved /\ pc' = pc
  BY DEF StaStart, StaDisconnected, GotIp, Retry, BridgeInit, BridgeDeinit, router, frames
<1>2. Stores'
  <2>1. CASE BridgeDeinit
    BY <1>1, <2>1, RestoreOrderCovers DEF BridgeInv, BridgeDeinit, Stores, Uniform
  <2>2. CASE BridgeInit
    BY <1>1, <2>2 DEF BridgeInv, BridgeInit, Stores, Uniform
  <2>3. CASE StaStart \/ StaDisconnected \/ GotIp \/ Retry
    BY <1>1, <2>3 DEF BridgeInv, StaStart, StaDisconnected, GotIp, Retry, Take, router, Stores, Uniform
  <2> QED BY <2>1, <2>2, <2>3
<1>3. Follows'
  <2>1. CASE BridgeDeinit
    BY <2>1 DEF BridgeDeinit, Follows
  <2>2. CASE BridgeInit
    <3>1. ap_connect = TRUE /\ ap_connect' = TRUE /\ enabled' = enabled /\ enabled \in BOOLEAN
      BY <2>2 DEF BridgeInv, BridgeInit, Follows, TypeOK
    <3>2. enabled = TRUE => ev_pc' = "idle"
      BY <2>2 DEF BridgeInit
    <3>3. enabled = FALSE => ev_pc' = "save"
      BY <2>2 DEF BridgeInit
    <3> QED BY <3>1, <3>2, <3>3 DEF Follows
  <2>3. CASE StaStart \/ StaDisconnected \/ GotIp
    BY <2>3 DEF BridgeInv, StaStart, StaDisconnected, GotIp, Take, router, Follows
  <2>4. CASE Retry
    <3>1. enabled = FALSE /\ enabled' = enabled /\ ap_connect' = FALSE /\ ev_pc' = "idle"
      BY <2>4 DEF BridgeInv, Retry, Follows, TypeOK
    <3> QED BY <3>1 DEF Follows
  <2> QED BY <2>1, <2>2, <2>3, <2>4
<1>4. SavedInUse'
  BY <1>1 DEF BridgeInv, StaStart, StaDisconnected, GotIp, Retry, BridgeInit, BridgeDeinit, Take, router,
              SavedInUse, Originals
<1> QED BY <1>2, <1>3, <1>4

LEMMA SaveKeeps == ASSUME BridgeInv, Save PROVE Stores' /\ Follows' /\ SavedInUse'
<1>1. ev_i \in 1..6 /\ nifs /\ ~enabled /\ Uniform /\ netif["lo_sta"] = "orig" /\ netif["lo_ap"] = "orig"
  BY DEF BridgeInv, Save, Stores, Follows
<1>2. netif[SaveOrder[ev_i]] = "orig"
  BY <1>1, SaveOrderCovers, HooksAreFields DEF Uniform
<1>3. \A f \in Fields : saved'[f] = IF f = SaveOrder[ev_i] THEN "orig" ELSE saved[f]
  BY <1>2 DEF Save, BridgeInv, TypeOK
<1>4. netif' = netif /\ enabled' = enabled /\ nifs' = nifs /\ ap_connect' = ap_connect /\ pc' = pc
  BY DEF Save, frames
<1>5. \A j \in 1..6 : j =< ev_i => saved'[SaveOrder[j]] = "orig"
  BY <1>1, <1>3, SaveOrderCovers DEF BridgeInv, Save, Stores
<1>6. CASE ev_i < 6
  <2>1. ev_i' = ev_i + 1 /\ ev_pc' = "save" /\ ev_pc = "save"
    BY <1>6, SaveOrderCovers DEF Save
  <2>2. \A j \in 1..6 : j < ev_i' => saved'[SaveOrder[j]] = "orig"
    BY <1>1, <1>5, <2>1
  <2>3. Stores'
    BY <1>1, <1>4, <1>6, <2>1, <2>2 DEF Stores, Uniform
  <2>4. SavedInUse'
    BY <1>1, <1>3, <1>4, <2>1 DEF BridgeInv, SavedInUse, Originals
  <2> QED BY <1>4, <2>1, <2>3, <2>4 DEF BridgeInv, Follows
<1>7. CASE ev_i = 6
  <2>1. ev_i' = 1 /\ ev_pc' = "install" /\ ev_pc = "save"
    BY <1>7, SaveOrderCovers DEF Save
  <2>2. \A f \in Fields : saved'[f] = "orig"
    BY <1>5, <1>7, SaveOrderCovers
  <2>3. Stores'
    BY <1>1, <1>4, <2>1, InstallOrderCovers DEF Stores, Uniform
  <2> QED BY <1>1, <1>4, <2>1, <2>2, <2>3 DEF BridgeInv, Follows, SavedInUse, Originals
<1> QED BY <1>1, <1>6, <1>7

LEMMA InstallKeeps == ASSUME BridgeInv, Install PROVE Stores' /\ Follows' /\ SavedInUse'
<1>1. ev_i \in 1..4 /\ Originals /\ ~enabled
  BY DEF BridgeInv, Install, Stores, Follows, SavedInUse
<1>2. \A f \in Fields : netif'[f] = IF f = InstallOrder[ev_i] THEN "bridge" ELSE netif[f]
  BY DEF Install, BridgeInv, TypeOK
<1>3. saved' = saved /\ enabled' = enabled /\ nifs' = nifs /\ ap_connect' = ap_connect /\ pc' = pc
  BY DEF Install, frames
<1>4. netif'["lo_sta"] = "orig" /\ netif'["lo_ap"] = "orig"
  BY <1>1, <1>2, InstallOrderCovers, HooksAreFields DEF BridgeInv, Stores
<1>5. \A j \in 1..4 : netif'[InstallOrder[j]] = IF j =< ev_i THEN "bridge" ELSE "orig"
  BY <1>1, <1>2, InstallOrderCovers, HooksAreFields DEF BridgeInv, Install, Stores
<1>6. CASE ev_i < 4
  <2>1. ev_i' = ev_i + 1 /\ ev_pc' = "install" /\ ev_pc = "install"
    BY <1>6, InstallOrderCovers DEF Install
  <2>2. Stores'
    BY <1>1, <1>4, <1>5, <1>6, <2>1 DEF Stores
  <2> QED BY <1>1, <1>3, <2>1, <2>2 DEF BridgeInv, Follows, SavedInUse, Originals
<1>7. CASE ev_i = 4
  <2>1. ev_pc' = "enable" /\ ev_pc = "install"
    BY <1>7, InstallOrderCovers DEF Install
  <2>2. \A f \in Hooks : netif'[f] = "bridge"
    BY <1>5, <1>7, InstallOrderCovers
  <2>3. Stores'
    BY <1>4, <2>1, <2>2 DEF Stores
  <2> QED BY <1>1, <1>3, <2>1, <2>3 DEF BridgeInv, Follows, SavedInUse, Originals
<1> QED BY <1>1, <1>6, <1>7

LEMMA EnableKeeps == ASSUME BridgeInv, Enable PROVE Stores' /\ Follows' /\ SavedInUse'
<1>1. Originals /\ ap_connect /\ \A f \in Hooks : netif[f] = "bridge"
  BY DEF BridgeInv, Enable, Stores, Follows, SavedInUse
<1>2. Stores'
  BY <1>1 DEF BridgeInv, Enable, Stores, Uniform
<1>3. Follows'
  BY <1>1 DEF Enable, Follows
<1>4. SavedInUse'
  BY <1>1 DEF Enable, SavedInUse, Originals
<1> QED BY <1>2, <1>3, <1>4

LEMMA RestoreKeeps == ASSUME BridgeInv, Restore PROVE Stores' /\ Follows' /\ SavedInUse'
<1>1. ev_i \in 1..4 /\ Originals /\ ~enabled
  BY DEF BridgeInv, Restore, Stores, Follows, SavedInUse
<1>2. \A f \in Fields : netif'[f] = IF f = RestoreOrder[ev_i] THEN "orig" ELSE netif[f]
  BY <1>1, RestoreOrderCovers, HooksAreFields DEF Restore, BridgeInv, TypeOK, Originals
<1>3. saved' = saved /\ enabled' = enabled /\ nifs' = nifs /\ ap_connect' = ap_connect /\ pc' = pc
  BY DEF Restore, frames
<1>4. netif'["lo_sta"] = "orig" /\ netif'["lo_ap"] = "orig"
  BY <1>1, <1>2, HooksAreFields DEF BridgeInv, Stores
<1>5. \A j \in 1..4 : netif'[RestoreOrder[j]] = IF j =< ev_i THEN "orig" ELSE "bridge"
  BY <1>1, <1>2, RestoreOrderCovers, HooksAreFields DEF BridgeInv, Restore, Stores
<1>6. CASE ev_i < 4
  <2>1. ev_i' = ev_i + 1 /\ ev_pc' = "restore" /\ ev_pc = "restore"
    BY <1>6, RestoreOrderCovers DEF Restore
  <2>2. Stores'
    BY <1>1, <1>4, <1>5, <1>6, <2>1 DEF Stores
  <2> QED BY <1>1, <1>3, <2>1, <2>2 DEF BridgeInv, Follows, SavedInUse, Originals
<1>7. CASE ev_i = 4
  <2>1. ev_pc' = "retry" /\ ev_pc = "restore"
    BY <1>7, RestoreOrderCovers DEF Restore
  <2>2. Uniform'
    BY <1>1, <1>3, <1>5, <1>7, RestoreOrderCovers DEF Uniform
  <2>3. Stores'
    BY <1>4, <2>1, <2>2 DEF Stores
  <2> QED BY <1>1, <1>3, <2>1, <2>3 DEF BridgeInv, Follows, SavedInUse, Originals
<1> QED BY <1>1, <1>6, <1>7

LEMMA BridgeStep == BridgeInv /\ [Next]_vars => BridgeInv'
<1> SUFFICES ASSUME BridgeInv, [Next]_vars PROVE BridgeInv'
  OBVIOUS
<1>1. CASE Driver
  BY <1>1, DriverKeeps
<1>2. CASE EventTask
  <2>1. TypeOK'
    BY <1>2, EventTypes
  <2>2. Stores' /\ Follows' /\ SavedInUse'
    BY <1>2, HandlersKeep, SaveKeeps, InstallKeeps, EnableKeeps, RestoreKeeps DEF EventTask
  <2> QED BY <2>1, <2>2 DEF BridgeInv
<1>3. CASE \E t \in Threads : Frame(t)
  BY <1>3, FrameKeeps
<1>4. CASE UNCHANGED vars
  BY <1>4 DEF vars, router, driver, frames, BridgeInv, TypeOK, Stores, Uniform, Follows, SavedInUse, Originals
<1> QED BY <1>1, <1>2, <1>3, <1>4 DEF Next

-----------------------------------------------------------------------------
LEMMA BridgeAlways == Spec => []BridgeInv
BY BridgeInitial, BridgeStep, PTL DEF Spec

\* Every variable has its type, however many tasks run in the hooks: in
\* particular no pointer of an interface is ever put back to NULL.
THEOREM TypeCorrect == Spec => []TypeOK
BY BridgeAlways, PTL DEF BridgeInv

\* A task in a hook of the bridge finds the functions of the stack saved,
\* wherever the event task is in its stores.
THEOREM OriginalsCalled == Spec => []HooksCallOriginals
<1>1. BridgeInv => HooksCallOriginals
  <2> SUFFICES ASSUME BridgeInv, NEW t \in Threads, pc[t] # "out"
               PROVE  nifs /\ \A f \in Uses[fn[t]] : saved[f] = "orig"
    BY DEF HooksCallOriginals
  <2>1. Originals
    BY DEF BridgeInv, SavedInUse
  <2>2. fn[t] \in Hooks
    BY DEF BridgeInv, TypeOK
  <2>3. Uses[fn[t]] \subseteq Fields
    BY <2>2 DEF Uses, Hooks, Fields
  <2> QED BY <2>1, <2>3 DEF Originals
<1> QED BY <1>1, BridgeAlways, PTL

\* Between events the hooks are all installed or all removed, as the handler
\* believes the uplink to be, whatever order the events came in.
THEOREM HooksFollow == Spec => []HooksFollowLink
<1>1. BridgeInv => HooksFollowLink
  BY DEF BridgeInv, Stores, Uniform, Follows, HooksFollowLink
<1> QED BY <1>1, BridgeAlways, PTL
=============================================================================
