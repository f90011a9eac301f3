------------------------------ MODULE PortMap -------------------------------
(***************************************************************************)
(* The port forwarding table of the router: portmap_tab in RAM, its blob   *)
(* in NVS, and the NAPT mappings of lwIP, as add_portmap, del_portmap and  *)
(* the erasure of the settings (by the web server task and the console     *)
(* task), the GOT_IP handler (event task) and a restart change them.  No   *)
(* lock protects the table, so the steps of these tasks interleave.        *)
(*                                                                         *)
(* Granularity: a task's read or write of one slot is one step, except     *)
(* that add_portmap writes (proto, mport), (daddr, dport) and valid one    *)
(* after the other and apply_portmap_tab reads them one after the other.   *)
(***************************************************************************)
EXTENDS FiniteSetsExt

CONSTANTS
  Tasks,         \* the tasks that run commands
  AbortOnError,  \* those that pass the result to ESP_ERROR_CHECK (console)
  PORTMAP_MAX,   \* slots of portmap_tab
  Keys,          \* (proto, mport) pairs
  Dests,         \* (daddr, dport) pairs
  Requests,      \* the rules that commands name
  Addrs,         \* addresses the uplink can hand out
  StaticIp,      \* the configured static address, or NoAddr
  NoAddr,        \* my_ip before the first GOT_IP
  Zero,          \* a field of a slot never written
  NoRule,        \* a slot that is not valid, seen as a rule
  Unmapped,      \* a key without a NAPT mapping
  BridgeMode,    \* bridge_enabled == 1
  NvsReadFails,  \* reading the blob back can fail
  Serialized     \* TRUE: a command or a GOT_IP only starts when none runs

ASSUME ConstantsAssumption ==
  /\ PORTMAP_MAX \in Nat \ {0}
  /\ Requests \subseteq [key : Keys, dest : Dests]
  /\ NoRule \notin Requests
  /\ NoRule \notin [key : Keys \cup {Zero}, dest : Dests \cup {Zero}]
  /\ StaticIp \in Addrs \cup {NoAddr}
  /\ AbortOnError \subseteq Tasks
  /\ \A b \in {BridgeMode, NvsReadFails, Serialized} : b \in BOOLEAN

VARIABLES
  tab,    \* portmap_tab
  blob,   \* the table last given to nvs_set_blob, or none since it was erased
  flash,  \* the table last committed
  napt,   \* lwIP's table, by (proto, mport)
  my_ip,
  pc, kind, rule, slot,  \* per task: where its command is and its arguments
  shared, \* history, per task: another one picked the slot of its command
  ev_pc, ev_i, ev_key    \* the GOT_IP handler: where it is, its index, its key

args == <<kind, rule, slot, shared>>
cmd == <<pc, args>>
ev == <<ev_pc, ev_i, ev_key>>
vars == <<tab, blob, flash, napt, my_ip, pc, kind, rule, slot, shared, ev_pc, ev_i, ev_key>>

Slots == 1..PORTMAP_MAX
Entry == [valid : BOOLEAN, key : Keys \cup {Zero}, dest : Dests \cup {Zero}]
Mapping == [maddr : Addrs \cup {NoAddr}, dest : Dests \cup {Zero}]
EmptyTab == [s \in Slots |-> [valid |-> FALSE, key |-> Zero, dest |-> Zero]]

RuleOf(e) == [key |-> e.key, dest |-> e.dest]

\* The table as its user sees it: the rules of the valid slots.
Stored(T) == [s \in Slots |-> IF T[s].valid THEN RuleOf(T[s]) ELSE NoRule]

\* The mappings that ip_portmap_add leaves when apply_portmap_tab walks table
\* T on an empty NAPT table: of two slots with one key the later one wins.
Applied(T, ip) ==
  [k \in Keys |->
     LET S == {s \in Slots : T[s].valid /\ T[s].key = k}
     IN IF S = {} THEN Unmapped ELSE [maddr |-> ip, dest |-> T[Max(S)].dest]]

AllIdle == \A t \in Tasks : pc[t] = "idle"
Quiet == AllIdle /\ ev_pc = "idle"

Writing == {"key", "dest", "valid", "clear"}
Saving == {"blob", "commit", "napt"}
PCs == {"idle", "scan", "erased"} \cup Writing \cup Saving

\* Every variable has its type, and a running command has a rule to work on.
TypeOK ==
  /\ tab \in [Slots -> Entry]
  /\ blob \in [Slots -> Entry]
  /\ flash \in [Slots -> Entry]
  /\ napt \in [Keys -> Mapping \cup {Unmapped}]
  /\ my_ip \in Addrs \cup {NoAddr}
  /\ pc \in [Tasks -> PCs]
  /\ kind \in [Tasks -> {"add", "del"}]
  /\ rule \in [Tasks -> Requests \cup {NoRule}]
  /\ slot \in [Tasks -> Slots]
  /\ shared \in [Tasks -> BOOLEAN]
  /\ \A t \in Tasks : pc[t] \notin {"idle", "erased"} => rule[t] \in Requests
  /\ ev_pc \in {"idle", "delete", "check", "key", "call"}
  /\ ev_i \in 1..PORTMAP_MAX + 1
  /\ ev_pc \in {"key", "call"} => ev_i \in Slots
  /\ ev_key \in Keys \cup {Zero}

Init ==
  /\ tab = EmptyTab /\ blob = EmptyTab /\ flash = EmptyTab
  /\ napt = [k \in Keys |-> Unmapped]
  /\ my_ip = StaticIp
  /\ pc = [t \in Tasks |-> "idle"]
  /\ kind = [t \in Tasks |-> "add"]
  /\ rule = [t \in Tasks |-> NoRule]
  /\ slot = [t \in Tasks |-> 1]
  /\ shared = [t \in Tasks |-> FALSE]
  /\ ev_pc = "idle" /\ ev_i = 1 /\ ev_key = Zero

Goto(t, p) == pc' = [pc EXCEPT ![t] = p]

-----------------------------------------------------------------------------
(* Restart: power loss at any moment, a failing NVS call (ESP_ERROR_CHECK   *)
(* aborts) or a refused add on the console.  NVS keeps the committed blob   *)
(* or one that was set and not yet committed, and nothing if the reset pin  *)
(* is held.  Then app_main loads the table and, with a static address,      *)
(* wifi_init applies it.                                                    *)

LoadedTabs(T) == {T} \cup (IF NvsReadFails THEN {EmptyTab} ELSE {})

Restart ==
  /\ flash' \in {flash, blob, EmptyTab}
  /\ blob' = flash'
  /\ tab' \in LoadedTabs(flash')
  /\ my_ip' = StaticIp
  /\ napt' = IF StaticIp = NoAddr THEN [k \in Keys |-> Unmapped]
                                  ELSE Applied(tab', StaticIp)
  /\ pc' = [t \in Tasks |-> "idle"]
  /\ kind' = [t \in Tasks |-> "add"]
  /\ rule' = [t \in Tasks |-> NoRule]
  /\ slot' = [t \in Tasks |-> 1]
  /\ shared' = [t \in Tasks |-> FALSE]
  /\ ev_pc' = "idle" /\ ev_i' = 1 /\ ev_key' = Zero

-----------------------------------------------------------------------------
(* add_portmap, del_portmap and the erasure of the namespace.               *)

Begin(t, k, r) ==
  /\ pc[t] = "idle"
  /\ Serialized => Quiet
  /\ Goto(t, "scan")
  /\ kind' = [kind EXCEPT ![t] = k]
  /\ rule' = [rule EXCEPT ![t] = r]
  /\ UNCHANGED <<tab, blob, flash, napt, my_ip, slot, shared, ev>>

\* The web form: bad input returns before add_portmap or del_portmap is called.
PostAdd(t, r) == t \notin AbortOnError /\ Begin(t, "add", r)
PostDel(t, r) == t \notin AbortOnError /\ Begin(t, "del", r)

\* The console command portmap [add|del].
Console(t, r) == t \in AbortOnError /\ \E k \in {"add", "del"} : Begin(t, k, r)

\* Task t takes slot s as target_idx.  It is shared, for t, with a task that has
\* yet to write it and, for any task that has it, with t.
Pick(t, s) ==
  /\ slot' = [slot EXCEPT ![t] = s]
  /\ shared' = [u \in Tasks |->
       IF u = t THEN \E w \in Tasks \ {t} : slot[w] = s /\ pc[w] \in Writing
                ELSE shared[u] \/ (slot[u] = s /\ pc[u] \in Writing \cup Saving)]

FreeSlots == {s \in Slots : ~tab[s].valid}
Matching(r) == {s \in Slots : tab[s].valid /\ RuleOf(tab[s]) = r}

\* Faulty variant: the first slot is taken whether it is free or not.
ScanAddAnySlot(t) ==
  /\ pc[t] = "scan" /\ kind[t] = "add"
  /\ Pick(t, 1)
  /\ Goto(t, "key")
  /\ UNCHANGED <<tab, blob, flash, napt, my_ip, kind, rule, ev>>

ScanAdd(t) ==
  /\ pc[t] = "scan" /\ kind[t] = "add"
  /\ FreeSlots # {}
  /\ Pick(t, Min(FreeSlots))
  /\ Goto(t, "key")
  /\ UNCHANGED <<tab, blob, flash, napt, my_ip, kind, rule, ev>>

\* ESP_ERR_NO_MEM: the web handler ignores it, the console command aborts.
Full(t) ==
  /\ pc[t] = "scan" /\ kind[t] = "add"
  /\ FreeSlots = {}
  /\ IF t \in AbortOnError
     THEN Restart
     ELSE Goto(t, "idle") /\ UNCHANGED <<tab, blob, flash, napt, my_ip,
                                         args, ev>>

WriteKey(t) ==
  /\ pc[t] = "key"
  /\ tab' = [tab EXCEPT ![slot[t]].key = rule[t].key]
  /\ Goto(t, "dest")
  /\ UNCHANGED <<blob, flash, napt, my_ip, args, ev>>

WriteDest(t) ==
  /\ pc[t] = "dest"
  /\ tab' = [tab EXCEPT ![slot[t]].dest = rule[t].dest]
  /\ Goto(t, "valid")
  /\ UNCHANGED <<blob, flash, napt, my_ip, args, ev>>

WriteValid(t) ==
  /\ pc[t] = "valid"
  /\ tab' = [tab EXCEPT ![slot[t]].valid = TRUE]
  /\ Goto(t, "blob")
  /\ UNCHANGED <<blob, flash, napt, my_ip, args, ev>>

ScanDel(t) ==
  /\ pc[t] = "scan" /\ kind[t] = "del"
  /\ LET M == Matching(rule[t])
     IN IF M = {} THEN Goto(t, "idle") /\ UNCHANGED <<slot, shared>>
                  ELSE Goto(t, "clear") /\ Pick(t, Min(M))
  /\ UNCHANGED <<tab, blob, flash, napt, my_ip, kind, rule, ev>>

\* Faulty variant: a deleted rule is not saved.
WriteInvalidUnsaved(t) ==
  /\ pc[t] = "clear"
  /\ tab' = [tab EXCEPT ![slot[t]].valid = FALSE]
  /\ Goto(t, "commit")
  /\ UNCHANGED <<blob, flash, napt, my_ip, args, ev>>

WriteInvalid(t) ==
  /\ pc[t] = "clear"
  /\ tab' = [tab EXCEPT ![slot[t]].valid = FALSE]
  /\ Goto(t, "blob")
  /\ UNCHANGED <<blob, flash, napt, my_ip, args, ev>>

\* Faulty variant: a save that another task has under way is taken for one's own.
SetBlobOnce(t) ==
  /\ pc[t] = "blob"
  /\ blob' = IF \E u \in Tasks : pc[u] = "commit" THEN blob ELSE tab
  /\ Goto(t, "commit")
  /\ UNCHANGED <<tab, flash, napt, my_ip, args, ev>>

\* save_portmap_tab: nvs_set_blob, then nvs_commit.
SetBlob(t) ==
  /\ pc[t] = "blob"
  /\ blob' = tab
  /\ Goto(t, "commit")
  /\ UNCHANGED <<tab, flash, napt, my_ip, args, ev>>

Commit(t) ==
  /\ pc[t] = "commit"
  /\ flash' = blob
  /\ Goto(t, "napt")
  /\ UNCHANGED <<tab, blob, napt, my_ip, args, ev>>

\* Faulty variant: the mapping of a deleted rule is left in lwIP.
CallNaptAddOnly(t) ==
  /\ pc[t] = "napt"
  /\ napt' = IF kind[t] = "add"
             THEN [napt EXCEPT ![rule[t].key] = [maddr |-> my_ip, dest |-> rule[t].dest]]
             ELSE napt
  /\ Goto(t, "idle")
  /\ UNCHANGED <<tab, blob, flash, my_ip, args, ev>>

\* ip_portmap_add (replaces the mapping of its key) or ip_portmap_remove.
CallNapt(t) ==
  /\ pc[t] = "napt"
  /\ napt' = [napt EXCEPT ![rule[t].key] =
                IF kind[t] = "add" THEN [maddr |-> my_ip, dest |-> rule[t].dest]
                                   ELSE Unmapped]
  /\ Goto(t, "idle")
  /\ UNCHANGED <<tab, blob, flash, my_ip, args, ev>>

\* The erase form, nvs_erase_namespace and nvs_erase: the stored table is gone,
\* the one in RAM stays until the restart.
EraseTable(t) ==
  /\ pc[t] = "idle"
  /\ Serialized => Quiet
  /\ blob' = EmptyTab
  /\ Goto(t, "erased")
  /\ UNCHANGED <<tab, flash, napt, my_ip, args, ev>>

EraseCommit(t) ==
  /\ pc[t] = "erased"
  /\ flash' = blob
  /\ Goto(t, "idle")
  /\ UNCHANGED <<tab, blob, napt, my_ip, args, ev>>

-----------------------------------------------------------------------------
(* IP_EVENT_STA_GOT_IP: delete_portmap_tab, then apply_portmap_tab.         *)

GotIp(a) ==
  /\ ev_pc = "idle"
  /\ Serialized => AllIdle
  /\ StaticIp # NoAddr => a = StaticIp
  /\ my_ip' = a
  /\ ev_pc' = IF BridgeMode THEN "idle" ELSE "delete"
  /\ ev_i' = 1
  /\ UNCHANGED <<tab, blob, flash, napt, cmd, ev_key>>

EvDelete ==
  /\ ev_pc = "delete" /\ ev_i \in Slots
  /\ napt' = IF tab[ev_i].valid THEN [napt EXCEPT ![tab[ev_i].key] = Unmapped]
                                ELSE napt
  /\ ev_i' = ev_i + 1
  /\ UNCHANGED <<tab, blob, flash, my_ip, cmd, ev_pc, ev_key>>

EvDeleted ==
  /\ ev_pc = "delete" /\ ev_i \notin Slots
  /\ ev_pc' = "check" /\ ev_i' = 1
  /\ UNCHANGED <<tab, blob, flash, napt, my_ip, cmd, ev_key>>

EvCheck ==
  /\ ev_pc = "check" /\ ev_i \in Slots
  /\ IF tab[ev_i].valid THEN ev_pc' = "key" /\ ev_i' = ev_i
                        ELSE ev_pc' = "check" /\ ev_i' = ev_i + 1
  /\ UNCHANGED <<tab, blob, flash, napt, my_ip, cmd, ev_key>>

EvKey ==
  /\ ev_pc = "key"
  /\ ev_key' = tab[ev_i].key
  /\ ev_pc' = "call"
  /\ UNCHANGED <<tab, blob, flash, napt, my_ip, cmd, ev_i>>

EvCall ==
  /\ ev_pc = "call"
  /\ napt' = [napt EXCEPT ![ev_key] = [maddr |-> my_ip, dest |-> tab[ev_i].dest]]
  /\ ev_pc' = "check" /\ ev_i' = ev_i + 1
  /\ UNCHANGED <<tab, blob, flash, my_ip, cmd, ev_key>>

\* Faulty variant: the walk stops one slot early.
EvReturnEarly ==
  /\ ev_pc = "check" /\ ev_i >= PORTMAP_MAX
  /\ ev_pc' = "idle" /\ ev_i' = 1 /\ ev_key' = Zero
  /\ UNCHANGED <<tab, blob, flash, napt, my_ip, cmd>>

EvReturn ==
  /\ ev_pc = "check" /\ ev_i \notin Slots
  /\ ev_pc' = "idle" /\ ev_i' = 1 /\ ev_key' = Zero
  /\ UNCHANGED <<tab, blob, flash, napt, my_ip, cmd>>

-----------------------------------------------------------------------------
Command(t) ==
  \/ \E r \in Requests : PostAdd(t, r) \/ PostDel(t, r) \/ Console(t, r)
  \/ ScanAdd(t) \/ Full(t)
  \/ WriteKey(t) \/ WriteDest(t) \/ WriteValid(t)
  \/ ScanDel(t) \/ WriteInvalid(t)
  \/ SetBlob(t) \/ Commit(t) \/ CallNapt(t)
  \/ EraseTable(t) \/ EraseCommit(t)

Event == \/ \E a \in Addrs : GotIp(a)
         \/ EvDelete \/ EvDeleted \/ EvCheck \/ EvKey \/ EvCall \/ EvReturn

Next == (\E t \in Tasks : Command(t)) \/ Event \/ Restart

Spec == Init /\ [][Next]_vars

-----------------------------------------------------------------------------
(* Correctness.                                                             *)

Target(t) == IF kind[t] = "add" THEN rule[t] ELSE NoRule

\* What a command changed, in a slot that no other command picked while it ran,
\* is in the table from the write of valid on, whole, and in flash when lwIP is
\* told and the user answered: however the commands of both tasks overlap, each
\* saving the table with what the other has written of its own.  Only an erasure
\* takes it away, with all the rest.
OwnChangeKept ==
  \A t \in Tasks : ~shared[t] =>
    /\ pc[t] \in Saving => Stored(tab)[slot[t]] = Target(t)
    /\ pc[t] = "napt" => flash = EmptyTab \/ Stored(flash)[slot[t]] = Target(t)

\* The rules that the router goes by: a slot being saved counts as it was before.
BeingSaved(s) == \E t \in Tasks : pc[t] \in {"blob", "commit"} /\ slot[t] = s
Held == [s \in Slots |-> IF tab[s].valid <=> BeingSaved(s) THEN NoRule ELSE RuleOf(tab[s])]

\* With commands that do not overlap, the committed table changes by whole
\* commands only, wherever the power is cut: it implements PortMapStore.
Store == INSTANCE PortMapStore WITH stored <- Stored(flash), held <- Held
StoreSpec == Store!StoreSpec

\* However many tasks change the table at once, in whatever slots: when they
\* are done, what is in flash is what is in RAM, to the last field, so that a
\* restart changes nothing; unless the stored table was erased, or could not be
\* read at boot and has not been changed since.
QuietIsSaved ==
  AllIdle => \/ flash = tab
             \/ flash = EmptyTab
             \/ NvsReadFails /\ tab = EmptyTab

\* With no command and no handler running, no key is forwarded unless the
\* table has a rule that says so, at the address the router now has.
ForwardsOnlyRules ==
  Quiet /\ ~BridgeMode => \A k \in Keys : napt[k] # Unmapped =>
     /\ napt[k].maddr = my_ip
     /\ \E s \in Slots : Stored(tab)[s] = [key |-> k, dest |-> napt[k].dest]

\* When the GOT_IP handler returns, and after a restart with a static address,
\* lwIP forwards exactly the rules of the table, at the router's address; of
\* two rules of one key, the one in the later slot.
ReconnectRestores ==
  [][/\ my_ip' # NoAddr
     /\ \/ ev_pc # "idle" /\ ev_pc' = "idle"
        \/ Restart
     => napt' = Applied(tab', my_ip')]_vars
=============================================================================
