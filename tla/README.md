# Verification of the ESP32 NAT router

TLA+ models of `src/` (the extended ESP32 NAT router), the TLC runs that check
them on small instances, and proofs, checked by TLAPS, of what must hold for
every table size, every number of tasks and every address.

The router joins an existing Wi-Fi network as a station (the *uplink*) and
opens an access point of its own. Its clients reach the uplink by NAT or, in
*bridge mode*, as if they were part of the uplink's network. Settings, port
forwardings and scan results live in flash (NVS); a web server and a console
change them; the Wi-Fi driver and lwIP call back into the program.

## 1. Inventory

Tasks that run this code: the **main task** (`app_main`, `wifi_init`, then the
console), the **event task** (`wifi_event_handler`, one event at a time), the
**web server task** (all URI handlers, one request at a time), the **DNS task**
(`dns_server_task`), the **update task** (`ota_task`), the timer task
(`timer.c`), the **Wi-Fi task** (receives frames, calls `netif->input`) and
the **tcpip thread** of lwIP (calls `netif->output`). Only the bridge tables are
guarded (`s_bridge_mux`); everything else is shared without a lock.

| component | state | operations | who calls it |
|---|---|---|---|
| port map | `portmap_tab`, its blob in NVS, lwIP's NAPT table, `my_ip` | `add_portmap`, `del_portmap`, `save_portmap_tab`, `get_portmap_tab`, `apply_portmap_tab`, `delete_portmap_tab` | web server, console, event task (GOT_IP), boot |
| bridge tables | `s_fdb`, `s_xid_map` | insert, lookup, expiry, clearing | Wi-Fi task, tcpip thread, event task |
| bridge life cycle | function pointers of the two netifs, the saved originals, `s_bridge_enabled` | `bridge_init`, `bridge_deinit`, the checks in the four hooks | event task; Wi-Fi task and tcpip thread run through the hooks |
| bridge data path | the two tables | `bridge_input_ap`, `bridge_input_sta`, `bridge_output_*`, DHCP snooping, proxy ARP | Wi-Fi task, tcpip thread |
| captive DNS and DHCP offer | `s_dns_running`, the task handle, the socket; the DHCP server of the access point and the DNS server it offers | `start_dns_server`, `stop_dns_server`, `dns_server_task`, `parse_dns_request`, `setDnsServer`, `fillDNS` | main, event and DNS task |
| firmware update | `otaRunning`, `finished`, `otaSuccess`, the update partition, the boot partition, the restart timer | `POST/GET /otalog`, `ota_task`, `POST /otaupload`, `restartByTimer` | web server, update task, timer |
| Wi-Fi scan result | NVS `scan_result`, `result_shown`; the picked `appliedSSID`; the pages in the browsers | `fillNodes`, the result page, "Use", the start page and its form, the deletion in `app_main` | web server, boot |
| lock of the UI | `locked`, `lock_pass` and its key in NVS | `/lock`, `/unlock`, `isLocked`, the boot | web server, boot |
| configuration | some 25 keys in NVS, what a boot reads of them | `/apply` (three forms), `set_*` and `bridge` on the console, the reset pin | web server, console, boot |
| NVS commands | `current_namespace`, `errno`, the entries of each namespace | `nvs_set`, `nvs_get`, `nvs_erase`, `nvs_erase_namespace`, `nvs_namespace` | console |
| helpers for texts | none | `sanitize_html`, URL decoding, the tokens of the scan list | the pages |
| system commands, static pages, LED and reset button, keep-alive | | | |

What is hard here: several tasks change one table without a lock; function
pointers are exchanged while other tasks call through them; flags are handed
from one task to another and tested after they have changed; power fails
between two writes to flash; messages of DHCP and ARP are late, repeated or
lost while tables forget. `PROJECT.json` lists each place under "hazards".

What makes each component correct:

* port map: each command changes exactly its slot, in flash all or nothing; what it
  changed is saved whoever saves at the same time; what lwIP forwards is what the
  table says.
* bridge tables: one entry per key, the latest; nothing is found after its
  lifetime; a live entry is evicted only when all are, the oldest first.
* bridge life cycle: a task in a hook always finds the original functions;
  the hooks are in exactly while the link is up; the router reconnects.
* bridge data path: the uplink sees one station; answers and packets reach the
  client they are for, once; clients get different addresses; nothing goes round.
* captive DNS: it serves until the uplink is first connected, ends when told,
  and releases its port; clients are never told to ask where nobody answers.
* firmware update: only a complete image is started; two updates do not write at
  once; one that failed does not block the next; an installed one is started.
* scan result: a new result is offered until seen, never deleted unseen, and
  deleted in the end; the list shows what was found, and what is picked from it
  becomes the uplink byte for byte, never with the password of another network.
* lock: with a password, a form is accepted only from somebody who gave it since
  the pages were locked, over restarts too.
* configuration: what was asked for, and accepted whole, is what the next boot
  runs, and that boot comes; no cut opens a protected access point; a page posted
  as it was shown changes nothing.
* NVS commands: what the user was told is stored is stored, under its type; what
  is printed can be typed again.

## 2. Modules

| module | models |
|---|---|
| `PortMapStore` | the abstract stored table: places that change by one whole command at a time |
| `PortMap` | the port map in detail; `StoreSpec` maps its committed table to `PortMapStore` |
| `MCPortMap` | the rules used for TLC |
| `PortMapProofs` | its properties for any table and any number of tasks |
| `LearningTable` | the abstract table of the bridge: what was last learned, or nothing |
| `Fdb` | a learning table: `s_fdb` and, with other keys and sizes, `s_xid_map`; `TableSpec` maps what a lookup finds to `LearningTable` |
| `FdbProofs` | its invariants, its eviction, and the refinement |
| `BridgePath`, `MCBridgePath` | what the hooks do with frames, with the stations and the uplink around them; its two tables are `LearningTable`s |
| `BridgePathProofs` | its six properties for any number of stations and addresses |
| `Bridge`, `BridgeProofs` | installing and removing the hooks |
| `CaptivePortal`, `MCCaptivePortal` | the captive DNS server and the offers of the DHCP server |
| `Ota` | downloads, uploads, the log page and the restart |
| `TaskProofs` | the safety properties of `CaptivePortal` and `Ota` |
| `ScanResult` | the scan result over restarts |
| `Texts` | what pages escape and forms decode, as functions on sequences of characters |
| `ScanPick`, `MCScanPick` | `ScanResult` with the list itself, the browsers, and the network picked from it |
| `ScanProofs` | the safety properties of both |
| `Settings`, `MCSettings` | the keys written by forms and commands, what a boot makes of them, what the pages show of them, and the lock of the pages |
| `SettingsProofs` | its safety properties for all forms, commands and texts |
| `NvsConsole`, `MCNvsConsole`, `NvsProofs` | the NVS commands |

Operators whose comment begins with "Faulty variant" are not part of any
specification. Each shows what a plausible mistake in the definition after it
would do to one property.

### How state and actions correspond to the code

**PortMap.** `tab` is `portmap_tab` (`valid`, `(proto, mport)` as `key`,
`(daddr, dport)` as `dest`), `blob` what was last given to `nvs_set_blob`,
`flash` what was last committed, `napt` lwIP's table by key. A command is
`Begin` (web or console), a scan, the three writes of `add_portmap` or the one of
`del_portmap`, `SetBlob`, `Commit` and `CallNapt`, each a step; so is each slot
of the walk of the GOT_IP handler, whose reads of `valid`, `mport` and `daddr`
are separate. An erasure (the erase form, `nvs_erase_namespace`, `nvs_erase`) takes the
stored table away and leaves the one in RAM (`EraseTable`, `EraseCommit`). `Restart` can
come at any step and takes as stored table the committed blob, the one that was
set and not yet committed, or none if the reset pin is held. `shared` is a history
variable: another task took the slot of the command (`Pick`), which the scans
without a lock allow. lwIP's functions are external: `ip_portmap_add` replaces the
mapping of its key.

**Fdb.** The clock is read (`StartInsert`) before the critical section
(`FinishInsert`); time can pass, and `Clear` (from `bridge_init` or
`bridge_deinit`) come, in between. `Place` is the loop of `fdb_insert`: the entry
of the key, else the first unused or expired one, else the first of those that
expire soonest. `learned` is a history variable. The key 0 is never inserted by
`fdb_insert` but is a legal transaction id for `xid_map_insert`; the run has it
among the keys that are inserted. `Found` is what a lookup of each key returns now;
it changes by insertions, by clearing and, as the clock ticks, by expiry, and each
of these is a step of `LearningTable`.

**BridgePath.** One frame is handled per step (the Wi-Fi task handles one at a
time, and an output only looks one address up). The tables are functions that
can forget any entry at any time, which covers expiry, eviction and clearing; they
are changed by the operators of `LearningTable`, which `Fdb` implements.
`up`, `down` and `stack` are what the last frame caused to be sent to the uplink,
to the stations and to lwIP, and `cast` is what that frame was: a broadcast, an ARP request
that the bridge answers itself (and drops if there is no buffer for the answer,
`Replies`), one from the uplink for none of the router's MACs (`"stray"`), or a unicast to
be handed on. Around the hooks are external parts: stations that
ask for an address, use it and leave; a host; an access point that repeats
broadcasts; a DHCP server that leases by client identity, answers late and twice,
and takes back leases. A frame has its origin as a history field. Checksums,
lengths and the search for options are abstracted to whether a message carries
option 61, has room for it, or neither (`opt61`). Transaction ids of
different clients are assumed to differ (they are random, 32 bits).

**Bridge.** `netif` and `saved` are the six function pointers; each store of
`bridge_init` and `bridge_deinit` is a step. A thread reads a pointer (`Call`),
tests `s_bridge_enabled` (`Check`) and later uses the saved pointers. The driver
and the DHCP client post events to a queue; a GOT_IP posted before a
disconnection may be handled before it, and a connection attempt ends in an
association or in a DISCONNECTED event.

**CaptivePortal.** `boot`, `ev` and `dns` are where the main, event and DNS
tasks are. The configuration (`conf`) is chosen at the start. Every call of the
socket layer, and `xTaskCreate`, may fail, which `failed` records. A datagram is
the set of its flag bits, its question count, whether its name can be parsed
and whether it is too short. `parse_dns_request` tests the bits of the flags word
as the processor loads it, which is what `QR_FLAG` and `OPCODE_MASK` say.

**Ota.** Each update is a number, requested once; its steps are those of
`ota_task` (with `esp_https_ota` as its writes, validation and selection) or of
`ota_upload_post_handler`. The partition remembers which update wrote each chunk;
`esp_ota_end` validates that it is one image. Any step may fail, power may be
lost anywhere, and updates are requested at any time, over one another too. The page
`/otalog` reads `finished` (`GetLog`) before it looks at the result (`LogResult`), in two
steps, as `ota_task` may write in between. Two history variables: `overlap`, an update was
requested while another was under way or waited for the restart; `mistaken`, the
updates that were under way when the page read that one had finished.

**ScanResult.** Each write to NVS is a step; the power may fail between any two.
`viewed`, `boots` (the restarts since the stored result was first viewed, up to 3),
`uncounted` (a scan that stored nothing has erased the counter of that result) and
`cut` are history variables; `boots` does not look at the counter.

**ScanPick.** Every step of `ScanResult` is one of `ScanPick`, which adds the data.
`found` is the stored text: SSIDs and signal strengths with the separators of the
code (bytes 3 and 5). `Rows` is what the result page makes of it, `strtok_r` and
`sanitize_html` included (`Texts`). A browser is external: it shows a page
as HTML says (`Unescaped`) and posts what it shows, URL-encoded and decoded again
(`Received`), at any later time, after restarts too. `appliedSSID` is the one
variable that `index_post_handler` sets and `index_get_handler` uses up, whichever
browser asks. `uplink` is the pair of keys in flash, `running` what the boot read;
the form stores the SSID, and in a later step (`SetPasswd`) the password. `airs`
and `torn` are history variables.

**NvsConsole.** `store` is NVS by namespace and key; `erange` says whether `errno` is
`ERANGE`; `reply` is what a command reports and `printed` what it prints. `told` is
a history variable: per key, what was typed when the user was last told that it is
stored. A number is the integer at the start of the text. Types of up to 32 bits
go through `long` and a cast, the 64-bit ones through `long long` (`Overflows`,
`Parsed`, `Cast`, with `Half[t]` as 2^(w-1)).

**Settings.** `nvs` is the namespace `esp32_nat`, `"none"` for a key that is not
there. A form or command is the list of its writes (`setApByQuery`, `set_sta` and
the others, named after the code), and a task does one at a time (`Write`):
`nvs_set_*` stores its entry at once, so what a power failure loses is the rest of
the list. `After` says what the writes that are left will make of the flash: of each
key the last one that is written. What may be posted and typed is `IsForm` and
`IsCommand`: any texts (`Strings`) in the fields, the values that the page has where
it has radio buttons, any key for `nvs_set`. Numbers, addresses and host names are
texts too; which of them the code accepts are the constants `Short`, `ValidMacs`,
`ValidIps`, `ValidMasks`, `ValidOctets`, `ValidPowers` and `LongNames`. A boot goes
through the reset pin, reads everything (`Load`: `conf` is what it read), and may
itself write (`setHostName`, which can restart the router, and `set3rdOctet`). The
operators after "What a boot makes of the keys" are what `wifi_init`, `cmd_router`
and `app_main` derive from the keys. `asked` is a history variable: per subject
(uplink, access point, address and so on) the last request that set it, whether it
is being written, or that a cut or another task's request for the same subject mixed
it. An `ESP_ERROR_CHECK` that fails aborts and so is a `PowerCut`. `setWpa2` that
gets no memory skips its writes and the form goes on (`setWpa2Fails`).
`StoredAddress` is the static address that the keys hold, `StaticAddress` the one
that a boot takes, which needs an SSID too. Two lock passwords that differ, and a
wrong one on `/unlock`, change nothing and are no steps. `nvs_set` of the console is
a request too, on any key of the namespace. `index_page` and `advanced_page` are the
forms that a browser posts if nothing on the page is changed.

## 3. Runs

| run | question | bounds |
|---|---|---|
| `PortMapOverlap` | is what a command changed saved, and is everything saved once the commands have ended, however they overlap? | 2 tasks (one the console, which aborts on a full table) at every step, 2 slots, 2 rules that differ in every field, erasures, restarts and failing reads of NVS anywhere |
| `PortMapSerial` | is the stored table the atomic one, does lwIP forward the rules, no more, and all after GOT_IP? | the 2 tasks, 2 slots, 3 rules on 2 keys, 2 addresses; commands, erasures and events not overlapping, restarts and failing reads anywhere |
| `Fdb` | are the tables right, and are they what `BridgePath` takes them for? | 2 entries for 4 keys (one of them 0) and an own address, 2 MACs, lifetime 2, clock to 3 |
| `BridgePath` | does the bridge deliver right? | 2 stations with every kind of option 61, 2 leases, 1 host |
| `Bridge` | are the hooks exchanged safely, and does the router come back? | 2 threads, 3 waiting events |
| `Portal` | does the portal serve, end, and release its port? | 8 configurations, 32 datagrams |
| `Ota` | is only a whole image started, and is it? | 2 downloads and 2 uploads of 3 chunks, requested at any time |
| `Scan` | is a result offered, kept and forgotten in time, and does a pick arrive as found? | 2 scans, each stored or failed, counter to 4, 2 browsers, 4 networks with awkward SSIDs |
| `Settings` | is what was asked what the next boot runs, do the pages show it, and do they stay locked? | 7 forms and 7 commands, 3 requests in a behaviour, 1 cut or reset |
| `NvsConsole` | is what the user was told true? | 2 namespaces, 1 key, integers of 1 to 3 bits, numbers -9 to 8, 4 texts |
| `PortalBridge`, `OtaTwice` | find what the code does otherwise than its comments and documents say (section 6) | as above |

Why the bounds are enough: two slots are needed for "another slot", and a full table
is reached with them; three rules on two keys give two rules of one key and one of
another. `PortMapOverlap` is about RAM and flash only, so it is in bridge mode,
where a GOT_IP event leaves lwIP alone, and its two rules differ in every field, so
that each mixture of them shows; more tasks than the two do not exist. A table of
two entries with four keys evicts, and lifetime 2 with clock 3 lets entries expire,
be refreshed and be overtaken by a tick. Two stations are needed to confuse them,
and two leases to let an address change hands while another is in use; the stations,
and the addresses, are interchangeable, so the run uses symmetry (it checks
invariants only). Three waiting events hold a disconnection between two GOT_IP. Two
downloads and two uploads are enough for each pair to overlap, for a failed one
before and a successful one after, and for a download that meets the `finished` of
the one before it; three chunks for a failure at the start, middle and end. The
counter of views acts at 1 and 3, so 4 is past every branch; a failed scan, before
or after a view, is one of two. Two browsers are needed to take a pick from one
another; they are alike, and what the run checks does not tell them apart, so
symmetry is sound. The SSIDs are two hidden ones, one with every character that
HTML, URLs or the escape treats in a special way, and the uplink's. Three requests
are a setting, one that is cut or overlapped, and the one that follows; the forms
differ in every field, with values that are accepted and refused. The numbers cross
each limit of each width and of each conversion; a width of one bit for 8 and 16,
two for 32 and three for 64 keeps the order of the widths.

`Ota`, `OtaTwice` and `Settings` check no deadlock: updates and requests are
bounded, and after the last of them, or with the reset pin held, the system may
stop. All others check it. The type invariants are proved (section 5) and left out of
the runs, but for that of `Settings`, which its run checks.

## 4. Liveness and fairness

`BridgeComesUp`: an uplink that stays in reach ends up bridged. Fairness: the
event task is not starved (it has its own priority and takes events in order);
the driver ends each connection attempt; the DHCP server of an uplink in reach
answers. Nothing is assumed of the stations' traffic.

`DnsEnds`: once `s_dns_running` is false the DNS task ends. Fairness of that task
only: it is scheduled, and `recvfrom` returns after the 500 ms it was given.

`RebootFollows`: an installed image is started. Fairness: the task and the timer
run, an upload's client goes on or is lost, the page is answered once it has read
`finished`, and a browser stays on `/otalog` (`PolledSpec`), which the page's refresh does.
Without the browser it does not hold (section 6); nor for updates that are requested
over one another, or a download that the page has taken for a failed one before
it, which the property leaves out by name (`overlap`, `mistaken`).

`AppliedAfterRestart`: a form that is accepted is followed by a boot that runs what
was asked (but for the uplink, if `setWpa2` had no memory), or by a router that was
reset by its pin and is off. Fairness: the boot goes on, the two tasks run, and the
restart timer fires.

Liveness is model-checked only.

## 5. Proofs

TLAPS proves the following for every value of the constants, from the `ASSUME`s of
the modules and from what is named here. Each module of proofs also proves the
`TypeOK` of its component.

`PortMapProofs`, for every number of slots, keys, rules and addresses:

* `OwnChangeSaved` - for any number of tasks at once, `OwnChangeKept`: a command whose slot
  no other command picked has its change in the table, whole, from the write of
  `valid` on, and in flash when lwIP is told and the user answered, unless the settings
  were erased. It is not inductive: what is committed may be another task's blob. The
  invariant (`OwnInv`) says what each command has done to its slot so far, field by
  field in RAM, then in the blob and in the flash (`Kept`), and that nobody
  else has its slot to write (`OnlyWriter`).
* `ImplementsStore` - for commands one at a time, of one task or of several
  (`OneAtATime`), `Spec => StoreSpec`, with erasures and failing reads. The invariant is
  `StoreInv`: besides `OwnInv`, nobody shares a slot (`Alone`), and what is not committed is
  the table of the one command, or nothing for an erasure (`Saved`), so that a restart
  between `nvs_set_blob` and `nvs_commit` is a whole command or none.
* `QuietSaved` - for any number of tasks that run at once, on the same slots or not:
  when no command is under way, the committed table is the one in RAM, unless it was
  erased or could not be read at the boot. A table that is not saved, and a blob
  that is not committed, are some task's next step (`SavePending`).
* `ForwardsOnly` and `ReconnectsWhole` - for commands and events that do not overlap
  and without bridge mode (`InTurn`): lwIP forwards only what the table says, and
  the GOT_IP handler re-creates all of it. `TurnInv` says what the walk has done up
  to its slot (`Walked`), and that every mapping has its rule or belongs to the
  deletion that is about to call lwIP (`Forwarded`).

`FdbProofs`, for every table size, lifetime and set of keys:

* `KeysAreUnique` (a key is placed in the entry that holds it, if one does) and
  `LatestHeld` (with the former: an insertion leaves no second, older entry).
* `NothingOutlives` - a lookup that finds an entry does so within the lifetime
  after it was last learned, although the insertion's clock may be older than
  the critical section. It rests on `LatestHeld` and on the facts that an entry
  found has not expired and that no insertion has a time later than the clock.
* `OldestGoes` - a live entry is evicted only when all entries are live, and then
  one that expires first (`EvictionStep`).
* `ImplementsTable` - `Spec => TableSpec`, which joins the tables to `BridgePath`.

`BridgePathProofs`, for any number of stations, leases and kinds of frames: the six
properties of the run. They are proved together as `PathInv`, which adds what
they rest on: a transaction belongs to who began it (`Transactions`, `Requests`), an
address is leased to one identity (`Leases`), a station uses the lease of its
identity (`Holders`), an acknowledgement on its way to a station is of that lease and
has been learned (`Acknowledged`), and the table knows where an address is, or
nothing (`Located`). `OnePlaceOnly`: no frame but a broadcast goes to two places, one to be
handed on goes to exactly one, and only requests that the bridge answers itself can be
lost for lack of a buffer. There is one lemma per hook and per external actor.

`BridgeProofs`, for any number of tasks in the hooks and any length of the queue:
`OriginalsCalled` and `HooksFollow`. The invariant (`Stores`, `Follows`,
`SavedInUse`) says, at each store of `bridge_init` and `bridge_deinit`, which
pointers are exchanged, and that the originals are saved wherever a hook can be
entered or is still running.

`TaskProofs`, for `CaptivePortal` with any set of datagrams: `SocketReleased`,
`ServesAll`, `OfferHeld`; for `Ota` with any number of updates and chunks:
`BootsComplete`, `UploadsAlone` and `FlagReleased`, none of which assumes that updates wait for
each other. `UploadsAlone` (no upload runs beside another update, unless the log page
took the earlier result for that of the download) needs that `otaRunning` is set
while a download runs that no page has mistaken.

`ScanProofs`, for any number of scans: `UnseenOffered`, `Forgotten`, `DeletedSeen`;
and `PicksKeepScans`, that `ScanPick` implements `ScanResult`, so that the three
hold there. The counter is that of the stored result unless the power failed between
their writes (`CounterIsOwn`), and is ahead of the restarts since the first view,
unless a failed scan has erased it (`CounterAhead`, `uncounted`). For any number of
browsers, picks and passwords besides:

* `ListTrue` - a list on any page, however old, is one that was found. The list that
  is stored may be of any scan before the last restart, and what was picked of any
  such list (`Lists`).
* `UplinkPicked` - no network is stored with the password of another one. The
  invariant `Ups` holds the pair together on its way: in flash, counting the
  password that is still to be written (`Written`), as it runs, and on each form.

Both rest on what becomes of the texts, which is proved for texts of any length:

* `PagesShow` - what a browser reads is what was escaped, if the buffer has six
  places per character, as `alloc_safe_str` allocates; `FormsPost` - what the program
  decodes is what was posted, if it has three per byte.
* `ListBack` - what `strtok` finds in the stored list, and a browser shows of it, is
  the list of the named networks. `ScanPick` assumes of a list (`PickAssumption`) at
  most 15 networks, SSIDs of up to 32 bytes without bytes 3 and 5, and room for
  them all on the page; beyond that it is not true (section 6).

Unescaping and decoding are one function of a text read from left to right
(`Decoded`), escaping, coding and listing are `FlattenSeq` of parts. `DecodedBlocks` says
that reading at the places where the parts begin (`Starts`, `FlattenBlocks`) gives the
characters they stand for, and `Parts` that `Tokens` finds the parts between
delimiters. Each goes by induction on a place in the text; as the induction
theorems of the library that take a predicate are out of reach, `Counted` states it
for a set of numbers and proves it from the well-foundedness of `<`.

`SettingsProofs`, for all forms, commands, texts, numbers of requests, restarts and
cuts, and the two tasks at work at once. `SettingsInvariant` is the inductive
invariant:

* `Pending` - for each subject that a task alone is writing: once the writes that it
  has left are done (`After`), the flash is as was asked. This is what carries the
  promise from the beginning of a request to its end; `LeavesAsAsked` proves it when
  a request begins, form by form and command by command.
* `Owned` and `Marks` - a task that is marked as alone at a subject does set it, and
  nobody else is setting it unmarked; so a write of the other task is of another
  subject (`MayWrite`), and what a subject is depends on its own keys only
  (`OtherKeys`).
* `Types` - `TypeOK`, with the writes that each request can have.
* `NextBootAsAsked`, which a boot that repairs keys does not undo either
  (`NameRepaired`, `OctetRepaired`).

From it follow:

* `NextBoot` and `SettingsTypeCorrect`.
* `OpensOnly` - every write of a request that does not ask for an open access point
  leaves a protected one protected, each by itself: so no cut can open it.
* `Guards` - with `LockHolds`: while the password that was set holds, the pages are
  locked or somebody gave it; between the reading of the keys and the start of the
  web server the password in RAM is that in flash.
* `PagesKept` - under `CommandsShow`: `nvs_set` stores as DNS server, mask and octet
  only what the forms would have accepted. The flash holds only such values
  then (`AllShowable`), and what either page shows leads back to them (`IndexKeeps`,
  `AdvancedKeeps`). The hypothesis is needed: a value that the page shows but does not accept
  is dropped when the page is posted (section 6). The commands of the run satisfy it.

`NvsProofs`, for all widths of integers (those of up to 32 bits no wider than
`long`), all numbers and all texts: `ToldHeld` and `PrintedTakenBack`.

Every safety property of a run is proved. Only model-checked are the four liveness
properties (`BridgeComesUp`, `DnsEnds`, `RebootFollows`, `AppliedAfterRestart`), which
rest on fairness.

## 6. Known departures

Runs that find them:

* `PortalBridge` - in bridge mode the DHCP server of the access point, left
  stopped, is started again by `setDnsServer` at the end of `wifi_init`.
* `OtaTwice` - `POST /otalog` does not look at `otaRunning`; two updates can write
  the same partition.

Met while modelling, without a run of their own:

* `OPCODE_MASK` is applied to the flags in network byte order (`dnserver.c:142`):
  other opcodes are answered, and plain queries with AD set are not.
* `src/README.md:101` says that after the automatic redirect a scan result can be
  viewed three more times, `docs/advanced.md:165` that a counter above 3 deletes it. The
  code counts that first view and each restart after it too, hides the button at 3, and
  deletes the result at the first boot that finds at least 3: so there are fewer views.
* A scan that finds no memory (`scan.c:154`) keeps the result of before and erases
  its counter: a result that was viewed is offered as new, and restarts do not
  count until it is viewed again. `ForgottenInTime` leaves out just that (`uncounted`).
* An ARP request that the bridge answers itself is dropped if there is no buffer for
  the answer (`bridge.c:279`); the sender has to ask again.
* `setWpa2` that gets no memory (`applyhandler.c:57`) writes nothing and says nothing: the
  rest of the form is committed and the router restarted, with the enterprise
  settings of before.
* GET `/unlock` locks the pages although no password is set; none then unlocks them
  until a restart.
* The form of the lock page erases no password: an empty one is stored, and `lock`
  is only ever set by the advanced form, never cleared.
* `lock_handler` does not look at what the NVS functions return: a password that
  could not be stored holds until the restart.
* What a cut, or two tasks writing the same keys, left mixed stays so until it is
  asked for again: a new SSID with the old password, say.
* The certificate is erased before the new one is written; a cut between the two
  leaves none.
* An octet that is out of range is used by the boot that finds it, which stores 4
  for the next.
* What `nvs_set` of the console stores under `custom_dns` or `netmask` is not checked:
  the page of advanced settings shows a value that is none, and drops or replaces it
  when it is posted.
* A page posted after `set_sta` or `set_ap` on the console and before the restart
  puts back the networks that run; a picked network is offered to whichever
  browser opens the start page next.
* `strlcpy` into `ssid[32]` and `password[64]` cuts an SSID of 32 bytes and a key of
  64 (`esp32_nat_router.c:748`).
* An SSID with byte 3 or 5 breaks its row of the scan list, and 15 long ones with
  many characters to escape can exceed the room of the page. A form of 2048 bytes or
  more is refused, which a large certificate reaches.
* After one number that is out of range, `errno` stays `ERANGE`: each later `nvs_set`
  reports that its value is too long until something else sets `errno`. Numbers are
  not stored then, strings and blobs are. The log's own advice for a forgotten
  password, `nvs_set lock i32 -v 0`, fails in that state.
* `nvs_set` wraps a negative number typed for an unsigned type and stores 0 for a
  text without a number; `nvs_get` prints a negative `i16` as a number of 32 bits;
  `nvs_erase_namespace` reports success also when it fails; `portmap` takes ports
  modulo 65536.
* Two adds at the same time (web and console) can pick the same slot: the fields
  are then of either rule, and one of the two, or a mixture, is stored. Two deletions
  of one rule, or a deletion and an add, can meet in a slot in the same way.
* The settings are erased in flash only (`applyhandler.c:446`); a port map command before
  the restart, a second later, stores the whole table again.
* A rule deleted while the GOT_IP handler walks the table can stay forwarded:
  the handler has read `valid` and calls lwIP after the deletion.
* Of two rules with one external port, deleting either removes lwIP's mapping;
  the other stays in the table and is not forwarded until the next GOT_IP.
* If the stored table cannot be read at boot, the table is empty and the next
  command saves it so.
* GOT_IP handled between `esp_wifi_start` and `start_dns_server` leaves the
  captive portal running behind a connected uplink.
* With a static uplink address `setDnsServer` does nothing: neither the uplink's
  nor a custom DNS server is offered.
* `finished` is cleared by `ota_task`, not by the handler that starts it; a poll
  of `/otalog` in between takes the result before for this one's. A failure clears
  `otaRunning`, so that an upload can run beside the download and nobody asks for its
  result; a success arms the restart while it downloads.
* A download that no browser watches is installed but not restarted into.
* A download requested in the seconds between an installed one and its restart
  overwrites the selected partition; one whose task cannot be created leaves
  `otaRunning` set until a restart.
* The progress of a failed download is shown for the next until that has data; the
  type of the chip is known only after a GET of `/ota`, so that a POST to
  `/otalog` before asks for an address without it; the URL is decoded twice.
* `stop_dns_server` can shut down a socket number that the DNS task has closed and
  another connection was given.
* A client whose DHCP message has no room for option 61 is, to the uplink's
  server, the router itself, and is given the router's address.
* RELEASE, DECLINE and INFORM have their client replaced, but not their checksum
  cleared nor the transaction noted.
* A DHCP answer that comes after its transaction was forgotten is sent on with
  the router as its client; the client ignores it.
* If the power fails between the writing of a scan result and the reset of its
  counter, the result inherits the counter of the one before.

## 7. Not modelled

* Static pages, the LED and the line editor of the console are input and output
  without state that others read. The wrappers of `cmd_system` are calls of the
  SDK. The keep-alive task holds one handle, set before the task runs.
* The address an update is fetched from, and the texts of the log page: no flag and
  nothing in the flash depends on them.
* The `show` command, and values of pages that are measured and not set (clients,
  signal strength).
* In the bridge: fragments and frames that are too short to parse, and renewals that
  the stack itself forwards. Checksums are lwIP's.
* lwIP, the Wi-Fi driver, NVS, the flash driver, the HTTP server and browsers are
  external; they appear as the code uses them. Port forwarding through lwIP's NAPT,
  and the router's forwarding of packets that stations send to its own MAC, are
  lwIP's.
* Commands of two tasks that overlap are in `PortMap`, and what is saved then is stated
  and proved; that the stored table is the atomic one, and what lwIP forwards, are
  stated for commands and events that do not overlap: they do not hold then
  (section 6).
* An erasure of the whole flash, or of single keys, while a scan result is
  stored (`ScanResult`); the erase form is in `Settings` and `PortMap`.
* A field of a form that is longer than its buffer, which the code reads as empty
  (`helper.c:48`).
* No property says that a failure is never reported without need: `errno` that stays
  `ERANGE` is modelled, and `ToldIsStored` permits it. None says that the portal starts
  again after a task could not be created, or that a console add should not abort
  on a full table; both are modelled.
* Writes to NVS that fail in `lock_handler`.

## 8. Plan

1. `Bridge` composed with `LearningTable`, for what is learned by frames that are
   still in a hook after `bridge_deinit`.
2. `PortMap`: what lwIP forwards when commands overlap the GOT_IP walk, as an
   abstract specification that it implements.
3. `Settings` and `NvsConsole` joined: `nvs_set` with its types on the keys of the
   router.
