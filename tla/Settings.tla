------------------------------ MODULE Settings ------------------------------
(***************************************************************************)
(* The settings of the router and the lock of its web pages: how the pages *)
(* and the console commands write the keys of namespace esp32_nat, how a   *)
(* boot reads them, and who may change them.                               *)
(*                                                                         *)
(* A request is the list of its writes, and each write is a step: the web  *)
(* server task and the console task interleave, and the router may restart *)
(* between two writes.  nvs_set_* stores its entry at once, so that what   *)
(* is lost with the power is the rest of the list.                         *)
(***************************************************************************)
EXTENDS Naturals, SequencesExt

CONSTANTS
  WebRequests,      \* the forms that are posted to /apply and /lock
  ConsoleRequests,  \* the commands typed on the console
  Strings,          \* texts: what is typed, posted and stored
  Short,            \* passwords of fewer than 8 characters, the empty one too
  ValidMacs,        \* what str2mac accepts
  ValidIps,         \* what esp_ip4addr_aton accepts
  ValidMasks,       \* what is_valid_subnet_mask accepts
  ValidOctets,      \* numbers from 0 to 255
  ValidPowers,      \* numbers from 8 to 84
  PowerOption,      \* of these, which of "8", "52" and "80" is next
  LongNames,        \* host names that esp_netif_set_hostname refuses
  MaxRequests,      \* bound: requests in a behaviour
  MaxCuts           \* bound: power losses and resets by the pin

VARIABLES
  nvs,            \* the keys in flash
  conf,           \* what the running firmware read when it booted
  boot,           \* how far the boot is
  lock_pass, locked,
  opened,         \* history: somebody gave the password since the last lock
  req, todo,      \* per task: its request and the writes that it still has
  armed,          \* restart_timer runs
  asked,          \* history, per subject: who changed it last, and with what
  count           \* history: requests and cuts so far, for the bounds

vars == <<nvs, conf, boot, lock_pass, locked, opened, req, todo, armed, asked, count>>

-----------------------------------------------------------------------------
(* Keys and writes.                                                         *)

None == "none"   \* a key that is not there, a parameter that was not sent
Keys == {"ssid", "passwd", "sta_user", "sta_identity", "cer",
         "static_ip", "subnet_mask", "gateway_addr",
         "ap_ssid", "ap_passwd", "ssid_hidden", "ap_ip", "netmask", "octet",
         "lock_pass", "lock", "hostname", "custom_mac", "custom_dns", "keep_alive",
         "led_disabled", "nat_disabled", "bridge_enabled", "txpower", "lower_bandwith"}

Put(k, v) == << [x \in {k} |-> v] >>
Drop(k) == Put(k, None)
PutIf(k, v, ok) == IF ok THEN Put(k, v) ELSE <<>>
PutOrDrop(k, v, ok) == Put(k, IF ok THEN v ELSE None)
Flag(b) == IF b THEN "1" ELSE "0"
Stored(w, N) == [k \in Keys |-> IF k \in DOMAIN w THEN w[k] ELSE N[k]]
EraseAll == << [k \in Keys |-> None] >>
Empty == [k \in Keys |-> None]

\* What is in flash once the writes of the list q are done: of each key, the
\* last one that is written, or what was there.
After(q, N) ==
  [k \in Keys |-> LET writing == {i \in DOMAIN q : k \in DOMAIN q[i]}
                  IN IF writing = {} THEN N[k] ELSE q[Max(writing)][k]]

-----------------------------------------------------------------------------
(* What there is to set: the fields of the forms and the arguments of the   *)
(* commands, as they arrive.  The radio buttons post one of their values.   *)

Values == Strings \cup {None}
Dns == {"1.1.1.1", "94.140.14.14"}
Classes == {"classa", "classb", "classc"}
ClassMask == [classa |-> "255.0.0.0", classb |-> "255.255.0.0", classc |-> "255.255.255.0"]

IsForm(r) ==
  \/ r \in [kind : {"config"}, ap_ssid : Strings, ap_passwd : Strings, hidden : BOOLEAN, ssid : Strings,
            passwd : Strings, sta_identity : Strings, sta_user : Strings, cer : Strings]
  \/ r \in [kind : {"advanced"}, alive : BOOLEAN, led : BOOLEAN, nat : BOOLEAN, bridge : BOOLEAN,
            ws : BOOLEAN, custommac : Values, macaddress : Strings,
            dns : {None, "custom"} \cup Dns, dnsip : Strings,
            netmask : {None, "custom"} \cup Classes, mask : Strings,
            hostname : Strings, octet : Strings, txpower : Strings, low : BOOLEAN]
  \/ r \in [kind : {"lock"}, lockpass : Strings, lockpass2 : Strings]
  \/ r \in [kind : {"erase"}]

IsCommand(r) ==
  \/ r \in [kind : {"set_sta"}, ssid : Strings, passwd : Strings]
  \/ r \in [kind : {"set_sta_ent"}, ssid : Strings, passwd : Strings, sta_user : Strings, sta_identity : Strings]
  \/ r \in [kind : {"set_sta_static"}, ip : Strings, mask : Strings, gw : Strings]
  \/ r \in [kind : {"set_ap"}, ap_ssid : Strings, ap_passwd : Strings]
  \/ r \in [kind : {"set_ap_ip"}, ap_ip : Strings]
  \/ r \in [kind : {"set_bridge"}, bridge : BOOLEAN]
  \/ r \in [kind : {"nvs_set"}, key : Keys, value : Strings]

ASSUME RequestAssumption ==
  (\A r \in WebRequests : IsForm(r)) /\ (\A r \in ConsoleRequests : IsCommand(r))

\* A key that is not there has no value; the rest are the texts of the program.
ASSUME StringAssumption ==
  /\ None \notin Strings
  /\ {"", "0", "1", "4", "80", "random", "custom", "default", "esp32nre", "ESP32_NAT_Router"} \subseteq Strings
  /\ Dns \subseteq Strings
  /\ \A c \in Classes : ClassMask[c] \in Strings

\* "" is neither a password nor a MAC.
ASSUME ValueAssumption ==
  /\ Short \subseteq Strings /\ "" \in Short
  /\ ValidMacs \subseteq Strings \ {"", "random", "built in"}
  /\ ValidIps \subseteq Strings /\ ValidMasks \subseteq Strings
  /\ ValidOctets \subseteq Strings /\ "4" \in ValidOctets
  /\ ValidPowers \subseteq Strings /\ "80" \in ValidPowers

\* Each option is next to itself.
ASSUME PowerAssumption ==
  /\ PowerOption \in [ValidPowers -> ValidPowers] /\ PowerOption["80"] = "80"
  /\ \A p \in ValidPowers : PowerOption[PowerOption[p]] = PowerOption[p]

ASSUME BoundAssumption == MaxRequests \in Nat /\ MaxCuts \in Nat

-----------------------------------------------------------------------------
(* The writes of each command of the console.                               *)

\* Faulty variant: the keys of WPA enterprise stay.
set_sta_keeps(r) == Put("ssid", r.ssid) \o Put("passwd", r.passwd)

set_sta(r) ==
  Put("ssid", r.ssid) \o Put("passwd", r.passwd)
  \o Drop("cer") \o Drop("sta_user") \o Drop("sta_identity")

set_sta_ent(r) ==
  Put("ssid", r.ssid) \o Put("passwd", r.passwd)
  \o Put("sta_user", r.sta_user) \o Put("sta_identity", r.sta_identity)

set_sta_static(r) ==
  Put("static_ip", r.ip) \o Put("subnet_mask", r.mask) \o Put("gateway_addr", r.gw)

set_ap(r) == Put("ap_ssid", r.ap_ssid) \o Put("ap_passwd", r.ap_passwd)
set_ap_ip(r) == Put("ap_ip", r.ap_ip)
set_bridge_cmd(r) == Put("bridge_enabled", Flag(r.bridge))

\* In namespace esp32_nat, one key.
nvs_set(r) == Put(r.key, r.value)

-----------------------------------------------------------------------------
(* The writes of each form of the web pages.                                *)

\* Faulty variant: the old password is erased before the new one is written.
setApByQueryDrops(f) ==
  Put("ap_ssid", f.ap_ssid) \o Drop("ap_passwd")
  \o PutOrDrop("ap_passwd", f.ap_passwd, f.ap_passwd \notin Short)
  \o PutOrDrop("ssid_hidden", "1", f.hidden)

setApByQuery(f) ==
  Put("ap_ssid", f.ap_ssid)
  \o PutOrDrop("ap_passwd", f.ap_passwd, f.ap_passwd \notin Short)
  \o PutOrDrop("ssid_hidden", "1", f.hidden)

setStaByQuery(f) == Put("ssid", f.ssid) \o Put("passwd", f.passwd)

\* The certificate is erased first, "do not double size in nvs".
setWpa2(f) ==
  PutOrDrop("sta_identity", f.sta_identity, f.sta_identity # "")
  \o PutOrDrop("sta_user", f.sta_user, f.sta_user # "")
  \o Drop("cer")
  \o PutIf("cer", f.cer, f.cer # "")

applyApStaConfig(f) == setApByQuery(f) \o setStaByQuery(f) \o setWpa2(f)

Switches(f) ==
  Put("keep_alive", Flag(f.alive)) \o Put("led_disabled", Flag(~f.led))
  \o Put("nat_disabled", Flag(~f.nat)) \o Put("bridge_enabled", Flag(f.bridge))
  \o PutIf("lock", "1", ~f.ws)

CustomMac(f) ==
  CASE f.custommac = None -> <<>>
    [] f.custommac = "random" -> Put("custom_mac", "random")
    [] OTHER -> PutOrDrop("custom_mac", f.macaddress, f.macaddress \in ValidMacs)

CustomDns(f) ==
  CASE f.dns = None -> Drop("custom_dns")
    [] f.dns = "custom" -> PutOrDrop("custom_dns", f.dnsip, f.dnsip \in ValidIps)
    [] OTHER -> Put("custom_dns", f.dns)

Netmask(f) ==
  CASE f.netmask = None -> <<>>
    [] f.netmask \in Classes -> Put("netmask", ClassMask[f.netmask])
    [] OTHER -> Put("netmask", IF f.mask \in ValidMasks THEN f.mask ELSE ClassMask.classc)

Radio(f) ==
  PutOrDrop("hostname", f.hostname, f.hostname # "")
  \o PutOrDrop("octet", f.octet, f.octet \in ValidOctets)
  \o PutIf("txpower", f.txpower, f.txpower \in ValidPowers)
  \o PutOrDrop("lower_bandwith", "1", f.low)

applyAdvancedConfig(f) == Switches(f) \o CustomMac(f) \o CustomDns(f) \o Netmask(f) \o Radio(f)

-----------------------------------------------------------------------------
(* What a boot makes of the keys.                                           *)

Text(N, k) == IF N[k] = None THEN "" ELSE N[k]
Number(N, k, default) == IF N[k] = None THEN default ELSE N[k]

\* The configuration of the station in wifi_init.
isWpaEnterprise(N) == Text(N, "sta_identity") # "" \/ Text(N, "sta_user") # ""
setWpaEnterprise(N) == Text(N, "cer")
Uplink(N) ==
  LET eap == isWpaEnterprise(N)
  IN [ssid |-> Text(N, "ssid"), passwd |-> Text(N, "passwd"), eap |-> eap,
      sta_identity |-> Text(N, "sta_identity"), sta_user |-> Text(N, "sta_user"),
      cer |-> IF eap THEN setWpaEnterprise(N) ELSE ""]

\* The static address that is stored, if it is whole; a station without an SSID
\* has none.
StoredAddress(N) ==
  LET ip == Text(N, "static_ip")  mask == Text(N, "subnet_mask")  gw == Text(N, "gateway_addr")
  IN IF "" \in {ip, mask, gw} THEN <<>> ELSE <<ip, mask, gw>>
StaticAddress(N) == IF Text(N, "ssid") = "" THEN <<>> ELSE StoredAddress(N)

\* The configuration of the access point; "" is an open one.
AccessPoint(N) ==
  [ssid |-> Number(N, "ap_ssid", "ESP32_NAT_Router"),
   passwd |-> IF Text(N, "ap_passwd") \in Short THEN "" ELSE N["ap_passwd"],
   hidden |-> Number(N, "ssid_hidden", "0") = "1"]

getNetmask(N) == IF N["netmask"] = None THEN ClassMask.classc ELSE N["netmask"]
Address(N) ==
  IF N["ap_ip"] # None THEN <<N["ap_ip"]>> ELSE <<getNetmask(N), Number(N, "octet", "4")>>

fillDNS(N) == IF N["custom_dns"] = None THEN "uplink" ELSE N["custom_dns"]
fillMac(N) == IF N["custom_mac"] \in {"random"} \cup ValidMacs THEN N["custom_mac"] ELSE "built in"

setTxPower(N) == IF N["txpower"] \in ValidPowers THEN N["txpower"] ELSE "default"

Services(N) ==
  [bridge |-> Number(N, "bridge_enabled", "0") = "1",
   nat |-> Number(N, "nat_disabled", "0") = "0",
   led |-> Number(N, "led_disabled", "0") = "0",
   alive |-> Number(N, "keep_alive", "0") = "1",
   low |-> Number(N, "lower_bandwith", "0") = "1",
   power |-> setTxPower(N)]

WebServer(N) == Number(N, "lock", "0") = "0"

-----------------------------------------------------------------------------
(* What the pages show of the flash, N, and of the running firmware, c: the *)
(* form that a browser posts if nothing on the page is changed.             *)

\* Faulty variant: the certificate is too long to be shown.
index_page_no_cer(N, c) ==
  LET wpa2 == isWpaEnterprise(N)
  IN [kind |-> "config",
      ap_ssid |-> Number(c, "ap_ssid", "ESP32_NAT_Router"), ap_passwd |-> Text(c, "ap_passwd"),
      hidden |-> Number(N, "ssid_hidden", "0") = "1",
      ssid |-> Text(c, "ssid"), passwd |-> Text(c, "passwd"),
      sta_identity |-> IF wpa2 THEN Text(N, "sta_identity") ELSE "",
      sta_user |-> IF wpa2 THEN Text(N, "sta_user") ELSE "", cer |-> ""]

\* The networks are the running ones; what belongs to WPA enterprise, and
\* whether the SSID is hidden, is read again.
index_page(N, c) ==
  LET wpa2 == isWpaEnterprise(N)
  IN [kind |-> "config",
      ap_ssid |-> Number(c, "ap_ssid", "ESP32_NAT_Router"), ap_passwd |-> Text(c, "ap_passwd"),
      hidden |-> Number(N, "ssid_hidden", "0") = "1",
      ssid |-> Text(c, "ssid"), passwd |-> Text(c, "passwd"),
      sta_identity |-> IF wpa2 THEN Text(N, "sta_identity") ELSE "",
      sta_user |-> IF wpa2 THEN Text(N, "sta_user") ELSE "",
      cer |-> IF wpa2 THEN Text(N, "cer") ELSE ""]

\* The radio button that is checked, and the field next to it.
MacShown(N, c) ==
  IF N["custom_mac"] = "random" THEN [custommac |-> "random", macaddress |-> ""]
  ELSE IF fillMac(c) = "built in" THEN [custommac |-> "default", macaddress |-> ""]
  ELSE [custommac |-> "custom", macaddress |-> fillMac(c)]

DnsShown(N) ==
  IF N["custom_dns"] \in {None} \cup Dns
  THEN [dns |-> N["custom_dns"], dnsip |-> ""]
  ELSE [dns |-> "custom", dnsip |-> N["custom_dns"]]

NetmaskShown(N) ==
  LET class == {c \in Classes : ClassMask[c] = getNetmask(N)}
  IN IF class = {} THEN [netmask |-> "custom", mask |-> N["netmask"]]
     ELSE [netmask |-> CHOOSE c \in class : TRUE, mask |-> ""]

PowerShown(N) == IF N["txpower"] \in ValidPowers THEN PowerOption[N["txpower"]] ELSE "80"

\* "Enable web server" is always checked.
advanced_page(N, c) ==
  LET mac == MacShown(N, c)  dns == DnsShown(N)  net == NetmaskShown(N)
  IN [kind |-> "advanced", ws |-> TRUE,
      alive |-> Number(N, "keep_alive", "0") = "1", led |-> Number(N, "led_disabled", "0") = "0",
      nat |-> Number(N, "nat_disabled", "0") = "0", bridge |-> Number(N, "bridge_enabled", "0") = "1",
      custommac |-> mac.custommac, macaddress |-> mac.macaddress,
      dns |-> dns.dns, dnsip |-> dns.dnsip, netmask |-> net.netmask, mask |-> net.mask,
      hostname |-> Text(N, "hostname"), octet |-> Number(N, "octet", "4"),
      txpower |-> PowerShown(N), low |-> Number(N, "lower_bandwith", "0") = "1"]

-----------------------------------------------------------------------------
(* What a user expects of a request, per subject that it sets.              *)

Tasks == {"web", "console"}
Restarting == {"config", "advanced", "erase"}
Subjects == {"uplink", "static", "ap", "address", "dns", "mac", "name", "services", "password", "web"}
Subject(k) ==
  CASE k \in {"ssid", "passwd", "sta_user", "sta_identity", "cer"} -> "uplink"
    [] k \in {"static_ip", "subnet_mask", "gateway_addr"} -> "static"
    [] k \in {"ap_ssid", "ap_passwd", "ssid_hidden"} -> "ap"
    [] k \in {"ap_ip", "netmask", "octet"} -> "address"
    [] k = "custom_dns" -> "dns"
    [] k = "custom_mac" -> "mac"
    [] k = "hostname" -> "name"
    [] k = "lock_pass" -> "password"
    [] k = "lock" -> "web"
    [] OTHER -> "services"
Erase == [kind |-> "erase"]
Idle == [kind |-> "idle"]

Sets(r) ==
  CASE r.kind \in {"set_sta", "set_sta_ent"} -> {"uplink"}
    [] r.kind = "set_sta_static" -> {"static"}
    [] r.kind = "set_ap" -> {"ap"}
    [] r.kind = "set_ap_ip" -> {"address"}
    [] r.kind = "set_bridge" -> {"services"}
    [] r.kind = "config" -> {"uplink", "ap"}
    [] r.kind = "advanced" -> {"address", "dns", "mac", "name", "services"}
                              \cup (IF r.ws THEN {} ELSE {"web"})
    [] r.kind = "nvs_set" -> {Subject(r.key)}
    [] r.kind = "lock" -> {"password"}
    [] r.kind = "erase" -> Subjects
    [] r.kind = "idle" -> {}

ExpectedUplink(r, u) ==
  LET eap == r.kind # "set_sta" /\ (r.sta_identity # "" \/ r.sta_user # "")
  IN [ssid |-> r.ssid, passwd |-> r.passwd, eap |-> eap,
      sta_identity |-> IF eap THEN r.sta_identity ELSE "",
      sta_user |-> IF eap THEN r.sta_user ELSE "",
      cer |-> IF r.kind = "set_sta_ent" THEN u.cer ELSE IF eap THEN r.cer ELSE ""]

ExpectedAp(r, ap) ==
  [ssid |-> r.ap_ssid, passwd |-> IF r.ap_passwd \in Short THEN "" ELSE r.ap_passwd,
   hidden |-> IF r.kind = "set_ap" THEN ap.hidden ELSE r.hidden]

ExpectedServices(r, was) ==
  IF r.kind = "set_bridge" THEN [was EXCEPT !.bridge = r.bridge]
  ELSE [bridge |-> r.bridge, nat |-> r.nat, led |-> r.led, alive |-> r.alive, low |-> r.low,
        power |-> IF r.txpower \in ValidPowers THEN r.txpower ELSE was.power]

ExpectedAddress(r, N) ==
  IF r.kind = "set_ap_ip" THEN <<r.ap_ip>>
  ELSE IF N["ap_ip"] # None THEN <<N["ap_ip"]>>
  ELSE <<IF r.netmask \in Classes THEN ClassMask[r.netmask]
         ELSE IF r.netmask = None THEN getNetmask(N)
         ELSE IF r.mask \in ValidMasks THEN r.mask ELSE ClassMask.classc,
         IF r.octet \in ValidOctets THEN r.octet ELSE "4">>

ExpectedMac(r) ==
  IF r.custommac = "random" THEN "random"
  ELSE IF r.macaddress \in ValidMacs THEN r.macaddress ELSE "built in"

\* What a boot replaces.
Refused(k, v) ==
  \/ k = "octet" /\ v \notin ValidOctets
  \/ k = "hostname" /\ v \in LongNames \cup {""}

AsAsked(s, r, N) ==
  IF r.kind = "erase"
  THEN /\ s = "uplink" => Uplink(N).ssid = "" /\ ~Uplink(N).eap
       /\ s = "static" => StoredAddress(N) = <<>>
       /\ s = "ap" => AccessPoint(N) = AccessPoint(Empty)
       /\ s = "address" => Address(N) = Address(Empty)
       /\ s = "dns" => fillDNS(N) = fillDNS(Empty)
       /\ s = "mac" => fillMac(N) = fillMac(Empty)
       /\ s = "services" => Services(N) = Services(Empty)
       /\ s = "password" => Text(N, "lock_pass") = ""
       /\ s = "web" => WebServer(N)
  ELSE IF r.kind = "nvs_set"
  THEN N[r.key] = r.value \/ Refused(r.key, r.value)
  ELSE CASE s = "uplink" -> Uplink(N) = ExpectedUplink(r, Uplink(N))
         [] s = "static" -> StoredAddress(N) = (IF "" \in {r.ip, r.mask, r.gw} THEN <<>> ELSE <<r.ip, r.mask, r.gw>>)
         [] s = "ap" -> AccessPoint(N) = ExpectedAp(r, AccessPoint(N))
         [] s = "services" -> Services(N) = ExpectedServices(r, Services(N))
         [] s = "address" -> Address(N) = ExpectedAddress(r, N)
         [] s = "dns" -> fillDNS(N) = (IF r.dns = None \/ (r.dns = "custom" /\ r.dnsip \notin ValidIps)
                                       THEN "uplink" ELSE IF r.dns = "custom" THEN r.dnsip ELSE r.dns)
         [] s = "mac" -> r.custommac # None => fillMac(N) = ExpectedMac(r)
         [] s = "name" -> N["hostname"] = r.hostname \/ Refused("hostname", r.hostname)
         [] s = "password" -> Text(N, "lock_pass") = r.lockpass
         [] s = "web" -> ~WebServer(N)

-----------------------------------------------------------------------------
\* A task alone is writing, the last writer finished alone and whole, or
\* neither.
By(t) == [by |-> t, what |-> Idle]
Done(r) == [by |-> "done", what |-> r]
Mixed == [by |-> "nobody", what |-> Idle]

\* Every variable has its type; until the router is up nobody works on a request
\* and no restart is ordered.
TypeOK ==
  /\ nvs \in [Keys -> Values] /\ conf \in [Keys -> Values]
  /\ boot \in {"off", "pin", "load", "name", "octet", "start", "up"}
  /\ lock_pass \in Strings
  /\ locked \in BOOLEAN /\ opened \in BOOLEAN /\ armed \in BOOLEAN
  /\ \A t \in Tasks : req[t] \in {Idle} \cup (IF t = "web" THEN WebRequests ELSE ConsoleRequests)
  /\ \A t \in Tasks : req[t] = Idle => todo[t] = <<>>
  /\ boot # "up" => ~armed /\ \A t \in Tasks : req[t] = Idle
  /\ \A s \in Subjects : asked[s].by \in Tasks \cup {"done", "nobody"}
  /\ count.requests \in 0..MaxRequests /\ count.cuts \in 0..MaxCuts

Init ==
  /\ nvs = Empty /\ conf = Empty /\ boot = "pin"
  /\ lock_pass = "" /\ locked = FALSE /\ opened = FALSE
  /\ req = [t \in Tasks |-> Idle] /\ todo = [t \in Tasks |-> <<>>]
  /\ armed = FALSE
  /\ asked = [s \in Subjects |-> Done(Erase)]
  /\ count = [requests |-> 0, cuts |-> 0]

ram == <<conf, lock_pass, locked, opened, req, todo, armed, asked>>
LoseRam ==
  /\ conf' = Empty /\ lock_pass' = "" /\ locked' = FALSE /\ opened' = FALSE
  /\ req' = [t \in Tasks |-> Idle] /\ todo' = [t \in Tasks |-> <<>>]
  /\ armed' = FALSE
  /\ asked' = [s \in Subjects |-> IF asked[s].by \in Tasks THEN Mixed ELSE asked[s]]

Cut ==
  /\ count.cuts < MaxCuts
  /\ count' = [count EXCEPT !.cuts = @ + 1]

-----------------------------------------------------------------------------
(* Boot: app_main up to the start of the web server.                        *)

\* The power fails, or ESP_ERROR_CHECK aborts on a write that fails.
PowerCut == boot # "off" /\ Cut /\ LoseRam /\ boot' = "pin" /\ UNCHANGED nvs

PowerOn == boot = "off" /\ boot' = "pin" /\ UNCHANGED <<nvs, ram, count>>

\* The reset pin is held for five seconds: app_main returns and nothing runs.
PinHeld ==
  /\ boot = "pin" /\ Cut
  /\ nvs' = Empty /\ boot' = "off"
  /\ asked' = [s \in Subjects |-> Done(Erase)]
  /\ UNCHANGED <<conf, lock_pass, locked, opened, req, todo, armed>>

PinOpen == boot = "pin" /\ boot' = "load" /\ UNCHANGED <<nvs, ram, count>>

Load ==
  /\ boot = "load" /\ boot' = "name"
  /\ conf' = nvs /\ lock_pass' = Text(nvs, "lock_pass")
  /\ UNCHANGED <<nvs, locked, opened, req, todo, armed, asked, count>>

\* A name that esp_netif refuses is erased, and the router restarts; without
\* a name, one is made up.
setHostName ==
  /\ boot = "name"
  /\ \/ /\ nvs["hostname"] \in LongNames
        /\ nvs' = [nvs EXCEPT !["hostname"] = None] /\ boot' = "pin" /\ LoseRam
     \/ /\ nvs["hostname"] \notin LongNames
        /\ nvs' = IF Text(nvs, "hostname") = "" THEN [nvs EXCEPT !["hostname"] = "esp32nre"] ELSE nvs
        /\ boot' = "octet" /\ UNCHANGED ram
  /\ UNCHANGED count

set3rdOctet ==
  /\ boot = "octet" /\ boot' = "start"
  /\ nvs' = IF nvs["octet"] \in ValidOctets THEN nvs ELSE [nvs EXCEPT !["octet"] = "4"]
  /\ UNCHANGED <<ram, count>>

\* Faulty variant: the pages are open after a boot.
start_webserver_open == boot = "start" /\ boot' = "up" /\ UNCHANGED <<nvs, ram, count>>

is_lock_pass_set == lock_pass # ""
start_webserver ==
  /\ boot = "start" /\ boot' = "up"
  /\ locked' = (WebServer(conf) /\ is_lock_pass_set)
  /\ UNCHANGED <<nvs, conf, lock_pass, opened, req, todo, armed, asked, count>>

Boot == PinOpen \/ Load \/ setHostName \/ set3rdOctet \/ start_webserver

-----------------------------------------------------------------------------
(* Requests.                                                                *)

Serving == boot = "up" /\ WebServer(conf) /\ req["web"] = Idle

\* POST /unlock with the password; with another one nothing changes.
unlock_handler ==
  /\ Serving /\ is_lock_pass_set
  /\ locked' = FALSE /\ opened' = TRUE
  /\ UNCHANGED <<nvs, conf, boot, lock_pass, req, todo, armed, asked, count>>

\* GET /unlock, with or without a password.
Relock ==
  /\ Serving
  /\ locked' = TRUE /\ opened' = FALSE
  /\ UNCHANGED <<nvs, conf, boot, lock_pass, req, todo, armed, asked, count>>

Writes(r) ==
  CASE r.kind = "set_sta" -> set_sta(r)
    [] r.kind = "set_sta_ent" -> set_sta_ent(r)
    [] r.kind = "set_sta_static" -> set_sta_static(r)
    [] r.kind = "set_ap" -> set_ap(r)
    [] r.kind = "set_ap_ip" -> set_ap_ip(r)
    [] r.kind = "set_bridge" -> set_bridge_cmd(r)
    [] r.kind = "nvs_set" -> nvs_set(r)
    [] r.kind = "config" -> applyApStaConfig(r)
    [] r.kind = "advanced" -> applyAdvancedConfig(r)
    [] r.kind = "lock" -> Put("lock_pass", r.lockpass)
    [] r.kind = "erase" -> EraseAll

\* Faulty variant: the console takes commands before the boot has ended.
BeginEarly(t, r) ==
  /\ boot \in {"start", "up"} /\ req[t] = Idle
  /\ count.requests < MaxRequests
  /\ count' = [count EXCEPT !.requests = @ + 1]
  /\ req' = [req EXCEPT ![t] = r] /\ todo' = [todo EXCEPT ![t] = Writes(r)]
  /\ asked' = [s \in Subjects |-> IF s \notin Sets(r) THEN asked[s]
                                  ELSE IF asked[s].by \in Tasks THEN Mixed
                                  ELSE IF \E u \in Tasks : s \in Sets(req[u]) THEN Mixed
                                  ELSE By(t)]
  /\ UNCHANGED <<nvs, conf, boot, lock_pass, locked, opened, armed>>

\* A task takes a request: nothing does before app_main has started them.
Begin(t, r) ==
  /\ boot = "up" /\ req[t] = Idle
  /\ count.requests < MaxRequests
  /\ count' = [count EXCEPT !.requests = @ + 1]
  /\ req' = [req EXCEPT ![t] = r] /\ todo' = [todo EXCEPT ![t] = Writes(r)]
  /\ asked' = [s \in Subjects |-> IF s \notin Sets(r) THEN asked[s]
                                  ELSE IF asked[s].by \in Tasks THEN Mixed
                                  ELSE IF \E u \in Tasks : s \in Sets(req[u]) THEN Mixed
                                  ELSE By(t)]
  /\ UNCHANGED <<nvs, conf, boot, lock_pass, locked, opened, armed>>

apply_post_handler(r) == r.kind \in Restarting /\ Serving /\ ~locked /\ Begin("web", r)

\* With two passwords that differ the page is only shown again.
lock_handler(r) ==
  r.kind = "lock" /\ r.lockpass = r.lockpass2 /\ Serving /\ ~locked /\ Begin("web", r)

Console(r) == Begin("console", r)

Write(t) ==
  /\ todo[t] # <<>>
  /\ nvs' = Stored(Head(todo[t]), nvs)
  /\ todo' = [todo EXCEPT ![t] = Tail(@)]
  /\ UNCHANGED <<conf, boot, lock_pass, locked, opened, req, armed, asked, count>>

\* setWpa2 gets no memory and returns: nothing of WPA enterprise is written,
\* and the form goes on as if it were.
setWpa2Fails(t) ==
  /\ req[t].kind = "config" /\ todo[t] = setWpa2(req[t])
  /\ todo' = [todo EXCEPT ![t] = <<>>]
  /\ asked' = [s \in Subjects |-> IF s = "uplink" THEN Mixed ELSE asked[s]]
  /\ UNCHANGED <<nvs, conf, boot, lock_pass, locked, opened, req, armed, count>>

\* The end of the handler: the restart is ordered, or the new password holds.
Finishing(t, restarts) ==
  /\ req[t] # Idle /\ todo[t] = <<>>
  /\ req' = [req EXCEPT ![t] = Idle]
  /\ asked' = [s \in Subjects |-> IF asked[s] = By(t) THEN Done(req[t]) ELSE asked[s]]
  /\ armed' = (armed \/ req[t].kind \in restarts)
  /\ IF req[t].kind = "lock"
     THEN /\ lock_pass' = req[t].lockpass
          /\ locked' = (locked \/ req[t].lockpass # "")
          /\ opened' = (opened /\ ~locked')
     ELSE UNCHANGED <<lock_pass, locked, opened>>
  /\ UNCHANGED <<nvs, conf, boot, todo, count>>

\* Faulty variant: the new settings wait for a restart that nobody orders.
FinishUnarmed(t) == Finishing(t, {"erase"})

Finish(t) == Finishing(t, Restarting)

restart_timer_callback == armed /\ boot' = "pin" /\ LoseRam /\ UNCHANGED <<nvs, count>>

Step(t) == Write(t) \/ setWpa2Fails(t) \/ Finish(t)

Next ==
  \/ PowerCut \/ PowerOn \/ PinHeld \/ Boot \/ unlock_handler \/ Relock
  \/ \E r \in WebRequests : apply_post_handler(r) \/ lock_handler(r)
  \/ \E r \in ConsoleRequests : Console(r)
  \/ \E t \in Tasks : Step(t)
  \/ restart_timer_callback

Spec == Init /\ [][Next]_vars
FairSpec ==
  /\ Spec
  /\ WF_vars(Boot) /\ WF_vars(restart_timer_callback)
  /\ \A t \in Tasks : WF_vars(Step(t))

-----------------------------------------------------------------------------
(* Properties.                                                              *)

\* What a request set, once it is complete and if no other request for the
\* same subject ran at the same time, is what the next boot runs: not what an
\* earlier one set, and not a mixture of the two, however often the power
\* failed before or after.  A form for which setWpa2 had no memory is not
\* complete; a static address waits for an SSID.
NextBootAsAsked ==
  \A s \in Subjects : asked[s].by = "done" => AsAsked(s, asked[s].what, nvs)

\* A protected access point becomes an open one only by a request for an open
\* one or by an erasure, wherever the power fails (setApByQuery, set_ap).
OpensOnlyOnRequest ==
  [][AccessPoint(nvs).passwd # "" /\ AccessPoint(nvs').passwd = ""
     => \/ PinHeld
        \/ \E t \in Tasks : \/ req[t].kind = "erase"
                            \/ req[t].kind \in {"config", "set_ap"} /\ req[t].ap_passwd \in Short
                            \/ /\ req[t].kind = "nvs_set" /\ req[t].key = "ap_passwd"
                               /\ req[t].value \in Short]_vars

\* With a password that was set on the lock page, the web pages accept a
\* request only from somebody who gave it since the pages were locked,
\* restarts and power failures in between or not.
PasswordGuards ==
  [][/\ req["web"] = Idle /\ req'["web"] # Idle
     /\ asked["password"].by = "done"
     /\ asked["password"].what.kind = "lock" /\ asked["password"].what.lockpass # ""
     => opened]_vars

\* What the next boot runs; of the power, the option that is next to it.
Runs(N) ==
  <<Uplink(N), StaticAddress(N), AccessPoint(N), Address(N), fillDNS(N), fillMac(N), Text(N, "hostname"),
    [Services(N) EXCEPT !.power = PowerShown(N)], Text(N, "lock_pass"), WebServer(N)>>

\* Either page, posted as it is shown, changes nothing that the next boot runs,
\* in every state that forms, commands, cuts and boots lead to, as long as
\* nvs_set stores no DNS server, mask or octet that a form would refuse; only
\* what was changed since the boot of a value that the page shows as it runs is
\* lost.
Posted(r) == After(Writes(r), nvs)
SinceBoot(ks) == \E k \in ks : conf[k] # nvs[k]
PagesKeep ==
  boot = "up" =>
    /\ ~SinceBoot({"ssid", "passwd", "ap_ssid", "ap_passwd"})
         => Runs(Posted(index_page(nvs, conf))) = Runs(nvs)
    /\ ~SinceBoot({"custom_mac"}) => Runs(Posted(advanced_page(nvs, conf))) = Runs(nvs)

\* A form that is accepted is followed by a boot that runs what was asked, but
\* for the uplink if setWpa2 had no memory.
Current == \A s \in Subjects : asked[s].by = "done" => AsAsked(s, asked[s].what, conf)
AppliedAfterRestart ==
  req["web"].kind \in Restarting
    ~> (boot = "off" \/ (boot = "up" /\ req["web"] = Idle /\ ~armed /\ Current))
=============================================================================
