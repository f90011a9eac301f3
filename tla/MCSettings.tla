----------------------------- MODULE MCSettings -----------------------------
\* Small sets of forms and commands for Settings.
EXTENDS Settings

Config(ssid, id, cer, pass) ==
  [kind |-> "config", ap_ssid |-> "home", ap_passwd |-> pass, hidden |-> cer = "",
   ssid |-> ssid, passwd |-> "secretA", sta_identity |-> id, sta_user |-> "", cer |-> cer]

Plain == [kind |-> "advanced", alive |-> TRUE, led |-> TRUE, nat |-> FALSE, bridge |-> FALSE,
          ws |-> TRUE, custommac |-> "mac", macaddress |-> "m1", dns |-> "custom", dnsip |-> "ip",
          netmask |-> "classb", mask |-> "", hostname |-> "toolong", octet |-> "7",
          txpower |-> "20", low |-> TRUE]
Odd == [kind |-> "advanced", alive |-> FALSE, led |-> FALSE, nat |-> TRUE, bridge |-> TRUE,
        ws |-> FALSE, custommac |-> "mac", macaddress |-> "bad", dns |-> "custom", dnsip |-> "bad",
        netmask |-> "custom", mask |-> "bad", hostname |-> "", octet |-> "300",
        txpower |-> "90", low |-> FALSE]

MCWebRequests ==
  {Config("A", "idA", "cerA", "longpass"), Config("B", "", "", "short"),
   Plain, Odd, Erase,
   [kind |-> "lock", lockpass |-> "p", lockpass2 |-> "p"],
   [kind |-> "lock", lockpass |-> "", lockpass2 |-> ""]}

MCConsoleRequests ==
  {[kind |-> "set_sta", ssid |-> "C", passwd |-> "secretC"],
   [kind |-> "set_sta_ent", ssid |-> "D", sta_identity |-> "idD", sta_user |-> "userD",
    passwd |-> "secretD"],
   [kind |-> "set_ap", ap_ssid |-> "shed", ap_passwd |-> "otherpass"],
   [kind |-> "set_sta_static", ip |-> "ip", mask |-> "mask", gw |-> "gw"],
   [kind |-> "set_ap_ip", ap_ip |-> "ip"],
   [kind |-> "set_bridge", bridge |-> TRUE],
   [kind |-> "nvs_set", key |-> "lock", value |-> "0"],
   [kind |-> "nvs_set", key |-> "ap_passwd", value |-> "short"]}

MCStrings == STRING \ {None}

MCPowerOption == [p \in {"8", "20", "80"} |-> IF p = "20" THEN "8" ELSE p]
=============================================================================
