----------------------------- MODULE MCScanPick -----------------------------
(* Short texts for ScanPick, in ASCII.                                      *)
EXTENDS ScanPick

Weak == <<45, 53, 48>>
\* Two hidden networks, "&lt;%41+ '", and the one that is the uplink, <".
MCHome == [ssid |-> <<60, 34>>, passwd |-> <<62, 37>>]
MCAirs == {<<[ssid |-> <<>>, rssi |-> Weak],
             [ssid |-> <<38, 108, 116, 59, 37, 52, 49, 43, 32, 39>>, rssi |-> Weak],
             [ssid |-> <<>>, rssi |-> Weak],
             [ssid |-> MCHome.ssid, rssi |-> Weak]>>}

MCPasswords == {<<43>>}

Symmetry == Permutations(Browsers)
=============================================================================
