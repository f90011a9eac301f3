------------------------------ MODULE ScanPick ------------------------------
(***************************************************************************)
(* What a scan found, from the air to the uplink: ScanResult, and with it  *)
(* the list as it is stored and shown, the network that somebody picks     *)
(* from it (index_post_handler keeps it until the start page is shown the  *)
(* next time, to whomever), and the form that stores the uplink.           *)
(***************************************************************************)
EXTENDS ScanResult, Texts

CONSTANTS
  Airs,         \* what a scan may find: sequences of networks, [ssid, rssi]
  Home,         \* the uplink at first, [ssid, passwd]
  Passwords,    \* what users type as the password of a network
  Browsers

FieldEnd == 3     \* "\x03", after an SSID
RowEnd == 5       \* "\x05", after a network
SsidSize == 33 * 6
ParamSize == 600

DEFAULT_SCAN_LIST_SIZE == 15
\* Of the page of a list, what three times the SSIDs can take, as they are
\* escaped, besides the rows around them.
ListRoom == (100 - 6) * DEFAULT_SCAN_LIST_SIZE

\* What fits into a parameter of a form, whatever characters it has.
IsField(s) == s \in Seq(0..255) /\ 3 * Len(s) < ParamSize

\* No SSID has the delimiters in it, and the list fits onto its page.
ASSUME PickAssumption ==
  /\ DOMAIN Home = {"ssid", "passwd"} /\ IsField(Home.ssid) /\ IsField(Home.passwd)
  /\ \A p \in Passwords : IsField(p)
  /\ \A air \in Airs :
       /\ air \in Seq([ssid : Seq(0..255), rssi : Seq(0..255)]) /\ Len(air) =< DEFAULT_SCAN_LIST_SIZE
       /\ \A i \in DOMAIN air :
            /\ Len(air[i].ssid) =< 32 /\ air[i].rssi # <<>>
            /\ \A c \in Range(air[i].ssid) \cup Range(air[i].rssi) : c \notin {FieldEnd, RowEnd}
       /\ 3 * Len(FlattenSeq([i \in DOMAIN air |-> sanitize_html(air[i].ssid, SsidSize)])) < ListRoom

VARIABLES
  found,         \* flash: scan_result, the text
  uplink,        \* flash: ssid and passwd
  running,       \* the two as they were read at the boot
  appliedSSID,   \* the network that was picked, or <<>>
  applying,      \* the password that apply_post_handler still has to store
  page,          \* per browser: the page it shows
  airs,          \* history: what the scans have found
  torn           \* history: the power failed between ssid and passwd

pick == <<found, uplink, running, appliedSSID, applying, page, airs, torn>>

Blank == [ssid |-> <<>>, passwd |-> <<>>]
NoPage == [shows |-> "nothing"]
ListPage(rows) == [shows |-> "list", rows |-> rows]
FormPage(u) == [shows |-> "form", uplink |-> u]

Nothing == <<>>
Serving == pc = "up" /\ applying = Nothing

InitPick ==
  /\ Init
  /\ found = <<>> /\ uplink = Home /\ running = Blank
  /\ appliedSSID = <<>> /\ applying = Nothing
  /\ page = [b \in Browsers |-> NoPage]
  /\ airs = {} /\ torn = FALSE

-----------------------------------------------------------------------------
(* The list.                                                                *)

\* wifi_scan.
ScanText(air) ==
  FlattenSeq([i \in DOMAIN air |-> air[i].ssid \o <<FieldEnd>> \o air[i].rssi \o <<RowEnd>>])

\* result_download_get_handler: the SSIDs that the user sees, and may pick.
\* A row without an SSID has one part only.
Rows(text) ==
  LET row == [i \in DOMAIN Tokens(text, RowEnd) |-> Tokens(Tokens(text, RowEnd)[i], FieldEnd)]
  IN FlattenSeq([i \in DOMAIN row |->
       IF Len(row[i]) >= 2 THEN <<Unescaped(sanitize_html(row[i][1], SsidSize))>> ELSE <<>>])

\* The SSIDs of what a scan found, without those of hidden networks.
Named(air) ==
  FlattenSeq([i \in DOMAIN air |-> IF air[i].ssid = <<>> THEN <<>> ELSE <<air[i].ssid>>])
Ssids(air) == {air[i].ssid : i \in DOMAIN air}

\* Faulty variant: the last network is left out.
StoreFoundShort ==
  /\ Store
  /\ \/ /\ scan_result' # scan_result
        /\ \E air \in Airs : found' = ScanText(SubSeq(air, 1, Len(air) - 1)) /\ airs' = airs \cup {air}
     \/ scan_result' = scan_result /\ UNCHANGED <<found, airs>>
  /\ UNCHANGED <<uplink, running, appliedSSID, applying, page, torn>>

StoreFound ==
  /\ Store
  /\ \/ /\ scan_result' # scan_result
        /\ \E air \in Airs : found' = ScanText(air) /\ airs' = airs \cup {air}
     \/ scan_result' = scan_result /\ UNCHANGED <<found, airs>>
  /\ UNCHANGED <<uplink, running, appliedSSID, applying, page, torn>>

EraseFound ==
  /\ EraseResult /\ found' = <<>>
  /\ UNCHANGED <<uplink, running, appliedSSID, applying, page, airs, torn>>

ShowResult(b) ==
  /\ ViewResult /\ Serving
  /\ page' = [page EXCEPT ![b] = ListPage(Rows(found))]
  /\ UNCHANGED <<found, uplink, running, appliedSSID, applying, airs, torn>>

-----------------------------------------------------------------------------
(* The uplink.                                                              *)

\* "Use": the list may be an old one, of before a restart.
index_post_handler(b) ==
  /\ Serving /\ page[b].shows = "list"
  /\ \E s \in Range(page[b].rows) : appliedSSID' = alloc_safe_str(Received(s, ParamSize))
  /\ page' = [page EXCEPT ![b] = NoPage]
  /\ UNCHANGED <<vars, found, uplink, running, applying, airs, torn>>

\* Faulty variant: the running password is shown with the network that was picked.
index_get_handler_passwd(b) ==
  /\ Serving /\ ~Redirects
  /\ page' = [page EXCEPT ![b] = FormPage(
       [ssid |-> Unescaped(IF appliedSSID # <<>> THEN appliedSSID ELSE alloc_safe_str(running.ssid)),
        passwd |-> Unescaped(alloc_safe_str(running.passwd))])]
  /\ appliedSSID' = <<>>
  /\ UNCHANGED <<vars, found, uplink, running, applying, airs, torn>>

\* The start page, if it does not lead to the list: the network that was
\* picked, once and without a password, or the running one.
index_get_handler(b) ==
  /\ Serving /\ ~Redirects
  /\ page' = [page EXCEPT ![b] = FormPage(
       IF appliedSSID # <<>>
       THEN [ssid |-> Unescaped(appliedSSID), passwd |-> <<>>]
       ELSE [ssid |-> Unescaped(alloc_safe_str(running.ssid)),
             passwd |-> Unescaped(alloc_safe_str(running.passwd))])]
  /\ appliedSSID' = <<>>
  /\ UNCHANGED <<vars, found, uplink, running, applying, airs, torn>>

\* The form is posted, with the password that it shows or one that was typed:
\* setStaByQuery stores the SSID and then the password.
apply_post_handler(b) ==
  /\ Serving /\ page[b].shows = "form"
  /\ uplink' = [uplink EXCEPT !.ssid = Received(page[b].uplink.ssid, ParamSize)]
  /\ \E p \in Passwords \cup {page[b].uplink.passwd} : applying' = <<Received(p, ParamSize)>>
  /\ page' = [page EXCEPT ![b] = NoPage]
  /\ UNCHANGED <<vars, found, running, appliedSSID, airs, torn>>

SetPasswd ==
  /\ applying # Nothing /\ applying' = Nothing
  /\ uplink' = [uplink EXCEPT !.passwd = applying[1]]
  /\ UNCHANGED <<vars, found, running, appliedSSID, page, airs, torn>>

-----------------------------------------------------------------------------
BootUplink ==
  /\ Boot /\ running' = uplink
  /\ UNCHANGED <<found, uplink, appliedSSID, applying, page, airs, torn>>

\* The pages stay in the browsers.
RestartPick ==
  /\ Restart
  /\ running' = Blank /\ appliedSSID' = <<>> /\ applying' = Nothing
  /\ torn' = (torn \/ applying # Nothing)
  /\ UNCHANGED <<found, uplink, page, airs>>

NextPick ==
  \/ BootUplink \/ EraseFound \/ StoreFound \/ RestartPick \/ SetPasswd
  \/ (EraseShown \/ ResetShown) /\ UNCHANGED pick
  \/ Scan /\ Serving /\ UNCHANGED pick
  \/ \E b \in Browsers : \/ ShowResult(b) \/ index_post_handler(b)
                         \/ index_get_handler(b) \/ apply_post_handler(b)

SpecPick == InitPick /\ [][NextPick]_<<vars, pick>>

-----------------------------------------------------------------------------
(* Correctness.                                                             *)

\* A list that a browser shows, be it of before a restart or of a result that
\* is deleted by now, is one that a scan has found: every network with an SSID,
\* in the order found and whatever characters it has, and no other.
ListIsTrue ==
  \A b \in Browsers :
    page[b].shows = "list" /\ page[b].rows # <<>> =>
      \E air \in airs : page[b].rows = Named(air)

\* The uplink that is stored is the one of before with its password, or a
\* network that a scan has found, byte for byte, with no password or one that
\* was typed: however the picks, pages and restarts of several browsers
\* interleave, no network is stored with the password of another one, unless
\* the power fails between the two writes.
UplinkAsPicked ==
  ~torn /\ applying = Nothing =>
    \/ uplink.ssid = Home.ssid /\ uplink.passwd \in Passwords \cup {Home.passwd}
    \/ /\ uplink.passwd \in Passwords \cup {<<>>}
       /\ \E air \in airs : \E i \in DOMAIN air : uplink.ssid = air[i].ssid
=============================================================================
