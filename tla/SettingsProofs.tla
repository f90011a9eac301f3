--------------------------- MODULE SettingsProofs ---------------------------
(***************************************************************************)
(* Proofs about Settings, for any forms and commands, any texts and any    *)
(* number of requests, restarts and power failures.                        *)
(***************************************************************************)
EXTENDS Settings, WellFoundedInduction, TLAPS

Flash == [Keys -> Values]
Entries == UNION {[D -> Values] : D \in SUBSET Keys}

-----------------------------------------------------------------------------
(* Numbers.                                                                 *)

\* The least number of a set of natural numbers is one of them.
LEMMA MinIsMember ==
  ASSUME NEW S \in SUBSET Nat, S # {}
  PROVE  Min(S) \in S /\ \A n \in S : Min(S) =< n
<1> DEFINE R == OpToRel(<, Nat)
<1>1. \E m \in S : \A n \in S : ~ (<<n, m>> \in R)
  BY NatLessThanWellFounded, WFMin
<1>2. PICK m \in S : \A n \in S : ~ (<<n, m>> \in R)
  BY <1>1
<1>3. \A n \in S : m =< n
  <2> TAKE n \in S
  <2>1. ~ (n < m)
    BY <1>2 DEF OpToRel
  <2> QED BY <2>1
<1> QED BY <1>3 DEF Min

\* The last place in a list where something holds.
LEMMA MaxIsMember ==
  ASSUME NEW N \in Nat, NEW S \in SUBSET (1..N), S # {}
  PROVE  Max(S) \in S /\ \A n \in S : n =< Max(S)
<1> DEFINE D == {N - n : n \in S}
<1>1. D \in SUBSET Nat /\ D # {}
  <2>1. \A n \in S : N - n \in Nat
    OBVIOUS
  <2> QED BY <2>1
<1>2. Min(D) \in D /\ \A d \in D : Min(D) =< d
  BY <1>1, MinIsMember
<1>3. PICK m \in S : Min(D) = N - m
  BY <1>2
<1>4. \A n \in S : m >= n
  <2> TAKE n \in S
  <2>1. N - m =< N - n
    BY <1>2, <1>3
  <2> QED BY <2>1
<1> QED BY <1>4 DEF Max

-----------------------------------------------------------------------------
(* What a list of writes leaves in flash.                                   *)

LEMMA EntryTypes ==
  ASSUME NEW w \in Entries
  PROVE  DOMAIN w \subseteq Keys /\ \A k \in DOMAIN w : w[k] \in Values
BY DEF Entries

\* Of each key, the last write, or what was there.
LEMMA AfterLast ==
  ASSUME NEW q \in Seq(Entries), NEW N \in Flash, NEW k \in Keys
  PROVE  \/ /\ \A i \in 1..Len(q) : k \notin DOMAIN q[i]
            /\ After(q, N)[k] = N[k]
         \/ \E i \in 1..Len(q) :
               /\ k \in DOMAIN q[i] /\ \A j \in 1..Len(q) : j > i => k \notin DOMAIN q[j]
               /\ After(q, N)[k] = q[i][k]
<1> DEFINE W == {i \in DOMAIN q : k \in DOMAIN q[i]}
<1>1. Len(q) \in Nat /\ DOMAIN q = 1..Len(q)
  OBVIOUS
<1>2. After(q, N)[k] = IF W = {} THEN N[k] ELSE q[Max(W)][k]
  BY DEF After
<1>3. CASE W = {}
  BY <1>1, <1>2, <1>3
<1>4. CASE W # {}
  <2>1. W \in SUBSET (1..Len(q))
    BY <1>1
  <2> HIDE DEF W
  <2>2. Max(W) \in W /\ \A n \in W : n =< Max(W)
    BY <1>1, <1>4, <2>1, MaxIsMember
  <2>3. Max(W) \in 1..Len(q) /\ k \in DOMAIN q[Max(W)]
    BY <1>1, <2>2 DEF W
  <2>4. ASSUME NEW j \in 1..Len(q), j > Max(W) PROVE k \notin DOMAIN q[j]
    <3>1. Max(W) \in Int
      BY <1>1, <2>3
    <3>2. j \notin W
      BY <2>2, <2>4, <3>1
    <3> QED BY <1>1, <3>2 DEF W
  <2> QED BY <1>2, <1>4, <2>3, <2>4
<1> QED BY <1>3, <1>4

LEMMA AfterTypes ==
  ASSUME NEW q \in Seq(Entries), NEW N \in Flash
  PROVE  After(q, N) \in Flash
<1>1. ASSUME NEW k \in Keys PROVE After(q, N)[k] \in Values
  <2>1. \A i \in 1..Len(q) : q[i] \in Entries
    OBVIOUS
  <2> QED BY <2>1, AfterLast, EntryTypes DEF Flash
<1>2. After(q, N) = [k \in Keys |-> After(q, N)[k]]
  BY DEF After
<1> HIDE DEF Flash
<1> QED BY <1>1, <1>2 DEF Flash

LEMMA AfterNone ==
  ASSUME NEW N \in Flash
  PROVE  After(<<>>, N) = N
<1> DEFINE q == <<>>
<1>1. q \in Seq(Entries) /\ 1..Len(q) = {}
  OBVIOUS
<1> HIDE DEF q
<1>2. \A k \in Keys : After(q, N)[k] = N[k]
  BY <1>1, AfterLast
<1>3. After(q, N) \in Flash
  BY <1>1, AfterTypes
<1> QED BY <1>2, <1>3 DEF Flash, q

LEMMA AfterConcat ==
  ASSUME NEW a \in Seq(Entries), NEW b \in Seq(Entries), NEW N \in Flash
  PROVE  After(a \o b, N) = After(b, After(a, N))
<1> DEFINE c == a \o b
           M == After(a, N)
<1>1. c \in Seq(Entries) /\ M \in Flash
  BY AfterTypes
<1>2. Len(a) \in Nat /\ Len(b) \in Nat /\ Len(c) = Len(a) + Len(b)
  OBVIOUS
<1>3. /\ \A i \in 1..Len(a) : c[i] = a[i] /\ i \in 1..Len(c)
      /\ \A i \in 1..Len(b) : c[Len(a) + i] = b[i] /\ Len(a) + i \in 1..Len(c)
  OBVIOUS
<1>4. \A i \in 1..Len(c) : i \in 1..Len(a) \/ \E j \in 1..Len(b) : i = Len(a) + j
  <2> TAKE i \in 1..Len(c)
  <2>1. CASE i > Len(a)
    <3>1. i - Len(a) \in 1..Len(b) /\ i = Len(a) + (i - Len(a))
      BY <1>2, <2>1
    <3> QED BY <3>1
  <2> QED BY <1>2, <2>1
<1> HIDE DEF c, M
<1>5. ASSUME NEW k \in Keys PROVE After(c, N)[k] = After(b, M)[k]
  <2>1. \/ /\ \A i \in 1..Len(c) : k \notin DOMAIN c[i]
           /\ After(c, N)[k] = N[k]
        \/ \E i \in 1..Len(c) :
              /\ k \in DOMAIN c[i] /\ \A j \in 1..Len(c) : j > i => k \notin DOMAIN c[j]
              /\ After(c, N)[k] = c[i][k]
    BY <1>1, AfterLast
  <2>2. \/ /\ \A i \in 1..Len(b) : k \notin DOMAIN b[i]
           /\ After(b, M)[k] = M[k]
        \/ \E i \in 1..Len(b) :
              /\ k \in DOMAIN b[i] /\ \A j \in 1..Len(b) : j > i => k \notin DOMAIN b[j]
              /\ After(b, M)[k] = b[i][k]
    BY <1>1, AfterLast
  <2>3. \/ /\ \A i \in 1..Len(a) : k \notin DOMAIN a[i]
           /\ M[k] = N[k]
        \/ \E i \in 1..Len(a) :
              /\ k \in DOMAIN a[i] /\ \A j \in 1..Len(a) : j > i => k \notin DOMAIN a[j]
              /\ M[k] = a[i][k]
    BY AfterLast DEF M
  <2>4. CASE \A i \in 1..Len(b) : k \notin DOMAIN b[i]
    <3>1. CASE \A i \in 1..Len(a) : k \notin DOMAIN a[i]
      <4>1. \A i \in 1..Len(c) : k \notin DOMAIN c[i]
        BY <1>3, <1>4, <2>4, <3>1
      <4> QED BY <2>1, <2>2, <2>3, <2>4, <3>1, <4>1
    <3>2. CASE ~\A i \in 1..Len(a) : k \notin DOMAIN a[i]
      <4>1. PICK i \in 1..Len(a) :
              /\ k \in DOMAIN a[i] /\ \A j \in 1..Len(a) : j > i => k \notin DOMAIN a[j]
              /\ M[k] = a[i][k]
        BY <2>3, <3>2
      <4>2. PICK j \in 1..Len(c) :
              /\ k \in DOMAIN c[j] /\ \A x \in 1..Len(c) : x > j => k \notin DOMAIN c[x]
              /\ After(c, N)[k] = c[j][k]
        BY <1>3, <2>1, <4>1
      <4>3. j \in 1..Len(a) /\ k \in DOMAIN a[j]
        BY <1>3, <1>4, <2>4, <4>2
      <4>4. j = i
        BY <1>2, <1>3, <4>1, <4>2, <4>3
      <4> QED BY <1>3, <2>2, <2>4, <4>1, <4>2, <4>3, <4>4
    <3> QED BY <3>1, <3>2
  <2>5. CASE ~\A i \in 1..Len(b) : k \notin DOMAIN b[i]
    <3>1. PICK i \in 1..Len(b) :
            /\ k \in DOMAIN b[i] /\ \A j \in 1..Len(b) : j > i => k \notin DOMAIN b[j]
            /\ After(b, M)[k] = b[i][k]
      BY <2>2, <2>5
    <3>2. PICK j \in 1..Len(c) :
            /\ k \in DOMAIN c[j] /\ \A x \in 1..Len(c) : x > j => k \notin DOMAIN c[x]
            /\ After(c, N)[k] = c[j][k]
      BY <1>3, <2>1, <3>1
    <3>3. j >= Len(a) + i
      BY <1>2, <1>3, <3>1, <3>2
    <3>4. PICK x \in 1..Len(b) : j = Len(a) + x
      <4>1. Len(a) \in Nat /\ Len(b) \in Nat /\ i \in Nat /\ i >= 1 /\ j \in Int
        BY <1>2
      <4>2. j =< Len(a) + Len(b)
        BY <1>2, <1>4, <3>2
      <4>3. j - Len(a) \in 1..Len(b)
        BY <3>3, <4>1, <4>2
      <4> QED BY <4>1, <4>3
    <3>5. x = i
      BY <1>2, <1>3, <3>1, <3>2, <3>3, <3>4
    <3> QED BY <1>3, <3>1, <3>2, <3>4, <3>5
  <2> QED BY <2>4, <2>5
<1>6. After(c, N) \in Flash /\ After(b, M) \in Flash
  BY <1>1, AfterTypes
<1> QED BY <1>5, <1>6 DEF c, M, Flash

\* One write.
LEMMA AfterOne ==
  ASSUME NEW w \in Entries, NEW N \in Flash
  PROVE  After(<<w>>, N) = Stored(w, N)
<1> DEFINE q == <<w>>
<1>1. q \in Seq(Entries) /\ Len(q) = 1 /\ q[1] = w
  OBVIOUS
<1> HIDE DEF q
<1>2. ASSUME NEW k \in Keys PROVE After(q, N)[k] = Stored(w, N)[k]
  <2>1. 1..Len(q) = {1}
    BY <1>1
  <2>2. \/ k \notin DOMAIN w /\ After(q, N)[k] = N[k]
        \/ k \in DOMAIN w /\ After(q, N)[k] = w[k]
    BY <1>1, <2>1, AfterLast
  <2> QED BY <2>2 DEF Stored
<1>3. After(q, N) \in Flash
  BY <1>1, AfterTypes
<1>4. After(q, N) = [k \in Keys |-> After(q, N)[k]]
  BY <1>3 DEF Flash
<1>5. Stored(w, N) = [k \in Keys |-> Stored(w, N)[k]]
  BY DEF Stored
<1> QED BY <1>2, <1>4, <1>5 DEF q

LEMMA StoredTypes ==
  ASSUME NEW w \in Entries, NEW N \in Flash
  PROVE  Stored(w, N) \in Flash
BY EntryTypes DEF Stored, Flash

\* A task has done its first write.
LEMMA AfterFirst ==
  ASSUME NEW q \in Seq(Entries), q # <<>>, NEW N \in Flash
  PROVE  /\ Head(q) \in Entries /\ Tail(q) \in Seq(Entries)
         /\ After(Tail(q), Stored(Head(q), N)) = After(q, N)
<1>1. Head(q) \in Entries /\ Tail(q) \in Seq(Entries) /\ q = <<Head(q)>> \o Tail(q)
  OBVIOUS
<1>2. <<Head(q)>> \in Seq(Entries)
  BY <1>1
<1>3. After(<<Head(q)>> \o Tail(q), N) = After(Tail(q), After(<<Head(q)>>, N))
  BY <1>1, <1>2, AfterConcat
<1> QED BY <1>1, <1>3, AfterOne

-----------------------------------------------------------------------------
(* The requests.                                                            *)

IsRequest(r) == IsForm(r) \/ IsCommand(r)

LEMMA FormFields ==
  ASSUME NEW r, IsForm(r)
  PROVE  /\ r.kind \in {"config", "advanced", "lock", "erase"}
         /\ r.kind = "config" =>
              /\ r.hidden \in BOOLEAN
              /\ {r.ap_ssid, r.ap_passwd, r.ssid, r.passwd, r.sta_identity, r.sta_user, r.cer} \subseteq Strings
         /\ r.kind = "advanced" =>
              /\ {r.alive, r.led, r.nat, r.bridge, r.ws, r.low} \subseteq BOOLEAN
              /\ r.custommac \in Values
              /\ {r.macaddress, r.dnsip, r.mask, r.hostname, r.octet, r.txpower} \subseteq Strings
              /\ r.dns \in {None, "custom"} \cup Dns /\ r.netmask \in {None, "custom"} \cup Classes
         /\ r.kind = "lock" => r.lockpass \in Strings
<1>1. CASE r \in [kind : {"config"}, ap_ssid : Strings, ap_passwd : Strings, hidden : BOOLEAN, ssid : Strings,
                  passwd : Strings, sta_identity : Strings, sta_user : Strings, cer : Strings]
  BY <1>1
<1>2. CASE r \in [kind : {"advanced"}, alive : BOOLEAN, led : BOOLEAN, nat : BOOLEAN, bridge : BOOLEAN,
            ws : BOOLEAN, custommac : Values, macaddress : Strings,
            dns : {None, "custom"} \cup Dns, dnsip : Strings,
            netmask : {None, "custom"} \cup Classes, mask : Strings,
            hostname : Strings, octet : Strings, txpower : Strings, low : BOOLEAN]
  BY <1>2
<1>3. CASE r \in [kind : {"lock"}, lockpass : Strings, lockpass2 : Strings]
  BY <1>3
<1>4. CASE r \in [kind : {"erase"}]
  BY <1>4
<1> QED BY <1>1, <1>2, <1>3, <1>4 DEF IsForm

LEMMA CommandFields ==
  ASSUME NEW r, IsCommand(r)
  PROVE  /\ r.kind \in {"set_sta", "set_sta_ent", "set_sta_static", "set_ap", "set_ap_ip", "set_bridge", "nvs_set"}
         /\ r.kind \in {"set_sta", "set_sta_ent"} => {r.ssid, r.passwd} \subseteq Strings
         /\ r.kind = "set_sta_ent" => {r.sta_user, r.sta_identity} \subseteq Strings
         /\ r.kind = "set_sta_static" => {r.ip, r.mask, r.gw} \subseteq Strings
         /\ r.kind = "set_ap" => {r.ap_ssid, r.ap_passwd} \subseteq Strings
         /\ r.kind = "set_ap_ip" => r.ap_ip \in Strings
         /\ r.kind = "set_bridge" => r.bridge \in BOOLEAN
         /\ r.kind = "nvs_set" => r.key \in Keys /\ r.value \in Strings
BY DEF IsCommand

-----------------------------------------------------------------------------
(* The writes of a request.                                                 *)

\* A request that makes the access point an open one.
AsksOpen(r) ==
  \/ r.kind = "erase"
  \/ r.kind \in {"config", "set_ap"} /\ r.ap_passwd \in Short
  \/ r.kind = "nvs_set" /\ r.key = "ap_passwd" /\ r.value \in Short

\* What the advanced page can show.
Showable(k, v) ==
  /\ k = "custom_dns" => v \in {None} \cup Dns \cup ValidIps
  /\ k = "netmask" => v \in {None} \cup {ClassMask[c] : c \in Classes} \cup ValidMasks
  /\ k = "octet" => v \in {None} \cup ValidOctets

\* What a request may write, and where.
MayWrite(r, k, v) ==
  /\ k \in Keys /\ v \in Values
  /\ Subject(k) \in Sets(r)
  /\ k = "ap_passwd" /\ (v = None \/ v \in Short) => AsksOpen(r)
  /\ IF r.kind = "nvs_set" THEN k = r.key /\ v = r.value ELSE Showable(k, v)

WritesOf(r) == {w \in Entries : \A k \in DOMAIN w : MayWrite(r, k, w[k])}

LEMMA PutWrites ==
  ASSUME NEW r, NEW k, NEW v, MayWrite(r, k, v)
  PROVE  Put(k, v) \in Seq(WritesOf(r))
<1> DEFINE w == [x \in {k} |-> v]
<1>1. w \in Entries
  <2>1. {k} \in SUBSET Keys /\ w \in [{k} -> Values]
    BY DEF MayWrite
  <2> QED BY <2>1 DEF Entries
<1>2. w \in WritesOf(r)
  BY <1>1 DEF WritesOf
<1> QED BY <1>2 DEF Put

\* Texts that the program writes are values.
LEMMA SomeValues ==
  /\ Strings \subseteq Values /\ None \in Values /\ None \notin Strings
  /\ \A b : Flag(b) \in Strings
  /\ "1" \in Values /\ "random" \in Values
BY StringAssumption DEF Values, Flag

LEMMA NoWrites == \A r : <<>> \in Seq(WritesOf(r))
OBVIOUS

LEMMA FourWrites ==
  ASSUME NEW S, NEW a \in Seq(S), NEW b \in Seq(S), NEW c \in Seq(S), NEW d \in Seq(S)
  PROVE  a \o b \o c \o d \in Seq(S)
<1>1. a \o b \in Seq(S)
  OBVIOUS
<1>2. (a \o b) \o c \in Seq(S)
  BY <1>1
<1> QED BY <1>2

LEMMA ConsoleWrites ==
  ASSUME NEW r, IsCommand(r)
  PROVE  Writes(r) \in Seq(WritesOf(r))
<1> USE SomeValues
<1>1. CASE r.kind \in {"set_sta", "set_sta_ent"}
  <2>1. Sets(r) = {"uplink"} /\ {r.ssid, r.passwd} \subseteq Strings
    BY <1>1, CommandFields DEF Sets
  <2>2. \A k \in {"ssid", "passwd", "sta_user", "sta_identity", "cer"}, v \in Values : MayWrite(r, k, v)
    BY <1>1, <2>1 DEF MayWrite, Keys, Subject, Showable
  <2>3. CASE r.kind = "set_sta"
    <3>1. /\ Put("ssid", r.ssid) \in Seq(WritesOf(r)) /\ Put("passwd", r.passwd) \in Seq(WritesOf(r))
          /\ Drop("cer") \in Seq(WritesOf(r)) /\ Drop("sta_user") \in Seq(WritesOf(r))
          /\ Drop("sta_identity") \in Seq(WritesOf(r))
      BY <2>1, <2>2, PutWrites DEF Drop
    <3> QED BY <2>3, <3>1 DEF Writes, set_sta
  <2>4. CASE r.kind = "set_sta_ent"
    <3>1. {r.sta_user, r.sta_identity} \subseteq Strings
      BY <2>4, CommandFields
    <3>2. /\ Put("ssid", r.ssid) \in Seq(WritesOf(r)) /\ Put("passwd", r.passwd) \in Seq(WritesOf(r))
          /\ Put("sta_user", r.sta_user) \in Seq(WritesOf(r))
          /\ Put("sta_identity", r.sta_identity) \in Seq(WritesOf(r))
      BY <2>1, <2>2, <3>1, PutWrites
    <3> QED BY <2>4, <3>2 DEF Writes, set_sta_ent
  <2> QED BY <1>1, <2>3, <2>4
<1>2. CASE r.kind = "set_sta_static"
  <2>1. Sets(r) = {"static"} /\ {r.ip, r.mask, r.gw} \subseteq Strings
    BY <1>2, CommandFields DEF Sets
  <2>2. \A k \in {"static_ip", "subnet_mask", "gateway_addr"}, v \in Values : MayWrite(r, k, v)
    BY <1>2, <2>1 DEF MayWrite, Keys, Subject, Showable
  <2>3. /\ Put("static_ip", r.ip) \in Seq(WritesOf(r)) /\ Put("subnet_mask", r.mask) \in Seq(WritesOf(r))
        /\ Put("gateway_addr", r.gw) \in Seq(WritesOf(r))
    BY <2>1, <2>2, PutWrites
  <2> QED BY <1>2, <2>3 DEF Writes, set_sta_static
<1>3. CASE r.kind = "set_ap"
  <2>1. Sets(r) = {"ap"} /\ {r.ap_ssid, r.ap_passwd} \subseteq Strings
    BY <1>3, CommandFields DEF Sets
  <2>2. MayWrite(r, "ap_ssid", r.ap_ssid) /\ MayWrite(r, "ap_passwd", r.ap_passwd)
    BY <1>3, <2>1 DEF MayWrite, Keys, Subject, Showable, AsksOpen
  <2> QED BY <1>3, <2>2, PutWrites DEF Writes, set_ap
<1>4. CASE r.kind = "set_ap_ip"
  <2>1. MayWrite(r, "ap_ip", r.ap_ip)
    BY <1>4, CommandFields DEF MayWrite, Keys, Subject, Showable, Sets
  <2> QED BY <1>4, <2>1, PutWrites DEF Writes, set_ap_ip
<1>5. CASE r.kind = "set_bridge"
  <2>1. MayWrite(r, "bridge_enabled", Flag(r.bridge))
    BY <1>5 DEF MayWrite, Keys, Subject, Showable, Sets
  <2> QED BY <1>5, <2>1, PutWrites DEF Writes, set_bridge_cmd
<1>6. CASE r.kind = "nvs_set"
  <2>1. r.key \in Keys /\ r.value \in Strings
    BY <1>6, CommandFields
  <2>2. MayWrite(r, r.key, r.value)
    BY <1>6, <2>1 DEF MayWrite, Sets, AsksOpen
  <2> QED BY <1>6, <2>2, PutWrites DEF Writes, nvs_set
<1> QED BY <1>1, <1>2, <1>3, <1>4, <1>5, <1>6, CommandFields

\* The groups of writes of the two pages.
LEMMA ConfigWrites ==
  ASSUME NEW r, IsForm(r), r.kind = "config"
  PROVE  /\ setApByQuery(r) \in Seq(WritesOf(r)) /\ setStaByQuery(r) \in Seq(WritesOf(r))
         /\ setWpa2(r) \in Seq(WritesOf(r))
<1> USE SomeValues
<1>1. /\ Sets(r) = {"uplink", "ap"} /\ r.hidden \in BOOLEAN
      /\ {r.ap_ssid, r.ap_passwd, r.ssid, r.passwd, r.sta_identity, r.sta_user, r.cer} \subseteq Strings
  BY FormFields DEF Sets
<1>2. \A k \in {"ssid", "passwd", "sta_user", "sta_identity", "cer", "ap_ssid", "ssid_hidden"}, v \in Values :
        MayWrite(r, k, v)
  BY <1>1 DEF MayWrite, Keys, Subject, Showable
<1>3. /\ r.ap_passwd \notin Short => MayWrite(r, "ap_passwd", r.ap_passwd)
      /\ r.ap_passwd \in Short => MayWrite(r, "ap_passwd", None)
  BY <1>1 DEF MayWrite, Keys, Subject, Showable, AsksOpen
<1>4. setApByQuery(r) \in Seq(WritesOf(r))
  <2>1. /\ Put("ap_ssid", r.ap_ssid) \in Seq(WritesOf(r))
        /\ PutOrDrop("ap_passwd", r.ap_passwd, r.ap_passwd \notin Short) \in Seq(WritesOf(r))
        /\ PutOrDrop("ssid_hidden", "1", r.hidden) \in Seq(WritesOf(r))
    BY <1>1, <1>2, <1>3, PutWrites DEF PutOrDrop, Drop
  <2> QED BY <2>1 DEF setApByQuery
<1>5. setStaByQuery(r) \in Seq(WritesOf(r))
  <2>1. Put("ssid", r.ssid) \in Seq(WritesOf(r)) /\ Put("passwd", r.passwd) \in Seq(WritesOf(r))
    BY <1>1, <1>2, PutWrites
  <2> QED BY <2>1 DEF setStaByQuery
<1>6. setWpa2(r) \in Seq(WritesOf(r))
  <2>1. /\ PutOrDrop("sta_identity", r.sta_identity, r.sta_identity # "") \in Seq(WritesOf(r))
        /\ PutOrDrop("sta_user", r.sta_user, r.sta_user # "") \in Seq(WritesOf(r))
        /\ Drop("cer") \in Seq(WritesOf(r)) /\ PutIf("cer", r.cer, r.cer # "") \in Seq(WritesOf(r))
    BY <1>1, <1>2, PutWrites, NoWrites DEF PutOrDrop, Drop, PutIf
  <2> QED BY <2>1, FourWrites DEF setWpa2
<1> QED BY <1>4, <1>5, <1>6

LEMMA AdvancedWrites ==
  ASSUME NEW r, IsForm(r), r.kind = "advanced"
  PROVE  /\ Switches(r) \in Seq(WritesOf(r)) /\ CustomMac(r) \in Seq(WritesOf(r))
         /\ CustomDns(r) \in Seq(WritesOf(r)) /\ Netmask(r) \in Seq(WritesOf(r))
         /\ Radio(r) \in Seq(WritesOf(r))
<1> USE SomeValues
<1>1. /\ {r.alive, r.led, r.nat, r.bridge, r.ws, r.low} \subseteq BOOLEAN /\ r.custommac \in Values
      /\ {r.macaddress, r.dnsip, r.mask, r.hostname, r.octet, r.txpower} \subseteq Strings
      /\ r.dns \in {None, "custom"} \cup Dns /\ r.netmask \in {None, "custom"} \cup Classes
  BY FormFields
<1>2. /\ {"address", "dns", "mac", "name", "services"} \subseteq Sets(r)
      /\ ~r.ws => "web" \in Sets(r)
  BY DEF Sets
<1>3. \A k \in {"keep_alive", "led_disabled", "nat_disabled", "bridge_enabled", "custom_mac",
               "hostname", "txpower", "lower_bandwith"}, v \in Values : MayWrite(r, k, v)
  BY <1>2 DEF MayWrite, Keys, Subject, Showable
<1>4. ASSUME NEW k \in {"custom_dns", "netmask", "octet"}, NEW v \in Values, Showable(k, v)
      PROVE  MayWrite(r, k, v)
  BY <1>2, <1>4 DEF MayWrite, Keys, Subject
<1>5. "1" \in Values /\ "random" \in Values
  OBVIOUS
<1>6. Switches(r) \in Seq(WritesOf(r))
  <2>1. /\ Put("keep_alive", Flag(r.alive)) \in Seq(WritesOf(r))
        /\ Put("led_disabled", Flag(~r.led)) \in Seq(WritesOf(r))
        /\ Put("nat_disabled", Flag(~r.nat)) \in Seq(WritesOf(r))
        /\ Put("bridge_enabled", Flag(r.bridge)) \in Seq(WritesOf(r))
    BY <1>3, PutWrites
  <2>2. ~r.ws => Put("lock", "1") \in Seq(WritesOf(r))
    <3>1. ~r.ws => MayWrite(r, "lock", "1")
      BY <1>2, <1>5 DEF MayWrite, Keys, Subject, Showable
    <3> QED BY <3>1, PutWrites
  <2>3. PutIf("lock", "1", ~r.ws) \in Seq(WritesOf(r))
    BY <1>1, <2>2 DEF PutIf
  <2> QED BY <2>1, <2>3 DEF Switches
<1>7. CustomMac(r) \in Seq(WritesOf(r))
  <2>1. /\ Put("custom_mac", "random") \in Seq(WritesOf(r))
        /\ PutOrDrop("custom_mac", r.macaddress, r.macaddress \in ValidMacs) \in Seq(WritesOf(r))
    BY <1>1, <1>3, <1>5, PutWrites DEF PutOrDrop, Drop
  <2> QED BY <2>1 DEF CustomMac
<1>8. CustomDns(r) \in Seq(WritesOf(r))
  <2>1. Drop("custom_dns") \in Seq(WritesOf(r))
    BY <1>4, PutWrites DEF Drop, Showable
  <2>2. PutOrDrop("custom_dns", r.dnsip, r.dnsip \in ValidIps) \in Seq(WritesOf(r))
    BY <1>1, <1>4, PutWrites DEF PutOrDrop, Drop, Showable
  <2>3. r.dns \notin {None, "custom"} => Put("custom_dns", r.dns) \in Seq(WritesOf(r))
    BY <1>1, <1>4, PutWrites, StringAssumption DEF Showable
  <2> QED BY <2>1, <2>2, <2>3 DEF CustomDns
<1>9. Netmask(r) \in Seq(WritesOf(r))
  <2>1. \A c \in Classes : ClassMask[c] \in Values
    BY StringAssumption
  <2>2. ASSUME r.netmask \in Classes PROVE Netmask(r) \in Seq(WritesOf(r))
    <3>1. r.netmask \in Classes /\ r.netmask # None
      BY <2>2 DEF ClassMask, Classes, None
    <3>2. MayWrite(r, "netmask", ClassMask[r.netmask])
      BY <1>4, <2>1, <3>1 DEF Showable
    <3> QED BY <2>2, <3>1, <3>2, PutWrites DEF Netmask
  <2>3. ASSUME r.netmask = None PROVE Netmask(r) \in Seq(WritesOf(r))
    <3>1. r.netmask \notin Classes
      BY <2>3 DEF Classes, None
    <3>2. Netmask(r) = <<>>
      BY <2>3, <3>1 DEF Netmask
    <3> QED BY <3>2, NoWrites
  <2>4. ASSUME r.netmask # None, r.netmask \notin Classes PROVE Netmask(r) \in Seq(WritesOf(r))
    <3>1. "classc" \in Classes /\ ClassMask.classc = ClassMask["classc"]
      BY DEF Classes
    <3>2. /\ MayWrite(r, "netmask", ClassMask.classc)
          /\ r.mask \in ValidMasks => MayWrite(r, "netmask", r.mask)
      BY <1>1, <1>4, <2>1, <3>1 DEF Showable
    <3>3. CASE r.mask \in ValidMasks
      BY <2>4, <3>2, <3>3, PutWrites DEF Netmask
    <3>4. CASE r.mask \notin ValidMasks
      BY <2>4, <3>2, <3>4, PutWrites DEF Netmask
    <3> QED BY <3>3, <3>4
  <2> QED BY <2>2, <2>3, <2>4
<1>10. Radio(r) \in Seq(WritesOf(r))
  <2>1. /\ PutOrDrop("hostname", r.hostname, r.hostname # "") \in Seq(WritesOf(r))
        /\ PutOrDrop("lower_bandwith", "1", r.low) \in Seq(WritesOf(r))
        /\ Put("txpower", r.txpower) \in Seq(WritesOf(r))
    BY <1>1, <1>3, <1>5, PutWrites DEF PutOrDrop, Drop
  <2>2. PutOrDrop("octet", r.octet, r.octet \in ValidOctets) \in Seq(WritesOf(r))
    BY <1>1, <1>4, PutWrites DEF PutOrDrop, Drop, Showable
  <2>3. PutIf("txpower", r.txpower, r.txpower \in ValidPowers) \in Seq(WritesOf(r))
    BY <2>1, NoWrites DEF PutIf
  <2> QED BY <2>1, <2>2, <2>3, FourWrites DEF Radio
<1> QED BY <1>6, <1>7, <1>8, <1>9, <1>10

\* A request writes only keys of the subjects that it sets, and an open access
\* point only if that is what it asks for.
LEMMA RequestWrites ==
  ASSUME NEW r, IsRequest(r)
  PROVE  Writes(r) \in Seq(WritesOf(r))
<1>1. CASE IsCommand(r)
  BY <1>1, ConsoleWrites
<1>2. CASE IsForm(r)
  <2>1. CASE r.kind = "config"
    BY <1>2, <2>1, ConfigWrites DEF Writes, applyApStaConfig
  <2>2. CASE r.kind = "advanced"
    BY <1>2, <2>2, AdvancedWrites DEF Writes, applyAdvancedConfig
  <2>3. CASE r.kind = "lock"
    <3>1. MayWrite(r, "lock_pass", r.lockpass)
      BY <1>2, <2>3, FormFields, SomeValues DEF MayWrite, Keys, Subject, Showable, Sets
    <3> QED BY <2>3, <3>1, PutWrites DEF Writes
  <2>4. CASE r.kind = "erase"
    <3>1. \A k \in Keys : MayWrite(r, k, None)
      BY <2>4, SomeValues DEF MayWrite, Keys, Subject, Subjects, Showable, Sets, AsksOpen
    <3>2. [k \in Keys |-> None] \in WritesOf(r)
      BY <3>1, SomeValues DEF WritesOf, Entries
    <3> QED BY <2>4, <3>2 DEF Writes, EraseAll
  <2> QED BY <1>2, <2>1, <2>2, <2>3, <2>4, FormFields
<1> QED BY <1>1, <1>2 DEF IsRequest

-----------------------------------------------------------------------------
(* What a request leaves in flash.                                          *)

LEMMA WritesAreEntries == \A r : \A q \in Seq(WritesOf(r)) : q \in Seq(Entries)
<1>1. \A r : WritesOf(r) \subseteq Entries
  BY DEF WritesOf
<1> QED BY <1>1

\* N with v under the key k.
With(N, k, v) == [N EXCEPT ![k] = v]

LEMMA WithTypes ==
  ASSUME NEW N \in Flash, NEW k \in Keys, NEW v \in Values
  PROVE  /\ With(N, k, v) \in Flash
         /\ With(N, k, v)[k] = v /\ \A x \in Keys \ {k} : With(N, k, v)[x] = N[x]
BY DEF With, Flash

LEMMA AfterPut ==
  ASSUME NEW k \in Keys, NEW v \in Values, NEW N \in Flash
  PROVE  /\ Put(k, v) \in Seq(Entries)
         /\ After(Put(k, v), N) = With(N, k, v)
<1> DEFINE w == [x \in {k} |-> v]
<1>1. w \in Entries
  <2>1. {k} \in SUBSET Keys /\ w \in [{k} -> Values]
    OBVIOUS
  <2> QED BY <2>1 DEF Entries
<1>2. After(<<w>>, N) = Stored(w, N) /\ <<w>> \in Seq(Entries)
  BY <1>1, AfterOne
<1>3. Stored(w, N) = With(N, k, v)
  BY DEF Stored, Flash, With
<1> QED BY <1>2, <1>3 DEF Put

\* The list q of writes makes M of N.
Leaves(q, N, M) == q \in Seq(Entries) /\ N \in Flash /\ M \in Flash /\ After(q, N) = M

LEMMA LeavesPut ==
  ASSUME NEW k \in Keys, NEW v \in Values, NEW N \in Flash
  PROVE  Leaves(Put(k, v), N, With(N, k, v))
BY AfterPut, WithTypes DEF Leaves

LEMMA LeavesBoth ==
  ASSUME NEW a, NEW b, NEW L, NEW M, NEW N, Leaves(a, L, M), Leaves(b, M, N)
  PROVE  Leaves(a \o b, L, N)
BY AfterConcat DEF Leaves

LEMMA LeavesMore ==
  ASSUME NEW q, NEW N, NEW M, Leaves(q, N, M), NEW k \in Keys, NEW v \in Values
  PROVE  Leaves(q \o Put(k, v), N, With(M, k, v))
<1>1. M \in Flash
  BY DEF Leaves
<1> QED BY <1>1, LeavesPut, LeavesBoth

LEMMA LeavesIf ==
  ASSUME NEW q, NEW N, NEW M, Leaves(q, N, M), NEW k \in Keys, NEW v \in Values, NEW ok \in BOOLEAN
  PROVE  Leaves(q \o PutIf(k, v, ok), N, IF ok THEN With(M, k, v) ELSE M)
<1>1. CASE ok
  BY <1>1, LeavesMore DEF PutIf
<1>2. CASE ~ok
  <2>1. q \in Seq(Entries)
    BY DEF Leaves
  <2>2. q \o PutIf(k, v, ok) = q
    BY <1>2, <2>1 DEF PutIf
  <2> QED BY <1>2, <2>2
<1> QED BY <1>1, <1>2

Stores(k, v) == k \in Keys /\ v \in Values

LEMMA LeavesTwo ==
  ASSUME NEW N, NEW a, NEW va, NEW b, NEW vb, N \in Flash, Stores(a, va), Stores(b, vb)
  PROVE  Leaves(Put(a, va) \o Put(b, vb), N, With(With(N, a, va), b, vb))
BY LeavesPut, LeavesMore DEF Stores

LEMMA LeavesThree ==
  ASSUME NEW N, NEW a, NEW va, NEW b, NEW vb, NEW c, NEW vc,
         N \in Flash, Stores(a, va), Stores(b, vb), Stores(c, vc)
  PROVE  Leaves(Put(a, va) \o Put(b, vb) \o Put(c, vc), N, With(With(With(N, a, va), b, vb), c, vc))
BY LeavesTwo, LeavesMore DEF Stores

LEMMA LeavesFour ==
  ASSUME NEW N, NEW a, NEW va, NEW b, NEW vb, NEW c, NEW vc, NEW d, NEW vd,
         N \in Flash, Stores(a, va), Stores(b, vb), Stores(c, vc), Stores(d, vd)
  PROVE  Leaves(Put(a, va) \o Put(b, vb) \o Put(c, vc) \o Put(d, vd), N,
                With(With(With(With(N, a, va), b, vb), c, vc), d, vd))
BY LeavesThree, LeavesMore DEF Stores

-----------------------------------------------------------------------------
(* A request alone leaves what it asks for.                                 *)

LEMMA StaAsAsked ==
  ASSUME NEW r, IsCommand(r), r.kind \in {"set_sta", "set_sta_ent"}, NEW N \in Flash
  PROVE  AsAsked("uplink", r, After(Writes(r), N))
<1> DEFINE M == After(Writes(r), N)
<1> USE SomeValues
<1>1. {r.ssid, r.passwd} \subseteq Strings /\ {"ssid", "passwd", "cer", "sta_user", "sta_identity"} \subseteq Keys
  BY CommandFields DEF Keys
<1>2. CASE r.kind = "set_sta"
  <2>1. Writes(r) = Put("ssid", r.ssid) \o Put("passwd", r.passwd) \o Put("cer", None)
                    \o Put("sta_user", None) \o Put("sta_identity", None)
    BY <1>2 DEF Writes, set_sta, Drop
  <2>2. M = With(With(With(With(With(N, "ssid", r.ssid), "passwd", r.passwd), "cer", None),
                           "sta_user", None), "sta_identity", None)
    <3>1. Leaves(Writes(r), N, With(With(With(With(With(N, "ssid", r.ssid), "passwd", r.passwd), "cer", None),
                                    "sta_user", None), "sta_identity", None))
      <4>1. Leaves(Put("ssid", r.ssid) \o Put("passwd", r.passwd) \o Put("cer", None) \o Put("sta_user", None),
                   N, With(With(With(With(N, "ssid", r.ssid), "passwd", r.passwd), "cer", None), "sta_user", None))
        BY <1>1, LeavesFour DEF Stores
      <4> QED BY <1>1, <2>1, <4>1, LeavesMore
    <3> QED BY <3>1 DEF Leaves
  <2>3. /\ M["ssid"] = r.ssid /\ M["passwd"] = r.passwd
        /\ M["cer"] = None /\ M["sta_user"] = None /\ M["sta_identity"] = None
    BY <1>1, <2>2 DEF With, Flash
  <2> HIDE DEF M
  <2>4. Uplink(M) = ExpectedUplink(r, Uplink(M))
    BY <1>1, <1>2, <2>3 DEF Uplink, ExpectedUplink, isWpaEnterprise, setWpaEnterprise, Text
  <2> QED BY <1>2, <2>4 DEF AsAsked, M
<1>3. CASE r.kind = "set_sta_ent"
  <2>1. {r.sta_user, r.sta_identity} \subseteq Strings
    BY <1>3, CommandFields
  <2>2. Writes(r) = Put("ssid", r.ssid) \o Put("passwd", r.passwd)
                    \o Put("sta_user", r.sta_user) \o Put("sta_identity", r.sta_identity)
    BY <1>3 DEF Writes, set_sta_ent
  <2>3. M = With(With(With(With(N, "ssid", r.ssid), "passwd", r.passwd),
                      "sta_user", r.sta_user), "sta_identity", r.sta_identity)
    <3>1. Leaves(Writes(r), N, With(With(With(With(N, "ssid", r.ssid), "passwd", r.passwd),
                                    "sta_user", r.sta_user), "sta_identity", r.sta_identity))
      <4>1. /\ Stores("ssid", r.ssid) /\ Stores("passwd", r.passwd)
            /\ Stores("sta_user", r.sta_user) /\ Stores("sta_identity", r.sta_identity)
        BY <1>1, <2>1 DEF Stores
      <4> QED BY <2>2, <4>1, LeavesFour
    <3> QED BY <3>1 DEF Leaves
  <2>4. /\ M["ssid"] = r.ssid /\ M["passwd"] = r.passwd
        /\ M["sta_user"] = r.sta_user /\ M["sta_identity"] = r.sta_identity
    BY <1>1, <2>1, <2>3 DEF With, Flash
  <2> HIDE DEF M
  <2>5. Uplink(M) = ExpectedUplink(r, Uplink(M))
    BY <1>1, <1>3, <2>1, <2>4 DEF Uplink, ExpectedUplink, isWpaEnterprise, Text
  <2> QED BY <1>3, <2>5 DEF AsAsked, M
<1> QED BY <1>2, <1>3

LEMMA StaticAsAsked ==
  ASSUME NEW r, IsCommand(r), r.kind = "set_sta_static", NEW N \in Flash
  PROVE  AsAsked("static", r, After(Writes(r), N))
<1> DEFINE M == After(Writes(r), N)
<1> USE SomeValues
<1>1. {r.ip, r.mask, r.gw} \subseteq Strings /\ {"static_ip", "subnet_mask", "gateway_addr"} \subseteq Keys
  BY CommandFields DEF Keys
<1>2. Writes(r) = Put("static_ip", r.ip) \o Put("subnet_mask", r.mask) \o Put("gateway_addr", r.gw)
  BY DEF Writes, set_sta_static
<1>3. M = With(With(With(N, "static_ip", r.ip), "subnet_mask", r.mask), "gateway_addr", r.gw)
  <2>1. Leaves(Writes(r), N, With(With(With(N, "static_ip", r.ip), "subnet_mask", r.mask), "gateway_addr", r.gw))
    BY <1>1, <1>2, LeavesThree DEF Stores
  <2> QED BY <2>1 DEF Leaves
<1>4. M["static_ip"] = r.ip /\ M["subnet_mask"] = r.mask /\ M["gateway_addr"] = r.gw
  BY <1>1, <1>3 DEF With, Flash
<1> HIDE DEF M
<1>5. Text(M, "static_ip") = r.ip /\ Text(M, "subnet_mask") = r.mask /\ Text(M, "gateway_addr") = r.gw
  BY <1>1, <1>4 DEF Text
<1>6. StoredAddress(M) = IF "" \in {r.ip, r.mask, r.gw} THEN <<>> ELSE <<r.ip, r.mask, r.gw>>
  BY <1>5 DEF StoredAddress
<1> QED BY <1>6 DEF AsAsked, M

LEMMA ApAsAsked ==
  ASSUME NEW r, IsCommand(r), r.kind = "set_ap", NEW N \in Flash
  PROVE  AsAsked("ap", r, After(Writes(r), N))
<1> DEFINE M == After(Writes(r), N)
<1> USE SomeValues
<1>1. {r.ap_ssid, r.ap_passwd} \subseteq Strings /\ {"ap_ssid", "ap_passwd"} \subseteq Keys
  BY CommandFields DEF Keys
<1>2. M = With(With(N, "ap_ssid", r.ap_ssid), "ap_passwd", r.ap_passwd)
  <2>1. Leaves(Writes(r), N, With(With(N, "ap_ssid", r.ap_ssid), "ap_passwd", r.ap_passwd))
    BY <1>1, LeavesTwo DEF Stores, Writes, set_ap
  <2> QED BY <2>1 DEF Leaves
<1>3. M["ap_ssid"] = r.ap_ssid /\ M["ap_passwd"] = r.ap_passwd
  BY <1>1, <1>2 DEF With, Flash
<1> HIDE DEF M
<1>4. AccessPoint(M) = ExpectedAp(r, AccessPoint(M))
  BY <1>1, <1>3 DEF AccessPoint, ExpectedAp, Text, Number
<1> QED BY <1>4 DEF AsAsked, M

\* The commands and forms that write one key.
LEMMA OneKeyAsAsked ==
  ASSUME NEW r, IsRequest(r), r.kind \in {"set_ap_ip", "set_bridge", "nvs_set", "lock"},
         NEW s \in Sets(r), NEW N \in Flash
  PROVE  AsAsked(s, r, After(Writes(r), N))
<1> USE SomeValues
<1>1. CASE r.kind = "set_ap_ip"
  <2>1. r.ap_ip \in Strings /\ IsCommand(r)
    BY <1>1, FormFields, CommandFields DEF IsRequest
  <2>2. After(Writes(r), N) = With(N, "ap_ip", r.ap_ip)
    BY <1>1, <2>1, AfterPut DEF Writes, set_ap_ip, Keys
  <2>3. With(N, "ap_ip", r.ap_ip)["ap_ip"] = r.ap_ip
    BY DEF With, Flash, Keys
  <2>4. s = "address"
    BY <1>1 DEF Sets
  <2> QED BY <1>1, <2>1, <2>2, <2>3, <2>4 DEF AsAsked, ExpectedAddress, Address
<1>2. CASE r.kind = "set_bridge"
  <2>1. r.bridge \in BOOLEAN /\ s = "services"
    BY <1>2, FormFields, CommandFields DEF IsRequest, Sets
  <2> DEFINE M == With(N, "bridge_enabled", Flag(r.bridge))
  <2>2. After(Writes(r), N) = M
    BY <1>2, AfterPut DEF Writes, set_bridge_cmd, Keys
  <2>3. M["bridge_enabled"] = Flag(r.bridge)
    BY DEF With, Flash, Keys
  <2> HIDE DEF M
  <2>4. (Number(M, "bridge_enabled", "0") = "1") = r.bridge
    BY <2>1, <2>3 DEF Number, Flag, None
  <2>5. Services(M) = [Services(M) EXCEPT !.bridge = r.bridge]
    BY <2>4 DEF Services
  <2> QED BY <1>2, <2>1, <2>2, <2>5 DEF AsAsked, ExpectedServices
<1>3. CASE r.kind = "nvs_set"
  <2>1. r.key \in Keys /\ r.value \in Strings
    BY <1>3, FormFields, CommandFields DEF IsRequest
  <2>2. After(Writes(r), N) = With(N, r.key, r.value)
    BY <1>3, <2>1, AfterPut DEF Writes, nvs_set
  <2>3. With(N, r.key, r.value)[r.key] = r.value
    BY <2>1 DEF With, Flash
  <2> QED BY <1>3, <2>2, <2>3 DEF AsAsked
<1>4. CASE r.kind = "lock"
  <2>1. r.lockpass \in Strings /\ s = "password"
    BY <1>4, FormFields, CommandFields DEF IsRequest, Sets
  <2>2. After(Writes(r), N) = With(N, "lock_pass", r.lockpass)
    <3>1. Writes(r) = Put("lock_pass", r.lockpass)
      BY <1>4 DEF Writes
    <3>2. "lock_pass" \in Keys
      BY DEF Keys
    <3> QED BY <2>1, <3>1, <3>2, AfterPut
  <2>3. With(N, "lock_pass", r.lockpass)["lock_pass"] = r.lockpass
    BY DEF With, Flash, Keys
  <2> QED BY <1>4, <2>1, <2>2, <2>3 DEF AsAsked, Text
<1> QED BY <1>1, <1>2, <1>3, <1>4

LEMMA EraseAsAsked ==
  ASSUME NEW r, r.kind = "erase", NEW s \in Subjects, NEW N \in Flash
  PROVE  After(Writes(r), N) = Empty /\ AsAsked(s, r, Empty)
<1> DEFINE w == [k \in Keys |-> None]
<1> USE SomeValues
<1>1. w \in Entries
  BY DEF Entries
<1>2. After(<<w>>, N) = Stored(w, N)
  BY <1>1, AfterOne
<1>3. After(Writes(r), N) = Empty
  BY <1>2 DEF Writes, EraseAll, Stored, Empty
<1>4. \A k \in Keys : Empty[k] = None
  BY DEF Empty
<1>5. Uplink(Empty).ssid = "" /\ ~Uplink(Empty).eap
  BY <1>4 DEF Uplink, isWpaEnterprise, Text, Keys
<1>6. StoredAddress(Empty) = <<>> /\ Text(Empty, "lock_pass") = "" /\ WebServer(Empty)
  BY <1>4 DEF StoredAddress, Text, WebServer, Number, Keys
<1> QED BY <1>3, <1>5, <1>6 DEF AsAsked

-----------------------------------------------------------------------------
(* What the two pages leave.                                                *)

\* The form f of the start page makes M of N.
ConfigMakes(f, N, M) ==
  /\ M["ap_ssid"] = f.ap_ssid
  /\ M["ap_passwd"] = IF f.ap_passwd \notin Short THEN f.ap_passwd ELSE None
  /\ M["ssid_hidden"] = IF f.hidden THEN "1" ELSE None
  /\ M["ssid"] = f.ssid /\ M["passwd"] = f.passwd
  /\ M["sta_identity"] = IF f.sta_identity # "" THEN f.sta_identity ELSE None
  /\ M["sta_user"] = IF f.sta_user # "" THEN f.sta_user ELSE None
  /\ M["cer"] = IF f.cer # "" THEN f.cer ELSE None
  /\ \A k \in Keys \ {"ap_ssid", "ap_passwd", "ssid_hidden", "ssid", "passwd",
                     "sta_identity", "sta_user", "cer"} : M[k] = N[k]

LEMMA ConfigLeaves ==
  ASSUME NEW f, IsForm(f), f.kind = "config", NEW N \in Flash
  PROVE  ConfigMakes(f, N, After(Writes(f), N))
<1> DEFINE M == After(Writes(f), N)
<1> HIDE DEF M
<1> USE SomeValues
<1> DEFINE pass == IF f.ap_passwd \notin Short THEN f.ap_passwd ELSE None
           hidden == IF f.hidden THEN "1" ELSE None
           identity == IF f.sta_identity # "" THEN f.sta_identity ELSE None
           user == IF f.sta_user # "" THEN f.sta_user ELSE None
           A == With(With(With(N, "ap_ssid", f.ap_ssid), "ap_passwd", pass), "ssid_hidden", hidden)
           B == With(With(A, "ssid", f.ssid), "passwd", f.passwd)
           C == With(With(With(B, "sta_identity", identity), "sta_user", user), "cer", None)
           D == IF f.cer # "" THEN With(C, "cer", f.cer) ELSE C
<1>1. {f.ap_ssid, f.ap_passwd, f.ssid, f.passwd, f.sta_identity, f.sta_user, f.cer} \subseteq Strings
  BY FormFields
<1>2. /\ Stores("ap_ssid", f.ap_ssid) /\ Stores("ap_passwd", pass) /\ Stores("ssid_hidden", hidden)
      /\ Stores("ssid", f.ssid) /\ Stores("passwd", f.passwd) /\ Stores("sta_identity", identity)
      /\ Stores("sta_user", user) /\ Stores("cer", None) /\ Stores("cer", f.cer)
  BY <1>1 DEF Stores, Keys
<1> HIDE DEF A, B, C, D
<1>3. Leaves(setApByQuery(f), N, A)
  BY <1>2, LeavesThree DEF setApByQuery, PutOrDrop, A
<1>4. Leaves(setStaByQuery(f), A, B)
  <2>1. A \in Flash
    BY <1>3 DEF Leaves
  <2> QED BY <1>2, <2>1, LeavesTwo DEF setStaByQuery, B
<1>5. Leaves(setWpa2(f), B, D)
  <2> DEFINE q == Put("sta_identity", identity) \o Put("sta_user", user) \o Put("cer", None)
  <2>1. Leaves(q, B, C)
    <3>1. B \in Flash
      BY <1>4 DEF Leaves
    <3> QED BY <1>2, <3>1, LeavesThree DEF C
  <2>2. setWpa2(f) = q \o PutIf("cer", f.cer, f.cer # "")
    BY DEF setWpa2, PutOrDrop, Drop
  <2> HIDE DEF q
  <2>3. Leaves(q \o PutIf("cer", f.cer, f.cer # ""), B, IF f.cer # "" THEN With(C, "cer", f.cer) ELSE C)
    BY <1>2, <2>1, LeavesIf DEF Stores
  <2> QED BY <2>2, <2>3 DEF D
<1>6. Leaves(Writes(f), N, D)
  BY <1>3, <1>4, <1>5, LeavesBoth DEF Writes, applyApStaConfig
<1>7. M = D
  BY <1>6 DEF Leaves, M
<1>8. /\ A["ap_ssid"] = f.ap_ssid /\ A["ap_passwd"] = pass /\ A["ssid_hidden"] = hidden
      /\ \A k \in Keys \ {"ap_ssid", "ap_passwd", "ssid_hidden"} : A[k] = N[k]
  BY <1>2 DEF A, With, Flash, Stores
<1>9. /\ B["ssid"] = f.ssid /\ B["passwd"] = f.passwd
      /\ \A k \in Keys \ {"ssid", "passwd"} : B[k] = A[k]
  <2>1. A \in Flash
    BY <1>3 DEF Leaves
  <2> QED BY <1>2, <2>1 DEF B, With, Flash, Stores
<1>10. /\ D["sta_identity"] = identity /\ D["sta_user"] = user
       /\ D["cer"] = IF f.cer # "" THEN f.cer ELSE None
       /\ \A k \in Keys \ {"sta_identity", "sta_user", "cer"} : D[k] = B[k]
  <2>1. B \in Flash
    BY <1>4 DEF Leaves
  <2>2. /\ C \in Flash /\ C["sta_identity"] = identity /\ C["sta_user"] = user /\ C["cer"] = None
        /\ \A k \in Keys \ {"sta_identity", "sta_user", "cer"} : C[k] = B[k]
    BY <1>2, <2>1 DEF C, With, Flash, Stores
  <2> QED BY <1>2, <2>2 DEF D, With, Flash, Stores
<1>11. {"ap_ssid", "ap_passwd", "ssid_hidden", "ssid", "passwd", "sta_identity", "sta_user", "cer"} \subseteq Keys
  BY DEF Keys
<1> HIDE DEF pass, hidden, identity, user
<1>12. /\ M["ap_ssid"] = f.ap_ssid /\ M["ap_passwd"] = pass /\ M["ssid_hidden"] = hidden
       /\ M["ssid"] = f.ssid /\ M["passwd"] = f.passwd
  BY <1>7, <1>8, <1>9, <1>10, <1>11
<1>13. \A k \in Keys \ {"ap_ssid", "ap_passwd", "ssid_hidden", "ssid", "passwd",
                        "sta_identity", "sta_user", "cer"} : M[k] = N[k]
  BY <1>7, <1>8, <1>9, <1>10
<1>14. ConfigMakes(f, N, M)
  BY <1>7, <1>10, <1>12, <1>13 DEF pass, hidden, identity, user, ConfigMakes
<1> QED BY <1>14 DEF M

LEMMA LeavesNone ==
  ASSUME NEW N \in Flash
  PROVE  Leaves(<<>>, N, N)
<1>1. <<>> \in Seq(Entries)
  OBVIOUS
<1> QED BY <1>1, AfterNone DEF Leaves

MacWritten(f) ==
  IF f.custommac = "random" THEN "random" ELSE IF f.macaddress \in ValidMacs THEN f.macaddress ELSE None
DnsWritten(f) ==
  IF f.dns = None THEN None
  ELSE IF f.dns = "custom" THEN (IF f.dnsip \in ValidIps THEN f.dnsip ELSE None) ELSE f.dns
MaskWritten(f) ==
  IF f.netmask \in Classes THEN ClassMask[f.netmask]
  ELSE IF f.mask \in ValidMasks THEN f.mask ELSE ClassMask.classc

\* The form f of the advanced page makes M of N.
AdvancedMakes(f, N, M) ==
  /\ M["keep_alive"] = Flag(f.alive) /\ M["led_disabled"] = Flag(~f.led)
  /\ M["nat_disabled"] = Flag(~f.nat) /\ M["bridge_enabled"] = Flag(f.bridge)
  /\ M["lock"] = IF f.ws THEN N["lock"] ELSE "1"
  /\ M["custom_mac"] = IF f.custommac = None THEN N["custom_mac"] ELSE MacWritten(f)
  /\ M["custom_dns"] = DnsWritten(f)
  /\ M["netmask"] = IF f.netmask = None THEN N["netmask"] ELSE MaskWritten(f)
  /\ M["hostname"] = IF f.hostname # "" THEN f.hostname ELSE None
  /\ M["octet"] = IF f.octet \in ValidOctets THEN f.octet ELSE None
  /\ M["txpower"] = IF f.txpower \in ValidPowers THEN f.txpower ELSE N["txpower"]
  /\ M["lower_bandwith"] = IF f.low THEN "1" ELSE None
  /\ \A k \in Keys \ {"keep_alive", "led_disabled", "nat_disabled", "bridge_enabled", "lock",
                     "custom_mac", "custom_dns", "netmask", "hostname", "octet", "txpower",
                     "lower_bandwith"} : M[k] = N[k]

LEMMA AdvancedLeaves ==
  ASSUME NEW f, IsForm(f), f.kind = "advanced", NEW N \in Flash
  PROVE  AdvancedMakes(f, N, After(Writes(f), N))
<1> DEFINE M == After(Writes(f), N)
<1> HIDE DEF M
<1> USE SomeValues
<1> DEFINE name == IF f.hostname # "" THEN f.hostname ELSE None
           octet == IF f.octet \in ValidOctets THEN f.octet ELSE None
           low == IF f.low THEN "1" ELSE None
           A1 == With(With(With(With(N, "keep_alive", Flag(f.alive)), "led_disabled", Flag(~f.led)),
                           "nat_disabled", Flag(~f.nat)), "bridge_enabled", Flag(f.bridge))
           A == IF ~f.ws THEN With(A1, "lock", "1") ELSE A1
           B == IF f.custommac = None THEN A ELSE With(A, "custom_mac", MacWritten(f))
           C == With(B, "custom_dns", DnsWritten(f))
           D == IF f.netmask = None THEN C ELSE With(C, "netmask", MaskWritten(f))
           E1 == With(With(D, "hostname", name), "octet", octet)
           E2 == IF f.txpower \in ValidPowers THEN With(E1, "txpower", f.txpower) ELSE E1
           E == With(E2, "lower_bandwith", low)
<1>1. /\ {f.macaddress, f.dnsip, f.mask, f.hostname, f.octet, f.txpower} \subseteq Strings
      /\ {f.alive, f.led, f.nat, f.bridge, f.ws, f.low} \subseteq BOOLEAN
      /\ f.dns \in {None, "custom"} \cup Dns /\ f.netmask \in {None, "custom"} \cup Classes
      /\ f.custommac \in Values
  BY FormFields
<1>2. /\ Stores("keep_alive", Flag(f.alive)) /\ Stores("led_disabled", Flag(~f.led))
      /\ Stores("nat_disabled", Flag(~f.nat)) /\ Stores("bridge_enabled", Flag(f.bridge))
      /\ Stores("lock", "1") /\ Stores("hostname", name) /\ Stores("octet", octet)
      /\ Stores("txpower", f.txpower) /\ Stores("lower_bandwith", low)
  BY <1>1 DEF Stores, Keys
<1>3. Stores("custom_mac", MacWritten(f)) /\ Stores("custom_dns", DnsWritten(f)) /\ Stores("netmask", MaskWritten(f))
  <2>1. MacWritten(f) \in Values
    BY <1>1 DEF MacWritten
  <2>2. DnsWritten(f) \in Values
    BY <1>1, StringAssumption DEF DnsWritten
  <2>3. MaskWritten(f) \in Values
    <3>1. ClassMask.classc = ClassMask["classc"] /\ "classc" \in Classes
      BY DEF Classes
    <3> QED BY <1>1, <3>1, StringAssumption DEF MaskWritten
  <2> QED BY <2>1, <2>2, <2>3 DEF Stores, Keys
<1> HIDE DEF A1, A, B, C, D, E1, E2, E, name, octet, low
<1>4. Leaves(Switches(f), N, A)
  <2> DEFINE q == Put("keep_alive", Flag(f.alive)) \o Put("led_disabled", Flag(~f.led))
                  \o Put("nat_disabled", Flag(~f.nat)) \o Put("bridge_enabled", Flag(f.bridge))
  <2>1. Leaves(q, N, A1)
    BY <1>2, LeavesFour DEF A1
  <2>2. Switches(f) = q \o PutIf("lock", "1", ~f.ws)
    BY DEF Switches
  <2> HIDE DEF q
  <2>3. Leaves(q \o PutIf("lock", "1", ~f.ws), N, IF ~f.ws THEN With(A1, "lock", "1") ELSE A1)
    BY <1>2, <2>1, LeavesIf DEF Stores
  <2> QED BY <2>2, <2>3 DEF A
<1>5. Leaves(CustomMac(f), A, B)
  <2>1. A \in Flash
    BY <1>4 DEF Leaves
  <2>2. CASE f.custommac = None
    <3>1. CustomMac(f) = <<>>
      BY <2>2 DEF CustomMac, None
    <3> QED BY <2>1, <2>2, <3>1, LeavesNone DEF B
  <2>3. CASE f.custommac # None
    <3>1. CustomMac(f) = Put("custom_mac", MacWritten(f))
      BY <2>3 DEF CustomMac, MacWritten, PutOrDrop, Drop
    <3> QED BY <1>3, <2>1, <2>3, <3>1, LeavesPut DEF B, Stores
  <2> QED BY <2>2, <2>3
<1>6. Leaves(CustomDns(f), B, C)
  <2>1. B \in Flash
    BY <1>5 DEF Leaves
  <2>2. CustomDns(f) = Put("custom_dns", DnsWritten(f))
    BY DEF CustomDns, DnsWritten, PutOrDrop, Drop, None
  <2> QED BY <1>3, <2>1, <2>2, LeavesPut DEF C, Stores
<1>7. Leaves(Netmask(f), C, D)
  <2>1. C \in Flash
    BY <1>6 DEF Leaves
  <2>2. CASE f.netmask = None
    <3>1. f.netmask \notin Classes
      BY <2>2 DEF Classes, None
    <3>2. Netmask(f) = <<>>
      BY <2>2, <3>1 DEF Netmask
    <3> QED BY <2>1, <2>2, <3>2, LeavesNone DEF D
  <2>3. CASE f.netmask # None
    <3>1. Netmask(f) = Put("netmask", MaskWritten(f))
      BY <2>3 DEF Netmask, MaskWritten
    <3> QED BY <1>3, <2>1, <2>3, <3>1, LeavesPut DEF D, Stores
  <2> QED BY <2>2, <2>3
<1>8. Leaves(Radio(f), D, E)
  <2> DEFINE q == Put("hostname", name) \o Put("octet", octet)
             power == PutIf("txpower", f.txpower, f.txpower \in ValidPowers)
  <2>1. D \in Flash
    BY <1>7 DEF Leaves
  <2>2. Leaves(q, D, E1)
    BY <1>2, <2>1, LeavesTwo DEF E1
  <2>3. Radio(f) = (q \o power) \o Put("lower_bandwith", low)
    BY DEF Radio, PutOrDrop, name, octet, low
  <2> HIDE DEF q
  <2>4. Leaves(q \o power, D, E2)
    <3>1. CASE f.txpower \in ValidPowers
      <4>1. power = Put("txpower", f.txpower)
        BY <3>1 DEF PutIf
      <4> HIDE DEF power
      <4> QED BY <1>2, <2>2, <3>1, <4>1, LeavesMore DEF Stores, E2
    <3>2. CASE f.txpower \notin ValidPowers
      <4>1. power = <<>> /\ E1 \in Flash
        BY <2>2, <3>2 DEF PutIf, Leaves
      <4> HIDE DEF power
      <4> QED BY <2>2, <3>2, <4>1, LeavesNone, LeavesBoth DEF E2
    <3> QED BY <3>1, <3>2
  <2> HIDE DEF power
  <2> QED BY <1>2, <2>3, <2>4, LeavesMore DEF Stores, E
<1>9. M = E
  <2>1. Leaves(Writes(f), N, E)
    BY <1>4, <1>5, <1>6, <1>7, <1>8, LeavesBoth DEF Writes, applyAdvancedConfig
  <2> QED BY <2>1 DEF Leaves, M
<1>10. /\ A["keep_alive"] = Flag(f.alive) /\ A["led_disabled"] = Flag(~f.led)
       /\ A["nat_disabled"] = Flag(~f.nat) /\ A["bridge_enabled"] = Flag(f.bridge)
       /\ A["lock"] = IF f.ws THEN N["lock"] ELSE "1"
       /\ \A k \in Keys \ {"keep_alive", "led_disabled", "nat_disabled", "bridge_enabled", "lock"} : A[k] = N[k]
  <2>1. /\ A1 \in Flash
        /\ A1["keep_alive"] = Flag(f.alive) /\ A1["led_disabled"] = Flag(~f.led)
        /\ A1["nat_disabled"] = Flag(~f.nat) /\ A1["bridge_enabled"] = Flag(f.bridge)
        /\ \A k \in Keys \ {"keep_alive", "led_disabled", "nat_disabled", "bridge_enabled"} : A1[k] = N[k]
    BY <1>2 DEF A1, With, Flash, Stores
  <2>2. {"keep_alive", "led_disabled", "nat_disabled", "bridge_enabled", "lock"} \subseteq Keys
    BY DEF Keys
  <2> QED BY <1>1, <2>1, <2>2 DEF A, With, Flash
<1>11. /\ B["custom_mac"] = IF f.custommac = None THEN A["custom_mac"] ELSE MacWritten(f)
       /\ \A k \in Keys \ {"custom_mac"} : B[k] = A[k]
  <2>1. A \in Flash
    BY <1>4 DEF Leaves
  <2> QED BY <1>3, <2>1 DEF B, With, Flash, Stores
<1>12. C["custom_dns"] = DnsWritten(f) /\ \A k \in Keys \ {"custom_dns"} : C[k] = B[k]
  <2>1. B \in Flash
    BY <1>5 DEF Leaves
  <2> QED BY <1>3, <2>1 DEF C, With, Flash, Stores
<1>13. /\ D["netmask"] = IF f.netmask = None THEN C["netmask"] ELSE MaskWritten(f)
       /\ \A k \in Keys \ {"netmask"} : D[k] = C[k]
  <2>1. C \in Flash
    BY <1>6 DEF Leaves
  <2> QED BY <1>3, <2>1 DEF D, With, Flash, Stores
<1>14. /\ E["hostname"] = name /\ E["octet"] = octet /\ E["lower_bandwith"] = low
       /\ E["txpower"] = IF f.txpower \in ValidPowers THEN f.txpower ELSE D["txpower"]
       /\ \A k \in Keys \ {"hostname", "octet", "txpower", "lower_bandwith"} : E[k] = D[k]
  <2>1. D \in Flash
    BY <1>7 DEF Leaves
  <2>2. /\ E1 \in Flash /\ E1["hostname"] = name /\ E1["octet"] = octet
        /\ \A k \in Keys \ {"hostname", "octet"} : E1[k] = D[k]
    BY <1>2, <2>1 DEF E1, With, Flash, Stores
  <2>3. /\ E2 \in Flash /\ E2["txpower"] = IF f.txpower \in ValidPowers THEN f.txpower ELSE E1["txpower"]
        /\ \A k \in Keys \ {"txpower"} : E2[k] = E1[k]
    BY <1>2, <2>2 DEF E2, With, Flash, Stores
  <2>4. E["lower_bandwith"] = low /\ \A k \in Keys \ {"lower_bandwith"} : E[k] = E2[k]
    BY <1>2, <2>3 DEF E, With, Flash, Stores
  <2>5. {"hostname", "octet", "txpower", "lower_bandwith"} \subseteq Keys
    BY DEF Keys
  <2> QED BY <2>2, <2>3, <2>4, <2>5
<1>15. {"keep_alive", "led_disabled", "nat_disabled", "bridge_enabled", "lock", "custom_mac", "custom_dns",
        "netmask", "hostname", "octet", "txpower", "lower_bandwith"} \subseteq Keys
  BY DEF Keys
<1>16. /\ M["keep_alive"] = Flag(f.alive) /\ M["led_disabled"] = Flag(~f.led)
       /\ M["nat_disabled"] = Flag(~f.nat) /\ M["bridge_enabled"] = Flag(f.bridge)
       /\ M["lock"] = IF f.ws THEN N["lock"] ELSE "1"
  BY <1>9, <1>10, <1>11, <1>12, <1>13, <1>14, <1>15
<1>17. /\ M["custom_mac"] = IF f.custommac = None THEN N["custom_mac"] ELSE MacWritten(f)
       /\ M["custom_dns"] = DnsWritten(f)
       /\ M["netmask"] = IF f.netmask = None THEN N["netmask"] ELSE MaskWritten(f)
       /\ M["txpower"] = IF f.txpower \in ValidPowers THEN f.txpower ELSE N["txpower"]
  BY <1>9, <1>10, <1>11, <1>12, <1>13, <1>14, <1>15
<1>18. \A k \in Keys \ {"keep_alive", "led_disabled", "nat_disabled", "bridge_enabled", "lock",
                        "custom_mac", "custom_dns", "netmask", "hostname", "octet", "txpower",
                        "lower_bandwith"} : M[k] = N[k]
  BY <1>9, <1>10, <1>11, <1>12, <1>13, <1>14
<1>19. AdvancedMakes(f, N, M)
  BY <1>9, <1>14, <1>16, <1>17, <1>18 DEF name, octet, low, AdvancedMakes
<1> QED BY <1>19 DEF M

LEMMA ConfigAsAsked ==
  ASSUME NEW r, IsForm(r), r.kind = "config", NEW N \in Flash
  PROVE  AsAsked("uplink", r, After(Writes(r), N)) /\ AsAsked("ap", r, After(Writes(r), N))
<1> DEFINE M == After(Writes(r), N)
<1>0. ConfigMakes(r, N, M)
  BY ConfigLeaves
<1> HIDE DEF M
<1>1. /\ {r.ap_ssid, r.ap_passwd, r.ssid, r.passwd, r.sta_identity, r.sta_user, r.cer} \subseteq Strings
      /\ r.hidden \in BOOLEAN
  BY FormFields
<1>2. /\ M["ap_ssid"] = r.ap_ssid
      /\ M["ap_passwd"] = IF r.ap_passwd \notin Short THEN r.ap_passwd ELSE None
      /\ M["ssid_hidden"] = IF r.hidden THEN "1" ELSE None
      /\ M["ssid"] = r.ssid /\ M["passwd"] = r.passwd
      /\ M["sta_identity"] = IF r.sta_identity # "" THEN r.sta_identity ELSE None
      /\ M["sta_user"] = IF r.sta_user # "" THEN r.sta_user ELSE None
      /\ M["cer"] = IF r.cer # "" THEN r.cer ELSE None
  BY <1>0 DEF ConfigMakes
<1>3. Uplink(M) = ExpectedUplink(r, Uplink(M))
  <2>1. /\ Text(M, "ssid") = r.ssid /\ Text(M, "passwd") = r.passwd /\ Text(M, "cer") = r.cer
        /\ Text(M, "sta_identity") = r.sta_identity /\ Text(M, "sta_user") = r.sta_user
    BY <1>1, <1>2, SomeValues DEF Text
  <2> QED BY <2>1 DEF Uplink, ExpectedUplink, isWpaEnterprise, setWpaEnterprise
<1>4. AccessPoint(M) = ExpectedAp(r, AccessPoint(M))
  <2>1. Number(M, "ap_ssid", "ESP32_NAT_Router") = r.ap_ssid
    BY <1>1, <1>2, SomeValues DEF Number
  <2>2. (Number(M, "ssid_hidden", "0") = "1") = r.hidden
    BY <1>1, <1>2 DEF Number, None
  <2>3. (IF Text(M, "ap_passwd") \in Short THEN "" ELSE M["ap_passwd"])
          = IF r.ap_passwd \in Short THEN "" ELSE r.ap_passwd
    BY <1>1, <1>2, SomeValues, ValueAssumption DEF Text
  <2> QED BY <2>1, <2>2, <2>3 DEF AccessPoint, ExpectedAp
<1> QED BY <1>3, <1>4 DEF AsAsked, M

LEMMA AdvancedAsAsked ==
  ASSUME NEW r, IsForm(r), r.kind = "advanced", NEW s \in Sets(r), NEW N \in Flash
  PROVE  AsAsked(s, r, After(Writes(r), N))
<1> DEFINE M == After(Writes(r), N)
<1>0. AdvancedMakes(r, N, M)
  BY AdvancedLeaves
<1> HIDE DEF M
<1>1. /\ {r.macaddress, r.dnsip, r.mask, r.hostname, r.octet, r.txpower} \subseteq Strings
      /\ {r.alive, r.led, r.nat, r.bridge, r.ws, r.low} \subseteq BOOLEAN
      /\ r.dns \in {None, "custom"} \cup Dns /\ r.netmask \in {None, "custom"} \cup Classes
      /\ r.custommac \in Values
  BY FormFields
<1>2. /\ M["keep_alive"] = Flag(r.alive) /\ M["led_disabled"] = Flag(~r.led)
      /\ M["nat_disabled"] = Flag(~r.nat) /\ M["bridge_enabled"] = Flag(r.bridge)
      /\ M["lock"] = IF r.ws THEN N["lock"] ELSE "1"
      /\ M["custom_mac"] = IF r.custommac = None THEN N["custom_mac"] ELSE MacWritten(r)
      /\ M["custom_dns"] = DnsWritten(r)
      /\ M["netmask"] = IF r.netmask = None THEN N["netmask"] ELSE MaskWritten(r)
      /\ M["hostname"] = IF r.hostname # "" THEN r.hostname ELSE None
      /\ M["octet"] = IF r.octet \in ValidOctets THEN r.octet ELSE None
      /\ M["txpower"] = IF r.txpower \in ValidPowers THEN r.txpower ELSE N["txpower"]
      /\ M["lower_bandwith"] = IF r.low THEN "1" ELSE None
  BY <1>0 DEF AdvancedMakes
<1>3. s \in {"address", "dns", "mac", "name", "services"} \/ (s = "web" /\ ~r.ws)
  BY DEF Sets
<1>4. CASE s = "address"
  <2>1. CASE M["ap_ip"] # None
    BY <1>4, <2>1 DEF AsAsked, ExpectedAddress, Address, M
  <2>2. CASE M["ap_ip"] = None
    <3>1. Number(M, "octet", "4") = IF r.octet \in ValidOctets THEN r.octet ELSE "4"
      BY <1>1, <1>2, SomeValues DEF Number
    <3>2. r.netmask # None => getNetmask(M) = MaskWritten(r)
      <4>1. ClassMask.classc = ClassMask["classc"] /\ "classc" \in Classes
        BY DEF Classes
      <4>2. MaskWritten(r) \in Strings
        BY <1>1, <4>1, StringAssumption DEF MaskWritten
      <4> QED BY <1>2, <4>2, SomeValues DEF getNetmask
    <3>3. r.netmask = None => r.netmask \notin Classes
      BY DEF Classes, None
    <3> QED BY <1>4, <2>2, <3>1, <3>2, <3>3 DEF AsAsked, ExpectedAddress, Address, MaskWritten, M
  <2> QED BY <2>1, <2>2
<1>5. CASE s = "dns"
  <2>1. Dns \subseteq Strings /\ None # "custom" /\ "custom" \notin Dns
    BY StringAssumption DEF Dns, None
  <2> QED BY <1>1, <1>2, <1>5, <2>1, SomeValues DEF AsAsked, fillDNS, DnsWritten, M
<1>6. CASE s = "mac"
  <2>1. None \notin {"random"} \cup ValidMacs /\ "built in" \notin ValidMacs
    BY ValueAssumption, SomeValues DEF None
  <2>2. r.custommac # None => fillMac(M) = IF MacWritten(r) = None THEN "built in" ELSE MacWritten(r)
    BY <1>2, <2>1 DEF fillMac, MacWritten
  <2> QED BY <1>6, <2>2, <2>1, SomeValues, ValueAssumption DEF AsAsked, ExpectedMac, MacWritten, M, None
<1>7. CASE s = "name"
  BY <1>2, <1>7 DEF AsAsked, Refused, M
<1>8. CASE s = "services"
  <2>1. /\ (Number(M, "bridge_enabled", "0") = "1") = r.bridge /\ (Number(M, "nat_disabled", "0") = "0") = r.nat
        /\ (Number(M, "led_disabled", "0") = "0") = r.led /\ (Number(M, "keep_alive", "0") = "1") = r.alive
        /\ (Number(M, "lower_bandwith", "0") = "1") = r.low
    BY <1>1, <1>2 DEF Number, Flag, None
  <2>2. r.txpower \in ValidPowers => setTxPower(M) = r.txpower
    BY <1>2 DEF setTxPower
  <2>3. Services(M).power = setTxPower(M)
    BY DEF Services
  <2> QED BY <1>8, <2>1, <2>2, <2>3 DEF AsAsked, ExpectedServices, Services, M
<1>9. CASE s = "web" /\ ~r.ws
  BY <1>2, <1>9 DEF AsAsked, WebServer, Number, None, M
<1> QED BY <1>3, <1>4, <1>5, <1>6, <1>7, <1>8, <1>9

\* A request that runs alone leaves, of every subject that it sets, what it asks for.
LEMMA LeavesAsAsked ==
  ASSUME NEW r, IsRequest(r), NEW s \in Subjects, s \in Sets(r), NEW N \in Flash
  PROVE  AsAsked(s, r, After(Writes(r), N))
<1>1. CASE IsForm(r)
  <2>1. CASE r.kind = "config"
    BY <1>1, <2>1, ConfigAsAsked DEF Sets
  <2>2. CASE r.kind = "advanced"
    BY <1>1, <2>2, AdvancedAsAsked
  <2>3. CASE r.kind = "lock"
    BY <2>3, OneKeyAsAsked
  <2>4. CASE r.kind = "erase"
    BY <2>4, EraseAsAsked
  <2> QED BY <1>1, <2>1, <2>2, <2>3, <2>4, FormFields
<1>2. CASE IsCommand(r)
  <2>1. CASE r.kind \in {"set_sta", "set_sta_ent"}
    BY <1>2, <2>1, StaAsAsked DEF Sets
  <2>2. CASE r.kind = "set_sta_static"
    BY <1>2, <2>2, StaticAsAsked DEF Sets
  <2>3. CASE r.kind = "set_ap"
    BY <1>2, <2>3, ApAsAsked DEF Sets
  <2>4. CASE r.kind \in {"set_ap_ip", "set_bridge", "nvs_set"}
    BY <2>4, OneKeyAsAsked
  <2> QED BY <1>2, <2>1, <2>2, <2>3, <2>4, CommandFields
<1> QED BY <1>1, <1>2 DEF IsRequest

-----------------------------------------------------------------------------
(* Other keys do not disturb it.                                            *)

Agree(s, L, N) == \A k \in Keys : Subject(k) = s => L[k] = N[k]

LEMMA Reads ==
  ASSUME NEW s \in Subjects, NEW L \in Flash, NEW N \in Flash, Agree(s, L, N)
  PROVE  /\ s = "uplink" => Uplink(L) = Uplink(N)
         /\ s = "static" => StoredAddress(L) = StoredAddress(N)
         /\ s = "ap" => AccessPoint(L) = AccessPoint(N)
         /\ s = "address" => L["ap_ip"] = N["ap_ip"] /\ L["netmask"] = N["netmask"] /\ L["octet"] = N["octet"]
         /\ s = "dns" => fillDNS(L) = fillDNS(N)
         /\ s = "mac" => fillMac(L) = fillMac(N)
         /\ s = "name" => L["hostname"] = N["hostname"]
         /\ s = "services" => Services(L) = Services(N)
         /\ s = "password" => Text(L, "lock_pass") = Text(N, "lock_pass")
         /\ s = "web" => WebServer(L) = WebServer(N)
<1>1. CASE s = "uplink"
  <2>1. /\ L["ssid"] = N["ssid"] /\ L["passwd"] = N["passwd"] /\ L["sta_user"] = N["sta_user"]
        /\ L["sta_identity"] = N["sta_identity"] /\ L["cer"] = N["cer"]
    BY <1>1 DEF Agree, Subject, Keys
  <2> QED BY <1>1, <2>1 DEF Uplink, isWpaEnterprise, setWpaEnterprise, Text
<1>2. CASE s = "static"
  <2>1. /\ L["static_ip"] = N["static_ip"] /\ L["subnet_mask"] = N["subnet_mask"]
        /\ L["gateway_addr"] = N["gateway_addr"]
    BY <1>2 DEF Agree, Subject, Keys
  <2> QED BY <1>2, <2>1 DEF StoredAddress, Text
<1>3. CASE s = "ap"
  <2>1. /\ L["ap_ssid"] = N["ap_ssid"] /\ L["ap_passwd"] = N["ap_passwd"]
        /\ L["ssid_hidden"] = N["ssid_hidden"]
    BY <1>3 DEF Agree, Subject, Keys
  <2> QED BY <1>3, <2>1 DEF AccessPoint, Text, Number
<1>4. CASE s = "address"
  BY <1>4 DEF Agree, Subject, Keys
<1>5. CASE s = "dns"
  BY <1>5 DEF Agree, Subject, Keys, fillDNS
<1>6. CASE s = "mac"
  BY <1>6 DEF Agree, Subject, Keys, fillMac
<1>7. CASE s = "name"
  BY <1>7 DEF Agree, Subject, Keys
<1>8. CASE s = "services"
  <2>1. /\ L["bridge_enabled"] = N["bridge_enabled"] /\ L["nat_disabled"] = N["nat_disabled"]
        /\ L["led_disabled"] = N["led_disabled"] /\ L["keep_alive"] = N["keep_alive"]
        /\ L["lower_bandwith"] = N["lower_bandwith"] /\ L["txpower"] = N["txpower"]
    BY <1>8 DEF Agree, Subject, Keys
  <2> QED BY <1>8, <2>1 DEF Services, Number, setTxPower
<1>9. CASE s = "password"
  BY <1>9 DEF Agree, Subject, Keys, Text
<1>10. CASE s = "web"
  BY <1>10 DEF Agree, Subject, Keys, WebServer, Number
<1> QED BY <1>1, <1>2, <1>3, <1>4, <1>5, <1>6, <1>7, <1>8, <1>9, <1>10 DEF Subjects

\* What was asked for a subject depends on the keys of this subject alone.
LEMMA OtherKeys ==
  ASSUME NEW r, IsRequest(r), NEW s \in Subjects, s \in Sets(r),
         NEW L \in Flash, NEW N \in Flash, Agree(s, L, N), AsAsked(s, r, L)
  PROVE  AsAsked(s, r, N)
<1>1. CASE r.kind = "nvs_set"
  <2>1. r.key \in Keys /\ s = Subject(r.key)
    BY <1>1, FormFields, CommandFields DEF IsRequest, Sets
  <2>2. L[r.key] = N[r.key]
    BY <2>1 DEF Agree
  <2> QED BY <1>1, <2>2 DEF AsAsked
<1>2. CASE r.kind # "nvs_set"
  <2>1. s = "address" => Address(L) = Address(N) /\ ExpectedAddress(r, L) = ExpectedAddress(r, N)
    BY Reads DEF Address, ExpectedAddress, getNetmask, Number
  <2>2. CASE s = "uplink"
    BY <1>2, <2>2, Reads DEF AsAsked
  <2>3. CASE s = "static"
    BY <1>2, <2>3, Reads DEF AsAsked
  <2>4. CASE s = "ap"
    BY <1>2, <2>4, Reads DEF AsAsked
  <2>5. CASE s = "address"
    BY <1>2, <2>1, <2>5 DEF AsAsked
  <2>6. CASE s = "dns"
    BY <1>2, <2>6, Reads DEF AsAsked
  <2>7. CASE s = "mac"
    BY <1>2, <2>7, Reads DEF AsAsked
  <2>8. CASE s = "name"
    BY <1>2, <2>8, Reads DEF AsAsked
  <2>9. CASE s = "services"
    BY <1>2, <2>9, Reads DEF AsAsked
  <2>10. CASE s = "password"
    BY <1>2, <2>10, Reads DEF AsAsked
  <2>11. CASE s = "web"
    BY <1>2, <2>11, Reads DEF AsAsked
  <2> QED BY <2>2, <2>3, <2>4, <2>5, <2>6, <2>7, <2>8, <2>9, <2>10, <2>11 DEF Subjects
<1> QED BY <1>1, <1>2

-----------------------------------------------------------------------------
(* What a boot repairs is not what was asked.                               *)

\* A host name that is too long is erased, a missing one is made up.
LEMMA NameRepaired ==
  ASSUME NEW r, IsRequest(r), NEW s \in Subjects, s \in Sets(r), NEW N \in Flash, AsAsked(s, r, N),
         NEW v \in Values, N["hostname"] \in LongNames \/ Text(N, "hostname") = ""
  PROVE  AsAsked(s, r, With(N, "hostname", v))
<1> DEFINE M == With(N, "hostname", v)
<1>1. M \in Flash /\ M["hostname"] = v /\ \A k \in Keys \ {"hostname"} : M[k] = N[k]
  <2>1. "hostname" \in Keys
    BY DEF Keys
  <2> QED BY <2>1, WithTypes
<1> HIDE DEF M
<1>2. CASE s # "name"
  <2>1. Agree(s, N, M)
    BY <1>1, <1>2 DEF Agree, Subject
  <2> QED BY <1>1, <2>1, OtherKeys DEF M
<1>3. CASE s = "name"
  <2>1. N["hostname"] \in LongNames \cup {""} \/ N["hostname"] = None
    BY DEF Text
  <2>2. CASE r.kind = "erase"
    BY <1>3, <2>2 DEF AsAsked, M
  <2>3. CASE r.kind = "nvs_set"
    <3>1. r.key \in Keys /\ r.value \in Strings /\ Subject(r.key) = "name"
      BY <1>3, <2>3, FormFields, CommandFields DEF IsRequest, Sets
    <3>2. r.key = "hostname"
      BY <3>1 DEF Subject
    <3>3. Refused(r.key, r.value)
      BY <2>1, <2>3, <3>1, <3>2, SomeValues DEF AsAsked, Refused
    <3> QED BY <2>3, <3>3 DEF AsAsked, M
  <2>4. CASE r.kind \notin {"erase", "nvs_set"}
    <3>1. r.kind = "advanced"
      BY <1>3, <2>4, FormFields, CommandFields DEF IsRequest, Sets
    <3>2. r.hostname \in Strings
      BY <3>1, FormFields, CommandFields DEF IsRequest
    <3>3. Refused("hostname", r.hostname)
      BY <1>3, <2>1, <2>4, <3>2, SomeValues DEF AsAsked, Refused
    <3> QED BY <1>3, <2>4, <3>3 DEF AsAsked, M
  <2> QED BY <2>2, <2>3, <2>4
<1> QED BY <1>2, <1>3

\* An octet that is missing or too big becomes 4.
LEMMA OctetRepaired ==
  ASSUME NEW r, IsRequest(r), NEW s \in Subjects, s \in Sets(r), NEW N \in Flash, AsAsked(s, r, N),
         N["octet"] \notin ValidOctets
  PROVE  AsAsked(s, r, With(N, "octet", "4"))
<1> DEFINE M == With(N, "octet", "4")
<1>1. M \in Flash /\ M["octet"] = "4" /\ \A k \in Keys \ {"octet"} : M[k] = N[k]
  <2>1. "octet" \in Keys /\ "4" \in Values
    BY StringAssumption DEF Keys, Values
  <2> QED BY <2>1, WithTypes
<1> HIDE DEF M
<1>2. CASE s # "address"
  <2>1. Agree(s, N, M)
    BY <1>1, <1>2 DEF Agree, Subject
  <2> QED BY <1>1, <2>1, OtherKeys DEF M
<1>3. CASE s = "address"
  <2>1. M["ap_ip"] = N["ap_ip"] /\ M["netmask"] = N["netmask"]
    BY <1>1 DEF Keys
  <2>2. "4" \in ValidOctets /\ "4" # None
    BY ValueAssumption DEF None
  <2>3. \A a, b, c : <<a>> # <<b, c>>
    OBVIOUS
  <2>4. N["octet"] = None => Address(M) = Address(N)
    BY <1>1, <2>1, <2>2 DEF Address, getNetmask, Number
  <2>5. N["ap_ip"] # None => Address(M) = Address(N)
    BY <2>1 DEF Address
  <2>6. N["ap_ip"] = None => Address(N) = <<getNetmask(N), Number(N, "octet", "4")>>
    BY DEF Address
  <2>7. CASE r.kind = "erase"
    <3>1. Address(Empty) = <<ClassMask.classc, "4">>
      BY DEF Address, getNetmask, Number, Empty, Keys
    <3>2. Address(N) = Address(Empty)
      BY <1>3, <2>7 DEF AsAsked
    <3>3. CASE N["ap_ip"] # None
      BY <2>3, <3>1, <3>2, <3>3 DEF Address
    <3>4. CASE N["ap_ip"] = None
      <4>1. Number(N, "octet", "4") = "4"
        BY <2>6, <3>1, <3>2, <3>4
      <4>2. N["octet"] = None
        BY <2>2, <4>1 DEF Number
      <4> QED BY <1>3, <2>4, <2>7, <3>2, <4>2 DEF AsAsked, M
    <3> QED BY <3>3, <3>4
  <2>8. CASE r.kind = "nvs_set"
    <3>1. CASE r.key = "octet"
      <4>1. Refused(r.key, r.value)
        BY <2>8, <3>1 DEF AsAsked, Refused
      <4> QED BY <2>8, <4>1 DEF AsAsked, M
    <3>2. CASE r.key # "octet"
      <4>1. r.key \in Keys
        BY <2>8, FormFields, CommandFields DEF IsRequest
      <4>2. M[r.key] = N[r.key]
        BY <1>1, <3>2, <4>1
      <4> QED BY <2>8, <4>2 DEF AsAsked, M
    <3> QED BY <3>1, <3>2
  <2>9. CASE r.kind \notin {"erase", "nvs_set"}
    <3>1. Address(N) = ExpectedAddress(r, N)
      BY <1>3, <2>9 DEF AsAsked
    <3>2. ExpectedAddress(r, M) = ExpectedAddress(r, N)
      BY <2>1 DEF ExpectedAddress, getNetmask
    <3>3. CASE N["ap_ip"] # None
      BY <1>3, <2>5, <2>9, <3>1, <3>2, <3>3 DEF AsAsked, M
    <3>4. CASE N["ap_ip"] = None
      <4>1. CASE r.kind = "set_ap_ip"
        BY <2>3, <2>6, <3>1, <3>4, <4>1 DEF ExpectedAddress
      <4>2. CASE r.kind # "set_ap_ip"
        <5>1. Number(N, "octet", "4") = IF r.octet \in ValidOctets THEN r.octet ELSE "4"
          BY <2>6, <3>1, <3>4, <4>2 DEF ExpectedAddress
        <5>2. N["octet"] = None
          BY <2>2, <5>1 DEF Number
        <5> QED BY <1>3, <2>4, <2>9, <3>1, <3>2, <5>2 DEF AsAsked, M
      <4> QED BY <4>1, <4>2
    <3> QED BY <3>3, <3>4
  <2> QED BY <2>7, <2>8, <2>9
<1> QED BY <1>2, <1>3

-----------------------------------------------------------------------------
(* The inductive invariant.                                                 *)

Requests == WebRequests \cup ConsoleRequests

\* TypeOK, with what the types are of.
Types ==
  /\ nvs \in Flash /\ conf \in Flash
  /\ boot \in {"off", "pin", "load", "name", "octet", "start", "up"}
  /\ lock_pass \in Strings
  /\ locked \in BOOLEAN /\ opened \in BOOLEAN /\ armed \in BOOLEAN
  /\ req \in [Tasks -> {Idle} \cup Requests]
  /\ req["web"] \in {Idle} \cup WebRequests /\ req["console"] \in {Idle} \cup ConsoleRequests
  /\ todo \in [Tasks -> Seq(Entries)]
  /\ \A t \in Tasks : todo[t] \in Seq(WritesOf(req[t]))
  /\ \A t \in Tasks : req[t] = Idle => todo[t] = <<>>
  /\ boot # "up" => ~armed /\ \A t \in Tasks : req[t] = Idle
  /\ count \in [requests : 0..MaxRequests, cuts : 0..MaxCuts]

\* The history of a subject.
IsMark(s, mark) ==
  \/ \E t \in Tasks : mark = By(t)
  \/ mark = Mixed
  \/ \E r : mark = Done(r) /\ IsRequest(r) /\ s \in Sets(r)
Marks == \A s \in Subjects : IsMark(s, asked[s])

\* A task writes alone exactly what nobody else writes.
Owned ==
  \A s \in Subjects, t \in Tasks :
    /\ asked[s] = By(t) => s \in Sets(req[t])
    /\ s \in Sets(req[t]) => asked[s] \in {By(t), Mixed}

\* The writes that are left make what was asked.
Pending == \A s \in Subjects, t \in Tasks : asked[s] = By(t) => AsAsked(s, req[t], After(todo[t], nvs))

SettingsInv == Types /\ Marks /\ Owned /\ Pending /\ NextBootAsAsked

LEMMA MarkKinds ==
  /\ \A t \in Tasks : By(t).by = t /\ t # "done" /\ t # "nobody" /\ By(t) # Mixed
  /\ \A r : Done(r).by = "done" /\ Done(r).what = r /\ Done(r) # Mixed
  /\ \A t \in Tasks : \A r : By(t) # Done(r)
  /\ \A t, u \in Tasks : By(t) = By(u) => t = u
  /\ Mixed.by = "nobody" /\ Mixed.by \notin Tasks /\ "done" \notin Tasks
<1>1. \A t : By(t).by = t
  BY DEF By
<1>2. \A r : Done(r).by = "done" /\ Done(r).what = r
  BY DEF Done
<1>3. Mixed.by = "nobody"
  BY DEF Mixed
<1> QED BY <1>1, <1>2, <1>3 DEF Tasks

LEMMA IdleSetsNothing == Sets(Idle) = {} /\ Idle.kind = "idle" /\ \A r : IsRequest(r) => r # Idle
<1>1. Idle.kind = "idle"
  BY DEF Idle
<1>2. \A r : IsRequest(r) => r.kind # "idle"
  BY FormFields, CommandFields DEF IsRequest
<1> QED BY <1>1, <1>2 DEF Sets

LEMMA AllRequests == \A r \in Requests : IsRequest(r)
BY RequestAssumption DEF Requests, IsRequest

\* Nobody works on a request while the router boots.
LEMMA NobodyAlone ==
  ASSUME Types, Owned, boot # "up", NEW s \in Subjects, NEW t \in Tasks
  PROVE  asked[s] # By(t) /\ todo[t] = <<>> /\ req[t] = Idle
BY IdleSetsNothing DEF Types, Owned

LEMMA EmptyTypes == Empty \in Flash
BY SomeValues DEF Empty, Flash

LEMMA Erased == \A s \in Subjects : AsAsked(s, Erase, Empty) /\ IsRequest(Erase) /\ s \in Sets(Erase)
<1>1. Erase.kind = "erase" /\ Erase \in [kind : {"erase"}]
  BY DEF Erase
<1>2. IsRequest(Erase)
  BY <1>1 DEF IsRequest, IsForm
<1>3. Sets(Erase) = Subjects
  BY <1>1 DEF Sets
<1> QED BY <1>1, <1>2, <1>3, EraseAsAsked, EmptyTypes

\* A cut, an abort or a restart.
LEMMA RamLost ==
  ASSUME Types, Marks, Owned, LoseRam
  PROVE  /\ conf' \in Flash /\ lock_pass' \in Strings
         /\ locked' \in BOOLEAN /\ opened' \in BOOLEAN /\ armed' = FALSE
         /\ req' \in [Tasks -> {Idle} \cup Requests] /\ todo' \in [Tasks -> Seq(Entries)]
         /\ \A t \in Tasks : req'[t] = Idle /\ todo'[t] = <<>> /\ todo'[t] \in Seq(WritesOf(req'[t]))
         /\ Marks' /\ Owned' /\ Pending'
         /\ \A s \in Subjects : asked'[s].by = "done" => asked'[s] = asked[s]
<1>1. /\ conf' \in Flash /\ lock_pass' \in Strings
      /\ locked' \in BOOLEAN /\ opened' \in BOOLEAN /\ armed' = FALSE
  BY EmptyTypes, StringAssumption DEF LoseRam
<1>2. \A t \in Tasks : req'[t] = Idle /\ todo'[t] = <<>>
  BY DEF LoseRam
<1>3. req' \in [Tasks -> {Idle} \cup Requests]
  BY DEF LoseRam
<1>4. todo' \in [Tasks -> Seq(Entries)]
  <2>1. <<>> \in Seq(Entries)
    OBVIOUS
  <2> QED BY <2>1 DEF LoseRam
<1>5. \A s \in Subjects : asked'[s] = IF asked[s].by \in Tasks THEN Mixed ELSE asked[s]
  BY DEF LoseRam
<1>6. \A s \in Subjects, t \in Tasks : asked'[s] # By(t)
  BY <1>5, MarkKinds
<1>7. Marks'
  <2>1. \A s \in Subjects : IsMark(s, asked'[s])
    BY <1>5 DEF Marks, IsMark
  <2> QED BY <2>1 DEF Marks
<1>8. Owned' /\ Pending'
  BY <1>2, <1>6, IdleSetsNothing DEF Owned, Pending
<1>9. \A s \in Subjects : asked'[s].by = "done" => asked'[s] = asked[s]
  BY <1>5, MarkKinds
<1> QED BY <1>1, <1>2, <1>3, <1>4, <1>7, <1>8, <1>9, NoWrites

LEMMA TypesOfRam ==
  ASSUME Types, UNCHANGED ram
  PROVE  /\ conf' \in Flash /\ lock_pass' \in Strings
         /\ locked' \in BOOLEAN /\ opened' \in BOOLEAN /\ armed' \in BOOLEAN
         /\ req' = req /\ todo' = todo /\ armed' = armed /\ asked' = asked /\ lock_pass' = lock_pass
         /\ conf' = conf /\ locked' = locked /\ opened' = opened
BY DEF Types, ram

LEMMA SettingsInitInv == Init => SettingsInv
<1> SUFFICES ASSUME Init PROVE SettingsInv
  OBVIOUS
<1>1. \A t \in Tasks : req[t] = Idle /\ todo[t] = <<>>
  BY DEF Init
<1>2. \A s \in Subjects : asked[s] = Done(Erase)
  BY DEF Init
<1>3. Types
  <2>1. nvs \in Flash /\ conf \in Flash /\ lock_pass \in Strings
    BY EmptyTypes, StringAssumption DEF Init
  <2>2. todo \in [Tasks -> Seq(Entries)] /\ req \in [Tasks -> {Idle} \cup Requests]
    <3>1. <<>> \in Seq(Entries)
      OBVIOUS
    <3> QED BY <3>1 DEF Init
  <2>3. count \in [requests : 0..MaxRequests, cuts : 0..MaxCuts]
    <3>1. count = [requests |-> 0, cuts |-> 0]
      BY DEF Init
    <3>2. 0 \in 0..MaxRequests /\ 0 \in 0..MaxCuts
      BY BoundAssumption
    <3> QED BY <3>1, <3>2
  <2>4. \A t \in Tasks : todo[t] \in Seq(WritesOf(req[t]))
    BY <1>1, NoWrites
  <2>5. req["web"] \in {Idle} \cup WebRequests /\ req["console"] \in {Idle} \cup ConsoleRequests
    BY <1>1 DEF Tasks
  <2> QED BY <1>1, <2>1, <2>2, <2>3, <2>4, <2>5 DEF Init, Types
<1>4. Marks /\ NextBootAsAsked
  BY <1>2, Erased, MarkKinds DEF Marks, IsMark, NextBootAsAsked, Init
<1>5. Owned /\ Pending
  BY <1>1, <1>2, MarkKinds, IdleSetsNothing DEF Owned, Pending
<1> QED BY <1>3, <1>4, <1>5 DEF SettingsInv

\* What was asked, of a flash L.
Kept(L) == L \in Flash /\ \A s \in Subjects : asked[s].by = "done" => AsAsked(s, asked[s].what, L)

LEMMA MarkedRequests ==
  ASSUME Marks, NEW s \in Subjects, asked[s].by = "done"
  PROVE  asked[s] = Done(asked[s].what) /\ IsRequest(asked[s].what) /\ s \in Sets(asked[s].what)
BY MarkKinds DEF Marks, IsMark

LEMMA FlashKept == SettingsInv => Kept(nvs)
BY DEF SettingsInv, Types, NextBootAsAsked, Kept

\* The router restarts.
LEMMA RestartInv ==
  ASSUME SettingsInv, LoseRam, boot' = "pin", Kept(nvs'),
         count' \in [requests : 0..MaxRequests, cuts : 0..MaxCuts]
  PROVE  SettingsInv'
<1> USE RamLost DEF SettingsInv
<1>1. Types'
  <2>1. req'["web"] = Idle /\ req'["console"] = Idle
    BY DEF Tasks
  <2> QED BY <2>1 DEF Types, Kept
<1>2. Marks' /\ Owned' /\ Pending'
  OBVIOUS
<1>3. NextBootAsAsked'
  BY DEF NextBootAsAsked, Kept
<1> QED BY <1>1, <1>2, <1>3

\* A step before the router is up.
LEMMA BootInv ==
  ASSUME SettingsInv, boot # "up", UNCHANGED <<req, todo, armed, asked, count>>, Kept(nvs'),
         conf' \in Flash, lock_pass' \in Strings, locked' \in BOOLEAN, opened' \in BOOLEAN,
         boot' \in {"off", "pin", "load", "name", "octet", "start", "up"}
  PROVE  SettingsInv'
<1> USE DEF SettingsInv
<1>1. Types'
  BY DEF Types, Kept
<1>2. Marks'
  BY DEF Marks, IsMark
<1>3. Owned'
  BY DEF Owned
<1>4. Pending'
  <2>1. \A s \in Subjects, t \in Tasks : asked'[s] # By(t)
    BY NobodyAlone
  <2> QED BY <2>1 DEF Pending
<1>5. NextBootAsAsked'
  BY DEF NextBootAsAsked, Kept
<1> QED BY <1>1, <1>2, <1>3, <1>4, <1>5

LEMMA PowerInv == SettingsInv /\ (PowerCut \/ PowerOn \/ PinOpen \/ restart_timer_callback) => SettingsInv'
<1> SUFFICES ASSUME SettingsInv PROVE PowerCut \/ PowerOn \/ PinOpen \/ restart_timer_callback => SettingsInv'
  OBVIOUS
<1>1. PowerCut => SettingsInv'
  <2>1. PowerCut => count' \in [requests : 0..MaxRequests, cuts : 0..MaxCuts]
    BY BoundAssumption DEF PowerCut, Cut, SettingsInv, Types
  <2> QED BY <2>1, RestartInv, FlashKept DEF PowerCut
<1>2. PowerOn \/ PinOpen => SettingsInv'
  BY BootInv, FlashKept DEF PowerOn, PinOpen, ram, SettingsInv, Types
<1>3. restart_timer_callback => SettingsInv'
  BY RestartInv, FlashKept DEF restart_timer_callback, SettingsInv, Types
<1> QED BY <1>1, <1>2, <1>3

LEMMA PinInv == SettingsInv /\ PinHeld => SettingsInv'
<1> SUFFICES ASSUME SettingsInv, PinHeld PROVE SettingsInv'
  OBVIOUS
<1> USE DEF SettingsInv
<1>1. \A s \in Subjects : asked'[s] = Done(Erase)
  BY DEF PinHeld
<1>2. nvs' = Empty /\ UNCHANGED <<conf, lock_pass, locked, opened, req, todo, armed>> /\ boot # "up" /\ boot' = "off"
  BY DEF PinHeld
<1>3. Types'
  <2>1. count' \in [requests : 0..MaxRequests, cuts : 0..MaxCuts]
    BY BoundAssumption DEF PinHeld, Cut, Types
  <2> QED BY <1>2, <2>1, EmptyTypes DEF Types
<1>4. Marks' /\ NextBootAsAsked'
  BY <1>1, <1>2, Erased, MarkKinds DEF Marks, IsMark, NextBootAsAsked
<1>5. Owned' /\ Pending'
  BY <1>1, <1>2, MarkKinds, NobodyAlone, IdleSetsNothing DEF Owned, Pending
<1> QED BY <1>3, <1>4, <1>5

LEMMA LoadInv == SettingsInv /\ (Load \/ start_webserver) => SettingsInv'
<1> SUFFICES ASSUME SettingsInv PROVE Load \/ start_webserver => SettingsInv'
  OBVIOUS
<1>1. \A N \in Flash, k \in Keys : Text(N, k) \in Strings
  BY StringAssumption DEF Text, Flash, Values
<1>2. Text(nvs, "lock_pass") \in Strings
  BY <1>1 DEF SettingsInv, Types, Keys
<1>3. Load => SettingsInv'
  BY <1>2, BootInv, FlashKept DEF Load, SettingsInv, Types
<1>4. start_webserver => SettingsInv'
  <2>1. (WebServer(conf) /\ is_lock_pass_set) \in BOOLEAN
    BY DEF WebServer, is_lock_pass_set
  <2> QED BY <2>1, BootInv, FlashKept DEF start_webserver, SettingsInv, Types
<1> QED BY <1>3, <1>4

LEMMA NameKept ==
  ASSUME SettingsInv, NEW v \in Values, nvs["hostname"] \in LongNames \/ Text(nvs, "hostname") = ""
  PROVE  Kept(With(nvs, "hostname", v))
<1>1. nvs \in Flash /\ "hostname" \in Keys
  BY DEF SettingsInv, Types, Keys
<1>2. With(nvs, "hostname", v) \in Flash
  BY <1>1, WithTypes
<1>3. ASSUME NEW s \in Subjects, asked[s].by = "done"
      PROVE  AsAsked(s, asked[s].what, With(nvs, "hostname", v))
  BY <1>1, <1>3, FlashKept, MarkedRequests, NameRepaired DEF SettingsInv, Kept
<1> QED BY <1>2, <1>3 DEF Kept

LEMMA NameInv == SettingsInv /\ setHostName => SettingsInv'
<1> SUFFICES ASSUME SettingsInv, setHostName PROVE SettingsInv'
  OBVIOUS
<1>1. CASE nvs["hostname"] \in LongNames
  <2>1. nvs' = With(nvs, "hostname", None) /\ boot' = "pin" /\ LoseRam /\ count' = count
    BY <1>1 DEF setHostName, With
  <2>2. Kept(nvs')
    BY <1>1, <2>1, NameKept, SomeValues
  <2> QED BY <2>1, <2>2, RestartInv DEF SettingsInv, Types
<1>2. CASE nvs["hostname"] \notin LongNames
  <2>1. boot = "name" /\ boot' = "octet" /\ UNCHANGED ram /\ count' = count
    BY <1>2 DEF setHostName
  <2>2. Kept(nvs')
    <3>1. CASE Text(nvs, "hostname") = ""
      <4>1. nvs' = With(nvs, "hostname", "esp32nre") /\ "esp32nre" \in Values
        BY <1>2, <3>1, StringAssumption DEF setHostName, With, Values
      <4> QED BY <3>1, <4>1, NameKept
    <3>2. CASE Text(nvs, "hostname") # ""
      BY <1>2, <3>2, FlashKept DEF setHostName
    <3> QED BY <3>1, <3>2
  <2> QED BY <2>1, <2>2, BootInv, TypesOfRam DEF SettingsInv
<1> QED BY <1>1, <1>2

LEMMA OctetInv == SettingsInv /\ set3rdOctet => SettingsInv'
<1> SUFFICES ASSUME SettingsInv, set3rdOctet PROVE SettingsInv'
  OBVIOUS
<1>1. boot = "octet" /\ boot' = "start" /\ UNCHANGED ram /\ count' = count
  BY DEF set3rdOctet
<1>2. Kept(nvs')
  <2>1. CASE nvs["octet"] \in ValidOctets
    BY <2>1, FlashKept DEF set3rdOctet
  <2>2. CASE nvs["octet"] \notin ValidOctets
    <3>1. nvs' = With(nvs, "octet", "4")
      BY <2>2 DEF set3rdOctet, With
    <3>2. nvs \in Flash /\ "octet" \in Keys /\ "4" \in Values
      BY StringAssumption DEF SettingsInv, Types, Keys, Values
    <3>3. With(nvs, "octet", "4") \in Flash
      BY <3>2, WithTypes
    <3>4. ASSUME NEW s \in Subjects, asked[s].by = "done"
          PROVE  AsAsked(s, asked[s].what, With(nvs, "octet", "4"))
      BY <2>2, <3>2, <3>4, FlashKept, MarkedRequests, OctetRepaired DEF SettingsInv, Kept
    <3> QED BY <3>1, <3>3, <3>4 DEF Kept
  <2> QED BY <2>1, <2>2
<1> QED BY <1>1, <1>2, BootInv, TypesOfRam DEF SettingsInv

LEMMA LockInv == SettingsInv /\ (unlock_handler \/ Relock) => SettingsInv'
<1> SUFFICES ASSUME SettingsInv, unlock_handler \/ Relock PROVE SettingsInv'
  OBVIOUS
<1>1. UNCHANGED <<nvs, conf, boot, lock_pass, req, todo, armed, asked, count>> /\ locked' \in BOOLEAN /\ opened' \in BOOLEAN
  BY DEF unlock_handler, Relock
<1> USE DEF SettingsInv
<1>2. Types'
  BY <1>1 DEF Types
<1>3. Marks'
  BY <1>1 DEF Marks, IsMark
<1>4. Owned' /\ Pending' /\ NextBootAsAsked'
  BY <1>1 DEF Owned, Pending, NextBootAsAsked
<1> QED BY <1>2, <1>3, <1>4

LEMMA BeginInv ==
  ASSUME SettingsInv, NEW t \in Tasks, NEW r \in Requests, Begin(t, r),
         t = "web" => r \in WebRequests, t = "console" => r \in ConsoleRequests
  PROVE  SettingsInv'
<1> USE DEF SettingsInv
<1>1. /\ boot = "up" /\ req[t] = Idle
      /\ req' = [req EXCEPT ![t] = r] /\ todo' = [todo EXCEPT ![t] = Writes(r)]
      /\ UNCHANGED <<nvs, conf, boot, lock_pass, locked, opened, armed>>
  BY DEF Begin
<1>2. /\ req'[t] = r /\ todo'[t] = Writes(r)
      /\ \A u \in Tasks \ {t} : req'[u] = req[u] /\ todo'[u] = todo[u]
  BY <1>1 DEF Types
<1>3. \A s \in Subjects :
        /\ s \notin Sets(r) => asked'[s] = asked[s]
        /\ s \in Sets(r) => \/ asked'[s] = Mixed
                            \/ asked'[s] = By(t) /\ ~\E u \in Tasks : s \in Sets(req[u])
  BY DEF Begin
<1>4. IsRequest(r) /\ r # Idle
  BY AllRequests, IdleSetsNothing
<1>5. Types'
  <2>1. Writes(r) \in Seq(WritesOf(r)) /\ Writes(r) \in Seq(Entries)
    BY <1>4, RequestWrites, WritesAreEntries
  <2>2. count' \in [requests : 0..MaxRequests, cuts : 0..MaxCuts]
    <3>1. /\ count \in [requests : 0..MaxRequests, cuts : 0..MaxCuts] /\ count.requests < MaxRequests
          /\ count' = [count EXCEPT !.requests = @ + 1]
      BY DEF Begin, Types
    <3>2. count.requests + 1 \in 0..MaxRequests
      BY <3>1, BoundAssumption
    <3> QED BY <3>1, <3>2
  <2>3. req' \in [Tasks -> {Idle} \cup Requests] /\ todo' \in [Tasks -> Seq(Entries)]
    BY <1>1, <2>1 DEF Types
  <2>4. \A u \in Tasks : todo'[u] \in Seq(WritesOf(req'[u])) /\ (req'[u] = Idle => todo'[u] = <<>>)
    BY <1>2, <1>4, <2>1 DEF Types
  <2>5. req'["web"] \in {Idle} \cup WebRequests /\ req'["console"] \in {Idle} \cup ConsoleRequests
    BY <1>2 DEF Types, Tasks
  <2> QED BY <1>1, <2>2, <2>3, <2>4, <2>5 DEF Types
<1>6. Marks'
  BY <1>3 DEF Marks, IsMark
<1>7. Owned'
  <2>1. ASSUME NEW s \in Subjects, NEW u \in Tasks, asked'[s] = By(u) PROVE s \in Sets(req'[u])
    <3>1. CASE s \in Sets(r)
      BY <1>2, <1>3, <2>1, <3>1, MarkKinds
    <3>2. CASE s \notin Sets(r)
      BY <1>1, <1>2, <1>3, <2>1, <3>2, IdleSetsNothing DEF Owned
    <3> QED BY <3>1, <3>2
  <2>2. ASSUME NEW s \in Subjects, NEW u \in Tasks, s \in Sets(req'[u]) PROVE asked'[s] \in {By(u), Mixed}
    <3>1. CASE u = t
      BY <1>2, <1>3, <2>2, <3>1
    <3>2. CASE u # t
      BY <1>2, <1>3, <2>2, <3>2 DEF Owned
    <3> QED BY <3>1, <3>2
  <2> QED BY <2>1, <2>2 DEF Owned
<1>8. Pending'
  <2>1. ASSUME NEW s \in Subjects, NEW u \in Tasks, asked'[s] = By(u)
        PROVE  AsAsked(s, req'[u], After(todo'[u], nvs))
    <3>1. CASE s \in Sets(r)
      <4>1. u = t
        BY <1>3, <2>1, <3>1, MarkKinds
      <4>2. nvs \in Flash
        BY DEF Types
      <4> QED BY <1>2, <1>4, <3>1, <4>1, <4>2, LeavesAsAsked
    <3>2. CASE s \notin Sets(r)
      <4>1. asked[s] = By(u)
        BY <1>3, <2>1, <3>2
      <4>2. u # t
        BY <1>1, <4>1, IdleSetsNothing DEF Owned
      <4> QED BY <1>2, <4>1, <4>2 DEF Pending
    <3> QED BY <3>1, <3>2
  <2> QED BY <1>1, <2>1 DEF Pending
<1>9. NextBootAsAsked'
  <2>1. ASSUME NEW s \in Subjects, asked'[s].by = "done" PROVE asked'[s] = asked[s]
    BY <1>3, <2>1, MarkKinds
  <2> QED BY <1>1, <2>1 DEF NextBootAsAsked
<1> QED BY <1>5, <1>6, <1>7, <1>8, <1>9

LEMMA AfterAgree ==
  ASSUME NEW s, NEW q, NEW L, NEW N, Agree(s, L, N)
  PROVE  Agree(s, After(q, L), After(q, N))
BY DEF Agree, After

\* A write of a request leaves alone what the request does not set.
LEMMA WriteElsewhere ==
  ASSUME NEW r, NEW w \in WritesOf(r), NEW N \in Flash, NEW s, s \notin Sets(r)
  PROVE  Agree(s, N, Stored(w, N))
BY DEF WritesOf, MayWrite, Agree, Stored

LEMMA HeadAndTail ==
  ASSUME NEW S, NEW q \in Seq(S), q # <<>>
  PROVE  Head(q) \in S /\ Tail(q) \in Seq(S)
OBVIOUS

LEMMA FirstWrite ==
  ASSUME Types, NEW t \in Tasks, Write(t)
  PROVE  /\ Head(todo[t]) \in WritesOf(req[t]) /\ Head(todo[t]) \in Entries
         /\ nvs' = Stored(Head(todo[t]), nvs) /\ nvs' \in Flash
         /\ todo'[t] = Tail(todo[t]) /\ Tail(todo[t]) \in Seq(WritesOf(req[t])) /\ Tail(todo[t]) \in Seq(Entries)
         /\ After(todo'[t], nvs') = After(todo[t], nvs)
         /\ \A u \in Tasks \ {t} : todo'[u] = todo[u]
         /\ req[t] # Idle /\ boot = "up"
<1>1. todo[t] # <<>> /\ todo[t] \in Seq(WritesOf(req[t])) /\ todo[t] \in Seq(Entries) /\ nvs \in Flash
  BY DEF Write, Types
<1>2. Head(todo[t]) \in WritesOf(req[t]) /\ Tail(todo[t]) \in Seq(WritesOf(req[t]))
  BY <1>1, HeadAndTail
<1>3. todo'[t] = Tail(todo[t]) /\ \A u \in Tasks \ {t} : todo'[u] = todo[u]
  BY DEF Write, Types
<1>4. nvs' = Stored(Head(todo[t]), nvs)
  BY DEF Write
<1>5. req[t] # Idle /\ boot = "up"
  BY <1>1 DEF Types
<1> QED BY <1>1, <1>2, <1>3, <1>4, <1>5, AfterFirst, StoredTypes

LEMMA WriteInv ==
  ASSUME SettingsInv, NEW t \in Tasks, Write(t)
  PROVE  SettingsInv'
<1> USE DEF SettingsInv
<1>1. UNCHANGED <<conf, boot, lock_pass, locked, opened, req, armed, asked, count>>
  BY DEF Write
<1>2. Types'
  <2>1. todo' \in [Tasks -> Seq(Entries)]
    BY FirstWrite DEF Write, Types
  <2>2. \A u \in Tasks : todo'[u] \in Seq(WritesOf(req'[u])) /\ (req'[u] = Idle => todo'[u] = <<>>)
    BY <1>1, FirstWrite DEF Types
  <2> QED BY <1>1, <2>1, <2>2, FirstWrite DEF Types
<1>3. Marks'
  BY <1>1 DEF Marks, IsMark
<1>4. Owned'
  BY <1>1 DEF Owned
<1>5. ASSUME NEW s \in Subjects, asked[s] # By(t), asked[s] # Mixed
      PROVE  Agree(s, nvs, nvs')
  <2>1. s \notin Sets(req[t])
    BY <1>5 DEF Owned
  <2> QED BY <2>1, FirstWrite, WriteElsewhere DEF Types
<1>6. Pending'
  <2>1. ASSUME NEW s \in Subjects, NEW u \in Tasks, asked[s] = By(u)
        PROVE  AsAsked(s, req[u], After(todo'[u], nvs'))
    <3>1. CASE u = t
      BY <2>1, <3>1, FirstWrite DEF Pending
    <3>2. CASE u # t
      <4>1. todo'[u] = todo[u]
        BY <3>2, FirstWrite
      <4>2. Agree(s, After(todo[u], nvs), After(todo[u], nvs'))
        BY <1>5, <2>1, <3>2, MarkKinds, AfterAgree
      <4>3. s \in Sets(req[u]) /\ AsAsked(s, req[u], After(todo[u], nvs))
        BY <2>1 DEF Owned, Pending
      <4>4. IsRequest(req[u])
        BY <4>3, AllRequests, IdleSetsNothing DEF Types
      <4>5. todo[u] \in Seq(Entries) /\ nvs \in Flash /\ nvs' \in Flash
        BY FirstWrite DEF Types
      <4>6. After(todo[u], nvs) \in Flash /\ After(todo[u], nvs') \in Flash
        BY <4>5, AfterTypes
      <4> QED BY <4>1, <4>2, <4>3, <4>4, <4>6, OtherKeys
    <3> QED BY <3>1, <3>2
  <2> QED BY <1>1, <2>1 DEF Pending
<1>7. NextBootAsAsked'
  <2>1. ASSUME NEW s \in Subjects, asked[s].by = "done" PROVE AsAsked(s, asked[s].what, nvs')
    <3>1. Agree(s, nvs, nvs')
      BY <1>5, <2>1, MarkKinds
    <3>2. nvs \in Flash /\ nvs' \in Flash
      BY FirstWrite DEF Types
    <3> QED BY <2>1, <3>1, <3>2, MarkedRequests, OtherKeys DEF NextBootAsAsked
  <2> QED BY <1>1, <2>1 DEF NextBootAsAsked
<1> QED BY <1>2, <1>3, <1>4, <1>6, <1>7

\* setWpa2 writes nothing but the keys of WPA enterprise.
LEMMA WpaWrites ==
  ASSUME NEW f, IsForm(f), f.kind = "config"
  PROVE  \A i \in 1..Len(setWpa2(f)) :
           DOMAIN setWpa2(f)[i] \subseteq {"sta_identity", "sta_user", "cer"}
<1> DEFINE S == {w \in Entries : DOMAIN w \subseteq {"sta_identity", "sta_user", "cer"}}
<1> USE SomeValues
<1>1. {f.sta_identity, f.sta_user, f.cer} \subseteq Values
  BY FormFields
<1>2. ASSUME NEW k \in {"sta_identity", "sta_user", "cer"}, NEW v \in Values PROVE Put(k, v) \in Seq(S)
  <2> DEFINE w == [x \in {k} |-> v]
  <2>1. {k} \in SUBSET Keys /\ w \in [{k} -> Values] /\ DOMAIN w = {k}
    BY DEF Keys
  <2>2. w \in S
    BY <2>1 DEF Entries
  <2> HIDE DEF w, S
  <2>3. <<w>> \in Seq(S)
    BY <2>2
  <2> QED BY <2>3 DEF Put, w
<1> HIDE DEF S
<1>3. PutOrDrop("sta_identity", f.sta_identity, f.sta_identity # "") \in Seq(S)
  BY <1>1, <1>2 DEF PutOrDrop
<1>4. PutOrDrop("sta_user", f.sta_user, f.sta_user # "") \in Seq(S)
  BY <1>1, <1>2 DEF PutOrDrop
<1>5. Drop("cer") \in Seq(S)
  BY <1>2 DEF Drop
<1>6. PutIf("cer", f.cer, f.cer # "") \in Seq(S)
  <2>1. <<>> \in Seq(S)
    OBVIOUS
  <2> QED BY <1>1, <1>2, <2>1 DEF PutIf
<1>7. setWpa2(f) \in Seq(S)
  BY <1>3, <1>4, <1>5, <1>6, FourWrites DEF setWpa2
<1> HIDE DEF setWpa2
<1>8. \A i \in 1..Len(setWpa2(f)) : setWpa2(f)[i] \in S
  BY <1>7
<1> QED BY <1>8 DEF S

\* Without memory for setWpa2 the uplink is nobody's, and the access point is
\* as the form asked.
LEMMA WpaFailsInv ==
  ASSUME SettingsInv, NEW t \in Tasks, setWpa2Fails(t)
  PROVE  SettingsInv'
<1> USE DEF SettingsInv
<1>1. /\ req[t].kind = "config" /\ todo[t] = setWpa2(req[t]) /\ todo' = [todo EXCEPT ![t] = <<>>]
      /\ UNCHANGED <<nvs, conf, boot, lock_pass, locked, opened, req, armed, count>>
  BY DEF setWpa2Fails
<1>2. todo'[t] = <<>> /\ \A u \in Tasks \ {t} : todo'[u] = todo[u]
  BY <1>1 DEF Types
<1>3. \A s \in Subjects : asked'[s] = Mixed \/ (s # "uplink" /\ asked'[s] = asked[s])
  BY DEF setWpa2Fails
<1>4. IsForm(req[t]) /\ IsRequest(req[t]) /\ nvs \in Flash
  <2>1. req[t] \in Requests /\ nvs \in Flash
    BY <1>1, IdleSetsNothing DEF Types
  <2>2. IsRequest(req[t])
    BY <2>1, AllRequests
  <2> QED BY <1>1, <2>1, <2>2, CommandFields DEF IsRequest
<1>5. Types'
  <2>1. todo' \in [Tasks -> Seq(Entries)]
    <3>1. <<>> \in Seq(Entries)
      OBVIOUS
    <3> QED BY <1>1, <3>1 DEF Types
  <2>2. \A u \in Tasks : todo'[u] \in Seq(WritesOf(req'[u])) /\ (req'[u] = Idle => todo'[u] = <<>>)
    BY <1>1, <1>2, NoWrites DEF Types
  <2> QED BY <1>1, <2>1, <2>2 DEF Types
<1>6. Marks'
  BY <1>3 DEF Marks, IsMark
<1>7. Owned'
  BY <1>1, <1>3, MarkKinds DEF Owned
<1>8. Pending'
  <2>1. ASSUME NEW s \in Subjects, NEW u \in Tasks, asked'[s] = By(u)
        PROVE  AsAsked(s, req[u], After(todo'[u], nvs))
    <3>1. s # "uplink" /\ asked[s] = By(u) /\ AsAsked(s, req[u], After(todo[u], nvs))
      BY <1>3, <2>1, MarkKinds DEF Pending
    <3>2. CASE u # t
      BY <1>2, <3>1, <3>2
    <3>3. CASE u = t
      <4> DEFINE q == setWpa2(req[t])
      <4>1. s = "ap" /\ s \in Sets(req[t])
        BY <1>1, <3>1, <3>3 DEF Owned, Sets
      <4>2. q \in Seq(Entries) /\ \A i \in 1..Len(q) : DOMAIN q[i] \subseteq {"sta_identity", "sta_user", "cer"}
        BY <1>1, <1>4, WpaWrites DEF Types
      <4>3. AsAsked(s, req[t], After(q, nvs))
        BY <1>1, <3>1, <3>3
      <4> HIDE DEF q
      <4>4. ASSUME NEW k \in Keys, Subject(k) = s PROVE After(q, nvs)[k] = nvs[k]
        <5>1. k \notin {"sta_identity", "sta_user", "cer"}
          BY <4>1, <4>4 DEF Subject
        <5> QED BY <1>4, <4>2, <5>1, AfterLast
      <4>5. Agree(s, After(q, nvs), nvs) /\ After(q, nvs) \in Flash
        BY <1>4, <4>2, <4>4, AfterTypes DEF Agree
      <4>6. AsAsked(s, req[t], nvs)
        BY <1>4, <4>1, <4>3, <4>5, OtherKeys
      <4> QED BY <1>2, <1>4, <3>3, <4>6, AfterNone
    <3> QED BY <3>2, <3>3
  <2> QED BY <1>1, <2>1 DEF Pending
<1>9. NextBootAsAsked'
  <2>1. ASSUME NEW s \in Subjects, asked'[s].by = "done" PROVE AsAsked(s, asked'[s].what, nvs)
    BY <1>3, <2>1, MarkKinds DEF NextBootAsAsked
  <2> QED BY <1>1, <2>1 DEF NextBootAsAsked
<1> QED BY <1>5, <1>6, <1>7, <1>8, <1>9

LEMMA FinishInv ==
  ASSUME SettingsInv, NEW t \in Tasks, Finish(t)
  PROVE  SettingsInv'
<1> USE DEF SettingsInv
<1>1. /\ req[t] # Idle /\ todo[t] = <<>> /\ req' = [req EXCEPT ![t] = Idle]
      /\ UNCHANGED <<nvs, conf, boot, todo, count>>
  BY DEF Finish, Finishing
<1>2. req'[t] = Idle /\ \A u \in Tasks \ {t} : req'[u] = req[u]
  BY <1>1 DEF Types
<1>3. \A s \in Subjects : asked'[s] = IF asked[s] = By(t) THEN Done(req[t]) ELSE asked[s]
  BY DEF Finish, Finishing
<1>4. IsRequest(req[t]) /\ boot = "up"
  BY <1>1, AllRequests DEF Types
<1>5. Types'
  <2>1. armed' \in BOOLEAN
    BY DEF Finish, Finishing, Types
  <2>2. lock_pass' \in Strings /\ locked' \in BOOLEAN /\ opened' \in BOOLEAN
    <3>1. CASE req[t].kind = "lock"
      <4>1. req[t].lockpass \in Strings
        BY <1>4, <3>1, FormFields, CommandFields DEF IsRequest
      <4>2. /\ lock_pass' = req[t].lockpass /\ locked' = (locked \/ req[t].lockpass # "")
            /\ opened' = (opened /\ ~locked')
        BY <3>1 DEF Finish, Finishing
      <4> QED BY <4>1, <4>2 DEF Types
    <3>2. CASE req[t].kind # "lock"
      BY <3>2 DEF Finish, Finishing, Types
    <3> QED BY <3>1, <3>2
  <2>3. req' \in [Tasks -> {Idle} \cup Requests]
    BY <1>1 DEF Types
  <2>4. \A u \in Tasks : todo'[u] \in Seq(WritesOf(req'[u])) /\ (req'[u] = Idle => todo'[u] = <<>>)
    BY <1>1, <1>2, NoWrites DEF Types
  <2>5. req'["web"] \in {Idle} \cup WebRequests /\ req'["console"] \in {Idle} \cup ConsoleRequests
    BY <1>2 DEF Types, Tasks
  <2> QED BY <1>1, <1>4, <2>1, <2>2, <2>3, <2>4, <2>5 DEF Types
<1>6. Marks'
  BY <1>3, <1>4 DEF Marks, IsMark, Owned
<1>7. Owned'
  <2>1. ASSUME NEW s \in Subjects, NEW u \in Tasks, asked'[s] = By(u) PROVE s \in Sets(req'[u])
    BY <1>2, <1>3, <2>1, MarkKinds DEF Owned
  <2>2. ASSUME NEW s \in Subjects, NEW u \in Tasks, s \in Sets(req'[u]) PROVE asked'[s] \in {By(u), Mixed}
    <3>1. u # t
      BY <1>2, <2>2, IdleSetsNothing
    <3> QED BY <1>2, <1>3, <2>2, <3>1, MarkKinds DEF Owned
  <2> QED BY <2>1, <2>2 DEF Owned
<1>8. Pending'
  <2>1. ASSUME NEW s \in Subjects, NEW u \in Tasks, asked'[s] = By(u)
        PROVE  u # t /\ asked[s] = By(u)
    BY <1>3, <2>1, MarkKinds
  <2> QED BY <1>1, <1>2, <2>1 DEF Pending
<1>9. NextBootAsAsked'
  <2>1. ASSUME NEW s \in Subjects, asked'[s].by = "done" PROVE AsAsked(s, asked'[s].what, nvs)
    <3>1. CASE asked[s] = By(t)
      <4>1. AsAsked(s, req[t], After(<<>>, nvs)) /\ nvs \in Flash
        BY <1>1, <3>1 DEF Pending, Types
      <4> QED BY <1>3, <3>1, <4>1, MarkKinds, AfterNone
    <3>2. CASE asked[s] # By(t)
      BY <1>3, <2>1, <3>2 DEF NextBootAsAsked
    <3> QED BY <3>1, <3>2
  <2> QED BY <1>1, <2>1 DEF NextBootAsAsked
<1> QED BY <1>5, <1>6, <1>7, <1>8, <1>9

LEMMA SettingsStutterInv == SettingsInv /\ UNCHANGED vars => SettingsInv'
<1> SUFFICES ASSUME SettingsInv, UNCHANGED vars PROVE SettingsInv'
  OBVIOUS
<1> USE DEF SettingsInv, vars
<1>1. Types'
  BY DEF Types
<1>2. Marks'
  BY DEF Marks, IsMark
<1>3. Owned' /\ Pending' /\ NextBootAsAsked'
  BY DEF Owned, Pending, NextBootAsAsked
<1> QED BY <1>1, <1>2, <1>3

LEMMA SettingsNextInv == SettingsInv /\ [Next]_vars => SettingsInv'
<1> SUFFICES ASSUME SettingsInv, Next PROVE SettingsInv'
  BY SettingsStutterInv
<1>1. CASE PowerCut \/ PowerOn \/ PinOpen \/ restart_timer_callback
  BY <1>1, PowerInv
<1>2. CASE PinHeld
  BY <1>2, PinInv
<1>3. CASE Load \/ start_webserver
  BY <1>3, LoadInv
<1>4. CASE setHostName
  BY <1>4, NameInv
<1>5. CASE set3rdOctet
  BY <1>5, OctetInv
<1>6. CASE unlock_handler \/ Relock
  BY <1>6, LockInv
<1>7. ASSUME NEW r \in WebRequests, apply_post_handler(r) \/ lock_handler(r) PROVE SettingsInv'
  <2>1. Begin("web", r) /\ r \in Requests /\ "web" \in Tasks /\ "web" # "console"
    BY <1>7 DEF apply_post_handler, lock_handler, Requests, Tasks
  <2> QED BY <1>7, <2>1, BeginInv
<1>8. ASSUME NEW r \in ConsoleRequests, Console(r) PROVE SettingsInv'
  <2>1. Begin("console", r) /\ r \in Requests /\ "console" \in Tasks /\ "web" # "console"
    BY <1>8 DEF Console, Requests, Tasks
  <2> QED BY <1>8, <2>1, BeginInv
<1>9. ASSUME NEW t \in Tasks, Step(t) PROVE SettingsInv'
  BY <1>9, WriteInv, WpaFailsInv, FinishInv DEF Step
<1> QED BY <1>1, <1>2, <1>3, <1>4, <1>5, <1>6, <1>7, <1>8, <1>9 DEF Next, Boot

\* The inductive invariant holds in every reachable state.
THEOREM SettingsInvariant == Spec => []SettingsInv
BY SettingsInitInv, SettingsNextInv, PTL DEF Spec

-----------------------------------------------------------------------------
(* What a user relies on.                                                   *)

\* Every variable has its type; nobody works on a request before the router is up.
THEOREM SettingsTypeCorrect == Spec => []TypeOK
<1>1. SettingsInv => TypeOK
  <2> SUFFICES ASSUME SettingsInv PROVE TypeOK
    OBVIOUS
  <2> USE DEF SettingsInv
  <2>1. \A t \in Tasks : req[t] \in {Idle} \cup (IF t = "web" THEN WebRequests ELSE ConsoleRequests)
    BY DEF Types, Tasks
  <2>2. \A s \in Subjects : asked[s].by \in Tasks \cup {"done", "nobody"}
    BY MarkKinds DEF Marks, IsMark
  <2>3. count.requests \in 0..MaxRequests /\ count.cuts \in 0..MaxCuts
    BY DEF Types
  <2> QED BY <2>1, <2>2, <2>3 DEF Types, TypeOK, Flash
<1> QED BY <1>1, SettingsInvariant, PTL

\* The last complete request for a subject, if nobody else changed the subject
\* meanwhile, is what the next boot runs.
THEOREM NextBoot == Spec => []NextBootAsAsked
<1>1. SettingsInv => NextBootAsAsked
  BY DEF SettingsInv
<1> QED BY <1>1, SettingsInvariant, PTL

\* The access point is opened by nobody who did not ask for it: no write of a
\* longer password, and no repair of the boot, passes through an open one.
THEOREM OpensOnly == Spec => OpensOnlyOnRequest
<1> DEFINE Opens == AccessPoint(nvs).passwd # "" /\ AccessPoint(nvs').passwd = ""
           Asks == \/ PinHeld
                   \/ \E t \in Tasks : \/ req[t].kind = "erase"
                                       \/ req[t].kind \in {"config", "set_ap"} /\ req[t].ap_passwd \in Short
                                       \/ /\ req[t].kind = "nvs_set" /\ req[t].key = "ap_passwd"
                                          /\ req[t].value \in Short
<1>1. ASSUME SettingsInv, Next, Opens PROVE Asks
  <2>1. nvs'["ap_passwd"] # nvs["ap_passwd"]
    BY <1>1 DEF AccessPoint, Text
  <2>2. "ap_passwd" \in Keys /\ "ap_passwd" # "hostname" /\ "ap_passwd" # "octet"
    BY DEF Keys
  <2>3. nvs \in Flash
    BY <1>1 DEF SettingsInv, Types
  <2>4. ~setHostName /\ ~set3rdOctet
    BY <2>1, <2>2, <2>3 DEF setHostName, set3rdOctet, Flash
  <2>5. PinHeld \/ \E t \in Tasks : Write(t)
    <3>1. ~(PowerCut \/ PowerOn \/ PinOpen \/ Load \/ start_webserver \/ restart_timer_callback)
      BY <2>1 DEF PowerCut, PowerOn, PinOpen, Load, start_webserver, restart_timer_callback
    <3>2. ~(unlock_handler \/ Relock)
      BY <2>1 DEF unlock_handler, Relock
    <3>3. \A r : ~(apply_post_handler(r) \/ lock_handler(r) \/ Console(r))
      BY <2>1 DEF apply_post_handler, lock_handler, Console, Begin
    <3>4. \A t : ~(setWpa2Fails(t) \/ Finish(t))
      BY <2>1 DEF setWpa2Fails, Finish, Finishing
    <3> QED BY <1>1, <2>4, <3>1, <3>2, <3>3, <3>4 DEF Next, Boot, Step
  <2>6. ASSUME NEW t \in Tasks, Write(t) PROVE Asks
    <3> DEFINE w == Head(todo[t])
    <3>1. w \in WritesOf(req[t]) /\ nvs' = Stored(w, nvs)
      BY <1>1, <2>6, FirstWrite DEF SettingsInv
    <3> HIDE DEF w
    <3>2. "ap_passwd" \in DOMAIN w /\ nvs'["ap_passwd"] = w["ap_passwd"]
      BY <2>1, <2>2, <3>1 DEF Stored
    <3>3. MayWrite(req[t], "ap_passwd", w["ap_passwd"])
      BY <3>1, <3>2 DEF WritesOf
    <3>4. w["ap_passwd"] = None \/ w["ap_passwd"] \in Short
      BY <1>1, <3>2, ValueAssumption DEF AccessPoint, Text
    <3>5. AsksOpen(req[t])
      BY <3>3, <3>4 DEF MayWrite
    <3> QED BY <3>5 DEF AsksOpen
  <2> QED BY <2>5, <2>6
<1> HIDE DEF Asks
<1>2. SettingsInv /\ [Next]_vars => [Opens => Asks]_vars
  BY <1>1
<1>3. Spec => [][Opens => Asks]_vars
  BY <1>2, SettingsInvariant, PTL DEF Spec
<1> QED BY <1>3 DEF OpensOnlyOnRequest, Asks

\* The password that a boot reads is the one in flash, and while the one that
\* was set holds, the pages are locked unless somebody gave it.
LockHolds ==
  /\ boot \in {"name", "octet", "start"} => lock_pass = Text(nvs, "lock_pass")
  /\ asked["password"].by = "done" /\ asked["password"].what.kind = "lock"
       /\ asked["password"].what.lockpass # "" /\ boot = "up" /\ WebServer(conf)
     => locked \/ opened

LEMMA LockNext == SettingsInv /\ LockHolds /\ [Next]_vars => LockHolds'
<1> SUFFICES ASSUME SettingsInv, LockHolds, [Next]_vars PROVE LockHolds'
  OBVIOUS
<1>0. "password" \in Subjects /\ "lock_pass" \in Keys /\ nvs \in Flash
  BY DEF Subjects, Keys, SettingsInv, Types
<1>1. CASE PowerCut \/ PowerOn \/ PinHeld \/ PinOpen \/ restart_timer_callback
  <2>1. boot' \in {"off", "pin", "load"}
    BY <1>1 DEF PowerCut, PowerOn, PinHeld, PinOpen, restart_timer_callback
  <2> QED BY <2>1 DEF LockHolds
<1>2. CASE Load
  BY <1>2 DEF Load, LockHolds
<1>3. CASE setHostName
  <2>1. CASE boot' = "pin"
    BY <2>1 DEF LockHolds
  <2>2. CASE boot' # "pin"
    <3>1. boot = "name" /\ boot' = "octet" /\ UNCHANGED ram
      BY <1>3, <2>2 DEF setHostName
    <3>2. nvs'["lock_pass"] = nvs["lock_pass"]
      BY <1>0, <1>3 DEF setHostName, Flash
    <3> QED BY <3>1, <3>2 DEF LockHolds, Text, ram
  <2> QED BY <2>1, <2>2
<1>4. CASE set3rdOctet
  <2>1. nvs'["lock_pass"] = nvs["lock_pass"]
    BY <1>0, <1>4 DEF set3rdOctet, Flash
  <2> QED BY <1>4, <2>1 DEF set3rdOctet, LockHolds, Text, ram
<1>5. CASE start_webserver
  <2>1. /\ boot = "start" /\ boot' = "up" /\ locked' = (WebServer(conf) /\ is_lock_pass_set)
        /\ UNCHANGED <<nvs, conf, lock_pass, opened, asked>>
    BY <1>5 DEF start_webserver
  <2>2. ASSUME asked["password"].by = "done", asked["password"].what.kind = "lock",
               asked["password"].what.lockpass # "", WebServer(conf)
        PROVE  locked'
    <3>1. AsAsked("password", asked["password"].what, nvs)
      BY <1>0, <2>2 DEF SettingsInv, NextBootAsAsked
    <3>2. Text(nvs, "lock_pass") = asked["password"].what.lockpass
      BY <2>2, <3>1 DEF AsAsked
    <3>3. lock_pass # ""
      BY <2>1, <2>2, <3>2 DEF LockHolds
    <3> QED BY <2>1, <2>2, <3>3 DEF is_lock_pass_set
  <2> QED BY <2>1, <2>2 DEF LockHolds
<1>6. CASE unlock_handler \/ Relock
  BY <1>6 DEF unlock_handler, Relock, Serving, LockHolds
<1>7. ASSUME NEW t \in Tasks, NEW r, Begin(t, r) PROVE LockHolds'
  <2>1. boot = "up" /\ UNCHANGED <<conf, boot, locked, opened>>
    BY <1>7 DEF Begin
  <2>2. asked'["password"] \in {asked["password"], Mixed, By(t)}
    BY <1>0, <1>7 DEF Begin
  <2>3. asked'["password"].by = "done" => asked'["password"] = asked["password"]
    BY <2>2, MarkKinds
  <2> QED BY <2>1, <2>3 DEF LockHolds
<1>8. ASSUME NEW t \in Tasks, Write(t) PROVE LockHolds'
  <2>1. boot = "up" /\ UNCHANGED <<conf, boot, locked, opened, asked>>
    BY <1>8, FirstWrite DEF Write, SettingsInv
  <2> QED BY <2>1 DEF LockHolds
<1>9. ASSUME NEW t \in Tasks, Finish(t) PROVE LockHolds'
  <2>1. boot = "up" /\ UNCHANGED <<conf, boot>> /\ req[t] # Idle
    BY <1>9 DEF Finish, Finishing, SettingsInv, Types
  <2>2. asked'["password"] = IF asked["password"] = By(t) THEN Done(req[t]) ELSE asked["password"]
    BY <1>0, <1>9 DEF Finish, Finishing
  <2>3. CASE req[t].kind = "lock"
    <3>1. locked' = (locked \/ req[t].lockpass # "")
      BY <1>9, <2>3 DEF Finish, Finishing
    <3>2. "password" \in Sets(req[t])
      BY <2>3 DEF Sets
    <3>3. asked["password"] \in {By(t), Mixed}
      BY <1>0, <3>2 DEF SettingsInv, Owned
    <3> QED BY <2>1, <2>2, <3>1, <3>3, MarkKinds DEF LockHolds
  <2>4. CASE req[t].kind # "lock"
    <3>1. UNCHANGED <<locked, opened>>
      BY <1>9, <2>4 DEF Finish, Finishing
    <3> QED BY <2>1, <2>2, <2>4, <3>1, MarkKinds DEF LockHolds
  <2> QED BY <2>3, <2>4
<1>10. ASSUME NEW t \in Tasks, setWpa2Fails(t) PROVE LockHolds'
  <2>1. asked'["password"] = asked["password"] /\ UNCHANGED <<nvs, conf, boot, lock_pass, locked, opened>>
    BY <1>0, <1>10 DEF setWpa2Fails
  <2> QED BY <2>1 DEF LockHolds
<1>11. CASE UNCHANGED vars
  BY <1>11 DEF vars, LockHolds
<1> QED BY <1>1, <1>2, <1>3, <1>4, <1>5, <1>6, <1>7, <1>8, <1>9, <1>10, <1>11
        DEF Next, Boot, Step, apply_post_handler, lock_handler, Console, Tasks

\* Whoever posts a form while a password holds gave it since the pages were
\* locked, whatever restarts and power failures there were.
THEOREM Guards == Spec => PasswordGuards
<1> DEFINE Posts == /\ req["web"] = Idle /\ req'["web"] # Idle
                    /\ asked["password"].by = "done"
                    /\ asked["password"].what.kind = "lock" /\ asked["password"].what.lockpass # ""
<1>1. Init => LockHolds
  BY DEF Init, LockHolds
<1>2. ASSUME SettingsInv, LockHolds, Next, Posts PROVE opened
  <2>1. "web" \in Tasks /\ req \in [Tasks -> {Idle} \cup Requests]
    BY <1>2 DEF SettingsInv, Types, Tasks
  <2>2. req'["web"] # req["web"]
    BY <1>2
  <2>3. ~(PowerOn \/ PinHeld \/ PinOpen \/ Load \/ set3rdOctet \/ start_webserver \/ unlock_handler \/ Relock)
    BY <2>2 DEF PowerOn, PinHeld, PinOpen, Load, set3rdOctet, start_webserver, unlock_handler, Relock, ram
  <2>4. ~LoseRam
    BY <1>2, <2>1 DEF LoseRam
  <2>5. ~(PowerCut \/ restart_timer_callback \/ setHostName)
    BY <2>2, <2>4 DEF PowerCut, restart_timer_callback, setHostName, ram
  <2>6. \A t \in Tasks : ~Step(t)
    BY <1>2, <2>1, <2>2 DEF Step, Write, setWpa2Fails, Finish, Finishing
  <2>7. \A r : ~Console(r)
    BY <2>1, <2>2 DEF Console, Begin
  <2>8. PICK r \in WebRequests : apply_post_handler(r) \/ lock_handler(r)
    BY <1>2, <2>3, <2>5, <2>6, <2>7 DEF Next, Boot
  <2>9. boot = "up" /\ WebServer(conf) /\ ~locked
    BY <2>8 DEF apply_post_handler, lock_handler, Serving
  <2> QED BY <1>2, <2>9 DEF LockHolds
<1>3. SettingsInv /\ LockHolds /\ [Next]_vars => [Posts => opened]_vars
  BY <1>2
<1>4. Spec => [][Posts => opened]_vars
  BY <1>1, <1>3, LockNext, SettingsInvariant, PTL DEF Spec
<1> QED BY <1>4 DEF PasswordGuards

-----------------------------------------------------------------------------
(* The pages.                                                               *)

LEMMA TextTypes ==
  ASSUME NEW N \in Flash, NEW k \in Keys
  PROVE  /\ Text(N, k) \in Strings
         /\ \A d \in Strings : Number(N, k, d) \in Strings
         /\ Text(N, k) # "" => N[k] = Text(N, k)
BY StringAssumption DEF Text, Number, Flash, Values

\* What the start page shows is a form.
LEMMA IndexIsForm ==
  ASSUME NEW N \in Flash, NEW c \in Flash
  PROVE  IsForm(index_page(N, c)) /\ index_page(N, c).kind = "config"
<1> DEFINE f == index_page(N, c)
<1>1. {"ap_ssid", "ap_passwd", "ssid", "passwd", "sta_identity", "sta_user", "cer"} \subseteq Keys
  BY DEF Keys
<1>2. \A k \in Keys : Text(N, k) \in Strings /\ Text(c, k) \in Strings
  BY TextTypes
<1>3. Number(c, "ap_ssid", "ESP32_NAT_Router") \in Strings /\ "" \in Strings
  BY <1>1, TextTypes, StringAssumption
<1>4. f \in [kind : {"config"}, ap_ssid : Strings, ap_passwd : Strings, hidden : BOOLEAN, ssid : Strings,
             passwd : Strings, sta_identity : Strings, sta_user : Strings, cer : Strings]
  BY <1>1, <1>2, <1>3 DEF index_page
<1> QED BY <1>4 DEF IsForm, index_page

LEMMA StaticReads ==
  ASSUME NEW L, NEW N, Uplink(L) = Uplink(N), StoredAddress(L) = StoredAddress(N)
  PROVE  StaticAddress(L) = StaticAddress(N)
<1>1. Uplink(L).ssid = Text(L, "ssid") /\ Uplink(N).ssid = Text(N, "ssid")
  BY DEF Uplink
<1> QED BY <1>1 DEF StaticAddress

\* The start page, posted as it is shown.
LEMMA IndexKeeps ==
  ASSUME NEW N \in Flash, NEW c \in Flash, \A k \in {"ssid", "passwd", "ap_ssid", "ap_passwd"} : c[k] = N[k]
  PROVE  Runs(After(Writes(index_page(N, c)), N)) = Runs(N)
<1> DEFINE f == index_page(N, c)
           M == After(Writes(f), N)
<1>1. IsForm(f) /\ f.kind = "config"
  BY IndexIsForm
<1>2. Writes(f) \in Seq(Entries)
  BY <1>1, RequestWrites, WritesAreEntries DEF IsRequest
<1>3. M \in Flash /\ ConfigMakes(f, N, M)
  BY <1>1, <1>2, ConfigLeaves, AfterTypes
<1>4. {"ap_ssid", "ap_passwd", "ssid_hidden", "ssid", "passwd", "sta_identity", "sta_user", "cer"} \subseteq Keys
  BY DEF Keys
<1>5. /\ f.ap_ssid = Number(N, "ap_ssid", "ESP32_NAT_Router") /\ f.ap_passwd = Text(N, "ap_passwd")
      /\ f.hidden = (Number(N, "ssid_hidden", "0") = "1")
      /\ f.ssid = Text(N, "ssid") /\ f.passwd = Text(N, "passwd")
      /\ f.sta_identity = IF isWpaEnterprise(N) THEN Text(N, "sta_identity") ELSE ""
      /\ f.sta_user = IF isWpaEnterprise(N) THEN Text(N, "sta_user") ELSE ""
      /\ f.cer = IF isWpaEnterprise(N) THEN Text(N, "cer") ELSE ""
  BY DEF index_page, Text, Number
<1>6. \A k \in Keys : Text(N, k) # None
  BY TextTypes, StringAssumption
<1> HIDE DEF f, M
<1>7. Uplink(M) = Uplink(N)
  <2>1. Text(M, "ssid") = Text(N, "ssid") /\ Text(M, "passwd") = Text(N, "passwd")
    BY <1>3, <1>4, <1>5, <1>6 DEF ConfigMakes, Text
  <2>2. Text(M, "sta_identity") = f.sta_identity /\ Text(M, "sta_user") = f.sta_user /\ Text(M, "cer") = f.cer
    BY <1>3, <1>4, <1>5, <1>6 DEF ConfigMakes, Text
  <2> QED BY <1>5, <2>1, <2>2 DEF Uplink, isWpaEnterprise, setWpaEnterprise
<1>8. AccessPoint(M) = AccessPoint(N)
  <2>1. Number(M, "ap_ssid", "ESP32_NAT_Router") = Number(N, "ap_ssid", "ESP32_NAT_Router")
    BY <1>3, <1>5 DEF ConfigMakes, Number
  <2>2. (Number(M, "ssid_hidden", "0") = "1") = (Number(N, "ssid_hidden", "0") = "1")
    BY <1>3, <1>5 DEF ConfigMakes, Number, None
  <2>3. M["ap_passwd"] = IF Text(N, "ap_passwd") \in Short THEN None ELSE Text(N, "ap_passwd")
    BY <1>3, <1>5 DEF ConfigMakes
  <2>4. CASE Text(N, "ap_passwd") \in Short
    <3>1. Text(M, "ap_passwd") \in Short
      BY <2>3, <2>4, ValueAssumption DEF Text
    <3> QED BY <2>1, <2>2, <2>4, <3>1 DEF AccessPoint
  <2>5. CASE Text(N, "ap_passwd") \notin Short
    <3>1. Text(M, "ap_passwd") = Text(N, "ap_passwd") /\ M["ap_passwd"] = Text(N, "ap_passwd")
      BY <1>4, <1>6, <2>3, <2>5 DEF Text
    <3>2. N["ap_passwd"] = Text(N, "ap_passwd")
      BY <1>4, <2>5, TextTypes, ValueAssumption
    <3> QED BY <2>1, <2>2, <2>5, <3>1, <3>2 DEF AccessPoint
  <2> QED BY <2>4, <2>5
<1>9. ASSUME NEW s \in Subjects \ {"uplink", "ap"} PROVE Agree(s, M, N)
  <2>1. \A k \in {"ap_ssid", "ap_passwd", "ssid_hidden", "ssid", "passwd", "sta_identity", "sta_user", "cer"} :
          Subject(k) \in {"uplink", "ap"}
    BY DEF Subject
  <2> QED BY <1>3, <1>9, <2>1 DEF ConfigMakes, Agree
<1>10. /\ StoredAddress(M) = StoredAddress(N) /\ fillDNS(M) = fillDNS(N) /\ fillMac(M) = fillMac(N)
       /\ M["hostname"] = N["hostname"] /\ Services(M) = Services(N)
       /\ Text(M, "lock_pass") = Text(N, "lock_pass") /\ WebServer(M) = WebServer(N)
       /\ M["ap_ip"] = N["ap_ip"] /\ M["netmask"] = N["netmask"] /\ M["octet"] = N["octet"]
  BY <1>3, <1>9, Reads DEF Subjects
<1>11. Address(M) = Address(N) /\ Text(M, "hostname") = Text(N, "hostname")
  BY <1>10 DEF Address, getNetmask, Number, Text
<1>12. PowerShown(M) = PowerShown(N)
  <2>1. M["txpower"] = N["txpower"]
    BY <1>3 DEF ConfigMakes, Keys
  <2> QED BY <2>1 DEF PowerShown
<1>13. StaticAddress(M) = StaticAddress(N)
  BY <1>7, <1>10, StaticReads
<1>14. Runs(M) = Runs(N)
  BY <1>7, <1>8, <1>10, <1>11, <1>12, <1>13 DEF Runs
<1> QED BY <1>14 DEF M, f

AllShowable(N) == \A k \in Keys : Showable(k, N[k])

LEMMA ShownValues ==
  ASSUME NEW N \in Flash, AllShowable(N)
  PROVE  /\ N["custom_dns"] \in {None} \cup Dns \cup ValidIps
         /\ N["netmask"] \in {None} \cup {ClassMask[c] : c \in Classes} \cup ValidMasks
         /\ N["octet"] \in {None} \cup ValidOctets
BY DEF AllShowable, Showable, Keys

LEMMA MaskShown ==
  ASSUME NEW N \in Flash, AllShowable(N)
  PROVE  LET net == NetmaskShown(N)
         IN \/ net.netmask = "custom" /\ net.mask = N["netmask"] /\ net.mask \in ValidMasks
            \/ net.netmask \in Classes /\ net.mask = "" /\ ClassMask[net.netmask] = getNetmask(N)
<1> DEFINE class == {c \in Classes : ClassMask[c] = getNetmask(N)}
<1>1. "classc" \in Classes /\ ClassMask.classc = ClassMask["classc"]
  BY DEF Classes
<1>2. CASE class = {}
  <2>1. N["netmask"] # None
    BY <1>1, <1>2 DEF getNetmask
  <2>2. N["netmask"] \in ValidMasks
    BY <1>2, <2>1, ShownValues DEF getNetmask
  <2>3. NetmaskShown(N) = [netmask |-> "custom", mask |-> N["netmask"]]
    BY <1>2 DEF NetmaskShown
  <2>4. NetmaskShown(N).netmask = "custom" /\ NetmaskShown(N).mask = N["netmask"]
    BY <2>3
  <2> QED BY <2>2, <2>4
<1>3. CASE class # {}
  <2>1. PICK shown : shown = CHOOSE c \in class : TRUE
    OBVIOUS
  <2>2. shown \in class
    BY <1>3, <2>1
  <2>3. NetmaskShown(N) = [netmask |-> shown, mask |-> ""]
    BY <1>3, <2>1 DEF NetmaskShown
  <2>4. [netmask |-> shown, mask |-> ""].netmask = shown /\ [netmask |-> shown, mask |-> ""].mask = ""
    OBVIOUS
  <2> QED BY <2>2, <2>3, <2>4
<1> QED BY <1>2, <1>3

LEMMA MacShows ==
  ASSUME NEW N \in Flash, NEW c \in Flash, c["custom_mac"] = N["custom_mac"]
  PROVE  LET mac == MacShown(N, c)
         IN \/ mac.custommac = "random" /\ mac.macaddress = "" /\ N["custom_mac"] = "random"
            \/ mac.custommac = "default" /\ mac.macaddress = "" /\ fillMac(N) = "built in"
            \/ mac.custommac = "custom" /\ mac.macaddress = N["custom_mac"] /\ N["custom_mac"] \in ValidMacs
<1>1. fillMac(c) = fillMac(N)
  BY DEF fillMac
<1>2. CASE N["custom_mac"] = "random"
  BY <1>2 DEF MacShown
<1>3. CASE N["custom_mac"] # "random" /\ fillMac(N) = "built in"
  BY <1>1, <1>3 DEF MacShown
<1>4. CASE N["custom_mac"] # "random" /\ fillMac(N) # "built in"
  <2>1. N["custom_mac"] \in ValidMacs /\ fillMac(N) = N["custom_mac"]
    BY <1>4 DEF fillMac
  <2> QED BY <1>1, <1>4, <2>1 DEF MacShown
<1> QED BY <1>2, <1>3, <1>4

LEMMA DnsShows ==
  ASSUME NEW N \in Flash, AllShowable(N)
  PROVE  LET dns == DnsShown(N)
         IN \/ dns.dns = N["custom_dns"] /\ dns.dns \in {None} \cup Dns /\ dns.dnsip = ""
            \/ dns.dns = "custom" /\ dns.dnsip = N["custom_dns"] /\ dns.dnsip \in ValidIps
BY ShownValues DEF DnsShown

LEMMA PowerShows ==
  ASSUME NEW N
  PROVE  PowerShown(N) \in ValidPowers /\ PowerOption[PowerShown(N)] = PowerShown(N)
BY PowerAssumption, ValueAssumption DEF PowerShown

\* What the advanced page shows is a form.
LEMMA AdvancedIsForm ==
  ASSUME NEW N \in Flash, NEW c \in Flash, AllShowable(N), c["custom_mac"] = N["custom_mac"]
  PROVE  IsForm(advanced_page(N, c)) /\ advanced_page(N, c).kind = "advanced"
<1> DEFINE f == advanced_page(N, c)
           mac == MacShown(N, c)
           dns == DnsShown(N)
           net == NetmaskShown(N)
<1>1. {"hostname", "octet"} \subseteq Keys
  BY DEF Keys
<1>2. Text(N, "hostname") \in Strings /\ Number(N, "octet", "4") \in Strings
  BY <1>1, TextTypes, StringAssumption
<1>3. mac.custommac \in Values /\ mac.macaddress \in Strings
  BY MacShows, StringAssumption, ValueAssumption DEF Values
<1>4. dns.dns \in {None, "custom"} \cup Dns /\ dns.dnsip \in Strings
  BY DnsShows, StringAssumption, ValueAssumption
<1>5. net.netmask \in {None, "custom"} \cup Classes /\ net.mask \in Strings
  BY MaskShown, StringAssumption, ValueAssumption
<1>6. PowerShown(N) \in Strings
  BY PowerShows, ValueAssumption
<1> HIDE DEF mac, dns, net
<1>7. f = [kind |-> "advanced", ws |-> TRUE,
           alive |-> Number(N, "keep_alive", "0") = "1", led |-> Number(N, "led_disabled", "0") = "0",
           nat |-> Number(N, "nat_disabled", "0") = "0", bridge |-> Number(N, "bridge_enabled", "0") = "1",
           custommac |-> mac.custommac, macaddress |-> mac.macaddress,
           dns |-> dns.dns, dnsip |-> dns.dnsip, netmask |-> net.netmask, mask |-> net.mask,
           hostname |-> Text(N, "hostname"), octet |-> Number(N, "octet", "4"),
           txpower |-> PowerShown(N), low |-> Number(N, "lower_bandwith", "0") = "1"]
  BY DEF advanced_page, mac, dns, net
<1>8. f \in [kind : {"advanced"}, alive : BOOLEAN, led : BOOLEAN, nat : BOOLEAN, bridge : BOOLEAN,
            ws : BOOLEAN, custommac : Values, macaddress : Strings,
            dns : {None, "custom"} \cup Dns, dnsip : Strings,
            netmask : {None, "custom"} \cup Classes, mask : Strings,
            hostname : Strings, octet : Strings, txpower : Strings, low : BOOLEAN]
  <2> HIDE DEF f
  <2> QED BY <1>2, <1>3, <1>4, <1>5, <1>6, <1>7
<1> QED BY <1>7, <1>8 DEF IsForm

\* The advanced page, posted as it is shown.
LEMMA AdvancedKeeps ==
  ASSUME NEW N \in Flash, NEW c \in Flash, AllShowable(N), c["custom_mac"] = N["custom_mac"]
  PROVE  Runs(After(Writes(advanced_page(N, c)), N)) = Runs(N)
<1> DEFINE f == advanced_page(N, c)
           M == After(Writes(f), N)
           mac == MacShown(N, c)
           dns == DnsShown(N)
           net == NetmaskShown(N)
<1>1. IsForm(f) /\ f.kind = "advanced"
  BY AdvancedIsForm
<1>2. Writes(f) \in Seq(Entries)
  BY <1>1, RequestWrites, WritesAreEntries DEF IsRequest
<1>3. M \in Flash /\ AdvancedMakes(f, N, M)
  BY <1>1, <1>2, AdvancedLeaves, AfterTypes
<1>4. /\ \/ mac.custommac = "random" /\ mac.macaddress = "" /\ N["custom_mac"] = "random"
         \/ mac.custommac = "default" /\ mac.macaddress = "" /\ fillMac(N) = "built in"
         \/ mac.custommac = "custom" /\ mac.macaddress = N["custom_mac"] /\ N["custom_mac"] \in ValidMacs
      /\ \/ dns.dns = N["custom_dns"] /\ dns.dns \in {None} \cup Dns /\ dns.dnsip = ""
         \/ dns.dns = "custom" /\ dns.dnsip = N["custom_dns"] /\ dns.dnsip \in ValidIps
      /\ \/ net.netmask = "custom" /\ net.mask = N["netmask"] /\ net.mask \in ValidMasks
         \/ net.netmask \in Classes /\ net.mask = "" /\ ClassMask[net.netmask] = getNetmask(N)
  BY MacShows, DnsShows, MaskShown
<1> HIDE DEF mac, dns, net
<1>5. /\ f.ws = TRUE
      /\ f.alive = (Number(N, "keep_alive", "0") = "1") /\ f.led = (Number(N, "led_disabled", "0") = "0")
      /\ f.nat = (Number(N, "nat_disabled", "0") = "0") /\ f.bridge = (Number(N, "bridge_enabled", "0") = "1")
      /\ f.low = (Number(N, "lower_bandwith", "0") = "1")
  BY DEF advanced_page
<1>6. /\ f.custommac = mac.custommac /\ f.macaddress = mac.macaddress
      /\ f.dns = dns.dns /\ f.dnsip = dns.dnsip /\ f.netmask = net.netmask /\ f.mask = net.mask
      /\ f.hostname = Text(N, "hostname") /\ f.octet = Number(N, "octet", "4") /\ f.txpower = PowerShown(N)
  BY DEF advanced_page, mac, dns, net
<1> HIDE DEF f, M
<1>7. fillMac(M) = fillMac(N)
  <2>1. f.custommac # None
    BY <1>4, <1>6 DEF None
  <2>2. M["custom_mac"] = MacWritten(f)
    BY <1>3, <2>1 DEF AdvancedMakes
  <2>3. None \notin {"random"} \cup ValidMacs /\ "" \notin ValidMacs
    BY ValueAssumption, StringAssumption DEF None
  <2> QED BY <1>4, <1>6, <2>2, <2>3 DEF MacWritten, fillMac
<1>8. fillDNS(M) = fillDNS(N)
  <2>1. "custom" \notin {None} \cup Dns
    BY DEF None, Dns
  <2>2. M["custom_dns"] = N["custom_dns"]
    BY <1>3, <1>4, <1>6, <2>1 DEF AdvancedMakes, DnsWritten
  <2> QED BY <2>2 DEF fillDNS
<1>9. getNetmask(M) = getNetmask(N)
  <2>1. "custom" \notin Classes /\ None \notin Classes /\ "custom" # None
    BY DEF None, Classes
  <2>2. M["netmask"] = MaskWritten(f)
    BY <1>3, <1>4, <1>6, <2>1 DEF AdvancedMakes
  <2>3. None \notin ValidMasks /\ \A class \in Classes : ClassMask[class] # None
    BY StringAssumption, ValueAssumption
  <2> QED BY <1>4, <1>6, <2>1, <2>2, <2>3 DEF MaskWritten, getNetmask
<1>10. Number(M, "octet", "4") = Number(N, "octet", "4")
  <2>1. Number(N, "octet", "4") \in ValidOctets /\ None \notin ValidOctets
    BY ShownValues, ValueAssumption, StringAssumption DEF Number
  <2>2. M["octet"] = Number(N, "octet", "4")
    BY <1>3, <1>6, <2>1 DEF AdvancedMakes
  <2> QED BY <2>1, <2>2 DEF Number
<1>11. Text(M, "hostname") = Text(N, "hostname")
  <2>1. Text(N, "hostname") # None
    BY TextTypes, StringAssumption DEF Keys
  <2> QED BY <1>3, <1>6, <2>1 DEF AdvancedMakes, Text
<1>12. PowerShown(M) = PowerShown(N)
  <2>1. M["txpower"] = PowerShown(N)
    BY <1>3, <1>6, PowerShows DEF AdvancedMakes
  <2> QED BY <2>1, PowerShows DEF PowerShown
<1>13. [Services(M) EXCEPT !.power = PowerShown(M)] = [Services(N) EXCEPT !.power = PowerShown(N)]
  <2>1. /\ (Number(M, "bridge_enabled", "0") = "1") = f.bridge /\ (Number(M, "nat_disabled", "0") = "0") = f.nat
        /\ (Number(M, "led_disabled", "0") = "0") = f.led /\ (Number(M, "keep_alive", "0") = "1") = f.alive
        /\ (Number(M, "lower_bandwith", "0") = "1") = f.low
    BY <1>3, <1>5 DEF AdvancedMakes, Number, Flag, None
  <2> QED BY <1>5, <1>12, <2>1 DEF Services
<1>14. ASSUME NEW s \in {"uplink", "static", "ap", "password"} PROVE Agree(s, M, N)
  <2>1. \A k \in {"keep_alive", "led_disabled", "nat_disabled", "bridge_enabled", "lock", "custom_mac",
                  "custom_dns", "netmask", "hostname", "octet", "txpower", "lower_bandwith"} :
          Subject(k) \notin {"uplink", "static", "ap", "password"}
    BY DEF Subject
  <2> QED BY <1>3, <1>14, <2>1 DEF AdvancedMakes, Agree
<1>15. /\ Uplink(M) = Uplink(N) /\ StoredAddress(M) = StoredAddress(N) /\ AccessPoint(M) = AccessPoint(N)
       /\ Text(M, "lock_pass") = Text(N, "lock_pass")
  BY <1>3, <1>14, Reads DEF Subjects
<1>16. WebServer(M) = WebServer(N)
  BY <1>3, <1>5 DEF AdvancedMakes, WebServer, Number
<1>17. Address(M) = Address(N)
  <2>1. M["ap_ip"] = N["ap_ip"]
    BY <1>3 DEF AdvancedMakes, Keys
  <2> QED BY <1>9, <1>10, <2>1 DEF Address
<1>18. StaticAddress(M) = StaticAddress(N)
  BY <1>15, StaticReads
<1>19. Runs(M) = Runs(N)
  BY <1>7, <1>8, <1>11, <1>13, <1>15, <1>16, <1>17, <1>18 DEF Runs
<1> QED BY <1>19 DEF M, f

\* nvs_set stores under the keys of the DNS server, the mask and the octet only
\* what the advanced page can show.
CommandsShow == \A r \in ConsoleRequests : r.kind = "nvs_set" => Showable(r.key, r.value)

LEMMA ShowableNext ==
  ASSUME CommandsShow
  PROVE  SettingsInv /\ AllShowable(nvs) /\ [Next]_vars => AllShowable(nvs)'
<1> SUFFICES ASSUME SettingsInv, AllShowable(nvs), [Next]_vars PROVE AllShowable(nvs)'
  OBVIOUS
<1>0. nvs \in Flash
  BY DEF SettingsInv, Types
<1>1. CASE nvs' = nvs
  BY <1>1 DEF AllShowable
<1>2. CASE PinHeld
  BY <1>2 DEF PinHeld, AllShowable, Empty, Showable
<1>3. CASE setHostName
  <2>1. \A k \in Keys \ {"hostname"} : nvs'[k] = nvs[k]
    BY <1>0, <1>3 DEF setHostName, Flash
  <2> QED BY <2>1 DEF AllShowable, Showable
<1>4. CASE set3rdOctet
  <2>1. /\ \A k \in Keys \ {"octet"} : nvs'[k] = nvs[k]
        /\ nvs'["octet"] \in ValidOctets
    BY <1>0, <1>4, ValueAssumption DEF set3rdOctet, Flash, Keys
  <2> QED BY <2>1 DEF AllShowable, Showable
<1>5. ASSUME NEW t \in Tasks, Write(t) PROVE AllShowable(nvs)'
  <2> DEFINE w == Head(todo[t])
             r == req[t]
  <2>1. w \in WritesOf(r) /\ nvs' = Stored(w, nvs)
    BY <1>5, FirstWrite DEF SettingsInv
  <2>2. r \in Requests
    BY <1>5, FirstWrite DEF SettingsInv, Types
  <2>3. r.kind = "nvs_set" => Showable(r.key, r.value)
    <3>1. \A x \in WebRequests : x.kind # "nvs_set"
      BY RequestAssumption, FormFields
    <3> QED BY <2>2, <3>1 DEF CommandsShow, Requests
  <2> HIDE DEF w, r
  <2>4. \A k \in DOMAIN w : Showable(k, w[k])
    BY <2>1, <2>3 DEF WritesOf, MayWrite
  <2> QED BY <2>1, <2>4 DEF AllShowable, Stored
<1> QED BY <1>1, <1>2, <1>3, <1>4, <1>5
        DEF Next, Boot, Step, PowerCut, PowerOn, PinOpen, Load, start_webserver, unlock_handler, Relock,
            apply_post_handler, lock_handler, Console, Begin, setWpa2Fails, Finish, Finishing,
            restart_timer_callback, vars

\* A page that is posted as it is shown changes nothing that the next boot
\* runs, in every state that is reached, if no command stores a DNS server, a
\* mask or an octet that the advanced page cannot show.
THEOREM PagesKept == ASSUME CommandsShow PROVE Spec => []PagesKeep
<1>1. Init => AllShowable(nvs)
  BY DEF Init, AllShowable, Empty, Showable
<1>2. SettingsInv /\ AllShowable(nvs) => PagesKeep
  <2> SUFFICES ASSUME SettingsInv, AllShowable(nvs) PROVE PagesKeep
    OBVIOUS
  <2>1. nvs \in Flash /\ conf \in Flash
    BY DEF SettingsInv, Types
  <2>2. ~SinceBoot({"ssid", "passwd", "ap_ssid", "ap_passwd"})
          => Runs(Posted(index_page(nvs, conf))) = Runs(nvs)
    BY <2>1, IndexKeeps DEF SinceBoot, Posted
  <2>3. ~SinceBoot({"custom_mac"}) => Runs(Posted(advanced_page(nvs, conf))) = Runs(nvs)
    BY <2>1, AdvancedKeeps DEF SinceBoot, Posted
  <2> QED BY <2>2, <2>3 DEF PagesKeep
<1>3. SettingsInv /\ AllShowable(nvs) /\ [Next]_vars => AllShowable(nvs)'
  BY ShowableNext
<1> QED BY <1>1, <1>2, <1>3, SettingsInvariant, PTL DEF Spec

=============================================================================
