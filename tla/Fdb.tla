-------------------------------- MODULE Fdb ---------------------------------
(***************************************************************************)
(* A learning table of the bridge: fdb_insert and fdb_lookup (IP -> MAC,   *)
(* FDB_SIZE entries, FDB_TTL_S seconds) and, with other sizes and keys,    *)
(* xid_map_insert and xid_map_lookup, which have the same code.            *)
(*                                                                         *)
(* The Wi-Fi task inserts: it reads the clock before it enters the         *)
(* critical section, so a tick or the clearing of the table by the event   *)
(* task can come between the two.  The tcpip thread looks addresses up;    *)
(* what it may find is the operator Lookup.                                *)
(***************************************************************************)
EXTENDS FiniteSetsExt

CONSTANTS
  SIZE,      \* entries of the table
  TTL,       \* lifetime of an entry, in seconds
  Keys,      \* the addresses (or transaction ids) that frames carry
  Own,       \* those never learned: the router's own addresses and address 0
  NoKey,     \* 0, the key of a cleared entry (but a legal transaction id)
  Macs,
  NoMac,     \* a cleared MAC
  MaxTime    \* bound on the clock

ASSUME FdbAssumption ==
  /\ SIZE \in Nat \ {0} /\ TTL \in Nat \ {0} /\ MaxTime \in Nat
  /\ Own \subseteq Keys

VARIABLES
  s_fdb,    \* the table
  clock,    \* now_secs()
  busy,     \* an insertion is in progress
  ins,      \* its key, its MAC and the time it read
  learned   \* history: per key, the MAC and the time of its last insertion

vars == <<s_fdb, clock, busy, ins, learned>>

Index == 1..SIZE
Entry == [key : Keys \cup {NoKey}, mac : Macs \cup {NoMac}, expires : Nat]
Cleared == [i \in Index |-> [key |-> NoKey, mac |-> NoMac, expires |-> 0]]
NoInsert == [key |-> NoKey, mac |-> NoMac, now |-> 0]

-----------------------------------------------------------------------------
(* The scan of the table inside the critical section.                       *)

Holding(T, k) == {i \in Index : T[i].key = k}
Unused(T, now) == {i \in Index : T[i].key = NoKey \/ T[i].expires =< now}
Oldest(T) == {i \in Index : \A j \in Index : T[i].expires =< T[j].expires}

\* Faulty variant: a free entry is taken before the table is searched to its end.
PlaceFirstFree(T, k, now) ==
  Min(Unused(T, now) \cup Holding(T, k) \cup
      IF Unused(T, now) = {} THEN Oldest(T) ELSE {})

\* Faulty variant: the first entry is replaced when none is unused.
PlaceFirst(T, k, now) ==
  IF Holding(T, k) # {} THEN Min(Holding(T, k))
  ELSE IF Unused(T, now) # {} THEN Min(Unused(T, now)) ELSE 1

\* Where a key goes: the entry that holds it, else the first unused one, else
\* the first of those that expire soonest.
Place(T, k, now) ==
  IF Holding(T, k) # {} THEN Min(Holding(T, k))
  ELSE IF Unused(T, now) # {} THEN Min(Unused(T, now))
  ELSE Min(Oldest(T))

\* Faulty variant: the lifetime is written to the oldest entry.
InsertOldest(T, k, m, now) ==
  LET p == Place(T, k, now)
  IN [[T EXCEPT ![p].key = k, ![p].mac = m] EXCEPT ![Min(Oldest(T))].expires = now + TTL]

Insert(T, k, m, now) ==
  [T EXCEPT ![Place(T, k, now)] = [key |-> k, mac |-> m, expires |-> now + TTL]]

\* Faulty variant: the lifetime of the entry is not looked at.
LookupAny(T, k, now) == {T[i].mac : i \in Holding(T, k)}

\* The MACs that looking up k at time now can return (at most one).
Lookup(T, k, now) == {T[i].mac : i \in {j \in Holding(T, k) : T[j].expires > now}}

-----------------------------------------------------------------------------
\* Every variable has its type; an insertion in progress has a key and a MAC.
TypeOK ==
  /\ s_fdb \in [Index -> Entry]
  /\ clock \in Nat
  /\ ins \in [key : Keys \cup {NoKey}, mac : Macs \cup {NoMac}, now : Nat]
  /\ busy \in BOOLEAN
  /\ busy => ins.key \in Keys \ Own /\ ins.mac \in Macs
  /\ learned \in [Keys -> [mac : Macs \cup {NoMac}, now : Nat]]

Init ==
  /\ s_fdb = Cleared
  /\ clock = 0
  /\ busy = FALSE /\ ins = NoInsert
  /\ learned = [k \in Keys |-> [mac |-> NoMac, now |-> 0]]

\* fdb_insert, up to the critical section: address 0 and the router's own
\* addresses are dropped, then the clock is read.
StartInsert(k, m) ==
  /\ ~busy /\ busy' = TRUE
  /\ k \in Keys \ Own
  /\ ins' = [key |-> k, mac |-> m, now |-> clock]
  /\ UNCHANGED <<s_fdb, clock, learned>>

\* Faulty variant: refreshing an entry leaves its old MAC.
FinishInsertKeepMac ==
  /\ busy /\ busy' = FALSE
  /\ LET H == Holding(s_fdb, ins.key)
         m == IF H = {} THEN ins.mac ELSE s_fdb[Min(H)].mac
     IN s_fdb' = Insert(s_fdb, ins.key, m, ins.now)
  /\ learned' = [learned EXCEPT ![ins.key] = [mac |-> ins.mac, now |-> ins.now]]
  /\ ins' = NoInsert
  /\ UNCHANGED clock

\* fdb_insert, the critical section.
FinishInsert ==
  /\ busy /\ busy' = FALSE
  /\ s_fdb' = Insert(s_fdb, ins.key, ins.mac, ins.now)
  /\ learned' = [learned EXCEPT ![ins.key] = [mac |-> ins.mac, now |-> ins.now]]
  /\ ins' = NoInsert
  /\ UNCHANGED clock

\* bridge_init and bridge_deinit clear the table.
Clear ==
  /\ s_fdb' = Cleared
  /\ UNCHANGED <<clock, busy, ins, learned>>

Tick ==
  /\ clock < MaxTime
  /\ clock' = clock + 1
  /\ UNCHANGED <<s_fdb, busy, ins, learned>>

Next == \/ \E k \in Keys, m \in Macs : StartInsert(k, m)
        \/ FinishInsert \/ Clear \/ Tick

Spec == Init /\ [][Next]_vars

-----------------------------------------------------------------------------
(* Correctness.                                                             *)

\* No address has two entries, so fdb_lookup, which stops at the first that
\* matches, cannot return a MAC that a later insertion replaced.
UniqueKeys ==
  \A i, j \in Index : s_fdb[i].key = s_fdb[j].key /\ s_fdb[i].key # NoKey => i = j

\* An entry holds what was last learned about its address, MAC and lifetime:
\* a client that moves to another MAC is never reached at the old one.
EntriesAreLatest ==
  \A i \in Index : s_fdb[i].key # NoKey =>
     LET last == learned[s_fdb[i].key]
     IN s_fdb[i].mac = last.mac /\ s_fdb[i].expires = last.now + TTL

\* No address is found longer than TTL after it was last learned.
NothingOutlivesTTL ==
  \A k \in Keys : Lookup(s_fdb, k, clock) # {} => clock < learned[k].now + TTL

\* What looking each address of table T up returns at time now, or NoMac.
Found(T, now) ==
  [k \in Keys |-> IF Lookup(T, k, now) = {} THEN NoMac
                  ELSE CHOOSE m \in Lookup(T, k, now) : TRUE]

\* However insertions, the clock, evictions and clearing interleave, the table
\* is to those who look addresses up what LearningTable promises: an address
\* has the MAC last learned for it or none, one that was forgotten does not
\* come back, and learning one changes no other into anything but unknown.
Table == INSTANCE LearningTable WITH Key <- Keys, Value <- Macs, None <- NoMac,
                                       table <- Found(s_fdb, clock)
TableSpec == Table!TableSpec

\* Learning an address forgets another, live, one only when every entry is
\* live, and then the one that would have expired first.  (The transaction id
\* 0 is not protected: its entry always counts as unused.)
EvictsOnlyOldest ==
  [][\A i \in Index :
       /\ busy /\ ~busy'
       /\ s_fdb[i].key \notin {NoKey, ins.key} /\ s_fdb[i].expires > ins.now
       /\ s_fdb'[i].key = ins.key
       => \A j \in Index : /\ s_fdb[j].key # NoKey
                           /\ s_fdb[j].expires >= s_fdb[i].expires]_vars
=============================================================================
