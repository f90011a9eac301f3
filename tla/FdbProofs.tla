------------------------------ MODULE FdbProofs ------------------------------
(***************************************************************************)
(* Proofs about Fdb, for tables of every size, every lifetime and every    *)
(* set of keys.                                                            *)
(***************************************************************************)
EXTENDS Fdb, WellFoundedInduction, TLAPS

\* The least element of a nonempty set of natural numbers is a member of the
\* set: the entry that the scan takes is one of those it looked for.
LEMMA MinIsMember ==
  ASSUME NEW S \in SUBSET Nat, S # {}
  PROVE  /\ Min(S) \in S
         /\ \A n \in S : Min(S) =< n
<1> DEFINE R == OpToRel(<, Nat)
<1>1. \E m \in S : \A n \in S : ~ (<<n, m>> \in R)
  BY NatLessThanWellFounded, WFMin
<1>2. PICK m \in S : \A n \in S : ~ (<<n, m>> \in R)
  BY <1>1
<1>3. \A n \in S : m =< n
  <2> TAKE n \in S
  <2>1. ~ (n < m)  BY <1>2 DEF OpToRel
  <2> QED BY <2>1
<1> QED BY <1>3 DEF Min

-----------------------------------------------------------------------------
(* Where a key goes.                                                        *)

\* Some entry is the first to expire, so the scan of a full table finds a victim.
LEMMA OldestExists ==
  ASSUME NEW T \in [Index -> Entry]
  PROVE  Oldest(T) # {}
<1> DEFINE E == {T[i].expires : i \in Index}
<1>1. 1 \in Index
  BY FdbAssumption DEF Index
<1>2. E \in SUBSET Nat /\ E # {}
  BY <1>1 DEF Entry
<1>3. Min(E) \in E /\ \A n \in E : Min(E) =< n
  BY <1>2, MinIsMember
<1>4. PICK i \in Index : T[i].expires = Min(E)
  BY <1>3
<1>5. \A j \in Index : T[i].expires =< T[j].expires
  BY <1>3, <1>4
<1> QED BY <1>4, <1>5 DEF Oldest

\* A key goes to an entry of the table: the one that holds it, or else one that
\* is unused, or else the oldest.
LEMMA PlaceIsEntry ==
  ASSUME NEW T \in [Index -> Entry], NEW k \in Keys, NEW now \in Nat
  PROVE  /\ Place(T, k, now) \in Index
         /\ Holding(T, k) # {} => Place(T, k, now) \in Holding(T, k)
<1>1. Index \subseteq Nat
  BY FdbAssumption DEF Index
<1>2. \A S \in SUBSET Index : S # {} => Min(S) \in S
  BY <1>1, MinIsMember
<1>3. Holding(T, k) \subseteq Index /\ Unused(T, now) \subseteq Index /\ Oldest(T) \subseteq Index
  BY DEF Holding, Unused, Oldest
<1> QED BY <1>2, <1>3, OldestExists DEF Place

-----------------------------------------------------------------------------
(* Type correctness.                                                        *)

\* An entry that is written has the type of an entry.
LEMMA InsertType ==
  ASSUME NEW T \in [Index -> Entry], NEW k \in Keys, NEW m \in Macs, NEW now \in Nat
  PROVE  Insert(T, k, m, now) \in [Index -> Entry]
<1> DEFINE e == [key |-> k, mac |-> m, expires |-> now + TTL]
<1>1. now + TTL \in Nat
  BY FdbAssumption
<1>2. e \in Entry
  BY <1>1 DEF Entry
<1>3. Insert(T, k, m, now) = [T EXCEPT ![Place(T, k, now)] = e]
  BY DEF Insert
<1> HIDE DEF e
<1> QED BY <1>2, <1>3

\* No step breaks a type.
LEMMA NextType == TypeOK /\ [Next]_vars => TypeOK'
<1> SUFFICES ASSUME TypeOK, [Next]_vars PROVE TypeOK'
  OBVIOUS
<1> USE FdbAssumption DEF TypeOK
<1>1. CASE UNCHANGED vars
  BY <1>1 DEF vars
<1>2. ASSUME NEW k \in Keys, NEW m \in Macs, StartInsert(k, m) PROVE TypeOK'
  BY <1>2 DEF StartInsert
<1>3. CASE FinishInsert
  <2>1. ins.key \in Keys /\ ins.mac \in Macs /\ ins.now \in Nat
    BY <1>3 DEF FinishInsert
  <2>2. s_fdb' \in [Index -> Entry]
    BY <1>3, <2>1, InsertType DEF FinishInsert
  <2> QED BY <1>3, <2>1, <2>2 DEF FinishInsert, NoInsert
<1>4. CASE Clear
  BY <1>4 DEF Clear, Cleared, Entry
<1>5. CASE Tick
  BY <1>5 DEF Tick
<1> QED BY <1>1, <1>2, <1>3, <1>4, <1>5 DEF Next

\* Every variable keeps its type: whatever the table holds, an insertion ends
\* in one of its entries, and an address of the router is never being inserted.
THEOREM TypeCorrect == Spec => []TypeOK
<1>1. Init => TypeOK
  <2> SUFFICES ASSUME Init PROVE TypeOK
    OBVIOUS
  <2>1. s_fdb \in [Index -> Entry]
    BY DEF Init, Cleared, Entry
  <2>2. /\ clock \in Nat /\ busy = FALSE
        /\ ins \in [key : Keys \cup {NoKey}, mac : Macs \cup {NoMac}, now : Nat]
    BY DEF Init, NoInsert
  <2>3. learned \in [Keys -> [mac : Macs \cup {NoMac}, now : Nat]]
    BY DEF Init
  <2> QED BY <2>1, <2>2, <2>3 DEF TypeOK
<1> QED BY <1>1, NextType, PTL DEF Spec

-----------------------------------------------------------------------------
(* One entry per key, and the latest.                                       *)

\* No step gives a key a second entry: an insertion searches the whole table
\* for the key before it takes another entry.
LEMMA UniqueStep == TypeOK /\ UniqueKeys /\ [Next]_vars => UniqueKeys'
<1> SUFFICES ASSUME TypeOK, UniqueKeys, [Next]_vars PROVE UniqueKeys'
  OBVIOUS
<1>1. CASE UNCHANGED s_fdb
  BY <1>1 DEF UniqueKeys
<1>2. CASE FinishInsert
  <2> DEFINE p == Place(s_fdb, ins.key, ins.now)
             e == [key |-> ins.key, mac |-> ins.mac, expires |-> ins.now + TTL]
  <2>1. s_fdb \in [Index -> Entry] /\ ins.key \in Keys /\ ins.now \in Nat
    BY <1>2 DEF FinishInsert, TypeOK
  <2>2. p \in Index /\ (Holding(s_fdb, ins.key) # {} => p \in Holding(s_fdb, ins.key))
    BY <2>1, PlaceIsEntry
  <2>3. s_fdb' = [s_fdb EXCEPT ![p] = e]
    BY <1>2 DEF FinishInsert, Insert
  <2> HIDE DEF p
  <2>4. ASSUME NEW i \in Index, i # p, ins.key # NoKey PROVE s_fdb[i].key # ins.key
    <3>1. SUFFICES ASSUME s_fdb[i].key = ins.key PROVE FALSE
      OBVIOUS
    <3>2. i \in Holding(s_fdb, ins.key)
      BY <3>1 DEF Holding
    <3>3. s_fdb[p].key = ins.key
      BY <2>2, <3>2 DEF Holding
    <3> QED BY <2>2, <2>4, <3>1, <3>3 DEF UniqueKeys
  <2>5. ASSUME NEW i \in Index PROVE s_fdb'[i].key = IF i = p THEN ins.key ELSE s_fdb[i].key
    BY <2>1, <2>2, <2>3
  <2> QED BY <2>2, <2>4, <2>5 DEF UniqueKeys
<1>3. CASE Clear
  BY <1>3 DEF Clear, Cleared, UniqueKeys
<1> QED BY <1>1, <1>2, <1>3 DEF Next, vars, StartInsert, Tick

\* No address ever has two entries, however many there are and however they
\* are refreshed, expire, are evicted and are cleared.
THEOREM KeysAreUnique == Spec => []UniqueKeys
<1>1. Init => UniqueKeys
  BY DEF Init, UniqueKeys, Cleared
<1> QED BY <1>1, UniqueStep, TypeCorrect, PTL DEF Spec

\* No step leaves an entry behind that is not the latest of its key: the entry
\* of a key that is learned again is overwritten, since it is the only one.
LEMMA LatestStep ==
  TypeOK /\ UniqueKeys' /\ EntriesAreLatest /\ [Next]_vars => EntriesAreLatest'
<1> SUFFICES ASSUME TypeOK, UniqueKeys', EntriesAreLatest, [Next]_vars PROVE EntriesAreLatest'
  OBVIOUS
<1>1. CASE UNCHANGED <<s_fdb, learned>>
  BY <1>1 DEF EntriesAreLatest
<1>2. CASE FinishInsert
  <2> DEFINE p == Place(s_fdb, ins.key, ins.now)
             e == [key |-> ins.key, mac |-> ins.mac, expires |-> ins.now + TTL]
             l == [mac |-> ins.mac, now |-> ins.now]
  <2>1. s_fdb \in [Index -> Entry] /\ ins.key \in Keys /\ ins.now \in Nat
    BY <1>2 DEF FinishInsert, TypeOK
  <2>2. p \in Index
    BY <2>1, PlaceIsEntry
  <2>3. s_fdb' = [s_fdb EXCEPT ![p] = e] /\ learned' = [learned EXCEPT ![ins.key] = l]
    BY <1>2 DEF FinishInsert, Insert
  <2> HIDE DEF p
  <2>4. SUFFICES ASSUME NEW i \in Index, s_fdb'[i].key # NoKey
                 PROVE  /\ s_fdb'[i].mac = learned'[s_fdb'[i].key].mac
                        /\ s_fdb'[i].expires = learned'[s_fdb'[i].key].now + TTL
    BY DEF EntriesAreLatest
  <2>5. s_fdb'[p] = e
    BY <2>1, <2>2, <2>3
  <2>6. learned'[ins.key] = l
    BY <2>1, <2>3 DEF TypeOK
  <2>7. CASE i = p
    BY <2>5, <2>6, <2>7
  <2>8. CASE i # p
    <3>1. s_fdb'[i] = s_fdb[i]
      BY <2>1, <2>2, <2>3, <2>8
    <3>2. s_fdb[i].key # ins.key
      BY <2>2, <2>4, <2>5, <2>8, <3>1 DEF UniqueKeys
    <3>3. learned'[s_fdb[i].key] = learned[s_fdb[i].key]
      <4>1. s_fdb[i].key \in Keys
        BY <2>1, <2>4, <3>1 DEF Entry
      <4> QED BY <2>3, <3>2, <4>1 DEF TypeOK
    <3> QED BY <2>4, <3>1, <3>3 DEF EntriesAreLatest
  <2> QED BY <2>7, <2>8
<1>3. CASE Clear
  BY <1>3 DEF Clear, Cleared, EntriesAreLatest
<1> QED BY <1>1, <1>2, <1>3 DEF Next, vars, StartInsert, Tick

\* Every entry holds what was last learned about its address.
THEOREM LatestHeld == Spec => []EntriesAreLatest
<1>1. Init => EntriesAreLatest
  BY DEF Init, EntriesAreLatest, Cleared
<1> QED BY <1>1, LatestStep, TypeCorrect, KeysAreUnique, PTL DEF Spec

-----------------------------------------------------------------------------
(* The lifetime of an entry.  Where 0 is a key of its own (a transaction    *)
(* id), several entries can hold it and EntriesAreLatest says nothing of    *)
(* them; that time does not go back bounds them all the same.               *)

\* The clock is read before the critical section, but no insertion overtakes
\* another: what is being inserted was read after all that was inserted.
InOrder ==
  /\ busy => ins.now =< clock
  /\ \A k \in Keys : learned[k].now =< (IF busy THEN ins.now ELSE clock)

\* No entry outlives the last insertion of its key.
NoneLate ==
  \A i \in Index :
     s_fdb[i].key \in Keys => s_fdb[i].expires =< learned[s_fdb[i].key].now + TTL

\* No step takes time back or extends an entry beyond its lifetime.
LEMMA AgeStep ==
  TypeOK /\ InOrder /\ NoneLate /\ [Next]_vars => InOrder' /\ NoneLate'
<1> SUFFICES ASSUME TypeOK, InOrder, NoneLate, [Next]_vars PROVE InOrder' /\ NoneLate'
  OBVIOUS
<1>1. CASE UNCHANGED vars
  BY <1>1 DEF vars, InOrder, NoneLate
<1>2. ASSUME NEW k \in Keys, NEW m \in Macs, StartInsert(k, m) PROVE InOrder' /\ NoneLate'
  BY <1>2 DEF StartInsert, TypeOK, InOrder, NoneLate
<1>3. CASE FinishInsert
  <2> DEFINE p == Place(s_fdb, ins.key, ins.now)
             e == [key |-> ins.key, mac |-> ins.mac, expires |-> ins.now + TTL]
             l == [mac |-> ins.mac, now |-> ins.now]
  <2>1. /\ busy /\ ~busy' /\ clock' = clock /\ clock \in Nat
        /\ s_fdb \in [Index -> Entry] /\ ins.key \in Keys /\ ins.now \in Nat
    BY <1>3 DEF FinishInsert, TypeOK
  <2>2. s_fdb' = [s_fdb EXCEPT ![p] = e] /\ learned' = [learned EXCEPT ![ins.key] = l]
    BY <1>3 DEF FinishInsert, Insert
  <2>3. \A k \in Keys : learned'[k] = IF k = ins.key THEN l ELSE learned[k]
    BY <2>2 DEF TypeOK
  <2>4. \A k \in Keys : learned[k].now \in Nat
    BY DEF TypeOK
  <2>5. \A k \in Keys : learned[k].now =< ins.now /\ ins.now =< clock
    BY <2>1 DEF InOrder
  <2>6. InOrder'
    <3>1. \A k \in Keys : learned'[k].now =< clock'
      BY <2>1, <2>3, <2>4, <2>5
    <3> QED BY <2>1, <3>1 DEF InOrder
  <2> HIDE DEF p
  <2>7. ASSUME NEW i \in Index, s_fdb'[i].key \in Keys
        PROVE  s_fdb'[i].expires =< learned'[s_fdb'[i].key].now + TTL
    <3>1. CASE i = p
      <4>1. s_fdb'[i] = e
        BY <2>1, <2>2, <3>1
      <4>2. s_fdb'[i].key = ins.key /\ s_fdb'[i].expires = ins.now + TTL
        BY <4>1
      <4>3. learned'[ins.key].now = ins.now
        BY <2>1, <2>3
      <4> QED BY <2>1, <4>2, <4>3, FdbAssumption
    <3>2. CASE i # p
      <4> DEFINE k == s_fdb[i].key
      <4>1. s_fdb'[i] = s_fdb[i] /\ k \in Keys /\ s_fdb[i].expires \in Nat
        BY <2>1, <2>2, <2>7, <3>2 DEF Entry
      <4>2. s_fdb[i].expires =< learned[k].now + TTL
        BY <4>1 DEF NoneLate
      <4> HIDE DEF k
      <4>3. learned[k].now =< learned'[k].now /\ learned'[k].now \in Nat
        BY <2>1, <2>3, <2>4, <2>5, <4>1
      <4>4. s_fdb[i].expires =< learned'[k].now + TTL
        BY <2>4, <4>1, <4>2, <4>3, FdbAssumption
      <4> QED BY <4>1, <4>4 DEF k
    <3> QED BY <3>1, <3>2
  <2> QED BY <2>6, <2>7 DEF NoneLate
<1>4. CASE Clear
  <2>1. InOrder'
    BY <1>4 DEF Clear, InOrder
  <2>2. \A k \in Keys : learned'[k].now \in Nat
    BY <1>4 DEF Clear, TypeOK
  <2>3. \A i \in Index : s_fdb'[i].expires = 0
    BY <1>4 DEF Clear, Cleared
  <2> QED BY <2>1, <2>2, <2>3, FdbAssumption DEF NoneLate
<1>5. CASE Tick
  BY <1>5 DEF Tick, TypeOK, InOrder, NoneLate
<1> QED BY <1>1, <1>2, <1>3, <1>4, <1>5 DEF Next

\* What can be found is younger than TTL, 0 as a key included.
LEMMA FoundIsYoung == TypeOK /\ NoneLate => NothingOutlivesTTL
<1> SUFFICES ASSUME TypeOK, NoneLate, NEW k \in Keys, Lookup(s_fdb, k, clock) # {}
             PROVE  clock < learned[k].now + TTL
  BY DEF NothingOutlivesTTL
<1>1. PICK i \in Index : s_fdb[i].key = k /\ s_fdb[i].expires > clock
  BY DEF Lookup, Holding
<1>2. s_fdb[i].expires =< learned[k].now + TTL
  BY <1>1 DEF NoneLate
<1>3. learned[k].now \in Nat /\ s_fdb[i].expires \in Nat /\ clock \in Nat
  BY DEF TypeOK, Entry
<1> QED BY <1>1, <1>2, <1>3, FdbAssumption

\* No address and no transaction id is found longer than TTL after it was last
\* learned, however an insertion and the clock interleave.
THEOREM NothingOutlives == Spec => []NothingOutlivesTTL
<1>1. Init => InOrder /\ NoneLate
  <2> SUFFICES ASSUME Init PROVE InOrder /\ NoneLate
    OBVIOUS
  <2>1. /\ clock = 0 /\ busy = FALSE
        /\ \A k \in Keys : learned[k].now = 0
        /\ \A i \in Index : s_fdb[i].expires = 0
    BY DEF Init, Cleared
  <2> QED BY <2>1, FdbAssumption DEF InOrder, NoneLate
<1> QED BY <1>1, AgeStep, FoundIsYoung, TypeCorrect, PTL DEF Spec

-----------------------------------------------------------------------------
(* Fdb implements LearningTable.  What looking a key up returns must not     *)
(* depend on which entry is found first, also for the key 0, which cleared   *)
(* entries seem to hold: of the entries with one key only the first is live. *)

FirstAlive ==
  \A i, j \in Index : s_fdb[i].key = s_fdb[j].key /\ i < j => s_fdb[j].expires = 0

\* No step makes a second entry of a key live: a key goes to the first entry
\* that holds it.
LEMMA FirstStep ==
  TypeOK /\ UniqueKeys' /\ FirstAlive /\ [Next]_vars => FirstAlive'
<1> SUFFICES ASSUME TypeOK, UniqueKeys', FirstAlive, [Next]_vars PROVE FirstAlive'
  OBVIOUS
<1>1. CASE UNCHANGED s_fdb
  BY <1>1 DEF FirstAlive
<1>2. CASE FinishInsert
  <2> DEFINE H == Holding(s_fdb, ins.key)
             p == Place(s_fdb, ins.key, ins.now)
             e == [key |-> ins.key, mac |-> ins.mac, expires |-> ins.now + TTL]
  <2>1. s_fdb \in [Index -> Entry] /\ ins.key \in Keys /\ ins.now \in Nat
    BY <1>2 DEF FinishInsert, TypeOK
  <2>2. p \in Index
    BY <2>1, PlaceIsEntry
  <2>3. \A h \in H : p =< h
    <3>1. H \subseteq Nat
      BY FdbAssumption DEF Holding, Index
    <3>2. CASE H # {}
      <4>1. p = Min(H)
        BY <3>2 DEF Place
      <4> HIDE DEF H, p
      <4> QED BY <3>1, <3>2, <4>1, MinIsMember
    <3> QED BY <3>2
  <2>4. s_fdb' = [s_fdb EXCEPT ![p] = e]
    BY <1>2 DEF FinishInsert, Insert
  <2> HIDE DEF p
  <2>5. SUFFICES ASSUME NEW i \in Index, NEW j \in Index,
                        s_fdb'[i].key = s_fdb'[j].key, i < j
                 PROVE  s_fdb'[j].expires = 0
    BY DEF FirstAlive
  <2>6. \A h \in Index \ {p} : s_fdb'[h] = s_fdb[h]
    BY <2>1, <2>2, <2>4
  <2>7. s_fdb'[p].key = ins.key
    BY <2>1, <2>2, <2>4
  <2>8. CASE i # p /\ j # p
    BY <2>5, <2>6, <2>8 DEF FirstAlive
  <2>9. CASE j = p
    <3>1. i \in H /\ i \in Nat /\ p \in Nat
      BY <2>2, <2>5, <2>6, <2>7, <2>9, FdbAssumption DEF Holding, Index
    <3> QED BY <2>3, <2>5, <2>9, <3>1
  <2>10. CASE i = p /\ j # p
    <3>1. j \in H /\ s_fdb'[j] = s_fdb[j]
      BY <2>5, <2>6, <2>7, <2>10 DEF Holding
    <3>2. PICK h \in H : h = p
      <4>1. H # {}
        BY <3>1
      <4> QED BY <2>1, <4>1, PlaceIsEntry DEF p
    <3>3. s_fdb[p].key = s_fdb[j].key
      BY <3>1, <3>2 DEF Holding
    <3> QED BY <2>2, <2>5, <2>10, <3>1, <3>3 DEF FirstAlive
  <2> QED BY <2>8, <2>9, <2>10
<1>3. CASE Clear
  BY <1>3 DEF Clear, Cleared, FirstAlive
<1> QED BY <1>1, <1>2, <1>3 DEF Next, vars, StartInsert, Tick

\* The entries of table T in which k is found at time now.
Live(T, k, now) == {i \in Holding(T, k) : T[i].expires > now}

OneLive(T) ==
  \A i, j \in Index : T[i].key = T[j].key /\ T[i].expires > 0 /\ T[j].expires > 0 => i = j

\* That only the first is live leaves one.
LEMMA FirstIsOnly == FirstAlive => OneLive(s_fdb)
<1> SUFFICES ASSUME FirstAlive, NEW i \in Index, NEW j \in Index,
                    s_fdb[i].key = s_fdb[j].key, s_fdb[i].expires > 0, s_fdb[j].expires > 0
             PROVE  i = j
  BY DEF OneLive
<1>1. i \in Nat /\ j \in Nat
  BY FdbAssumption DEF Index
<1>2. ~(i < j) /\ ~(j < i)
  BY DEF FirstAlive
<1> QED BY <1>1, <1>2

\* A lookup finds the MAC of the live entry of its key, and nothing without one.
LEMMA FoundIsLive ==
  ASSUME NEW T \in [Index -> Entry], NEW now \in Nat, OneLive(T), NEW k \in Keys
  PROVE  /\ Live(T, k, now) = {} => Found(T, now)[k] = NoMac
         /\ \A i \in Live(T, k, now) : Found(T, now)[k] = T[i].mac
<1> DEFINE L == Lookup(T, k, now)
<1>1. L = {T[i].mac : i \in Live(T, k, now)}
  BY DEF Lookup, Live
<1>2. Found(T, now)[k] = IF L = {} THEN NoMac ELSE CHOOSE m \in L : TRUE
  BY DEF Found
<1>3. CASE Live(T, k, now) = {}
  BY <1>1, <1>2, <1>3
<1>4. ASSUME NEW i \in Live(T, k, now) PROVE Found(T, now)[k] = T[i].mac
  <2>1. \A j \in Live(T, k, now) : j = i
    <3> SUFFICES ASSUME NEW j \in Live(T, k, now) PROVE j = i
      OBVIOUS
    <3>1. /\ i \in Index /\ j \in Index /\ T[i].key = k /\ T[j].key = k
          /\ T[i].expires > now /\ T[j].expires > now
      BY DEF Live, Holding
    <3>2. T[i].expires \in Nat /\ T[j].expires \in Nat
      BY <3>1 DEF Entry
    <3>3. T[i].expires > 0 /\ T[j].expires > 0
      BY <3>1, <3>2
    <3> QED BY <3>1, <3>3 DEF OneLive
  <2>2. L = {T[i].mac}
    BY <1>1, <2>1
  <2> QED BY <1>2, <2>2
<1> QED BY <1>3, <1>4

\* An insertion is a lesson, or, when time has passed over it, a loss.
LEMMA FinishStep ==
  TypeOK /\ TypeOK' /\ FirstAlive /\ FirstAlive' /\ FinishInsert => Table!TableNext
<1> SUFFICES ASSUME TypeOK, TypeOK', FirstAlive, FirstAlive', FinishInsert
             PROVE  Table!TableNext
  OBVIOUS
<1> DEFINE k == ins.key
           m == ins.mac
           p == Place(s_fdb, k, ins.now)
           e == [key |-> k, mac |-> m, expires |-> ins.now + TTL]
           old == Found(s_fdb, clock)
           new == Found(s_fdb', clock')
           lost == s_fdb[p].key
<1>1. /\ s_fdb \in [Index -> Entry] /\ s_fdb' \in [Index -> Entry]
      /\ clock \in Nat /\ clock' = clock
      /\ k \in Keys /\ m \in Macs /\ ins.now \in Nat
  BY DEF FinishInsert, TypeOK
<1>2. OneLive(s_fdb) /\ OneLive(s_fdb')
  <2>1. FirstAlive' => OneLive(s_fdb')
    <3> SUFFICES ASSUME FirstAlive', NEW i \in Index, NEW j \in Index,
                        s_fdb'[i].key = s_fdb'[j].key, s_fdb'[i].expires > 0, s_fdb'[j].expires > 0
                 PROVE  i = j
      BY DEF OneLive
    <3>1. i \in Nat /\ j \in Nat
      BY FdbAssumption DEF Index
    <3>2. ~(i < j) /\ ~(j < i)
      BY DEF FirstAlive
    <3> QED BY <3>1, <3>2
  <2> QED BY <2>1, FirstIsOnly
<1>3. p \in Index
  BY <1>1, PlaceIsEntry
<1>4. s_fdb' = [s_fdb EXCEPT ![p] = e]
  BY DEF FinishInsert, Insert
<1> HIDE DEF p
<1>5. s_fdb'[p] = e /\ \A i \in Index \ {p} : s_fdb'[i] = s_fdb[i]
  BY <1>1, <1>3, <1>4
<1>6. ASSUME NEW j \in Keys, j # k
      PROVE  new[j] = IF j = lost /\ p \in Live(s_fdb, j, clock) THEN NoMac ELSE old[j]
  <2>1. Live(s_fdb', j, clock) = Live(s_fdb, j, clock) \ {p}
    BY <1>3, <1>5, <1>6 DEF Live, Holding
  <2>2. CASE p \in Live(s_fdb, j, clock)
    <3>1. j = lost
      BY <2>2 DEF Live, Holding
    <3>2. \A i \in Live(s_fdb, j, clock) : i = p
      <4> SUFFICES ASSUME NEW i \in Live(s_fdb, j, clock) PROVE i = p
        OBVIOUS
      <4>1. /\ i \in Index /\ s_fdb[i].key = j /\ s_fdb[p].key = j
            /\ s_fdb[i].expires > clock /\ s_fdb[p].expires > clock
        BY <2>2 DEF Live, Holding
      <4>2. s_fdb[i].expires \in Nat /\ s_fdb[p].expires \in Nat
        BY <1>1, <1>3, <4>1 DEF Entry
      <4>3. s_fdb[i].expires > 0 /\ s_fdb[p].expires > 0
        BY <1>1, <4>1, <4>2
      <4> QED BY <1>2, <1>3, <4>1, <4>3 DEF OneLive
    <3>3. Live(s_fdb', j, clock) = {}
      BY <2>1, <3>2
    <3> QED BY <1>1, <1>2, <2>2, <3>1, <3>3, FoundIsLive
  <2>3. CASE p \notin Live(s_fdb, j, clock)
    <3>1. Live(s_fdb', j, clock) = Live(s_fdb, j, clock) /\ p \notin Live(s_fdb', j, clock)
      BY <2>1, <2>3
    <3>2. CASE Live(s_fdb, j, clock) = {}
      <4>1. new[j] = NoMac /\ old[j] = NoMac
        BY <1>1, <1>2, <3>1, <3>2, FoundIsLive
      <4> QED BY <2>3, <4>1
    <3>3. CASE Live(s_fdb, j, clock) # {}
      <4>1. PICK i \in Live(s_fdb, j, clock) : TRUE
        BY <3>3
      <4>2. i \in Index /\ s_fdb'[i] = s_fdb[i]
        BY <1>5, <2>3, <4>1 DEF Live, Holding
      <4>3. old[j] = s_fdb[i].mac
        BY <1>1, <1>2, <4>1, FoundIsLive
      <4>4. new[j] = s_fdb'[i].mac
        BY <1>1, <1>2, <3>1, <4>1, FoundIsLive
      <4> QED BY <2>3, <4>2, <4>3, <4>4
    <3> QED BY <3>2, <3>3
  <2> QED BY <2>2, <2>3
<1>7. new[k] = IF ins.now + TTL > clock THEN m ELSE NoMac
  <2>1. CASE ins.now + TTL > clock
    <3>1. p \in Live(s_fdb', k, clock)
      BY <1>3, <1>5, <2>1 DEF Live, Holding
    <3>2. new[k] = s_fdb'[p].mac
      BY <1>1, <1>2, <3>1, FoundIsLive
    <3> QED BY <1>5, <2>1, <3>2
  <2>2. CASE ~(ins.now + TTL > clock)
    <3>1. ASSUME NEW i \in Live(s_fdb', k, clock) PROVE FALSE
      <4>1. i \in Index /\ s_fdb'[i].key = k /\ s_fdb'[i].expires > clock
        BY <3>1 DEF Live, Holding
      <4>2. s_fdb'[i].expires \in Nat /\ s_fdb'[i].expires > 0
        BY <1>1, <4>1 DEF Entry
      <4>3. s_fdb'[p].key = k /\ s_fdb'[p].expires = ins.now + TTL /\ ins.now + TTL > 0
        BY <1>1, <1>5, FdbAssumption
      <4>4. i = p
        BY <1>2, <1>3, <4>1, <4>2, <4>3 DEF OneLive
      <4> QED BY <2>2, <4>1, <4>3, <4>4
    <3>2. Live(s_fdb', k, clock) = {}
      BY <3>1
    <3> QED BY <1>1, <1>2, <2>2, <3>2, FoundIsLive
  <2> QED BY <2>1, <2>2
<1>8. /\ old \in [Keys -> {old[j] : j \in Keys}] /\ DOMAIN old = Keys
      /\ new = [j \in Keys |-> new[j]]
  BY DEF Found
<1>9. CASE ins.now + TTL > clock /\ lost \in Keys /\ lost # k /\ p \in Live(s_fdb, lost, clock)
  <2>1. \A j \in Keys : new[j] = IF j = lost THEN NoMac ELSE IF j = k THEN m ELSE old[j]
    BY <1>6, <1>7, <1>9
  <2>2. new = [[old EXCEPT ![k] = m] EXCEPT ![lost] = NoMac]
    <3> HIDE DEF old, new, lost, k, m
    <3> QED BY <1>1, <1>8, <1>9, <2>1
  <2>3. Table!LearnForgetting(k, m, lost)
    BY <1>9, <2>2 DEF Table!LearnForgetting, Table!With
  <2> QED BY <1>1, <1>9, <2>3 DEF Table!TableNext
<1>10. CASE /\ ins.now + TTL > clock
            /\ ~(lost \in Keys /\ lost # k /\ p \in Live(s_fdb, lost, clock))
  <2>1. \A j \in Keys : new[j] = IF j = k THEN m ELSE old[j]
    BY <1>6, <1>7, <1>10
  <2>2. new = [old EXCEPT ![k] = m]
    <3> HIDE DEF old, new, lost, k, m
    <3> QED BY <1>1, <1>8, <2>1
  <2>3. Table!Learn(k, m)
    BY <2>2 DEF Table!Learn, Table!With
  <2> QED BY <1>1, <2>3 DEF Table!TableNext
<1>11. CASE ~(ins.now + TTL > clock)
  <2> DEFINE S == {k} \cup {j \in Keys : j = lost /\ p \in Live(s_fdb, j, clock)}
  <2>1. \A j \in Keys : new[j] = IF j \in S THEN NoMac ELSE old[j]
    BY <1>6, <1>7, <1>11
  <2>2. S \in SUBSET Keys
    BY <1>1
  <2>3. new = [j \in Keys |-> IF j \in S THEN NoMac ELSE old[j]]
    <3> HIDE DEF old, new, S
    <3> QED BY <1>8, <2>1
  <2>4. Table!Forget(S)
    <3> HIDE DEF S
    <3> QED BY <2>3 DEF Table!Forget, Table!Without
  <2> HIDE DEF S
  <2> QED BY <2>2, <2>4 DEF Table!TableNext
<1> QED BY <1>9, <1>10, <1>11

\* A tick forgets what expires.
LEMMA TickStep == TypeOK /\ FirstAlive /\ Tick => Table!TableNext
<1> SUFFICES ASSUME TypeOK, FirstAlive, Tick PROVE Table!TableNext
  OBVIOUS
<1> DEFINE S == {k \in Keys : Live(s_fdb, k, clock + 1) = {}}
           old == Found(s_fdb, clock)
           new == Found(s_fdb', clock')
<1>1. /\ s_fdb \in [Index -> Entry] /\ s_fdb' = s_fdb
      /\ clock \in Nat /\ clock' = clock + 1 /\ clock + 1 \in Nat
  BY DEF Tick, TypeOK
<1>2. OneLive(s_fdb)
  BY FirstIsOnly
<1>3. ASSUME NEW k \in Keys PROVE new[k] = IF k \in S THEN NoMac ELSE old[k]
  <2>1. CASE k \in S
    BY <1>1, <1>2, <2>1, FoundIsLive
  <2>2. CASE k \notin S
    <3>1. PICK i \in Live(s_fdb, k, clock + 1) : TRUE
      BY <2>2
    <3>2. i \in Live(s_fdb, k, clock)
      <4>1. i \in Index /\ s_fdb[i].expires \in Nat
        BY <1>1, <3>1 DEF Live, Holding, Entry
      <4> QED BY <1>1, <3>1, <4>1 DEF Live
    <3>3. old[k] = s_fdb[i].mac /\ new[k] = s_fdb[i].mac
      BY <1>1, <1>2, <3>1, <3>2, FoundIsLive
    <3> QED BY <2>2, <3>3
  <2> QED BY <2>1, <2>2
<1>4. new = [k \in Keys |-> new[k]]
  BY DEF Found
<1>5. new = [k \in Keys |-> IF k \in S THEN NoMac ELSE old[k]]
  <2> HIDE DEF old, new, S
  <2> QED BY <1>3, <1>4
<1>6. Table!Forget(S)
  <2> HIDE DEF S
  <2> QED BY <1>5 DEF Table!Forget, Table!Without
<1> QED BY <1>6 DEF Table!TableNext

\* Nothing is found in a table in which every entry has expired.
LEMMA NoneFound ==
  ASSUME NEW now \in Nat
  PROVE  Found(Cleared, now) = [k \in Keys |-> NoMac]
<1> SUFFICES ASSUME NEW k \in Keys PROVE Lookup(Cleared, k, now) = {}
  BY DEF Found
<1> QED BY DEF Lookup, Holding, Cleared

\* Whatever the size of the table, the lifetime and the interleaving of frames,
\* time and clearing, the bridge finds a learning table: see TableSpec.
THEOREM ImplementsTable == Spec => TableSpec
<1>1. Init => FirstAlive /\ Found(s_fdb, clock) = Table!Empty
  <2> SUFFICES ASSUME Init PROVE FirstAlive /\ Found(s_fdb, clock) = Table!Empty
    OBVIOUS
  <2>1. FirstAlive
    BY DEF Init, Cleared, FirstAlive
  <2> QED BY <2>1, NoneFound DEF Init, Table!Empty
<1>2. TypeOK /\ TypeOK' /\ FirstAlive /\ FirstAlive' /\ [Next]_vars
        => [Table!TableNext]_(Found(s_fdb, clock))
  <2> SUFFICES ASSUME TypeOK, TypeOK', FirstAlive, FirstAlive', [Next]_vars
               PROVE  Table!TableNext \/ UNCHANGED Found(s_fdb, clock)
    OBVIOUS
  <2>1. CASE UNCHANGED <<s_fdb, clock>>
    BY <2>1
  <2>2. CASE FinishInsert
    BY <2>2, FinishStep
  <2>3. CASE Tick
    BY <2>3, TickStep
  <2>4. CASE Clear
    <3>1. Found(s_fdb, clock)' = [k \in Keys |-> NoMac]
      BY <2>4, NoneFound DEF Clear, TypeOK
    <3>2. Table!Forget(Keys)
      BY <3>1 DEF Table!Forget, Table!Without
    <3> QED BY <3>2 DEF Table!TableNext
  <2> QED BY <2>1, <2>2, <2>3, <2>4 DEF Next, vars, StartInsert
<1> QED BY <1>1, <1>2, FirstStep, TypeCorrect, KeysAreUnique, PTL DEF Spec, TableSpec, Table!TableSpec

-----------------------------------------------------------------------------
(* Evictions.                                                               *)

\* What one step may forget, as EvictsOnlyOldest says it.
Evicts(i) ==
  /\ busy /\ ~busy'
  /\ s_fdb[i].key \notin {NoKey, ins.key} /\ s_fdb[i].expires > ins.now
  /\ s_fdb'[i].key = ins.key

\* A live entry is taken only when the scan found neither the key nor an entry
\* that is unused, and then it is one of the oldest.
LEMMA EvictionStep ==
  ASSUME TypeOK, [Next]_vars, NEW i \in Index, Evicts(i), NEW j \in Index
  PROVE  s_fdb[j].key # NoKey /\ s_fdb[j].expires >= s_fdb[i].expires
<1> DEFINE p == Place(s_fdb, ins.key, ins.now)
           e == [key |-> ins.key, mac |-> ins.mac, expires |-> ins.now + TTL]
<1>1. FinishInsert
  BY DEF Evicts, Next, vars, StartInsert, Clear, Tick
<1>2. s_fdb \in [Index -> Entry] /\ ins.key \in Keys /\ ins.now \in Nat
  BY <1>1 DEF FinishInsert, TypeOK
<1>3. s_fdb' = [s_fdb EXCEPT ![p] = e]
  BY <1>1 DEF FinishInsert, Insert
<1>4. i = p
  <2> HIDE DEF p
  <2> QED BY <1>2, <1>3 DEF Evicts
<1>5. s_fdb[i].key # NoKey /\ s_fdb[i].key # ins.key /\ s_fdb[i].expires > ins.now
  BY DEF Evicts
<1>6. i \notin Holding(s_fdb, ins.key)
  BY <1>5 DEF Holding
<1>7. Holding(s_fdb, ins.key) = {}
  BY <1>2, <1>4, <1>6, PlaceIsEntry
<1>8. Unused(s_fdb, ins.now) = {}
  <2>1. Unused(s_fdb, ins.now) \in SUBSET Nat
    BY FdbAssumption DEF Unused, Index
  <2>2. i \notin Unused(s_fdb, ins.now)
    <3>1. s_fdb[i].expires \in Nat
      BY <1>2 DEF Entry
    <3> QED BY <1>2, <1>5, <3>1 DEF Unused
  <2>3. Unused(s_fdb, ins.now) # {} => p = Min(Unused(s_fdb, ins.now))
    BY <1>7 DEF Place
  <2> HIDE DEF p
  <2> QED BY <1>4, <2>1, <2>2, <2>3, MinIsMember
<1>9. i \in Oldest(s_fdb)
  <2>1. Oldest(s_fdb) \in SUBSET Nat /\ Oldest(s_fdb) # {}
    BY <1>2, OldestExists, FdbAssumption DEF Oldest, Index
  <2>2. p = Min(Oldest(s_fdb))
    BY <1>7, <1>8 DEF Place
  <2> HIDE DEF p
  <2> QED BY <1>4, <2>1, <2>2, MinIsMember
<1>10. s_fdb[j].key # NoKey
  BY <1>8 DEF Unused
<1>11. s_fdb[i].expires =< s_fdb[j].expires
  BY <1>9 DEF Oldest
<1>12. s_fdb[i].expires \in Nat /\ s_fdb[j].expires \in Nat
  BY <1>2 DEF Entry
<1> QED BY <1>10, <1>11, <1>12

\* Whatever the size of the table, an address that is still valid is forgotten
\* for another only when all are, and the oldest first.
THEOREM OldestGoes == Spec => EvictsOnlyOldest
<1> DEFINE Fair(i, j) == s_fdb[j].key # NoKey /\ s_fdb[j].expires >= s_fdb[i].expires
           A == \A i \in Index : Evicts(i) => \A j \in Index : Fair(i, j)
<1>1. TypeOK /\ [Next]_vars => A
  BY EvictionStep
<1>2. A => \A i \in Index :
       /\ busy /\ ~busy'
       /\ s_fdb[i].key \notin {NoKey, ins.key} /\ s_fdb[i].expires > ins.now
       /\ s_fdb'[i].key = ins.key
       => \A j \in Index : /\ s_fdb[j].key # NoKey
                           /\ s_fdb[j].expires >= s_fdb[i].expires
  BY DEF Evicts
<1> HIDE DEF A
<1> QED BY <1>1, <1>2, TypeCorrect, PTL DEF Spec, EvictsOnlyOldest
=============================================================================
