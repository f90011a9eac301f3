---------------------------- MODULE PortMapProofs ----------------------------
(***************************************************************************)
(* Theorems about PortMap, for every size of the table and every set of    *)
(* keys, destinations and requests.  What becomes of a change, and that it *)
(* is saved, is proved for any number of tasks at once.  That the stored   *)
(* table is the atomic one takes commands that come one at a time          *)
(* (OneAtATime), and what lwIP forwards takes commands and GOT_IP events   *)
(* that do not overlap (InTurn).                                           *)
(***************************************************************************)
EXTENDS PortMap, WellFoundedInduction, TLAPS

-----------------------------------------------------------------------------
(* Minima and maxima of sets of slots.                                      *)

\* The least element of a nonempty set of natural numbers is a member of the
\* set: the first free slot that a scan of a table returns is a free slot.
LEMMA MinIsMember ==
  ASSUME NEW S \in SUBSET Nat, S # {}
  PROVE  /\ Min(S) \in S
         /\ \A n \in S : Min(S) =< n
<1> DEFINE R == OpToRel(<, Nat)
<1>1. \E m \in S : \A n \in S : ~ (<<n, m>> \in R)
  BY NatLessThanWellFounded, WFMin
<1>2. PICK m \in S : \A n \in S : ~ (<<n, m>> \in R)
  BY <1>1
<1>3. \A n \in S : m =< n
  <2> TAKE n \in S
  <2>1. ~ (n < m)  BY <1>2 DEF OpToRel
  <2> QED BY <2>1
<1> QED BY <1>3 DEF Min

\* The greatest element of a nonempty set of slots 1..N is a member of the set.
LEMMA MaxIsMember ==
  ASSUME NEW N \in Nat, NEW S \in SUBSET (1..N), S # {}
  PROVE  /\ Max(S) \in S
         /\ \A n \in S : n =< Max(S)
<1> DEFINE D == {N - n : n \in S}
<1>1. D \in SUBSET Nat /\ D # {}
  <2>1. \A n \in S : N - n \in Nat
    OBVIOUS
  <2> QED BY <2>1
<1>2. Min(D) \in D /\ \A d \in D : Min(D) =< d
  BY <1>1, MinIsMember
<1>3. PICK m \in S : Min(D) = N - m
  BY <1>2
<1>4. \A n \in S : m >= n
  <2> TAKE n \in S
  <2>1. N - m =< N - n  BY <1>2, <1>3
  <2> QED BY <2>1
<1> QED BY <1>4 DEF Max

-----------------------------------------------------------------------------
(* Type correctness.                                                        *)

\* The table that Applied leaves is a NAPT table.
LEMMA AppliedType ==
  ASSUME NEW T \in [Slots -> Entry], NEW ip \in Addrs \cup {NoAddr}
  PROVE  Applied(T, ip) \in [Keys -> Mapping \cup {Unmapped}]
<1> SUFFICES ASSUME NEW k \in Keys
             PROVE  Applied(T, ip)[k] \in Mapping \cup {Unmapped}
  BY DEF Applied
<1> DEFINE S == {s \in Slots : T[s].valid /\ T[s].key = k}
<1>1. CASE S = {}
  BY <1>1 DEF Applied
<1>2. CASE S # {}
  <2>1. Max(S) \in Slots
    BY <1>2, MaxIsMember, ConstantsAssumption DEF Slots
  <2>2. T[Max(S)].dest \in Dests \cup {Zero}
    BY <2>1 DEF Entry
  <2>3. Applied(T, ip)[k] = [maddr |-> ip, dest |-> T[Max(S)].dest]
    BY <1>2 DEF Applied
  <2> QED BY <2>2, <2>3 DEF Mapping
<1> QED BY <1>1, <1>2

\* The cleared table that a restart begins with has slots of the right type.
LEMMA EmptyTabType == EmptyTab \in [Slots -> Entry]
BY DEF EmptyTab, Entry

\* The first boot, with nothing stored, starts well-typed.
LEMMA InitType == Init => TypeOK
BY ConstantsAssumption, EmptyTabType
   DEF Init, TypeOK, Mapping, Slots, PCs

\* Loading the table from flash, and applying it, keeps the types.
LEMMA RestartType == TypeOK /\ Restart => TypeOK'
<1> SUFFICES ASSUME TypeOK, Restart PROVE TypeOK'
  OBVIOUS
<1>1. /\ flash' \in [Slots -> Entry]
      /\ blob' \in [Slots -> Entry]
      /\ tab' \in [Slots -> Entry]
  BY EmptyTabType DEF Restart, TypeOK, LoadedTabs
<1>2. my_ip' \in Addrs \cup {NoAddr} /\ StaticIp \in Addrs \cup {NoAddr}
  BY ConstantsAssumption DEF Restart
<1>3. napt' \in [Keys -> Mapping \cup {Unmapped}]
  BY <1>1, <1>2, AppliedType DEF Restart
<1>4. /\ pc' \in [Tasks -> PCs]
      /\ kind' \in [Tasks -> {"add", "del"}]
      /\ rule' \in [Tasks -> Requests \cup {NoRule}]
      /\ slot' \in [Tasks -> Slots]
      /\ shared' \in [Tasks -> BOOLEAN]
      /\ \A t \in Tasks : pc'[t] = "idle"
  BY ConstantsAssumption DEF Restart, PCs, Slots
<1>5. ev_pc' = "idle" /\ ev_i' \in 1..PORTMAP_MAX + 1 /\ ev_key' = Zero
  BY ConstantsAssumption DEF Restart
<1> QED BY <1>1, <1>2, <1>3, <1>4, <1>5 DEF TypeOK

\* No step of a command breaks a type; add_portmap's slot is one of the table.
LEMMA CommandType ==
  ASSUME TypeOK, NEW t \in Tasks, Command(t)
  PROVE  TypeOK'
<1> USE DEF TypeOK, Goto, PCs, Writing, Saving, args, ev
<1>1. ASSUME NEW k \in {"add", "del"}, NEW r \in Requests, Begin(t, k, r)
      PROVE  TypeOK'
  BY <1>1 DEF Begin
<1>2. CASE ScanAdd(t)
  <2>1. FreeSlots \in SUBSET Nat /\ FreeSlots \subseteq Slots /\ FreeSlots # {}
    BY <1>2, ConstantsAssumption DEF ScanAdd, FreeSlots, Slots
  <2>2. Min(FreeSlots) \in Slots
    BY <2>1, MinIsMember
  <2> QED BY <1>2, <2>2 DEF ScanAdd, Pick
<1>3. CASE Full(t)
  <2>1. CASE t \in AbortOnError  BY <1>3, <2>1, RestartType DEF Full
  <2>2. CASE t \notin AbortOnError  BY <1>3, <2>2 DEF Full
  <2> QED BY <2>1, <2>2
<1>4. CASE WriteKey(t) \/ WriteDest(t) \/ WriteValid(t) \/ WriteInvalid(t)
  <2>1. PICK v \in Entry : tab' = [tab EXCEPT ![slot[t]] = v]
    <3> DEFINE e == tab[slot[t]]
    <3>1. e \in Entry  OBVIOUS
    <3>2. rule[t].key \in Keys /\ rule[t].dest \in Dests
      BY <1>4, ConstantsAssumption
         DEF WriteKey, WriteDest, WriteValid, WriteInvalid
    <3>3. CASE WriteKey(t)
      <4>1. [e EXCEPT !.key = rule[t].key] \in Entry  BY <3>1, <3>2 DEF Entry
      <4> QED BY <4>1, <3>3 DEF WriteKey
    <3>4. CASE WriteDest(t)
      <4>1. [e EXCEPT !.dest = rule[t].dest] \in Entry  BY <3>1, <3>2 DEF Entry
      <4> QED BY <4>1, <3>4 DEF WriteDest
    <3>5. CASE WriteValid(t)
      <4>1. [e EXCEPT !.valid = TRUE] \in Entry  BY <3>1, <3>2 DEF Entry
      <4> QED BY <4>1, <3>5 DEF WriteValid
    <3>6. CASE WriteInvalid(t)
      <4>1. [e EXCEPT !.valid = FALSE] \in Entry  BY <3>1, <3>2 DEF Entry
      <4> QED BY <4>1, <3>6 DEF WriteInvalid
    <3> QED BY <1>4, <3>3, <3>4, <3>5, <3>6
  <2> QED BY <1>4, <2>1
          DEF WriteKey, WriteDest, WriteValid, WriteInvalid
<1>5. CASE ScanDel(t)
  <2>1. Matching(rule[t]) \in SUBSET Nat /\ Matching(rule[t]) \subseteq Slots
    BY ConstantsAssumption DEF Matching, Slots
  <2>2. Matching(rule[t]) # {} => Min(Matching(rule[t])) \in Slots
    BY <2>1, MinIsMember
  <2> QED BY <1>5, <2>2 DEF ScanDel, Pick
<1>6. CASE SetBlob(t)  BY <1>6 DEF SetBlob
<1>7. CASE Commit(t)   BY <1>7 DEF Commit
<1>8. CASE CallNapt(t)
  <2>1. rule[t].key \in Keys /\ rule[t].dest \in Dests
    BY <1>8, ConstantsAssumption DEF CallNapt
  <2> QED BY <1>8, <2>1 DEF CallNapt, Mapping
<1>9. CASE EraseTable(t) \/ EraseCommit(t)
  BY <1>9, EmptyTabType DEF EraseTable, EraseCommit
<1> QED BY <1>1, <1>2, <1>3, <1>4, <1>5, <1>6, <1>7, <1>8, <1>9 DEF Command, PostAdd, PostDel, Console

\* No step of the GOT_IP handler breaks a type.
LEMMA EventType ==
  ASSUME TypeOK, Event
  PROVE  TypeOK'
<1> USE DEF TypeOK, cmd, args
<1>n. PORTMAP_MAX \in Nat \ {0}
  BY ConstantsAssumption
<1>1. ASSUME NEW a \in Addrs, GotIp(a)
      PROVE  TypeOK'
  BY <1>1, <1>n DEF GotIp
<1>2. CASE EvDelete
  <2>1. napt' \in [Keys -> Mapping \cup {Unmapped}]
    BY <1>2 DEF EvDelete
  <2>2. ev_i' \in 1..PORTMAP_MAX + 1 /\ ev_pc' = "delete"
    BY <1>2, <1>n DEF EvDelete, Slots
  <2> QED BY <1>2, <2>1, <2>2 DEF EvDelete
<1>3. CASE EvDeleted
  BY <1>3, <1>n DEF EvDeleted
<1>4. CASE EvCheck
  BY <1>4, <1>n DEF EvCheck, Slots
<1>5. CASE EvKey
  <2>1. tab[ev_i].key \in Keys \cup {Zero}
    BY <1>5 DEF EvKey, Entry
  <2> QED BY <1>5, <2>1 DEF EvKey
<1>6. CASE EvCall
  <2>1. [maddr |-> my_ip, dest |-> tab[ev_i].dest] \in Mapping
    BY <1>6 DEF EvCall, Mapping, Entry
  <2>2. napt' \in [Keys -> Mapping \cup {Unmapped}]
    BY <1>6, <2>1 DEF EvCall
  <2>3. ev_i' \in 1..PORTMAP_MAX + 1 /\ ev_pc' = "check"
    BY <1>6, <1>n DEF EvCall, Slots
  <2> QED BY <1>6, <2>2, <2>3 DEF EvCall
<1>7. CASE EvReturn
  BY <1>7, <1>n DEF EvReturn
<1> QED BY <1>1, <1>2, <1>3, <1>4, <1>5, <1>6, <1>7 DEF Event

\* No step at all does.
LEMMA NextType == TypeOK /\ [Next]_vars => TypeOK'
<1> SUFFICES ASSUME TypeOK, [Next]_vars PROVE TypeOK'
  OBVIOUS
<1>1. CASE UNCHANGED vars  BY <1>1 DEF vars, TypeOK
<1> QED BY <1>1, CommandType, EventType, RestartType DEF Next

\* Whatever the interleaving of the two command tasks, the event task and
\* restarts, every variable keeps its type, so no slot outside portmap_tab is
\* ever written and no command works on a rule that was not asked for.
THEOREM TypeCorrect == Spec => []TypeOK
<1> QED BY InitType, NextType, PTL DEF Spec

-----------------------------------------------------------------------------
(* Any number of command tasks, in any overlap: a change in a slot that      *)
(* nobody else picked.                                                       *)

Owning == Writing \cup Saving

\* What a command has done to its slot, field by field, and to the saved table.
Kept(t) ==
  LET e == tab[slot[t]]
  IN /\ pc[t] \in {"key", "dest", "valid"} => kind[t] = "add" /\ ~e.valid
     /\ pc[t] \in {"dest", "valid"} => e.key = rule[t].key
     /\ pc[t] = "valid" => e.dest = rule[t].dest
     /\ pc[t] = "clear" => kind[t] = "del" /\ e.valid /\ RuleOf(e) = rule[t]
     /\ pc[t] \in Saving => Stored(tab)[slot[t]] = Target(t)
     /\ pc[t] \in {"commit", "napt"} => blob = EmptyTab \/ Stored(blob)[slot[t]] = Target(t)
     /\ pc[t] = "napt" => flash = EmptyTab \/ Stored(flash)[slot[t]] = Target(t)

\* A slot that is not shared has been written by whoever else still has it.
OnlyWriter ==
  \A t, u \in Tasks : t # u /\ slot[t] = slot[u] /\ pc[t] \in Owning /\ pc[u] \in Writing
                        => shared[t]

OwnInv == TypeOK /\ OnlyWriter /\ \A t \in Tasks : ~shared[t] => Kept(t)

\* The GOT_IP handler changes nothing that a command works on.
LEMMA EventFrame == Event => UNCHANGED <<tab, blob, flash, pc, kind, rule, slot, shared>>
BY DEF Event, GotIp, EvDelete, EvDeleted, EvCheck, EvKey, EvCall, EvReturn, cmd, args

\* What any step of a command changes: its own slot, while it writes it; its own
\* place and arguments; and the mark of those whose slot it picks.
Framed(u) ==
  /\ \A t \in Tasks \ {u} : /\ pc'[t] = pc[t] /\ kind'[t] = kind[t]
                            /\ rule'[t] = rule[t] /\ slot'[t] = slot[t]
                            /\ shared[t] => shared'[t]
  /\ pc[u] \notin Writing => tab' = tab
  /\ \A s \in Slots : s # slot[u] => tab'[s] = tab[s]
  /\ blob' = blob \/ (blob' = tab /\ tab' = tab) \/ blob' = EmptyTab
  /\ flash' = flash \/ (flash' = blob /\ blob' = blob)
  /\ \/ /\ pc[u] = "scan" /\ pc'[u] \in Writing
        /\ \E s \in Slots : Pick(u, s)
     \/ /\ UNCHANGED <<slot, shared>>
        /\ pc'[u] \in Writing => pc[u] \in Writing
        /\ pc'[u] \in Owning => pc[u] \in Owning

LEMMA CommandFrame ==
  ASSUME TypeOK, NEW u \in Tasks, Command(u), ~Restart
  PROVE  Framed(u)
<1> USE DEF TypeOK, Goto, args, ev, Writing, Saving, Owning, Framed
<1>1. ASSUME NEW k \in {"add", "del"}, NEW r \in Requests, Begin(u, k, r)
      PROVE  Framed(u)
  BY <1>1 DEF Begin
<1>2. CASE ScanAdd(u)
  <2>1. FreeSlots \in SUBSET Nat /\ FreeSlots # {} /\ FreeSlots \subseteq Slots
    BY <1>2, ConstantsAssumption DEF ScanAdd, FreeSlots, Slots
  <2>2. Min(FreeSlots) \in Slots
    BY <2>1, MinIsMember
  <2> QED BY <1>2, <2>2 DEF ScanAdd, Pick
<1>3. CASE Full(u)
  BY <1>3 DEF Full
<1>4. CASE WriteKey(u) \/ WriteDest(u) \/ WriteValid(u) \/ WriteInvalid(u)
  BY <1>4 DEF WriteKey, WriteDest, WriteValid, WriteInvalid
<1>5. CASE ScanDel(u)
  <2>1. Matching(rule[u]) \in SUBSET Nat /\ Matching(rule[u]) \subseteq Slots
    BY ConstantsAssumption DEF Matching, Slots
  <2>2. Matching(rule[u]) # {} => Min(Matching(rule[u])) \in Slots
    BY <2>1, MinIsMember
  <2> QED BY <1>5, <2>2 DEF ScanDel, Pick
<1>6. CASE SetBlob(u) \/ Commit(u) \/ CallNapt(u)
  BY <1>6 DEF SetBlob, Commit, CallNapt
<1>7. CASE EraseTable(u) \/ EraseCommit(u)
  BY <1>7 DEF EraseTable, EraseCommit
<1> QED BY <1>1, <1>2, <1>3, <1>4, <1>5, <1>6, <1>7 DEF Command, PostAdd, PostDel, Console

\* Whoever picks a slot marks, or is marked by, those that have yet to write it.
LEMMA OnlyWriterStep ==
  ASSUME TypeOK, OnlyWriter, NEW u \in Tasks, Framed(u)
  PROVE  OnlyWriter'
<1> SUFFICES ASSUME NEW t \in Tasks, NEW w \in Tasks, t # w, slot'[t] = slot'[w],
                    pc'[t] \in Owning, pc'[w] \in Writing
             PROVE  shared'[t]
  BY DEF OnlyWriter
<1>1. CASE u # t /\ u # w
  BY <1>1 DEF Framed, OnlyWriter
<1>2. CASE u = t
  <2>1. pc'[w] = pc[w] /\ slot'[w] = slot[w]
    BY <1>2 DEF Framed
  <2>2. ASSUME NEW s \in Slots, Pick(u, s) PROVE shared'[t]
    BY <1>2, <2>1, <2>2 DEF Pick, TypeOK
  <2>3. CASE UNCHANGED <<slot, shared>> /\ pc[t] \in Owning
    BY <1>2, <2>1, <2>3 DEF OnlyWriter
  <2> QED BY <1>2, <2>2, <2>3 DEF Framed
<1>3. CASE u = w
  <2>1. pc'[t] = pc[t] /\ slot'[t] = slot[t]
    BY <1>3 DEF Framed
  <2>2. ASSUME NEW s \in Slots, Pick(u, s) PROVE shared'[t]
    BY <1>3, <2>1, <2>2 DEF Pick, TypeOK, Owning
  <2>3. CASE UNCHANGED <<slot, shared>> /\ pc[w] \in Writing
    BY <1>3, <2>1, <2>3 DEF OnlyWriter
  <2> QED BY <1>3, <2>2, <2>3 DEF Framed
<1> QED BY <1>1, <1>2, <1>3

\* What another task does leaves a slot that is not shared as it is.
LEMMA OthersKept ==
  ASSUME OwnInv, NEW u \in Tasks, Framed(u), NEW t \in Tasks \ {u}, ~shared'[t]
  PROVE  Kept(t)'
<1>1. /\ pc'[t] = pc[t] /\ kind'[t] = kind[t] /\ rule'[t] = rule[t] /\ slot'[t] = slot[t]
      /\ ~shared[t] /\ Kept(t) /\ slot[t] \in Slots
  BY DEF Framed, OwnInv, TypeOK
<1>2. Target(t)' = Target(t)
  BY <1>1 DEF Target
<1>3. CASE pc[t] \in Owning
  <2>1. tab'[slot[t]] = tab[slot[t]]
    BY <1>1, <1>3 DEF Framed, OwnInv, OnlyWriter
  <2>2. Stored(tab)'[slot[t]] = Stored(tab)[slot[t]]
    BY <1>1, <2>1 DEF Stored, RuleOf
  <2>3. pc[t] \in {"commit", "napt"} => blob' = EmptyTab \/ Stored(blob)'[slot[t]] = Target(t)
    <3>1. CASE blob' = blob  BY <1>1, <3>1 DEF Kept, Stored, RuleOf
    <3>2. CASE blob' = tab   BY <1>1, <3>2 DEF Kept, Stored, RuleOf, Saving
    <3> QED BY <3>1, <3>2 DEF Framed
  <2>4. pc[t] = "napt" => flash' = EmptyTab \/ Stored(flash)'[slot[t]] = Target(t)
    BY <1>1 DEF Framed, Kept, Stored, RuleOf
  <2> QED BY <1>1, <1>2, <2>1, <2>2, <2>3, <2>4 DEF Kept, RuleOf
<1>4. CASE pc[t] \notin Owning
  BY <1>1, <1>4 DEF Kept, Owning, Writing, Saving
<1> QED BY <1>3, <1>4

\* What a task does itself leaves in its slot what its next step needs.
LEMMA SelfKept ==
  ASSUME OwnInv, NEW t \in Tasks, Command(t), ~Restart, ~shared'[t]
  PROVE  Kept(t)'
<1>t. /\ tab \in [Slots -> Entry] /\ slot[t] \in Slots /\ tab[slot[t]] \in Entry
      /\ pc \in [Tasks -> PCs] /\ kind \in [Tasks -> {"add", "del"}]
      /\ slot \in [Tasks -> Slots]
      /\ rule \in [Tasks -> Requests \cup {NoRule}]
      /\ pc[t] \notin {"idle", "erased"} => rule[t] \in Requests
      /\ ~shared[t] => Kept(t)
  BY DEF OwnInv, TypeOK
<1> USE <1>t DEF Goto, args, Saving
<1>1. ASSUME NEW k \in {"add", "del"}, NEW r \in Requests, Begin(t, k, r)
      PROVE  Kept(t)'
  BY <1>1 DEF Begin, Kept
<1>2. CASE ScanAdd(t)
  <2>1. FreeSlots \in SUBSET Nat /\ FreeSlots # {}
    BY <1>2, ConstantsAssumption DEF ScanAdd, FreeSlots, Slots
  <2>2. Min(FreeSlots) \in FreeSlots
    BY <2>1, MinIsMember
  <2>3. ~tab[Min(FreeSlots)].valid /\ Min(FreeSlots) \in Slots
    BY <2>2 DEF FreeSlots
  <2> QED BY <1>2, <2>3 DEF ScanAdd, Pick, Kept
<1>3. CASE Full(t)
  BY <1>3 DEF Full, Kept
<1>4. CASE WriteKey(t)
  BY <1>4 DEF WriteKey, Kept, Entry
<1>5. CASE WriteDest(t)
  BY <1>5 DEF WriteDest, Kept, Entry
<1>6. CASE WriteValid(t)
  <2>1. tab'[slot[t]].valid /\ RuleOf(tab'[slot[t]]) = rule[t]
    BY <1>6, ConstantsAssumption DEF WriteValid, Kept, RuleOf, Entry
  <2>2. Stored(tab)'[slot'[t]] = rule'[t] /\ kind'[t] = "add" /\ pc'[t] = "blob"
    BY <1>6, <2>1 DEF WriteValid, Stored, Kept, RuleOf
  <2> QED BY <2>2 DEF Kept, Target
<1>7. CASE ScanDel(t)
  <2>1. Matching(rule[t]) \in SUBSET Nat
    BY ConstantsAssumption DEF Matching, Slots
  <2>2. Matching(rule[t]) # {} => Min(Matching(rule[t])) \in Matching(rule[t])
    BY <2>1, MinIsMember
  <2>3. CASE Matching(rule[t]) = {}
    BY <1>7, <2>3 DEF ScanDel, Kept
  <2>4. CASE Matching(rule[t]) # {}
    <3>1. /\ tab[Min(Matching(rule[t]))].valid /\ Min(Matching(rule[t])) \in Slots
          /\ RuleOf(tab[Min(Matching(rule[t]))]) = rule[t]
      BY <2>2, <2>4 DEF Matching
    <3>2. pc'[t] = "clear" /\ kind'[t] = "del" /\ rule' = rule /\ tab' = tab
          /\ slot'[t] = Min(Matching(rule[t]))
      BY <1>7, <2>4, <3>1 DEF ScanDel, Pick
    <3> QED BY <3>1, <3>2 DEF Kept, RuleOf
  <2> QED BY <2>3, <2>4
<1>8. CASE WriteInvalid(t)
  <2>1. Stored(tab)'[slot'[t]] = NoRule /\ kind'[t] = "del" /\ pc'[t] = "blob"
    BY <1>8 DEF WriteInvalid, Stored, Kept, Entry
  <2> QED BY <2>1 DEF Kept, Target
<1>9. CASE SetBlob(t)
  <2>1. pc'[t] = "commit" /\ blob' = tab /\ tab' = tab /\ slot' = slot /\ Target(t)' = Target(t)
    BY <1>9 DEF SetBlob, Target
  <2>2. Stored(tab)[slot[t]] = Target(t)
    BY <1>9 DEF SetBlob, Kept
  <2>3. Stored(tab)' = Stored(tab) /\ Stored(blob)' = Stored(tab)
    BY <2>1 DEF Stored, RuleOf
  <2> QED BY <2>1, <2>2, <2>3 DEF Kept
<1>10. CASE Commit(t)
  <2>1. pc'[t] = "napt" /\ blob' = blob /\ flash' = blob /\ tab' = tab /\ slot' = slot
        /\ Target(t)' = Target(t)
    BY <1>10 DEF Commit, Target
  <2>2. /\ Stored(tab)[slot[t]] = Target(t)
        /\ blob = EmptyTab \/ Stored(blob)[slot[t]] = Target(t)
    BY <1>10 DEF Commit, Kept
  <2>3. Stored(tab)' = Stored(tab) /\ Stored(blob)' = Stored(blob) /\ Stored(flash)' = Stored(blob)
    BY <2>1 DEF Stored, RuleOf
  <2> QED BY <2>1, <2>2, <2>3 DEF Kept
<1>11. CASE CallNapt(t) \/ EraseTable(t) \/ EraseCommit(t)
  BY <1>11 DEF CallNapt, EraseTable, EraseCommit, Kept
<1> QED BY <1>1, <1>2, <1>3, <1>4, <1>5, <1>6, <1>7, <1>8, <1>9, <1>10, <1>11
        DEF Command, PostAdd, PostDel, Console

LEMMA OwnStep == OwnInv /\ [Next]_vars => OwnInv'
<1> SUFFICES ASSUME OwnInv, [Next]_vars
             PROVE  OnlyWriter' /\ \A t \in Tasks : ~shared'[t] => Kept(t)'
  BY NextType DEF OwnInv
<1>1. CASE UNCHANGED <<tab, blob, flash, pc, kind, rule, slot, shared>>
  <2>1. \A t \in Tasks : Kept(t)' = Kept(t)
    BY <1>1 DEF Kept, Stored, RuleOf, Target
  <2> QED BY <1>1, <2>1 DEF OwnInv, OnlyWriter
<1>2. CASE Restart
  BY <1>2 DEF Restart, OnlyWriter, Kept, Owning, Writing, Saving
<1>3. ASSUME NEW u \in Tasks, Command(u), ~Restart
      PROVE  OnlyWriter' /\ \A t \in Tasks : ~shared'[t] => Kept(t)'
  BY <1>3, CommandFrame, OnlyWriterStep, OthersKept, SelfKept DEF OwnInv
<1> QED BY <1>1, <1>2, <1>3, EventFrame DEF Next, vars

LEMMA OwnInitial == Init => OwnInv
BY InitType DEF Init, OwnInv, OnlyWriter, Kept, Owning, Writing, Saving

\* For any number of tasks at once, with GOT_IP events and restarts at any step:
\* a change whose slot nobody else picked is in the table and in flash when the
\* command tells lwIP.
THEOREM OwnChangeSaved == Spec => []OwnChangeKept
<1>1. OwnInv => OwnChangeKept
  BY DEF OwnInv, Kept, OwnChangeKept
<1> QED BY <1>1, OwnInitial, OwnStep, PTL DEF Spec

-----------------------------------------------------------------------------
(* Commands one at a time: the stored table changes by whole commands.      *)

\* One task runs commands, or all tasks wait for each other.
OneAtATime == (\A t, u \in Tasks : t = u) \/ Serialized = TRUE

\* At most one command runs, and so none has picked another's slot.
Alone == /\ \A t, u \in Tasks : pc[t] # "idle" /\ pc[u] # "idle" => t = u
         /\ \A t \in Tasks : pc[t] \in Owning => ~shared[t]

LEMMA AloneStep == OneAtATime /\ TypeOK /\ Alone /\ [Next]_vars => Alone'
<1> SUFFICES ASSUME OneAtATime, TypeOK, Alone, [Next]_vars PROVE Alone'
  OBVIOUS
<1>1. CASE UNCHANGED <<pc, shared>>
  BY <1>1 DEF Alone
<1>2. CASE Restart
  BY <1>2 DEF Restart, Alone, Owning, Writing, Saving
<1>3. ASSUME NEW t \in Tasks, Command(t), ~Restart PROVE Alone'
  <2>1. Framed(t)
    BY <1>3, CommandFrame
  <2>2. \A u \in Tasks \ {t} : pc[u] = "idle"
    <3>1. CASE pc[t] # "idle"
      BY <3>1 DEF Alone
    <3>2. CASE pc[t] = "idle" /\ Serialized = TRUE
      <4>1. Quiet
        BY <1>3, <3>2 DEF Command, PostAdd, PostDel, Console, Begin, EraseTable, ScanAdd, Full, WriteKey,
           WriteDest, WriteValid, ScanDel, WriteInvalid, SetBlob, Commit, CallNapt, EraseCommit
      <4> QED BY <4>1 DEF Quiet, AllIdle
    <3> QED BY <3>1, <3>2 DEF OneAtATime
  <2>3. \A u \in Tasks \ {t} : pc'[u] = "idle"
    BY <2>1, <2>2 DEF Framed
  <2>4. ASSUME pc'[t] \in Owning PROVE ~shared'[t]
    <3>1. ASSUME NEW s \in Slots, Pick(t, s) PROVE ~shared'[t]
      BY <2>2, <3>1 DEF Pick, Writing
    <3>2. CASE UNCHANGED <<slot, shared>> /\ pc[t] \in Owning
      BY <3>2 DEF Alone
    <3> QED BY <2>1, <2>4, <3>1, <3>2 DEF Framed
  <2>5. \A u \in Tasks : pc'[u] # "idle" => u = t
    BY <2>3
  <2>6. \A u \in Tasks : pc'[u] \in Owning => u = t
    BY <2>5 DEF Owning, Writing, Saving
  <2> QED BY <2>4, <2>5, <2>6 DEF Alone
<1> QED BY <1>1, <1>2, <1>3, EventFrame DEF Next, vars

\* What is on its way to the flash.
Saved ==
  /\ \A t \in Tasks : pc[t] = "commit" => blob = tab
  /\ \A t \in Tasks : pc[t] = "erased" => blob = EmptyTab
  /\ (\A t \in Tasks : pc[t] \notin {"commit", "erased"}) => flash = blob

StoreInv == OwnInv /\ Alone /\ Saved

LEMMA SavedStep ==
  ASSUME TypeOK, Alone, Alone', Saved, [Next]_vars
  PROVE  Saved'
<1>1. CASE UNCHANGED <<tab, blob, flash, pc>>
  BY <1>1 DEF Saved
<1>2. CASE Restart
  BY <1>2 DEF Restart, Saved
<1>3. ASSUME NEW t \in Tasks, Command(t), ~Restart PROVE Saved'
  <2>1. pc \in [Tasks -> PCs] /\ \A u \in Tasks \ {t} : pc'[u] = pc[u]
    BY <1>3, CommandFrame DEF TypeOK, Framed
  <2> USE <2>1 DEF Goto
  <2>2. ASSUME NEW p \in {"idle", "scan", "key", "dest", "valid", "clear", "blob"}, pc' = [pc EXCEPT ![t] = p],
               pc[t] \notin {"commit", "erased"}, UNCHANGED <<blob, flash>>,
               pc[t] # "idle" \/ tab' = tab
        PROVE  Saved'
    BY <2>2 DEF Saved, Alone
  <2>3. ASSUME NEW k \in {"add", "del"}, NEW r \in Requests, Begin(t, k, r) PROVE Saved'
    BY <2>2, <2>3 DEF Begin
  <2>4. CASE ScanAdd(t)
    BY <2>2, <2>4 DEF ScanAdd
  <2>5. CASE Full(t)
    BY <1>3, <2>2, <2>5 DEF Full
  <2>6. CASE ScanDel(t)
    BY <2>2, <2>6 DEF ScanDel
  <2>7. CASE WriteKey(t) \/ WriteDest(t) \/ WriteValid(t) \/ WriteInvalid(t)
    BY <2>2, <2>7 DEF WriteKey, WriteDest, WriteValid, WriteInvalid
  <2>8. CASE CallNapt(t)
    BY <2>2, <2>8 DEF CallNapt
  <2>9. CASE SetBlob(t)
    <3>1. \A u \in Tasks : u # t => pc'[u] = "idle"
      BY <2>9 DEF SetBlob, Alone
    <3>2. pc'[t] = "commit" /\ blob' = tab /\ tab' = tab
      BY <2>9 DEF SetBlob
    <3> QED BY <3>1, <3>2 DEF Saved
  <2>10. CASE EraseTable(t)
    <3>1. pc'[t] = "erased" /\ blob' = EmptyTab
      BY <2>10 DEF EraseTable
    <3>2. \A u \in Tasks : u # t => pc'[u] = "idle"
      BY <3>1 DEF Alone
    <3> QED BY <3>1, <3>2 DEF Saved
  <2>11. CASE Commit(t) \/ EraseCommit(t)
    <3>1. pc'[t] \in {"napt", "idle"} /\ flash' = blob /\ blob' = blob /\ tab' = tab
      BY <2>11 DEF Commit, EraseCommit
    <3>2. \A u \in Tasks : u # t => pc'[u] = "idle"
      BY <2>11 DEF Commit, EraseCommit, Alone
    <3> QED BY <3>1, <3>2 DEF Saved
  <2> QED BY <1>3, <2>3, <2>4, <2>5, <2>6, <2>7, <2>8, <2>9, <2>10, <2>11
          DEF Command, PostAdd, PostDel, Console
<1> QED BY <1>1, <1>2, <1>3, EventFrame DEF Next, vars

LEMMA StoreInvStep == OneAtATime /\ StoreInv /\ [Next]_vars => StoreInv'
BY OwnStep, AloneStep, SavedStep DEF StoreInv, OwnInv

LEMMA StoreInitial == Init => StoreInv
BY OwnInitial DEF Init, StoreInv, Alone, Saved, Owning, Writing, Saving

\* The change that is being committed is one step of the abstract table.
OneChange(H, T) ==
  \E s \in Slots : \/ \E r \in Requests : H[s] = NoRule /\ T = [H EXCEPT ![s] = r]
                   \/ H[s] # NoRule /\ T = [H EXCEPT ![s] = NoRule]

LEMMA Completes ==
  ASSUME StoreInv, NEW t \in Tasks, pc[t] = "commit"
  PROVE  OneChange(Held, Stored(tab))
<1>1. /\ slot[t] \in Slots /\ rule[t] \in Requests /\ rule[t] # NoRule
      /\ kind[t] \in {"add", "del"} /\ tab \in [Slots -> Entry]
  BY ConstantsAssumption DEF StoreInv, OwnInv, TypeOK
<1>2. Stored(tab)[slot[t]] = Target(t)
  BY DEF StoreInv, OwnInv, Alone, Kept, Owning, Saving
<1>3. \A s \in Slots : BeingSaved(s) <=> s = slot[t]
  BY <1>1 DEF StoreInv, Alone, BeingSaved
<1>4. \A s \in Slots : RuleOf(tab[s]) # NoRule
  <2>1. \A s \in Slots : RuleOf(tab[s]) \in [key : Keys \cup {Zero}, dest : Dests \cup {Zero}]
    BY <1>1 DEF RuleOf, Entry
  <2> QED BY <2>1, ConstantsAssumption
<1>5. \A s \in Slots : tab[s].valid \in BOOLEAN
  BY <1>1 DEF Entry
<1>6. \A s \in Slots : s # slot[t] => Stored(tab)[s] = Held[s]
  BY <1>3 DEF Held, Stored
<1>7. Stored(tab) = [Held EXCEPT ![slot[t]] = Target(t)]
  <2>1. /\ Stored(tab) = [s \in Slots |-> Stored(tab)[s]]
        /\ Held = [s \in Slots |-> Held[s]]
    BY DEF Stored, Held
  <2> QED BY <1>2, <1>6, <2>1
<1>8. CASE kind[t] = "add"
  <2>1. tab[slot[t]].valid
    BY <1>1, <1>2, <1>8 DEF Stored, Target
  <2>2. Held[slot[t]] = NoRule
    BY <1>1, <1>3, <2>1 DEF Held
  <2> QED BY <1>1, <1>7, <1>8, <2>2 DEF OneChange, Target
<1>9. CASE kind[t] = "del"
  <2>1. ~tab[slot[t]].valid
    BY <1>1, <1>2, <1>4, <1>9 DEF Stored, Target
  <2>2. Held[slot[t]] # NoRule
    BY <1>1, <1>3, <1>4, <1>5, <2>1 DEF Held
  <2> QED BY <1>1, <1>7, <1>9, <2>2 DEF OneChange, Target
<1> QED BY <1>1, <1>8, <1>9

\* The empty table has no rules, and with no command under way the router goes by
\* what the table says.
LEMMA EmptyStored == Stored(EmptyTab) = Store!Empty
BY DEF Stored, EmptyTab, Store!Empty, Store!Places, Slots

LEMMA HeldAtRest ==
  ASSUME TypeOK, \A s \in Slots : ~BeingSaved(s)
  PROVE  Held = Stored(tab)
<1>1. \A s \in Slots : tab[s].valid \in BOOLEAN
  BY DEF TypeOK, Entry
<1> QED BY <1>1 DEF Held, Stored

\* Every step is one of the abstract table, or leaves it as it is.
LEMMA StoreStep ==
  ASSUME OneAtATime, StoreInv, [Next]_vars
  PROVE  [Store!StoreNext]_<<Stored(flash), Held>>
<1> DEFINE H == Held
           H1 == Held'
           F == Stored(flash)
           F1 == Stored(flash')
           Step == \/ OneChange(H, F1) /\ H1 \in Store!Loaded(F1)
                   \/ F1 = Store!Empty /\ H1 \in {H, Store!Empty}
                   \/ F1 = F /\ H1 \in Store!Loaded(F)
                   \/ F1 = F /\ H1 = H
<1> SUFFICES Step
  BY DEF Store!StoreNext, Store!Add, Store!Remove, Store!Change, Store!Erase, Store!Reboot,
         Store!Places, Slots, OneChange, Stored, RuleOf
<1>i. StoreInv'
  BY StoreInvStep
<1>t. TypeOK /\ TypeOK' /\ tab \in [Slots -> Entry]
  BY <1>i DEF StoreInv, OwnInv, TypeOK
<1>1. CASE UNCHANGED <<tab, flash, pc, slot>>
  <2>1. H1 = H /\ F1 = F
    BY <1>1 DEF Held, Stored, RuleOf, BeingSaved
  <2> QED BY <2>1
<1>2. CASE Restart
  <2>1. \A s \in Slots : ~BeingSaved(s)'
    BY <1>2 DEF Restart, BeingSaved
  <2>2. H1 = Stored(tab')
    <3>1. \A s \in Slots : tab'[s].valid \in BOOLEAN
      BY <1>t DEF TypeOK, Entry
    <3> QED BY <2>1, <3>1 DEF Held, Stored, RuleOf
  <2>3. H1 \in Store!Loaded(F1)
    BY <1>2, <2>2, EmptyStored DEF Restart, LoadedTabs, Store!Loaded
  <2>4. CASE flash' = flash
    BY <2>3, <2>4
  <2>5. CASE flash' = EmptyTab
    BY <2>3, <2>5, EmptyStored DEF Store!Loaded
  <2>6. CASE flash' = blob
    <3>1. ASSUME NEW t \in Tasks, pc[t] = "commit" PROVE Step
      <4>1. blob = tab
        BY <3>1 DEF StoreInv, Saved
      <4>2. OneChange(H, Stored(tab))
        BY <3>1, Completes
      <4> QED BY <2>3, <2>6, <4>1, <4>2
    <3>2. ASSUME NEW t \in Tasks, pc[t] = "erased" PROVE Step
      BY <2>5, <2>6, <3>2 DEF StoreInv, Saved
    <3>3. CASE \A t \in Tasks : pc[t] \notin {"commit", "erased"}
      BY <2>4, <2>6, <3>3 DEF StoreInv, Saved
    <3> QED BY <3>1, <3>2, <3>3
  <2> QED BY <1>2, <2>4, <2>5, <2>6 DEF Restart
<1>3. ASSUME NEW t \in Tasks, Command(t), ~Restart PROVE Step
  <2>s. /\ slot[t] \in Slots /\ pc \in [Tasks -> PCs] /\ slot \in [Tasks -> Slots]
        /\ \A u \in Tasks \ {t} : pc'[u] = pc[u] /\ slot'[u] = slot[u]
    BY <1>3, <1>t, CommandFrame DEF Framed, TypeOK
  <2>o. pc[t] # "idle" => \A u \in Tasks \ {t} : pc[u] = "idle"
    BY DEF StoreInv, Alone
  <2>v. \A s \in Slots : tab[s].valid \in BOOLEAN
    BY <1>t DEF Entry
  <2>1. ASSUME H1 = H, flash' = flash PROVE Step
    BY <2>1
  <2>2. ASSUME tab' = tab, flash' = flash, pc[t] \notin {"blob", "commit"}, pc'[t] \notin {"blob", "commit"}
        PROVE  Step
    <3>1. \A s \in Slots : BeingSaved(s)' <=> BeingSaved(s)
      BY <2>s, <2>2 DEF BeingSaved
    <3> QED BY <2>1, <2>2, <3>1 DEF Held
  <2>3. ASSUME NEW k \in {"add", "del"}, NEW r \in Requests, Begin(t, k, r) PROVE Step
    BY <2>s, <2>2, <2>3 DEF Begin, Goto
  <2>4. CASE ScanAdd(t) \/ Full(t) \/ ScanDel(t)
    BY <1>3, <2>s, <2>2, <2>4 DEF ScanAdd, Full, ScanDel, Goto
  <2>5. CASE CallNapt(t) \/ EraseTable(t)
    BY <2>s, <2>2, <2>5 DEF CallNapt, EraseTable, Goto
  <2>6. CASE WriteKey(t) \/ WriteDest(t)
    <3>1. /\ pc[t] \in Writing /\ pc[t] # "clear" /\ pc'[t] \in Writing /\ flash' = flash /\ slot' = slot
          /\ pc'[t] \notin {"blob", "commit"} /\ ~tab'[slot[t]].valid
          /\ \A s \in Slots \ {slot[t]} : tab'[s] = tab[s]
      <4>1. ~tab[slot[t]].valid
        BY <2>6 DEF WriteKey, WriteDest, StoreInv, OwnInv, Alone, Kept, Owning, Writing
      <4> QED BY <1>t, <2>s, <2>6, <4>1 DEF WriteKey, WriteDest, Goto, args, Writing, Entry
    <3>2. \A s \in Slots : ~BeingSaved(s) /\ ~BeingSaved(s)'
      BY <2>s, <2>o, <3>1 DEF BeingSaved, Writing
    <3>3. ~tab[slot[t]].valid
      BY <2>6 DEF WriteKey, WriteDest, StoreInv, OwnInv, Alone, Kept, Owning, Writing
    <3>4. H1 = H
      BY <2>s, <3>1, <3>2, <3>3 DEF Held
    <3> QED BY <2>1, <3>1, <3>4
  <2>7. CASE WriteValid(t) \/ WriteInvalid(t)
    <3>1. /\ pc[t] \in Writing /\ pc'[t] = "blob" /\ flash' = flash /\ slot' = slot
          /\ (tab'[slot[t]].valid <=> ~tab[slot[t]].valid)
          /\ RuleOf(tab'[slot[t]]) = RuleOf(tab[slot[t]])
          /\ \A s \in Slots \ {slot[t]} : tab'[s] = tab[s]
      <4>1. tab[slot[t]].valid = (pc[t] = "clear")
        BY <2>v, <2>s, <2>7 DEF WriteValid, WriteInvalid, StoreInv, OwnInv, Alone, Kept, Owning, Writing
      <4>2. CASE WriteValid(t)
        <5>1. tab' = [tab EXCEPT ![slot[t]].valid = TRUE] /\ pc[t] = "valid" /\ ~tab[slot[t]].valid
          BY <4>1, <4>2 DEF WriteValid
        <5>2. tab'[slot[t]] = [tab[slot[t]] EXCEPT !.valid = TRUE] /\ tab[slot[t]] \in Entry
          BY <1>t, <2>s, <5>1
        <5> QED BY <1>t, <2>s, <4>2, <5>1, <5>2 DEF WriteValid, Goto, args, Writing, Entry, RuleOf
      <4>3. CASE WriteInvalid(t)
        <5>1. tab' = [tab EXCEPT ![slot[t]].valid = FALSE] /\ pc[t] = "clear" /\ tab[slot[t]].valid
          BY <4>1, <4>3 DEF WriteInvalid
        <5>2. tab'[slot[t]] = [tab[slot[t]] EXCEPT !.valid = FALSE] /\ tab[slot[t]] \in Entry
          BY <1>t, <2>s, <5>1
        <5> QED BY <1>t, <2>s, <4>3, <5>1, <5>2 DEF WriteInvalid, Goto, args, Writing, Entry, RuleOf
      <4> QED BY <2>7, <4>2, <4>3
    <3>2. \A s \in Slots : ~BeingSaved(s) /\ (BeingSaved(s)' <=> s = slot[t])
      BY <2>s, <2>o, <3>1 DEF BeingSaved, Writing
    <3>3. H1 = H
      BY <2>s, <2>v, <3>1, <3>2 DEF Held
    <3> QED BY <2>1, <3>1, <3>3
  <2>8. CASE SetBlob(t)
    <3>1. \A s \in Slots : BeingSaved(s)' <=> BeingSaved(s)
      BY <2>s, <2>8 DEF SetBlob, BeingSaved, Goto, args
    <3> QED BY <2>1, <2>8, <3>1 DEF SetBlob, Held
  <2>9. CASE Commit(t)
    <3>1. pc[t] = "commit" /\ pc'[t] = "napt" /\ flash' = blob /\ tab' = tab /\ blob = tab
      BY <2>s, <2>9 DEF Commit, Goto, StoreInv, Saved
    <3>2. OneChange(H, F1)
      BY <3>1, Completes
    <3>3. \A s \in Slots : ~BeingSaved(s)'
      BY <2>s, <2>o, <3>1 DEF BeingSaved
    <3>4. H1 = F1
      BY <2>v, <3>1, <3>3 DEF Held, Stored, RuleOf
    <3> QED BY <3>2, <3>4 DEF Store!Loaded
  <2>10. CASE EraseCommit(t)
    <3>1. pc[t] = "erased" /\ pc'[t] = "idle" /\ flash' = EmptyTab /\ tab' = tab /\ slot' = slot
      BY <2>s, <2>10 DEF EraseCommit, Goto, StoreInv, Saved, args
    <3>2. \A s \in Slots : BeingSaved(s)' <=> BeingSaved(s)
      BY <2>s, <3>1 DEF BeingSaved
    <3>3. H1 = H
      BY <3>1, <3>2 DEF Held
    <3> QED BY <3>1, <3>3, EmptyStored
  <2> QED BY <1>3, <2>3, <2>4, <2>5, <2>6, <2>7, <2>8, <2>9, <2>10
          DEF Command, PostAdd, PostDel, Console
<1> QED BY <1>1, <1>2, <1>3, EventFrame DEF Next, vars

\* With commands one at a time, of one task or of several that wait for each other:
\* a power cut at any point of a command leaves the table of before or of after
\* that command, and an erasure all of it or nothing.  PortMap implements the
\* table of PortMapStore.
THEOREM ImplementsStore == ASSUME OneAtATime PROVE Spec => StoreSpec
<1>1. Init => Store!StoreInit
  <2>1. ASSUME Init PROVE Stored(flash) = Store!Empty /\ Held = Store!Empty
    <3>1. \A s \in Slots : ~BeingSaved(s)
      BY <2>1 DEF Init, BeingSaved
    <3>2. Held = Stored(tab)
      BY <2>1, <3>1, InitType, HeldAtRest
    <3> QED BY <2>1, <3>2, EmptyStored DEF Init
  <2> QED BY <2>1 DEF Store!StoreInit
<1>2. StoreInv /\ [Next]_vars => StoreInv' /\ [Store!StoreNext]_<<Stored(flash), Held>>
  BY StoreInvStep, StoreStep
<1> QED BY <1>1, <1>2, StoreInitial, PTL DEF Spec, StoreSpec, Store!StoreSpec

-----------------------------------------------------------------------------
(* Any number of command tasks, in any overlap: nothing stays unsaved.      *)

\* What makes QuietIsSaved inductive: a table not yet saved, and a blob not
\* committed, are somebody's next step.
SavePending ==
  /\ (\A t \in Tasks : pc[t] \notin {"dest", "valid", "blob"})
        => blob \in {tab, EmptyTab} \/ (NvsReadFails = TRUE /\ tab = EmptyTab)
  /\ (\A t \in Tasks : pc[t] \notin {"commit", "erased"}) => flash = blob

\* A task that changes the table has yet to save it, and one that has set the
\* blob has yet to commit it; no other step touches them.
LEMMA PendingStep == TypeOK /\ SavePending /\ [Next]_vars => SavePending'
<1> SUFFICES ASSUME TypeOK, SavePending, [Next]_vars PROVE SavePending'
  OBVIOUS
<1>1. CASE Restart
  BY <1>1 DEF Restart, LoadedTabs, SavePending
<1>2. CASE UNCHANGED <<tab, blob, flash, pc>>
  BY <1>2 DEF SavePending
<1>3. CASE Event
  BY <1>3, <1>2, EventFrame
<1>4. ASSUME NEW t \in Tasks, Command(t) PROVE SavePending'
  <2>1. pc \in [Tasks -> PCs]
    BY DEF TypeOK
  <2>2. ASSUME NEW p \in PCs, pc' = [pc EXCEPT ![t] = p],
               UNCHANGED <<tab, blob, flash>>, pc[t] \notin {"dest", "valid", "blob", "commit", "erased"},
               p \notin {"commit", "erased"}
        PROVE  SavePending'
    BY <2>1, <2>2 DEF SavePending
  <2>3. ASSUME NEW k \in {"add", "del"}, NEW r \in Requests, Begin(t, k, r) PROVE SavePending'
    BY <2>2, <2>3 DEF Begin, Goto, PCs, Writing, Saving
  <2>4. CASE ScanAdd(t)
    BY <2>2, <2>4 DEF ScanAdd, Goto, PCs, Writing, Saving
  <2>5. CASE Full(t)
    BY <1>1, <2>2, <2>5 DEF Full, Goto, PCs, Writing, Saving
  <2>6. CASE ScanDel(t)
    BY <2>2, <2>6 DEF ScanDel, Goto, PCs, Writing, Saving
  <2>7. CASE CallNapt(t)
    BY <2>2, <2>7 DEF CallNapt, Goto, PCs, Writing, Saving
  <2>8. CASE WriteKey(t) \/ WriteDest(t) \/ WriteValid(t) \/ WriteInvalid(t)
    <3>1. /\ pc' = [pc EXCEPT ![t] = pc'[t]] /\ pc'[t] \in {"dest", "valid", "blob"}
          /\ pc[t] \notin {"commit", "erased"} /\ blob' = blob /\ flash' = flash
      BY <2>1, <2>8 DEF WriteKey, WriteDest, WriteValid, WriteInvalid, Goto
    <3>2. \A u \in Tasks : pc'[u] \notin {"commit", "erased"} => pc[u] \notin {"commit", "erased"}
      BY <2>1, <3>1
    <3> QED BY <3>1, <3>2 DEF SavePending
  <2>9. CASE SetBlob(t)
    <3>1. pc'[t] = "commit" /\ blob' = tab'
      BY <2>1, <2>9 DEF SetBlob, Goto
    <3> QED BY <3>1 DEF SavePending
  <2>10. CASE Commit(t) \/ EraseCommit(t)
    <3>1. /\ flash' = blob' /\ blob' = blob /\ tab' = tab
          /\ \A u \in Tasks : pc[u] \in {"dest", "valid", "blob"} => pc'[u] = pc[u]
      BY <2>1, <2>10 DEF Commit, EraseCommit, Goto
    <3> QED BY <3>1 DEF SavePending
  <2>11. CASE EraseTable(t)
    <3>1. pc'[t] = "erased" /\ blob' = EmptyTab
      BY <2>1, <2>11 DEF EraseTable, Goto
    <3> QED BY <3>1 DEF SavePending
  <2> QED BY <1>4, <2>3, <2>4, <2>5, <2>6, <2>7, <2>8, <2>9, <2>10, <2>11
          DEF Command, PostAdd, PostDel, Console
<1> QED BY <1>1, <1>2, <1>3, <1>4 DEF Next, vars

\* Whatever the number of tasks and however their commands overlap, on the same
\* slots or not: once they are done the flash holds what the RAM does, or nothing
\* since it was erased.
THEOREM QuietSaved == Spec => []QuietIsSaved
<1>1. Init => SavePending
  BY DEF Init, SavePending
<1>2. SavePending => QuietIsSaved
  BY ConstantsAssumption DEF SavePending, QuietIsSaved, AllIdle
<1> QED BY <1>1, <1>2, PendingStep, TypeCorrect, PTL DEF Spec
-----------------------------------------------------------------------------
(* Commands and GOT_IP handlers that wait for each other, in routing mode:   *)
(* what lwIP forwards.                                                       *)

InTurn == Serialized = TRUE /\ BridgeMode = FALSE

\* The handler only runs while no command does.
Ordered == ev_pc # "idle" => AllIdle

HasRule(T, k, d) == \E s \in Slots : T[s].valid /\ T[s].key = k /\ T[s].dest = d

\* Outside the handler a mapping has its rule, or a command is about to remove it.
Forwarded ==
  ev_pc = "idle" => \A k \in Keys : napt[k] # Unmapped =>
     \/ napt[k].maddr = my_ip /\ HasRule(tab, k, napt[k].dest)
     \/ \E t \in Tasks : kind[t] = "del" /\ pc[t] \in {"blob", "commit", "napt"} /\ rule[t].key = k

\* What apply_portmap_tab has mapped of table T when it comes to slot i.
Before(T, k, i) == {s \in Slots : s < i /\ T[s].valid /\ T[s].key = k}
Upto(T, ip, i) ==
  [k \in Keys |-> IF Before(T, k, i) = {} THEN Unmapped
                  ELSE [maddr |-> ip, dest |-> T[Max(Before(T, k, i))].dest]]

\* The walks of the handler.
Walked ==
  /\ ev_pc = "delete" => \A k \in Keys : napt[k] # Unmapped =>
       \E s \in Slots : s >= ev_i /\ tab[s].valid /\ tab[s].key = k
  /\ ev_pc \in {"check", "key", "call"} => napt = Upto(tab, my_ip, ev_i)
  /\ ev_pc \in {"key", "call"} => tab[ev_i].valid
  /\ ev_pc = "call" => ev_key = tab[ev_i].key

TurnInv == OwnInv /\ Alone /\ Ordered /\ Forwarded /\ Walked

\* A command only begins when nothing runs, and the handler when no command does.
LEMMA OrderedStep == InTurn /\ TypeOK /\ Ordered /\ [Next]_vars => Ordered'
<1> SUFFICES ASSUME InTurn, TypeOK, Ordered, [Next]_vars PROVE Ordered'
  OBVIOUS
<1>1. CASE UNCHANGED <<pc, ev_pc>>
  BY <1>1 DEF Ordered, AllIdle
<1>2. CASE Restart
  BY <1>2 DEF Restart, Ordered
<1>3. CASE Event
  <2>1. pc' = pc
    BY <1>3, EventFrame
  <2>2. ev_pc' # "idle" => AllIdle
    BY <1>3 DEF Event, GotIp, EvDelete, EvDeleted, EvCheck, EvKey, EvCall, EvReturn, InTurn, Ordered
  <2> QED BY <2>1, <2>2 DEF Ordered, AllIdle
<1>4. ASSUME NEW t \in Tasks, Command(t), ~Restart PROVE Ordered'
  <2>1. ev_pc' = ev_pc /\ ev_pc = "idle"
    BY <1>4 DEF Command, PostAdd, PostDel, Console, Begin, EraseTable, ScanAdd, Full, WriteKey, WriteDest,
       WriteValid, ScanDel, WriteInvalid, SetBlob, Commit, CallNapt, EraseCommit, InTurn, Quiet, Ordered, AllIdle, ev
  <2> QED BY <2>1 DEF Ordered
<1> QED BY <1>1, <1>2, <1>3, <1>4 DEF Next, vars

\* apply_portmap_tab on an empty NAPT table, done: all slots are before its end.
LEMMA UptoEnd == Upto(tab, my_ip, PORTMAP_MAX + 1) = Applied(tab, my_ip)
<1>1. \A k \in Keys : Before(tab, k, PORTMAP_MAX + 1) = {s \in Slots : tab[s].valid /\ tab[s].key = k}
  BY ConstantsAssumption DEF Before, Slots
<1> QED BY <1>1 DEF Upto, Applied

\* One slot further: a rule takes the place of an earlier one of its key.
LEMMA UptoNext ==
  ASSUME TypeOK, NEW i \in Slots
  PROVE  /\ ~tab[i].valid => Upto(tab, my_ip, i + 1) = Upto(tab, my_ip, i)
         /\ tab[i].valid =>
              Upto(tab, my_ip, i + 1) = [Upto(tab, my_ip, i) EXCEPT ![tab[i].key] = [maddr |-> my_ip, dest |-> tab[i].dest]]
<1>1. \A k \in Keys : Before(tab, k, i + 1) =
        IF tab[i].valid /\ tab[i].key = k THEN Before(tab, k, i) \cup {i} ELSE Before(tab, k, i)
  BY ConstantsAssumption DEF Before, Slots
<1>2. ASSUME NEW k \in Keys, tab[i].valid, tab[i].key = k
      PROVE  Before(tab, k, i + 1) # {} /\ Max(Before(tab, k, i + 1)) = i
  <2>1. i \in Before(tab, k, i + 1) /\ Before(tab, k, i + 1) \in SUBSET (1..PORTMAP_MAX)
    BY <1>2, ConstantsAssumption DEF Before, Slots
  <2>2. /\ Max(Before(tab, k, i + 1)) \in Before(tab, k, i + 1)
        /\ i =< Max(Before(tab, k, i + 1))
    BY <2>1, MaxIsMember, ConstantsAssumption
  <2>3. \A n \in Before(tab, k, i + 1) : n \in Nat /\ n =< i
    BY ConstantsAssumption DEF Before, Slots
  <2> QED BY <2>1, <2>2, <2>3, ConstantsAssumption DEF Slots
<1>3. CASE ~tab[i].valid
  BY <1>1, <1>3 DEF Upto
<1>4. CASE tab[i].valid
  <2>1. \A k \in Keys : Upto(tab, my_ip, i + 1)[k] = IF k = tab[i].key THEN [maddr |-> my_ip, dest |-> tab[i].dest]
                                         ELSE Upto(tab, my_ip, i)[k]
    BY <1>1, <1>2, <1>4 DEF Upto
  <2> QED BY <1>4, <2>1 DEF Upto
<1> QED BY <1>3, <1>4
\* What Applied leaves maps no key that has no rule.
LEMMA AppliedHasRules ==
  ASSUME NEW T, NEW ip, NEW k \in Keys, Applied(T, ip)[k] # Unmapped
  PROVE  Applied(T, ip)[k].maddr = ip /\ HasRule(T, k, Applied(T, ip)[k].dest)
<1> DEFINE S == {s \in Slots : T[s].valid /\ T[s].key = k}
<1>1. S # {} /\ Applied(T, ip)[k] = [maddr |-> ip, dest |-> T[Max(S)].dest]
  BY DEF Applied
<1>2. Max(S) \in S
  BY <1>1, MaxIsMember, ConstantsAssumption DEF Slots
<1>3. Max(S) \in Slots /\ T[Max(S)].valid /\ T[Max(S)].key = k
  BY <1>2
<1> HIDE DEF S
<1>4. Applied(T, ip)[k].maddr = ip /\ Applied(T, ip)[k].dest = T[Max(S)].dest
  BY <1>1
<1> QED BY <1>3, <1>4 DEF HasRule

LEMMA RestartForwards == Restart => Forwarded' /\ Walked'
<1> SUFFICES ASSUME Restart PROVE Forwarded' /\ Walked'
  OBVIOUS
<1>1. Walked'
  BY DEF Restart, Walked
<1>2. CASE StaticIp = NoAddr
  BY <1>1, <1>2 DEF Restart, Forwarded
<1>3. CASE StaticIp # NoAddr
  <2>1. napt' = Applied(tab', my_ip')
    BY <1>3 DEF Restart
  <2>2. \A k \in Keys : Applied(tab', my_ip')[k] # Unmapped =>
          Applied(tab', my_ip')[k].maddr = my_ip' /\ HasRule(tab', k, Applied(tab', my_ip')[k].dest)
    BY AppliedHasRules
  <2> QED BY <1>1, <2>1, <2>2 DEF Forwarded
<1> QED BY <1>1, <1>2, <1>3

\* The handler: from the mappings of rules to no mapping, to those of the rules.
LEMMA EventForwards == InTurn /\ TurnInv /\ Event => Forwarded' /\ Walked'
<1> SUFFICES ASSUME InTurn, TurnInv, Event PROVE Forwarded' /\ Walked'
  OBVIOUS
<1>t. TypeOK /\ tab' = tab /\ pc' = pc /\ kind' = kind /\ rule' = rule
  BY EventFrame DEF TurnInv, OwnInv
<1>1. ASSUME NEW a \in Addrs, GotIp(a) PROVE Forwarded' /\ Walked'
  <2>1. ev_pc' = "delete" /\ ev_i' = 1 /\ ev_pc = "idle" /\ AllIdle /\ napt' = napt
    BY <1>1 DEF GotIp, InTurn
  <2>2. \A k \in Keys : napt[k] # Unmapped => HasRule(tab, k, napt[k].dest)
    BY <2>1 DEF TurnInv, Forwarded, AllIdle
  <2>3. \A s \in Slots : s >= 1
    BY ConstantsAssumption DEF Slots
  <2> QED BY <1>t, <2>1, <2>2, <2>3 DEF Forwarded, Walked, HasRule
<1>2. CASE EvDelete
  <2>1. ev_pc = "delete" /\ ev_pc' = "delete" /\ ev_i \in Slots /\ ev_i' = ev_i + 1
    BY <1>2 DEF EvDelete
  <2>2. ASSUME NEW k \in Keys, napt'[k] # Unmapped
        PROVE  \E s \in Slots : s >= ev_i + 1 /\ tab[s].valid /\ tab[s].key = k
    <3>1. napt[k] # Unmapped /\ ~(tab[ev_i].valid /\ tab[ev_i].key = k)
      BY <1>2, <1>t, <2>2 DEF EvDelete, TypeOK
    <3>2. PICK s \in Slots : s >= ev_i /\ tab[s].valid /\ tab[s].key = k
      BY <2>1, <3>1 DEF TurnInv, Walked
    <3>3. s # ev_i
      BY <3>1, <3>2
    <3> QED BY <2>1, <3>2, <3>3, ConstantsAssumption DEF Slots
  <2> QED BY <1>t, <2>1, <2>2 DEF Forwarded, Walked
<1>3. CASE EvDeleted
  <2>1. ev_i = PORTMAP_MAX + 1 /\ ev_pc = "delete" /\ napt' = napt /\ ev_pc' = "check" /\ ev_i' = 1
        /\ my_ip' = my_ip
    BY <1>3, <1>t, ConstantsAssumption DEF EvDeleted, TypeOK, Slots
  <2>2. \A k \in Keys : napt[k] = Unmapped
    BY <2>1, ConstantsAssumption DEF TurnInv, Walked, Slots
  <2>3. \A k \in Keys : Before(tab, k, 1) = {}
    BY ConstantsAssumption DEF Before, Slots
  <2>4. napt = Upto(tab, my_ip, 1)
    BY <1>t, <2>2, <2>3 DEF Upto, TypeOK
  <2> QED BY <1>t, <2>1, <2>4 DEF Forwarded, Walked
<1>4. CASE EvCheck
  <2>1. ev_pc = "check" /\ ev_i \in Slots /\ napt' = napt /\ my_ip' = my_ip /\ napt = Upto(tab, my_ip, ev_i)
    BY <1>4 DEF EvCheck, TurnInv, Walked
  <2>2. CASE tab[ev_i].valid
    <3>1. ev_pc' = "key" /\ ev_i' = ev_i
      BY <1>4, <2>2 DEF EvCheck
    <3> QED BY <1>t, <2>1, <2>2, <3>1 DEF Forwarded, Walked
  <2>3. CASE ~tab[ev_i].valid
    <3>1. ev_pc' = "check" /\ ev_i' = ev_i + 1
      BY <1>4, <2>3 DEF EvCheck
    <3>2. Upto(tab, my_ip, ev_i + 1) = Upto(tab, my_ip, ev_i)
      BY <1>t, <2>1, <2>3, UptoNext
    <3> QED BY <1>t, <2>1, <3>1, <3>2 DEF Forwarded, Walked
  <2> QED BY <2>2, <2>3
<1>5. CASE EvKey
  <2>1. /\ ev_pc = "key" /\ ev_pc' = "call" /\ ev_i' = ev_i /\ napt' = napt /\ my_ip' = my_ip
        /\ ev_key' = tab[ev_i].key
    BY <1>5 DEF EvKey
  <2> QED BY <1>t, <2>1 DEF Forwarded, Walked, TurnInv
<1>6. CASE EvCall
  <2>1. /\ ev_pc = "call" /\ ev_pc' = "check" /\ ev_i \in Slots /\ ev_i' = ev_i + 1 /\ my_ip' = my_ip
        /\ napt = Upto(tab, my_ip, ev_i) /\ tab[ev_i].valid /\ ev_key = tab[ev_i].key
    BY <1>6, <1>t DEF EvCall, TurnInv, Walked, TypeOK
  <2>2. napt' = Upto(tab, my_ip, ev_i + 1)
    BY <1>6, <1>t, <2>1, UptoNext DEF EvCall
  <2> QED BY <1>t, <2>1, <2>2 DEF Forwarded, Walked
<1>7. CASE EvReturn
  <2>1. /\ ev_pc = "check" /\ ev_pc' = "idle" /\ ev_i = PORTMAP_MAX + 1 /\ napt' = napt
        /\ my_ip' = my_ip /\ napt = Upto(tab, my_ip, ev_i)
    BY <1>7, <1>t, ConstantsAssumption DEF EvReturn, TurnInv, Walked, TypeOK, Slots
  <2>2. napt' = Applied(tab, my_ip)
    BY <2>1, UptoEnd
  <2>3. Forwarded'
    BY <1>t, <2>1, <2>2, AppliedHasRules DEF Forwarded, HasRule
  <2> QED BY <2>1, <2>3 DEF Walked
<1> QED BY <1>1, <1>2, <1>3, <1>4, <1>5, <1>6, <1>7 DEF Event
\* A command: from the clearing of its slot to its call of lwIP a deleted rule
\* may still be mapped; an added one is in its slot when it is mapped.
LEMMA CommandForwards ==
  ASSUME InTurn, TurnInv, NEW t \in Tasks, Command(t), ~Restart
  PROVE  Forwarded' /\ Walked'
<1>t. /\ tab \in [Slots -> Entry] /\ slot[t] \in Slots
      /\ pc \in [Tasks -> PCs] /\ kind \in [Tasks -> {"add", "del"}]
      /\ rule \in [Tasks -> Requests \cup {NoRule}]
      /\ pc[t] \notin {"idle", "erased"} => rule[t] \in Requests /\ rule[t].key \in Keys
      /\ napt \in [Keys -> Mapping \cup {Unmapped}]
  BY ConstantsAssumption DEF TurnInv, OwnInv, TypeOK
<1>k. pc[t] \in Owning => Kept(t)
  BY DEF TurnInv, OwnInv, Alone
<1>e. ev_pc' = ev_pc /\ ev_pc = "idle" /\ my_ip' = my_ip
  BY DEF Command, PostAdd, PostDel, Console, Begin, EraseTable, ScanAdd, Full, WriteKey, WriteDest, WriteValid,
     ScanDel, WriteInvalid, SetBlob, Commit, CallNapt, EraseCommit, InTurn, Quiet, TurnInv, Ordered, AllIdle, ev
<1>i. \A u \in Tasks \ {t} : pc[u] = "idle"
  <2>1. CASE pc[t] # "idle"
    BY <2>1 DEF TurnInv, Alone
  <2>2. CASE pc[t] = "idle"
    BY <2>2 DEF Command, PostAdd, PostDel, Console, Begin, EraseTable, ScanAdd, Full, WriteKey, WriteDest, WriteValid,
       ScanDel, WriteInvalid, SetBlob, Commit, CallNapt, EraseCommit, InTurn, Quiet, AllIdle
  <2> QED BY <2>1, <2>2
<1>w. Walked'
  BY <1>e DEF Walked
<1> DEFINE Pending(k) == kind[t] = "del" /\ pc[t] \in {"blob", "commit", "napt"} /\ rule[t].key = k
<1>f. ASSUME NEW k \in Keys, napt[k] # Unmapped
      PROVE  (napt[k].maddr = my_ip /\ HasRule(tab, k, napt[k].dest)) \/ Pending(k)
  BY <1>e, <1>f, <1>i DEF TurnInv, Forwarded
<1> SUFFICES ASSUME NEW k \in Keys, napt'[k] # Unmapped
             PROVE  (napt'[k].maddr = my_ip /\ HasRule(tab', k, napt'[k].dest)) \/ Pending(k)'
  BY <1>e, <1>w DEF Forwarded
<1>1. CASE CallNapt(t)
  <2>1. napt' = [napt EXCEPT ![rule[t].key] =
                   IF kind[t] = "add" THEN [maddr |-> my_ip, dest |-> rule[t].dest] ELSE Unmapped]
        /\ tab' = tab /\ pc[t] = "napt"
    BY <1>1 DEF CallNapt
  <2>2. CASE k = rule[t].key
    <3>1. kind[t] = "add" /\ napt'[k] = [maddr |-> my_ip, dest |-> rule[t].dest]
      BY <1>t, <2>1, <2>2
    <3>2. Stored(tab)[slot[t]] = rule[t] /\ rule[t] # NoRule
      BY <1>k, <1>t, <2>1, <3>1, ConstantsAssumption DEF Kept, Target, Owning, Saving
    <3>3. tab[slot[t]].valid /\ RuleOf(tab[slot[t]]) = rule[t]
      BY <1>t, <3>2 DEF Stored
    <3>4. tab[slot[t]].key = rule[t].key /\ tab[slot[t]].dest = rule[t].dest
      BY <3>3 DEF RuleOf
    <3> QED BY <1>t, <2>1, <2>2, <3>1, <3>3, <3>4 DEF HasRule
  <2>3. CASE k # rule[t].key
    BY <1>f, <1>t, <2>1, <2>3
  <2> QED BY <2>2, <2>3
<1>2. CASE SetBlob(t) \/ Commit(t)
  <2>1. Pending(k) => Pending(k)'
    BY <1>2, <1>t DEF SetBlob, Commit, Goto, args
  <2> QED BY <1>2, <1>f, <2>1 DEF SetBlob, Commit
<1>3. CASE WriteInvalid(t)
  <2>1. /\ napt' = napt /\ ~Pending(k) /\ kind[t] = "del" /\ pc'[t] = "blob" /\ kind' = kind /\ rule' = rule
        /\ tab' = [tab EXCEPT ![slot[t]].valid = FALSE] /\ RuleOf(tab[slot[t]]) = rule[t]
    BY <1>3, <1>k, <1>t DEF WriteInvalid, Goto, args, Kept, Owning, Writing
  <2>2. napt[k].maddr = my_ip /\ HasRule(tab, k, napt[k].dest)
    BY <1>f, <2>1
  <2>3. PICK s \in Slots : tab[s].valid /\ tab[s].key = k /\ tab[s].dest = napt[k].dest
    BY <2>2 DEF HasRule
  <2>4. CASE s = slot[t]
    <3>1. rule[t].key = k
      BY <2>1, <2>3, <2>4 DEF RuleOf
    <3> QED BY <2>1, <3>1
  <2>5. CASE s # slot[t]
    <3>1. tab'[s] = tab[s]
      BY <1>t, <2>1, <2>5
    <3> QED BY <2>1, <2>2, <2>3, <3>1 DEF HasRule
  <2> QED BY <2>4, <2>5
<1>4. CASE WriteKey(t) \/ WriteDest(t) \/ WriteValid(t)
  <2>1. napt' = napt /\ ~Pending(k) /\ ~tab[slot[t]].valid
    BY <1>4, <1>k DEF WriteKey, WriteDest, WriteValid, Kept, Owning, Writing
  <2>2. \A s \in Slots \ {slot[t]} : tab'[s] = tab[s]
    BY <1>4, <1>t DEF WriteKey, WriteDest, WriteValid
  <2>3. napt[k].maddr = my_ip /\ HasRule(tab, k, napt[k].dest)
    BY <1>f, <2>1
  <2> QED BY <2>1, <2>2, <2>3 DEF HasRule
<1>5. CASE UNCHANGED <<tab, napt>> /\ pc[t] \in {"idle", "scan", "erased"}
  <2>1. ~Pending(k)
    BY <1>5
  <2> QED BY <1>5, <1>f, <2>1
<1> QED BY <1>1, <1>2, <1>3, <1>4, <1>5 
        DEF Command, PostAdd, PostDel, Console, Begin, ScanAdd, Full, ScanDel, EraseTable, EraseCommit

LEMMA TurnStep == InTurn /\ TurnInv /\ [Next]_vars => TurnInv'
<1> SUFFICES ASSUME InTurn, TurnInv, [Next]_vars PROVE Forwarded' /\ Walked'
  BY OwnStep, AloneStep, OrderedStep DEF TurnInv, OwnInv, OneAtATime, InTurn
<1>1. CASE UNCHANGED vars
  BY <1>1 DEF vars, TurnInv, Forwarded, Walked
<1> QED BY <1>1, RestartForwards, EventForwards, CommandForwards DEF Next

LEMMA TurnInitial == Init => TurnInv
BY StoreInitial DEF Init, StoreInv, TurnInv, Ordered, AllIdle, Forwarded, Walked

LEMMA TurnAlways == ASSUME InTurn PROVE Spec => []TurnInv
<1>1. TurnInv /\ [Next]_vars => TurnInv'
  BY TurnStep
<1> QED BY <1>1, TurnInitial, PTL DEF Spec

\* With commands of any number of tasks that wait for each other and for the
\* handler: nothing is forwarded that no rule of the table asks for.
THEOREM ForwardsOnly == ASSUME InTurn PROVE Spec => []ForwardsOnlyRules
<1>1. TurnInv => ForwardsOnlyRules
  <2> SUFFICES ASSUME TurnInv, Quiet, NEW k \in Keys, napt[k] # Unmapped
               PROVE  /\ napt[k].maddr = my_ip
                      /\ \E s \in Slots : Stored(tab)[s] = [key |-> k, dest |-> napt[k].dest]
    BY DEF ForwardsOnlyRules
  <2>1. napt[k].maddr = my_ip /\ HasRule(tab, k, napt[k].dest)
    BY DEF TurnInv, Forwarded, Quiet, AllIdle
  <2> QED BY <2>1 DEF HasRule, Stored, RuleOf
<1> QED BY <1>1, TurnAlways, PTL

\* And a handler that ends, or a restart with a static address, leaves in lwIP
\* the rules of the table and nothing else, the last of each key.
THEOREM ReconnectsWhole == ASSUME InTurn PROVE Spec => ReconnectRestores
<1> DEFINE Restored ==
             my_ip' # NoAddr /\ ((ev_pc # "idle" /\ ev_pc' = "idle") \/ Restart)
               => napt' = Applied(tab', my_ip')
<1>1. ASSUME TurnInv, [Next]_vars PROVE [Restored]_vars
  <2> SUFFICES ASSUME my_ip' # NoAddr, (ev_pc # "idle" /\ ev_pc' = "idle") \/ Restart
               PROVE  napt' = Applied(tab', my_ip')
    OBVIOUS
  <2>1. CASE Restart
    BY <2>1 DEF Restart
  <2>2. CASE ~Restart
    <3>1. AllIdle
      BY <1>1, <2>2 DEF TurnInv, Ordered
    <3>2. ~ \E t \in Tasks : Command(t)
      BY <2>2, <3>1 DEF AllIdle, Command, PostAdd, PostDel, Console, Begin, EraseTable, ScanAdd, Full, WriteKey,
         WriteDest, WriteValid, ScanDel, WriteInvalid, SetBlob, Commit, CallNapt, EraseCommit, ev
    <3>3. EvReturn
      BY <1>1, <2>2, <3>2 DEF Next, vars, Event, GotIp, EvDelete, EvDeleted, EvCheck, EvKey, EvCall
    <3>4. ev_i = PORTMAP_MAX + 1 /\ napt = Upto(tab, my_ip, ev_i) /\ UNCHANGED <<napt, tab, my_ip>>
      BY <1>1, <3>3, ConstantsAssumption DEF EvReturn, TurnInv, OwnInv, TypeOK, Walked, Slots
    <3> QED BY <3>4, UptoEnd
  <2> QED BY <2>1, <2>2
<1> QED BY <1>1, TurnAlways, PTL DEF Spec, ReconnectRestores
=============================================================================
