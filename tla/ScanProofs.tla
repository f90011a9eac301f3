----------------------------- MODULE ScanProofs -----------------------------
(***************************************************************************)
(* Proofs about the life of a scan result: for any number of scans, views  *)
(* and browsers, and with ScanPick's picks, pages and forms around it; and *)
(* about what becomes of texts of any length on their way through these.   *)
(***************************************************************************)
EXTENDS ScanPick, SequenceTheorems, WellFoundedInduction, TLAPS

\* A result that nobody has viewed has no views counted, but for the moment
\* between its own writing and the reset of the counter, or if the power failed
\* in such a moment.  Only what was viewed three times is being deleted, and a
\* scan that runs has a number.
CounterIsOwn ==
  /\ ~cut /\ pc # "stored" /\ scan_result # None /\ ~viewed => result_shown = 0
  /\ pc = "erase_result" => result_shown >= 3
  /\ pc = "erase_shown" => scan_result = None
  /\ pc = "scanning" => scans > 0

\* Unless a failed scan has erased it, the counter has begun with the first
\* view and runs ahead of the restarts since: once the boot has counted them, by
\* one at least.
CounterAhead ==
  scan_result # None /\ ~uncounted =>
    /\ IF viewed THEN result_shown > 0 ELSE boots = 0
    /\ boots = 0 \/ boots =< result_shown
    /\ pc \notin {"boot", "erase_result"} => boots =< 2 /\ (boots = 0 \/ boots < result_shown)

ScanInv == TypeOK /\ CounterIsOwn /\ CounterAhead

-----------------------------------------------------------------------------
LEMMA ScanInit == Init => ScanInv
<1> SUFFICES ASSUME Init PROVE ScanInv
  OBVIOUS
<1>1. TypeOK
  <2>1. viewed \in BOOLEAN /\ uncounted \in BOOLEAN /\ cut \in BOOLEAN
    BY Zenon DEF Init
  <2> QED BY <2>1, ScanAssumption DEF Init, TypeOK, None
<1>2. CounterIsOwn
  BY DEF Init, CounterIsOwn
<1>3. CounterAhead
  BY DEF Init, CounterAhead
<1> QED BY <1>1, <1>2, <1>3 DEF ScanInv

LEMMA ScanStep == ScanInv /\ [Next]_vars => ScanInv'
<1> SUFFICES ASSUME ScanInv, [Next]_vars PROVE ScanInv'
  OBVIOUS
<1>0. TypeOK /\ CounterIsOwn /\ CounterAhead
  BY DEF ScanInv
<1>1. CASE Boot
  <2>1. TypeOK'
    BY <1>0, <1>1, ScanAssumption DEF Boot, TypeOK, None, history
  <2>2. CounterIsOwn'
    BY <1>0, <1>1 DEF Boot, TypeOK, CounterIsOwn, None, history
  <2>3. CounterAhead'
    BY <1>0, <1>1 DEF Boot, TypeOK, CounterAhead, None, history
  <2> QED BY <2>1, <2>2, <2>3 DEF ScanInv
<1>2. CASE EraseResult
  <2>1. TypeOK'
    BY <1>0, <1>2, ScanAssumption DEF EraseResult, TypeOK, None, history
  <2>2. CounterIsOwn'
    BY <1>0, <1>2 DEF EraseResult, TypeOK, CounterIsOwn, None, history
  <2>3. CounterAhead'
    BY <1>0, <1>2 DEF EraseResult, TypeOK, CounterAhead, None, history
  <2> QED BY <2>1, <2>2, <2>3 DEF ScanInv
<1>3. CASE EraseShown
  <2>1. TypeOK'
    BY <1>0, <1>3, ScanAssumption DEF EraseShown, TypeOK, None, history
  <2>2. CounterIsOwn'
    BY <1>0, <1>3 DEF EraseShown, TypeOK, CounterIsOwn, None, history
  <2>3. CounterAhead'
    BY <1>0, <1>3 DEF EraseShown, TypeOK, CounterIsOwn, CounterAhead, None, history
  <2> QED BY <2>1, <2>2, <2>3 DEF ScanInv
<1>4. CASE ViewResult
  <2>1. TypeOK'
    BY <1>0, <1>4, ScanAssumption DEF ViewResult, TypeOK, None, history
  <2>2. CounterIsOwn'
    BY <1>0, <1>4 DEF ViewResult, TypeOK, CounterIsOwn, None, history
  <2>3. CounterAhead'
    BY <1>0, <1>4 DEF ViewResult, TypeOK, CounterAhead, None, history
  <2> QED BY <2>1, <2>2, <2>3 DEF ScanInv
<1>5. CASE Scan
  <2>1. TypeOK'
    BY <1>0, <1>5, ScanAssumption DEF Scan, TypeOK, None, history
  <2>2. CounterIsOwn'
    BY <1>0, <1>5 DEF Scan, TypeOK, CounterIsOwn, None, history
  <2>3. CounterAhead'
    BY <1>0, <1>5 DEF Scan, TypeOK, CounterAhead, None, history
  <2> QED BY <2>1, <2>2, <2>3 DEF ScanInv
<1>6. CASE Store
  <2>1. TypeOK'
    <3>1. viewed' \in BOOLEAN /\ uncounted' \in BOOLEAN
      BY <1>0, <1>6, Zenon DEF Store, TypeOK
    <3> QED BY <3>1, <1>0, <1>6, ScanAssumption DEF Store, TypeOK, None, history
  <2>2. CounterIsOwn'
    BY <1>0, <1>6 DEF Store, TypeOK, CounterIsOwn, None, history
  <2>3. CounterAhead'
    BY <1>0, <1>6 DEF Store, TypeOK, CounterAhead, None, history
  <2> QED BY <2>1, <2>2, <2>3 DEF ScanInv
<1>7. CASE ResetShown
  <2>1. TypeOK'
    BY <1>0, <1>7, ScanAssumption DEF ResetShown, TypeOK, None, history
  <2>2. CounterIsOwn'
    BY <1>0, <1>7 DEF ResetShown, TypeOK, CounterIsOwn, None, history
  <2>3. CounterAhead'
    BY <1>0, <1>7 DEF ResetShown, TypeOK, CounterAhead, None, history
  <2> QED BY <2>1, <2>2, <2>3 DEF ScanInv
<1>8. CASE Restart
  <2>1. TypeOK'
    BY <1>0, <1>8, ScanAssumption DEF Restart, UpTo3, TypeOK, None, history
  <2>2. CounterIsOwn'
    BY <1>0, <1>8 DEF Restart, UpTo3, TypeOK, CounterIsOwn, None, history
  <2>3. CounterAhead'
    BY <1>0, <1>8 DEF Restart, UpTo3, TypeOK, CounterIsOwn, CounterAhead, None, history
  <2> QED BY <2>1, <2>2, <2>3 DEF ScanInv
<1>9. CASE UNCHANGED vars
  BY <1>0, <1>9 DEF vars, history, ScanInv, TypeOK, CounterIsOwn, CounterAhead
<1> QED BY <1>1, <1>2, <1>3, <1>4, <1>5, <1>6, <1>7, <1>8, <1>9 DEF Next

LEMMA ScanAlways == Spec => []ScanInv
BY ScanInit, ScanStep, PTL DEF Spec

-----------------------------------------------------------------------------
\* ScanPick does nothing to a scan result that ScanResult does not.
LEMMA PickStep == [NextPick]_<<vars, pick>> => [Next]_vars
<1> SUFFICES ASSUME [NextPick]_<<vars, pick>> PROVE [Next]_vars
  OBVIOUS
<1>1. CASE BootUplink \/ EraseFound \/ StoreFound \/ RestartPick
  BY <1>1 DEF BootUplink, EraseFound, StoreFound, RestartPick, Next
<1>2. CASE SetPasswd
  BY <1>2 DEF SetPasswd
<1>3. CASE (EraseShown \/ ResetShown) /\ UNCHANGED pick
  BY <1>3 DEF Next
<1>4. CASE Scan /\ Serving /\ UNCHANGED pick
  BY <1>4 DEF Next
<1>5. ASSUME NEW b \in Browsers,
             ShowResult(b) \/ index_post_handler(b) \/ index_get_handler(b) \/ apply_post_handler(b)
      PROVE [Next]_vars
  BY <1>5 DEF ShowResult, index_post_handler, index_get_handler, apply_post_handler, Next
<1>6. CASE UNCHANGED <<vars, pick>>
  BY <1>6
<1> QED BY <1>1, <1>2, <1>3, <1>4, <1>5, <1>6 DEF NextPick

\* Whatever browsers pick, show and post: a scan result lives as ScanResult
\* says.
THEOREM PicksKeepScans == SpecPick => Spec
<1>1. InitPick => Init
  BY DEF InitPick
<1> QED BY <1>1, PickStep, PTL DEF SpecPick, Spec

\* Every variable of ScanResult has its type; the counter stays in its bounds.
THEOREM TypeCorrect == SpecPick => []TypeOK
<1>1. ScanInv => TypeOK
  BY DEF ScanInv
<1> QED BY <1>1, ScanAlways, PicksKeepScans, PTL

\* A new result leads the start page to it until it is viewed, for any number
\* of scans, views, restarts and browsers.
THEOREM UnseenOffered == SpecPick => []UnseenIsOffered
<1>1. ScanInv => UnseenIsOffered
  BY DEF ScanInv, CounterIsOwn, UnseenIsOffered, Redirects
<1> QED BY <1>1, ScanAlways, PicksKeepScans, PTL

\* A result that was viewed is gone after three restarts since the first view,
\* wherever the power fails, unless a failed scan has erased its counter.
THEOREM Forgotten == SpecPick => []ForgottenInTime
<1>1. ScanInv => ForgottenInTime
  <2> SUFFICES ASSUME ScanInv, pc = "up", scan_result # None, ~uncounted PROVE boots < 3
    BY DEF ForgottenInTime
  <2> QED BY DEF ScanInv, TypeOK, CounterAhead
<1> QED BY <1>1, ScanAlways, PicksKeepScans, PTL

\* Only a result that somebody has viewed is deleted.
THEOREM DeletedSeen == SpecPick => DeletedOnlySeen
<1>1. ScanInv /\ [Next]_vars => [~cut /\ scan_result # None /\ scan_result' = None => viewed]_vars
  <2> SUFFICES ASSUME ScanInv, [Next]_vars, ~cut, scan_result # None, scan_result' = None
               PROVE viewed
    OBVIOUS
  <2>1. CASE EraseResult
    BY <2>1 DEF EraseResult, ScanInv, CounterIsOwn
  <2>2. CASE Store
    BY <2>2 DEF Store, ScanInv, TypeOK, CounterIsOwn, None
  <2>3. EraseResult \/ Store \/ scan_result' = scan_result
    BY DEF Next, vars, Boot, EraseShown, ViewResult, Scan, ResetShown, Restart
  <2> QED BY <2>1, <2>2, <2>3
<1> QED BY <1>1, ScanAlways, PicksKeepScans, PTL DEF Spec, DeletedOnlySeen

-----------------------------------------------------------------------------
(* Induction, and texts that are read from left to right.                   *)

\* Induction on numbers, for a set of them.
LEMMA Counted ==
  ASSUME NEW S, 0 \in S, \A n \in Nat : n \in S => n + 1 \in S
  PROVE  \A n \in Nat : n \in S
<1> DEFINE R == OpToRel(<, Nat)
           T == Nat \ S
<1>1. SUFFICES ASSUME T # {} PROVE FALSE
  OBVIOUS
<1>2. PICK m \in T : \A n \in T : ~ (<<n, m>> \in R)
  BY <1>1, NatLessThanWellFounded, WFMin
<1>3. m # 0 /\ m - 1 \in Nat
  OBVIOUS
<1>4. m - 1 \notin T
  <2>1. <<m - 1, m>> \in R
    BY <1>3 DEF OpToRel
  <2> QED BY <1>2, <2>1
<1> QED BY <1>3, <1>4

\* Every character takes a place or more, and none goes over the end.
OnAndWithin(n, width) == \A i \in 1..n : width[i] \in Nat \ {0} /\ i + width[i] =< n + 1

\* f is what is read from each place from k on.
Reading(f, k, n, char, width) ==
  f = [i \in k..n + 1 |-> IF i > n THEN <<>> ELSE <<char[i]>> \o f[i + width[i]]]

LEMMA ReadingExists ==
  ASSUME NEW n \in Nat, NEW char, NEW width,
         OnAndWithin(n, width)
  PROVE  \E f : Reading(f, 1, n, char, width)
<1> DEFINE Some(k) == \E f : Reading(f, k, n, char, width)
           S == {m \in Nat : m =< n => Some(n + 1 - m)}
<1>1. 0 \in S
  <2>1. Reading([i \in n + 1 - 0..n + 1 |-> <<>>], n + 1 - 0, n, char, width)
    BY DEF Reading
  <2> QED BY <2>1
<1>2. ASSUME NEW m \in Nat, m \in S PROVE m + 1 \in S
  <2>0. SUFFICES ASSUME m + 1 =< n PROVE Some(n + 1 - (m + 1))
    <3> HIDE DEF Some
    <3> QED BY <2>0
  <2>1. PICK g : Reading(g, n + 1 - m, n, char, width)
    <3>1. m \in S /\ m =< n
      BY <1>2, <2>0
    <3>2. Some(n + 1 - m)
      <4> HIDE DEF Some
      <4> QED BY <3>1
    <3> QED BY <3>2
  <2> DEFINE k == n + 1 - (m + 1)
             h == [i \in k..n + 1 |-> IF i = k THEN <<char[k]>> \o g[k + width[k]] ELSE g[i]]
  <2>2. k \in 1..n /\ k + 1 = n + 1 - m
    BY <2>0
  <2>3. ASSUME NEW i \in k..n + 1
        PROVE h[i] = IF i > n THEN <<>> ELSE <<char[i]>> \o h[i + width[i]]
    <3>1. i =< n => i + width[i] \in k + 1..n + 1 /\ h[i + width[i]] = g[i + width[i]]
      BY <2>2 DEF OnAndWithin
    <3>2. CASE i = k
      BY <2>2, <3>1, <3>2
    <3>3. CASE i # k
      <4>1. i \in n + 1 - m..n + 1
        BY <2>2, <3>3
      <4>2. g[i] = IF i > n THEN <<>> ELSE <<char[i]>> \o g[i + width[i]]
        BY <2>1, <4>1 DEF Reading
      <4> QED BY <3>1, <3>3, <4>2
    <3> QED BY <3>2, <3>3
  <2> HIDE DEF h
  <2>4. h = [i \in k..n + 1 |-> h[i]]
    BY DEF h
  <2>5. Reading(h, k, n, char, width)
    BY <2>3, <2>4 DEF Reading
  <2> QED BY <2>5
<1> HIDE DEF S
<1>3. n \in S
  BY <1>1, <1>2, Counted
<1>4. Some(n + 1 - n)
  <2> HIDE DEF Some
  <2> QED BY <1>3 DEF S
<1>5. n + 1 - n = 1
  OBVIOUS
<1> QED BY <1>4, <1>5, Zenon

LEMMA ReadingAt ==
  ASSUME NEW n \in Nat, NEW char, NEW width, NEW f, Reading(f, 1, n, char, width)
  PROVE  f[n + 1] = <<>> /\ \A i \in 1..n : f[i] = <<char[i]>> \o f[i + width[i]]
<1> DEFINE g == f
<1>1. f = [i \in 1..n + 1 |-> IF i > n THEN <<>> ELSE <<char[i]>> \o g[i + width[i]]]
  BY DEF Reading
<1> HIDE DEF g
<1>2. f[n + 1] = <<>> /\ \A i \in 1..n : f[i] = <<char[i]>> \o g[i + width[i]]
  BY <1>1
<1> QED BY <1>2 DEF g

Read(n, char, width) == CHOOSE f : Reading(f, 1, n, char, width)

LEMMA DecodedRead ==
  ASSUME NEW n \in Nat, NEW char, NEW width, OnAndWithin(n, width)
  PROVE  /\ Decoded(n, char, width) = Read(n, char, width)[1]
         /\ Read(n, char, width)[n + 1] = <<>>
         /\ \A i \in 1..n : Read(n, char, width)[i] = <<char[i]>> \o Read(n, char, width)[i + width[i]]
<1>1. Reading(Read(n, char, width), 1, n, char, width)
  BY ReadingExists DEF Read
<1>2. Decoded(n, char, width) = Read(n, char, width)[1]
  BY DEF Decoded, Read, Reading
<1> QED BY <1>1, <1>2, ReadingAt

\* If each character of s is read at its place, s is what is read.
LEMMA DecodedBlocks ==
  ASSUME NEW n \in Nat, NEW char, NEW width, OnAndWithin(n, width),
         NEW S, NEW s \in Seq(S), NEW p, p[1] = 1, p[Len(s) + 1] = n + 1,
         \A i \in 1..Len(s) : p[i] \in 1..n /\ char[p[i]] = s[i] /\ p[i] + width[p[i]] = p[i + 1]
  PROVE  Decoded(n, char, width) = s
<1> DEFINE f == Read(n, char, width)
           l == Len(s)
           T == {m \in Nat : m =< l => f[p[l + 1 - m]] = SubSeq(s, l + 1 - m, l)}
<1>1. Decoded(n, char, width) = f[1] /\ f[n + 1] = <<>>
      /\ \A i \in 1..n : f[i] = <<char[i]>> \o f[i + width[i]]
  BY DecodedRead
<1> HIDE DEF f
<1>2. 0 \in T
  <2>1. l \in Nat /\ SubSeq(s, l + 1, l) = <<>> /\ p[l + 1] = n + 1
    BY SubSeqEmpty
  <2> HIDE DEF l
  <2>2. l + 1 - 0 = l + 1
    BY <2>1
  <2> QED BY <1>1, <2>1, <2>2
<1>3. ASSUME NEW m \in Nat, m \in T PROVE m + 1 \in T
  <2> SUFFICES ASSUME m + 1 =< l PROVE f[p[l + 1 - (m + 1)]] = SubSeq(s, l + 1 - (m + 1), l)
    OBVIOUS
  <2> DEFINE k == l + 1 - (m + 1)
  <2>1. k \in 1..l /\ k + 1 = l + 1 - m
    OBVIOUS
  <2>2. f[p[k + 1]] = SubSeq(s, k + 1, l)
    BY <1>3, <2>1
  <2>3. f[p[k]] = <<s[k]>> \o f[p[k + 1]]
    <3>1. p[k] \in 1..n /\ char[p[k]] = s[k] /\ p[k] + width[p[k]] = p[k + 1]
      BY <2>1
    <3>2. f[p[k]] = <<char[p[k]]>> \o f[p[k] + width[p[k]]]
      BY <1>1, <3>1
    <3> QED BY <3>1, <3>2
  <2>4. SubSeq(s, k, l) = <<s[k]>> \o SubSeq(s, k + 1, l)
    BY <2>1, SubSeqRecursiveFirst
  <2> QED BY <2>2, <2>3, <2>4
<1> HIDE DEF T
<1>4. l \in T
  <2>1. l \in Nat
    OBVIOUS
  <2> HIDE DEF l
  <2> QED BY <2>1, <1>2, <1>3, Counted
<1>5. f[p[1]] = SubSeq(s, 1, l)
  BY <1>4 DEF T
<1> QED BY <1>1, <1>5, SubSeqFull

-----------------------------------------------------------------------------
(* Texts that are put together.                                             *)

Joining(f, k, seqs) ==
  f = [i \in 1..k |-> IF i = 1 THEN seqs[i] ELSE f[i - 1] \o seqs[i]]

LEMMA JoiningExists ==
  ASSUME NEW seqs
  PROVE  \A k \in Nat : \E f : Joining(f, k, seqs)
<1> DEFINE Some(k) == \E f : Joining(f, k, seqs)
           S == {k \in Nat : Some(k)}
<1>1. 0 \in S
  <2>1. Joining([i \in 1..0 |-> <<>>], 0, seqs)
    BY DEF Joining
  <2> QED BY <2>1
<1>2. ASSUME NEW k \in Nat, k \in S PROVE k + 1 \in S
  <2>1. PICK f : Joining(f, k, seqs)
    BY <1>2
  <2> DEFINE g == [i \in 1..k + 1 |-> IF i \in 1..k THEN f[i] ELSE IF i = 1 THEN seqs[i] ELSE f[i - 1] \o seqs[i]]
             h == f
  <2>2. f = [i \in 1..k |-> IF i = 1 THEN seqs[i] ELSE h[i - 1] \o seqs[i]]
    BY <2>1 DEF Joining
  <2> HIDE DEF h
  <2>3. \A i \in 1..k : f[i] = IF i = 1 THEN seqs[i] ELSE h[i - 1] \o seqs[i]
    BY <2>2
  <2>4. ASSUME NEW i \in 1..k + 1 PROVE g[i] = IF i = 1 THEN seqs[i] ELSE g[i - 1] \o seqs[i]
    <3>1. i # 1 => g[i - 1] = f[i - 1]
      OBVIOUS
    <3> QED BY <2>3, <3>1 DEF h
  <2> HIDE DEF g
  <2>5. g = [i \in 1..k + 1 |-> g[i]]
    BY DEF g
  <2>6. Joining(g, k + 1, seqs)
    BY <2>4, <2>5 DEF Joining
  <2> QED BY <2>6
<1> HIDE DEF S
<1>3. \A k \in Nat : k \in S
  BY <1>1, <1>2, Counted
<1> QED BY <1>3 DEF S

Joined(seqs) == CHOOSE f : Joining(f, Len(seqs), seqs)

LEMMA FlattenJoined ==
  ASSUME NEW seqs, Len(seqs) \in Nat
  PROVE  /\ Len(seqs) # 0 => FlattenSeq(seqs) = Joined(seqs)[Len(seqs)] /\ Joined(seqs)[1] = seqs[1]
         /\ \A i \in 2..Len(seqs) : Joined(seqs)[i] = Joined(seqs)[i - 1] \o seqs[i]
<1> DEFINE f == Joined(seqs)
           g == f
<1>1. Joining(f, Len(seqs), seqs)
  BY JoiningExists DEF Joined
<1>2. Len(seqs) # 0 => FlattenSeq(seqs) = f[Len(seqs)]
  BY DEF FlattenSeq, Joined, Joining
<1> HIDE DEF f
<1>3. f = [i \in 1..Len(seqs) |-> IF i = 1 THEN seqs[i] ELSE g[i - 1] \o seqs[i]]
  BY <1>1 DEF Joining
<1> HIDE DEF g
<1>4. \A i \in 1..Len(seqs) : f[i] = IF i = 1 THEN seqs[i] ELSE g[i - 1] \o seqs[i]
  BY <1>3
<1> DEFINE l == Len(seqs)
<1>5. l \in Nat
  OBVIOUS
<1>6. (l # 0 => f[1] = seqs[1]) /\ \A i \in 2..l : f[i] = g[i - 1] \o seqs[i]
  <2> HIDE DEF l
  <2>1. \A i \in 1..l : f[i] = IF i = 1 THEN seqs[i] ELSE g[i - 1] \o seqs[i]
    BY <1>4 DEF l
  <2>2. l # 0 => f[1] = seqs[1]
    <3>1. l # 0 => 1 \in 1..l
      BY <1>5
    <3> QED BY <2>1, <3>1
  <2>3. ASSUME NEW i \in 2..l PROVE f[i] = g[i - 1] \o seqs[i]
    <3>1. i \in 1..l /\ i # 1
      BY <1>5
    <3> QED BY <2>1, <3>1
  <2> QED BY <2>2, <2>3
<1> QED BY <1>2, <1>6 DEF f, g

\* Where each part begins, and where the next one would.
Starts(seqs) == [i \in 1..Len(seqs) + 1 |-> IF i = 1 THEN 1 ELSE Len(Joined(seqs)[i - 1]) + 1]

LEMMA FlattenBlocks ==
  ASSUME NEW S, NEW seqs \in Seq(Seq(S))
  PROVE  LET p == Starts(seqs)  all == FlattenSeq(seqs)
         IN /\ all \in Seq(S) /\ p[1] = 1 /\ p[Len(seqs) + 1] = Len(all) + 1
            /\ \A i \in 1..Len(seqs) :
                 /\ p[i] \in Nat /\ p[i + 1] = p[i] + Len(seqs[i])
                 /\ \A j \in 1..Len(seqs[i]) : p[i] + j - 1 \in 1..Len(all) /\ all[p[i] + j - 1] = seqs[i][j]
<1> DEFINE p == Starts(seqs)  all == FlattenSeq(seqs)  f == Joined(seqs)  n == Len(seqs)
           Holds(m) ==
             f[m] \in Seq(S) /\
             \A i \in 1..m :
               /\ p[i] \in Nat /\ p[i + 1] = p[i] + Len(seqs[i])
               /\ \A j \in 1..Len(seqs[i]) : p[i] + j - 1 \in 1..Len(f[m]) /\ f[m][p[i] + j - 1] = seqs[i][j]
           T == {m \in Nat : m + 1 =< n => Holds(m + 1)}
<1>1. n \in Nat /\ \A i \in 1..n : seqs[i] \in Seq(S) /\ Len(seqs[i]) \in Nat
  OBVIOUS
<1>2. /\ n # 0 => all = f[n] /\ f[1] = seqs[1]
      /\ \A i \in 2..n : f[i] = f[i - 1] \o seqs[i]
  BY <1>1, FlattenJoined
<1>3. p[1] = 1 /\ \A i \in 1..n : p[i + 1] = Len(f[i]) + 1
  BY <1>1 DEF Starts
<1> HIDE DEF p, f
<1>4. CASE n = 0
  <2>1. seqs = <<>> /\ all = <<>>
    BY <1>4 DEF FlattenSeq
  <2>2. p[n + 1] = Len(all) + 1 /\ all \in Seq(S)
    <3>1. n + 1 = 1
      BY <1>4
    <3> HIDE DEF n, all
    <3>2. Len(all) = 0 /\ all \in Seq(S)
      BY <2>1, EmptySeq
    <3> QED BY <1>3, <3>1, <3>2
  <2>3. 1..n = {}
    BY <1>4
  <2> HIDE DEF all
  <2> QED BY <1>3, <2>2, <2>3 DEF p, all
<1>5. CASE n # 0
  <2>1. 0 \in T
    <3>1. 1 \in 1..n
      BY <1>1, <1>5
    <3>2. p[1] = 1 /\ p[2] = Len(seqs[1]) + 1 /\ f[1] = seqs[1] /\ seqs[1] \in Seq(S) /\ Len(seqs[1]) \in Nat
      BY <1>1, <1>2, <1>3, <1>5, <3>1
    <3>3. Holds(1)
      BY <3>2
    <3> QED BY <3>3
  <2>2. ASSUME NEW m \in Nat, m \in T PROVE m + 1 \in T
    <3>0. SUFFICES ASSUME m + 1 + 1 =< n PROVE Holds(m + 1 + 1)
      <4> HIDE DEF Holds
      <4> QED BY <3>0
    <3> DEFINE a == f[m + 1]  b == seqs[m + 2]  c == f[m + 2]
    <3>1. Holds(m + 1)
      <4> HIDE DEF Holds
      <4> QED BY <1>1, <2>2, <3>0
    <3>2. a \in Seq(S) /\ b \in Seq(S) /\ c = a \o b /\ p[m + 2] = Len(a) + 1 /\ p[m + 3] = Len(c) + 1
          /\ m + 1 + 1 = m + 2 /\ m + 2 + 1 = m + 3
      <4>1. m + 1 \in 1..n /\ m + 2 \in 2..n /\ m + 2 \in 1..n /\ m + 2 - 1 = m + 1
            /\ m + 1 + 1 = m + 2 /\ m + 2 + 1 = m + 3
        <5> HIDE DEF n
        <5> QED BY <1>1, <3>0
      <4>2. a \in Seq(S)
        BY <3>1
      <4>3. b \in Seq(S)
        BY <1>1, <4>1
      <4>4. c = a \o b
        <5> DEFINE i == m + 2  k == m + 1
        <5>1. i \in 2..n /\ i - 1 = k
          BY <4>1
        <5> HIDE DEF i, k, n
        <5>2. f[i] = f[i - 1] \o seqs[i]
          BY <1>2, <5>1
        <5>3. f[i] = f[k] \o seqs[i]
          BY <5>1, <5>2
        <5> QED BY <5>3, Zenon DEF i, k
      <4>5. p[m + 1 + 1] = Len(a) + 1 /\ p[m + 2 + 1] = Len(c) + 1
        BY <1>3, <4>1
      <4> HIDE DEF n, a, b, c
      <4> QED BY <4>1, <4>2, <4>3, <4>4, <4>5
    <3> HIDE DEF a, b, c
    <3>3. c \in Seq(S) /\ Len(c) = Len(a) + Len(b) /\ Len(a) \in Nat /\ Len(b) \in Nat
          /\ \A i \in 1..Len(a) + Len(b) : c[i] = IF i <= Len(a) THEN a[i] ELSE b[i - Len(a)]
      BY <3>2, ConcatProperties
    <3>4. \A i \in 1..m + 1 :
            /\ p[i] \in Nat /\ p[i + 1] = p[i] + Len(seqs[i])
            /\ \A j \in 1..Len(seqs[i]) : p[i] + j - 1 \in 1..Len(a) /\ a[p[i] + j - 1] = seqs[i][j]
      BY <3>1 DEF a
    <3>5. p[m + 2] \in Nat /\ p[m + 3] = p[m + 2] + Len(b)
      BY <3>2, <3>3
    <3>6. ASSUME NEW j \in 1..Len(b)
          PROVE p[m + 2] + j - 1 \in 1..Len(c) /\ c[p[m + 2] + j - 1] = b[j]
      <4>1. p[m + 2] + j - 1 = Len(a) + j
        BY <3>2, <3>3
      <4>2. Len(a) + j \in 1..Len(a) + Len(b) /\ ~ (Len(a) + j =< Len(a)) /\ Len(a) + j - Len(a) = j
        BY <3>3
      <4> QED BY <3>3, <4>1, <4>2
    <3>7. ASSUME NEW i \in 1..m + 1, NEW j \in 1..Len(seqs[i])
          PROVE p[i] + j - 1 \in 1..Len(c) /\ c[p[i] + j - 1] = seqs[i][j]
      <4>1. p[i] + j - 1 \in 1..Len(a) /\ a[p[i] + j - 1] = seqs[i][j]
        BY <3>4
      <4> QED BY <3>3, <4>1
    <3>8. \A i \in 1..m + 2 : i \in 1..m + 1 \/ i = m + 2
      OBVIOUS
    <3>9. ASSUME NEW i \in 1..m + 2
          PROVE /\ p[i] \in Nat /\ p[i + 1] = p[i] + Len(seqs[i])
                /\ \A j \in 1..Len(seqs[i]) : p[i] + j - 1 \in 1..Len(c) /\ c[p[i] + j - 1] = seqs[i][j]
      <4>1. CASE i \in 1..m + 1
        BY <3>4, <3>7, <4>1
      <4>2. CASE i = m + 2
        BY <3>2, <3>5, <3>6, <4>2 DEF b
      <4> QED BY <3>8, <4>1, <4>2
    <3> QED BY <3>2, <3>3, <3>9 DEF c
  <2> HIDE DEF T
  <2>3. n - 1 \in T
    <3>1. n - 1 \in Nat
      BY <1>1, <1>5
    <3> HIDE DEF n
    <3> QED BY <3>1, <2>1, <2>2, Counted
  <2>4. Holds(n)
    <3>1. n - 1 + 1 = n /\ n =< n
      BY <1>1
    <3> HIDE DEF Holds, n
    <3> QED BY <2>3, <3>1 DEF T
  <2>5. all \in Seq(S) /\ p[n + 1] = Len(all) + 1
    <3>1. n \in 1..n
      BY <1>1, <1>5
    <3>2. f[n] \in Seq(S)
      BY <2>4
    <3>3. all = f[n]
      BY <1>2, <1>5
    <3> HIDE DEF all, n
    <3>4. p[n + 1] = Len(f[n]) + 1
      BY <1>3, <3>1
    <3> QED BY <3>2, <3>3, <3>4
  <2>6. \A i \in 1..n :
          /\ p[i] \in Nat /\ p[i + 1] = p[i] + Len(seqs[i])
          /\ \A j \in 1..Len(seqs[i]) : p[i] + j - 1 \in 1..Len(all) /\ all[p[i] + j - 1] = seqs[i][j]
    BY <1>2, <1>5, <2>4
  <2> HIDE DEF all
  <2> QED BY <1>3, <2>5, <2>6, Zenon DEF p, all
<1> QED BY <1>4, <1>5

LEMMA FlattenBound ==
  ASSUME NEW S, NEW seqs \in Seq(Seq(S)), NEW b \in Nat, \A i \in 1..Len(seqs) : Len(seqs[i]) =< b
  PROVE  Len(FlattenSeq(seqs)) =< b * Len(seqs)
<1> DEFINE p == Starts(seqs)  n == Len(seqs)  all == FlattenSeq(seqs)
           T == {m \in Nat : m =< n => p[m + 1] \in Nat /\ p[m + 1] =< b * m + 1}
<1>1. n \in Nat /\ \A i \in 1..n : Len(seqs[i]) \in Nat
  OBVIOUS
<1>2. p[1] = 1 /\ p[n + 1] = Len(all) + 1 /\ all \in Seq(S) /\ \A i \in 1..n : p[i + 1] = p[i] + Len(seqs[i])
  BY FlattenBlocks
<1> HIDE DEF p, n, all
<1>3. 0 \in T
  BY <1>2
<1>4. ASSUME NEW m \in Nat, m \in T PROVE m + 1 \in T
  <2> SUFFICES ASSUME m + 1 =< n PROVE p[m + 1 + 1] \in Nat /\ p[m + 1 + 1] =< b * (m + 1) + 1
    OBVIOUS
  <2>1. p[m + 1] \in Nat /\ p[m + 1] =< b * m + 1
    BY <1>1, <1>4
  <2>2. m + 1 \in 1..n /\ Len(seqs[m + 1]) =< b /\ Len(seqs[m + 1]) \in Nat
    BY <1>1 DEF n
  <2>3. p[m + 1 + 1] = p[m + 1] + Len(seqs[m + 1])
    BY <1>2, <2>2
  <2>4. b * (m + 1) = b * m + b /\ b * m \in Nat
    OBVIOUS
  <2> QED BY <2>1, <2>2, <2>3, <2>4
<1> HIDE DEF T
<1>5. n \in T
  BY <1>1, <1>3, <1>4, Counted
<1>6. p[n + 1] =< b * n + 1
  BY <1>1, <1>5 DEF T
<1>7. Len(all) \in Nat /\ b * n \in Nat
  BY <1>1, <1>2
<1> QED BY <1>2, <1>6, <1>7 DEF all, n

-----------------------------------------------------------------------------
(* Into a page and out of it.                                               *)

Special == {Lt, Gt, Amp, Quote, Apos}

LEMMA Entities ==
  /\ \A c \in Nat : Entity(c) \in Seq(Nat) /\ Len(Entity(c)) \in 1..6
  /\ \A c \in Special : c \in Nat /\ Len(Entity(c)) \in 4..6 /\ Entity(c)[1] = Amp
  /\ \A c, d \in Special : Entity(c)[2] = Entity(d)[2] => c = d
  /\ \A c \in Nat \ Special : Entity(c) = <<c>>
<1>1. /\ Entity(Lt) = <<38, 108, 116, 59>> /\ Entity(Gt) = <<38, 103, 116, 59>>
      /\ Entity(Amp) = <<38, 97, 109, 112, 59>> /\ Entity(Quote) = <<38, 113, 117, 111, 116, 59>>
      /\ Entity(Apos) = <<38, 35, 51, 57, 59>>
  BY DEF Entity, Lt, Gt, Amp, Quote, Apos
<1>2. \A c \in Nat \ Special : Entity(c) = <<c>>
  BY DEF Entity, Special
<1>3. \A c \in Special : c \in Nat
  BY DEF Special, Lt, Gt, Amp, Quote, Apos
<1>4. ASSUME NEW c \in Special
      PROVE Entity(c) \in Seq(Nat) /\ Len(Entity(c)) \in 4..6 /\ Entity(c)[1] = Amp
  <2>1. c = Lt \/ c = Gt \/ c = Amp \/ c = Quote \/ c = Apos
    BY DEF Special
  <2>2. CASE c = Lt
    <3>1. Entity(c) = <<38, 108, 116, 59>> /\ Amp = 38
      BY <1>1, <2>2 DEF Amp
    <3> QED BY <3>1
  <2>3. CASE c = Gt
    <3>1. Entity(c) = <<38, 103, 116, 59>> /\ Amp = 38
      BY <1>1, <2>3 DEF Amp
    <3> QED BY <3>1
  <2>4. CASE c = Amp
    <3>1. Entity(c) = <<38, 97, 109, 112, 59>> /\ Amp = 38
      BY <1>1, <2>4 DEF Amp
    <3> QED BY <3>1
  <2>5. CASE c = Quote
    <3>1. Entity(c) = <<38, 113, 117, 111, 116, 59>> /\ Amp = 38
      BY <1>1, <2>5 DEF Amp
    <3> QED BY <3>1
  <2>6. CASE c = Apos
    <3>1. Entity(c) = <<38, 35, 51, 57, 59>> /\ Amp = 38
      BY <1>1, <2>6 DEF Amp
    <3> QED BY <3>1
  <2> QED BY <2>1, <2>2, <2>3, <2>4, <2>5, <2>6
<1>5. ASSUME NEW c \in Nat PROVE Entity(c) \in Seq(Nat) /\ Len(Entity(c)) \in 1..6
  <2>1. CASE c \in Special
    BY <1>4, <2>1
  <2>2. CASE c \notin Special
    <3>1. Entity(c) = <<c>>
      BY <1>2, <2>2
    <3> QED BY <3>1
  <2> QED BY <2>1, <2>2
<1>6. /\ Entity(Lt)[2] = 108 /\ Entity(Gt)[2] = 103 /\ Entity(Amp)[2] = 97
      /\ Entity(Quote)[2] = 113 /\ Entity(Apos)[2] = 35
  BY <1>1
<1>7. \A c, d \in Special : Entity(c)[2] = Entity(d)[2] => c = d
  BY <1>6 DEF Special
<1> QED BY <1>2, <1>3, <1>4, <1>5, <1>7

Entitied(s) == [i \in 1..Len(s) |-> Entity(s[i])]

LEMMA EntitiedTypes ==
  ASSUME NEW s \in Seq(Nat)
  PROVE  /\ Entitied(s) \in Seq(Seq(Nat)) /\ Len(Entitied(s)) = Len(s)
         /\ \A i \in 1..Len(s) : Entitied(s)[i] = Entity(s[i]) /\ s[i] \in Nat /\ Len(Entity(s[i])) \in 1..6
<1> DEFINE n == Len(s)  e == Entitied(s)
<1>1. n \in Nat /\ \A i \in 1..n : s[i] \in Nat
  OBVIOUS
<1>2. \A i \in 1..n : Entity(s[i]) \in Seq(Nat) /\ Len(Entity(s[i])) \in 1..6
  BY <1>1, Entities
<1> HIDE DEF n
<1>3. e = [i \in 1..n |-> Entity(s[i])]
  BY DEF Entitied, n
<1>4. e \in [1..n -> Seq(Nat)]
  BY <1>2, <1>3
<1>5. e \in Seq(Seq(Nat)) /\ Len(e) = n
  BY <1>1, <1>4, SeqDef, LenProperties
<1> QED BY <1>1, <1>2, <1>3, <1>5 DEF n

LEMMA SanitizedWhole ==
  ASSUME NEW s \in Seq(Nat), NEW size \in Nat, 6 * Len(s) < size
  PROVE  sanitize_html(s, size) = FlattenSeq(Entitied(s))
<1> DEFINE first(n) == FlattenSeq([i \in 1..n |-> Entity(s[i])])
           fits == {n \in 0..Len(s) : Len(first(n)) < size}
<1>1. sanitize_html(s, size) = first(Max(fits))
  BY DEF sanitize_html
<1>2. first(Len(s)) = FlattenSeq(Entitied(s))
  BY DEF Entitied
<1>3. Len(FlattenSeq(Entitied(s))) =< 6 * Len(s) /\ Len(s) \in Nat
  <2> DEFINE e == Entitied(s)
  <2>1. e \in Seq(Seq(Nat)) /\ Len(e) = Len(s)
        /\ \A i \in 1..Len(s) : e[i] = Entity(s[i]) /\ Len(Entity(s[i])) \in 1..6
    BY EntitiedTypes
  <2> HIDE DEF e
  <2>2. Len(FlattenSeq(e)) =< 6 * Len(e)
    <3>1. ASSUME NEW i \in 1..Len(s) PROVE Len(e[i]) =< 6
      <4> DEFINE l == Len(e[i])
      <4>1. l \in 1..6
        BY <2>1, Zenon
      <4> HIDE DEF l
      <4>2. l =< 6
        BY <4>1
      <4> QED BY <4>2 DEF l
    <3> QED BY <2>1, <3>1, FlattenBound
  <2> QED BY <2>1, <2>2 DEF e
<1>4. FlattenSeq(Entitied(s)) \in Seq(Nat)
  BY EntitiedTypes, FlattenBlocks
<1> HIDE DEF first
<1>5. Len(first(Len(s))) < size
  BY <1>2, <1>3, <1>4
<1>6. Len(s) \in fits /\ \A n \in fits : n =< Len(s)
  BY <1>3, <1>5
<1>7. Max(fits) = Len(s)
  <2> HIDE DEF fits
  <2>1. fits \subseteq Nat
    BY DEF fits
  <2>2. \A n \in fits : Len(s) >= n
    BY <1>3, <1>6, <2>1
  <2>3. Max(fits) \in fits /\ \A n \in fits : Max(fits) >= n
    BY <1>6, <2>2, Zenon DEF Max
  <2>4. Max(fits) \in Nat /\ Max(fits) >= Len(s) /\ Max(fits) =< Len(s)
    BY <1>6, <2>1, <2>3
  <2> QED BY <1>3, <2>4
<1> QED BY <1>1, <1>2, <1>7

LEMMA UnescapedEntities ==
  ASSUME NEW s \in Seq(Nat)
  PROVE  Unescaped(FlattenSeq(Entitied(s))) = s
<1> DEFINE q == Entitied(s)
           t == FlattenSeq(q)
           p == Starts(q)
           Here(i, e) == i + Len(e) - 1 =< Len(t) /\ SubSeq(t, i, i + Len(e) - 1) = e
           here(i) == {c \in Special : Here(i, Entity(c))}
           Char(i) == IF here(i) = {} THEN t[i] ELSE CHOOSE c \in here(i) : TRUE
           char == [i \in DOMAIN t |-> Char(i)]
           width == [i \in DOMAIN t |-> IF here(i) = {} THEN 1 ELSE Len(Entity(Char(i)))]
           n == Len(t)
<1>1. Unescaped(t) = Decoded(n, char, width)
  BY DEF Unescaped, Special
<1>2. /\ t \in Seq(Nat) /\ p[1] = 1 /\ p[Len(s) + 1] = n + 1 /\ Len(s) \in Nat
      /\ \A i \in 1..Len(s) :
           /\ p[i] \in Nat /\ p[i + 1] = p[i] + Len(Entity(s[i])) /\ s[i] \in Nat
           /\ \A j \in 1..Len(Entity(s[i])) : p[i] + j - 1 \in 1..n /\ t[p[i] + j - 1] = Entity(s[i])[j]
  <2>1. q \in Seq(Seq(Nat)) /\ Len(q) = Len(s) /\ Len(s) \in Nat
        /\ \A i \in 1..Len(s) : q[i] = Entity(s[i]) /\ s[i] \in Nat
    BY EntitiedTypes
  <2> HIDE DEF q
  <2>2. /\ t \in Seq(Nat) /\ p[1] = 1 /\ p[Len(q) + 1] = Len(t) + 1
        /\ \A i \in 1..Len(q) :
             /\ p[i] \in Nat /\ p[i + 1] = p[i] + Len(q[i])
             /\ \A j \in 1..Len(q[i]) : p[i] + j - 1 \in 1..Len(t) /\ t[p[i] + j - 1] = q[i][j]
    BY <2>1, FlattenBlocks
  <2> HIDE DEF t, p
  <2>3. ASSUME NEW i \in 1..Len(s)
        PROVE /\ p[i] \in Nat /\ p[i + 1] = p[i] + Len(Entity(s[i])) /\ s[i] \in Nat
              /\ \A j \in 1..Len(Entity(s[i])) : p[i] + j - 1 \in 1..n /\ t[p[i] + j - 1] = Entity(s[i])[j]
    <3>1. i \in 1..Len(q)
      BY <2>1
    <3>2. /\ p[i] \in Nat /\ p[i + 1] = p[i] + Len(q[i])
          /\ \A j \in 1..Len(q[i]) : p[i] + j - 1 \in 1..n /\ t[p[i] + j - 1] = q[i][j]
      BY <2>2, <3>1, Zenon
    <3> QED BY <2>1, <3>2, Zenon
  <2> QED BY <2>1, <2>2, <2>3, Zenon
<1> HIDE DEF q, t, p
<1>3. n \in Nat /\ DOMAIN t = 1..n /\ \A i \in 1..n : t[i] \in Nat
  BY <1>2
<1> HIDE DEF n
<1>4. ASSUME NEW i \in 1..n
      PROVE  /\ here(i) = {} => Char(i) = t[i]
             /\ here(i) # {} => Char(i) \in here(i)
             /\ \A c \in here(i) : /\ c \in Special /\ i + Len(Entity(c)) - 1 =< n
                                    /\ t[i] = Entity(c)[1] /\ t[i + 1] = Entity(c)[2]
  <2>1. (here(i) = {} => Char(i) = t[i]) /\ (here(i) # {} => Char(i) \in here(i))
    <3> HIDE DEF here
    <3> QED OBVIOUS
  <2>2. ASSUME NEW c \in here(i)
        PROVE /\ c \in Special /\ i + Len(Entity(c)) - 1 =< n
              /\ t[i] = Entity(c)[1] /\ t[i + 1] = Entity(c)[2]
    <3> DEFINE e == Entity(c)
    <3>1. c \in Special /\ i + Len(e) - 1 =< n /\ SubSeq(t, i, i + Len(e) - 1) = e
      BY DEF n
    <3>2. e \in Seq(Nat) /\ Len(e) \in 4..6
      BY <3>1, Entities
    <3> HIDE DEF e
    <3>3. \A k \in i..i + Len(e) - 1 : t[k] \in Nat
      BY <1>2, <1>3, <3>1, <3>2 DEF n
    <3>4. \A k \in 1..(i + Len(e) - 1) - i + 1 : SubSeq(t, i, i + Len(e) - 1)[k] = t[i + k - 1]
      <4> DEFINE z == i + Len(e) - 1
      <4>1. z \in Int
        BY <3>2
      <4>2. \A k \in i..z : t[k] \in Nat
        BY <3>3
      <4> HIDE DEF z
      <4>3. \A k \in 1..z - i + 1 : SubSeq(t, i, z)[k] = t[i + k - 1]
        BY <4>1, <4>2, SubSeqProperties
      <4> QED BY <4>3 DEF z
    <3>5. 1 \in 1..(i + Len(e) - 1) - i + 1 /\ 2 \in 1..(i + Len(e) - 1) - i + 1
          /\ i + 1 - 1 = i /\ i + 2 - 1 = i + 1
      <4> DEFINE l == Len(e)
      <4>1. i \in Int /\ l \in 4..6
        BY <1>3, <3>2
      <4> HIDE DEF l
      <4>2. 1 \in 1..(i + l - 1) - i + 1 /\ 2 \in 1..(i + l - 1) - i + 1
            /\ i + 1 - 1 = i /\ i + 2 - 1 = i + 1
        BY <4>1
      <4> QED BY <4>2 DEF l
    <3>6. e[1] = t[i + 1 - 1] /\ e[2] = t[i + 2 - 1]
      BY <3>1, <3>4, <3>5
    <3> QED BY <3>1, <3>5, <3>6 DEF e
  <2> QED BY <2>1, <2>2
<1>5. \A i \in 1..n : char[i] = Char(i) /\ width[i] = IF here(i) = {} THEN 1 ELSE Len(Entity(Char(i)))
  BY <1>3
<1> HIDE DEF here, Char, char, width
<1>6. OnAndWithin(n, width)
  <2>1. ASSUME NEW i \in 1..n PROVE width[i] \in Nat \ {0} /\ i + width[i] =< n + 1
    <3>1. CASE here(i) = {}
      BY <1>3, <1>5, <3>1
    <3>2. CASE here(i) # {}
      <4>1. Char(i) \in Special /\ i + Len(Entity(Char(i))) - 1 =< n
        BY <1>4, <3>2
      <4> DEFINE w == Len(Entity(Char(i)))
      <4>2. w \in 4..6
        BY <4>1, Entities
      <4>3. width[i] = w /\ i + w - 1 =< n
        BY <1>5, <3>2, <4>1
      <4> HIDE DEF w
      <4> QED BY <1>3, <4>2, <4>3
    <3> QED BY <3>1, <3>2
  <2> QED BY <2>1 DEF OnAndWithin
<1>7. ASSUME NEW k \in 1..Len(s)
      PROVE p[k] \in 1..n /\ char[p[k]] = s[k] /\ p[k] + width[p[k]] = p[k + 1]
  <2> DEFINE c == s[k]  i == p[k]
  <2>1. c \in Nat /\ p[k + 1] = i + Len(Entity(c)) /\ Len(Entity(c)) \in 1..6
    BY <1>2, Entities
  <2>2. \A j \in 1..Len(Entity(c)) : i + j - 1 \in 1..n /\ t[i + j - 1] = Entity(c)[j]
    BY <1>2
  <2> HIDE DEF c, i
  <2>3. i + 1 - 1 \in 1..n /\ t[i + 1 - 1] = Entity(c)[1]
    BY <2>1, <2>2
  <2>4. i \in Int => i + 1 - 1 = i
    OBVIOUS
  <2>5. i \in Int
    BY <1>2 DEF i
  <2>6. i \in 1..n /\ t[i] = Entity(c)[1]
    BY <2>3, <2>4, <2>5
  <2>7. CASE c \in Special
    <3>1. 2 \in 1..Len(Entity(c)) /\ i + 2 - 1 = i + 1
      <4> DEFINE l == Len(Entity(c))
      <4>1. l \in 4..6
        BY <2>7, Entities
      <4> HIDE DEF l
      <4>2. 2 \in 1..l /\ i + 2 - 1 = i + 1
        BY <2>5, <4>1
      <4> QED BY <4>2 DEF l
    <3>2. t[i + 1] = Entity(c)[2]
      BY <2>2, <3>1
    <3>3. here(i) \subseteq {c}
      BY <1>4, <2>6, <2>7, <3>2, Entities
    <3>4. c \in here(i)
      <4> DEFINE e == Entity(c)  l == Len(e)
      <4>0. l \in 1..6 /\ e \in Seq(Nat) /\ \A j \in 1..l : i + j - 1 \in 1..n /\ t[i + j - 1] = e[j]
        BY <2>1, <2>2, Entities
      <4>1. i + l - 1 \in 1..n
        <5> HIDE DEF l, e
        <5>1. l \in 1..l
          BY <4>0
        <5> QED BY <4>0, <5>1
      <4>2. SubSeq(t, i, i + l - 1) = e
        <5> DEFINE z == i + l - 1
        <5> HIDE DEF l, e
        <5>1. z \in Int /\ z - i + 1 = l /\ i =< z /\ z =< n
          BY <1>3, <2>5, <4>0, <4>1
        <5>2. e \in Seq(Nat)
          BY <4>0
        <5> HIDE DEF z
        <5>3. \A j \in i..z : t[j] \in Nat
          BY <1>3, <2>6, <5>1
        <5>4. \A j \in 1..l : t[i + j - 1] = e[j]
          BY <4>0
        <5>5. SubSeq(t, i, z) \in Seq(Nat) /\ Len(SubSeq(t, i, z)) = z - i + 1
              /\ \A j \in 1..z - i + 1 : SubSeq(t, i, z)[j] = t[i + j - 1]
          BY <2>5, <5>1, <5>3, SubSeqProperties
        <5>6. SubSeq(t, i, z) = e
          BY <5>1, <5>2, <5>4, <5>5, SeqEqual DEF l
        <5> QED BY <5>6 DEF z
      <4> QED BY <1>3, <2>7, <4>1, <4>2 DEF here, n
    <3>5. char[i] = c /\ width[i] = Len(Entity(c))
      BY <1>4, <1>5, <2>6, <3>3, <3>4
    <3> QED BY <2>1, <2>6, <3>5 DEF c, i
  <2>8. CASE c \notin Special
    <3>1. Entity(c) = <<c>> /\ Amp \in Special
      BY <2>1, <2>8, Entities DEF Special
    <3>2. Len(Entity(c)) = 1 /\ t[i] = c /\ c # Amp
      BY <2>6, <2>8, <3>1
    <3>3. here(i) = {}
      BY <1>4, <2>6, <3>2, Entities
    <3>4. char[i] = c /\ width[i] = 1
      BY <1>4, <1>5, <2>6, <3>2, <3>3
    <3> QED BY <2>1, <2>6, <3>2, <3>4 DEF c, i
  <2> QED BY <2>7, <2>8
<1>8. Decoded(n, char, width) = s
  BY <1>2, <1>3, <1>6, <1>7, DecodedBlocks
<1> QED BY <1>1, <1>8 DEF t, q

\* What a browser reads of a text on a page, which sanitize_html has escaped, is
\* the text, whatever its characters.
THEOREM PagesShow ==
  \A s \in Seq(Nat) : \A size \in Nat : 6 * Len(s) < size => Unescaped(sanitize_html(s, size)) = s
BY SanitizedWhole, UnescapedEntities

-----------------------------------------------------------------------------
(* Into a form and out of it.                                               *)

Code(c) ==
  CASE c = Space -> <<Plus>>
    [] c \in Alphanumeric -> <<c>>
    [] OTHER -> <<Percent, HexDigit(c \div 16), HexDigit(c % 16)>>

Coded(s) == [i \in DOMAIN s |-> Code(s[i])]

\* A hexadecimal digit stands for what it was made from.
LEMMA Digits ==
  ASSUME NEW d \in 0..15
  PROVE  HexDigit(d) \in Nat /\ Value(HexDigit(d)) = d
<1>1. CASE d < 10
  <2>1. HexDigit(d) = 48 + d /\ 48 + d =< 57
    BY <1>1 DEF HexDigit
  <2> QED BY <2>1 DEF Value
<1>2. CASE ~ (d < 10)
  <2> DEFINE h == 55 + d
  <2>1. HexDigit(d) = h
    BY <1>2 DEF HexDigit
  <2>2. h \in 65..70
    BY <1>2
  <2>3. ~ (h =< 57) /\ h \notin 97..122 /\ h - 65 + 10 = d
    BY <1>2
  <2> HIDE DEF h
  <2>4. Upper(h) = h
    BY <2>3 DEF Upper
  <2> QED BY <2>1, <2>2, <2>3, <2>4 DEF Value
<1> QED BY <1>1, <1>2

LEMMA Codes ==
  ASSUME NEW c \in 0..255
  PROVE  /\ Code(c) \in Seq(Nat) /\ Len(Code(c)) \in 1..3
         /\ \/ c = Space /\ Code(c) = <<Plus>>
            \/ c # Percent /\ c # Plus /\ Code(c) = <<c>>
            \/ \E h, l \in Nat : Code(c) = <<Percent, h, l>> /\ (16 * Value(h) + Value(l)) % 256 = c
<1>1. CASE c = Space
  <2>1. Code(c) = <<Plus>>
    <3>1. Space \notin Alphanumeric
      BY DEF Space, Alphanumeric
    <3> QED BY <1>1, <3>1 DEF Code
  <2>2. Plus \in Nat
    BY DEF Plus
  <2> QED BY <1>1, <2>1, <2>2
<1>2. CASE c # Space /\ c \in Alphanumeric
  <2>1. Code(c) = <<c>>
    BY <1>2 DEF Code
  <2>2. c # Percent /\ c # Plus
    BY <1>2 DEF Alphanumeric, Percent, Plus
  <2> QED BY <2>1, <2>2
<1>3. CASE c # Space /\ c \notin Alphanumeric
  <2> DEFINE h == c \div 16  l == c % 16
  <2>1. Code(c) = <<Percent, HexDigit(h), HexDigit(l)>>
    BY <1>3 DEF Code
  <2>2. h \in 0..15 /\ l \in 0..15 /\ 16 * h + l = c
    OBVIOUS
  <2> HIDE DEF h, l
  <2>3. /\ HexDigit(h) \in Nat /\ Value(HexDigit(h)) = h
        /\ HexDigit(l) \in Nat /\ Value(HexDigit(l)) = l
    BY <2>2, Digits
  <2>4. (16 * Value(HexDigit(h)) + Value(HexDigit(l))) % 256 = c
    <3>1. c % 256 = c
      OBVIOUS
    <3> QED BY <2>2, <2>3, <3>1
  <2>5. Code(c) \in Seq(Nat) /\ Len(Code(c)) = 3
    <3>1. Percent \in Nat
      BY DEF Percent
    <3> QED BY <2>1, <2>3, <3>1
  <2> QED BY <2>1, <2>3, <2>4, <2>5
<1> QED BY <1>1, <1>2, <1>3

LEMMA CodedTypes ==
  ASSUME NEW s \in Seq(0..255)
  PROVE  /\ Coded(s) \in Seq(Seq(Nat)) /\ Len(Coded(s)) = Len(s) /\ Urlencoded(s) = FlattenSeq(Coded(s))
         /\ \A i \in 1..Len(s) : Coded(s)[i] = Code(s[i]) /\ s[i] \in 0..255 /\ Len(Code(s[i])) \in 1..3
<1> DEFINE n == Len(s)  e == Coded(s)
<1>1. n \in Nat /\ DOMAIN s = 1..n /\ \A i \in 1..n : s[i] \in 0..255
  <2>1. ASSUME NEW i \in 1..n PROVE s[i] \in 0..255
    BY ElementOfSeq
  <2>2. n \in Nat /\ DOMAIN s = 1..n
    OBVIOUS
  <2> QED BY <2>1, <2>2, Zenon
<1>2. \A i \in 1..n : Code(s[i]) \in Seq(Nat) /\ Len(Code(s[i])) \in 1..3
  BY <1>1, Codes
<1>0. Urlencoded(s) = FlattenSeq(e)
  BY DEF Urlencoded, Coded, Code
<1> HIDE DEF n
<1>3. e = [i \in 1..n |-> Code(s[i])]
  BY <1>1 DEF Coded
<1>4. e \in [1..n -> Seq(Nat)]
  BY <1>2, <1>3
<1>5. e \in Seq(Seq(Nat)) /\ Len(e) = n
  BY <1>1, <1>4, SeqDef, LenProperties
<1> QED BY <1>0, <1>1, <1>2, <1>3, <1>5 DEF n

LEMMA DecodedCodes ==
  ASSUME NEW s \in Seq(0..255)
  PROVE  preprocess_string(Urlencoded(s)) = s
<1> DEFINE q == Coded(s)
           t == FlattenSeq(q)
           p == Starts(q)
           n == Len(t)
           coded(i) == t[i] = Percent /\ i + 2 =< n
           char == [i \in DOMAIN t |-> IF coded(i) THEN (16 * Value(t[i + 1]) + Value(t[i + 2])) % 256
                                       ELSE IF t[i] = Plus THEN Space ELSE t[i]]
           width == [i \in DOMAIN t |-> IF coded(i) THEN 3 ELSE 1]
<1>1. preprocess_string(Urlencoded(s)) = Decoded(n, char, width)
  BY CodedTypes DEF preprocess_string
<1>2. /\ t \in Seq(Nat) /\ p[1] = 1 /\ p[Len(s) + 1] = n + 1 /\ Len(s) \in Nat
      /\ \A i \in 1..Len(s) :
           /\ p[i] \in Nat /\ p[i + 1] = p[i] + Len(Code(s[i])) /\ s[i] \in 0..255
           /\ \A j \in 1..Len(Code(s[i])) : p[i] + j - 1 \in 1..n /\ t[p[i] + j - 1] = Code(s[i])[j]
  <2>1. q \in Seq(Seq(Nat)) /\ Len(q) = Len(s) /\ Len(s) \in Nat
        /\ \A i \in 1..Len(s) : q[i] = Code(s[i]) /\ s[i] \in 0..255
    BY CodedTypes
  <2> HIDE DEF q
  <2>2. /\ t \in Seq(Nat) /\ p[1] = 1 /\ p[Len(q) + 1] = Len(t) + 1
        /\ \A i \in 1..Len(q) :
             /\ p[i] \in Nat /\ p[i + 1] = p[i] + Len(q[i])
             /\ \A j \in 1..Len(q[i]) : p[i] + j - 1 \in 1..Len(t) /\ t[p[i] + j - 1] = q[i][j]
    BY <2>1, FlattenBlocks
  <2> HIDE DEF t, p
  <2>3. ASSUME NEW i \in 1..Len(s)
        PROVE /\ p[i] \in Nat /\ p[i + 1] = p[i] + Len(Code(s[i])) /\ s[i] \in 0..255
              /\ \A j \in 1..Len(Code(s[i])) : p[i] + j - 1 \in 1..n /\ t[p[i] + j - 1] = Code(s[i])[j]
    <3>1. i \in 1..Len(q)
      BY <2>1
    <3>2. /\ p[i] \in Nat /\ p[i + 1] = p[i] + Len(q[i])
          /\ \A j \in 1..Len(q[i]) : p[i] + j - 1 \in 1..n /\ t[p[i] + j - 1] = q[i][j]
      BY <2>2, <3>1, Zenon
    <3> QED BY <2>1, <3>2, Zenon
  <2> QED BY <2>1, <2>2, <2>3, Zenon
<1> HIDE DEF q, t, p
<1>3. n \in Nat /\ DOMAIN t = 1..n
  BY <1>2
<1> HIDE DEF n
<1>4. \A i \in 1..n :
        /\ coded(i) => width[i] = 3 /\ char[i] = (16 * Value(t[i + 1]) + Value(t[i + 2])) % 256
        /\ ~coded(i) => width[i] = 1 /\ char[i] = IF t[i] = Plus THEN Space ELSE t[i]
  BY <1>3
<1> HIDE DEF char, width
<1>5. OnAndWithin(n, width)
  BY <1>3, <1>4 DEF OnAndWithin
<1>6. ASSUME NEW k \in 1..Len(s)
      PROVE p[k] \in 1..n /\ char[p[k]] = s[k] /\ p[k] + width[p[k]] = p[k + 1]
  <2> DEFINE c == s[k]  i == p[k]
  <2>1. i \in Nat /\ c \in 0..255 /\ p[k + 1] = i + Len(Code(c))
        /\ \A j \in 1..Len(Code(c)) : i + j - 1 \in 1..n /\ t[i + j - 1] = Code(c)[j]
    BY <1>2
  <2> HIDE DEF c, i
  <2>2. CASE c = Space /\ Code(c) = <<Plus>>
    <3>1. Len(Code(c)) = 1 /\ Code(c)[1] = Plus /\ i + 1 - 1 = i
      BY <2>1, <2>2
    <3>2. i \in 1..n /\ t[i] = Plus /\ Plus # Percent
      BY <2>1, <3>1 DEF Plus, Percent
    <3>3. width[i] = 1 /\ char[i] = c
      BY <1>4, <2>2, <3>2
    <3> QED BY <2>1, <3>1, <3>2, <3>3 DEF c, i
  <2>3. CASE c # Percent /\ c # Plus /\ Code(c) = <<c>>
    <3>1. Len(Code(c)) = 1 /\ Code(c)[1] = c /\ i + 1 - 1 = i
      BY <2>1, <2>3
    <3>2. i \in 1..n /\ t[i] = c
      BY <2>1, <3>1
    <3>3. width[i] = 1 /\ char[i] = c
      BY <1>4, <2>3, <3>2
    <3> QED BY <2>1, <3>1, <3>2, <3>3 DEF c, i
  <2>4. ASSUME NEW h \in Nat, NEW l \in Nat,
               Code(c) = <<Percent, h, l>>, (16 * Value(h) + Value(l)) % 256 = c
        PROVE i \in 1..n /\ char[i] = c /\ i + width[i] = p[k + 1]
    <3>1. /\ Len(Code(c)) = 3 /\ Code(c)[1] = Percent /\ Code(c)[2] = h /\ Code(c)[3] = l
          /\ i + 1 - 1 = i /\ i + 2 - 1 = i + 1 /\ i + 3 - 1 = i + 2
      BY <2>1, <2>4
    <3>2. 1 \in 1..Len(Code(c)) /\ 2 \in 1..Len(Code(c)) /\ 3 \in 1..Len(Code(c))
      BY <3>1
    <3>3. i \in 1..n /\ t[i] = Percent /\ t[i + 1] = h /\ i + 2 \in 1..n /\ t[i + 2] = l
      BY <2>1, <3>1, <3>2
    <3>4. coded(i)
      BY <1>3, <3>3
    <3>5. width[i] = 3 /\ char[i] = c
      BY <1>4, <2>4, <3>3, <3>4
    <3> QED BY <2>1, <3>1, <3>3, <3>5
  <2> QED BY <2>1, <2>2, <2>3, <2>4, Codes DEF c, i
<1>7. Decoded(n, char, width) = s
  BY <1>2, <1>3, <1>5, <1>6, DecodedBlocks
<1> QED BY <1>1, <1>7

LEMMA CodedShort ==
  ASSUME NEW s \in Seq(0..255)
  PROVE  Len(Urlencoded(s)) =< 3 * Len(s)
<1> DEFINE e == Coded(s)
<1>1. /\ e \in Seq(Seq(Nat)) /\ Len(e) = Len(s) /\ Urlencoded(s) = FlattenSeq(e)
      /\ \A i \in 1..Len(s) : e[i] = Code(s[i]) /\ Len(Code(s[i])) \in 1..3
  BY CodedTypes
<1> HIDE DEF e
<1>2. ASSUME NEW i \in 1..Len(s) PROVE Len(e[i]) =< 3
  <2> DEFINE l == Len(e[i])
  <2>1. l \in 1..3
    BY <1>1, Zenon
  <2> HIDE DEF l
  <2>2. l =< 3
    BY <2>1
  <2> QED BY <2>2 DEF l
<1>3. Len(FlattenSeq(e)) =< 3 * Len(e)
  BY <1>1, <1>2, FlattenBound
<1> QED BY <1>1, <1>3

\* What preprocess_string makes of a posted field is what was in the field, if the
\* coded text fits into the buffer, as any does of a third of its size.
THEOREM FormsPost ==
  \A s \in Seq(0..255) : \A size \in Nat : 3 * Len(s) < size => Received(s, size) = s
<1> SUFFICES ASSUME NEW s \in Seq(0..255), NEW size \in Nat, 3 * Len(s) < size
             PROVE  Received(s, size) = s
  OBVIOUS
<1>1. Urlencoded(s) \in Seq(Nat)
  <2>1. Coded(s) \in Seq(Seq(Nat)) /\ Urlencoded(s) = FlattenSeq(Coded(s))
    BY CodedTypes
  <2> QED BY <2>1, FlattenBlocks
<1>2. Len(Urlencoded(s)) < size
  <2> DEFINE l == Len(Urlencoded(s))  m == Len(s)
  <2>1. l \in Nat /\ m \in Nat /\ l =< 3 * m /\ 3 * m < size
    BY <1>1, CodedShort
  <2> HIDE DEF l, m
  <2>2. l < size
    BY <2>1
  <2> QED BY <2>2 DEF l
<1> QED BY <1>2, DecodedCodes DEF Received, readUrlParameterIntoBuffer

-----------------------------------------------------------------------------
(* Texts that are taken apart.                                              *)

\* The places p[1], p[2], ... of g have the elements of x, and those in between
\* have nothing.
Picks(g, x, p) ==
  /\ p[0] = 0 /\ p[Len(x) + 1] = Len(g) + 1
  /\ \A k \in 1..Len(x) : p[k] \in 1..Len(g) /\ g[p[k]] = <<x[k]>>
  /\ \A k \in 0..Len(x) : p[k] < p[k + 1]
                          /\ \A i \in 1..Len(g) : p[k] < i /\ i < p[k + 1] => g[i] = <<>>

LEMMA FlattenPicks ==
  ASSUME NEW S, NEW g \in Seq(Seq(S)), NEW x \in Seq(S), NEW p, Picks(g, x, p)
  PROVE  FlattenSeq(g) = x
<1> DEFINE n == Len(g)  m == Len(x)
           F(i) == IF i = 0 THEN <<>> ELSE Joined(g)[i]
           Holds(i) == \A k \in 0..m : p[k] =< i /\ i < p[k + 1] => F(i) = SubSeq(x, 1, k)
           T == {i \in Nat : i =< n => Holds(i)}
<1>1. n \in Nat /\ m \in Nat /\ \A i \in 1..n : g[i] \in Seq(S)
  OBVIOUS
<1>2. /\ n # 0 => FlattenSeq(g) = F(n)
      /\ \A i \in 1..n : F(i) = F(i - 1) \o g[i]
  <2>1. n # 0 => FlattenSeq(g) = Joined(g)[n] /\ Joined(g)[1] = g[1]
    BY <1>1, FlattenJoined
  <2>2. \A i \in 2..n : Joined(g)[i] = Joined(g)[i - 1] \o g[i]
    BY <1>1, FlattenJoined
  <2>3. n # 0 => FlattenSeq(g) = F(n)
    BY <2>1
  <2>4. ASSUME NEW i \in 1..n PROVE F(i) = F(i - 1) \o g[i]
    <3>1. CASE i = 1
      <4>1. g[1] \in Seq(S) /\ n # 0
        BY <1>1, <3>1
      <4>2. F(1) = g[1] /\ F(1 - 1) = <<>>
        BY <2>1, <4>1
      <4>3. <<>> \o g[1] = g[1]
        BY <4>1
      <4> QED BY <3>1, <4>2, <4>3
    <3>2. CASE i # 1
      <4>1. i \in 2..n /\ i # 0 /\ i - 1 # 0
        BY <1>1, <3>2
      <4> QED BY <2>2, <4>1
    <3> QED BY <3>1, <3>2
  <2> QED BY <2>3, <2>4
<1> HIDE DEF F
<1>3. /\ p[0] = 0 /\ p[m + 1] = n + 1
      /\ \A k \in 1..m : p[k] \in 1..n /\ g[p[k]] = <<x[k]>>
      /\ \A k \in 0..m : p[k] \in Int /\ p[k + 1] \in Int /\ p[k] < p[k + 1]
                         /\ \A i \in 1..n : p[k] < i /\ i < p[k + 1] => g[i] = <<>>
  <2>1. \A k \in 0..m + 1 : p[k] \in Int
    <3>1. \A k \in 0..m + 1 : k = 0 \/ k = m + 1 \/ k \in 1..m
      BY <1>1
    <3> QED BY <1>1, <3>1 DEF Picks
  <2>2. \A k \in 0..m : k \in 0..m + 1 /\ k + 1 \in 0..m + 1
    BY <1>1
  <2> QED BY <2>1, <2>2 DEF Picks
<1> HIDE DEF n
<1>4. 0 \in T
  <2>1. ASSUME NEW k \in 0..m, p[k] =< 0 PROVE F(0) = SubSeq(x, 1, k)
    <3>1. k = 0
      BY <1>1, <1>3, <2>1
    <3>2. SubSeq(x, 1, 0) = <<>>
      BY SubSeqEmpty
    <3> QED BY <3>1, <3>2 DEF F
  <2> QED BY <2>1
<1>5. ASSUME NEW i \in Nat, i \in T PROVE i + 1 \in T
  <2>1. SUFFICES ASSUME i + 1 =< n, NEW k \in 0..m, p[k] =< i + 1, i + 1 < p[k + 1]
                 PROVE F(i + 1) = SubSeq(x, 1, k)
    OBVIOUS
  <2>2. \A j \in 0..m : p[j] =< i /\ i < p[j + 1] => F(i) = SubSeq(x, 1, j)
    BY <1>1, <1>5, <2>1
  <2>3. i + 1 \in 1..n /\ F(i + 1) = F(i) \o g[i + 1]
    <3>1. i + 1 \in 1..n /\ i + 1 - 1 = i
      BY <1>1, <2>1
    <3>2. F(i + 1) = F(i + 1 - 1) \o g[i + 1]
      <4> DEFINE j == i + 1
      <4>1. j \in 1..n
        BY <3>1
      <4> HIDE DEF j
      <4>2. F(j) = F(j - 1) \o g[j]
        BY <1>2, <4>1
      <4> QED BY <4>2 DEF j
    <3> QED BY <3>1, <3>2, Zenon
  <2>4. CASE p[k] = i + 1
    <3>1. k \in 1..m /\ k - 1 \in 0..m /\ k - 1 + 1 = k
      BY <1>1, <1>3, <2>4
    <3>2. p[k - 1] =< i /\ i < p[k - 1 + 1]
      <4> DEFINE j == k - 1
      <4>1. j \in 0..m /\ p[j + 1] = i + 1
        BY <2>4, <3>1
      <4> HIDE DEF j
      <4>2. p[j] \in Int /\ p[j] < i + 1
        BY <1>3, <4>1
      <4>3. p[j] =< i /\ i < p[j + 1]
        BY <4>1, <4>2
      <4> QED BY <4>3 DEF j
    <3>3. F(i) = SubSeq(x, 1, k - 1)
      BY <2>2, <3>1, <3>2
    <3>4. g[i + 1] = <<x[k]>>
      BY <1>3, <2>4, <3>1
    <3>5. SubSeq(x, 1, k) = SubSeq(x, 1, k - 1) \o <<x[k]>>
      BY <3>1, SubSeqRecursiveSecond
    <3> QED BY <2>3, <3>3, <3>4, <3>5
  <2>5. CASE p[k] # i + 1
    <3>1. p[k] =< i /\ i < p[k + 1] /\ p[k] < i + 1
      BY <1>3, <2>1, <2>5
    <3>2. F(i) = SubSeq(x, 1, k)
      BY <2>2, <3>1
    <3>3. g[i + 1] = <<>>
      BY <1>3, <2>1, <2>3, <3>1
    <3>4. SubSeq(x, 1, k) \in Seq(S)
      <4>1. \A j \in 1..k : x[j] \in S
        BY <1>1
      <4> QED BY <4>1, SubSeqProperties
    <3>5. SubSeq(x, 1, k) \o <<>> = SubSeq(x, 1, k)
      BY <3>4
    <3> QED BY <2>3, <3>2, <3>3, <3>5
  <2> QED BY <2>4, <2>5
<1> HIDE DEF T
<1>6. n \in T
  BY <1>1, <1>4, <1>5, Counted
<1>7. SubSeq(x, 1, m) = x
  BY SubSeqFull
<1>8. CASE n # 0
  <2>1. F(n) = SubSeq(x, 1, m)
    <3>1. m \in 0..m /\ p[m] =< n /\ n < p[m + 1]
      BY <1>1, <1>3
    <3>2. Holds(n)
      BY <1>1, <1>6 DEF T
    <3> QED BY <3>1, <3>2
  <2> QED BY <1>2, <1>7, <1>8, <2>1
<1>9. CASE n = 0
  <2>1. m = 0
    <3>1. 1..n = {}
      BY <1>9
    <3>2. m # 0 => 1 \in 1..m
      BY <1>1
    <3> QED BY <1>3, <3>1, <3>2
  <2>2. g = <<>> /\ x = <<>>
    <3>1. Len(g) = 0
      BY <1>9 DEF n
    <3> QED BY <2>1, <3>1, EmptySeq
  <2> QED BY <2>2 DEF FlattenSeq
<1> QED BY <1>8, <1>9

Begins(s, d, i) == s[i] # d /\ (i = 1 \/ s[i - 1] = d)
End(s, d, i) == Min({j \in i..Len(s) + 1 : j = Len(s) + 1 \/ s[j] = d})
Begun(s, d) == [i \in DOMAIN s |-> IF Begins(s, d, i) THEN <<SubSeq(s, i, End(s, d, i) - 1)>> ELSE <<>>]

\* A part goes up to the next delimiter, or to the end.
LEMMA EndAt ==
  ASSUME NEW S, NEW s \in Seq(S), NEW d, NEW i \in 1..Len(s), NEW w \in Seq(S),
         i + Len(w) =< Len(s) + 1, i + Len(w) = Len(s) + 1 \/ s[i + Len(w)] = d,
         \A j \in 1..Len(w) : s[i + j - 1] = w[j] /\ w[j] # d
  PROVE  SubSeq(s, i, End(s, d, i) - 1) = w
<1> DEFINE l == Len(w)  n == Len(s)
           ends == {j \in i..n + 1 : j = n + 1 \/ s[j] = d}
           z == i + l - 1
<1>1. l \in Nat /\ n \in Nat /\ i \in 1..n
  OBVIOUS
<1>2. i + l =< n + 1 /\ (i + l = n + 1 \/ s[i + l] = d) /\ \A j \in 1..l : s[i + j - 1] = w[j] /\ w[j] # d
  OBVIOUS
<1>3. \A j \in 1..n : s[j] \in S
  OBVIOUS
<1>4. w \in Seq(S) /\ Len(w) = l
  OBVIOUS
<1>5. End(s, d, i) = Min(ends)
  BY DEF End
<1> HIDE DEF l, n
<1>6. i + l \in ends
  BY <1>1, <1>2
<1>7. ASSUME NEW j \in ends PROVE j >= i + l
  <2>1. j \in i..n + 1 /\ (j = n + 1 \/ s[j] = d)
    OBVIOUS
  <2>2. SUFFICES ASSUME j < i + l PROVE FALSE
    BY <1>1, <2>1
  <2>3. j - i + 1 \in 1..l /\ i + (j - i + 1) - 1 = j /\ j # n + 1
    BY <1>1, <1>2, <2>1, <2>2
  <2>4. s[j] # d
    BY <1>2, <2>3
  <2> QED BY <2>1, <2>3, <2>4
<1>8. Min(ends) = i + l
  <2> HIDE DEF ends
  <2>1. Min(ends) \in ends /\ \A j \in ends : Min(ends) =< j
    <3>1. \A j \in ends : i + l =< j
      BY <1>7, <1>1 DEF ends
    <3> QED BY <1>6, <3>1, Zenon DEF Min
  <2>2. Min(ends) \in Int /\ Min(ends) =< i + l /\ Min(ends) >= i + l
    BY <1>1, <1>6, <1>7, <2>1 DEF ends
  <2> DEFINE e == Min(ends)
  <2>3. e \in Int /\ e =< i + l /\ e >= i + l
    BY <2>2
  <2> HIDE DEF e
  <2>4. e = i + l
    BY <1>1, <2>3
  <2> QED BY <2>4 DEF e
<1>9. z \in Int /\ z - i + 1 = l /\ End(s, d, i) - 1 = z /\ z =< n
  BY <1>1, <1>2, <1>5, <1>8
<1> HIDE DEF z
<1>10. \A j \in i..z : s[j] \in S
  BY <1>1, <1>3, <1>9
<1>11. /\ SubSeq(s, i, z) \in Seq(S) /\ Len(SubSeq(s, i, z)) = IF i =< z THEN z - i + 1 ELSE 0
       /\ \A j \in 1..z - i + 1 : SubSeq(s, i, z)[j] = s[i + j - 1]
  BY <1>1, <1>9, <1>10, SubSeqProperties
<1>12. Len(SubSeq(s, i, z)) = l
  BY <1>1, <1>9, <1>11
<1>13. \A j \in 1..l : SubSeq(s, i, z)[j] = w[j]
  BY <1>2, <1>9, <1>11
<1>14. SubSeq(s, i, z) = w
  BY <1>4, <1>11, <1>12, <1>13, SeqEqual
<1> QED BY <1>9, <1>14

\* s is the parts x at the places p[1], p[2], ..., with nothing but delimiters
\* before, between and after.
IsParts(s, d, x, p) ==
  /\ p[0] = 0 /\ p[Len(x) + 1] = Len(s) + 1
  /\ \A k \in 1..Len(x) :
       /\ p[k] \in 1..Len(s) /\ Len(x[k]) >= 1
       /\ p[k] + Len(x[k]) =< Len(s) + 1
       /\ p[k] + Len(x[k]) = Len(s) + 1 \/ s[p[k] + Len(x[k])] = d
       /\ p[k] = 1 \/ s[p[k] - 1] = d
       /\ \A j \in 1..Len(x[k]) : s[p[k] + j - 1] = x[k][j] /\ x[k][j] # d
  /\ \A k \in 0..Len(x) : p[k] < p[k + 1]
       /\ \A i \in 1..Len(s) : p[k] < i /\ i < p[k + 1] => ~Begins(s, d, i)

LEMMA Parts ==
  ASSUME NEW S, NEW s \in Seq(S), NEW d, NEW x \in Seq(Seq(S)), NEW p, IsParts(s, d, x, p)
  PROVE  Tokens(s, d) = x
<1> DEFINE g == Begun(s, d)  n == Len(s)  m == Len(x)
<1>1. Tokens(s, d) = FlattenSeq(g)
  BY DEF Tokens, Begun, Begins, End
<1>2. n \in Nat /\ m \in Nat /\ DOMAIN s = 1..n /\ \A k \in 1..m : x[k] \in Seq(S)
  OBVIOUS
<1>0. /\ p[0] = 0 /\ p[m + 1] = n + 1
      /\ \A k \in 1..m :
           /\ p[k] \in 1..n /\ Len(x[k]) >= 1
           /\ p[k] + Len(x[k]) =< n + 1
           /\ p[k] + Len(x[k]) = n + 1 \/ s[p[k] + Len(x[k])] = d
           /\ p[k] = 1 \/ s[p[k] - 1] = d
           /\ \A j \in 1..Len(x[k]) : s[p[k] + j - 1] = x[k][j] /\ x[k][j] # d
      /\ \A k \in 0..m : p[k] < p[k + 1]
           /\ \A i \in 1..n : p[k] < i /\ i < p[k + 1] => ~Begins(s, d, i)
  BY DEF IsParts
<1>3. \A i \in 1..n : g[i] = IF Begins(s, d, i) THEN <<SubSeq(s, i, End(s, d, i) - 1)>> ELSE <<>>
  BY <1>2 DEF Begun
<1>4. ASSUME NEW k \in 1..m PROVE p[k] \in 1..n /\ g[p[k]] = <<x[k]>>
  <2> DEFINE w == x[k]  i == p[k]
  <2>1. w \in Seq(S) /\ i \in 1..n
    BY <1>0, <1>2
  <2>2. /\ i + Len(w) =< n + 1 /\ (i + Len(w) = n + 1 \/ s[i + Len(w)] = d)
        /\ \A j \in 1..Len(w) : s[i + j - 1] = w[j] /\ w[j] # d
    BY <1>0
  <2>3. Len(w) >= 1 /\ (i = 1 \/ s[i - 1] = d)
    BY <1>0
  <2> HIDE DEF w, i
  <2>4. SubSeq(s, i, End(s, d, i) - 1) = w
    BY <2>1, <2>2, EndAt
  <2>5. s[i] # d
    <3> DEFINE l == Len(w)
    <3>1. l \in Nat /\ l >= 1
      BY <2>1, <2>3
    <3> HIDE DEF l
    <3>2. 1 \in 1..l /\ i + 1 - 1 = i
      BY <2>1, <3>1
    <3> QED BY <2>2, <3>2 DEF l
  <2>6. Begins(s, d, i)
    BY <2>3, <2>5 DEF Begins
  <2> QED BY <1>3, <2>1, <2>4, <2>6 DEF w, i
<1>5. \A k \in 0..m : p[k] < p[k + 1] /\ \A i \in 1..n : p[k] < i /\ i < p[k + 1] => g[i] = <<>>
  BY <1>0, <1>3
<1>6. g \in Seq(Seq(Seq(S))) /\ Len(g) = n
  <2>1. ASSUME NEW i \in 1..n PROVE g[i] \in Seq(Seq(S))
    <3>1. CASE \E k \in 1..m : p[k] = i
      <4>1. PICK k \in 1..m : p[k] = i
        BY <3>1
      <4>2. g[i] = <<x[k]>> /\ x[k] \in Seq(S)
        BY <1>2, <1>4, <4>1
      <4> HIDE DEF g
      <4> QED BY <4>2
    <3>2. CASE g[i] = <<>>
      BY <3>2
    <3>3. SUFFICES ASSUME \A k \in 1..m : p[k] # i, g[i] # <<>> PROVE FALSE
      BY <3>1, <3>2
    <3> DEFINE K == {k \in Nat : k =< m + 1 => p[k] < i}
    <3>4. 0 \in K
      BY <1>0, <1>2
    <3>5. ASSUME NEW k \in Nat, k \in K PROVE k + 1 \in K
      <4> SUFFICES ASSUME k + 1 =< m + 1 PROVE p[k + 1] < i
        OBVIOUS
      <4>1. k \in 0..m /\ p[k] < i
        BY <1>2, <3>5
      <4>2. ~ (i < p[k + 1])
        BY <1>5, <3>3, <4>1
      <4>3. k + 1 \in 1..m \/ k + 1 = m + 1
        <5> HIDE DEF m
        <5> QED BY <1>2, <4>1
      <4>4. p[k + 1] \in Int
        BY <1>0, <1>2, <4>3
      <4>5. p[k + 1] # i
        <5>1. p[m + 1] = n + 1 /\ n + 1 # i
          BY <1>0, <1>2
        <5> QED BY <3>3, <4>3, <5>1
      <4> QED BY <4>2, <4>4, <4>5
    <3> HIDE DEF K
    <3>6. m + 1 \in K
      BY <1>2, <3>4, <3>5, Counted
    <3>7. p[m + 1] < i
      BY <1>2, <3>6 DEF K
    <3> QED BY <1>0, <1>2, <3>7
  <2> HIDE DEF n
  <2>2. g = [i \in 1..n |-> g[i]]
    BY <1>2 DEF Begun
  <2> HIDE DEF g
  <2>3. g \in [1..n -> Seq(Seq(S))]
    BY <2>1, <2>2
  <2> QED BY <1>2, <2>3, SeqDef, LenProperties
<1> HIDE DEF g
<1>7. FlattenSeq(g) = x
  <2>1. p[0] = 0 /\ p[m + 1] = Len(g) + 1
    BY <1>0, <1>6
  <2>2. \A k \in 1..m : p[k] \in 1..Len(g) /\ g[p[k]] = <<x[k]>>
    BY <1>4, <1>6
  <2>3. \A k \in 0..m : p[k] < p[k + 1] /\ \A i \in 1..Len(g) : p[k] < i /\ i < p[k + 1] => g[i] = <<>>
    BY <1>5, <1>6
  <2>4. Picks(g, x, p)
    BY <2>1, <2>2, <2>3 DEF Picks
  <2> DEFINE R == Seq(S)
  <2>5. x \in Seq(R) /\ g \in Seq(Seq(R))
    BY <1>6
  <2> HIDE DEF n, m, R
  <2> QED BY <2>4, <2>5, FlattenPicks
<1> QED BY <1>1, <1>7

Free(s, d) == \A j \in 1..Len(s) : s[j] # d

\* Two texts with a delimiter between them.
LEMMA TwoParts ==
  ASSUME NEW S, NEW a \in Seq(S), NEW b \in Seq(S), NEW d \in S
  PROVE  LET r == a \o <<d>> \o b
         IN /\ r \in Seq(S) /\ Len(r) = Len(a) + 1 + Len(b) /\ r[Len(a) + 1] = d
            /\ \A j \in 1..Len(a) : r[j] = a[j]
            /\ \A j \in 1..Len(b) : r[Len(a) + 1 + j] = b[j]
<1> DEFINE e == <<d>>  c == a \o e  r == c \o b  la == Len(a)  lb == Len(b)
<1>0. e \in Seq(S) /\ Len(e) = 1 /\ e[1] = d /\ la \in Nat /\ lb \in Nat
  OBVIOUS
<1> HIDE DEF e
<1>1. c \in Seq(S) /\ Len(c) = Len(a) + Len(e)
      /\ \A i \in 1..Len(a) + Len(e) : c[i] = IF i <= Len(a) THEN a[i] ELSE e[i - Len(a)]
  BY <1>0, ConcatProperties
<1> HIDE DEF c
<1>2. r \in Seq(S) /\ Len(r) = Len(c) + Len(b)
      /\ \A i \in 1..Len(c) + Len(b) : r[i] = IF i <= Len(c) THEN c[i] ELSE b[i - Len(c)]
  <2>1. c \in Seq(S) /\ b \in Seq(S) /\ r = c \o b
    BY <1>1
  <2> HIDE DEF r
  <2> QED BY <2>1, ConcatProperties
<1> HIDE DEF r
<1>3. Len(c) = la + 1 /\ \A i \in 1..la + 1 : c[i] = IF i <= la THEN a[i] ELSE e[i - la]
  BY <1>0, <1>1
<1>4. Len(r) = la + 1 + lb /\ \A i \in 1..la + 1 + lb : r[i] = IF i <= la + 1 THEN c[i] ELSE b[i - (la + 1)]
  BY <1>2, <1>3
<1> HIDE DEF la, lb
<1>5. r[la + 1] = d
  <2>1. la + 1 \in 1..la + 1 + lb /\ la + 1 =< la + 1 /\ la + 1 \in 1..la + 1 /\ ~ (la + 1 =< la) /\ la + 1 - la = 1
    BY <1>0
  <2> QED BY <1>0, <1>3, <1>4, <2>1
<1>6. ASSUME NEW j \in 1..la PROVE r[j] = a[j]
  <2>1. j \in 1..la + 1 + lb /\ j =< la + 1 /\ j \in 1..la + 1 /\ j =< la
    BY <1>0
  <2> QED BY <1>3, <1>4, <2>1
<1>7. ASSUME NEW j \in 1..lb PROVE r[la + 1 + j] = b[j]
  <2> DEFINE i == la + 1 + j
  <2>1. i \in 1..la + 1 + lb /\ ~ (i =< la + 1) /\ i - (la + 1) = j
    BY <1>0
  <2> HIDE DEF i
  <2>2. r[i] = b[j]
    BY <1>4, <2>1
  <2> QED BY <2>2 DEF i
<1> QED BY <1>2, <1>4, <1>5, <1>6, <1>7 DEF r, c, e, la, lb

LEMMA RowTokens ==
  ASSUME NEW S, NEW a \in Seq(S), NEW b \in Seq(S), NEW d \in S,
         Free(a, d), Free(b, d), b # <<>>
  PROVE  Tokens(a \o <<d>> \o b, d) = IF a = <<>> THEN <<b>> ELSE <<a, b>>
<1> DEFINE r == a \o <<d>> \o b  la == Len(a)  lb == Len(b)
<1>1. /\ r \in Seq(S) /\ Len(r) = la + 1 + lb /\ r[la + 1] = d
      /\ \A j \in 1..la : r[j] = a[j]
      /\ \A j \in 1..lb : r[la + 1 + j] = b[j]
  BY TwoParts
<1>2. la \in Nat /\ lb \in Nat /\ (a = <<>> <=> la = 0) /\ lb >= 1
  BY EmptySeq
<1>3. (\A j \in 1..la : a[j] # d) /\ \A j \in 1..lb : b[j] # d
  BY DEF Free
<1>4. a \in Seq(S) /\ b \in Seq(S) /\ Len(a) = la /\ Len(b) = lb
  OBVIOUS
<1> HIDE DEF r, la, lb
<1>5. \A i \in la + 3..la + 1 + lb : ~Begins(r, d, i)
  <2>1. ASSUME NEW i \in la + 3..la + 1 + lb PROVE i # 1 /\ r[i - 1] # d
    <3>1. i - la - 2 \in 1..lb /\ la + 1 + (i - la - 2) = i - 1 /\ i # 1
      BY <1>2
    <3> QED BY <1>1, <1>3, <3>1
  <2> QED BY <2>1 DEF Begins
<1>6. CASE a = <<>>
  <2> DEFINE x == <<b>>  p == [k \in 0..2 |-> IF k = 0 THEN 0 ELSE IF k = 1 THEN 2 ELSE lb + 2]
  <2>1. p[0] = 0 /\ p[1] = 2 /\ p[2] = lb + 2 /\ Len(x) = 1 /\ x[1] = b /\ x \in Seq(Seq(S)) /\ la = 0
    BY <1>2, <1>4, <1>6
  <2> HIDE DEF x, p
  <2>2. p[Len(x) + 1] = Len(r) + 1
    BY <1>1, <1>2, <2>1
  <2>3. ASSUME NEW k \in 1..Len(x)
        PROVE /\ p[k] \in 1..Len(r) /\ Len(x[k]) >= 1
              /\ p[k] + Len(x[k]) =< Len(r) + 1
              /\ p[k] + Len(x[k]) = Len(r) + 1 \/ r[p[k] + Len(x[k])] = d
              /\ p[k] = 1 \/ r[p[k] - 1] = d
              /\ \A j \in 1..Len(x[k]) : r[p[k] + j - 1] = x[k][j] /\ x[k][j] # d
    <3>1. k = 1 /\ p[k] = 2 /\ x[k] = b
      BY <2>1
    <3>2. 2 \in 1..Len(r) /\ lb >= 1 /\ 2 + lb = Len(r) + 1 /\ 2 - 1 = la + 1
      BY <1>1, <1>2, <2>1
    <3>3. \A j \in 1..lb : 2 + j - 1 = la + 1 + j
      BY <1>2, <2>1
    <3>4. 2 + lb =< Len(r) + 1
      BY <1>2, <3>2
    <3>5. /\ 2 \in 1..Len(r) /\ Len(b) >= 1
          /\ 2 + Len(b) =< Len(r) + 1 /\ 2 + Len(b) = Len(r) + 1 /\ r[2 - 1] = d
          /\ \A j \in 1..Len(b) : r[2 + j - 1] = b[j] /\ b[j] # d
      BY <1>1, <1>3, <1>4, <3>2, <3>3, <3>4
    <3> QED BY <3>1, <3>5
  <2>4. ASSUME NEW k \in 0..Len(x)
        PROVE p[k] < p[k + 1] /\ \A i \in 1..Len(r) : p[k] < i /\ i < p[k + 1] => ~Begins(r, d, i)
    <3>1. k = 0 \/ k = 1
      BY <2>1
    <3>2. CASE k = 0
      <4>1. ~Begins(r, d, 1)
        BY <1>1, <2>1 DEF Begins
      <4>2. \A i \in 1..Len(r) : 0 < i /\ i < 2 => i = 1
        BY <1>1, <1>2
      <4> QED BY <2>1, <3>2, <4>1, <4>2
    <3>3. CASE k = 1
      <4>1. \A i \in 1..Len(r) : 2 < i /\ i < lb + 2 => i \in la + 3..la + 1 + lb
        BY <1>1, <1>2, <2>1
      <4>2. 2 < lb + 2 /\ p[k] = 2 /\ p[k + 1] = lb + 2
        BY <1>2, <2>1, <3>3
      <4> QED BY <1>5, <4>1, <4>2
    <3> QED BY <3>1, <3>2, <3>3
  <2>5. Tokens(r, d) = x
    <3>1. r \in Seq(S) /\ x \in Seq(Seq(S)) /\ p[0] = 0
      BY <1>1, <2>1
    <3>2. IsParts(r, d, x, p)
      BY <2>2, <2>3, <2>4, <3>1 DEF IsParts
    <3> QED BY <3>1, <3>2, Parts
  <2> QED BY <1>6, <2>5 DEF r, x
<1>7. CASE a # <<>>
  <2> DEFINE x == <<a, b>>
             p == [k \in 0..3 |-> IF k = 0 THEN 0 ELSE IF k = 1 THEN 1 ELSE IF k = 2 THEN la + 2 ELSE la + lb + 2]
  <2>1. /\ p[0] = 0 /\ p[1] = 1 /\ p[2] = la + 2 /\ p[3] = la + lb + 2
        /\ Len(x) = 2 /\ x[1] = a /\ x[2] = b /\ x \in Seq(Seq(S)) /\ la >= 1
    BY <1>2, <1>4, <1>7
  <2> HIDE DEF x, p
  <2>2. p[Len(x) + 1] = Len(r) + 1
    BY <1>1, <1>2, <2>1
  <2>3. ASSUME NEW k \in 1..Len(x)
        PROVE /\ p[k] \in 1..Len(r) /\ Len(x[k]) >= 1
              /\ p[k] + Len(x[k]) =< Len(r) + 1
              /\ p[k] + Len(x[k]) = Len(r) + 1 \/ r[p[k] + Len(x[k])] = d
              /\ p[k] = 1 \/ r[p[k] - 1] = d
              /\ \A j \in 1..Len(x[k]) : r[p[k] + j - 1] = x[k][j] /\ x[k][j] # d
    <3>1. k = 1 \/ k = 2
      BY <2>1
    <3>2. CASE k = 1
      <4>1. p[k] = 1 /\ x[k] = a
        BY <2>1, <3>2
      <4>2. 1 \in 1..Len(r) /\ la >= 1 /\ 1 + la = la + 1 /\ 1 + la =< Len(r) + 1
        BY <1>1, <1>2, <2>1
      <4>3. \A j \in 1..la : 1 + j - 1 = j
        BY <1>2
      <4>4. /\ 1 \in 1..Len(r) /\ Len(a) >= 1 /\ 1 + Len(a) =< Len(r) + 1 /\ r[1 + Len(a)] = d
            /\ \A j \in 1..Len(a) : r[1 + j - 1] = a[j] /\ a[j] # d
        BY <1>1, <1>3, <1>4, <4>2, <4>3
      <4> QED BY <4>1, <4>4
    <3>3. CASE k = 2
      <4>1. p[k] = la + 2 /\ x[k] = b
        BY <2>1, <3>3
      <4>2. la + 2 \in 1..Len(r) /\ lb >= 1 /\ la + 2 + lb = Len(r) + 1 /\ la + 2 - 1 = la + 1
            /\ la + 2 + lb =< Len(r) + 1
        BY <1>1, <1>2
      <4>3. \A j \in 1..lb : la + 2 + j - 1 = la + 1 + j
        BY <1>2
      <4> DEFINE i == la + 2
      <4>4. /\ i \in 1..Len(r) /\ Len(b) >= 1 /\ i + Len(b) =< Len(r) + 1 /\ i + Len(b) = Len(r) + 1
            /\ r[i - 1] = d /\ \A j \in 1..Len(b) : r[i + j - 1] = b[j] /\ b[j] # d
        <5>1. i \in 1..Len(r) /\ lb >= 1 /\ i + lb = Len(r) + 1 /\ i - 1 = la + 1 /\ i + lb =< Len(r) + 1
          BY <1>1, <1>2
        <5>2. ASSUME NEW j \in 1..lb PROVE r[i + j - 1] = b[j] /\ b[j] # d
          <6>1. i + j - 1 = la + 1 + j
            BY <4>3
          <6>2. r[la + 1 + j] = b[j] /\ b[j] # d
            BY <1>1, <1>3
          <6> QED BY <6>1, <6>2
        <5> HIDE DEF i
        <5> QED BY <1>1, <1>4, <5>1, <5>2
      <4>5. p[k] = i
        BY <4>1
      <4> HIDE DEF i
      <4> QED BY <4>1, <4>4, <4>5
    <3> QED BY <3>1, <3>2, <3>3
  <2>4. ASSUME NEW k \in 0..Len(x)
        PROVE p[k] < p[k + 1] /\ \A i \in 1..Len(r) : p[k] < i /\ i < p[k + 1] => ~Begins(r, d, i)
    <3>1. k = 0 \/ k = 1 \/ k = 2
      BY <2>1
    <3>2. CASE k = 0
      <4>1. \A i \in 1..Len(r) : ~ (0 < i /\ i < 1)
        BY <1>1, <1>2
      <4> QED BY <2>1, <3>2, <4>1
    <3>3. CASE k = 1
      <4>1. p[k] = 1 /\ p[k + 1] = la + 2 /\ 1 < la + 2
        BY <1>2, <2>1, <3>3
      <4>2. ASSUME NEW i \in 1..Len(r), 1 < i, i < la + 2 PROVE ~Begins(r, d, i)
        <5>1. i - 1 \in 1..la /\ i # 1
          BY <1>1, <1>2, <4>2
        <5> QED BY <1>1, <1>3, <5>1 DEF Begins
      <4> QED BY <4>1, <4>2
    <3>4. CASE k = 2
      <4>1. p[k] = la + 2 /\ p[k + 1] = la + lb + 2 /\ la + 2 < la + lb + 2
        BY <1>2, <2>1, <3>4
      <4>2. \A i \in 1..Len(r) : la + 2 < i /\ i < la + lb + 2 => i \in la + 3..la + 1 + lb
        BY <1>1, <1>2
      <4> QED BY <1>5, <4>1, <4>2
    <3> QED BY <3>1, <3>2, <3>3, <3>4
  <2>5. Tokens(r, d) = x
    <3>1. r \in Seq(S) /\ x \in Seq(Seq(S)) /\ p[0] = 0
      BY <1>1, <2>1
    <3>2. IsParts(r, d, x, p)
      BY <2>2, <2>3, <2>4, <3>1 DEF IsParts
    <3> QED BY <3>1, <3>2, Parts
  <2> QED BY <1>7, <2>5 DEF r, x
<1> QED BY <1>6, <1>7

\* Texts with a delimiter after each.
LEMMA ListTokens ==
  ASSUME NEW S, NEW d \in S, NEW x \in Seq(Seq(S)),
         \A k \in 1..Len(x) : x[k] # <<>> /\ Free(x[k], d)
  PROVE  Tokens(FlattenSeq([k \in 1..Len(x) |-> x[k] \o <<d>>]), d) = x
<1> DEFINE m == Len(x)
           q == [k \in 1..m |-> x[k] \o <<d>>]
           s == FlattenSeq(q)
           st == Starts(q)
           p == [k \in 0..m + 1 |-> IF k = 0 THEN 0 ELSE st[k]]
<1>1. m \in Nat /\ \A k \in 1..m : x[k] \in Seq(S) /\ Len(x[k]) \in Nat /\ Len(x[k]) >= 1
  BY EmptySeq
<1>2. ASSUME NEW k \in 1..m
      PROVE /\ q[k] \in Seq(S) /\ Len(q[k]) = Len(x[k]) + 1 /\ q[k][Len(x[k]) + 1] = d
            /\ \A j \in 1..Len(x[k]) : q[k][j] = x[k][j] /\ x[k][j] # d
  <2> DEFINE a == x[k]
  <2>1. a \in Seq(S) /\ q[k] = a \o <<d>> /\ Len(a) \in Nat
    BY <1>1
  <2>2. \A j \in 1..Len(a) : a[j] # d
    BY DEF Free
  <2> HIDE DEF a, q
  <2>3. q[k] \in Seq(S) /\ Len(q[k]) = Len(a) + 1 /\ q[k][Len(a) + 1] = d /\ \A j \in 1..Len(a) : q[k][j] = a[j]
    <3> DEFINE e == <<d>>
    <3>1. e \in Seq(S) /\ Len(e) = 1 /\ e[1] = d
      OBVIOUS
    <3> HIDE DEF e
    <3>2. a \o e \in Seq(S) /\ Len(a \o e) = Len(a) + Len(e)
          /\ \A i \in 1..Len(a) + Len(e) : (a \o e)[i] = IF i <= Len(a) THEN a[i] ELSE e[i - Len(a)]
      BY <2>1, <3>1, ConcatProperties
    <3>3. Len(a) + 1 \in 1..Len(a) + Len(e) /\ ~ (Len(a) + 1 <= Len(a)) /\ Len(a) + 1 - Len(a) = 1
      BY <2>1, <3>1
    <3>4. \A j \in 1..Len(a) : j \in 1..Len(a) + Len(e) /\ j <= Len(a)
      BY <2>1, <3>1
    <3> QED BY <2>1, <3>1, <3>2, <3>3, <3>4 DEF e
  <2> QED BY <2>2, <2>3 DEF a
<1>3. q \in Seq(Seq(S)) /\ Len(q) = m
  <2>1. q \in [1..m -> Seq(S)]
    BY <1>2
  <2> HIDE DEF q, m
  <2> QED BY <1>1, <2>1, SeqDef, LenProperties
<1> HIDE DEF q
<1>4. /\ s \in Seq(S) /\ st[1] = 1 /\ st[m + 1] = Len(s) + 1
      /\ \A k \in 1..m :
           /\ st[k] \in Nat /\ st[k + 1] = st[k] + Len(q[k])
           /\ \A j \in 1..Len(q[k]) : st[k] + j - 1 \in 1..Len(s) /\ s[st[k] + j - 1] = q[k][j]
  BY <1>3, FlattenBlocks
<1> DEFINE n == Len(s)
<1>5. n \in Nat
  BY <1>4
<1> HIDE DEF s, st, m, n
<1>6. /\ p[0] = 0 /\ p[1] = 1 /\ p[m + 1] = n + 1
      /\ \A k \in 1..m + 1 : p[k] = st[k]
  <2>1. \A k \in 1..m + 1 : k \in 0..m + 1 /\ k # 0
    BY <1>1
  <2>2. 0 \in 0..m + 1 /\ 1 \in 1..m + 1 /\ m + 1 \in 1..m + 1
    BY <1>1
  <2> QED BY <1>4, <2>1, <2>2 DEF n
<1> HIDE DEF p
<1>7. ASSUME NEW k \in 1..m
      PROVE /\ p[k] \in 1..n /\ Len(x[k]) \in Nat /\ Len(x[k]) >= 1 /\ p[k] + Len(x[k]) + 1 = p[k + 1]
            /\ p[k] + Len(x[k]) \in 1..n /\ s[p[k] + Len(x[k])] = d
            /\ \A j \in 1..Len(x[k]) : p[k] + j - 1 \in 1..n /\ s[p[k] + j - 1] = x[k][j] /\ x[k][j] # d
  <2> DEFINE i == p[k]  l == Len(x[k])
  <2>1. l \in Nat /\ l >= 1
    BY <1>1
  <2>2. Len(q[k]) = l + 1 /\ q[k][l + 1] = d /\ \A j \in 1..l : q[k][j] = x[k][j] /\ x[k][j] # d
    BY <1>2
  <2> HIDE DEF l
  <2>3. i \in Nat /\ p[k + 1] = i + (l + 1)
        /\ \A j \in 1..l + 1 : i + j - 1 \in 1..n /\ s[i + j - 1] = q[k][j]
    <3>1. k \in 1..m + 1 /\ k + 1 \in 1..m + 1
      BY <1>1
    <3> QED BY <1>4, <1>6, <2>2, <3>1 DEF n
  <2>4. 1 \in 1..l + 1 /\ l + 1 \in 1..l + 1 /\ i + 1 - 1 = i /\ i + (l + 1) - 1 = i + l /\ i + l + 1 = i + (l + 1)
    BY <2>1, <2>3
  <2>5. \A j \in 1..l : j \in 1..l + 1
    BY <2>1
  <2> HIDE DEF i
  <2>6. /\ i \in 1..n /\ i + l + 1 = p[k + 1] /\ i + l \in 1..n /\ s[i + l] = d
        /\ \A j \in 1..l : i + j - 1 \in 1..n /\ s[i + j - 1] = x[k][j] /\ x[k][j] # d
    BY <2>2, <2>3, <2>4, <2>5
  <2> QED BY <2>1, <2>6 DEF i, l
<1>8. ASSUME NEW k \in 1..m
      PROVE /\ p[k] \in 1..n /\ Len(x[k]) >= 1
            /\ p[k] + Len(x[k]) =< n + 1
            /\ p[k] + Len(x[k]) = n + 1 \/ s[p[k] + Len(x[k])] = d
            /\ p[k] = 1 \/ s[p[k] - 1] = d
            /\ \A j \in 1..Len(x[k]) : s[p[k] + j - 1] = x[k][j] /\ x[k][j] # d
  <2>1. /\ p[k] \in 1..n /\ Len(x[k]) >= 1 /\ p[k] + Len(x[k]) \in 1..n /\ s[p[k] + Len(x[k])] = d
        /\ \A j \in 1..Len(x[k]) : s[p[k] + j - 1] = x[k][j] /\ x[k][j] # d
    BY <1>7
  <2>2. p[k] + Len(x[k]) =< n + 1
    <3> DEFINE y == p[k] + Len(x[k])
    <3>1. y \in 1..n
      BY <2>1
    <3> HIDE DEF y
    <3>2. y =< n + 1
      BY <1>5, <3>1
    <3> QED BY <3>2 DEF y
  <2>3. CASE k = 1
    BY <1>6, <2>1, <2>2, <2>3
  <2>4. CASE k # 1
    <3> DEFINE h == k - 1  i == p[h]  l == Len(x[h])
    <3>1. h \in 1..m /\ h + 1 = k
      BY <1>1, <2>4
    <3> HIDE DEF h
    <3>2. i \in 1..n /\ l \in Nat /\ i + l + 1 = p[h + 1] /\ s[i + l] = d
      BY <1>7, <3>1
    <3> HIDE DEF i, l
    <3>3. p[k] = i + l + 1 /\ i + l + 1 - 1 = i + l
      BY <1>5, <3>1, <3>2
    <3>4. s[p[k] - 1] = d
      BY <3>2, <3>3
    <3> QED BY <2>1, <2>2, <3>4, Zenon
  <2> QED BY <2>3, <2>4
<1>9. ASSUME NEW k \in 0..m
      PROVE p[k] < p[k + 1] /\ \A i \in 1..n : p[k] < i /\ i < p[k + 1] => ~Begins(s, d, i)
  <2>1. CASE k = 0
    <3>1. \A i \in 1..n : ~ (0 < i /\ i < 1)
      BY <1>5
    <3> QED BY <1>6, <2>1, <3>1
  <2>2. CASE k # 0
    <3> DEFINE h == p[k]  l == Len(x[k])
    <3>1. k \in 1..m
      BY <1>1, <2>2
    <3>2. /\ h \in 1..n /\ l \in Nat /\ l >= 1 /\ h + l + 1 = p[k + 1] /\ s[h + l] = d
          /\ \A j \in 1..l : h + j - 1 \in 1..n /\ s[h + j - 1] = x[k][j] /\ x[k][j] # d
      BY <1>7, <3>1
    <3> HIDE DEF l
    <3>3. ASSUME NEW i \in 1..n, h < i, i < h + l + 1 PROVE ~Begins(s, d, i)
      <4> HIDE DEF h
      <4>1. i # 1
        BY <1>5, <3>2, <3>3
      <4>2. i - h \in 1..l /\ h + (i - h) - 1 = i - 1
        BY <1>5, <3>2, <3>3
      <4>3. s[i - 1] # d
        BY <3>2, <4>2
      <4> QED BY <4>1, <4>3 DEF Begins
    <3>4. h < h + l + 1
      <4> HIDE DEF h
      <4> QED BY <1>5, <3>2
    <3> QED BY <3>2, <3>3, <3>4
  <2> QED BY <2>1, <2>2
<1>10. Tokens(s, d) = x
  <2>1. IsParts(s, d, x, p)
    BY <1>6, <1>8, <1>9 DEF IsParts, m, n
  <2> QED BY <1>4, <2>1, Parts
<1> QED BY <1>10 DEF s, q, m

-----------------------------------------------------------------------------
(* The list, and the texts of an uplink.                                    *)

Byte == 0..255

LEMMA Numbers ==
  ASSUME NEW s \in Seq(Byte)
  PROVE  s \in Seq(Nat)
<1>1. Len(s) \in Nat /\ \A i \in 1..Len(s) : s[i] \in Byte
  BY ElementOfSeq
<1>2. \A i \in 1..Len(s) : s[i] \in Nat
  <2>1. \A c \in Byte : c \in Nat
    BY DEF Byte
  <2> QED BY <1>1, <2>1, Zenon
<1>3. s = [i \in 1..Len(s) |-> s[i]]
  OBVIOUS
<1>4. s \in [1..Len(s) -> Nat]
  BY <1>2, <1>3, Zenon
<1> QED BY <1>1, <1>4, SeqDef

LEMMA Air ==
  ASSUME NEW air \in Airs
  PROVE  /\ Len(air) \in Nat /\ DOMAIN air = 1..Len(air)
         /\ FieldEnd \in Byte /\ RowEnd \in Byte /\ FieldEnd # RowEnd
         /\ \A i \in 1..Len(air) :
              /\ air[i].ssid \in Seq(Byte) /\ air[i].rssi \in Seq(Byte)
              /\ Len(air[i].ssid) =< 32 /\ air[i].rssi # <<>>
              /\ Free(air[i].ssid, FieldEnd) /\ Free(air[i].ssid, RowEnd)
              /\ Free(air[i].rssi, FieldEnd) /\ Free(air[i].rssi, RowEnd)
<1>1. /\ air \in Seq([ssid : Seq(Byte), rssi : Seq(Byte)])
      /\ \A i \in DOMAIN air :
           /\ Len(air[i].ssid) =< 32 /\ air[i].rssi # <<>>
           /\ \A c \in Range(air[i].ssid) \cup Range(air[i].rssi) : c \notin {FieldEnd, RowEnd}
  BY PickAssumption DEF Byte
<1>2. Len(air) \in Nat /\ DOMAIN air = 1..Len(air)
  BY <1>1
<1>3. FieldEnd \in Byte /\ RowEnd \in Byte /\ FieldEnd # RowEnd
  BY DEF Byte, FieldEnd, RowEnd
<1> HIDE DEF Byte
<1>4. ASSUME NEW i \in 1..Len(air)
      PROVE /\ air[i].ssid \in Seq(Byte) /\ air[i].rssi \in Seq(Byte)
            /\ Free(air[i].ssid, FieldEnd) /\ Free(air[i].ssid, RowEnd)
            /\ Free(air[i].rssi, FieldEnd) /\ Free(air[i].rssi, RowEnd)
  <2> DEFINE a == air[i].ssid  b == air[i].rssi
  <2>1. air[i] \in [ssid : Seq(Byte), rssi : Seq(Byte)]
    BY <1>1, ElementOfSeq
  <2>2. a \in Seq(Byte) /\ b \in Seq(Byte)
    BY <2>1
  <2>3. \A c \in Range(a) \cup Range(b) : c # FieldEnd /\ c # RowEnd
    BY <1>1, <1>2
  <2> HIDE DEF a, b
  <2>4. (\A j \in 1..Len(a) : a[j] \in Range(a)) /\ \A j \in 1..Len(b) : b[j] \in Range(b)
    BY <2>2 DEF Range
  <2> QED BY <2>2, <2>3, <2>4 DEF a, b, Free
<1> QED BY <1>1, <1>2, <1>3, <1>4

\* A list is shown as it was found: as result_download_get_handler takes apart
\* what wifi_scan has put together, with the SSIDs as a browser reads them.
THEOREM ListBack ==
  ASSUME NEW air \in Airs
  PROVE  Rows(ScanText(air)) = Named(air) /\ Range(Named(air)) \subseteq Ssids(air)
<1> DEFINE n == Len(air)
           ssid(i) == air[i].ssid
           rssi(i) == air[i].rssi
           x == [i \in 1..n |-> ssid(i) \o <<FieldEnd>> \o rssi(i)]
<1>1. n \in Nat /\ DOMAIN air = 1..n /\ FieldEnd \in Byte /\ RowEnd \in Byte /\ FieldEnd # RowEnd
  BY Air
<1>2. \A i \in 1..n :
        /\ ssid(i) \in Seq(Byte) /\ rssi(i) \in Seq(Byte)
        /\ Len(ssid(i)) =< 32 /\ rssi(i) # <<>>
        /\ Free(ssid(i), FieldEnd) /\ Free(ssid(i), RowEnd)
        /\ Free(rssi(i), FieldEnd) /\ Free(rssi(i), RowEnd)
  BY Air
<1>3. /\ ScanText(air) = FlattenSeq([i \in 1..n |-> ssid(i) \o <<FieldEnd>> \o rssi(i) \o <<RowEnd>>])
      /\ Named(air) = FlattenSeq([i \in 1..n |-> IF ssid(i) = <<>> THEN <<>> ELSE <<ssid(i)>>])
      /\ \A i \in 1..n : ssid(i) \in Ssids(air)
  BY <1>1, Zenon DEF ScanText, Named, Ssids
<1> HIDE DEF n, ssid, rssi
<1>4. ASSUME NEW i \in 1..n
      PROVE /\ x[i] \in Seq(Byte) /\ x[i] # <<>> /\ Free(x[i], RowEnd)
            /\ Tokens(x[i], FieldEnd) = IF ssid(i) = <<>> THEN <<rssi(i)>> ELSE <<ssid(i), rssi(i)>>
  <2> DEFINE a == ssid(i)  b == rssi(i)  r == x[i]
  <2>1. a \in Seq(Byte) /\ b \in Seq(Byte) /\ b # <<>> /\ r = a \o <<FieldEnd>> \o b
        /\ Free(a, FieldEnd) /\ Free(a, RowEnd) /\ Free(b, FieldEnd) /\ Free(b, RowEnd)
    BY <1>2
  <2> HIDE DEF a, b, r
  <2>2. Tokens(r, FieldEnd) = IF a = <<>> THEN <<b>> ELSE <<a, b>>
    BY <1>1, <2>1, RowTokens
  <2>3. /\ r \in Seq(Byte) /\ Len(r) = Len(a) + 1 + Len(b) /\ r[Len(a) + 1] = FieldEnd
        /\ \A j \in 1..Len(a) : r[j] = a[j]
        /\ \A j \in 1..Len(b) : r[Len(a) + 1 + j] = b[j]
    BY <1>1, <2>1, TwoParts
  <2>4. Len(a) \in Nat /\ Len(b) \in Nat
    BY <2>1
  <2>5. r # <<>>
    <3> DEFINE l == Len(r)
    <3>1. l # 0
      BY <2>3, <2>4
    <3> QED BY <3>1
  <2>6. Free(r, RowEnd)
    <3> DEFINE la == Len(a)  lb == Len(b)  lr == Len(r)
    <3>1. lr = la + 1 + lb /\ la \in Nat /\ lb \in Nat
      BY <2>3, <2>4
    <3>2. /\ \A j \in 1..la : r[j] # RowEnd
          /\ r[la + 1] # RowEnd
          /\ \A j \in 1..lb : r[la + 1 + j] # RowEnd
      BY <1>1, <2>1, <2>3 DEF Free
    <3> HIDE DEF la, lb, lr
    <3>3. ASSUME NEW j \in 1..lr PROVE r[j] # RowEnd
      <4>1. j \in 1..la \/ j = la + 1 \/ (j - (la + 1) \in 1..lb /\ la + 1 + (j - (la + 1)) = j)
        BY <3>1
      <4> QED BY <3>2, <4>1
    <3> QED BY <3>3 DEF Free, lr
  <2> QED BY <2>2, <2>3, <2>5, <2>6 DEF a, b, r
<1>5. x \in Seq(Seq(Byte)) /\ Len(x) = n
  <2>1. x \in [1..n -> Seq(Byte)]
    BY <1>4
  <2> HIDE DEF x
  <2> QED BY <1>1, <2>1, SeqDef, LenProperties
<1>6. ScanText(air) = FlattenSeq([k \in 1..Len(x) |-> x[k] \o <<RowEnd>>])
  <2>1. \A i \in 1..n : x[i] \o <<RowEnd>> = ssid(i) \o <<FieldEnd>> \o rssi(i) \o <<RowEnd>>
    OBVIOUS
  <2> HIDE DEF x
  <2>2. [k \in 1..n |-> x[k] \o <<RowEnd>>] = [i \in 1..n |-> ssid(i) \o <<FieldEnd>> \o rssi(i) \o <<RowEnd>>]
    BY <2>1
  <2> QED BY <1>3, <1>5, <2>2
<1>7. Tokens(ScanText(air), RowEnd) = x
  <2>1. \A k \in 1..Len(x) : x[k] # <<>> /\ Free(x[k], RowEnd)
    BY <1>4, <1>5
  <2> HIDE DEF x
  <2>2. Tokens(FlattenSeq([k \in 1..Len(x) |-> x[k] \o <<RowEnd>>]), RowEnd) = x
    BY <1>1, <1>5, <2>1, ListTokens
  <2> QED BY <1>6, <2>2
<1> DEFINE row == [i \in DOMAIN x |-> Tokens(x[i], FieldEnd)]
           Shown(i) == IF Len(row[i]) >= 2 THEN <<Unescaped(sanitize_html(row[i][1], SsidSize))>> ELSE <<>>
<1>8. Rows(ScanText(air)) = FlattenSeq([i \in DOMAIN row |-> Shown(i)])
  <2> HIDE DEF x
  <2> QED BY <1>7 DEF Rows
<1>9. DOMAIN row = 1..n
  OBVIOUS
<1>10. ASSUME NEW i \in 1..n PROVE Shown(i) = IF ssid(i) = <<>> THEN <<>> ELSE <<ssid(i)>>
  <2> DEFINE t == row[i]
  <2>1. t = IF ssid(i) = <<>> THEN <<rssi(i)>> ELSE <<ssid(i), rssi(i)>>
    BY <1>4
  <2> HIDE DEF row
  <2>2. CASE ssid(i) = <<>>
    <3>1. Len(t) = 1
      BY <2>1, <2>2
    <3> QED BY <2>2, <3>1
  <2>3. CASE ssid(i) # <<>>
    <3>1. Len(t) = 2 /\ t[1] = ssid(i)
      BY <2>1, <2>3
    <3>2. Unescaped(sanitize_html(ssid(i), SsidSize)) = ssid(i)
      <4> DEFINE a == ssid(i)  l == Len(a)
      <4>1. a \in Seq(Byte) /\ l =< 32 /\ l \in Nat
        BY <1>2
      <4> HIDE DEF a, l
      <4>2. 6 * l < SsidSize /\ SsidSize \in Nat
        BY <4>1 DEF SsidSize
      <4>3. a \in Seq(Nat)
        BY <4>1, Numbers
      <4> QED BY <4>2, <4>3, PagesShow DEF a, l
    <3> QED BY <2>3, <3>1, <3>2
  <2> QED BY <2>2, <2>3
<1> HIDE DEF row, Shown, x
<1>11. [i \in DOMAIN row |-> Shown(i)] = [i \in 1..n |-> IF ssid(i) = <<>> THEN <<>> ELSE <<ssid(i)>>]
  BY <1>9, <1>10
<1>12. Rows(ScanText(air)) = Named(air)
  BY <1>3, <1>8, <1>11, Zenon
<1>13. Range(Named(air)) \subseteq Ssids(air)
  <2> DEFINE g == [i \in 1..n |-> IF ssid(i) = <<>> THEN <<>> ELSE <<ssid(i)>>]  R == Ssids(air)
  <2>1. \A i \in 1..n : ssid(i) \in R
    BY <1>3
  <2> HIDE DEF R
  <2>2. g \in [1..n -> Seq(R)]
    BY <2>1
  <2> HIDE DEF g
  <2>3. g \in Seq(Seq(R))
    BY <1>1, <2>2, SeqDef
  <2>4. FlattenSeq(g) \in Seq(R)
    BY <2>3, FlattenBlocks
  <2>5. Named(air) \in Seq(R)
    BY <1>3, <2>4 DEF g
  <2>6. Range(Named(air)) \subseteq R
    BY <2>5 DEF Range
  <2> QED BY <2>6 DEF R
<1> QED BY <1>12, <1>13

\* Without a result there are no rows.
LEMMA NoRows == Rows(<<>>) = <<>>
<1>1. Tokens(<<>>, RowEnd) = <<>>
  <2>1. DOMAIN <<>> = {}
    OBVIOUS
  <2>2. Begun(<<>>, RowEnd) = <<>>
    BY DEF Begun
  <2> QED BY <2>2 DEF Tokens, Begun, Begins, End, FlattenSeq
<1>2. Rows(<<>>) = FlattenSeq(<<>>)
  BY <1>1 DEF Rows
<1> QED BY <1>2 DEF FlattenSeq

\* No text is changed by a page and a browser, or by a browser and a form.
LEMMA TextsBack ==
  ASSUME NEW s \in {Home.ssid, Home.passwd, <<>>} \cup Passwords \cup UNION {Ssids(air) : air \in Airs}
  PROVE  Unescaped(alloc_safe_str(s)) = s /\ Received(s, ParamSize) = s
<1>1. IsField(s)
  <2>1. CASE s = <<>>
    BY <2>1 DEF IsField, ParamSize
  <2>2. CASE s \in {Home.ssid, Home.passwd} \cup Passwords
    BY <2>2, PickAssumption
  <2>3. CASE \E air \in Airs : s \in Ssids(air)
    <3>1. PICK air \in Airs : s \in Ssids(air)
      BY <2>3
    <3>2. PICK i \in DOMAIN air : s = air[i].ssid
      BY <3>1 DEF Ssids
    <3>3. s \in Seq(0..255) /\ Len(s) =< 32
      BY <3>2, Air DEF Byte
    <3> DEFINE l == Len(s)
    <3>4. l \in Nat /\ l =< 32
      BY <3>3
    <3> HIDE DEF l
    <3>5. 3 * l < ParamSize
      BY <3>4 DEF ParamSize
    <3> QED BY <3>3, <3>5 DEF IsField, l
  <2> QED BY <2>1, <2>2, <2>3
<1>2. s \in Seq(0..255) /\ 3 * Len(s) < ParamSize
  BY <1>1 DEF IsField
<1>3. Received(s, ParamSize) = s
  BY <1>2, FormsPost DEF ParamSize
<1>4. Unescaped(alloc_safe_str(s)) = s
  <2> DEFINE l == Len(s)  size == l * 6 + 1
  <2>1. s \in Seq(Nat) /\ l \in Nat
    BY <1>2, Numbers DEF Byte
  <2>2. size \in Nat /\ 6 * l < size
    BY <2>1
  <2>3. alloc_safe_str(s) = sanitize_html(s, size)
    BY DEF alloc_safe_str
  <2> HIDE DEF size
  <2> QED BY <2>1, <2>2, <2>3, PagesShow
<1> QED BY <1>3, <1>4

-----------------------------------------------------------------------------
(* What is shown, picked and stored.                                        *)

\* The SSID and the password belong together: those of before, or those of a
\* network that the scans have heard.
Good(u, heard) ==
  \/ u.ssid = Home.ssid /\ u.passwd \in Passwords \cup {Home.passwd}
  \/ u.passwd \in Passwords \cup {<<>>} /\ \E air \in heard : u.ssid \in Ssids(air)

\* Every list, stored or shown, is one that was found, and the network that was
\* picked is of such a list.
Lists ==
  /\ airs \subseteq Airs
  /\ found = <<>> \/ \E air \in airs : found = ScanText(air)
  /\ DOMAIN page = Browsers
  /\ \A b \in Browsers : page[b].shows = "list" =>
       page[b].rows = <<>> \/ \E air \in airs : page[b].rows = Named(air)
  /\ appliedSSID = <<>> \/ \E air \in airs : \E s \in Ssids(air) : appliedSSID = alloc_safe_str(s)

\* The uplink as it is once the password is written that is still to be
\* written.
Written == [ssid |-> uplink.ssid,
            passwd |-> IF applying = Nothing THEN uplink.passwd ELSE applying[1]]

\* Until the power fails in between: what is stored, what runs and what the
\* pages show belongs together.
Ups ==
  /\ DOMAIN uplink = {"ssid", "passwd"}
  /\ pc = "boot" => applying = Nothing
  /\ ~torn =>
       /\ Good(Written, airs)
       /\ pc # "boot" => Good(running, airs)
       /\ \A b \in Browsers : page[b].shows = "form" => Good(page[b].uplink, airs)

PickInv == Lists /\ Ups

\* A text of an uplink that belongs together survives pages, browsers and forms.
LEMMA GoodTexts ==
  ASSUME NEW heard \in SUBSET Airs, NEW u, Good(u, heard),
         NEW s \in {u.ssid, u.passwd} \cup Passwords
  PROVE  Unescaped(alloc_safe_str(s)) = s /\ Received(s, ParamSize) = s
<1>1. s \in {Home.ssid, Home.passwd, <<>>} \cup Passwords \cup UNION {Ssids(air) : air \in Airs}
  BY Zenon DEF Good
<1> QED BY <1>1, TextsBack

\* So does an SSID that was heard.
LEMMA HeardTexts ==
  ASSUME NEW heard \in SUBSET Airs, NEW air \in heard, NEW s \in Ssids(air)
  PROVE  Unescaped(alloc_safe_str(s)) = s /\ Received(s, ParamSize) = s
<1>1. s \in UNION {Ssids(a) : a \in Airs}
  OBVIOUS
<1> QED BY <1>1, TextsBack

\* As a scan adds to what was heard, what belonged together still does.
LEMMA GoodKeeps ==
  ASSUME NEW more, NEW heard \in SUBSET more, NEW u, Good(u, heard)
  PROVE  Good(u, more)
BY DEF Good

\* Only the two texts matter.
LEMMA GoodSame ==
  ASSUME NEW heard, NEW u, Good(u, heard), NEW v, v.ssid = u.ssid, v.passwd = u.passwd
  PROVE  Good(v, heard)
BY DEF Good

LEMMA PickInit == InitPick => PickInv
<1> SUFFICES ASSUME InitPick PROVE PickInv
  OBVIOUS
<1>1. DOMAIN page = Browsers /\ \A b \in Browsers : page[b].shows = "nothing"
  BY DEF InitPick, NoPage
<1>2. Lists
  BY <1>1 DEF InitPick, Lists
<1>3. DOMAIN uplink = {"ssid", "passwd"} /\ uplink = Home
  BY PickAssumption DEF InitPick
<1>4. Good(Written, airs)
  BY <1>3 DEF InitPick, Good, Written
<1>5. Ups
  BY <1>1, <1>3, <1>4 DEF InitPick, Init, Ups
<1> QED BY <1>2, <1>5 DEF PickInv

LEMMA PickInvStep == PickInv /\ [NextPick]_<<vars, pick>> => PickInv'
<1> SUFFICES ASSUME PickInv, [NextPick]_<<vars, pick>> PROVE PickInv'
  OBVIOUS
<1>0. Lists /\ Ups
  BY DEF PickInv
<1>1. CASE BootUplink
  <2>1. UNCHANGED <<found, uplink, appliedSSID, applying, page, airs, torn>> /\ running' = uplink /\ pc = "boot"
    BY <1>1 DEF BootUplink, Boot
  <2>2. pc' # "boot"
    BY <1>1 DEF BootUplink, Boot
  <2>3. Lists'
    BY <1>0, <2>1 DEF Lists
  <2>4. Written.ssid = uplink.ssid /\ Written.passwd = uplink.passwd /\ Written' = Written
    BY <1>0, <2>1 DEF Ups, Written
  <2>5. ~torn => Good(uplink, airs)
    BY <1>0, <2>4, GoodSame DEF Ups
  <2>6. Ups'
    BY <1>0, <2>1, <2>2, <2>4, <2>5 DEF Ups
  <2> QED BY <2>3, <2>6 DEF PickInv
<1>2. CASE EraseFound
  <2>1. UNCHANGED <<uplink, running, appliedSSID, applying, page, airs, torn>> /\ found' = <<>>
    BY <1>2 DEF EraseFound
  <2>2. pc # "boot" /\ pc' # "boot"
    BY <1>2 DEF EraseFound, EraseResult
  <2>3. Lists'
    BY <1>0, <2>1 DEF Lists
  <2>4. Ups'
    BY <1>0, <2>1, <2>2 DEF Ups, Written
  <2> QED BY <2>3, <2>4 DEF PickInv
<1>3. CASE StoreFound
  <2>1. UNCHANGED <<uplink, running, appliedSSID, applying, page, torn>> /\ pc # "boot" /\ pc' # "boot"
    BY <1>3 DEF StoreFound, Store
  <2>2. \/ \E air \in Airs : found' = ScanText(air) /\ airs' = airs \cup {air}
        \/ UNCHANGED <<found, airs>>
    BY <1>3 DEF StoreFound
  <2>3. airs \subseteq airs'
    BY <2>2
  <2>4. Lists'
    <3>1. airs' \subseteq Airs
      BY <1>0, <2>2 DEF Lists
    <3>2. found' = <<>> \/ \E air \in airs' : found' = ScanText(air)
      BY <1>0, <2>2 DEF Lists
    <3> QED BY <1>0, <2>1, <2>3, <3>1, <3>2 DEF Lists
  <2>5. Ups'
    <3>1. Written' = Written
      BY <2>1 DEF Written
    <3>2. ~torn' => Good(Written, airs') /\ Good(running, airs')
      BY <1>0, <2>1, <2>3, GoodKeeps DEF Ups
    <3>3. ASSUME ~torn', NEW b \in Browsers, page[b].shows = "form" PROVE Good(page[b].uplink, airs')
      BY <1>0, <2>1, <2>3, <3>3, GoodKeeps DEF Ups
    <3> QED BY <1>0, <2>1, <3>1, <3>2, <3>3 DEF Ups
  <2> QED BY <2>4, <2>5 DEF PickInv
<1>4. CASE RestartPick
  <2>1. UNCHANGED <<found, uplink, page, airs>> /\ appliedSSID' = <<>> /\ applying' = Nothing /\ pc' = "boot"
    BY <1>4 DEF RestartPick, Restart
  <2>2. ~torn' => ~torn /\ applying = Nothing
    BY <1>4 DEF RestartPick
  <2>3. Lists'
    BY <1>0, <2>1 DEF Lists
  <2>4. ~torn' => Written' = Written
    BY <2>1, <2>2 DEF Written
  <2>5. Ups'
    BY <1>0, <2>1, <2>2, <2>4 DEF Ups
  <2> QED BY <2>3, <2>5 DEF PickInv
<1>5. CASE SetPasswd
  <2>1. UNCHANGED <<vars, found, running, appliedSSID, page, airs, torn>> /\ applying # Nothing /\ applying' = Nothing
    BY <1>5 DEF SetPasswd
  <2>2. uplink' = [uplink EXCEPT !.passwd = applying[1]]
    BY <1>5 DEF SetPasswd
  <2>3. DOMAIN uplink' = {"ssid", "passwd"} /\ Written' = Written
    BY <1>0, <2>1, <2>2 DEF Ups, Written
  <2>4. Lists'
    BY <1>0, <2>1 DEF Lists
  <2>5. pc' = pc
    BY <2>1 DEF vars
  <2>6. Ups'
    BY <1>0, <2>1, <2>3, <2>5 DEF Ups
  <2> QED BY <2>4, <2>6 DEF PickInv
<1>6. CASE (EraseShown \/ ResetShown \/ Scan) /\ UNCHANGED pick
  <2>1. UNCHANGED <<found, uplink, running, appliedSSID, applying, page, airs, torn>>
    BY <1>6 DEF pick
  <2>2. pc # "boot" /\ pc' # "boot"
    BY <1>6 DEF EraseShown, ResetShown, Scan
  <2>3. Lists'
    BY <1>0, <2>1 DEF Lists
  <2>4. Ups'
    BY <1>0, <2>1, <2>2 DEF Ups, Written
  <2> QED BY <2>3, <2>4 DEF PickInv
<1>7. ASSUME NEW b \in Browsers, ShowResult(b) PROVE PickInv'
  <2>1. UNCHANGED <<found, uplink, running, appliedSSID, applying, airs, torn>>
        /\ page' = [page EXCEPT ![b] = ListPage(Rows(found))]
    BY <1>7 DEF ShowResult
  <2>2. pc # "boot" /\ pc' # "boot"
    BY <1>7 DEF ShowResult, ViewResult
  <2>3. DOMAIN page' = Browsers /\ page'[b] = ListPage(Rows(found))
        /\ \A c \in Browsers \ {b} : page'[c] = page[c]
    BY <1>0, <2>1 DEF Lists
  <2>4. page'[b].shows = "list" /\ page'[b].rows = Rows(found)
    BY <2>3 DEF ListPage
  <2>5. Rows(found) = <<>> \/ \E air \in airs : Rows(found) = Named(air)
    BY <1>0, ListBack, NoRows DEF Lists
  <2>6. Lists'
    <3>1. ASSUME NEW c \in Browsers, page'[c].shows = "list"
          PROVE page'[c].rows = <<>> \/ \E air \in airs : page'[c].rows = Named(air)
      BY <1>0, <2>3, <2>4, <2>5, <3>1 DEF Lists
    <3> QED BY <1>0, <2>1, <2>3, <3>1 DEF Lists
  <2>7. Ups'
    <3>1. \A c \in Browsers : page'[c].shows = "form" => c # b
      BY <2>4
    <3> QED BY <1>0, <2>1, <2>2, <2>3, <3>1 DEF Ups, Written
  <2> QED BY <2>6, <2>7 DEF PickInv
<1>8. ASSUME NEW b \in Browsers, index_post_handler(b) PROVE PickInv'
  <2>1. UNCHANGED <<vars, found, uplink, running, applying, airs, torn>>
        /\ page' = [page EXCEPT ![b] = NoPage]
    BY <1>8 DEF index_post_handler
  <2>2. pc' = pc
    BY <2>1 DEF vars
  <2>3. DOMAIN page' = Browsers /\ \A c \in Browsers : page'[c].shows # "nothing" => page'[c] = page[c]
    BY <1>0, <2>1 DEF Lists, NoPage
  <2>4. PICK s \in Range(page[b].rows) : appliedSSID' = alloc_safe_str(Received(s, ParamSize))
    BY <1>8 DEF index_post_handler
  <2>5. \E air \in airs : s \in Ssids(air)
    <3>1. page[b].rows # <<>>
      BY <2>4 DEF Range
    <3>2. PICK air \in airs : page[b].rows = Named(air)
      BY <1>0, <1>8, <3>1 DEF Lists, index_post_handler
    <3> QED BY <1>0, <2>4, <3>2, ListBack DEF Lists
  <2>6. Received(s, ParamSize) = s
    BY <1>0, <2>5, HeardTexts DEF Lists
  <2>7. Lists'
    BY <1>0, <2>1, <2>3, <2>4, <2>5, <2>6 DEF Lists
  <2>8. Ups'
    BY <1>0, <2>1, <2>2, <2>3 DEF Ups, Written
  <2> QED BY <2>7, <2>8 DEF PickInv
<1>9. ASSUME NEW b \in Browsers, index_get_handler(b) PROVE PickInv'
  <2> DEFINE
    shown == IF appliedSSID # <<>>
             THEN [ssid |-> Unescaped(appliedSSID), passwd |-> <<>>]
             ELSE [ssid |-> Unescaped(alloc_safe_str(running.ssid)),
                   passwd |-> Unescaped(alloc_safe_str(running.passwd))]
  <2>1. UNCHANGED <<vars, found, uplink, running, applying, airs, torn>>
        /\ page' = [page EXCEPT ![b] = FormPage(shown)] /\ appliedSSID' = <<>> /\ pc = "up"
    BY <1>9 DEF index_get_handler, Serving
  <2>2. pc' = pc
    BY <2>1 DEF vars
  <2>3. DOMAIN page' = Browsers /\ page'[b] = FormPage(shown)
        /\ \A c \in Browsers \ {b} : page'[c] = page[c]
    BY <1>0, <2>1 DEF Lists
  <2>4. page'[b].shows = "form" /\ page'[b].uplink = shown
    BY <2>3 DEF FormPage
  <2>5. ASSUME ~torn PROVE Good(shown, airs)
    <3>1. CASE appliedSSID # <<>>
      <4>1. PICK air \in airs : \E s \in Ssids(air) : appliedSSID = alloc_safe_str(s)
        BY <1>0, <3>1 DEF Lists
      <4>2. Unescaped(appliedSSID) \in Ssids(air)
        BY <1>0, <4>1, HeardTexts DEF Lists
      <4>3. shown.ssid = Unescaped(appliedSSID) /\ shown.passwd = <<>>
        BY <3>1
      <4> HIDE DEF shown
      <4> QED BY <4>1, <4>2, <4>3 DEF Good
    <3>2. CASE appliedSSID = <<>>
      <4>1. Good(running, airs)
        BY <1>0, <2>1, <2>5 DEF Ups
      <4>2. Unescaped(alloc_safe_str(running.ssid)) = running.ssid
            /\ Unescaped(alloc_safe_str(running.passwd)) = running.passwd
        BY <1>0, <4>1, GoodTexts DEF Lists
      <4>3. shown.ssid = running.ssid /\ shown.passwd = running.passwd
        BY <3>2, <4>2
      <4> HIDE DEF shown
      <4> QED BY <4>1, <4>3, GoodSame
    <3> QED BY <3>1, <3>2
  <2> HIDE DEF shown
  <2>6. Lists'
    <3>1. \A c \in Browsers : page'[c].shows = "list" => c # b
      BY <2>4
    <3> QED BY <1>0, <2>1, <2>3, <3>1 DEF Lists
  <2>7. Ups'
    <3>1. ASSUME ~torn', NEW c \in Browsers, page'[c].shows = "form"
          PROVE Good(page'[c].uplink, airs')
      BY <1>0, <2>1, <2>3, <2>4, <2>5, <3>1 DEF Ups
    <3> QED BY <1>0, <2>1, <2>2, <3>1 DEF Ups, Written
  <2> QED BY <2>6, <2>7 DEF PickInv
<1>10. ASSUME NEW b \in Browsers, apply_post_handler(b) PROVE PickInv'
  <2> DEFINE u == page[b].uplink
  <2>1. UNCHANGED <<vars, found, running, appliedSSID, airs, torn>>
        /\ page' = [page EXCEPT ![b] = NoPage] /\ page[b].shows = "form" /\ pc = "up"
    BY <1>10 DEF apply_post_handler, Serving
  <2>2. pc' = pc
    BY <2>1 DEF vars
  <2>3. DOMAIN page' = Browsers /\ \A c \in Browsers : page'[c].shows # "nothing" => page'[c] = page[c]
    BY <1>0, <2>1 DEF Lists, NoPage
  <2>4. uplink' = [uplink EXCEPT !.ssid = Received(u.ssid, ParamSize)]
    BY <1>10 DEF apply_post_handler
  <2>5. PICK p \in Passwords \cup {u.passwd} : applying' = <<Received(p, ParamSize)>>
    BY <1>10 DEF apply_post_handler
  <2>6. Written'.ssid = Received(u.ssid, ParamSize) /\ Written'.passwd = Received(p, ParamSize)
        /\ DOMAIN uplink' = {"ssid", "passwd"}
    BY <1>0, <2>4, <2>5 DEF Written, Ups, Nothing
  <2>7. ASSUME ~torn PROVE Good(Written', airs)
    <3>1. Good(u, airs)
      BY <1>0, <2>1, <2>7 DEF Ups
    <3>2. Received(u.ssid, ParamSize) = u.ssid /\ Received(p, ParamSize) = p
      BY <1>0, <2>5, <3>1, GoodTexts DEF Lists
    <3>3. Written'.ssid = u.ssid /\ Written'.passwd \in Passwords \cup {u.passwd}
      BY <2>6, <3>2
    <3> HIDE DEF u
    <3> QED BY <3>1, <3>3 DEF Good
  <2>8. Lists'
    BY <1>0, <2>1, <2>3 DEF Lists
  <2>9. Ups'
    <3>1. pc' # "boot"
      BY <2>1, <2>2
    <3> QED BY <1>0, <2>1, <2>2, <2>3, <2>6, <2>7, <3>1 DEF Ups
  <2> QED BY <2>8, <2>9 DEF PickInv
<1>11. CASE UNCHANGED <<vars, pick>>
  BY <1>0, <1>11 DEF vars, pick, PickInv, Lists, Ups, Written
<1> QED BY <1>1, <1>2, <1>3, <1>4, <1>5, <1>6, <1>7, <1>8, <1>9, <1>10, <1>11 DEF NextPick

LEMMA PickAlways == SpecPick => []PickInv
BY PickInit, PickInvStep, PTL DEF SpecPick

\* Whatever list a browser shows, of before a restart or of a result that is
\* deleted by now: it is one that a scan has found, whole and in order.
THEOREM ListTrue == SpecPick => []ListIsTrue
<1>1. PickInv => ListIsTrue
  BY DEF PickInv, Lists, ListIsTrue
<1> QED BY <1>1, PickAlways, PTL

\* No network is stored with the password of another one, for any number of
\* browsers, picks, pages and restarts, unless the power fails between the two
\* writes.
THEOREM UplinkPicked == SpecPick => []UplinkAsPicked
<1>1. PickInv => UplinkAsPicked
  <2> SUFFICES ASSUME PickInv, ~torn, applying = Nothing PROVE UplinkAsPicked
    BY DEF UplinkAsPicked
  <2>1. Good(Written, airs) /\ Written.ssid = uplink.ssid /\ Written.passwd = uplink.passwd
    BY DEF PickInv, Ups, Written
  <2> QED BY <2>1 DEF Good, Ssids, UplinkAsPicked
<1> QED BY <1>1, PickAlways, PTL
=============================================================================
