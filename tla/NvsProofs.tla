----------------------------- MODULE NvsProofs ------------------------------
(***************************************************************************)
(* Proofs about NvsConsole, for integers of every width, all texts and     *)
(* any number of keys and namespaces.                                      *)
(***************************************************************************)
EXTENDS NvsConsole, TLAPS

-----------------------------------------------------------------------------
(* Numbers.                                                                 *)

\* A number that fits is not changed by the cast, and is one of its type.
LEMMA FitsInRange ==
  ASSUME NEW t \in IntTypes, NEW n \in Int, Fits(t, n)
  PROVE  /\ Cast(t, Parsed(t, n)) = Parsed(t, n)
         /\ Parsed(t, n) \in Int
         /\ Parsed(t, n) \in Low(t, Half[t])..High(t, Half[t])
<1>1. Half[t] \in Nat \ {0} /\ LongHalf \in Nat \ {0}
  BY NvsAssumption
<1>2. ParseHalf(t) \in Nat
  BY <1>1 DEF ParseHalf
<1>3. Parsed(t, n) \in Int
  BY <1>2 DEF Parsed
<1> QED BY <1>3 DEF Fits, Cast

\* A number of a type fits it, and is what it is parsed to.
LEMMA InRangeFits ==
  ASSUME NEW t \in IntTypes, NEW n \in Int, n \in Low(t, Half[t])..High(t, Half[t])
  PROVE  /\ Fits(t, n)
         /\ Parsed(t, n) = n
         /\ Cast(t, n) = n
<1> DEFINE h == Half[t]
           p == ParseHalf(t)
<1>1. h \in Nat \ {0} /\ LongHalf \in Nat \ {0}
  BY NvsAssumption
<1>2. p \in Nat /\ h =< p
  BY <1>1 DEF ParseHalf
<1> HIDE DEF h, p
<1>3. CASE t \in Signed
  <2>1. -h =< n /\ n =< h - 1
    BY <1>1, <1>3 DEF Low, High, h
  <2>2. -p =< n /\ n =< p - 1
    BY <1>1, <1>2, <2>1
  <2>3. ~Overflows(t, n)
    BY <1>2, <1>3, <2>2 DEF Overflows, Low, High, p
  <2>4. Parsed(t, n) = n
    BY <1>3 DEF Parsed
  <2> QED BY <2>3, <2>4 DEF Fits, Cast
<1>4. CASE t \notin Signed
  <2>1. 0 =< n /\ n =< 2 * h - 1
    BY <1>1, <1>4 DEF Low, High, h
  <2>2. n =< 2 * p - 1 /\ -n =< 2 * p - 1
    BY <1>1, <1>2, <2>1
  <2>3. ~Overflows(t, n)
    BY <1>2, <1>4, <2>2 DEF Overflows, Low, High, p
  <2>4. Parsed(t, n) = n
    BY <1>4, <2>1 DEF Parsed
  <2> QED BY <2>3, <2>4 DEF Fits, Cast
<1> QED BY <1>3, <1>4

-----------------------------------------------------------------------------
(* Blobs.                                                                   *)

\* The bytes of a text that is hexadecimal.
LEMMA BytesAre ==
  ASSUME NEW x \in Seq(Digit \cup {Other}), IsHex(x)
  PROVE  /\ Len(Bytes(x)) \in Nat
         /\ Len(x) = 2 * Len(Bytes(x))
         /\ \A i \in 1..Len(Bytes(x)) :
              /\ x[2 * i - 1] \in Digit /\ x[2 * i] \in Digit
              /\ Bytes(x)[i] = 16 * x[2 * i - 1] + x[2 * i]
<1> DEFINE m == Len(x) \div 2
<1>1. m \in Nat /\ Len(x) = 2 * m
  BY DEF IsHex
<1>2. Bytes(x) = [i \in 1..m |-> 16 * x[2 * i - 1] + x[2 * i]]
  BY DEF Bytes
<1> HIDE DEF m
<1>3. \A i \in 1..m : x[2 * i - 1] \in Digit /\ x[2 * i] \in Digit
  <2> SUFFICES ASSUME NEW i \in 1..m PROVE x[2 * i - 1] \in Digit /\ x[2 * i] \in Digit
    OBVIOUS
  <2>1. 2 * i - 1 \in 1..Len(x) /\ 2 * i \in 1..Len(x)
    BY <1>1
  <2> QED BY <2>1 DEF IsHex
<1>4. Len(Bytes(x)) = m
  BY <1>1, <1>2
<1> QED BY <1>1, <1>2, <1>3, <1>4

\* A byte is taken apart into the digits it was made of.
LEMMA DigitsOfByte ==
  ASSUME NEW c \in 0..15, NEW d \in 0..15, NEW b, b = 16 * c + d
  PROVE  b \div 16 = c /\ b % 16 = d
<1>1. b \in Int /\ c \in Int /\ d \in Int /\ 0 =< d /\ d < 16
  OBVIOUS
<1>2. b \div 16 = c
  BY <1>1
<1>3. b % 16 = d
  BY <1>1
<1> QED BY <1>2, <1>3

\* The byte that an odd digit is of.
LEMMA OddDigit ==
  ASSUME NEW m \in Nat, NEW i \in 1..2 * m, i % 2 = 1
  PROVE  (i + 1) \div 2 \in 1..m /\ i = 2 * ((i + 1) \div 2) - 1
<1>1. PICK j \in Int : i = 2 * j - 1
  <2>1. i \in Int /\ i = 2 * (i \div 2) + 1 /\ i \div 2 \in Int
    OBVIOUS
  <2>2. i = 2 * (i \div 2 + 1) - 1 /\ i \div 2 + 1 \in Int
    BY <2>1
  <2> QED BY <2>2
<1>2. (i + 1) \div 2 = j
  BY <1>1
<1>3. j \in 1..m
  BY <1>1
<1> QED BY <1>1, <1>2, <1>3

\* Printing the bytes gives the digits back.
LEMMA HexOfBytes ==
  ASSUME NEW x \in Seq(Digit \cup {Other}), IsHex(x)
  PROVE  Hex(Bytes(x)) = x
<1> DEFINE b == Bytes(x)
           m == Len(b)
<1>1. /\ m \in Nat /\ Len(x) = 2 * m
      /\ \A i \in 1..m : /\ x[2 * i - 1] \in 0..15 /\ x[2 * i] \in 0..15
                         /\ b[i] = 16 * x[2 * i - 1] + x[2 * i]
  BY BytesAre DEF Digit
<1>2. Hex(b) = [i \in 1..2 * m |-> IF i % 2 = 1 THEN b[(i + 1) \div 2] \div 16 ELSE b[i \div 2] % 16]
  BY DEF Hex
<1> HIDE DEF b, m
<1>3. ASSUME NEW i \in 1..2 * m PROVE Hex(b)[i] = x[i]
  <2>1. CASE i % 2 = 1
    <3> DEFINE j == (i + 1) \div 2
    <3>1. j \in 1..m /\ i = 2 * j - 1
      BY <1>1, <2>1, OddDigit
    <3> HIDE DEF j
    <3>2. b[j] = 16 * x[i] + x[2 * j] /\ x[i] \in 0..15 /\ x[2 * j] \in 0..15
      BY <1>1, <3>1
    <3>3. b[j] \div 16 = x[i]
      BY <3>2, DigitsOfByte
    <3> QED BY <1>2, <2>1, <3>3 DEF j
  <2>2. CASE i % 2 # 1
    <3> DEFINE j == i \div 2
    <3>1. j \in 1..m /\ i = 2 * j
      BY <1>1, <2>2
    <3> HIDE DEF j
    <3>2. b[j] = 16 * x[2 * j - 1] + x[i] /\ x[2 * j - 1] \in 0..15 /\ x[i] \in 0..15
      BY <1>1, <3>1
    <3>3. b[j] % 16 = x[i]
      BY <3>2, DigitsOfByte
    <3> QED BY <1>2, <2>2, <3>3 DEF j
  <2> QED BY <2>1, <2>2
<1>4. x = [i \in 1..2 * m |-> x[i]]
  BY <1>1
<1>5. Hex(b) = [i \in 1..2 * m |-> Hex(b)[i]]
  BY <1>2
<1>6. Hex(b) = x
  BY <1>3, <1>4, <1>5
<1> QED BY <1>6 DEF b

-----------------------------------------------------------------------------
(* Texts and entries.                                                       *)

\* What a text becomes is an entry that means it.
LEMMA StoredMeans ==
  ASSUME NEW a \in Accepted
  PROVE  /\ Stored(a.type, a.text) \in Entry
         /\ Means(Stored(a.type, a.text), a)
<1> DEFINE e == Stored(a.type, a.text)
<1>1. a.type \in Types /\ a.text \in Typed(a.type) /\ Takes(a.type, a.text)
  BY DEF Accepted
<1>2. e \in Entry
  BY DEF Entry
<1>3. CASE a.type \in IntTypes
  <2>0. a.type \notin {"str", "blob"}
    BY <1>3 DEF IntTypes, Signed
  <2>1. a.text \in Int /\ Fits(a.type, a.text)
    BY <1>1, <1>3, <2>0, NvsAssumption DEF Typed, Takes
  <2>2. e.type = a.type /\ e.value = Parsed(a.type, a.text)
    BY <1>3, <2>0, <2>1, FitsInRange DEF Stored
  <2>3. \/ e.value = a.text
        \/ /\ a.type \notin Signed /\ a.text < 0
           /\ e.value = a.text + 2 * ParseHalf(a.type)
    BY <2>2 DEF Parsed
  <2> HIDE DEF e
  <2>4. Means(e, a)
    BY <1>3, <2>0, <2>2, <2>3 DEF Means
  <2> QED BY <1>2, <2>4 DEF e
<1>4. CASE a.type = "str"
  <2>1. e.type = a.type /\ e.value = a.text /\ "str" \notin IntTypes
    BY <1>4 DEF Stored, IntTypes, Signed
  <2> HIDE DEF e
  <2>2. Means(e, a)
    BY <1>4, <2>1 DEF Means
  <2> QED BY <1>2, <2>2 DEF e
<1>5. CASE a.type = "blob"
  <2>1. e.type = a.type /\ e.value = Bytes(a.text) /\ "blob" \notin IntTypes
    BY <1>5 DEF Stored, IntTypes, Signed
  <2>2. a.text \in Seq(Digit \cup {Other}) /\ IsHex(a.text)
    BY <1>1, <1>5, <2>1, NvsAssumption DEF Typed, Takes
  <2>3. Hex(e.value) = a.text
    BY <2>1, <2>2, HexOfBytes
  <2> HIDE DEF e
  <2>4. Means(e, a)
    BY <1>5, <2>1, <2>3 DEF Means
  <2> QED BY <1>2, <2>4 DEF e
<1> QED BY <1>1, <1>3, <1>4, <1>5 DEF Types

\* What an entry is printed as is accepted again, and becomes that entry.
LEMMA PrintedMeans ==
  ASSUME NEW e \in Entry, e.type = "i16" => e.value >= 0
  PROVE  Takes(e.type, Text(e)) /\ Stored(e.type, Text(e)) = e
<1>1. PICK a \in Accepted : e = Stored(a.type, a.text)
  BY DEF Entry
<1>2. /\ a.type \in Types /\ a.text \in Typed(a.type) /\ Takes(a.type, a.text)
      /\ e.type = a.type
  BY <1>1 DEF Accepted, Stored
<1>3. CASE a.type \in IntTypes
  <2> DEFINE n == Parsed(a.type, a.text)
  <2>0. a.type \notin {"str", "blob"}
    BY <1>3 DEF IntTypes, Signed
  <2>1. a.text \in Int /\ Fits(a.type, a.text)
    BY <1>2, <1>3, <2>0, NvsAssumption DEF Typed, Takes
  <2>2. /\ Cast(a.type, n) = n /\ n \in Int
        /\ n \in Low(a.type, Half[a.type])..High(a.type, Half[a.type])
    BY <1>3, <2>1, FitsInRange
  <2> HIDE DEF n
  <2>3. e = [type |-> a.type, value |-> n]
    BY <1>1, <1>3, <2>0, <2>2 DEF Stored, n
  <2>4. Text(e) = n
    BY <1>3, <2>0, <2>2, <2>3 DEF Text
  <2>5. Fits(a.type, n) /\ Parsed(a.type, n) = n /\ Cast(a.type, n) = n
    BY <1>3, <2>2, InRangeFits
  <2>6. Takes(a.type, n) /\ Stored(a.type, n) = e
    BY <1>3, <2>0, <2>3, <2>5 DEF Takes, Stored
  <2> QED BY <1>2, <2>4, <2>6
<1>4. CASE a.type = "str"
  <2>1. e = [type |-> "str", value |-> a.text] /\ "str" \notin IntTypes
    BY <1>1, <1>4 DEF Stored, IntTypes, Signed
  <2>2. Text(e) = a.text
    BY <2>1 DEF Text
  <2> QED BY <1>1, <1>2, <2>2
<1>5. CASE a.type = "blob"
  <2>1. e = [type |-> "blob", value |-> Bytes(a.text)] /\ "blob" \notin IntTypes
    BY <1>1, <1>5 DEF Stored, IntTypes, Signed
  <2>2. a.text \in Seq(Digit \cup {Other}) /\ IsHex(a.text)
    BY <1>2, <1>5, <2>1, NvsAssumption DEF Typed, Takes
  <2>3. Text(e) = Hex(Bytes(a.text))
    BY <2>1 DEF Text
  <2>4. Text(e) = a.text
    BY <2>2, <2>3, HexOfBytes
  <2> QED BY <1>1, <1>2, <2>4
<1> QED BY <1>2, <1>3, <1>4, <1>5 DEF Types

-----------------------------------------------------------------------------
(* The inductive invariant.                                                 *)

\* What nvs_get has just printed is still there.
PrintedIsStored ==
  printed # Nothing =>
    /\ printed.name \in Names /\ IsUnder(printed.name, printed.type)
    /\ printed.text = Text(store[current_namespace][printed.name])

Inv == TypeOK /\ ToldIsStored /\ PrintedIsStored

\* An entry and what the user is told of it.
Agree(a, e) == /\ a = Absent => e = Absent
               /\ a \notin {Absent, Unknown} => e # Absent /\ Means(e, a)

\* To change one entry and what is told of it, both in agreement, keeps the
\* others as they are.
LEMMA PutTell ==
  ASSUME Inv, NEW k \in Names, NEW e \in Entry \cup {Absent},
         NEW a \in Accepted \cup {Absent, Unknown}, Agree(a, e),
         Put(k, e), Tell(k, a), printed' = Nothing,
         reply' \in Replies, erange' \in BOOLEAN, current_namespace' = current_namespace
  PROVE  Inv'
<1> DEFINE c == current_namespace
<1>1. /\ c \in Namespaces
      /\ store \in [Namespaces -> [Names -> Entry \cup {Absent}]]
      /\ told \in [Namespaces -> [Names -> Accepted \cup {Absent, Unknown}]]
  BY DEF Inv, TypeOK
<1>2. store' = [store EXCEPT ![c][k] = e] /\ told' = [told EXCEPT ![c][k] = a]
  BY DEF Put, Tell
<1> HIDE DEF c
<1>3. store' \in [Namespaces -> [Names -> Entry \cup {Absent}]]
  BY <1>1, <1>2
<1>4. told' \in [Namespaces -> [Names -> Accepted \cup {Absent, Unknown}]]
  <2> DEFINE A == Accepted \cup {Absent, Unknown}
  <2>1. a \in A /\ told \in [Namespaces -> [Names -> A]]
    BY <1>1
  <2> HIDE DEF A
  <2>2. told' \in [Namespaces -> [Names -> A]]
    BY <1>1, <1>2, <2>1
  <2> QED BY <2>2 DEF A
<1>5. TypeOK'
  BY <1>3, <1>4 DEF TypeOK, Inv
<1>6. ASSUME NEW n \in Namespaces, NEW j \in Names
      PROVE  Agree(told'[n][j], store'[n][j])
  <2>1. CASE n = c /\ j = k
    <3>1. told'[n][j] = a /\ store'[n][j] = e
      BY <1>1, <1>2, <2>1
    <3> QED BY <3>1
  <2>2. CASE ~(n = c /\ j = k)
    <3>1. told'[n][j] = told[n][j] /\ store'[n][j] = store[n][j]
      BY <1>1, <1>2, <2>2
    <3> QED BY <3>1 DEF Inv, ToldIsStored, Agree
  <2> QED BY <2>1, <2>2
<1>7. ToldIsStored'
  BY <1>6 DEF ToldIsStored, Agree
<1> QED BY <1>5, <1>7 DEF Inv, PrintedIsStored

\* A command that stores nothing breaks nothing.
LEMMA KeepInv ==
  ASSUME Inv, Keep, printed' = Nothing,
         reply' \in Replies, erange' \in BOOLEAN, current_namespace' \in Namespaces
  PROVE  Inv'
<1>1. TypeOK'
  BY DEF Inv, TypeOK, Keep
<1>2. ToldIsStored'
  BY DEF Inv, ToldIsStored, Keep
<1> QED BY <1>1, <1>2 DEF Inv, PrintedIsStored

\* To set a value that is accepted, and tell so or nothing.
LEMMA SetKeeps ==
  ASSUME Inv, NEW k \in Names, NEW a \in Accepted,
         Put(k, Stored(a.type, a.text)), Tell(k, a) \/ Tell(k, Unknown), printed' = Nothing,
         reply' \in Replies, erange' \in BOOLEAN, current_namespace' = current_namespace
  PROVE  Inv'
<1> DEFINE e == Stored(a.type, a.text)
<1>1. e \in Entry /\ Means(e, a) /\ e # Absent /\ a # Absent
  BY StoredMeans, MarkerAssumption
<1> HIDE DEF e
<1>2. Agree(a, e) /\ Agree(Unknown, e)
  BY <1>1, MarkerAssumption DEF Agree
<1>3. Put(k, e)
  BY DEF e
<1> QED BY <1>1, <1>2, <1>3, PutTell

-----------------------------------------------------------------------------
(* The steps, one lemma for each command.                                   *)

\* nvs_set, whatever it reports.
LEMMA SetStep ==
  ASSUME Inv, NEW k \in Names, set_value(k)
  PROVE  Inv'
<1>0. /\ current_namespace' = current_namespace /\ current_namespace \in Namespaces
      /\ erange \in BOOLEAN
  BY DEF set_value, Inv, TypeOK
<1>1. ASSUME NEW t \in Types, NEW x \in Typed(t), Takes(t, x)
      PROVE  [type |-> t, text |-> x] \in Accepted
  BY <1>1 DEF Accepted
<1>2. ASSUME NEW t \in IntTypes, NEW n \in Numbers, SetNumber(k, t, n)
      PROVE  Inv'
  <2>0. t \in Types /\ n \in Typed(t) /\ erange' \in BOOLEAN
    BY <1>0, <1>2 DEF Types, Typed, SetNumber, Overflows
  <2>1. CASE Fits(t, n) /\ ~erange'
    <3> DEFINE a == [type |-> t, text |-> n]
    <3>1. a \in Accepted
      <4>1. Takes(t, n)
        BY <2>1 DEF Takes, IntTypes, Signed
      <4> QED BY <1>1, <2>0, <4>1
    <3>2. Put(k, Stored(a.type, a.text)) /\ Tell(k, a) /\ Reply("ok")
      BY <1>2, <2>1 DEF SetNumber
    <3>3. reply' \in Replies /\ printed' = Nothing
      BY <3>2 DEF Reply, Replies
    <3> HIDE DEF a
    <3> QED BY <1>0, <2>0, <3>1, <3>2, <3>3, SetKeeps
  <2>2. CASE ~(Fits(t, n) /\ ~erange')
    <3>1. Keep /\ reply' \in Replies /\ printed' = Nothing
      BY <1>2, <2>2 DEF SetNumber, Reply, Replies
    <3> QED BY <1>0, <2>0, <3>1, KeepInv
  <2> QED BY <2>1, <2>2
<1>3. ASSUME NEW t \in {"str", "blob"}, NEW x \in Texts, SetText(k, t, x)
      PROVE  Inv'
  <2>0. t \in Types /\ x \in Typed(t) /\ erange' \in BOOLEAN
    BY <1>0, <1>3 DEF Types, Typed, SetText, IntTypes, Signed
  <2>1. reply' \in Replies /\ printed' = Nothing
    BY <1>3 DEF SetText, Reply, Replies
  <2>2. CASE Takes(t, x)
    <3> DEFINE a == [type |-> t, text |-> x]
    <3>1. a \in Accepted
      BY <1>1, <2>0, <2>2
    <3>2. Put(k, Stored(a.type, a.text)) /\ (Tell(k, a) \/ Tell(k, Unknown))
      BY <1>3, <2>2 DEF SetText
    <3> HIDE DEF a
    <3> QED BY <1>0, <2>0, <2>1, <3>1, <3>2, SetKeeps
  <2>3. CASE ~Takes(t, x)
    <3>1. Keep
      BY <1>3, <2>3 DEF SetText
    <3> QED BY <1>0, <2>0, <2>1, <3>1, KeepInv
  <2> QED BY <2>2, <2>3
<1>4. ASSUME NEW t \in Types, NEW x \in Typed(t), CommitFails(k, t, x)
      PROVE  Inv'
  <2> DEFINE a == [type |-> t, text |-> x]
  <2>1. a \in Accepted
    BY <1>1, <1>4 DEF CommitFails
  <2>2. /\ Put(k, Stored(a.type, a.text)) /\ Tell(k, Unknown) /\ Reply("failed")
        /\ erange' \in BOOLEAN
    BY <1>0, <1>4 DEF CommitFails
  <2>3. reply' \in Replies /\ printed' = Nothing
    BY <2>2 DEF Reply, Replies
  <2> HIDE DEF a
  <2> QED BY <1>0, <2>1, <2>2, <2>3, SetKeeps
<1>5. CASE SetFails \/ UndefinedType
  <2>1. /\ Keep /\ erange' \in BOOLEAN
        /\ reply' \in Replies /\ printed' = Nothing
    BY <1>0, <1>5 DEF SetFails, UndefinedType, Reply, Replies
  <2> QED BY <1>0, <2>1, KeepInv
<1> QED BY <1>2, <1>3, <1>4, <1>5 DEF set_value

\* nvs_get stores nothing; what it prints is there.
LEMMA GetStep ==
  ASSUME Inv, NEW k \in Names, NEW t \in Types, get_value(k, t)
  PROVE  Inv'
<1>1. UNCHANGED <<store, current_namespace, erange, told>>
  BY DEF get_value
<1>2. \/ /\ printed' = [name |-> k, type |-> t, text |-> Text(store[current_namespace][k])]
         /\ IsUnder(k, t) /\ reply' = "ok"
      \/ printed' = Nothing /\ reply' \in Replies
  BY DEF get_value, Reply, Replies
<1>3. CASE printed' = Nothing /\ reply' \in Replies
  BY <1>1, <1>3, KeepInv DEF Keep, Inv, TypeOK
<1>4. CASE /\ printed' = [name |-> k, type |-> t, text |-> Text(store[current_namespace][k])]
           /\ IsUnder(k, t) /\ reply' = "ok"
  <2>1. printed'.name = k /\ printed'.type = t
        /\ printed'.text = Text(store[current_namespace][k])
    BY <1>4
  <2>2. IsUnder(k, t)'
    BY <1>1, <1>4 DEF IsUnder
  <2>3. PrintedIsStored'
    <3>1. Text(store[current_namespace][k])' = Text(store[current_namespace][k])
      BY <1>1 DEF Text
    <3>2. IsUnder(printed.name, printed.type)'
      BY <1>1, <1>4, <2>1 DEF IsUnder
    <3>3. (printed.text = Text(store[current_namespace][printed.name]))'
      BY <1>1, <2>1 DEF Text
    <3> QED BY <2>1, <3>2, <3>3 DEF PrintedIsStored
  <2>4. TypeOK'
    BY <1>1, <1>4, <2>1 DEF Inv, TypeOK, Replies
  <2>5. ToldIsStored'
    BY <1>1 DEF Inv, ToldIsStored
  <2> QED BY <2>3, <2>4, <2>5 DEF Inv
<1> QED BY <1>2, <1>3, <1>4

\* nvs_erase: the entry goes, whether the commit fails or not.
LEMMA EraseStep ==
  ASSUME Inv, NEW k \in Names, erase_value(k)
  PROVE  Inv'
<1>1. /\ UNCHANGED <<current_namespace, erange>>
      /\ reply' \in Replies /\ printed' = Nothing
  BY DEF erase_value, Reply, Replies
<1>2. \/ Put(k, Absent) /\ (Tell(k, Absent) \/ Tell(k, Unknown))
      \/ Keep
  BY DEF erase_value
<1>3. Agree(Absent, Absent) /\ Agree(Unknown, Absent)
  BY MarkerAssumption DEF Agree
<1>4. current_namespace \in Namespaces /\ erange \in BOOLEAN
  BY DEF Inv, TypeOK
<1> QED BY <1>1, <1>2, <1>3, <1>4, KeepInv, PutTell

\* nvs_erase_namespace: all entries of a namespace, or none.
LEMMA EraseNamespaceStep ==
  ASSUME Inv, NEW n \in Namespaces, erase_namespace(n)
  PROVE  Inv'
<1>0. /\ UNCHANGED <<current_namespace, erange>> /\ reply' = "ok" /\ printed' = Nothing
      /\ store \in [Namespaces -> [Names -> Entry \cup {Absent}]]
      /\ told \in [Namespaces -> [Names -> Accepted \cup {Absent, Unknown}]]
      /\ current_namespace \in Namespaces /\ erange \in BOOLEAN
  BY DEF erase_namespace, Reply, Inv, TypeOK
<1>1. CASE Keep
  BY <1>0, <1>1, KeepInv DEF Replies
<1>2. CASE /\ store' = [store EXCEPT ![n] = [k \in Names |-> Absent]]
           /\ told' = [told EXCEPT ![n] = [k \in Names |-> Absent]]
  <2>1. store' \in [Namespaces -> [Names -> Entry \cup {Absent}]]
    BY <1>0, <1>2
  <2>2. told' \in [Namespaces -> [Names -> Accepted \cup {Absent, Unknown}]]
    <3> DEFINE A == Accepted \cup {Absent, Unknown}
    <3>1. Absent \in A /\ told \in [Namespaces -> [Names -> A]]
      BY <1>0
    <3> HIDE DEF A
    <3>2. told' \in [Namespaces -> [Names -> A]]
      BY <1>2, <3>1
    <3> QED BY <3>2 DEF A
  <2>3. TypeOK'
    BY <1>0, <2>1, <2>2 DEF TypeOK, Replies
  <2>4. ASSUME NEW m \in Namespaces, NEW k \in Names
        PROVE  \/ told'[m][k] = Absent /\ store'[m][k] = Absent
               \/ told'[m][k] = told[m][k] /\ store'[m][k] = store[m][k]
    BY <1>0, <1>2
  <2>5. ToldIsStored'
    BY <2>4 DEF Inv, ToldIsStored
  <2> QED BY <1>0, <2>3, <2>5 DEF Inv, PrintedIsStored
<1> QED BY <1>1, <1>2 DEF erase_namespace

LEMMA StepKeepsInv ==
  ASSUME Inv, [Next]_vars
  PROVE  Inv'
<1>0. current_namespace \in Namespaces /\ erange \in BOOLEAN /\ Storage \in Namespaces
  BY NvsAssumption DEF Inv, TypeOK
<1>1. ASSUME NEW n \in Namespaces, set_namespace(n) PROVE Inv'
  BY <1>0, <1>1, KeepInv DEF set_namespace, Reply, Replies, Keep
<1>2. CASE Restart
  BY <1>0, <1>2, KeepInv DEF Restart, Reply, Replies
<1>3. CASE OtherErrno \/ UNCHANGED vars
  <2>1. UNCHANGED <<store, current_namespace, reply, printed, told>> /\ erange' \in BOOLEAN
    BY <1>0, <1>3 DEF OtherErrno, vars
  <2>2. TypeOK' /\ ToldIsStored'
    BY <2>1 DEF Inv, TypeOK, ToldIsStored
  <2>3. PrintedIsStored'
    BY <2>1 DEF Inv, PrintedIsStored, IsUnder, Text
  <2> QED BY <2>2, <2>3 DEF Inv
<1> QED BY <1>1, <1>2, <1>3, SetStep, GetStep, EraseStep, EraseNamespaceStep DEF Next

LEMMA InitInv == Init => Inv
<1> SUFFICES ASSUME Init PROVE Inv
  OBVIOUS
<1>1. TypeOK
  BY NvsAssumption DEF Init, TypeOK, Replies
<1>2. ToldIsStored
  BY DEF Init, ToldIsStored
<1> QED BY <1>1, <1>2 DEF Inv, Init, PrintedIsStored

LEMMA InvHeld == Spec => []Inv
BY InitInv, StepKeepsInv, PTL DEF Spec

-----------------------------------------------------------------------------
(* The theorems.                                                            *)

\* Every entry of the flash came of a text that its type takes (set_value,
\* erase_value and what follows them).
THEOREM TypeCorrect == Spec => []TypeOK
<1>1. Inv => TypeOK
  BY DEF Inv
<1> QED BY <1>1, InvHeld, PTL

\* What nvs_set and nvs_erase said is so, whatever came after.
THEOREM ToldHeld == Spec => []ToldIsStored
<1>1. Inv => ToldIsStored
  BY DEF Inv
<1> QED BY <1>1, InvHeld, PTL

\* What nvs_get prints, nvs_set takes back and stores as it was, for integers of
\* every width and blobs of every length.
THEOREM PrintedTakenBack == Spec => []PrintedCanBeSet
<1>1. Inv => PrintedCanBeSet
  <2> SUFFICES ASSUME Inv, printed # Nothing,
                      LET e == store[current_namespace][printed.name]
                      IN e.type = "i16" => e.value >= 0
               PROVE  LET e == store[current_namespace][printed.name]
                      IN Takes(printed.type, printed.text) /\ Stored(printed.type, printed.text) = e
    BY DEF PrintedCanBeSet
  <2> DEFINE e == store[current_namespace][printed.name]
  <2>1. printed.name \in Names /\ e \in Entry \cup {Absent}
    BY DEF Inv, TypeOK
  <2>2. e # Absent /\ e.type = printed.type /\ printed.text = Text(e)
    BY DEF Inv, PrintedIsStored, IsUnder
  <2> HIDE DEF e
  <2>3. e \in Entry /\ (e.type = "i16" => e.value >= 0)
    BY <2>1, <2>2 DEF e
  <2>4. Takes(e.type, Text(e)) /\ Stored(e.type, Text(e)) = e
    BY <2>3, PrintedMeans
  <2> QED BY <2>2, <2>4 DEF e
<1> QED BY <1>1, InvHeld, PTL
=============================================================================
