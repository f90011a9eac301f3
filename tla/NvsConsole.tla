----------------------------- MODULE NvsConsole -----------------------------
(***************************************************************************)
(* The NVS commands of the console: nvs_namespace, nvs_set, nvs_get,       *)
(* nvs_erase and nvs_erase_namespace.  One task runs them, one after the   *)
(* other; what makes them depend on each other is what they leave behind:  *)
(* the selected namespace, and errno, which set_value_in_nvs reads and     *)
(* nobody clears.                                                          *)
(*                                                                         *)
(* A text that is typed as a number is written as the integer at its       *)
(* beginning (0 if there is none, as strtol takes it); one that is typed   *)
(* as a string or blob is a sequence of hexadecimal digits and Other, any  *)
(* other character.  Upper and lower case are not told apart.              *)
(***************************************************************************)
EXTENDS Integers, Sequences

CONSTANTS
  Namespaces,
  Storage,      \* "storage", the namespace selected at first
  Names,        \* the keys of a namespace
  Half,         \* per integer type of w bits, 2^(w-1)
  LongHalf,     \* the same for long and int, whose width is 32 bits
  Numbers,      \* the numbers that are typed
  Texts,        \* the texts that are typed
  Other,
  Absent,       \* a key without an entry
  Unknown       \* an entry of which the user was told something else

Signed == {"i8", "i16", "i32", "i64"}
IntTypes == Signed \cup {"u8", "u16", "u32", "u64"}
Types == IntTypes \cup {"str", "blob"}
Digit == 0..15

ASSUME NvsAssumption ==
  /\ Storage \in Namespaces
  /\ Half \in [IntTypes -> Nat \ {0}] /\ LongHalf \in Nat \ {0}
  /\ \A t \in IntTypes \ {"i64", "u64"} : Half[t] =< LongHalf
  /\ Numbers \subseteq Int /\ Texts \subseteq Seq(Digit \cup {Other})
  /\ Other \notin Digit

VARIABLES
  store,              \* NVS: per namespace and key, its entry
  current_namespace,
  erange,             \* errno = ERANGE, in the console task
  reply,              \* what the last command reported
  printed,            \* what it printed: the key, the type and the text
  told                \* history: per key, what the user last was told is stored

vars == <<store, current_namespace, erange, reply, printed, told>>

Nothing == <<>>

-----------------------------------------------------------------------------
(* Numbers.  long has 32 bits; 64-bit types are converted by strtoll and    *)
(* strtoull.                                                                *)

Low(t, half) == IF t \in Signed THEN -half ELSE 0
High(t, half) == IF t \in Signed THEN half - 1 ELSE 2 * half - 1

ParseHalf(t) == IF Half[t] > LongHalf THEN Half[t] ELSE LongHalf

\* strtol, strtoul and their like set errno: unsigned ones go by the magnitude.
Overflows(t, n) ==
  LET h == ParseHalf(t)
  IN n > High(t, h) \/ (IF t \in Signed THEN n < Low(t, h) ELSE -n > High(t, h))

\* What they return otherwise: a negative number, read as unsigned, wraps.
Parsed(t, n) == IF t \notin Signed /\ n < 0 THEN n + 2 * ParseHalf(t) ELSE n

\* The cast to the type, which wraps.
Cast(t, n) ==
  LET low == Low(t, Half[t])
  IN IF n \in low..High(t, Half[t]) THEN n ELSE low + ((n - low) % (2 * Half[t]))

\* Faulty variant: the range of the type is not looked at.
FitsLong(t, n) == ~Overflows(t, n)

Fits(t, n) ==
  /\ ~Overflows(t, n)
  /\ Parsed(t, n) \in Low(t, Half[t])..High(t, Half[t])

-----------------------------------------------------------------------------
(* Blobs: two digits make a byte.                                           *)

IsHex(x) == Len(x) % 2 = 0 /\ \A i \in 1..Len(x) : x[i] \in Digit

Bytes(x) == [i \in 1..Len(x) \div 2 |-> 16 * x[2 * i - 1] + x[2 * i]]

\* print_blob.
Hex(b) == [i \in 1..2 * Len(b) |-> IF i % 2 = 1 THEN b[(i + 1) \div 2] \div 16
                                                 ELSE b[i \div 2] % 16]

-----------------------------------------------------------------------------
\* The texts that can be typed for a type, those that it takes, the entry they
\* become, and how it is printed again.
Typed(t) == IF t \in IntTypes THEN Numbers ELSE Texts

Takes(t, x) == CASE t \in IntTypes -> Fits(t, x)
                 [] t = "str"      -> TRUE
                 [] t = "blob"     -> IsHex(x)

Stored(t, x) == [type |-> t, value |-> CASE t \in IntTypes -> Cast(t, Parsed(t, x))
                                         [] t = "str"      -> x
                                         [] t = "blob"     -> Bytes(x)]

\* Faulty variant: every number is printed by "%u".
TextUnsigned(e) ==
  CASE e.type \in IntTypes -> IF e.value < 0 THEN e.value + 2 * ParseHalf(e.type) ELSE e.value
    [] e.type = "str"  -> e.value
    [] e.type = "blob" -> Hex(e.value)

\* An i16 is printed by "%u".
Text(e) ==
  CASE e.type = "i16" /\ e.value < 0 -> e.value + 2 * LongHalf
    [] e.type \in IntTypes -> e.value
    [] e.type = "str"  -> e.value
    [] e.type = "blob" -> Hex(e.value)

-----------------------------------------------------------------------------
Replies == {"ok", "too_long", "mismatch", "not_found", "failed"}
Accepted == UNION {[type : {t}, text : {x \in Typed(t) : Takes(t, x)}] : t \in Types}
Entry == {Stored(a.type, a.text) : a \in Accepted}

ASSUME MarkerAssumption ==
  /\ Absent \notin Entry \cup Accepted
  /\ Unknown \notin Accepted \cup {Absent}

\* Every variable has its type; what is stored came of a text of its type.
TypeOK ==
  /\ store \in [Namespaces -> [Names -> Entry \cup {Absent}]]
  /\ current_namespace \in Namespaces
  /\ erange \in BOOLEAN
  /\ reply \in Replies
  /\ printed # Nothing => printed.name \in Names /\ printed.type \in Types
  /\ told \in [Namespaces -> [Names -> Accepted \cup {Absent, Unknown}]]

Init ==
  /\ store = [n \in Namespaces |-> [k \in Names |-> Absent]]
  /\ current_namespace = Storage
  /\ erange = FALSE /\ reply = "ok" /\ printed = Nothing
  /\ told = [n \in Namespaces |-> [k \in Names |-> Absent]]

Reply(r) == reply' = r /\ printed' = Nothing
Put(k, e) == store' = [store EXCEPT ![current_namespace][k] = e]
Tell(k, a) == told' = [told EXCEPT ![current_namespace][k] = a]
Keep == UNCHANGED <<store, told>>

-----------------------------------------------------------------------------
(* nvs_set.                                                                 *)

\* A number is converted and, unless errno is ERANGE by now, stored.
SetNumber(k, t, n) ==
  /\ erange' = (erange \/ Overflows(t, n))
  /\ IF Fits(t, n) /\ ~erange'
     THEN Put(k, Stored(t, n)) /\ Tell(k, [type |-> t, text |-> n]) /\ Reply("ok")
     ELSE Keep /\ Reply("too_long")

\* A string or a blob is stored first; then errno decides what is reported.
SetText(k, t, x) ==
  /\ IF ~Takes(t, x) THEN Keep /\ Reply(IF erange THEN "too_long" ELSE "mismatch")
     ELSE /\ Put(k, Stored(t, x))
          /\ IF erange THEN Tell(k, Unknown) /\ Reply("too_long")
                       ELSE Tell(k, [type |-> t, text |-> x]) /\ Reply("ok")
  /\ UNCHANGED erange

\* nvs_open, malloc or nvs_set_* fails.
SetFails == /\ Keep
            /\ reply' \in {"failed"} \cup (IF erange THEN {"too_long"} ELSE {})
            /\ printed' = Nothing
            /\ UNCHANGED erange

\* nvs_commit fails; what was set is in the flash.
CommitFails(k, t, x) ==
  /\ ~erange /\ Takes(t, x)
  /\ Put(k, Stored(t, x)) /\ Tell(k, Unknown) /\ Reply("failed")
  /\ UNCHANGED erange

UndefinedType == Keep /\ Reply("mismatch") /\ UNCHANGED erange

set_value(k) ==
  /\ \/ \E t \in IntTypes, n \in Numbers : SetNumber(k, t, n)
     \/ \E t \in {"str", "blob"}, x \in Texts : SetText(k, t, x)
     \/ \E t \in Types : \E x \in Typed(t) : CommitFails(k, t, x)
     \/ SetFails \/ UndefinedType
  /\ UNCHANGED current_namespace

-----------------------------------------------------------------------------
IsUnder(k, t) ==
  LET e == store[current_namespace][k] IN e # Absent /\ e.type = t

\* nvs_get: an entry is found under its type only.
get_value(k, t) ==
  /\ \/ /\ IsUnder(k, t) /\ reply' = "ok"
        /\ printed' = [name |-> k, type |-> t, text |-> Text(store[current_namespace][k])]
     \/ ~IsUnder(k, t) /\ Reply("not_found")
     \/ Reply("failed")
  /\ UNCHANGED <<store, current_namespace, erange, told>>

\* nvs_erase.
erase_value(k) ==
  /\ LET e == store[current_namespace][k]
     IN \/ /\ e # Absent /\ Put(k, Absent)
           /\ \/ Tell(k, Absent) /\ Reply("ok")
              \/ Tell(k, Unknown) /\ Reply("failed")
        \/ e = Absent /\ Reply("not_found") /\ Keep
        \/ Reply("failed") /\ Keep
  /\ UNCHANGED <<current_namespace, erange>>

\* nvs_erase_namespace reports success also if it fails.
erase_namespace(n) ==
  /\ \/ /\ store' = [store EXCEPT ![n] = [k \in Names |-> Absent]]
        /\ told' = [told EXCEPT ![n] = [k \in Names |-> Absent]]
     \/ Keep
  /\ Reply("ok")
  /\ UNCHANGED <<current_namespace, erange>>

\* nvs_namespace.
set_namespace(n) ==
  /\ current_namespace' = n
  /\ Reply("ok")
  /\ UNCHANGED <<store, erange, told>>

\* Something else that the console task calls sets errno to another value.
OtherErrno == /\ erange /\ erange' = FALSE
              /\ UNCHANGED <<store, current_namespace, reply, printed, told>>

Restart ==
  /\ current_namespace' = Storage /\ erange' = FALSE
  /\ Reply("ok")
  /\ Keep

Next == \/ \E k \in Names : \/ set_value(k) \/ erase_value(k)
                            \/ \E t \in Types : get_value(k, t)
        \/ \E n \in Namespaces : erase_namespace(n) \/ set_namespace(n)
        \/ OtherErrno \/ Restart

Spec == Init /\ [][Next]_vars

-----------------------------------------------------------------------------
(* Correctness.                                                             *)

\* An entry says what was typed: the same string or bytes, and the same number,
\* except that a negative one, typed for an unsigned type, wraps at the width
\* of its conversion.
Means(e, a) ==
  /\ e.type = a.type
  /\ CASE a.type \in IntTypes -> \/ e.value = a.text
                                 \/ /\ a.type \notin Signed /\ a.text < 0
                                    /\ e.value = a.text + 2 * ParseHalf(a.type)
       [] a.type = "str"      -> e.value = a.text
       [] a.type = "blob"     -> Hex(e.value) = a.text

\* Whatever was set, refused, erased and selected since, through restarts and
\* failures: an entry that the user was told is stored is there as typed, under
\* its type and in the namespace that was selected then, and one that was
\* reported erased is not.  A number that is refused takes nothing away.
ToldIsStored ==
  \A n \in Namespaces, k \in Names :
    LET a == told[n][k]
        e == store[n][k]
    IN /\ a = Absent => e = Absent
       /\ a \notin {Absent, Unknown} => e # Absent /\ Means(e, a)

\* What nvs_get prints can be given back to nvs_set: it is accepted as its type
\* and becomes the entry it was printed from.  (Not so a negative i16, which
\* is printed as a number of 32 bits.)
PrintedCanBeSet ==
  printed # Nothing =>
    LET e == store[current_namespace][printed.name]
    IN (e.type = "i16" => e.value >= 0) =>
         Takes(printed.type, printed.text) /\ Stored(printed.type, printed.text) = e
=============================================================================
