--------------------------- MODULE LearningTable ----------------------------
(***************************************************************************)
(* What the bridge relies on in a learning table: looking a key up gives   *)
(* what was last learned for it, or nothing.  A table may forget whatever  *)
(* it likes at any time, and one other key to make room for a new one; it  *)
(* never gives back what was forgotten and never mixes up two keys.        *)
(*                                                                         *)
(* Fdb.tla, the code, is shown to implement it, and BridgePath.tla keeps   *)
(* its two tables by the operators below.                                  *)
(***************************************************************************)
EXTENDS Naturals

CONSTANTS Key, Value,
          None      \* nothing is known of the key

VARIABLE table      \* what looking up each key returns

TableTypeOK == table \in [Key -> Value \cup {None}]

Empty == [k \in Key |-> None]

With(k, v) == [table EXCEPT ![k] = v]
Without(S) == [k \in Key |-> IF k \in S THEN None ELSE table[k]]

Learn(k, v) == table' = With(k, v)

LearnForgetting(k, v, lost) ==
  /\ lost # k
  /\ table' = [With(k, v) EXCEPT ![lost] = None]

Forget(S) == table' = Without(S)

TableNext == \/ \E k \in Key, v \in Value : \/ Learn(k, v)
                                            \/ \E lost \in Key : LearnForgetting(k, v, lost)
             \/ \E S \in SUBSET Key : Forget(S)

TableSpec == table = Empty /\ [][TableNext]_table
=============================================================================
