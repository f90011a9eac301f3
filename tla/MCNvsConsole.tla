---------------------------- MODULE MCNvsConsole ----------------------------
(* Values of the constants of NvsConsole: integers of 1 to 3 bits.          *)
EXTENDS NvsConsole

\* 1 bit for 8 and 16, 2 for 32 and long, 3 for 64.
Halves == [t \in IntTypes |-> CASE t \in {"i8", "u8", "i16", "u16"} -> 1
                                [] t \in {"i32", "u32"} -> 2
                                [] t \in {"i64", "u64"} -> 4]

\* About each limit of each type, and of each conversion.
Boundaries == -9..8

\* The empty text, whole and half bytes, and one that is not hexadecimal.
SomeTexts == {<<>>, <<10, 2>>, <<10>>, <<10, Other>>}
=============================================================================
