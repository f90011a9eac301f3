------------------------------- MODULE Texts --------------------------------
(***************************************************************************)
(* What a text becomes on its way between the flash, the pages and a       *)
(* browser: the functions of helper.c, and what a browser does with the    *)
(* pages, which is not part of the program.  A text is a sequence of the   *)
(* codes of its characters, without the 0 at its end.                      *)
(***************************************************************************)
EXTENDS Integers, SequencesExt, FiniteSetsExt

Space == 32
Quote == 34
Percent == 37
Amp == 38
Apos == 39
Plus == 43
Lt == 60
Gt == 62

-----------------------------------------------------------------------------
(* Into a page.                                                             *)

Entity(c) ==
  CASE c = Lt    -> <<38, 108, 116, 59>>               \* &lt;
    [] c = Gt    -> <<38, 103, 116, 59>>               \* &gt;
    [] c = Amp   -> <<38, 97, 109, 112, 59>>           \* &amp;
    [] c = Quote -> <<38, 113, 117, 111, 116, 59>>     \* &quot;
    [] c = Apos  -> <<38, 35, 51, 57, 59>>             \* &#39;
    [] OTHER     -> <<c>>

\* As many whole characters as there is room for.
sanitize_html(s, size) ==
  LET first(n) == FlattenSeq([i \in 1..n |-> Entity(s[i])])
  IN first(Max({n \in 0..Len(s) : Len(first(n)) < size}))

\* With size Len(s) * 6 + 1: everything.
alloc_safe_str(s) == sanitize_html(s, Len(s) * 6 + 1)

\* What is read from n places, from left to right: at place i there is the
\* character char[i], which takes width[i] places.
Decoded(n, char, width) ==
  LET rest[i \in 1..n + 1] == IF i > n THEN <<>> ELSE <<char[i]>> \o rest[i + width[i]]
  IN rest[1]

\* What a browser makes of it.
Unescaped(s) ==
  LET Here(i, e) == i + Len(e) - 1 =< Len(s) /\ SubSeq(s, i, i + Len(e) - 1) = e
      found(i) == {c \in {Lt, Gt, Amp, Quote, Apos} : Here(i, Entity(c))}
      Char(i) == IF found(i) = {} THEN s[i] ELSE CHOOSE c \in found(i) : TRUE
  IN Decoded(Len(s), [i \in DOMAIN s |-> Char(i)],
             [i \in DOMAIN s |-> IF found(i) = {} THEN 1 ELSE Len(Entity(Char(i)))])

-----------------------------------------------------------------------------
(* Into a form that is posted, and out of it.                               *)

Alphanumeric == 48..57 \cup 65..90 \cup 97..122
HexDigit(d) == IF d < 10 THEN 48 + d ELSE 55 + d

\* What a browser sends of a field.
Urlencoded(s) ==
  FlattenSeq([i \in DOMAIN s |->
    CASE s[i] = Space -> <<Plus>>
      [] s[i] \in Alphanumeric -> <<s[i]>>
      [] OTHER -> <<Percent, HexDigit(s[i] \div 16), HexDigit(s[i] % 16)>>])

\* A digit, and what else follows a per cent sign, without a check.
Upper(c) == IF c \in 97..122 THEN c - 32 ELSE c
Value(c) == IF c =< 57 THEN c - 48 ELSE Upper(c) - 65 + 10

preprocess_string(s) ==
  LET coded(i) == s[i] = Percent /\ i + 2 =< Len(s)
  IN Decoded(Len(s),
             [i \in DOMAIN s |-> IF coded(i) THEN (16 * Value(s[i + 1]) + Value(s[i + 2])) % 256
                                 ELSE IF s[i] = Plus THEN Space ELSE s[i]],
             [i \in DOMAIN s |-> IF coded(i) THEN 3 ELSE 1])

\* A parameter that does not fit into the buffer counts as one that is not there.
readUrlParameterIntoBuffer(v, size) == IF Len(v) < size THEN preprocess_string(v) ELSE <<>>

\* A field of a form, as the program gets it.
Received(s, size) == readUrlParameterIntoBuffer(Urlencoded(s), size)

-----------------------------------------------------------------------------
\* strtok and strtok_r: the parts between delimiters, of which none is empty.
Tokens(s, delimiter) ==
  LET begins(i) == s[i] # delimiter /\ (i = 1 \/ s[i - 1] = delimiter)
      end(i) == Min({j \in i..Len(s) + 1 : j = Len(s) + 1 \/ s[j] = delimiter})
  IN FlattenSeq([i \in DOMAIN s |-> IF begins(i) THEN <<SubSeq(s, i, end(i) - 1)>> ELSE <<>>])
=============================================================================
