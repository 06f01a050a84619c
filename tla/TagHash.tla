------------------------------- MODULE TagHash -------------------------------
(***************************************************************************)
(* The tag of a sexp as a number: its first characters in base 64.  A text *)
(* is a sequence of character codes.                                       *)
(***************************************************************************)
EXTENDS Integers, SequencesExt

CONSTANT MAX_SEXP_TAGLEN      \* 10 on a machine with words of 64 bits

ASSUME TagLenAssumption == MAX_SEXP_TAGLEN \in Nat \ {0}

\* "_abc...zABC...Z0123456789'"
chars == <<95>> \o [i \in 1..26 |-> 96 + i] \o [i \in 1..26 |-> 64 + i]
         \o [i \in 1..10 |-> 47 + i] \o <<39>>

\* strncmp looks at so many characters only.
Shortened(s) == SubSeq(s, 1, Min({Len(s), MAX_SEXP_TAGLEN}))

Position(c) == (CHOOSE i \in DOMAIN chars : chars[i] = c) - 1

\* The number with the characters of s for its digits in base 64.
Base64(s) ==
  LET h[i \in 0..Len(s)] == IF i = 0 THEN 0 ELSE 64 * h[i - 1] + Position(s[i])
  IN  h[Len(s)]

\* The characters are found from the last one on, while there is a rest.
de_hash(n) ==
  LET text[k \in Nat] == IF k = 0 THEN <<>>
                         ELSE Append(text[k \div 64], chars[(k % 64) + 1])
  IN  text[n]

\* UNBOX of what LtagHash returns.
LtagHash(s) == Base64(Shortened(s))

\* A failure: a character that is not in the table, or a number that does not
\* give the tag back, as one with leading zeros.
TagFails(s) ==
  \/ ~ ToSet(Shortened(s)) \subseteq ToSet(chars)
  \/ de_hash(LtagHash(s)) # Shortened(s)
=============================================================================
