------------------------------ MODULE StringBuf ------------------------------
(***************************************************************************)
(* The buffer printValue and stringcat print to.  A piece of text is what  *)
(* one call of printStringBuf prints; vsnprintf is tried on the room there *)
(* is, and again after the buffer has grown.                               *)
(***************************************************************************)
EXTENDS Integers, Sequences

CONSTANTS
  STRINGBUF_INIT,       \* 128
  Rubbish               \* what realloc leaves in new bytes

ASSUME BufAssumption == STRINGBUF_INIT \in Nat \ {0} /\ Rubbish \in (-128)..127 /\ Rubbish # 0

VARIABLES
  contents,     \* the bytes
  ptr,          \* where the next piece goes
  len           \* number of bytes

sbuf == <<contents, ptr, len>>

createStringBuf ==
  /\ contents' = [i \in 1..STRINGBUF_INIT |-> 0]
  /\ ptr' = 0
  /\ len' = STRINGBUF_INIT

rest == len - ptr

\* vsnprintf: as much of the piece as there is room for, and a zero.
Printed(piece) ==
  LET k == IF Len(piece) < rest THEN Len(piece) ELSE rest - 1
  IN  [i \in 1..len |-> IF i <= ptr \/ i > ptr + k + 1 THEN contents[i]
                        ELSE IF i = ptr + k + 1 THEN 0
                        ELSE piece[i - ptr]]

\* Mutant: the zero is not counted.
TruncatedLate(piece) == Len(piece) > rest

\* written >= rest
Truncated(piece) == Len(piece) >= rest

\* Mutant: the length is not updated.
extendStringBufStuck(bytes) ==
  contents' = bytes \o [i \in 1..len |-> Rubbish] /\ len' = len

extendStringBuf(bytes) ==
  /\ contents' = bytes \o [i \in 1..len |-> Rubbish]
  /\ len' = 2 * len

\* One try of vprintStringBuf.
Again(piece) ==
  /\ Truncated(piece)
  /\ extendStringBuf(Printed(piece))
  /\ UNCHANGED ptr

\* Mutant: the zero is counted, too.
FitsWithZero(piece) ==
  /\ ~ Truncated(piece)
  /\ contents' = Printed(piece)
  /\ ptr' = ptr + Len(piece) + 1
  /\ UNCHANGED len

Fits(piece) ==
  /\ ~ Truncated(piece)
  /\ contents' = Printed(piece)
  /\ ptr' = ptr + Len(piece)
  /\ UNCHANGED len

\* The text a C function sees in some bytes.
CText(bytes) ==
  LET zeros == {i \in DOMAIN bytes : bytes[i] = 0}
  IN  IF zeros = {} THEN bytes
      ELSE SubSeq(bytes, 1, (CHOOSE i \in zeros : \A j \in zeros : i <= j) - 1)
=============================================================================
