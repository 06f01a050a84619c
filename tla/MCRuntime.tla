----------------------------- MODULE MCRuntime -----------------------------
(***************************************************************************)
(* Small instances of Runtime for TLC.                                     *)
(***************************************************************************)
EXTENDS ViewInvariant

CONSTANTS i1, i2

\* Chunks at 10 and 16 can be adjacent; 60 is far from both.
MCBases == {10, 16, 60}

\* The tag of a sexp looks like the address of the first object's contents.
MCUnbox(v) == 12

MCFarBases == {10, 60}

MCTexts == {<<i1>>}

\* Of different lengths, and no concatenation of them is another one.
MCTwoTexts == {<<i1>>, <<i2, i1>>}
=============================================================================
