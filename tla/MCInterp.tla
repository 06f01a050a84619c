------------------------------- MODULE MCInterp -------------------------------
(***************************************************************************)
(* Small instances of Interp for TLC.                                      *)
(***************************************************************************)
EXTENDS Library

\* 12 bits of hash for tags of two characters; integers have 13 bits.
MCHalf == 4096

MCConsts == {0, 4095}

\* A number that does not fit an integer.
MCInputs == {4097}

\* "b"
MCTexts == {<<98>>}

\* "c" and "cons" (a list), "ab" and "abc" which are one, "_a" has no hash.
MCTags == {<<99, 111, 110, 115>>, <<97, 98>>, <<97, 98, 99>>, <<95, 97>>}

MCSizes == {0, 2}

\* Nothing; an array and an index; a string and an index; a list of two; a
\* closure that has captured an array and an index; a sexp in a sexp.
Text == Object("STRING", 0, <<98, 99>>)
Pair == Object("ARRAY", 0, <<BOX(0), BOX(1)>>)
Cell(head, tail) == Object("SEXP", LtagHash(<<99, 111>>), <<head, tail>>)
Node(members) == Object("SEXP", LtagHash(<<97, 98>>), members)
MCStarts ==
  {[stack |-> <<>>, heap |-> <<>>],
   [stack |-> <<Address(1), BOX(1)>>, heap |-> <<Pair>>],
   [stack |-> <<Address(1), BOX(1)>>, heap |-> <<Text>>],
   [stack |-> <<Address(2)>>, heap |-> <<Cell(BOX(5), BOX(0)), Cell(BOX(-1), Address(1))>>],
   [stack |-> <<Address(2), BOX(2)>>,
    heap |-> <<Pair, Object("CLOSURE", 0, <<10, Address(1), BOX(0)>>)>>],
   [stack |-> <<Address(2), BOX(0)>>, heap |-> <<Node(<<>>), Node(<<Address(1), BOX(0)>>)>>]}
=============================================================================
