---------------------------- MODULE ViewInvariant ----------------------------
(***************************************************************************)
(* Why Runtime implements LamaStore: the names of the objects, and what a  *)
(* runtime function knows of its operands while it waits for alloc, in     *)
(* terms of what the program sees.                                         *)
(***************************************************************************)
EXTENDS RuntimeView

\* What a word on the stack or in the C variable means to the program.
Meaning(w) == Value(Coming(w))

\* The operands of a function on top of the stack, the first one being 0.
Operand(i) == Visible[Len(Visible) - i]
TextOf(v) == CellsInReach[v[2]].contents

\* No two objects have the same name or the same place, and the next name is
\* new.
Apart(m) == \A c, d \in m : c.id = d.id \/ c.at = d.at => c = d
NamesApart ==
  /\ Count \in Nat
  /\ \A c \in Memory : c.id \in 1..Count
  /\ Apart(Memory)

\* Lsubstring, Lclone and Li__Infix_4343 read lengths and types before they
\* call alloc and copy as many characters or words afterwards (runtime.c:446,
\* 517, 984), whatever has moved in between.  The number of members or of
\* characters a function counts on is still the one its operands have, and
\* the word it pushed for the runtime is still the offset of a function.
CallMeans ==
  Alive /\ pc # "mutator" =>
    /\ op.fn \in {"Barray", "LmakeArray"} => op.n \in ArraySizes
    /\ op.fn = "Bsexp" => op.n \in SexpSizes
    /\ op.fn = "Bclosure" => op.n \in ClosureSizes /\ Coming(Arg(0)) \in Code
    /\ op.fn \in {"Barray", "Bsexp", "Bclosure"} => op.n <= Len(Visible) - NGlobals
    /\ op.fn \in {"Lclone", "LcloneString"} => Len(Visible) > NGlobals
    /\ op.fn = "LcloneString" =>
         /\ Meaning(cvar) = Operand(0)
         /\ Len(TextOf(Operand(0))) = Len(op.text)
    /\ op.fn = "Lsubstring" =>
         /\ Len(Visible) >= NGlobals + 3
         /\ Values!IsImm(Operand(1)) /\ Values!IsImm(Operand(2))
         /\ op.from + op.n <= Len(TextOf(Operand(0)))
    /\ op.fn = "Li__Infix_4343" =>
         /\ Len(Visible) >= NGlobals + 2
         /\ op.n = Len(TextOf(Operand(0))) + Len(TextOf(Operand(1)))

VInv == NamesApart /\ CallMeans
=============================================================================
