----------------------------- MODULE RuntimeView -----------------------------
(***************************************************************************)
(* Runtime implements LamaStore: what the program sees of the heap, at     *)
(* every step of a collection too.  The program sees the memory the        *)
(* collection is about to leave (CollectorInvariant): a word stands for    *)
(* what it will be when the references are updated, an address for the     *)
(* name of the object that will be there.                                  *)
(***************************************************************************)
EXTENDS CollectorInvariant

Values == INSTANCE LamaValues

\* The objects that will be where an address points; none for a word that is
\* no reference.
Holders(v) == IF Compacting THEN {h \in Live : Place(h) = Header(v)}
              ELSE {Header(v)} \cap DOMAIN obj

Plain(w) == IF UNBOXED(w) THEN Values!imm(w) ELSE Values!raw(w)
Value(w) ==
  IF UNBOXED(w) THEN Plain(w)
  ELSE LET holders == Holders(w)
       IN  IF holders = {} THEN Plain(w)
           ELSE Values!ref(obj[CHOOSE h \in holders : TRUE].id)

\* The tag of a sexp and the code of a closure are never references.
CellOf(h) ==
  LET o == obj[h]
      members == ComingContents(h)
  IN  [type |-> o.type,
       contents |-> [i \in DOMAIN members |->
                       IF i \in Fields(o) THEN Value(members[i]) ELSE Plain(members[i])]]

AllCells == [n \in {obj[h].id : h \in Live} |->
               CellOf(CHOOSE h \in Live : obj[h].id = n)]

\* The tag or the code a function has pushed for the runtime is its own.
Scratch == IF op.fn \in {"Bsexp", "Bclosure"} THEN 1 ELSE 0
Visible == [k \in 1..(Len(stack) - Scratch) |-> Value(Coming(stack[k]))]
CellsInReach == Values!InReach(AllCells, Visible)

Count == IF pc = "fill" THEN ids - 1 ELSE ids
Running == pc \notin {"exit", "segv"}

Abstract == INSTANCE LamaStore WITH
  stack   <- Visible,
  cells   <- CellsInReach,
  count   <- Count,
  running <- Running

\* A program that runs on this heap sees what it would see on a store without
\* a collector: moving, marking and reclaiming objects change nothing for it.
ImplementsStore == Abstract!Spec
=============================================================================
