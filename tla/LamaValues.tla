----------------------------- MODULE LamaValues -----------------------------
(***************************************************************************)
(* Lama values without addresses, and the cells a stack of them can reach. *)
(***************************************************************************)
EXTENDS Integers, Sequences

imm(v) == <<"imm", v>>        \* a boxed integer
raw(n) == <<"raw", n>>        \* a word that is neither integer nor reference
ref(c) == <<"ref", c>>        \* the cell named c

IsImm(v) == v[1] = "imm"
IsRef(v) == v[1] = "ref"

Entries(seq) == {seq[i] : i \in DOMAIN seq}
Named(values) == {v[2] : v \in {w \in values : IsRef(w)}}

\* A set of cells that has those the stack s names and those its own name.
Closed(all, s, S) ==
  /\ Named(Entries(s)) \subseteq S
  /\ \A c \in S : Named(Entries(all[c].contents)) \subseteq S

\* No such set is without a cell that can be reached from the stack s.
Live(all, s) ==
  {c \in DOMAIN all : \A S \in SUBSET (DOMAIN all \ {c}) : ~ Closed(all, s, S)}

InReach(all, s) == [c \in Live(all, s) |-> all[c]]
=============================================================================
