------------------------------ MODULE InterpView ------------------------------
(***************************************************************************)
(* Interp implements LamaMachine: an odd word is the integer it unboxes    *)
(* to, an even one the name of the object at that address; the tag of a    *)
(* sexp is the name its hash gives back.                                   *)
(***************************************************************************)
EXTENDS Interp

ValueOf(w) == IF UNBOXED(w) THEN <<"int", UNBOX(w)>> ELSE <<"ref", w \div 2>>
ValuesOf(words) == [i \in DOMAIN words |-> ValueOf(words[i])]

CellOf(o) ==
  CASE o.type = "STRING"  -> [type |-> o.type, name |-> <<>>,
                              members |-> [i \in DOMAIN o.members |-> <<"char", o.members[i]>>]]
    [] o.type = "CLOSURE" -> [type |-> o.type, name |-> <<o.members[1]>>,
                              members |-> ValuesOf(Tail(o.members))]
    [] o.type = "ARRAY"   -> [type |-> o.type, name |-> <<>>, members |-> ValuesOf(o.members)]
    [] o.type = "SEXP"    -> [type |-> o.type, name |-> de_hash(o.tag), members |-> ValuesOf(o.members)]

CellsOf(objects) == [k \in DOMAIN objects |-> CellOf(objects[k])]

Abstract == INSTANCE LamaMachine WITH
  Int1 <- AsInt, Char <- AsChar, Named <- Shortened, NameFails <- TagFails,
  Starts <- {[stack |-> ValuesOf(s.stack), cells |-> CellsOf(s.heap)] : s \in Starts},
  stack <- ValuesOf(stack),
  cells <- CellsOf(heap),
  state <- IF state = "printing" THEN "running" ELSE state

\* main.c:493-991: each instruction unboxes, boxes and passes on its operands
\* so that the program computes on integers and references.
ImplementsMachine == Abstract!Spec
=============================================================================
