-------------------------- MODULE CollectorInvariant --------------------------
(***************************************************************************)
(* Why the properties of Gc hold: what is true of the heap, the roots and  *)
(* the collector's own registers at every step.                            *)
(*                                                                         *)
(* While the collector moves objects the memory is a mixture of two        *)
(* layouts.  The invariant is therefore stated of the memory a collection  *)
(* is about to leave, Memory, a set of objects with the places they will   *)
(* have.  Outside of the compaction these are the objects where they are;  *)
(* no step of the compaction changes Memory once the places are computed.  *)
(***************************************************************************)
EXTENDS Runtime

\* Words that are no integer of the program and mean no object: a global that
\* is not set yet, a code offset.
Raw == Code \cup {Foreign}
IsAddress(v) == ~ UNBOXED(v) /\ v \notin Raw

\* The objects at some places are all a word can refer to.
Clean(v, places) == IsAddress(v) => Header(v) \in places
Named(values) == {Header(v) : v \in {w \in values : IsAddress(w)}}

\* What an object refers to.
FieldValues(o) == {o.contents[i] : i \in Fields(o)}
Kids(o) == Named(FieldValues(o))

-----------------------------------------------------------------------------
(* A memory m, a set of objects with their places.                          *)

Starts(m) == {c.at : c \in m}

\* The objects lie from first to last, each ends where the next one starts.
Tiled(m, first, last) ==
  LET starts == Starts(m) \cup {last}
  IN  /\ first \in starts
      /\ \A c \in m :
           /\ first <= c.at /\ c.at < last /\ c.at + Words(c) \in starts
           /\ \A a \in starts : a > c.at => a >= c.at + Words(c)

\* A character is no address.
Chars == Imm \cup {Foreign}

Sound(m, first, last, roots) ==
  /\ Tiled(m, first, last)
  /\ \A c \in m : \A v \in FieldValues(c) : Clean(v, Starts(m))
  /\ \A c \in m : c.type = "STRING" => \A i \in 1..c.len : c.contents[i] \in Chars
  /\ \A v \in roots : Clean(v, Starts(m))

\* No part of the memory that has what the roots and its objects refer to is
\* smaller than all of it.
Minimal(m, roots) ==
  \A S \in SUBSET Starts(m) :
    Named(roots) \subseteq S /\ (\A c \in m : c.at \in S => Kids(c) \subseteq S)
      => S = Starts(m)

-----------------------------------------------------------------------------
(* The memory a collection is about to leave.                               *)

Compacting == pc \in {"update", "relocate"}

\* Objects that lie in their new places already.
Settled == {d \in DOMAIN obj : d < free /\ \A h \in Marked : d < Target(h)}

Live == CASE pc = "update"   -> Marked
          [] pc = "relocate" -> Settled \cup Marked
          [] OTHER           -> DOMAIN obj

Place(h) == IF Compacting /\ h \in Marked THEN Target(h) ELSE h

\* What a word, or the members of an object, will be when the references
\* are updated.
Coming(v) == IF pc = "update" THEN Fix(v) ELSE v
Updated(o) == [i \in DOMAIN o.contents |->
                 IF i \in PtrFields(o) THEN Fix(o.contents[i]) ELSE o.contents[i]]
ComingContents(h) ==
  IF pc = "update" /\ h >= iter THEN Updated(obj[h]) ELSE obj[h].contents

Image(h) == [at |-> Place(h), id |-> obj[h].id, type |-> obj[h].type,
             len |-> obj[h].len, contents |-> ComingContents(h)]
Memory == {Image(h) : h \in Live}

\* The end of the objects: alloc has moved heap.current already when the
\* caller fills the words in, Shrink has not yet while objects move.
Limit == CASE pc = "fill" -> NewHeader
           [] Compacting  -> free
           [] OTHER       -> heap.current

\* The values of the roots; a slot that is an extra root too counts once.
Roots == {stack[k] : k \in DOMAIN stack}
         \cup {cvar : i \in {j \in DOMAIN extra : extra[j] = CLocal}}
ComingRoots == {Coming(v) : v \in Roots}

-----------------------------------------------------------------------------
(* The invariant, by phases.                                                *)

Alive == pc \notin {"exit", "crash", "segv"}

\* The heap is in order at every step, as a program that goes on will see it.
HeapSound ==
  /\ heap.begin \in Bases
  /\ IsFiniteSet(DOMAIN obj)
  /\ Alive => Sound(Memory, heap.begin, Limit, ComingRoots)

\* A word refers to a string; it refers to an object of some size.
RefersToString(v) ==
  /\ IsAddress(Coming(v))
  /\ \E c \in Memory : c.at = Header(Coming(v)) /\ c.type = "STRING"
RefersToSized(v, words) ==
  /\ IsAddress(Coming(v))
  /\ \E c \in Memory : c.at = Header(Coming(v)) /\ Words(c) = words

\* The words a function is going to fill are those it was given, and what it
\* has found out about its operands before alloc is true of them after it.
CallSound ==
  Alive /\ pc # "mutator" =>
    /\ op.fn # "none"
    /\ op.fn \in {"Barray", "LmakeArray"} => need = obj_words("ARRAY", op.n)
    /\ op.fn = "Bsexp" => need = obj_words("SEXP", op.n)
    /\ op.fn = "Bclosure" => need = obj_words("CLOSURE", op.n + 1)
    /\ op.fn \in {"Bstring", "Lstring"} => op.text \in Texts
    /\ op.fn \in {"Bstring", "Lstring", "LcloneString"} =>
         need = obj_words("STRING", Len(op.text))
    /\ op.fn \in {"Lsubstring", "Li__Infix_4343"} =>
         need = obj_words("STRING", op.n) /\ RefersToString(Arg(0))
    /\ op.fn = "Li__Infix_4343" => RefersToString(Arg(1))
    /\ op.fn = "LcloneString" => RefersToString(cvar)
    /\ op.fn = "Lclone" => RefersToSized(Arg(0), need)

Bits ==
  /\ pc \in {"mutator", "alloc", "fill", "retry"} => Marked = {}
  /\ Alive /\ pc \notin {"queue", "fields"} => Flagged = {}

Gray == Marked \cup Flagged

\* A set of objects with all that the roots and its members refer to.
ClosedIn(S) == Named(Roots) \subseteq S /\ \A h \in S : Kids(obj[h]) \subseteq S

\* The objects mark() has found are those every closed set has, and all but
\* the one under the scan have had their members found.
Marking ==
  /\ pc \in {"roots", "queue", "fields"} =>
       /\ \A n \in 1..NRoots : n < root => Clean(RootValue(n), Gray)
       /\ \A h \in Marked : (pc = "fields" /\ h = cur) \/ Kids(obj[h]) \subseteq Gray
       /\ \A S \in SUBSET DOMAIN obj : ClosedIn(S) => Gray \subseteq S
  /\ pc = "fields" =>
       /\ cur \in Marked
       /\ \A i \in PtrFields(obj[cur]) \ todo : Clean(obj[cur].contents[i], Gray)

Cells == {h \in DOMAIN obj : head <= h /\ h < tail}

\* The cells of the queue hold the objects that wait, and there were not more
\* of them than there are objects found.
Queue ==
  pc \in {"queue", "fields"} =>
    /\ head \in DOMAIN obj \cup {heap.current} /\ tail \in DOMAIN obj \cup {heap.current}
    /\ head <= tail
    /\ {Header(obj[h].fwd) : h \in Cells} = Flagged
    /\ \A g, h \in Cells : Header(obj[g].fwd) = Header(obj[h].fwd) => g = h
    /\ Flagged \cap Marked = {}
    /\ Cardinality({h \in DOMAIN obj : h < tail}) <= Cardinality(Gray)

\* compute_locations packs the live objects it has passed.
Passed == {h \in Marked : h < iter}
Locating ==
  pc = "locate" =>
    /\ ClosedIn(Marked)
    /\ \A S \in SUBSET DOMAIN obj : ClosedIn(S) => Marked \subseteq S
    /\ iter \in DOMAIN obj \cup {heap.current}
    /\ heap.begin <= free /\ free <= iter
    /\ heap.begin \in {obj[h].fwd : h \in Passed} \cup {free}
    /\ \A h \in Passed :
         /\ heap.begin <= obj[h].fwd /\ obj[h].fwd <= h
         /\ obj[h].fwd + Words(obj[h]) \in {obj[g].fwd : g \in Passed} \cup {free}
         /\ obj[h].fwd + Words(obj[h]) <= free
         /\ \A g \in Passed : g > h => obj[g].fwd >= obj[h].fwd + Words(obj[h])

\* The objects from a on are where heap_next_obj_iterator goes.
TiledFrom(a) ==
  LET starts == DOMAIN obj \cup {heap.current}
  IN  /\ a \in starts
      /\ \A h \in DOMAIN obj :
           h >= a => /\ h < heap.current /\ h + Words(obj[h]) \in starts
                     /\ \A b \in starts : b > h => b >= h + Words(obj[h])

\* The live objects that have not moved yet will go down, in their order.
Compaction ==
  Compacting =>
    /\ \A h \in DOMAIN obj : heap.begin <= h /\ h < heap.current
    /\ TiledFrom(iter)
    /\ pc = "update" => TiledFrom(heap.begin)
    /\ \A h \in Marked :
         /\ Target(h) <= h
         /\ \A g \in Marked : g > h => Target(g) >= Target(h) + Words(obj[h])
    /\ pc = "relocate" => \A h \in Marked : h >= iter

\* A collection keeps what is reachable and nothing else.
Collected == pc \in {"update", "relocate", "retry"} => Minimal(Memory, ComingRoots)

\* At every step of the program and of each loop of gc.c (gc.c:199-553) the heap
\* the program will go on with is in order, the words a runtime function was
\* given are those it is going to fill in, and the bits, the queue, the places
\* and the objects moved so far are as the next iteration needs them.
CInv == /\ HeapSound /\ CallSound /\ Bits /\ Marking /\ Queue
        /\ Locating /\ Compaction /\ Collected
=============================================================================
