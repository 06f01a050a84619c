--------------------------------- MODULE Gc ---------------------------------
(***************************************************************************)
(* The allocator and the mark-and-compact collector of gc.c.  The program  *)
(* is stopped while the collector runs, so one variable, pc, says where    *)
(* control is; each loop of the collector is an action that makes one      *)
(* iteration.                                                              *)
(*                                                                         *)
(* Memory is the function obj from the header addresses of objects to the  *)
(* objects.  Where no object starts there is nothing to read: At yields    *)
(* NoObject there and a write is lost.  The invariants of the runs show    *)
(* that the collector never comes to such an address.                      *)
(***************************************************************************)
EXTENDS HeapLayout, FiniteSets

CONSTANTS
  Bases,              \* where mmap may place a chunk
  MinCap,             \* MINIMUM_HEAP_CAPACITY, in words
  MaxExtraRoots       \* MAX_EXTRA_ROOTS_NUMBER

ASSUME BasesAssumption == Bases \subseteq Int
ASSUME MinCapAssumption == MinCap \in Nat
ASSUME MaxExtraRootsAssumption == MaxExtraRoots \in Nat

VARIABLES
  heap,     \* memory_chunk: first word, number of words, next free word
  old,      \* the chunk the collector is leaving
  obj,      \* header address -> object
  stack,    \* the operand stack from its bottom; the last entry is the top
  extra,    \* extra_roots: locations of values held by the runtime
  cvar,     \* the one C variable the runtime registers as an extra root
  op,       \* the function of the runtime whose allocation is under way
  need,     \* the words alloc was asked for
  ids,      \* cur_id: allocations so far
  pc,
  root,     \* the next root to mark
  head,     \* q_head_iter
  tail,     \* q_tail_iter
  cur,      \* the object whose fields mark is scanning ...
  todo,     \* ... and its pointer fields still to visit
  iter,     \* the heap iterator of compact_phase
  free      \* free_ptr: where the next live object will go

regs  == <<root, head, tail, cur, todo, iter, free>>
store == <<heap, old, obj>>
caller == <<stack, extra, cvar, op>>
vars == <<store, caller, need, ids, pc, regs>>

NoChunk == [begin |-> 0, size |-> 0, current |-> 0]
NoObject == [id |-> 0, type |-> "ARRAY", len |-> 0, contents |-> <<>>,
             mark |-> FALSE, enq |-> FALSE, fwd |-> 0]

End(chunk) == chunk.begin + chunk.size

At(h) == IF h \in DOMAIN obj THEN obj[h] ELSE NoObject

\* The last address counts as valid: it is where the contents of an object
\* with no members starts, when that object is the last one of the heap.
is_valid_heap_pointer(v) ==
  ~ UNBOXED(v) /\ heap.begin <= v /\ v <= heap.current

Max2(a, b) == IF a > b THEN a ELSE b

-----------------------------------------------------------------------------
(* Roots.  A location is a slot of the stack or, as 0, the C variable.      *)

CLocal == 0
Deref(l) == IF l = CLocal THEN cvar ELSE stack[l]

\* push_extra_root for each location in turn; the pool has a fixed size.
CanRegister(locs) == Len(extra) + Len(locs) <= MaxExtraRoots
Register(locs) == extra' = extra \o locs
\* Mutant: one pop is missing.
UnregisterShort(n) == extra' = SubSeq(extra, 1, Len(extra) - n + 1)

\* pop_extra_root, n times.
Unregister(n) == extra' = SubSeq(extra, 1, Len(extra) - n)

\* Mutant: the last root is not visited.
NRootsShort == Len(stack) + Len(extra) - 1

\* The stack is scanned from its top, then come the extra roots.
NRoots == Len(stack) + Len(extra)
RootValue(n) == IF n <= Len(stack) THEN stack[Len(stack) + 1 - n]
                ELSE Deref(extra[n - Len(stack)])

-----------------------------------------------------------------------------
(* __init: an empty heap of the least capacity.                             *)

GcInit(bottom) ==
  /\ \E b \in Bases :
       heap = [begin |-> b, size |-> MinCap, current |-> b]
  /\ old = NoChunk /\ obj = <<>>
  /\ stack = bottom /\ extra = <<>> /\ cvar = 0
  /\ need = 0 /\ ids = 0 /\ pc = "mutator"
  /\ root = 0 /\ head = 0 /\ tail = 0 /\ cur = 0 /\ todo = {}
  /\ iter = 0 /\ free = 0

-----------------------------------------------------------------------------
(* alloc.                                                                   *)

Fits == heap.current + need <= End(heap)

\* gc_alloc_on_existing_heap: the caller fills the words in at once.
AllocOnHeap ==
  /\ pc = "alloc" /\ Fits
  /\ heap' = [heap EXCEPT !.current = @ + need]
  /\ ids' = ids + 1
  /\ pc' = "fill"
  /\ UNCHANGED <<old, obj, caller, need, regs>>

StartGc ==
  /\ pc = "alloc" /\ ~ Fits
  /\ pc' = "roots" /\ root' = 1
  /\ UNCHANGED <<store, caller, need, ids, head, tail, cur, todo, iter, free>>

\* gc_alloc tries the heap again; with NULL the caller writes to address 0.
Retry ==
  /\ pc = "retry"
  /\ IF Fits
     THEN /\ heap' = [heap EXCEPT !.current = @ + need]
          /\ ids' = ids + 1
          /\ pc' = "fill"
     ELSE /\ pc' = "crash"
          /\ UNCHANGED <<heap, ids>>
  /\ UNCHANGED <<old, obj, caller, need, regs>>

\* What the caller writes to the words it was given.
NewHeader == heap.current - need
NewRef == Content(NewHeader)
NewObject(type, len, contents) ==
  [id |-> ids, type |-> type, len |-> len, contents |-> contents,
   mark |-> FALSE, enq |-> FALSE, fwd |-> 0]
Put(h, o) == [a \in DOMAIN obj \cup {h} |-> IF a = h THEN o ELSE obj[a]]

-----------------------------------------------------------------------------
(* mark_phase.  mark() keeps its queue in the heap: the n-th object of the  *)
(* heap lends its forward_address to the n-th entry.                        *)

Enqueued(objs, cell, p) ==
  LET linked == [objs EXCEPT ![cell].fwd = p]
  IN  [linked EXCEPT ![Header(p)].enq = TRUE]

\* heap_next_obj_iterator
Next_cell(h) == h + Words(At(h))

Unmarked(v) == is_valid_heap_pointer(v) /\ ~ At(Header(v)).mark

\* Mutant: an object that waits in the queue joins it again.
EnqueueableTwice(v) == Unmarked(v)

Enqueueable(v) == Unmarked(v) /\ ~ At(Header(v)).enq

\* mark (*root) for a value that is no pointer or is marked already.
SkipRoot ==
  /\ pc = "roots" /\ root <= NRoots
  /\ ~ Unmarked(RootValue(root))
  /\ root' = root + 1
  /\ UNCHANGED <<store, caller, need, ids, pc, head, tail, cur, todo, iter, free>>

\* mark (*root) for an unmarked object: the queue starts with it.
MarkRoot ==
  /\ pc = "roots" /\ root <= NRoots
  /\ Unmarked(RootValue(root))
  /\ obj' = Enqueued(obj, heap.begin, RootValue(root))
  /\ head' = heap.begin
  /\ tail' = Next_cell(heap.begin)
  /\ pc' = "queue"
  /\ root' = root + 1
  /\ UNCHANGED <<heap, old, caller, need, ids, cur, todo, iter, free>>

\* Mutant: the scan of an object ends one short of its last member.
DequeueShort ==
  /\ pc = "queue" /\ head # tail
  /\ LET h == Header(At(head).fwd)
     IN  /\ obj' = [obj EXCEPT ![h].enq = FALSE, ![h].mark = TRUE]
         /\ cur' = h
         /\ todo' = {i \in PtrFields(At(h)) : i < Len(At(h).contents)}
  /\ head' = Next_cell(head)
  /\ pc' = "fields"
  /\ UNCHANGED <<heap, old, caller, need, ids, root, tail, iter, free>>

\* queue_dequeue and mark_object.
Dequeue ==
  /\ pc = "queue" /\ head # tail
  /\ LET h == Header(At(head).fwd)
     IN  /\ obj' = [obj EXCEPT ![h].enq = FALSE, ![h].mark = TRUE]
         /\ cur' = h
         /\ todo' = PtrFields(At(h))
  /\ head' = Next_cell(head)
  /\ pc' = "fields"
  /\ UNCHANGED <<heap, old, caller, need, ids, root, tail, iter, free>>

\* One pointer field of the object; it joins the queue when it is new.
ScanField ==
  /\ pc = "fields"
  /\ \E i \in todo :
       /\ \A j \in todo : i <= j
       /\ todo' = todo \ {i}
       /\ LET v == At(cur).contents[i]
          IN  IF Enqueueable(v)
              THEN /\ obj' = Enqueued(obj, tail, v)
                   /\ tail' = Next_cell(tail)
              ELSE UNCHANGED <<obj, tail>>
  /\ UNCHANGED <<heap, old, caller, need, ids, pc, root, head, cur, iter, free>>

FieldsDone ==
  /\ pc = "fields" /\ todo = {}
  /\ pc' = "queue" /\ cur' = 0
  /\ UNCHANGED <<store, caller, need, ids, root, head, tail, todo, iter, free>>

\* The queue is empty: mark() returns to the loop over the roots.
MarkReturn ==
  /\ pc = "queue" /\ head = tail
  /\ pc' = "roots" /\ head' = 0 /\ tail' = 0
  /\ UNCHANGED <<store, caller, need, ids, root, cur, todo, iter, free>>

MarkDone ==
  /\ pc = "roots" /\ root > NRoots
  /\ pc' = "locate" /\ root' = 0
  /\ iter' = heap.begin /\ free' = heap.begin
  /\ UNCHANGED <<store, caller, need, ids, head, tail, cur, todo>>

-----------------------------------------------------------------------------
(* compact_phase.                                                           *)

\* Mutants: a place is kept for garbage too; free moves on too early.
LocateAll ==
  /\ pc = "locate" /\ iter < heap.current
  /\ obj' = IF At(iter).mark THEN [obj EXCEPT ![iter].fwd = free] ELSE obj
  /\ free' = free + Words(At(iter))
  /\ iter' = Next_cell(iter)
  /\ UNCHANGED <<heap, old, caller, need, ids, pc, root, head, tail, cur, todo>>
LocateSwapped ==
  /\ pc = "locate" /\ iter < heap.current
  /\ IF At(iter).mark
     THEN /\ free' = free + Words(At(iter))
          /\ obj' = [obj EXCEPT ![iter].fwd = free']
     ELSE UNCHANGED <<obj, free>>
  /\ iter' = Next_cell(iter)
  /\ UNCHANGED <<heap, old, caller, need, ids, pc, root, head, tail, cur, todo>>

\* compute_locations, for the object under the iterator.
Locate ==
  /\ pc = "locate" /\ iter < heap.current
  /\ IF At(iter).mark
     THEN /\ obj' = [obj EXCEPT ![iter].fwd = free]
          /\ free' = free + Words(At(iter))
     ELSE UNCHANGED <<obj, free>>
  /\ iter' = Next_cell(iter)
  /\ UNCHANGED <<heap, old, caller, need, ids, pc, root, head, tail, cur, todo>>

\* Mutant: room is made for the live objects only.
NextHeapSizeTight == Max2(Max2(free - heap.begin, MinCap), heap.size)

NextHeapSize == Max2(Max2((free - heap.begin) * 2 + need, MinCap), heap.size)

Disjoint(b, size) == b + size <= heap.begin \/ End(heap) <= b

\* mmap and memcpy: the objects are copied as they are, and so is the
\* position of free.  The chunk mmap returns overlaps no other.
MapChunk ==
  /\ pc = "locate" /\ iter >= heap.current
  /\ \E b \in Bases :
       LET shift == b - heap.begin
       IN  /\ Disjoint(b, NextHeapSize)
           /\ heap' = [begin |-> b, size |-> NextHeapSize,
                       current |-> heap.current + shift]
           /\ obj' = [a \in {h + shift : h \in DOMAIN obj} |-> obj[a - shift]]
           /\ free' = free + shift
           /\ iter' = b
  /\ old' = heap
  /\ pc' = "update"
  /\ UNCHANGED <<caller, need, ids, root, head, tail, cur, todo>>

\* mmap fails: memcpy writes to MAP_FAILED before the result is looked at.
MapFails ==
  /\ pc = "locate" /\ iter >= heap.current
  /\ pc' = "segv"
  /\ UNCHANGED <<store, caller, need, ids, regs>>

\* Forward addresses were computed in the old chunk.
Target(h) == heap.begin + (At(h).fwd - old.begin)

\* Mutants: the forward address of a header is taken for one of contents;
\* the end of the old chunk is left out.
MovedToHeader(v) == Target(Header(heap.begin + (v - old.begin)))
InOldExclusive(v) == ~ UNBOXED(v) /\ old.begin <= v /\ v < old.current

\* The new value of a word that points into the old chunk.
Moved(v) == Content(Target(Header(heap.begin + (v - old.begin))))
InOld(v) == ~ UNBOXED(v) /\ old.begin <= v /\ v <= old.current
Fix(v) == IF InOld(v) THEN Moved(v) ELSE v

\* Mutant: the iterator stays on an object that is not marked.
UpdateObjectStuck ==
  /\ pc = "update" /\ iter < heap.current
  /\ obj' = IF At(iter).mark
            THEN [obj EXCEPT ![iter].contents =
                    [i \in DOMAIN @ |-> IF i \in PtrFields(obj[iter])
                                        THEN Fix(@[i]) ELSE @[i]]]
            ELSE obj
  /\ iter' = IF At(iter).mark THEN Next_cell(iter) ELSE iter
  /\ UNCHANGED <<heap, old, caller, need, ids, pc, root, head, tail, cur, todo, free>>

\* update_references, for the object under the iterator.
UpdateObject ==
  /\ pc = "update" /\ iter < heap.current
  /\ obj' = IF At(iter).mark
            THEN [obj EXCEPT ![iter].contents =
                    [i \in DOMAIN @ |-> IF i \in PtrFields(obj[iter])
                                        THEN Fix(@[i]) ELSE @[i]]]
            ELSE obj
  /\ iter' = Next_cell(iter)
  /\ UNCHANGED <<heap, old, caller, need, ids, pc, root, head, tail, cur, todo, free>>

\* scan_and_fix_region for the stack, then scan_and_fix_region_roots, which
\* passes over the extra roots that are slots of the stack.
FixRoots ==
  /\ pc = "update" /\ iter >= heap.current
  /\ stack' = [k \in DOMAIN stack |-> Fix(stack[k])]
  /\ cvar' = IF \E i \in DOMAIN extra : extra[i] = CLocal THEN Fix(cvar) ELSE cvar
  /\ pc' = "relocate" /\ iter' = heap.begin
  /\ UNCHANGED <<store, extra, op, need, ids, root, head, tail, cur, todo, free>>

\* memmove to an address takes the place of every object it runs into.
Overwritten(to, n) ==
  {a \in DOMAIN obj : a < to + n /\ to < a + Words(obj[a])}

\* Mutant: the object stays marked in its new place.
MovedToMarked(h, to) ==
  LET kept == (DOMAIN obj \ Overwritten(to, Words(obj[h]))) \ {h}
  IN  [a \in kept \cup {to} |-> IF a = to THEN obj[h] ELSE obj[a]]

MovedTo(h, to) ==
  LET kept == (DOMAIN obj \ Overwritten(to, Words(obj[h]))) \ {h}
  IN  [a \in kept \cup {to} |->
         IF a = to THEN [obj[h] EXCEPT !.mark = FALSE] ELSE obj[a]]

\* physically_relocate, for the object under the iterator.
Relocate ==
  /\ pc = "relocate" /\ iter < heap.current
  /\ obj' = IF At(iter).mark THEN MovedTo(iter, Target(iter)) ELSE obj
  /\ iter' = Next_cell(iter)
  /\ UNCHANGED <<heap, old, caller, need, ids, pc, root, head, tail, cur, todo, free>>

\* Mutant: the free words are not given back.
ShrinkForgotten ==
  /\ pc = "relocate" /\ iter >= heap.current
  /\ obj' = [a \in {h \in DOMAIN obj : h < free} |-> obj[a]]
  /\ old' = NoChunk
  /\ pc' = "retry" /\ iter' = 0 /\ free' = 0
  /\ UNCHANGED <<heap, caller, need, ids, root, head, tail, cur, todo>>

\* The heap ends after the live objects; what lies behind is never read.
Shrink ==
  /\ pc = "relocate" /\ iter >= heap.current
  /\ heap' = [heap EXCEPT !.current = free]
  /\ obj' = [a \in {h \in DOMAIN obj : h < free} |-> obj[a]]
  /\ old' = NoChunk
  /\ pc' = "retry" /\ iter' = 0 /\ free' = 0
  /\ UNCHANGED <<caller, need, ids, root, head, tail, cur, todo>>

-----------------------------------------------------------------------------
MarkStep    == SkipRoot \/ MarkRoot \/ Dequeue \/ ScanField \/ FieldsDone
               \/ MarkReturn \/ MarkDone
CompactStep == Locate \/ MapChunk \/ MapFails \/ UpdateObject \/ FixRoots
               \/ Relocate \/ Shrink
AllocStep   == AllocOnHeap \/ StartGc \/ Retry

GcStep == AllocStep \/ MarkStep \/ CompactStep
-----------------------------------------------------------------------------
(* What the collector promises.                                             *)

PCs == {"mutator", "alloc", "fill", "roots", "queue", "fields", "locate",
        "update", "relocate", "retry", "exit", "crash", "segv"}

Chunk == [begin : Int, size : Int, current : Int]

\* The words of memory, the chunk descriptors and the iterators keep their
\* types, and every object has as many members as its header says, at every
\* step of the collector and of the functions that write to the heap.
GcTypeOK ==
  /\ heap \in Chunk /\ old \in Chunk
  /\ DOMAIN obj \subseteq Int
  /\ \A h \in DOMAIN obj : obj[h] \in Object /\ WellSized(obj[h])
  /\ stack \in Seq(Word)
  /\ extra \in Seq(0..Len(stack))
  /\ cvar \in Word
  /\ need \in Nat /\ ids \in Nat /\ root \in Nat
  /\ pc \in PCs
  /\ head \in Int /\ tail \in Int /\ cur \in Int
  /\ todo \subseteq Nat
  /\ iter \in Int /\ free \in Int

\* The objects a set of objects refers to, and those the roots refer to.
Refs(values) == {Header(v) : v \in {w \in values : is_valid_heap_pointer(w)}}
Children(h) == Refs({obj[h].contents[i] : i \in PtrFields(obj[h])})
RootHeaders == Refs({RootValue(n) : n \in 1..NRoots})

Closed(S) == RootHeaders \subseteq S /\ \A h \in S : Children(h) \subseteq S
Reachable == {h \in DOMAIN obj :
                \A S \in SUBSET DOMAIN obj : Closed(S) => h \in S}

Marked == {h \in DOMAIN obj : obj[h].mark}
Flagged == {h \in DOMAIN obj : obj[h].enq}

Stopped == pc \in {"mutator", "alloc"}      \* no collection is under way
Collecting == pc \in {"roots", "queue", "fields", "locate", "update", "relocate"}

\* Every root and field that looks like a heap pointer names an object, from
\* the first step of a collection to the last one of its mark phase and again
\* when the program goes on (gc.h:93, "valid Lama's pointers").
ReferencesResolve ==
  Stopped \/ pc \in {"roots", "queue", "fields", "retry"} =>
    /\ RootHeaders \subseteq DOMAIN obj
    /\ \A h \in DOMAIN obj : Children(h) \subseteq DOMAIN obj

\* The iterators of gc.c walk from header to header by the sizes in the
\* headers: each object ends where the next one starts or where the heap ends.
HeapTiled ==
  Stopped \/ pc \in {"roots", "queue", "fields", "locate", "update", "retry"} =>
    LET starts == DOMAIN obj \cup {heap.current}
    IN  /\ heap.begin \in starts
        /\ \A h \in DOMAIN obj :
             /\ heap.begin <= h /\ h + Words(obj[h]) \in starts
             /\ \A a \in starts : a > h => a >= h + Words(obj[h])

\* The comment of mark(): the queue holds only unmarked objects, each of them
\* once, and it has room: the cells between the iterators hold the objects
\* whose enqueued bit is set, and the tail stays within the heap.
QueueHoldsUnmarkedOnce ==
  pc \in {"queue", "fields"} =>
    LET cells == {h \in DOMAIN obj : head <= h /\ h < tail}
    IN  /\ tail <= heap.current
        /\ {Header(obj[h].fwd) : h \in cells} = Flagged
        /\ Cardinality(cells) = Cardinality(Flagged)
        /\ Flagged \cap Marked = {}

\* The mark phase finds what the program can still reach, and nothing else.
MarkedIsReachable ==
  pc = "locate" => Marked = Reachable

\* A collection leaves no bit behind: an object still marked would be skipped
\* by the next mark phase together with all that only it refers to.
BitsClear == Stopped \/ pc \in {"fill", "retry"} => Marked = {} /\ Flagged = {}

\* After a collection the heap holds reachable objects only, so its size is
\* what the program uses.
OnlyReachableSurvive == pc = "retry" => DOMAIN obj = Reachable

\* gc_alloc does not return NULL: its callers write to the result unchecked.
AllocSucceeds == pc # "crash"

\* LISP2 compaction slides objects down: the memmove of one object spares
\* the live ones that are still to move.
SlidingSparesTheRest ==
  [][pc = "relocate" /\ pc' = "relocate" =>
       \A h \in Marked : h > iter => h \in DOMAIN obj' /\ obj'[h] = obj[h]]_vars

\* A collection comes to an end.
GcTerminates == (pc = "alloc") ~> ~ (pc = "alloc" \/ pc = "retry" \/ Collecting)
=============================================================================
