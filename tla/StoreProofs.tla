----------------------------- MODULE StoreProofs -----------------------------
(***************************************************************************)
(* Runtime implements LamaStore, for every value of the constants: a       *)
(* program cannot tell that its values have addresses and that a collector *)
(* moves them.                                                             *)
(***************************************************************************)
EXTENDS ViewInvariant, CollectorProofs

-----------------------------------------------------------------------------
(* Cells in reach.                                                          *)

\* What is in reach is in every set that has the named cells and is closed.
LEMMA LiveLeast ==
  ASSUME NEW all, NEW s, NEW S \in SUBSET DOMAIN all, Values!Closed(all, s, S)
  PROVE  Values!Live(all, s) \subseteq S
BY DEF Values!Live

\* Where all references resolve the cells in reach are such a set.
LEMMA LiveClosed ==
  ASSUME NEW all, NEW s, Values!Closed(all, s, DOMAIN all)
  PROVE  /\ Values!Live(all, s) \subseteq DOMAIN all
         /\ Values!Closed(all, s, Values!Live(all, s))
<1> DEFINE L == Values!Live(all, s)
           from(c) == Values!Named(Values!Entries(all[c].contents))
           start == Values!Named(Values!Entries(s))
<1> HIDE DEF from, start
<1>1. \A S : Values!Closed(all, s, S) <=> start \subseteq S /\ \A c \in S : from(c) \subseteq S
  BY DEF Values!Closed, from, start
<1>2. \A c : c \in L <=> /\ c \in DOMAIN all
                         /\ \A S \in SUBSET DOMAIN all : Values!Closed(all, s, S) => c \in S
  <2>1. ASSUME NEW c \in DOMAIN all, NEW S \in SUBSET DOMAIN all
        PROVE  c \notin S <=> S \in SUBSET (DOMAIN all \ {c})
    OBVIOUS
  <2>2. QED
    BY <2>1 DEF Values!Live
<1> HIDE DEF L
<1>3. start \subseteq L
  BY <1>1, <1>2
<1>4. ASSUME NEW c \in L
      PROVE  from(c) \subseteq L
  BY <1>1, <1>2
<1>5. QED
  BY <1>1, <1>2, <1>3, <1>4 DEF L

\* Cells out of reach do not matter.
LEMMA ReachOfPart ==
  ASSUME NEW all, NEW part, NEW s, DOMAIN part \subseteq DOMAIN all,
         \A c \in DOMAIN part : part[c] = all[c], Values!Closed(all, s, DOMAIN part)
  PROVE  Values!InReach(part, s) = Values!InReach(all, s)
<1> DEFINE D == DOMAIN part
           from(c) == Values!Named(Values!Entries(all[c].contents))
           start == Values!Named(Values!Entries(s))
<1> HIDE DEF from, start
<1>1. \A S : Values!Closed(all, s, S) <=> start \subseteq S /\ \A c \in S : from(c) \subseteq S
  BY DEF Values!Closed, from, start
<1>2. \A S \in SUBSET D : Values!Closed(part, s, S) <=> Values!Closed(all, s, S)
  BY DEF Values!Closed
<1>3. Values!Live(all, s) \subseteq D
  BY LiveLeast
<1>4. Values!Live(part, s) = Values!Live(all, s)
  <2>1. ASSUME NEW c \in Values!Live(part, s), NEW S \in SUBSET (DOMAIN all \ {c}),
               Values!Closed(all, s, S)
        PROVE  FALSE
    <3>1. S \cap D \in SUBSET (D \ {c})
      OBVIOUS
    <3>2. Values!Closed(all, s, S \cap D)
      BY <1>1, <2>1
    <3>3. Values!Closed(part, s, S \cap D)
      BY <1>2, <3>1, <3>2
    <3>4. QED
      BY <2>1, <3>1, <3>3 DEF Values!Live
  <2>2. Values!Live(part, s) \subseteq Values!Live(all, s)
    BY <2>1 DEF Values!Live
  <2>3. ASSUME NEW c \in Values!Live(all, s), NEW S \in SUBSET (D \ {c}),
               Values!Closed(part, s, S)
        PROVE  FALSE
    <3>1. S \in SUBSET D /\ S \in SUBSET (DOMAIN all \ {c})
      OBVIOUS
    <3>2. Values!Closed(all, s, S)
      BY <1>2, <2>3, <3>1
    <3>3. QED
      BY <2>3, <3>1, <3>2 DEF Values!Live
  <2>4. Values!Live(all, s) \subseteq Values!Live(part, s)
    BY <1>3, <2>3 DEF Values!Live
  <2>5. QED
    BY <2>2, <2>4
<1>5. \A c \in Values!Live(all, s) : part[c] = all[c]
  BY <1>3
<1>6. QED
  BY <1>4, <1>5 DEF Values!InReach

-----------------------------------------------------------------------------
(* The view is read off the memory to come.                                 *)

ObjectsAt(m, w) == {c \in m : c.at = Header(w)}
ValueIn(m, w) ==
  IF UNBOXED(w) \/ ObjectsAt(m, w) = {} THEN Plain(w)
  ELSE Values!ref((CHOOSE c \in ObjectsAt(m, w) : TRUE).id)
CellIn(m, c) ==
  [type |-> c.type,
   contents |-> [i \in DOMAIN c.contents |->
                   IF i \in Fields(c) THEN ValueIn(m, c.contents[i])
                   ELSE Plain(c.contents[i])]]
AllIn(m) == [n \in {c.id : c \in m} |-> CellIn(m, CHOOSE c \in m : c.id = n)]

\* Where an address points is the same in both.
LEMMA ValueOfMemory ==
  Apart(Memory) => \A w : Value(w) = ValueIn(Memory, w)
<1> SUFFICES ASSUME Apart(Memory), NEW w
             PROVE  Value(w) = ValueIn(Memory, w)
  OBVIOUS
<1>1. Holders(w) = {h \in Live : Place(h) = Header(w)}
  BY DEF Holders, Live, Place, Compacting
<1>2. \A h : Image(h).at = Place(h) /\ Image(h).id = obj[h].id
  BY ImageFields
<1>3. \A c : c \in Memory <=> \E h \in Live : c = Image(h)
  BY DEF Memory
<1>4. ObjectsAt(Memory, w) = {} <=> Holders(w) = {}
  BY <1>1, <1>2, <1>3 DEF ObjectsAt
<1>5. CASE Holders(w) # {}
  <2> DEFINE h == CHOOSE x \in Holders(w) : TRUE
             c == CHOOSE x \in ObjectsAt(Memory, w) : TRUE
  <2>1. h \in Holders(w) /\ c \in ObjectsAt(Memory, w)
    BY <1>4, <1>5
  <2> HIDE DEF h, c
  <2>2. c \in Memory /\ c.at = Header(w) /\ Image(h) \in Memory /\ Image(h).at = Header(w)
    BY <1>1, <1>2, <1>3, <2>1 DEF ObjectsAt
  <2>3. c = Image(h)
    BY <2>2 DEF Apart
  <2>4. c.id = obj[h].id
    BY <1>2, <2>3
  <2>5. QED
    BY <1>4, <1>5, <2>4 DEF Value, ValueIn, h, c
<1>6. QED
  BY <1>4, <1>5 DEF Value, ValueIn

\* And so is every cell.
LEMMA CellsOfMemory ==
  Apart(Memory) => AllCells = AllIn(Memory)
<1> SUFFICES ASSUME Apart(Memory)
             PROVE  AllCells = AllIn(Memory)
  OBVIOUS
<1>1. \A h : /\ Image(h).id = obj[h].id /\ Image(h).type = obj[h].type
             /\ Image(h).contents = ComingContents(h) /\ Fields(Image(h)) = Fields(obj[h])
  BY ImageFields
<1>2. \A c : c \in Memory <=> \E h \in Live : c = Image(h)
  BY DEF Memory
<1>3. \A h \in Live : CellOf(h) = CellIn(Memory, Image(h))
  BY <1>1, ValueOfMemory DEF CellOf, CellIn
<1>4. {obj[h].id : h \in Live} = {c.id : c \in Memory}
  BY <1>1, <1>2
<1>5. ASSUME NEW n \in {obj[h].id : h \in Live}
      PROVE  CellOf(CHOOSE h \in Live : obj[h].id = n)
               = CellIn(Memory, CHOOSE c \in Memory : c.id = n)
  <2> DEFINE h == CHOOSE x \in Live : obj[x].id = n
             c == CHOOSE x \in Memory : x.id = n
  <2>1. h \in Live /\ obj[h].id = n
    BY <1>5
  <2>2. c \in Memory /\ c.id = n
    BY <1>4, <1>5
  <2> HIDE DEF h, c
  <2>3. c = Image(h)
    BY <1>1, <1>2, <2>1, <2>2 DEF Apart
  <2>4. CellOf(h) = CellIn(Memory, c)
    BY <1>3, <2>1, <2>3
  <2>5. QED
    BY <2>4 DEF h, c
<1>6. QED
  BY <1>4, <1>5 DEF AllCells, AllIn

\* So a step that keeps the memory to come is not seen.
LEMMA UnseenView ==
  ASSUME Apart(Memory), Unseen
  PROVE  /\ \A w : Value(w)' = Value(w)
         /\ Visible' = Visible /\ AllCells' = AllCells /\ CellsInReach' = CellsInReach
         /\ op.fn = "LcloneString" => Meaning(cvar)' = Meaning(cvar)
<1>1. Memory' = Memory /\ Apart(Memory')
  BY DEF Unseen
<1>2. Apart(Memory)'
  BY <1>1 DEF Apart
<1>3. \A w : Value(w)' = Value(w)
  <2>1. (Apart(Memory) => \A w : Value(w) = ValueIn(Memory, w))'
    BY ValueOfMemory, PTL
  <2>2. QED
    BY <1>1, <1>2, <2>1, ValueOfMemory DEF ValueIn, ObjectsAt
<1>4. AllCells' = AllCells
  <2>1. (Apart(Memory) => AllCells = AllIn(Memory))'
    BY CellsOfMemory, PTL
  <2>2. AllIn(Memory)' = AllIn(Memory)
    BY <1>1 DEF AllIn, CellIn, ValueIn, ObjectsAt
  <2>3. QED
    BY <1>2, <2>1, <2>2, CellsOfMemory
<1>5. Visible' = Visible
  BY <1>3 DEF Visible, Scratch, Unseen, SP
<1>6. CellsInReach' = CellsInReach
  BY <1>4, <1>5 DEF CellsInReach, Values!InReach, Values!Live, Values!Closed
<1>7. op.fn = "LcloneString" => Meaning(cvar)' = Meaning(cvar)
  BY <1>3 DEF Unseen, Meaning
<1>8. QED
  BY <1>3, <1>4, <1>5, <1>6, <1>7

\* What a word means: an address the object at it, any other word itself.
WordsMean ==
  \A w \in Word :
    /\ ~ IsAddress(w) => Value(w) = Plain(w)
    /\ \A c \in Memory : IsAddress(w) /\ c.at = Header(w) => Value(w) = Values!ref(c.id)

LEMMA ValueFacts == IInv /\ CInv /\ NamesApart /\ Alive => WordsMean
<1> SUFFICES ASSUME IInv, CInv, NamesApart, Alive, NEW w \in Word
             PROVE  /\ ~ IsAddress(w) => Value(w) = Plain(w)
                    /\ \A c \in Memory :
                         IsAddress(w) /\ c.at = Header(w) => Value(w) = Values!ref(c.id)
  BY DEF WordsMean
<1>1. Apart(Memory) /\ Value(w) = ValueIn(Memory, w)
  BY ValueOfMemory DEF NamesApart
<1>2. /\ heap.begin \in Bases /\ heap.begin \in Int
      /\ \A c \in Memory : heap.begin <= c.at
  BY BasesAssumption DEF CInv, HeapSound, Sound, Tiled
<1>3. ASSUME w \in Raw
      PROVE  ObjectsAt(Memory, w) = {}
  <2>1. w \in Int /\ w < heap.begin
    BY <1>2, <1>3, PlacesAssumption, CodeAssumption DEF Raw, Foreign
  <2>2. Header(w) \in Int /\ Header(w) < heap.begin
    BY <1>2, <2>1, HeaderContent
  <2>3. ASSUME NEW c \in Memory, c.at = Header(w)
        PROVE  FALSE
    BY <1>2, <2>2, <2>3
  <2>4. QED
    BY <2>3 DEF ObjectsAt
<1>4. ~ IsAddress(w) => Value(w) = Plain(w)
  BY <1>1, <1>3 DEF IsAddress, ValueIn
<1>5. ASSUME NEW c \in Memory, IsAddress(w), c.at = Header(w)
      PROVE  Value(w) = Values!ref(c.id)
  <2>1. ObjectsAt(Memory, w) = {c}
    BY <1>1, <1>5 DEF ObjectsAt, Apart
  <2>2. QED
    BY <1>1, <1>5, <2>1 DEF ValueIn, IsAddress
<1>6. QED
  BY <1>4, <1>5

\* The cell of an object has its name.
LEMMA CellFacts ==
  Apart(Memory) =>
    /\ DOMAIN AllCells = {c.id : c \in Memory}
    /\ \A c \in Memory : AllCells[c.id] = CellIn(Memory, c)
<1> SUFFICES ASSUME Apart(Memory)
             PROVE  /\ DOMAIN AllCells = {c.id : c \in Memory}
                    /\ \A c \in Memory : AllCells[c.id] = CellIn(Memory, c)
  OBVIOUS
<1>1. AllCells = AllIn(Memory)
  BY CellsOfMemory
<1>2. ASSUME NEW c \in Memory
      PROVE  AllIn(Memory)[c.id] = CellIn(Memory, c)
  <2>1. (CHOOSE d \in Memory : d.id = c.id) = c
    BY DEF Apart
  <2>2. QED
    BY <2>1 DEF AllIn
<1>3. QED
  BY <1>1, <1>2 DEF AllIn

-----------------------------------------------------------------------------
(* The collector is not seen.                                               *)

\* alloc, mark_phase and compute_locations leave the values where they are.
LEMMA InPlaceUnseen ==
  ASSUME IInv, CInv, AllocStep \/ MarkStep \/ Locate \/ MapFails
  PROVE  Unseen /\ Count' = Count
<1>1. /\ ~ Compacting /\ ~ Compacting'
      /\ UNCHANGED <<stack, cvar, op>>
  BY DEF AllocStep, AllocOnHeap, StartGc, Retry, MarkStep, SkipRoot, MarkRoot, Dequeue,
         ScanField, FieldsDone, MarkReturn, MarkDone, Locate, MapFails, Compacting, caller
<1>2. Objects(obj)
  BY ObjType DEF IInv
<1>3. SameValues(obj, obj')
  <2>1. CASE UNCHANGED obj
    BY <2>1, SameSame
  <2>2. CASE MarkRoot
    <3>1. root \in 1..NRoots
      BY <2>2 DEF MarkRoot, IInv, TypeOK, GcTypeOK, Scanning
    <3>2. RootValue(root) \in Int
      BY <2>2, <3>1, RootWord DEF MarkRoot, Unmarked, is_valid_heap_pointer, UNBOXED, Word
    <3>3. QED
      BY <1>2, <2>2, <3>2, EnqueuedSame DEF MarkRoot
  <2>3. CASE Dequeue
    BY <1>2, <2>3, MarkSame DEF Dequeue
  <2>4. CASE ScanField
    <3>1. PICK i \in todo : IF Enqueueable(At(cur).contents[i])
                            THEN obj' = Enqueued(obj, tail, At(cur).contents[i])
                            ELSE UNCHANGED obj
      BY <2>4 DEF ScanField
    <3>2. At(cur).contents[i] \in Int
      BY <2>4, <3>1, ScanFacts DEF ScanField
    <3>3. QED
      BY <1>2, <2>1, <3>1, <3>2, EnqueuedSame
  <2>5. CASE Locate
    BY <1>2, <2>1, <2>5, FwdSame DEF Locate
  <2>6. QED
    BY <2>1, <2>2, <2>3, <2>4, <2>5
       DEF AllocStep, AllocOnHeap, StartGc, Retry, MarkStep, SkipRoot,
           FieldsDone, MarkReturn, MarkDone, MapFails, store
<1>4. Memory' = Memory
  BY <1>1, <1>3, MemoryKept
<1>5. Unseen
  BY <1>1, <1>4 DEF Unseen, Coming, Compacting, SP
<1>6. Count' = Count
  <2>1. ids \in Nat
    BY DEF IInv, TypeOK, GcTypeOK
  <2>2. QED
    BY <2>1 DEF AllocStep, AllocOnHeap, StartGc, Retry, MarkStep, SkipRoot, MarkRoot, Dequeue,
         ScanField, FieldsDone, MarkReturn, MarkDone, Locate, MapFails, Count
<1>7. QED
  BY <1>5, <1>6

\* The objects mmap's chunk will hold have the names and members they had.
LEMMA MappedMemory ==
  ASSUME IInv, CInv, NamesApart, NEW b, NEW s, MappedTo(b, s)
  PROVE  /\ Memory = {Image(h) : h \in DOMAIN obj}
         /\ Memory' = {Image(h + s)' : h \in Marked}
         /\ \A g, h \in DOMAIN obj : obj[g].id = obj[h].id => g = h
         /\ NamesApart' /\ Alive' /\ Alive /\ Count' = Count
<1>1. ~ Compacting /\ pc = "locate" /\ pc' = "update" /\ Alive /\ Alive'
  BY DEF MappedTo, Compacting, Alive
<1>2. Memory = {Image(h) : h \in DOMAIN obj}
  BY <1>1, ImageHere DEF Memory
<1>3. Marked' = {h + s : h \in Marked} /\ Marked \subseteq DOMAIN obj
  <2>1. Marked \subseteq DOMAIN obj
    BY DEF Marked
  <2>2. QED
    BY <2>1, MappedObjects
<1>4. Memory' = {Image(h + s)' : h \in Marked}
  BY <1>1, <1>3 DEF Memory, Live
<1>5. \A h \in Marked : Image(h + s)'.at = obj[h].fwd + s /\ Image(h + s)'.id = obj[h].id
  BY MappedImage
<1>6. \A h \in DOMAIN obj : Image(h) \in Memory /\ Image(h).id = obj[h].id /\ Image(h).at = h
  BY <1>1, <1>2, ImageHere, ImageFields
<1>7. \A g, h \in DOMAIN obj : obj[g].id = obj[h].id => g = h
  BY <1>6 DEF NamesApart, Apart
<1>8. \A g, h \in Marked : obj[g].fwd + s = obj[h].fwd + s => g = h
  <2>1. /\ s \in Int /\ Marked \subseteq Int
        /\ \A h \in Marked :
              /\ obj[h].fwd \in Int /\ Words(obj[h]) \in Nat /\ Words(obj[h]) >= 2
              /\ \A g \in Marked : g > h => obj[g].fwd >= obj[h].fwd + Words(obj[h])
    BY <1>1, <1>3, AllPassed, MappedObjects, MarkFacts DEF MappedTo
  <2>2. QED
    BY <2>1
<1>9. Apart(Memory')
  BY <1>3, <1>4, <1>5, <1>7, <1>8 DEF Apart
<1>10. Count' = Count
  <2>1. ids' = ids
    BY <1>1 DEF MappedTo
  <2>2. QED
    BY <1>1, <2>1 DEF Count
<1>11. NamesApart'
  <2>1. \A c \in Memory' : c.id \in 1..Count
    BY <1>3, <1>4, <1>5, <1>6 DEF NamesApart
  <2>2. QED
    BY <1>9, <1>10, <2>1 DEF NamesApart, Apart
<1>12. QED
  BY <1>1, <1>2, <1>4, <1>7, <1>10, <1>11

NamesOf(L) == {obj[h].id : h \in L}

\* Only addresses are references.
LEMMA PlainNoRef == \A w : ~ Values!IsRef(Plain(w))
BY DEF Plain, Values!imm, Values!raw, Values!IsRef

\* Outside of a compaction a word means the object at its address.
LEMMA ValueHere ==
  ASSUME IInv, CInv, NamesApart, Alive, ~ Compacting, NEW w \in Word
  PROVE  /\ ~ IsAddress(w) => Value(w) = Plain(w)
         /\ IsAddress(w) /\ Header(w) \in DOMAIN obj =>
              Value(w) = Values!ref(obj[Header(w)].id)
<1>1. \A h \in DOMAIN obj : Image(h) \in Memory /\ Image(h).id = obj[h].id /\ Image(h).at = h
  BY ImageHere, ImageFields DEF Memory
<1>2. QED
  BY <1>1, ValueFacts DEF WordsMean

\* A word names an object it may refer to.
LEMMA ValueNamed ==
  ASSUME IInv, CInv, NamesApart, Alive, ~ Compacting, NEW L \in SUBSET DOMAIN obj,
         NEW w \in Word, Clean(w, L), Values!IsRef(Value(w))
  PROVE  Value(w)[2] \in NamesOf(L)
<1>1. IsAddress(w)
  BY ValueHere, PlainNoRef
<1>2. Header(w) \in L
  BY <1>1 DEF Clean
<1>3. Value(w) = Values!ref(obj[Header(w)].id)
  BY <1>1, <1>2, ValueHere
<1>4. QED
  BY <1>2, <1>3 DEF NamesOf, Values!ref

\* The members of an object as the program sees them.
Seen(o) == [i \in DOMAIN o.contents |->
              IF i \in Fields(o) THEN Value(o.contents[i]) ELSE Plain(o.contents[i])]

\* The cell of an object that lies where it is.
LEMMA CellHere ==
  ASSUME IInv, CInv, NamesApart, Alive, ~ Compacting
  PROVE  /\ DOMAIN AllCells = NamesOf(DOMAIN obj)
         /\ \A h \in DOMAIN obj :
              AllCells[obj[h].id] = [type |-> obj[h].type, contents |-> Seen(obj[h])]
<1>1. /\ Memory = {Image(h) : h \in DOMAIN obj}
      /\ \A h \in DOMAIN obj :
           /\ Image(h).id = obj[h].id /\ Image(h).type = obj[h].type
           /\ Image(h).contents = obj[h].contents /\ Fields(Image(h)) = Fields(obj[h])
  BY ImageHere, ImageFields DEF Memory
<1>2. Apart(Memory)
  BY DEF NamesApart
<1>3. \A w : Value(w) = ValueIn(Memory, w)
  BY <1>2, ValueOfMemory
<1>4. \A h \in DOMAIN obj : AllCells[obj[h].id] = CellIn(Memory, Image(h))
  BY <1>1, <1>2, CellFacts
<1>5. DOMAIN AllCells = NamesOf(DOMAIN obj)
  BY <1>1, <1>2, CellFacts DEF NamesOf
<1>6. ASSUME NEW h \in DOMAIN obj
      PROVE  CellIn(Memory, Image(h)) = [type |-> obj[h].type, contents |-> Seen(obj[h])]
  <2> DEFINE c == Image(h)
             m == Memory
  <2>1. /\ c.type = obj[h].type /\ c.contents = obj[h].contents
        /\ Fields(c) = Fields(obj[h])
    BY <1>1
  <2> HIDE DEF c, m
  <2>2. [i \in DOMAIN c.contents |->
           IF i \in Fields(c) THEN ValueIn(m, c.contents[i]) ELSE Plain(c.contents[i])]
          = Seen(obj[h])
    BY <1>3, <2>1 DEF Seen, m
  <2>3. CellIn(m, c) = [type |-> c.type, contents |-> Seen(obj[h])]
    BY <2>2 DEF CellIn
  <2>4. QED
    BY <2>1, <2>3 DEF c, m
<1>7. QED
  BY <1>4, <1>5, <1>6

\* What objects refer to, their cells refer to.
LEMMA NamesClosed ==
  ASSUME IInv, CInv, NamesApart, Alive, ~ Compacting, NEW L \in SUBSET DOMAIN obj,
         \A h \in L : \A v \in FieldValues(obj[h]) : v \in Word /\ Clean(v, L),
         NEW s, \A x \in Values!Entries(s) : Values!IsRef(x) => x[2] \in NamesOf(L)
  PROVE  Values!Closed(AllCells, s, NamesOf(L))
<1>1. ASSUME NEW h \in L, NEW x \in Values!Entries(AllCells[obj[h].id].contents),
             Values!IsRef(x)
      PROVE  x[2] \in NamesOf(L)
  <2>1. PICK i \in DOMAIN obj[h].contents :
          x = IF i \in Fields(obj[h]) THEN Value(obj[h].contents[i])
              ELSE Plain(obj[h].contents[i])
    <3>1. AllCells[obj[h].id].contents = Seen(obj[h])
      <4>1. h \in DOMAIN obj
        OBVIOUS
      <4>2. AllCells[obj[h].id] = [type |-> obj[h].type, contents |-> Seen(obj[h])]
        BY <4>1, CellHere
      <4>3. QED
        BY <4>2
    <3>2. QED
      BY <1>1, <3>1 DEF Values!Entries, Seen
  <2>2. i \in Fields(obj[h]) /\ x = Value(obj[h].contents[i])
    BY <1>1, <2>1, PlainNoRef
  <2>3. obj[h].contents[i] \in Word /\ Clean(obj[h].contents[i], L)
    BY <2>2 DEF FieldValues
  <2>4. QED
    BY <1>1, <2>2, <2>3, ValueNamed
<1>2. \A c \in NamesOf(L) : Values!Named(Values!Entries(AllCells[c].contents)) \subseteq NamesOf(L)
  BY <1>1 DEF NamesOf, Values!Named
<1>3. Values!Named(Values!Entries(s)) \subseteq NamesOf(L)
  BY DEF Values!Named
<1>4. QED
  BY <1>2, <1>3 DEF Values!Closed

\* A reference moves with its object.
LEMMA MappedValue ==
  ASSUME IInv, CInv, NamesApart, IInv', CInv', NEW b, NEW s, MappedTo(b, s),
         NEW v \in Word, Clean(v, Marked)
  PROVE  \A u : u = Fix(v)' => Value(u)' = Value(v)
<1> SUFFICES ASSUME NEW u, u = Fix(v)'
             PROVE  Value(u)' = Value(v)
  OBVIOUS
<1>1. NamesApart' /\ Alive' /\ Alive /\ ~ Compacting
  BY MappedMemory DEF MappedTo, Compacting
<1>2. u \in Word =>
        /\ ~ IsAddress(u) => Value(u)' = Plain(u)
        /\ \A c \in Memory' : IsAddress(u) /\ c.at = Header(u) => Value(u)' = Values!ref(c.id)
  <2>1. (IInv /\ CInv /\ NamesApart /\ Alive => WordsMean)'
    BY ValueFacts, PTL
  <2>2. QED
    BY <1>1, <2>1 DEF WordsMean
<1>3. CASE ~ IsAddress(v)
  <2>1. u = v
    BY <1>3, FixedWord
  <2>2. Value(v) = Plain(v)
    BY <1>1, <1>3, ValueHere
  <2>3. QED
    BY <1>2, <1>3, <2>1, <2>2
<1>4. CASE IsAddress(v)
  <2>1. Header(v) \in Marked /\ u = Content(obj[Header(v)].fwd + s)
    BY <1>4, FixedWord
  <2> DEFINE h == Header(v)
  <2>2. Image(h + s)' \in Memory' /\ Image(h + s)'.at = obj[h].fwd + s
        /\ Image(h + s)'.id = obj[h].id
    BY <2>1, MappedImage
  <2>3. obj[h].fwd \in Int /\ obj[h].fwd >= heap.begin /\ heap.begin \in Int
    BY <2>1, AllPassed DEF MappedTo
  <2>4. s \in Int /\ b \in Int /\ b = heap.begin + s /\ b \in Bases
    <3>1. s \in Int /\ b \in Int /\ b = heap.begin + s
      BY MappedObjects
    <3>2. QED
      BY <3>1 DEF MappedTo
  <2>5. u \in Int /\ u >= b /\ Header(u) = obj[h].fwd + s
    BY <2>1, <2>3, <2>4, HeaderContent
  <2>6. IsAddress(u) /\ u \in Word
    BY <2>4, <2>5, AddressAbove DEF Word
  <2>7. Value(u)' = Values!ref(obj[h].id)
    BY <1>2, <2>2, <2>5, <2>6
  <2>8. Header(v) \in DOMAIN obj
    BY <2>1 DEF Marked
  <2>9. QED
    BY <1>1, <1>4, <2>7, <2>8, ValueHere
<1>5. QED
  BY <1>3, <1>4

\* The copy has the live objects only, with the members they had.
LEMMA MappedCells ==
  ASSUME IInv, CInv, NamesApart, IInv', CInv', NEW b, NEW s, MappedTo(b, s)
  PROVE  AllCells' = [n \in NamesOf(Marked) |-> AllCells[n]]
<1>1. NamesApart' /\ Memory' = {Image(h + s)' : h \in Marked} /\ Alive /\ ~ Compacting
      /\ Apart(Memory')
  BY MappedMemory DEF MappedTo, Compacting, NamesApart
<1>2. Apart(Memory)'
  BY <1>1 DEF Apart
<1>3. Within(obj, Marked, Roots) /\ Marked \subseteq DOMAIN obj
  BY MappedWithin DEF MappedTo, Marked
<1>4. \A w : Value(w)' = ValueIn(Memory', w)
  <2>1. (Apart(Memory) => \A w : Value(w) = ValueIn(Memory, w))'
    BY ValueOfMemory, PTL
  <2>2. QED
    BY <1>2, <2>1 DEF ValueIn, ObjectsAt
<1>5. ASSUME NEW h \in Marked
      PROVE  CellIn(Memory', Image(h + s)') = AllCells[obj[h].id]
  <2> DEFINE c == Image(h + s)'
             m == Memory'
             o == obj[h]
  <2>1. /\ c.type = o.type /\ c.len = o.len /\ DOMAIN c.contents = DOMAIN o.contents
        /\ \A i \in DOMAIN o.contents :
             c.contents[i] = IF i \in Fields(o) THEN MapFix[o.contents[i]] ELSE o.contents[i]
    BY MappedImage
  <2>2. \A i \in Fields(o) : o.contents[i] \in Word /\ Clean(o.contents[i], Marked)
    BY <1>3 DEF Within, FieldValues
  <2>3. ASSUME NEW v \in Word, Clean(v, Marked)
        PROVE  ValueIn(m, MapFix[v]) = Value(v)
    <3>1. PICK u : u = Fix(v)'
      OBVIOUS
    <3>2. Value(u)' = Value(v)
      BY <2>3, <3>1, MappedValue
    <3>3. MapFix[v] = u
      BY <3>1 DEF MapFix
    <3>4. QED
      BY <1>4, <3>2, <3>3
  <2>4. AllCells[o.id] = [type |-> o.type, contents |-> Seen(o)]
    BY <1>1, <1>3, CellHere
  <2> HIDE DEF c, m, o
  <2>5. Fields(c) = Fields(o)
    BY <2>1 DEF Fields
  <2>6. [i \in DOMAIN c.contents |->
           IF i \in Fields(c) THEN ValueIn(m, c.contents[i]) ELSE Plain(c.contents[i])]
          = Seen(o)
    BY <2>1, <2>2, <2>3, <2>5 DEF Seen
  <2>7. CellIn(m, c) = [type |-> c.type, contents |-> Seen(o)]
    BY <2>6 DEF CellIn
  <2>8. QED
    BY <2>1, <2>4, <2>7 DEF c, m, o
<1>6. /\ DOMAIN AllCells' = {c.id : c \in Memory'}
      /\ \A c \in Memory' : AllCells'[c.id] = CellIn(Memory', c)
  <2>1. (Apart(Memory) =>
           /\ DOMAIN AllCells = {c.id : c \in Memory}
           /\ \A c \in Memory : AllCells[c.id] = CellIn(Memory, c))'
    BY CellFacts, PTL
  <2>2. QED
    BY <1>2, <2>1 DEF CellIn, ValueIn, ObjectsAt
<1>7. \A h \in Marked : Image(h + s)' \in Memory' /\ Image(h + s)'.id = obj[h].id
  BY MappedImage
<1>8. DOMAIN AllCells' = NamesOf(Marked)
  BY <1>1, <1>6, <1>7 DEF NamesOf
<1>9. \A n \in NamesOf(Marked) : AllCells'[n] = AllCells[n]
  BY <1>5, <1>6, <1>7 DEF NamesOf
<1>10. AllCells' = [n \in DOMAIN AllCells' |-> AllCells'[n]]
  BY DEF AllCells
<1>11. QED
  BY <1>8, <1>9, <1>10

\* mmap and memcpy are not seen: the program has the live objects in the new
\* chunk, and its references with them.
LEMMA MappedView ==
  ASSUME IInv, CInv, NamesApart, IInv', CInv', NEW b, NEW s, MappedTo(b, s)
  PROVE  /\ Visible' = Visible /\ CellsInReach' = CellsInReach
         /\ op.fn = "LcloneString" => Meaning(cvar)' = Meaning(cvar)
         /\ SP >= 1 /\ Coming(Arg(0)) \in Code => Coming(Arg(0))' \in Code
<1>1. /\ pc = "locate" /\ pc' = "update" /\ stack' = stack /\ cvar' = cvar /\ op' = op
      /\ Alive /\ ~ Compacting /\ extra = RootsOf(op, SP)
      /\ stack \in Seq(Word) /\ SP \in Nat /\ SP = Len(stack) /\ SP' = SP
  BY DEF MappedTo, Alive, Compacting, IInv, TypeOK, GcTypeOK, ExtraRootsBalanced, SP
<1>2. \A v : Coming(v) = v /\ Coming(v)' = Fix(v)'
  BY <1>1 DEF Coming
<1>3. Within(obj, Marked, Roots) /\ Marked \subseteq DOMAIN obj
  BY <1>1, MappedWithin DEF Marked
<1>4. ASSUME NEW v \in Roots
      PROVE  /\ v \in Word /\ Clean(v, Marked)
             /\ \A u : u = Fix(v)' => Value(u)' = Value(v)
  <2>1. v \in Word /\ Clean(v, Marked)
    BY <1>3 DEF Within
  <2>2. QED
    BY <2>1, MappedValue
<1>5. \A k \in 1..SP : stack[k] \in Roots
  BY <1>1 DEF Roots
<1>6. ASSUME NEW k \in 1..SP
      PROVE  Value(Coming(stack[k]))' = Value(Coming(stack[k]))
  <2>1. PICK v : v = stack[k]
    OBVIOUS
  <2>2. PICK u : u = Fix(v)'
    OBVIOUS
  <2>3. Value(u)' = Value(v)
    BY <1>4, <1>5, <2>1, <2>2
  <2>4. Coming(stack[k])' = u
    <3>1. Coming(v)' = u
      BY <1>2, <2>2
    <3>2. stack'[k] = v
      BY <1>1, <2>1
    <3>3. QED
      BY <3>1, <3>2 DEF Coming
  <2>5. QED
    BY <1>2, <2>1, <2>3, <2>4
<1>7. Visible' = Visible
  BY <1>1, <1>6 DEF Visible, Scratch, SP
<1>8. CellsInReach' = CellsInReach
  <2>1. \A h \in Marked : \A v \in FieldValues(obj[h]) : v \in Word /\ Clean(v, Marked)
    BY <1>3 DEF Within
  <2>2. ASSUME NEW x \in Values!Entries(Visible), Values!IsRef(x)
        PROVE  x[2] \in NamesOf(Marked)
    <3>1. PICK k \in 1..SP : x = Value(stack[k])
      <4>1. PICK k \in DOMAIN Visible : x = Visible[k]
        BY DEF Values!Entries
      <4>2. k \in 1..(SP - Scratch) /\ Visible[k] = Value(Coming(stack[k]))
        BY <4>1 DEF Visible, SP
      <4>3. Scratch \in 0..1
        BY DEF Scratch
      <4>4. k \in 1..SP
        BY <1>1, <4>2, <4>3
      <4>5. QED
        BY <1>2, <4>1, <4>2, <4>4
    <3>2. stack[k] \in Word /\ Clean(stack[k], Marked)
      BY <1>4, <1>5
    <3>3. QED
      BY <1>1, <1>3, <2>2, <3>1, <3>2, ValueNamed
  <2>3. Values!Closed(AllCells, Visible, NamesOf(Marked))
    BY <1>1, <1>3, <2>1, <2>2, NamesClosed
  <2>4. AllCells' = [n \in NamesOf(Marked) |-> AllCells[n]]
    BY MappedCells
  <2>5. NamesOf(Marked) \subseteq DOMAIN AllCells
    BY <1>1, <1>3, CellHere DEF NamesOf
  <2>6. Values!InReach(AllCells', Visible) = Values!InReach(AllCells, Visible)
    <3> DEFINE part == [n \in NamesOf(Marked) |-> AllCells[n]]
    <3>1. DOMAIN part = NamesOf(Marked) /\ \A c \in DOMAIN part : part[c] = AllCells[c]
      OBVIOUS
    <3> HIDE DEF part
    <3>2. Values!InReach(part, Visible) = Values!InReach(AllCells, Visible)
      BY <2>3, <2>5, <3>1, ReachOfPart
    <3>3. QED
      BY <2>4, <3>2 DEF part
  <2>7. QED
    BY <1>7, <2>6 DEF CellsInReach, Values!InReach, Values!Live, Values!Closed
<1>9. ASSUME op.fn = "LcloneString"
      PROVE  Meaning(cvar)' = Meaning(cvar)
  <2>1. cvar \in Roots
    <3>1. extra = <<SP, CLocal>>
      BY <1>1, <1>9 DEF RootsOf
    <3>2. 2 \in DOMAIN extra /\ extra[2] = CLocal
      BY <3>1
    <3>3. QED
      BY <3>2 DEF Roots
  <2>2. PICK v : v = cvar
    OBVIOUS
  <2>3. PICK u : u = Fix(v)'
    OBVIOUS
  <2>4. Value(u)' = Value(v)
    BY <1>4, <2>1, <2>2, <2>3
  <2>5. Coming(cvar)' = u
    <3>1. Coming(v)' = u
      BY <1>2, <2>3
    <3>2. cvar' = v
      BY <1>1, <2>2
    <3>3. QED
      BY <3>1, <3>2 DEF Coming
  <2>6. QED
    BY <1>2, <2>2, <2>4, <2>5 DEF Meaning
<1>10. ASSUME SP >= 1, Coming(Arg(0)) \in Code
       PROVE  Coming(Arg(0))' \in Code
  <2>1. PICK v : v = Arg(0)
    OBVIOUS
  <2>2. v = stack[SP] /\ v \in Code /\ v = Arg(0)'
    BY <1>1, <1>2, <1>10, <2>1 DEF Arg, SP
  <2>3. v \in Word /\ Clean(v, Marked)
    <3>1. SP \in 1..SP
      BY <1>1, <1>10
    <3>2. v \in Roots
      BY <1>5, <2>2, <3>1
    <3>3. QED
      BY <1>4, <3>2
  <2>4. ~ IsAddress(v)
    BY <2>2 DEF IsAddress, Raw
  <2>5. Fix(v)' = v
    BY <2>3, <2>4, FixedWord
  <2>6. Coming(v)' = v
    BY <1>2, <2>5
  <2>7. QED
    BY <2>2, <2>6 DEF Coming
<1>11. QED
  BY <1>7, <1>8, <1>9, <1>10

\* No step of alloc or of the collector is seen.
LEMMA CollectorHidden ==
  ASSUME IInv, CInv, NamesApart, IInv', CInv', GcStep
  PROVE  /\ NamesApart' /\ Count' = Count /\ op' = op /\ Alive /\ pc # "mutator"
         /\ Visible' = Visible /\ CellsInReach' = CellsInReach
         /\ op.fn = "LcloneString" => Meaning(cvar)' = Meaning(cvar)
         /\ SP >= 1 /\ Coming(Arg(0)) \in Code => Coming(Arg(0))' \in Code
<1>1. Alive /\ pc # "mutator"
  BY DEF GcStep, AllocStep, AllocOnHeap, StartGc, Retry, MarkStep, SkipRoot, MarkRoot, Dequeue,
         ScanField, FieldsDone, MarkReturn, MarkDone, CompactStep, Locate, MapChunk, MapFails,
         UpdateObject, FixRoots, Relocate, Shrink, Alive
<1>2. Apart(Memory) /\ SP \in Nat
  BY DEF NamesApart, IInv, TypeOK, GcTypeOK, SP
<1>3. CASE Unseen /\ Count' = Count
  <2>1. Memory' = Memory /\ op' = op
    BY <1>3 DEF Unseen
  <2>2. NamesApart'
    BY <1>3, <2>1 DEF NamesApart, Apart
  <2>3. SP >= 1 => Coming(Arg(0))' = Coming(Arg(0))
    BY <1>2, <1>3 DEF Unseen, Arg
  <2>4. QED
    BY <1>1, <1>2, <1>3, <2>1, <2>2, <2>3, UnseenView
<1>4. CASE MapChunk
  <2>1. PICK b \in Bases : MappedTo(b, b - heap.begin)
    BY <1>4, MapChunkIs
  <2>2. PICK s : s = b - heap.begin
    OBVIOUS
  <2>3. MappedTo(b, s)
    BY <2>1, <2>2
  <2>4. NamesApart' /\ Count' = Count
    BY <2>3, MappedMemory
  <2>5. op' = op
    BY <2>3 DEF MappedTo
  <2>6. QED
    BY <1>1, <2>3, <2>4, <2>5, MappedView
<1>5. CASE AllocStep \/ MarkStep \/ Locate \/ MapFails
  BY <1>3, <1>5, InPlaceUnseen
<1>6. CASE UpdateObject \/ FixRoots \/ Relocate \/ Shrink
  <2>1. Unseen
    BY <1>6, UpdateObjectSound, FixRootsSound, RelocateLiveSound, RelocateDeadSound, ShrinkSound
  <2>2. Count' = Count
    BY <1>6 DEF UpdateObject, FixRoots, Relocate, Shrink, Count
  <2>3. QED
    BY <1>3, <2>1, <2>2
<1>7. QED
  BY <1>4, <1>5, <1>6 DEF GcStep, CompactStep

LEMMA CallMeansKept ==
  ASSUME CallMeans, Alive, pc # "mutator", op' = op,
         Visible' = Visible, CellsInReach' = CellsInReach,
         op.fn = "LcloneString" => Meaning(cvar)' = Meaning(cvar),
         op.fn = "Bclosure" /\ Coming(Arg(0)) \in Code => Coming(Arg(0))' \in Code
  PROVE  CallMeans'
BY DEF CallMeans, Operand, TextOf

\* So the program, seen through LamaStore, stands still while it allocates; it
\* ends where mmap fails.
LEMMA CollectorImplements ==
  ASSUME IInv, CInv, VInv, IInv', CInv', GcStep
  PROVE  VInv' /\ [Abstract!Next]_Abstract!vars
<1>1. /\ NamesApart' /\ Count' = Count /\ op' = op /\ Alive /\ pc # "mutator"
      /\ Visible' = Visible /\ CellsInReach' = CellsInReach
      /\ op.fn = "LcloneString" => Meaning(cvar)' = Meaning(cvar)
      /\ SP >= 1 /\ Coming(Arg(0)) \in Code => Coming(Arg(0))' \in Code
  BY CollectorHidden DEF VInv
<1>2. op.fn = "Bclosure" => SP >= 1
  <2>1. OperandsOf(op) <= SP
    BY DEF IInv, ExtraRootsBalanced
  <2>2. op.n \in Nat /\ SP \in Nat
    BY DEF IInv, TypeOK, GcTypeOK, Calls, SP
  <2>3. QED
    BY <2>1, <2>2 DEF OperandsOf
<1>3. CallMeans'
  BY <1>1, <1>2, CallMeansKept DEF VInv
<1>4. Running /\ Running' \in BOOLEAN
  BY <1>1 DEF Running, Alive
<1>5. [Abstract!Next]_Abstract!vars
  <2>1. CASE Running'
    BY <1>1, <1>4, <2>1 DEF Abstract!vars
  <2>2. CASE ~ Running'
    BY <1>1, <1>4, <2>2 DEF Abstract!vars, Abstract!Next, Abstract!Stop
  <2>3. QED
    BY <1>4, <2>1, <2>2
<1>6. QED
  BY <1>1, <1>3, <1>5 DEF VInv

-----------------------------------------------------------------------------
(* What the program sees while no collection is under way.                  *)

Reached == DOMAIN CellsInReach

LEMMA ViewHere ==
  ASSUME IInv, CInv, NamesApart, pc \in {"mutator", "fill"}
  PROVE  /\ Alive /\ ~ Compacting /\ Running
         /\ SP \in Nat /\ Scratch \in 0..1 /\ SP - Scratch \in Nat
         /\ Visible = [k \in 1..(SP - Scratch) |-> Value(stack[k])]
         /\ Len(Visible) = SP - Scratch
         /\ \A k \in 1..SP : stack[k] \in Word /\ Clean(stack[k], DOMAIN obj)
         /\ \A h \in DOMAIN obj : /\ obj[h] \in Object /\ WellSized(obj[h])
                                  /\ \A v \in FieldValues(obj[h]) :
                                       v \in Word /\ Clean(v, DOMAIN obj)
         /\ Values!Closed(AllCells, Visible, DOMAIN AllCells)
<1>1. /\ Alive /\ ~ Compacting /\ Running
      /\ stack \in Seq(Word) /\ SP \in Nat /\ SP = Len(stack)
      /\ op \in Calls /\ OperandsOf(op) <= SP
  BY DEF Alive, Compacting, Running, IInv, TypeOK, GcTypeOK, SP, ExtraRootsBalanced
<1>2. Scratch \in 0..1 /\ SP - Scratch \in Nat
  <2>1. op.n \in Nat
    BY <1>1 DEF Calls
  <2>2. op.fn \in {"Bsexp", "Bclosure"} => SP >= 1
    BY <1>1, <2>1 DEF OperandsOf
  <2>3. QED
    BY <1>1, <2>2 DEF Scratch
<1>3. Objects(obj) /\ \E last : ObjSound(obj, heap.begin, last, StackWords(stack))
  <2>1. CASE pc = "mutator"
    BY <2>1, MutatorFacts
  <2>2. CASE pc = "fill"
    BY <2>2, FillFacts DEF ObjSound
  <2>3. QED
    BY <2>1, <2>2
<1>4. \A k \in 1..SP : stack[k] \in Word /\ Clean(stack[k], DOMAIN obj)
  BY <1>1, <1>3 DEF ObjSound, StackWords
<1>5. ASSUME NEW h \in DOMAIN obj
      PROVE  /\ obj[h] \in Object /\ WellSized(obj[h])
             /\ \A v \in FieldValues(obj[h]) : v \in Word /\ Clean(v, DOMAIN obj)
  <2>1. obj[h] \in Object /\ WellSized(obj[h])
    BY <1>3 DEF Objects
  <2>2. \A i \in Fields(obj[h]) : obj[h].contents[i] \in Word
    BY <2>1, FieldMember, MemberWord
  <2>3. QED
    BY <1>3, <2>1, <2>2 DEF FieldValues, ObjSound
<1>6. Visible = [k \in 1..(SP - Scratch) |-> Value(stack[k])]
  BY <1>1 DEF Visible, Coming, Compacting, SP
<1>7. Len(Visible) = SP - Scratch
  BY <1>2, <1>6
<1>8. Values!Closed(AllCells, Visible, DOMAIN AllCells)
  <2>1. ASSUME NEW x \in Values!Entries(Visible), Values!IsRef(x)
        PROVE  x[2] \in NamesOf(DOMAIN obj)
    <3>1. PICK k \in DOMAIN Visible : x = Visible[k]
      BY DEF Values!Entries
    <3>2. k \in 1..SP /\ x = Value(stack[k])
      BY <1>1, <1>2, <1>6, <3>1
    <3>3. QED
      BY <1>1, <1>4, <2>1, <3>2, ValueNamed
  <2>2. DOMAIN AllCells = NamesOf(DOMAIN obj)
    BY <1>1, CellHere
  <2>3. Values!Closed(AllCells, Visible, NamesOf(DOMAIN obj))
    BY <1>1, <1>5, <2>1, NamesClosed
  <2>4. QED
    BY <2>2, <2>3
<1>9. QED
  BY <1>1, <1>2, <1>4, <1>5, <1>6, <1>7, <1>8

\* The cells in reach, and those their members name.
LEMMA ReachHere ==
  ASSUME IInv, CInv, NamesApart, pc \in {"mutator", "fill"}
  PROVE  /\ Reached \subseteq DOMAIN AllCells /\ Reached = Values!Live(AllCells, Visible)
         /\ \A c \in Reached : CellsInReach[c] = AllCells[c]
         /\ Values!Closed(AllCells, Visible, Reached)
         /\ \A x \in Values!Entries(Visible) : Values!IsRef(x) => x[2] \in Reached
         /\ \A c \in Reached : \A x \in Values!Entries(AllCells[c].contents) :
              Values!IsRef(x) => x[2] \in Reached
<1>1. Values!Closed(AllCells, Visible, DOMAIN AllCells)
  BY ViewHere
<1>2. /\ Reached = Values!Live(AllCells, Visible)
      /\ \A c \in Reached : CellsInReach[c] = AllCells[c]
  BY DEF Reached, CellsInReach, Values!InReach
<1>3. Reached \subseteq DOMAIN AllCells /\ Values!Closed(AllCells, Visible, Reached)
  BY <1>1, <1>2, LiveClosed
<1>4. QED
  BY <1>2, <1>3 DEF Values!Closed, Values!Named

\* An address on the stack is a reference to a cell in reach.
LEMMA OperandSeen ==
  ASSUME IInv, CInv, NamesApart, pc \in {"mutator", "fill"},
         NEW k \in 1..(SP - Scratch), IsAddress(stack[k]), NEW h, h = Header(stack[k])
  PROVE  /\ h \in DOMAIN obj /\ obj[h].id \in Reached
         /\ Visible[k] = Values!ref(obj[h].id)
         /\ CellsInReach[obj[h].id] = [type |-> obj[h].type, contents |-> Seen(obj[h])]
         /\ Len(Seen(obj[h])) = Len(obj[h].contents)
         /\ \A i \in DOMAIN obj[h].contents :
              Values!IsRef(Seen(obj[h])[i]) => Seen(obj[h])[i][2] \in Reached
<1>1. k \in 1..SP /\ SP \in Nat
  BY ViewHere
<1>2. h \in DOMAIN obj
  BY <1>1, ViewHere DEF Clean
<1>3. Visible[k] = Values!ref(obj[h].id)
  <2>1. Visible[k] = Value(stack[k])
    BY ViewHere
  <2>2. QED
    BY <1>1, <1>2, <2>1, ViewHere, ValueHere
<1>4. obj[h].id \in Reached
  <2>1. Visible[k] \in Values!Entries(Visible)
    BY ViewHere DEF Values!Entries
  <2>2. Values!IsRef(Visible[k]) /\ Visible[k][2] = obj[h].id
    BY <1>3 DEF Values!IsRef, Values!ref
  <2>3. QED
    BY <2>1, <2>2, ReachHere
<1>5. AllCells[obj[h].id] = [type |-> obj[h].type, contents |-> Seen(obj[h])]
  BY <1>2, ViewHere, CellHere
<1>6. CellsInReach[obj[h].id] = AllCells[obj[h].id]
  BY <1>4, ReachHere
<1>7. obj[h] \in Object
  BY <1>2, ViewHere
<1>8. Len(Seen(obj[h])) = Len(obj[h].contents) /\ DOMAIN Seen(obj[h]) = DOMAIN obj[h].contents
  <2>1. obj[h].contents \in Seq(Word)
    BY <1>7 DEF Object
  <2>2. QED
    BY <2>1 DEF Seen
<1>9. \A x \in Values!Entries(Seen(obj[h])) : Values!IsRef(x) => x[2] \in Reached
  BY <1>4, <1>5, ReachHere
<1>10. QED
  BY <1>2, <1>3, <1>4, <1>5, <1>6, <1>8, <1>9 DEF Values!Entries

-----------------------------------------------------------------------------
(* The instructions that leave the heap alone.                              *)

LEMMA AbstractReach == \A all, s : Abstract!InReach(all, s) = Values!InReach(all, s)
BY DEF Abstract!InReach, Abstract!Live, Abstract!Closed, Abstract!Entries, Abstract!Named,
       Abstract!IsRef, Values!InReach, Values!Live, Values!Closed, Values!Entries,
       Values!Named, Values!IsRef

\* The view of a heap that stays as it is.
LEMMA SameObjects ==
  ASSUME NamesApart, ~ Compacting, ~ Compacting', obj' = obj
  PROVE  /\ Memory' = Memory
         /\ \A w : Value(w)' = Value(w)
         /\ AllCells' = AllCells
<1>1. Apart(Memory) /\ Memory' = Memory
  BY SameSame, MemoryKept DEF NamesApart
<1>2. Apart(Memory)'
  BY <1>1 DEF Apart
<1>3. \A w : Value(w)' = Value(w)
  <2>1. (Apart(Memory) => \A w : Value(w) = ValueIn(Memory, w))'
    BY ValueOfMemory, PTL
  <2>2. QED
    BY <1>1, <1>2, <2>1, ValueOfMemory DEF ValueIn, ObjectsAt
<1>4. AllCells' = AllCells
  <2>1. (Apart(Memory) => AllCells = AllIn(Memory))'
    BY CellsOfMemory, PTL
  <2>2. AllIn(Memory)' = AllIn(Memory)
    BY <1>1 DEF AllIn, CellIn, ValueIn, ObjectsAt
  <2>3. QED
    BY <1>1, <1>2, <2>1, <2>2, CellsOfMemory
<1>5. QED
  BY <1>1, <1>3, <1>4

\* Of a heap that stays as it is the program sees what its new stack reaches.
LEMMA StackView ==
  ASSUME IInv, CInv, VInv, IInv', pc = "mutator", MutatorLeaves, obj' = obj
  PROVE  /\ VInv' /\ Running /\ Running' = Running /\ Count' = Count
         /\ Visible = [k \in 1..SP |-> Value(stack[k])] /\ SP \in Nat
         /\ Visible' = [k \in 1..SP' |-> Value(stack'[k])] /\ SP' \in Nat
         /\ (\A x \in Values!Entries(Visible') : Values!IsRef(x) => x[2] \in Reached) =>
              CellsInReach' = Abstract!InReach(CellsInReach, Visible')
<1>1. /\ pc' = pc /\ op' = op /\ ~ Compacting /\ ~ Compacting' /\ ids' = ids
      /\ NamesApart /\ Apart(Memory) /\ op.fn = "none"
      /\ SP \in Nat /\ SP' \in Nat /\ SP' = Len(stack')
  BY Unregistered DEF MutatorLeaves, Compacting, VInv, NamesApart, IInv, TypeOK, GcTypeOK, SP
<1>2. Memory' = Memory /\ (\A w : Value(w)' = Value(w)) /\ AllCells' = AllCells
  BY <1>1, SameObjects
<1>6. Scratch = 0 /\ Scratch' = 0
  BY <1>1 DEF Scratch
<1>7. Visible = [k \in 1..SP |-> Value(stack[k])]
  BY <1>1, <1>6, ViewHere
<1>8. Visible' = [k \in 1..SP' |-> Value(stack'[k])]
  <2>1. Visible' = [k \in 1..SP' |-> Value(stack[k])']
    BY <1>1, <1>6 DEF Visible, Coming, Compacting, SP
  <2>2. QED
    BY <1>2, <2>1
<1>9. Count' = Count /\ Running /\ Running' = Running
  BY <1>1 DEF Count, Running
<1>10. VInv'
  <2>1. NamesApart'
    BY <1>1, <1>2, <1>9 DEF NamesApart, Apart
  <2>2. CallMeans'
    BY <1>1 DEF CallMeans
  <2>3. QED
    BY <2>1, <2>2 DEF VInv
<1>11. ASSUME \A x \in Values!Entries(Visible') : Values!IsRef(x) => x[2] \in Reached
       PROVE  CellsInReach' = Abstract!InReach(CellsInReach, Visible')
  <2>1. PICK s : s = Visible'
    OBVIOUS
  <2>2. CellsInReach' = Values!InReach(AllCells, s)
    BY <1>2, <2>1 DEF CellsInReach, Values!InReach, Values!Live, Values!Closed
  <2>3. /\ Reached \subseteq DOMAIN AllCells /\ \A c \in Reached : CellsInReach[c] = AllCells[c]
        /\ Values!Closed(AllCells, Visible, Reached)
    BY <1>1, ReachHere
  <2>4. Values!Closed(AllCells, s, Reached)
    BY <1>11, <2>1, <2>3 DEF Values!Closed, Values!Named
  <2>5. DOMAIN CellsInReach = Reached
    BY DEF Reached
  <2>6. Values!InReach(CellsInReach, s) = Values!InReach(AllCells, s)
    BY <2>3, <2>4, <2>5, ReachOfPart
  <2>7. QED
    BY <2>1, <2>2, <2>6, AbstractReach
<1>12. QED
  BY <1>1, <1>7, <1>8, <1>9, <1>10, <1>11

LEMMA SameValuesModule ==
  /\ \A v : Abstract!imm(v) = Values!imm(v) /\ Abstract!raw(v) = Values!raw(v)
            /\ Abstract!ref(v) = Values!ref(v)
            /\ (Abstract!IsRef(v) <=> Values!IsRef(v)) /\ (Abstract!IsImm(v) <=> Values!IsImm(v))
BY DEF Abstract!imm, Values!imm, Abstract!raw, Values!raw, Abstract!ref, Values!ref,
       Abstract!IsRef, Values!IsRef, Abstract!IsImm, Values!IsImm

\* CONST, a copy of a slot, and DROP.
LEMMA StackImplements ==
  ASSUME IInv, CInv, VInv, IInv', Const \/ Load \/ Store \/ Drop
  PROVE  VInv' /\ [Abstract!Next]_Abstract!vars
<1>1. pc = "mutator" /\ MutatorLeaves /\ obj' = obj /\ NamesApart /\ NGlobals \in Nat
  BY NGlobalsAssumption DEF Const, Load, Store, Drop, Mutator, VInv
<1>2. /\ VInv' /\ Running /\ Running' = Running /\ Count' = Count
      /\ Visible = [k \in 1..SP |-> Value(stack[k])] /\ SP \in Nat
      /\ Visible' = [k \in 1..SP' |-> Value(stack'[k])]
      /\ (\A x \in Values!Entries(Visible') : Values!IsRef(x) => x[2] \in Reached) =>
           CellsInReach' = Abstract!InReach(CellsInReach, Visible')
  BY <1>1, StackView
<1>3. stack \in Seq(Word) /\ SP = Len(stack) /\ SP' = Len(stack')
  BY DEF IInv, TypeOK, GcTypeOK, SP
<1>4. \A x \in Values!Entries(Visible) : Values!IsRef(x) => x[2] \in Reached
  BY <1>1, ReachHere
<1>5. ASSUME \A k \in 1..SP' : \/ \E j \in 1..SP : stack'[k] = stack[j]
                               \/ stack'[k] \in Imm
      PROVE  Abstract!Becomes(CellsInReach, Visible')
  <2>1. ASSUME NEW x \in Values!Entries(Visible'), Values!IsRef(x)
        PROVE  x \in Values!Entries(Visible)
    <3>1. PICK k \in 1..SP' : x = Value(stack'[k])
      BY <1>2 DEF Values!Entries
    <3>2. stack'[k] \notin Imm
      BY <2>1, <3>1 DEF Value, Plain, UNBOXED, Values!imm, Values!IsRef
    <3>3. PICK j \in 1..SP : stack'[k] = stack[j]
      BY <1>5, <3>2
    <3>4. j \in DOMAIN Visible /\ Visible[j] = x
      BY <1>2, <3>1, <3>3
    <3>5. QED
      BY <3>4 DEF Values!Entries
  <2>2. CellsInReach' = Abstract!InReach(CellsInReach, Visible')
    BY <1>2, <1>4, <2>1
  <2>3. QED
    BY <1>2, <2>2 DEF Abstract!Becomes
<1>6. Abstract!SP = SP
  BY <1>2 DEF Abstract!SP
<1>7. CASE Const
  <2>1. PICK v \in Imm : stack' = Pushed(stack, v)
    BY <1>7 DEF Const
  <2>2. Value(v) = Values!imm(v) /\ ~ Values!IsRef(Values!imm(v))
    BY <2>1 DEF Value, UNBOXED, Plain, Values!imm, Values!IsRef
  <2>3. SP' = SP + 1 /\ \A k \in 1..SP' : stack'[k] = IF k <= SP THEN stack[k] ELSE v
    BY <1>2, <1>3, <2>1 DEF Pushed
  <2>4. Visible' = Append(Visible, Values!imm(v))
    BY <1>2, <2>2, <2>3
  <2>5. \A k \in 1..SP' : \/ \E j \in 1..SP : stack'[k] = stack[j]
                          \/ stack'[k] \in Imm
    BY <1>2, <2>1, <2>3
  <2>6. Abstract!Becomes(CellsInReach, Append(Visible, Abstract!imm(v)))
    <3>1. Abstract!Becomes(CellsInReach, Visible')
      BY <1>5, <2>5
    <3>2. PICK s : s = Append(Visible, Abstract!imm(v))
      OBVIOUS
    <3>3. Visible' = s
      BY <2>4, <3>2 DEF Abstract!imm, Values!imm
    <3>4. Abstract!Becomes(CellsInReach, s)
      BY <3>1, <3>3 DEF Abstract!Becomes
    <3>5. QED
      BY <3>2, <3>4
  <2>7. Abstract!Const
    BY <2>6 DEF Abstract!Const
  <2>8. QED
    BY <1>2, <2>7 DEF Abstract!Next
<1>8. CASE Load
  <2>1. PICK k \in 1..SP : stack' = Pushed(stack, stack[k])
    BY <1>8 DEF Load
  <2>2. SP' = SP + 1 /\ \A j \in 1..SP' : stack'[j] = IF j <= SP THEN stack[j] ELSE stack[k]
    BY <1>2, <1>3, <2>1 DEF Pushed
  <2>3. Visible' = Append(Visible, Visible[k])
    BY <1>2, <2>2
  <2>4. \A i \in 1..SP' : \E j \in 1..SP : stack'[i] = stack[j]
    BY <1>2, <2>1, <2>2
  <2>5. Abstract!Becomes(CellsInReach, Append(Visible, Visible[k]))
    BY <1>5, <2>3, <2>4
  <2>6. Abstract!Load
    BY <1>6, <2>5 DEF Abstract!Load
  <2>7. QED
    BY <1>2, <2>6 DEF Abstract!Next
<1>9. CASE Store
  <2>1. PICK k \in 1..SP : stack' = [stack EXCEPT ![k] = stack[SP]]
    BY <1>9 DEF Store
  <2>2. SP' = SP /\ \A j \in 1..SP : stack'[j] = IF j = k THEN stack[SP] ELSE stack[j]
    BY <1>2, <1>3, <2>1
  <2>3. Visible' = [Visible EXCEPT ![k] = Visible[SP]]
    BY <1>2, <2>2
  <2>4. \A i \in 1..SP' : \E j \in 1..SP : stack'[i] = stack[j]
    BY <1>2, <2>1, <2>2
  <2>5. Abstract!Becomes(CellsInReach, [Visible EXCEPT ![k] = Visible[SP]])
    BY <1>5, <2>3, <2>4
  <2>6. Abstract!Arg(0) = Visible[SP]
    BY <1>2, <1>6 DEF Abstract!Arg
  <2>7. Abstract!Store
    BY <1>6, <2>5, <2>6 DEF Abstract!Store
  <2>8. QED
    BY <1>2, <2>7 DEF Abstract!Next
<1>10. CASE Drop
  <2>1. SP > NGlobals /\ stack' = SubSeq(stack, 1, SP - 1)
    BY <1>10 DEF Drop, Dropped
  <2>2. SP >= 1
    BY <1>1, <1>2, <2>1
  <2>3. SP' = SP - 1 /\ \A k \in 1..SP' : stack'[k] = stack[k]
    BY <1>2, <1>3, <2>1, <2>2
  <2>4. Visible' = SubSeq(Visible, 1, SP - 1)
    BY <1>2, <2>2, <2>3
  <2>5. \A k \in 1..SP' : \E j \in 1..SP : stack'[k] = stack[j]
    BY <1>2, <2>2, <2>3
  <2>6. Abstract!Becomes(CellsInReach, SubSeq(Visible, 1, SP - 1))
    BY <1>5, <2>4, <2>5
  <2>7. Abstract!Drop
    BY <1>6, <2>1, <2>6 DEF Abstract!Drop, Abstract!Dropped
  <2>8. QED
    BY <1>2, <2>7 DEF Abstract!Next
<1>11. QED
  BY <1>7, <1>8, <1>9, <1>10

\* The arguments of an instruction, as the program sees them.
LEMMA ArgSeen ==
  ASSUME IInv, CInv, NamesApart, pc = "mutator", NEW i \in 0..(SP - 1)
  PROVE  /\ Abstract!SP = SP /\ SP \in Nat /\ Abstract!Arg(i) = Value(Arg(i))
         /\ SP - i \in 1..SP /\ Arg(i) = stack[SP - i] /\ Visible[SP - i] = Value(Arg(i))
         /\ UNBOXED(Arg(i)) => Abstract!IsImm(Abstract!Arg(i))
<1>1. op.fn = "none"
  BY Unregistered
<1>2. SP \in Nat /\ Visible = [k \in 1..SP |-> Value(stack[k])] /\ Len(Visible) = SP
  BY <1>1, ViewHere DEF Scratch
<1>3. SP - i \in 1..SP /\ Arg(i) = stack[SP - i]
  BY <1>2 DEF Arg
<1>4. Abstract!SP = SP /\ Abstract!Arg(i) = Visible[SP - i]
  BY <1>2 DEF Abstract!SP, Abstract!Arg
<1>5. UNBOXED(Arg(i)) => Abstract!IsImm(Value(Arg(i)))
  BY DEF Value, Plain, Values!imm, Abstract!IsImm
<1>6. QED
  BY <1>2, <1>3, <1>4, <1>5

LEMMA RefSeen ==
  ASSUME IInv, CInv, NamesApart, pc = "mutator", NEW i \in 0..(SP - 1), IsRef(Arg(i)),
         NEW h, h = Header(Arg(i))
  PROVE  /\ h \in DOMAIN obj /\ Container(Arg(i)) = obj[h] /\ obj[h].id \in Reached
         /\ obj[h] \in Object /\ WellSized(obj[h])
         /\ Abstract!IsRef(Abstract!Arg(i)) /\ Abstract!Arg(i) = Values!ref(obj[h].id)
         /\ Abstract!Arg(i)[2] = obj[h].id
         /\ CellsInReach[obj[h].id] = [type |-> obj[h].type, contents |-> Seen(obj[h])]
         /\ Len(Seen(obj[h])) = Len(obj[h].contents)
         /\ \A j \in DOMAIN obj[h].contents :
              Values!IsRef(Seen(obj[h])[j]) => Seen(obj[h])[j][2] \in Reached
<1>1. op.fn = "none"
  BY Unregistered
<1>2. SP - i \in 1..(SP - Scratch) /\ Arg(i) = stack[SP - i]
      /\ Abstract!Arg(i) = Value(Arg(i)) /\ Visible[SP - i] = Value(Arg(i))
  BY <1>1, ArgSeen DEF Scratch
<1>3. IsAddress(stack[SP - i]) /\ h = Header(stack[SP - i]) /\ Container(Arg(i)) = obj[h]
  BY <1>2, OperandFacts DEF Mutator
<1>4. PICK k \in 1..(SP - Scratch) : k = SP - i
  BY <1>2
<1>5. /\ h \in DOMAIN obj /\ obj[h].id \in Reached
      /\ Visible[k] = Values!ref(obj[h].id)
      /\ CellsInReach[obj[h].id] = [type |-> obj[h].type, contents |-> Seen(obj[h])]
      /\ Len(Seen(obj[h])) = Len(obj[h].contents)
      /\ \A j \in DOMAIN obj[h].contents :
           Values!IsRef(Seen(obj[h])[j]) => Seen(obj[h])[j][2] \in Reached
  BY <1>3, <1>4, OperandSeen
<1>6. Abstract!Arg(i) = Values!ref(obj[h].id)
  BY <1>2, <1>4, <1>5
<1>7. Abstract!IsRef(Abstract!Arg(i)) /\ Abstract!Arg(i)[2] = obj[h].id
  BY <1>6 DEF Values!ref, Abstract!IsRef
<1>8. obj[h] \in Object /\ WellSized(obj[h])
  BY <1>5, ViewHere
<1>9. QED
  BY <1>3, <1>5, <1>6, <1>7, <1>8

\* The members a program can name.
Nameable(o) == Fields(o) \cup (IF o.type = "STRING" THEN 1..o.len ELSE {})

LEMMA MembersSeen ==
  ASSUME NEW o, o \in Object, WellSized(o), NEW c,
         CellsInReach[c] = [type |-> o.type, contents |-> Seen(o)],
         Len(Seen(o)) = Len(o.contents)
  PROVE  Abstract!Members(c) = Nameable(o) /\ Nameable(o) \subseteq DOMAIN o.contents
<1>1. /\ CellsInReach[c].type = o.type /\ CellsInReach[c].contents = Seen(o)
      /\ Len(o.contents) = NMembers(o.type, o.len) /\ o.type \in Types /\ o.len \in Nat
      /\ o.contents \in Seq(Word)
  BY DEF WellSized, Object
<1>2. DOMAIN o.contents = 1..NMembers(o.type, o.len)
  BY <1>1
<1>3. QED
  BY <1>1, <1>2 DEF Abstract!Members, Nameable, Fields, FirstField, NMembers, Types

\* A character means itself.
LEMMA MemberSeen ==
  ASSUME IInv, CInv, NamesApart, pc \in {"mutator", "fill"}, NEW h \in DOMAIN obj,
         NEW i \in Nameable(obj[h])
  PROVE  /\ i \in DOMAIN obj[h].contents /\ obj[h].contents[i] \in Word
         /\ Seen(obj[h])[i] = Value(obj[h].contents[i])
         /\ obj[h].type = "STRING" => ~ IsAddress(obj[h].contents[i])
<1>1. obj[h] \in Object /\ WellSized(obj[h])
  BY ViewHere
<1>2. i \in 1..NMembers(obj[h].type, obj[h].len)
  BY <1>1, FieldMember DEF Nameable
<1>3. i \in DOMAIN obj[h].contents /\ obj[h].contents[i] \in Word
  <2>1. obj[h].contents \in Seq(Word) /\ Len(obj[h].contents) = NMembers(obj[h].type, obj[h].len)
    BY <1>1 DEF Object, WellSized
  <2>2. QED
    BY <1>2, <2>1
<1>4. ASSUME i \notin Fields(obj[h])
      PROVE  ~ IsAddress(obj[h].contents[i])
  <2>1. obj[h].type = "STRING" /\ i \in 1..obj[h].len
    BY <1>4 DEF Nameable
  <2>2. \E last : ObjSound(obj, heap.begin, last, StackWords(stack))
    <3>1. CASE pc = "mutator"
      BY <3>1, MutatorFacts
    <3>2. CASE pc = "fill"
      BY <3>2, FillFacts DEF ObjSound
    <3>3. QED
      BY <3>1, <3>2
  <2>3. obj[h].contents[i] \in Chars
    BY <2>1, <2>2 DEF ObjSound
  <2>4. QED
    BY <2>3 DEF Chars, IsAddress, Raw, UNBOXED
<1>5. Seen(obj[h])[i] = Value(obj[h].contents[i])
  <2>1. CASE i \in Fields(obj[h])
    BY <1>3, <2>1 DEF Seen
  <2>2. CASE i \notin Fields(obj[h])
    <3>1. Value(obj[h].contents[i]) = Plain(obj[h].contents[i])
      BY <1>3, <1>4, <2>2, ViewHere, ValueHere
    <3>2. QED
      BY <1>3, <2>2, <3>1 DEF Seen
  <2>3. QED
    BY <2>1, <2>2
<1>6. obj[h].type = "STRING" => ~ IsAddress(obj[h].contents[i])
  BY <1>4 DEF Fields
<1>7. QED
  BY <1>3, <1>5, <1>6

\* ELEM.
LEMMA ElemImplements ==
  ASSUME IInv, CInv, VInv, IInv', Elem
  PROVE  VInv' /\ [Abstract!Next]_Abstract!vars
<1>1. /\ pc = "mutator" /\ MutatorLeaves /\ obj' = obj /\ NamesApart /\ NGlobals \in Nat
      /\ SP >= NGlobals + 2 /\ UNBOXED(Arg(0)) /\ IsRef(Arg(1))
  BY NGlobalsAssumption DEF Elem, Mutator, VInv
<1>2. /\ VInv' /\ Running /\ Running' = Running /\ Count' = Count
      /\ Visible = [k \in 1..SP |-> Value(stack[k])] /\ SP \in Nat
      /\ Visible' = [k \in 1..SP' |-> Value(stack'[k])]
      /\ (\A x \in Values!Entries(Visible') : Values!IsRef(x) => x[2] \in Reached) =>
           CellsInReach' = Abstract!InReach(CellsInReach, Visible')
  BY <1>1, StackView
<1>3. stack \in Seq(Word) /\ SP = Len(stack) /\ SP' = Len(stack')
  BY DEF IInv, TypeOK, GcTypeOK, SP
<1>4. 0 \in 0..(SP - 1) /\ 1 \in 0..(SP - 1)
  BY <1>1, <1>2
<1>5. PICK h : h = Header(Arg(1))
  OBVIOUS
<1>6. PICK o : o = obj[h]
  OBVIOUS
<1>7. /\ h \in DOMAIN obj /\ Container(Arg(1)) = o
      /\ o \in Object /\ WellSized(o)
      /\ Abstract!IsRef(Abstract!Arg(1)) /\ Abstract!Arg(1)[2] = o.id
      /\ CellsInReach[o.id] = [type |-> o.type, contents |-> Seen(o)]
      /\ Len(Seen(o)) = Len(o.contents)
      /\ \A j \in DOMAIN o.contents :
           Values!IsRef(Seen(o)[j]) => Seen(o)[j][2] \in Reached
  BY <1>1, <1>4, <1>5, <1>6, RefSeen
<1>8. PICK i \in Nameable(o) : stack' = Pushed(Dropped(2), o.contents[i])
  BY <1>7 DEF Elem, Nameable
<1>9. i \in DOMAIN o.contents /\ Seen(o)[i] = Value(o.contents[i])
  BY <1>1, <1>6, <1>7, <1>8, MemberSeen
<1>10. SP' = SP - 1 /\ \A k \in 1..SP' : stack'[k] = IF k <= SP - 2 THEN stack[k] ELSE o.contents[i]
  BY <1>1, <1>2, <1>3, <1>8 DEF Pushed, Dropped
<1>11. Visible' = Append(SubSeq(Visible, 1, SP - 2), Seen(o)[i])
  BY <1>1, <1>2, <1>9, <1>10
<1>12. CellsInReach' = Abstract!InReach(CellsInReach, Visible')
  <2>1. ASSUME NEW x \in Values!Entries(Visible'), Values!IsRef(x)
        PROVE  x[2] \in Reached
    <3>1. PICK k \in 1..SP' : x = Value(stack'[k])
      BY <1>2 DEF Values!Entries
    <3>2. CASE k <= SP - 2
      <4>1. k \in DOMAIN Visible /\ Visible[k] = x
        BY <1>2, <1>10, <3>1, <3>2
      <4>2. x \in Values!Entries(Visible)
        BY <4>1 DEF Values!Entries
      <4>3. QED
        BY <1>1, <2>1, <4>2, ReachHere
    <3>3. CASE ~ (k <= SP - 2)
      <4>1. x = Seen(o)[i]
        BY <1>9, <1>10, <3>1, <3>3
      <4>2. QED
        BY <1>7, <1>9, <2>1, <4>1
    <3>4. QED
      BY <3>2, <3>3
  <2>2. QED
    BY <1>2, <2>1
<1>13. Abstract!Elem
  <2>1. i \in Abstract!Members(o.id)
    BY <1>7, <1>8, MembersSeen
  <2>2. Abstract!SP = SP /\ Abstract!IsImm(Abstract!Arg(0))
    BY <1>1, <1>4, ArgSeen
  <2>3. CellsInReach[o.id].contents[i] = Seen(o)[i]
    BY <1>7
  <2>4. Abstract!Dropped(2) = SubSeq(Visible, 1, SP - 2)
    BY <2>2 DEF Abstract!Dropped
  <2>5. PICK s : s = Append(Abstract!Dropped(2), CellsInReach[o.id].contents[i])
    OBVIOUS
  <2>6. Visible' = s
    BY <1>11, <2>3, <2>4, <2>5
  <2>7. Abstract!Becomes(CellsInReach, s)
    BY <1>2, <1>12, <2>6 DEF Abstract!Becomes
  <2>8. Abstract!Becomes(CellsInReach, Append(Abstract!Dropped(2), CellsInReach[o.id].contents[i]))
    BY <2>5, <2>7
  <2>9. QED
    BY <1>1, <1>7, <2>1, <2>2, <2>8 DEF Abstract!Elem
<1>14. QED
  BY <1>2, <1>13 DEF Abstract!Next

-----------------------------------------------------------------------------
(* The instructions and functions that write to the heap.                   *)

\* The same facts as formulas that can be taken after a step.
WordsHere ==
  \A w \in Word :
    /\ ~ IsAddress(w) => Value(w) = Plain(w)
    /\ IsAddress(w) /\ Header(w) \in DOMAIN obj => Value(w) = Values!ref(obj[Header(w)].id)
CellsHere ==
  /\ DOMAIN AllCells = NamesOf(DOMAIN obj)
  /\ \A h \in DOMAIN obj :
       AllCells[obj[h].id] = [type |-> obj[h].type, contents |-> Seen(obj[h])]
NamesHere ==
  /\ Count \in Nat
  /\ \A h \in DOMAIN obj : obj[h].id \in 1..Count
  /\ \A g, h \in DOMAIN obj : obj[g].id = obj[h].id => g = h
VisibleHere ==
  Visible = [k \in 1..(SP - Scratch) |-> Value(stack[k])]

LEMMA FactsHere ==
  IInv /\ CInv /\ NamesApart /\ Alive /\ ~ Compacting =>
    WordsHere /\ CellsHere /\ VisibleHere
<1> SUFFICES ASSUME IInv, CInv, NamesApart, Alive, ~ Compacting
             PROVE  WordsHere /\ CellsHere /\ VisibleHere
  OBVIOUS
<1>1. WordsHere
  BY ValueHere DEF WordsHere
<1>2. CellsHere
  BY CellHere DEF CellsHere
<1>3. VisibleHere
  BY DEF VisibleHere, Visible, Coming, Compacting, SP
<1>4. QED
  BY <1>1, <1>2, <1>3

LEMMA NamesHereHold == ~ Compacting => (NamesApart <=> NamesHere)
<1> SUFFICES ASSUME ~ Compacting
             PROVE  NamesApart <=> NamesHere
  OBVIOUS
<1>1. /\ Memory = {Image(h) : h \in DOMAIN obj}
      /\ \A h \in DOMAIN obj : Image(h).id = obj[h].id /\ Image(h).at = h
  BY ImageHere, ImageFields DEF Memory
<1>2. ASSUME NamesApart
      PROVE  NamesHere
  <2>1. \A h \in DOMAIN obj : Image(h) \in Memory
    BY <1>1
  <2>2. \A g, h \in DOMAIN obj : obj[g].id = obj[h].id => Image(g) = Image(h)
    BY <1>1, <1>2, <2>1 DEF NamesApart, Apart
  <2>3. \A g, h \in DOMAIN obj : obj[g].id = obj[h].id => g = h
    BY <1>1, <2>2
  <2>4. \A h \in DOMAIN obj : obj[h].id \in 1..Count
    BY <1>1, <1>2, <2>1 DEF NamesApart
  <2>5. QED
    BY <1>2, <2>3, <2>4 DEF NamesApart, NamesHere
<1>3. ASSUME NamesHere
      PROVE  NamesApart
  <2>1. \A c \in Memory : c.id \in 1..Count
    BY <1>1, <1>3 DEF NamesHere
  <2>2. ASSUME NEW c \in Memory, NEW d \in Memory, c.id = d.id \/ c.at = d.at
        PROVE  c = d
    <3>1. PICK g \in DOMAIN obj, h \in DOMAIN obj : c = Image(g) /\ d = Image(h)
      BY <1>1, <2>2
    <3>2. g = h
      BY <1>1, <1>3, <2>2, <3>1 DEF NamesHere
    <3>3. QED
      BY <3>1, <3>2
  <2>3. QED
    BY <1>3, <2>1, <2>2 DEF NamesApart, NamesHere, Apart
<1>4. QED
  BY <1>2, <1>3

\* After a step to the program old words mean what they meant.
LEMMA WrittenView ==
  ASSUME IInv, CInv, VInv, IInv', CInv', pc \in {"mutator", "fill"}, pc' = "mutator",
         NamesHere', DOMAIN obj \subseteq DOMAIN obj',
         \A h \in DOMAIN obj : obj'[h].id = obj[h].id
  PROVE  /\ VInv' /\ WordsHere' /\ CellsHere'
         /\ Running /\ Running' = Running
         /\ \A w \in Word : Clean(w, DOMAIN obj) => Value(w)' = Value(w)
         /\ Visible' = [k \in 1..SP' |-> Value(stack[k])'] /\ SP' \in Nat /\ SP' = Len(stack')
<1>1. /\ Alive /\ Alive' /\ ~ Compacting /\ ~ Compacting' /\ Running /\ Running' = Running
      /\ NamesApart
  BY DEF Alive, Compacting, Running, VInv
<1>2. NamesApart'
  <2>1. (~ Compacting => (NamesApart <=> NamesHere))'
    BY NamesHereHold, PTL
  <2>2. QED
    BY <1>1, <2>1
<1>3. WordsHere' /\ CellsHere' /\ VisibleHere'
  <2>1. (IInv /\ CInv /\ NamesApart /\ Alive /\ ~ Compacting =>
           WordsHere /\ CellsHere /\ VisibleHere)'
    BY FactsHere, PTL
  <2>2. QED
    BY <1>1, <1>2, <2>1
<1>4. WordsHere
  BY <1>1, FactsHere
<1>5. ASSUME NEW w \in Word, Clean(w, DOMAIN obj)
      PROVE  Value(w)' = Value(w)
  BY <1>3, <1>4, <1>5 DEF WordsHere, Clean
<1>6. op'.fn = "none" /\ SP' \in Nat /\ SP' = Len(stack')
  <2>1. op'.fn = "none"
    BY DEF IInv, ExtraRootsBalanced
  <2>2. QED
    BY <2>1 DEF IInv, TypeOK, GcTypeOK, SP
<1>7. Visible' = [k \in 1..SP' |-> Value(stack[k])']
  <2>1. Scratch' = 0
    BY <1>6 DEF Scratch
  <2>2. QED
    BY <1>3, <1>6, <2>1 DEF VisibleHere
<1>8. VInv'
  BY <1>1, <1>2, <1>6 DEF VInv, CallMeans
<1>9. QED
  BY <1>1, <1>3, <1>5, <1>6, <1>7, <1>8

\* The cells in reach after a step: a part of all cells that misses none of them.
LEMMA ReachAfter ==
  ASSUME NEW part, DOMAIN part \subseteq DOMAIN AllCells',
         \A c \in DOMAIN part : part[c] = AllCells'[c],
         \A x \in Values!Entries(Visible') : Values!IsRef(x) => x[2] \in DOMAIN part,
         \A c \in DOMAIN part : \A x \in Values!Entries(part[c].contents) :
           Values!IsRef(x) => x[2] \in DOMAIN part
  PROVE  CellsInReach' = Abstract!InReach(part, Visible')
<1>1. PICK all, s : all = AllCells' /\ s = Visible'
  OBVIOUS
<1>2. CellsInReach' = Values!InReach(all, s)
  BY <1>1 DEF CellsInReach, Values!InReach, Values!Live, Values!Closed
<1>3. \A c \in DOMAIN part : all[c].contents = part[c].contents
  BY <1>1
<1>4. Values!Closed(all, s, DOMAIN part)
  BY <1>1, <1>3 DEF Values!Closed, Values!Named
<1>5. Values!InReach(part, s) = Values!InReach(all, s)
  BY <1>1, <1>4, ReachOfPart
<1>6. QED
  BY <1>1, <1>2, <1>5, AbstractReach

LEMMA CellAfter ==
  ASSUME CellsHere', NEW g \in DOMAIN obj', NEW o, o = obj'[g], NEW members,
         members = [i \in DOMAIN o.contents |-> members[i]],
         \A i \in DOMAIN o.contents :
           members[i] = IF i \in Fields(o) THEN Value(o.contents[i])' ELSE Plain(o.contents[i])
  PROVE  o.id \in DOMAIN AllCells' /\ AllCells'[o.id] = [type |-> o.type, contents |-> members]
<1>1. Seen(o)' = members
  BY DEF Seen
<1>2. Seen(obj[g])' = Seen(o)'
  BY DEF Seen
<1>3. AllCells'[obj'[g].id] = [type |-> obj'[g].type, contents |-> Seen(obj[g])']
  BY DEF CellsHere
<1>4. DOMAIN AllCells' = {obj'[a].id : a \in DOMAIN obj'}
  BY DEF CellsHere, NamesOf
<1>5. QED
  BY <1>1, <1>2, <1>3, <1>4

\* An object that stays as it is has the cell it had.
LEMMA CellKept ==
  ASSUME IInv, CInv, NamesApart, pc \in {"mutator", "fill"}, CellsHere',
         \A w \in Word : Clean(w, DOMAIN obj) => Value(w)' = Value(w),
         NEW g \in DOMAIN obj, g \in DOMAIN obj', obj'[g] = obj[g]
  PROVE  obj[g].id \in DOMAIN AllCells' /\ AllCells'[obj[g].id] = AllCells[obj[g].id]
<1>1. PICK o : o = obj[g]
  OBVIOUS
<1>2. /\ o \in Object /\ WellSized(o)
      /\ \A v \in FieldValues(o) : v \in Word /\ Clean(v, DOMAIN obj)
  BY <1>1, ViewHere
<1>3. \A i \in Fields(o) : Value(o.contents[i])' = Value(o.contents[i])
  BY <1>2 DEF FieldValues
<1>4. PICK members : members = Seen(o)
  OBVIOUS
<1>5. /\ members = [i \in DOMAIN o.contents |-> members[i]]
      /\ \A i \in DOMAIN o.contents :
           members[i] = IF i \in Fields(o) THEN Value(o.contents[i])' ELSE Plain(o.contents[i])
  BY <1>3, <1>4 DEF Seen
<1>6. o.id \in DOMAIN AllCells' /\ AllCells'[o.id] = [type |-> o.type, contents |-> members]
  BY <1>1, <1>5, CellAfter
<1>7. AllCells[obj[g].id] = [type |-> obj[g].type, contents |-> Seen(obj[g])]
  BY ViewHere, CellHere
<1>8. QED
  BY <1>1, <1>4, <1>6, <1>7

\* A result on top of what is left of a stack.
LEMMA ResultOnTop ==
  ASSUME NEW s, NEW n \in Nat, s = [k \in 1..n |-> s[k]], NEW m \in 0..n, NEW v
  PROVE  Append(SubSeq(s, 1, m), v) = [k \in 1..(m + 1) |-> IF k <= m THEN s[k] ELSE v]
<1> DEFINE S == {s[k] : k \in 1..n}
<1>1. s \in [1..n -> S]
  OBVIOUS
<1>2. s \in Seq(S) /\ Len(s) = n
  BY <1>1, FunctionIsSeq
<1>3. PICK t : t = SubSeq(s, 1, m)
  OBVIOUS
<1> HIDE DEF S
<1>4. Len(t) = m /\ t = [k \in 1..m |-> s[k]]
  BY <1>2, <1>3
<1>5. QED
  BY <1>3, <1>4

\* STA.
LEMMA StaImplements ==
  ASSUME IInv, CInv, VInv, IInv', CInv', Sta
  PROVE  VInv' /\ [Abstract!Next]_Abstract!vars
<1>1. /\ pc = "mutator" /\ pc' = "mutator" /\ ids' = ids /\ NamesApart /\ NGlobals \in Nat
      /\ SP >= NGlobals + 3 /\ UNBOXED(Arg(1)) /\ IsRef(Arg(2))
      /\ SP \in Nat /\ stack \in Seq(Word) /\ SP = Len(stack)
  BY NGlobalsAssumption
     DEF Sta, Mutator, VInv, MutatorLeaves, IInv, TypeOK, GcTypeOK, SP
<1>2. 0 \in 0..(SP - 1) /\ 1 \in 0..(SP - 1) /\ 2 \in 0..(SP - 1)
  BY <1>1
<1>3. PICK h : h = Header(Arg(2))
  OBVIOUS
<1>4. PICK o : o = obj[h]
  OBVIOUS
<1>5. /\ h \in DOMAIN obj /\ Container(Arg(2)) = o /\ o.id \in Reached
      /\ o \in Object /\ WellSized(o)
      /\ Abstract!IsRef(Abstract!Arg(2)) /\ Abstract!Arg(2)[2] = o.id
      /\ CellsInReach[o.id] = [type |-> o.type, contents |-> Seen(o)]
      /\ Len(Seen(o)) = Len(o.contents)
      /\ \A j \in DOMAIN o.contents :
           Values!IsRef(Seen(o)[j]) => Seen(o)[j][2] \in Reached
  BY <1>1, <1>2, <1>3, <1>4, RefSeen
<1>6. /\ Arg(0) \in Word /\ Clean(Arg(0), DOMAIN obj) /\ Abstract!Arg(0) = Value(Arg(0))
      /\ Value(Arg(0)) \in Values!Entries(Visible)
  <2>1. /\ SP - 0 \in 1..SP /\ Arg(0) = stack[SP - 0] /\ Visible[SP - 0] = Value(Arg(0))
        /\ Abstract!Arg(0) = Value(Arg(0)) /\ Abstract!SP = SP
    BY <1>1, <1>2, ArgSeen
  <2>2. SP \in DOMAIN Visible
    <3>1. DOMAIN Visible = 1..SP
      BY <1>1, ViewHere, Unregistered DEF Scratch
    <3>2. QED
      BY <1>1, <3>1
  <2>3. QED
    BY <1>1, <2>1, <2>2, ViewHere DEF Values!Entries
<1>7. PICK i \in Nameable(o), w \in Word :
        /\ obj' = [obj EXCEPT ![h].contents[i] = w]
        /\ IF o.type = "STRING" THEN w \in Imm ELSE w = Arg(0)
  <2>1. CASE o.type = "STRING"
    BY <1>3, <1>5, <2>1 DEF Sta, Nameable, Word
  <2>2. CASE o.type # "STRING"
    BY <1>3, <1>5, <1>6, <2>2 DEF Sta, Nameable
  <2>3. QED
    BY <2>1, <2>2
<1>8. PICK boxed \in Imm : stack' = Pushed(Dropped(3), boxed)
  BY DEF Sta
<1>9. PICK v : v = Value(w)
  OBVIOUS
<1>10. /\ Clean(w, DOMAIN obj)
       /\ Values!IsRef(v) => v[2] \in Reached
       /\ v \in (IF o.type = "STRING" THEN {Abstract!imm(c) : c \in Imm} ELSE {Abstract!Arg(0)})
  <2>1. CASE o.type = "STRING"
    BY <1>7, <1>9, <2>1
       DEF Value, Plain, UNBOXED, Values!imm, Abstract!imm, Values!IsRef, Clean, IsAddress
  <2>2. CASE o.type # "STRING"
    BY <1>1, <1>6, <1>7, <1>9, <2>2, ReachHere
  <2>3. QED
    BY <2>1, <2>2
<1>11. i \in DOMAIN o.contents /\ i \in Abstract!Members(o.id)
  BY <1>5, <1>7, MembersSeen
<1>12. /\ DOMAIN obj' = DOMAIN obj
       /\ \A g \in DOMAIN obj : g # h => obj'[g] = obj[g]
       /\ obj'[h] = [o EXCEPT !.contents[i] = w]
  BY <1>4, <1>5, <1>7
<1>13. obj'[h].id = o.id /\ obj'[h].type = o.type /\ obj'[h].len = o.len
       /\ obj'[h].contents = [o.contents EXCEPT ![i] = w]
  BY <1>5, <1>12 DEF Object
<1>14. NamesHere'
  <2>1. NamesHere /\ Count' = Count
    BY <1>1, NamesHereHold DEF Compacting, Count
  <2>2. \A g \in DOMAIN obj : obj'[g].id = obj[g].id
    BY <1>4, <1>12, <1>13
  <2>3. PICK n : n = Count
    OBVIOUS
  <2>4. n \in Nat /\ \A g \in DOMAIN obj' : obj'[g].id \in 1..n
    BY <1>12, <2>1, <2>2, <2>3 DEF NamesHere
  <2>5. \A f, g \in DOMAIN obj' : obj'[f].id = obj'[g].id => f = g
    BY <1>12, <2>1, <2>2 DEF NamesHere
  <2>6. Count' = n
    BY <2>1, <2>3
  <2>7. QED
    BY <2>4, <2>5, <2>6 DEF NamesHere
<1>15. /\ VInv' /\ CellsHere' /\ Running /\ Running' = Running
       /\ \A x \in Word : Clean(x, DOMAIN obj) => Value(x)' = Value(x)
       /\ Visible' = [k \in 1..SP' |-> Value(stack[k])'] /\ SP' \in Nat /\ SP' = Len(stack')
  BY <1>1, <1>4, <1>12, <1>13, <1>14, WrittenView
<1>16. SP' = SP - 2 /\ \A k \in 1..SP' : stack'[k] = IF k <= SP - 3 THEN stack[k] ELSE boxed
  BY <1>1, <1>8, <1>15 DEF Pushed, Dropped
<1>17. Visible = [k \in 1..SP |-> Value(stack[k])]
  BY <1>1, ViewHere, Unregistered DEF Scratch
<1>18. Visible' = Append(SubSeq(Visible, 1, SP - 3), Values!imm(boxed))
  <2>1. ASSUME NEW k \in 1..SP'
        PROVE  Visible'[k] = IF k <= SP - 3 THEN Visible[k] ELSE Values!imm(boxed)
    <3>1. PICK x : x = stack'[k]
      OBVIOUS
    <3>2. Visible'[k] = Value(x)'
      BY <1>15, <3>1
    <3>3. CASE k <= SP - 3
      <4>1. k \in 1..SP /\ x = stack[k]
        BY <1>1, <1>16, <3>1, <3>3
      <4>2. x \in Word /\ Clean(x, DOMAIN obj)
        BY <1>1, <4>1, ViewHere
      <4>3. QED
        BY <1>15, <1>17, <3>2, <3>3, <4>1, <4>2
    <3>4. CASE ~ (k <= SP - 3)
      <4>1. x = boxed /\ UNBOXED(x)
        BY <1>8, <1>16, <3>1, <3>4 DEF UNBOXED
      <4>2. Value(x)' = Values!imm(boxed)
        BY <4>1 DEF Value, Plain
      <4>3. QED
        BY <3>2, <3>4, <4>2
    <3>5. QED
      BY <3>3, <3>4
  <2>2. Visible' = [k \in 1..(SP - 2) |-> IF k <= SP - 3 THEN Visible[k] ELSE Values!imm(boxed)]
    BY <1>15, <1>16, <2>1
  <2>3. PICK n, m, vis, r : n = SP /\ m = SP - 3 /\ vis = Visible /\ r = Values!imm(boxed)
    OBVIOUS
  <2>4. n \in Nat /\ m \in 0..n /\ m + 1 = SP - 2 /\ vis = [k \in 1..n |-> vis[k]]
    BY <1>1, <1>17, <2>3
  <2>5. Append(SubSeq(vis, 1, m), r) = [k \in 1..(m + 1) |-> IF k <= m THEN vis[k] ELSE r]
    BY <2>4, ResultOnTop
  <2>6. QED
    BY <2>2, <2>3, <2>4, <2>5
<1> DEFINE part == [CellsInReach EXCEPT ![o.id].contents[i] = v]
<1>19. /\ DOMAIN part = Reached
       /\ \A c \in Reached : c # o.id => part[c] = CellsInReach[c]
       /\ part[o.id] = [type |-> o.type, contents |-> [Seen(o) EXCEPT ![i] = v]]
  BY <1>5 DEF Reached
<1> HIDE DEF part
<1>20. AllCells'[o.id] = part[o.id] /\ o.id \in DOMAIN AllCells'
  <2>1. PICK p : p = obj'[h]
    OBVIOUS
  <2>2. PICK members : members = [Seen(o) EXCEPT ![i] = v]
    OBVIOUS
  <2>3. DOMAIN p.contents = DOMAIN o.contents /\ Fields(p) = Fields(o)
    BY <1>13, <2>1 DEF Fields
  <2>4. members = [j \in DOMAIN p.contents |-> members[j]]
    BY <2>2, <2>3 DEF Seen
  <2>5. ASSUME NEW j \in DOMAIN p.contents
        PROVE  members[j] = IF j \in Fields(p) THEN Value(p.contents[j])' ELSE Plain(p.contents[j])
    <3>1. CASE j # i
      <4>1. p.contents[j] = o.contents[j] /\ members[j] = Seen(o)[j]
        BY <1>13, <2>1, <2>2, <2>3, <2>5, <3>1 DEF Seen
      <4>2. PICK x : x = o.contents[j]
        OBVIOUS
      <4>3. j \in Fields(o) => Value(x)' = Value(x)
        BY <1>1, <1>4, <1>5, <1>15, <4>2, ViewHere DEF FieldValues
      <4>4. QED
        BY <2>3, <2>5, <4>1, <4>2, <4>3 DEF Seen
    <3>2. CASE j = i
      <4>1. p.contents[j] = w /\ members[j] = v
        BY <1>11, <1>13, <2>1, <2>2, <2>3, <3>2 DEF Seen
      <4>2. Value(w)' = v
        BY <1>9, <1>10, <1>15
      <4>3. CASE j \in Fields(p)
        BY <4>1, <4>2, <4>3
      <4>4. CASE j \notin Fields(p)
        <5>1. o.type = "STRING"
          BY <1>7, <2>3, <3>2, <4>4 DEF Nameable
        <5>2. Plain(w) = v
          BY <1>7, <1>9, <5>1 DEF Value, UNBOXED
        <5>3. QED
          BY <4>1, <4>4, <5>2
      <4>5. QED
        BY <4>3, <4>4
    <3>3. QED
      BY <3>1, <3>2
  <2>6. p.id \in DOMAIN AllCells' /\ AllCells'[p.id] = [type |-> p.type, contents |-> members]
    <3>1. h \in DOMAIN obj'
      BY <1>5, <1>12
    <3>2. \A j \in DOMAIN p.contents :
            members[j] = IF j \in Fields(p) THEN Value(p.contents[j])' ELSE Plain(p.contents[j])
      BY <2>5
    <3>3. CellsHere'
      BY <1>15
    <3>4. QED
      BY <2>1, <2>4, <3>1, <3>2, <3>3, CellAfter
  <2>7. QED
    BY <1>13, <1>19, <2>1, <2>2, <2>6
<1>21. ASSUME NEW c \in Reached
       PROVE  c \in DOMAIN AllCells' /\ part[c] = AllCells'[c]
  <2>1. CASE c = o.id
    BY <1>20, <2>1
  <2>2. CASE c # o.id
    <3>1. c \in DOMAIN AllCells /\ CellsInReach[c] = AllCells[c]
      BY <1>1, ReachHere
    <3>2. PICK g \in DOMAIN obj : c = obj[g].id
      BY <1>1, <3>1, ViewHere, CellHere DEF NamesOf
    <3>3. g # h
      BY <1>4, <2>2, <3>2
    <3>4. c \in DOMAIN AllCells' /\ AllCells'[c] = AllCells[c]
      BY <1>1, <1>12, <1>15, <3>2, <3>3, CellKept
    <3>5. QED
      BY <1>19, <2>2, <3>1, <3>4
  <2>3. QED
    BY <2>1, <2>2
<1>22. ASSUME NEW x \in Values!Entries(Visible'), Values!IsRef(x)
       PROVE  x[2] \in Reached
  <2>1. PICK k \in 1..SP' : x = Visible'[k]
    BY <1>15 DEF Values!Entries
  <2>2. CASE k <= SP - 3
    <3>1. k \in DOMAIN Visible /\ x = Visible[k]
      BY <1>1, <1>16, <1>17, <1>18, <2>1, <2>2
    <3>2. QED
      BY <1>1, <1>22, <3>1, ReachHere DEF Values!Entries
  <2>3. CASE ~ (k <= SP - 3)
    <3>1. x = Values!imm(boxed)
      BY <1>1, <1>16, <1>17, <1>18, <2>1, <2>3
    <3>2. QED
      BY <1>22, <3>1 DEF Values!imm, Values!IsRef
  <2>4. QED
    BY <2>2, <2>3
<1>23. ASSUME NEW c \in Reached, NEW x \in Values!Entries(part[c].contents), Values!IsRef(x)
       PROVE  x[2] \in Reached
  <2>1. CASE c = o.id
    <3>1. PICK j \in DOMAIN Seen(o) : x = IF j = i THEN v ELSE Seen(o)[j]
      BY <1>19, <1>23, <2>1 DEF Values!Entries
    <3>2. j \in DOMAIN o.contents
      BY <3>1 DEF Seen
    <3>3. QED
      BY <1>5, <1>10, <1>23, <3>1, <3>2
  <2>2. CASE c # o.id
    <3>1. part[c] = AllCells[c]
      BY <1>1, <1>19, <2>2, ReachHere
    <3>2. QED
      BY <1>1, <1>23, <3>1, ReachHere
  <2>3. QED
    BY <2>1, <2>2
<1>24. CellsInReach' = Abstract!InReach(part, Visible')
  BY <1>19, <1>21, <1>22, <1>23, ReachAfter
<1>25. Abstract!Sta
  <2>1. Abstract!SP = SP /\ Abstract!IsImm(Abstract!Arg(1))
    BY <1>1, <1>2, ArgSeen
  <2>2. Visible' = Append(Abstract!Dropped(3), Abstract!imm(boxed))
    BY <1>18, <2>1 DEF Abstract!Dropped, Abstract!imm, Values!imm
  <2>3. Count' = Count
    BY <1>1 DEF Count
  <2>4. PICK s : s = Append(Abstract!Dropped(3), Abstract!imm(boxed))
    OBVIOUS
  <2>5. Abstract!Becomes(part, s)
    BY <1>15, <1>24, <2>2, <2>3, <2>4 DEF Abstract!Becomes
  <2>6. Abstract!Becomes([CellsInReach EXCEPT ![o.id].contents[i] = v],
                         Append(Abstract!Dropped(3), Abstract!imm(boxed)))
    BY <2>4, <2>5 DEF part
  <2> DEFINE values(c) == IF CellsInReach[c].type = "STRING" THEN {Abstract!imm(x) : x \in Imm}
                          ELSE {Abstract!Arg(0)}
  <2>7. v \in values(o.id)
    BY <1>5, <1>10
  <2> HIDE DEF values
  <2>8. \E j \in Abstract!Members(o.id), x \in values(o.id), y \in Imm :
          Abstract!Becomes([CellsInReach EXCEPT ![o.id].contents[j] = x],
                           Append(Abstract!Dropped(3), Abstract!imm(y)))
    BY <1>8, <1>11, <2>6, <2>7
  <2>9. PICK c : c = o.id
    OBVIOUS
  <2>10. \E j \in Abstract!Members(c), x \in values(c), y \in Imm :
           Abstract!Becomes([CellsInReach EXCEPT ![c].contents[j] = x],
                            Append(Abstract!Dropped(3), Abstract!imm(y)))
    BY <2>8, <2>9
  <2>11. Abstract!Arg(2)[2] = c
    BY <1>5, <2>9
  <2>12. QED
    BY <1>1, <1>5, <2>1, <2>10, <2>11 DEF Abstract!Sta, values
<1>26. QED
  BY <1>15, <1>25 DEF Abstract!Next

-----------------------------------------------------------------------------
(* A function up to its call of alloc.                                      *)

\* What CallMeans says of a call, the word on top of the stack being top.
CallKnows(call, top, local) ==
  /\ call.fn \in {"Barray", "LmakeArray"} => call.n \in ArraySizes
  /\ call.fn = "Bsexp" => call.n \in SexpSizes
  /\ call.fn = "Bclosure" => call.n \in ClosureSizes /\ top \in Code
  /\ call.fn \in {"Barray", "Bsexp", "Bclosure"} => call.n <= Len(Visible) - NGlobals
  /\ call.fn \in {"Lclone", "LcloneString"} => Len(Visible) > NGlobals
  /\ call.fn = "LcloneString" =>
       /\ Value(local) = Operand(0)
       /\ Len(TextOf(Operand(0))) = Len(call.text)
  /\ call.fn = "Lsubstring" =>
       /\ Len(Visible) >= NGlobals + 3
       /\ Values!IsImm(Operand(1)) /\ Values!IsImm(Operand(2))
       /\ call.from + call.n <= Len(TextOf(Operand(0)))
  /\ call.fn = "Li__Infix_4343" =>
       /\ Len(Visible) >= NGlobals + 2
       /\ call.n = Len(TextOf(Operand(0))) + Len(TextOf(Operand(1)))

\* Nothing that Begin does is seen, the word it may push included.
LEMMA BeginImplements ==
  ASSUME IInv, CInv, VInv, Mutator, NEW call, NEW locs, NEW words, NEW args, NEW local,
         Begin(call, locs, words, args, local),
         IF call.fn \in {"Bsexp", "Bclosure"} THEN \E x : args = Pushed(stack, x)
         ELSE args = stack,
         CallKnows(call, args[Len(args)], local)
  PROVE  VInv' /\ [Abstract!Next]_Abstract!vars
<1>1. /\ pc = "mutator" /\ pc' \in {"alloc", "exit"} /\ op' = call /\ stack' = args
      /\ cvar' = local /\ obj' = obj /\ ids' = ids
      /\ ~ Compacting /\ ~ Compacting' /\ NamesApart /\ Apart(Memory)
  BY DEF Mutator, Begin, store, Compacting, VInv, NamesApart
<1>2. stack \in Seq(Word) /\ SP = Len(stack) /\ SP \in Nat /\ op.fn = "none"
  BY <1>1, Unregistered DEF IInv, TypeOK, GcTypeOK, SP
<1>3. Memory' = Memory /\ (\A w : Value(w)' = Value(w)) /\ AllCells' = AllCells
  BY <1>1, SameObjects
<1>7. Count' = Count
  BY <1>1 DEF Count
<1>8. Visible = [k \in 1..SP |-> Value(stack[k])]
  BY <1>1, <1>2, ViewHere DEF Scratch
<1>9. Len(args) - Scratch' = SP /\ \A k \in 1..SP : args[k] = stack[k]
  <2>1. CASE call.fn \in {"Bsexp", "Bclosure"}
    <3>1. PICK x : args = Append(stack, x)
      BY <2>1 DEF Pushed
    <3>2. Len(args) = SP + 1 /\ \A k \in 1..SP : args[k] = stack[k]
      <4>1. stack \in Seq(Word \cup {x})
        BY <1>2
      <4>2. QED
        BY <1>2, <3>1, <4>1
    <3>3. Scratch' = 1
      BY <1>1, <2>1 DEF Scratch
    <3>4. QED
      BY <1>2, <3>2, <3>3
  <2>2. CASE call.fn \notin {"Bsexp", "Bclosure"}
    BY <1>1, <1>2, <2>2 DEF Scratch
  <2>3. QED
    BY <2>1, <2>2
<1>10. Visible' = Visible
  <2>1. Visible' = [k \in 1..SP |-> Value(stack[k])']
    BY <1>1, <1>9 DEF Visible, Coming, Compacting
  <2>2. \A k \in 1..SP : stack'[k] = stack[k]
    BY <1>1, <1>9
  <2>3. QED
    BY <1>3, <1>8, <2>1, <2>2
<1>11. CellsInReach' = CellsInReach
  BY <1>3, <1>10 DEF CellsInReach, Values!InReach, Values!Live, Values!Closed
<1>12. NamesApart'
  BY <1>1, <1>3, <1>7 DEF NamesApart, Apart
<1>13. CallMeans'
  <2>1. SUFFICES ASSUME Alive', pc' # "mutator"
                 PROVE  CallMeans'
    BY DEF CallMeans
  <2>2. PICK c, l, top : c = call /\ l = local /\ top = args[Len(args)]
    OBVIOUS
  <2>3. CallKnows(c, top, l)
    BY <2>2
  <2>4. Meaning(cvar)' = Value(l)
    <3>1. Coming(cvar)' = l
      BY <1>1, <2>2 DEF Coming, Compacting
    <3>2. Meaning(cvar)' = Value(l)'
      BY <3>1 DEF Meaning
    <3>3. QED
      BY <1>3, <3>2
  <2>5. c.fn = "Bclosure" => Coming(Arg(0))' = top
    <3>1. ASSUME c.fn = "Bclosure"
          PROVE  Coming(Arg(0))' = top
      <4>1. PICK x : args = Append(stack, x)
        BY <2>2, <3>1 DEF Pushed
      <4>2. Len(args) \in Nat
        <5>1. stack \in Seq(Word \cup {x})
          BY <1>2
        <5>2. QED
          BY <4>1, <5>1
      <4>3. Arg(0)' = args[Len(args)]
        BY <1>1, <4>2 DEF Arg, SP
      <4>4. QED
        BY <1>1, <2>2, <4>3 DEF Coming, Compacting
    <3>2. QED
      BY <3>1
  <2>6. op' = c /\ Visible' = Visible /\ CellsInReach' = CellsInReach
    BY <1>1, <1>10, <1>11, <2>2
  <2>7. QED
    BY <2>3, <2>4, <2>5, <2>6 DEF CallMeans, CallKnows, Operand, TextOf
<1>14. Running /\ (Running' = TRUE \/ Running' = FALSE)
  BY <1>1 DEF Running
<1>15. [Abstract!Next]_Abstract!vars
  <2>1. CASE Running'
    BY <1>7, <1>10, <1>11, <1>14, <2>1 DEF Abstract!vars
  <2>2. CASE ~ Running'
    BY <1>7, <1>10, <1>11, <1>14, <2>2 DEF Abstract!Next, Abstract!Stop
  <2>3. QED
    BY <2>1, <2>2
<1>16. QED
  BY <1>12, <1>13, <1>15 DEF VInv

\* The length runtime.c reads before it calls alloc.
LEMMA TextSeen ==
  ASSUME IInv, CInv, NamesApart, pc = "mutator", NEW i \in 0..(SP - 1), IsString(Arg(i))
  PROVE  /\ Operand(i) = Value(Arg(i))
         /\ Len(TextOf(Operand(i))) = Len(Container(Arg(i)).contents)
         /\ Len(TextOf(Operand(i))) = Container(Arg(i)).len
<1>1. PICK h : h = Header(Arg(i))
  OBVIOUS
<1>2. IsRef(Arg(i)) /\ Container(Arg(i)).type = "STRING"
  BY DEF IsString
<1>3. /\ Container(Arg(i)) = obj[h] /\ obj[h] \in Object /\ WellSized(obj[h])
      /\ Abstract!Arg(i)[2] = obj[h].id
      /\ CellsInReach[obj[h].id] = [type |-> obj[h].type, contents |-> Seen(obj[h])]
      /\ Len(Seen(obj[h])) = Len(obj[h].contents)
  BY <1>1, <1>2, RefSeen
<1>4. Operand(i) = Value(Arg(i)) /\ Abstract!Arg(i) = Value(Arg(i))
  <2>1. Len(Visible) = SP
    BY Unregistered, ViewHere DEF Scratch
  <2>2. QED
    BY <2>1, ArgSeen DEF Operand
<1>5. Len(obj[h].contents) = obj[h].len
  BY <1>2, <1>3 DEF WellSized, NMembers
<1>6. QED
  BY <1>3, <1>4, <1>5 DEF TextOf

\* Barray, LmakeArray, Bsexp and Bclosure.
LEMMA BeginMembersImplement ==
  ASSUME IInv, CInv, VInv, BeginArray \/ BeginSexp \/ BeginClosure \/ BeginMakeArray
  PROVE  VInv' /\ [Abstract!Next]_Abstract!vars
<1>1. Mutator /\ pc = "mutator" /\ NamesApart
  BY DEF BeginArray, BeginSexp, BeginClosure, BeginMakeArray, CanAlloc, Mutator, VInv
<1>2. Len(Visible) = SP /\ SP \in Nat /\ SP = Len(stack) /\ stack \in Seq(Word)
  BY <1>1, Unregistered, ViewHere DEF Scratch, SP, IInv, TypeOK, GcTypeOK
<1>3. CASE BeginArray
  <2>1. PICK n \in ArraySizes : /\ n <= SP - NGlobals
          /\ Begin(Call("Barray", n, <<>>), ArgSlots(SP, 0, n), obj_words("ARRAY", n), stack, cvar)
    BY <1>3 DEF BeginArray
  <2>2. PICK call : call = Call("Barray", n, <<>>)
    OBVIOUS
  <2>3. call.fn = "Barray" /\ call.n = n
    BY <2>2 DEF Call, CallAt
  <2>4. CallKnows(call, stack[Len(stack)], cvar)
    BY <1>2, <2>1, <2>3 DEF CallKnows
  <2>5. QED
    BY <1>1, <2>1, <2>2, <2>3, <2>4, BeginImplements
<1>4. CASE BeginMakeArray
  <2>1. PICK n \in ArraySizes :
          Begin(Call("LmakeArray", n, <<>>), <<>>, obj_words("ARRAY", n), stack, cvar)
    BY <1>4 DEF BeginMakeArray
  <2>2. PICK call : call = Call("LmakeArray", n, <<>>)
    OBVIOUS
  <2>3. call.fn = "LmakeArray" /\ call.n = n
    BY <2>2 DEF Call, CallAt
  <2>4. CallKnows(call, stack[Len(stack)], cvar)
    BY <2>1, <2>3 DEF CallKnows
  <2>5. QED
    BY <1>1, <2>1, <2>2, <2>3, <2>4, BeginImplements
<1>5. CASE BeginSexp
  <2>1. PICK n \in SexpSizes, tag \in Imm : /\ n <= SP - NGlobals
          /\ Begin(Call("Bsexp", n, <<>>), ArgSlots(SP + 1, 0, n), obj_words("SEXP", n),
                   Pushed(stack, tag), cvar)
    BY <1>5 DEF BeginSexp
  <2>2. PICK call, args : call = Call("Bsexp", n, <<>>) /\ args = Pushed(stack, tag)
    OBVIOUS
  <2>3. call.fn = "Bsexp" /\ call.n = n
    BY <2>2 DEF Call, CallAt
  <2>4. CallKnows(call, args[Len(args)], cvar)
    BY <1>2, <2>1, <2>3 DEF CallKnows
  <2>5. QED
    BY <1>1, <2>1, <2>2, <2>3, <2>4, BeginImplements
<1>6. CASE BeginClosure
  <2>1. PICK n \in ClosureSizes, code \in Code : /\ n <= SP - NGlobals
          /\ Begin(Call("Bclosure", n, <<>>), ArgSlots(SP + 1, 1, n),
                   obj_words("CLOSURE", n + 1), Pushed(stack, code), cvar)
    BY <1>6 DEF BeginClosure
  <2>2. PICK call, args : call = Call("Bclosure", n, <<>>) /\ args = Pushed(stack, code)
    OBVIOUS
  <2>3. call.fn = "Bclosure" /\ call.n = n
    BY <2>2 DEF Call, CallAt
  <2>4. args[Len(args)] = code
    <3>1. stack \in Seq(Word \cup {code})
      BY <1>2
    <3>2. QED
      BY <2>2, <3>1 DEF Pushed
  <2>5. CallKnows(call, args[Len(args)], cvar)
    BY <1>2, <2>1, <2>3, <2>4 DEF CallKnows
  <2>6. QED
    BY <1>1, <2>1, <2>2, <2>3, <2>5, BeginImplements
<1>7. QED
  BY <1>3, <1>4, <1>5, <1>6

\* Bstring, Lstring, Lclone, Lsubstring and the concatenation.
LEMMA BeginTextImplement ==
  ASSUME IInv, CInv, VInv,
         BeginString \/ BeginLstring \/ BeginClone \/ BeginCloneString
         \/ BeginSubstring \/ BeginConcat
  PROVE  VInv' /\ [Abstract!Next]_Abstract!vars
<1>1. Mutator /\ pc = "mutator" /\ NamesApart /\ NGlobals \in Nat
  BY NGlobalsAssumption DEF BeginString, BeginLstring, BeginClone, BeginCloneString,
     BeginSubstring, BeginConcat, CanAlloc, Mutator, VInv
<1>2. Len(Visible) = SP /\ SP \in Nat
  BY <1>1, Unregistered, ViewHere DEF Scratch
<1>3. CASE BeginString \/ BeginLstring
  <2>1. PICK fn \in {"Bstring", "Lstring"}, t \in Texts : \E locs, words :
          Begin(Call(fn, 0, t), locs, words, stack, Foreign)
    BY <1>3 DEF BeginString, BeginLstring
  <2>2. PICK call : call = Call(fn, 0, t)
    OBVIOUS
  <2>3. call.fn \in {"Bstring", "Lstring"}
    BY <2>1, <2>2 DEF Call, CallAt
  <2>4. CallKnows(call, stack[Len(stack)], Foreign)
    BY <2>3 DEF CallKnows
  <2>5. QED
    BY <1>1, <2>1, <2>2, <2>3, <2>4, BeginImplements
<1>4. CASE BeginClone
  <2>1. SP > NGlobals /\ Begin(Call("Lclone", 0, <<>>), <<SP>>, Words(Container(Arg(0))), stack, cvar)
    BY <1>4 DEF BeginClone
  <2>2. PICK call : call = Call("Lclone", 0, <<>>)
    OBVIOUS
  <2>3. call.fn = "Lclone"
    BY <2>2 DEF Call, CallAt
  <2>4. CallKnows(call, stack[Len(stack)], cvar)
    BY <1>2, <2>1, <2>3 DEF CallKnows
  <2>5. QED
    BY <1>1, <2>1, <2>2, <2>3, <2>4, BeginImplements
<1>5. CASE BeginCloneString
  <2>1. /\ SP > NGlobals /\ IsString(Arg(0))
        /\ Begin(Call("LcloneString", 0, Container(Arg(0)).contents), <<SP, CLocal>>,
                 obj_words("STRING", Len(Container(Arg(0)).contents)), stack, Arg(0))
    BY <1>5 DEF BeginCloneString, IsString
  <2>2. PICK call : call = Call("LcloneString", 0, Container(Arg(0)).contents)
    OBVIOUS
  <2>3. call.fn = "LcloneString" /\ call.text = Container(Arg(0)).contents
    BY <2>2 DEF Call, CallAt
  <2>4. 0 \in 0..(SP - 1)
    BY <1>1, <1>2, <2>1
  <2>5. Operand(0) = Value(Arg(0)) /\ Len(TextOf(Operand(0))) = Len(call.text)
    BY <1>1, <2>1, <2>3, <2>4, TextSeen
  <2>6. CallKnows(call, stack[Len(stack)], Arg(0))
    BY <1>2, <2>1, <2>3, <2>5 DEF CallKnows
  <2>7. QED
    BY <1>1, <2>1, <2>2, <2>3, <2>6, BeginImplements
<1>6. CASE BeginSubstring
  <2>1. SP >= NGlobals + 3 /\ IsString(Arg(0)) /\ UNBOXED(Arg(1)) /\ UNBOXED(Arg(2))
    BY <1>6 DEF BeginSubstring
  <2>2. 0 \in 0..(SP - 1) /\ 1 \in 0..(SP - 1) /\ 2 \in 0..(SP - 1)
    BY <1>1, <1>2, <2>1
  <2>3. Len(TextOf(Operand(0))) = Container(Arg(0)).len /\ Container(Arg(0)).len \in Nat
    BY <1>1, <2>1, <2>2, TextSeen, ContentsWords
  <2>4. Values!IsImm(Operand(1)) /\ Values!IsImm(Operand(2))
    <3>1. Operand(1) = Value(Arg(1)) /\ Operand(2) = Value(Arg(2))
      BY <1>1, <1>2, <2>2, ArgSeen DEF Operand
    <3>2. Value(Arg(1)) = Values!imm(Arg(1)) /\ Value(Arg(2)) = Values!imm(Arg(2))
      BY <2>1 DEF Value, Plain
    <3>3. QED
      BY <3>1, <3>2 DEF Values!imm, Values!IsImm
  <2>5. CASE \E pp \in 0..Container(Arg(0)).len :
               \E ll \in 0..(Container(Arg(0)).len - pp) :
                 Begin(CallAt("Lsubstring", ll, <<>>, pp), <<SP>>,
                       obj_words("STRING", ll), stack, cvar)
    <3>1. PICK pp \in 0..Container(Arg(0)).len :
            \E ll \in 0..(Container(Arg(0)).len - pp) :
                 Begin(CallAt("Lsubstring", ll, <<>>, pp), <<SP>>,
                       obj_words("STRING", ll), stack, cvar)
      BY <2>5
    <3>2. PICK ll \in 0..(Container(Arg(0)).len - pp) :
                 Begin(CallAt("Lsubstring", ll, <<>>, pp), <<SP>>,
                       obj_words("STRING", ll), stack, cvar)
      BY <3>1
    <3>3. PICK call : call = CallAt("Lsubstring", ll, <<>>, pp)
      OBVIOUS
    <3>4. call.fn = "Lsubstring" /\ call.n = ll /\ call.from = pp
      BY <3>3 DEF CallAt
    <3>5. call.from + call.n <= Len(TextOf(Operand(0)))
      BY <2>3, <3>1, <3>2, <3>4
    <3>6. CallKnows(call, stack[Len(stack)], cvar)
      BY <1>2, <2>1, <2>4, <3>4, <3>5 DEF CallKnows
    <3>7. QED
      BY <1>1, <3>2, <3>3, <3>4, <3>6, BeginImplements
  <2>6. CASE pc' = "exit" /\ UNCHANGED <<store, caller, need, ids, regs>>
    <3>1. /\ obj' = obj /\ stack' = stack /\ op' = op /\ Count' = Count
          /\ ~ Compacting /\ ~ Compacting' /\ ~ Alive' /\ Running /\ ~ Running'
      BY <1>1, <2>6 DEF store, caller, Count, Compacting, Alive, Running
    <3>2. Memory' = Memory /\ (\A w : Value(w)' = Value(w)) /\ AllCells' = AllCells
      BY <1>1, <3>1, SameObjects
    <3>3. Visible' = Visible
      BY <3>1, <3>2 DEF Visible, Scratch, Coming, Compacting
    <3>4. CellsInReach' = CellsInReach
      BY <3>2, <3>3 DEF CellsInReach, Values!InReach, Values!Live, Values!Closed
    <3>5. NamesApart'
      BY <1>1, <3>1, <3>2 DEF NamesApart, Apart
    <3>6. VInv'
      BY <3>1, <3>5 DEF VInv, CallMeans
    <3>7. QED
      BY <3>1, <3>3, <3>4, <3>6 DEF Abstract!Next, Abstract!Stop
  <2>7. QED
    BY <1>6, <2>5, <2>6 DEF BeginSubstring
<1>7. CASE BeginConcat
  <2>1. SP >= NGlobals + 2 /\ IsString(Arg(0)) /\ IsString(Arg(1))
    BY <1>7 DEF BeginConcat
  <2>2. 0 \in 0..(SP - 1) /\ 1 \in 0..(SP - 1)
    BY <1>1, <1>2, <2>1
  <2>3. PICK len : len = Container(Arg(0)).len + Container(Arg(1)).len
    OBVIOUS
  <2>4. Begin(Call("Li__Infix_4343", len, <<>>), <<SP, SP - 1>>,
              obj_words("STRING", len), stack, cvar)
    BY <1>7, <2>3 DEF BeginConcat
  <2>5. PICK call : call = Call("Li__Infix_4343", len, <<>>)
    OBVIOUS
  <2>6. call.fn = "Li__Infix_4343" /\ call.n = len
    BY <2>5 DEF Call, CallAt
  <2>7. call.n = Len(TextOf(Operand(0))) + Len(TextOf(Operand(1)))
    BY <1>1, <2>1, <2>2, <2>3, <2>6, TextSeen
  <2>8. CallKnows(call, stack[Len(stack)], cvar)
    BY <1>2, <2>1, <2>6, <2>7 DEF CallKnows
  <2>9. QED
    BY <1>1, <2>4, <2>5, <2>6, <2>8, BeginImplements
<1>8. QED
  BY <1>3, <1>4, <1>5, <1>6, <1>7

-----------------------------------------------------------------------------
(* A function from the return of alloc on.                                  *)

\* Members for a new cell: what the words of the object mean.
Depicts(members, o) ==
  /\ members = [i \in DOMAIN o.contents |-> members[i]]
  /\ \A i \in DOMAIN o.contents :
       IF i \in Fields(o)
       THEN /\ o.contents[i] \in Word /\ Clean(o.contents[i], DOMAIN obj)
            /\ members[i] = Value(o.contents[i])
       ELSE members[i] = Plain(o.contents[i])

\* The new object is a new cell, with the next name, on top of what is left.
LEMMA NewImplements ==
  ASSUME IInv, CInv, VInv, IInv', CInv', NEW fn, NEW new, NEW nroots, NEW n \in 0..SP,
         Finish(fn, new, nroots, Dropped(n)), new.id = ids, SP - n <= SP - Scratch,
         NEW members, Depicts(members, new),
         \A x \in Values!Entries(members) : Values!IsRef(x) => x[2] \in Reached
  PROVE  VInv' /\ Abstract!New(new.type, members, SubSeq(Visible, 1, SP - n))
<1>1. /\ pc = "fill" /\ pc' = "mutator" /\ ids' = ids /\ NamesApart
      /\ obj' = Put(NewHeader, new) /\ stack' = Pushed(Dropped(n), NewRef)
  BY DEF Finish, VInv
<1>2. /\ heap.begin \in Bases /\ heap.begin \in Int /\ NewHeader \in Int
      /\ ObjSound(obj, heap.begin, NewHeader, Roots)
      /\ stack \in Seq(Word) /\ SP \in Nat /\ SP = Len(stack)
  BY <1>1, FillFacts
<1>3. NewHeader \notin DOMAIN obj /\ NewHeader >= heap.begin
  <2>1. /\ \A h \in DOMAIN obj : heap.begin <= h /\ h < NewHeader
        /\ heap.begin \in DOMAIN obj \cup {NewHeader}
    BY <1>2 DEF ObjSound
  <2>2. NewHeader \notin DOMAIN obj
    BY <1>2, <2>1
  <2>3. NewHeader >= heap.begin
    BY <1>2, <2>1
  <2>4. QED
    BY <2>2, <2>3
<1>4. /\ DOMAIN obj' = DOMAIN obj \cup {NewHeader}
      /\ \A h \in DOMAIN obj : obj'[h] = obj[h]
      /\ obj'[NewHeader] = new
  BY <1>1, <1>3 DEF Put
<1>5. Count = ids - 1 /\ Count' = ids /\ Count \in Nat /\ ids \in Nat /\ ids = Count + 1
  <2>1. Count = ids - 1 /\ Count' = ids /\ Count \in Nat /\ ids \in Nat
    BY <1>1 DEF Count, NamesApart, IInv, TypeOK, GcTypeOK
  <2>2. QED
    BY <2>1
<1>6. NamesHere
  BY <1>1, NamesHereHold DEF Compacting
<1>7. NamesHere'
  <2>1. \A h \in DOMAIN obj : obj'[h].id = obj[h].id /\ obj[h].id \in 1..(ids - 1)
    BY <1>4, <1>5, <1>6 DEF NamesHere
  <2>2. \A h \in DOMAIN obj' : obj'[h].id \in 1..ids
    BY <1>4, <1>5, <2>1
  <2>3. \A g, h \in DOMAIN obj' : obj'[g].id = obj'[h].id => g = h
    <3>1. ASSUME NEW g \in DOMAIN obj', NEW h \in DOMAIN obj', obj'[g].id = obj'[h].id
          PROVE  g = h
      <4>1. CASE g \in DOMAIN obj /\ h \in DOMAIN obj
        BY <1>6, <2>1, <3>1, <4>1 DEF NamesHere
      <4>2. CASE g \in DOMAIN obj /\ h = NewHeader
        BY <1>4, <1>5, <2>1, <3>1, <4>2
      <4>3. CASE g = NewHeader /\ h \in DOMAIN obj
        BY <1>4, <1>5, <2>1, <3>1, <4>3
      <4>4. QED
        BY <1>4, <4>1, <4>2, <4>3
    <3>2. QED
      BY <3>1
  <2>4. QED
    BY <1>5, <2>2, <2>3 DEF NamesHere
<1>8. /\ VInv' /\ WordsHere' /\ CellsHere' /\ Running /\ Running' = Running
      /\ \A x \in Word : Clean(x, DOMAIN obj) => Value(x)' = Value(x)
      /\ Visible' = [k \in 1..SP' |-> Value(stack[k])'] /\ SP' \in Nat /\ SP' = Len(stack')
  BY <1>1, <1>4, <1>7, WrittenView
<1>9. /\ Visible = [k \in 1..(SP - Scratch) |-> Value(stack[k])]
      /\ Scratch \in 0..1 /\ SP - Scratch \in Nat
      /\ \A k \in 1..SP : stack[k] \in Word /\ Clean(stack[k], DOMAIN obj)
  BY <1>1, ViewHere
<1>10. PICK ref, left : ref = NewRef /\ left = SP - n
  OBVIOUS
<1>11. left \in Nat /\ left <= SP - Scratch /\ left <= SP
  BY <1>2, <1>9, <1>10
<1>12. SP' = left + 1 /\ \A k \in 1..SP' : stack'[k] = IF k <= left THEN stack[k] ELSE ref
  BY <1>1, <1>2, <1>8, <1>10, <1>11 DEF Pushed, Dropped
<1>13. Value(ref)' = Values!ref(ids)
  <2>1. ref \in Int /\ ref >= heap.begin /\ Header(ref) = NewHeader
    <3>1. ref = Content(NewHeader)
      BY <1>10 DEF NewRef
    <3>2. ref = NewHeader + 2 /\ Header(ref) = NewHeader
      BY <1>2, <3>1, HeaderContent
    <3>3. QED
      BY <1>2, <1>3, <3>2
  <2>2. IsAddress(ref) /\ ref \in Word
    BY <1>2, <2>1, AddressAbove DEF Word
  <2>3. Header(ref) \in DOMAIN obj' /\ obj'[Header(ref)].id = ids
    BY <1>4, <2>1
  <2>4. QED
    BY <1>8, <2>2, <2>3 DEF WordsHere
<1>14. Visible' = Append(SubSeq(Visible, 1, left), Values!ref(ids))
  <2>1. ASSUME NEW k \in 1..SP'
        PROVE  Visible'[k] = IF k <= left THEN Visible[k] ELSE Values!ref(ids)
    <3>1. PICK x : x = stack'[k]
      OBVIOUS
    <3>2. Visible'[k] = Value(x)'
      BY <1>8, <3>1
    <3>3. CASE k <= left
      <4>1. k \in 1..SP /\ k \in 1..(SP - Scratch) /\ x = stack[k]
        BY <1>2, <1>9, <1>11, <1>12, <3>1, <3>3
      <4>2. x \in Word /\ Clean(x, DOMAIN obj)
        BY <1>9, <4>1
      <4>3. QED
        BY <1>8, <1>9, <3>2, <3>3, <4>1, <4>2
    <3>4. CASE ~ (k <= left)
      BY <1>12, <1>13, <3>1, <3>2, <3>4
    <3>5. QED
      BY <3>3, <3>4
  <2>2. PICK vis, m, r : vis = Visible /\ m = SP - Scratch /\ r = Values!ref(ids)
    OBVIOUS
  <2>3. m \in Nat /\ left \in 0..m /\ vis = [k \in 1..m |-> vis[k]]
    BY <1>9, <1>11, <2>2
  <2>4. Append(SubSeq(vis, 1, left), r) = [k \in 1..(left + 1) |-> IF k <= left THEN vis[k] ELSE r]
    BY <1>11, <2>3, ResultOnTop
  <2>5. Visible' = [k \in 1..(left + 1) |-> IF k <= left THEN Visible[k] ELSE Values!ref(ids)]
    BY <1>8, <1>12, <2>1
  <2>6. QED
    BY <2>2, <2>4, <2>5
<1>15. PICK c : c = ids
  OBVIOUS
<1> DEFINE cell == [type |-> new.type, contents |-> members]
           part == [d \in Reached \cup {c} |-> IF d = c THEN cell ELSE CellsInReach[d]]
<1>16. c \in DOMAIN AllCells' /\ AllCells'[c] = cell
  <2>1. PICK h : h = NewHeader
    OBVIOUS
  <2>2. h \in DOMAIN obj' /\ new = obj'[h]
    BY <1>4, <2>1
  <2>3. \A i \in DOMAIN new.contents :
          members[i] = IF i \in Fields(new) THEN Value(new.contents[i])' ELSE Plain(new.contents[i])
    <3>1. ASSUME NEW i \in DOMAIN new.contents
          PROVE  members[i] = IF i \in Fields(new) THEN Value(new.contents[i])'
                              ELSE Plain(new.contents[i])
      <4>1. PICK x : x = new.contents[i]
        OBVIOUS
      <4>2. i \in Fields(new) => x \in Word /\ Clean(x, DOMAIN obj) /\ members[i] = Value(x)
        BY <4>1 DEF Depicts
      <4>3. i \in Fields(new) => members[i] = Value(x)'
        BY <1>8, <4>2
      <4>4. QED
        BY <4>1, <4>3 DEF Depicts
    <3>2. QED
      BY <3>1
  <2>4. members = [i \in DOMAIN new.contents |-> members[i]]
    BY DEF Depicts
  <2>5. CellsHere'
    BY <1>8
  <2>6. new.id \in DOMAIN AllCells'
        /\ AllCells'[new.id] = [type |-> new.type, contents |-> members]
    BY <2>2, <2>3, <2>4, <2>5, CellAfter
  <2>7. QED
    BY <1>15, <2>6
<1>17. ASSUME NEW d \in Reached
       PROVE  /\ d \in DOMAIN AllCells' /\ AllCells'[d] = CellsInReach[d]
              /\ CellsInReach[d] = AllCells[d] /\ d # c
  <2>1. d \in DOMAIN AllCells /\ CellsInReach[d] = AllCells[d]
    BY <1>1, ReachHere
  <2>2. PICK g \in DOMAIN obj : d = obj[g].id
    BY <1>1, <2>1, ViewHere, CellHere DEF NamesOf
  <2>3. d # c
    BY <1>5, <1>6, <1>15, <2>2 DEF NamesHere
  <2>4. d \in DOMAIN AllCells' /\ AllCells'[d] = AllCells[d]
    BY <1>1, <1>4, <1>8, <2>2, CellKept
  <2>5. QED
    BY <2>1, <2>3, <2>4
<1>18. /\ DOMAIN part = Reached \cup {c} /\ part[c] = cell
       /\ \A d \in Reached : part[d] = CellsInReach[d]
  BY <1>17
<1> HIDE DEF part, cell
<1>19. /\ DOMAIN part \subseteq DOMAIN AllCells'
       /\ \A d \in DOMAIN part : part[d] = AllCells'[d]
  BY <1>16, <1>17, <1>18
<1>20. ASSUME NEW x \in Values!Entries(Visible'), Values!IsRef(x)
       PROVE  x[2] \in DOMAIN part
  <2>1. PICK k \in 1..SP' : x = Value(stack[k])'
    BY <1>8 DEF Values!Entries
  <2>2. PICK y : y = stack'[k]
    OBVIOUS
  <2>3. x = Value(y)'
    BY <2>1, <2>2
  <2>4. CASE k <= left
    <3>1. k \in 1..SP /\ k \in 1..(SP - Scratch) /\ y = stack[k]
      BY <1>2, <1>9, <1>11, <1>12, <2>2, <2>4
    <3>2. x = Value(y)
      BY <1>8, <1>9, <2>3, <3>1
    <3>3. x \in Values!Entries(Visible)
      BY <1>9, <3>1, <3>2 DEF Values!Entries
    <3>4. QED
      BY <1>1, <1>18, <1>20, <3>3, ReachHere
  <2>5. CASE ~ (k <= left)
    <3>1. x = Values!ref(ids)
      BY <1>12, <1>13, <2>2, <2>3, <2>5
    <3>2. QED
      BY <1>15, <1>18, <3>1 DEF Values!ref
  <2>6. QED
    BY <2>4, <2>5
<1>21. ASSUME NEW d \in DOMAIN part, NEW x \in Values!Entries(part[d].contents), Values!IsRef(x)
       PROVE  x[2] \in DOMAIN part
  <2>1. CASE d = c
    <3>1. part[d].contents = members
      BY <1>18, <2>1 DEF cell
    <3>2. QED
      BY <1>18, <1>21, <3>1
  <2>2. CASE d # c
    <3>1. d \in Reached /\ part[d] = AllCells[d]
      BY <1>17, <1>18, <2>2
    <3>2. QED
      BY <1>1, <1>18, <1>21, <3>1, ReachHere
  <2>3. QED
    BY <2>1, <2>2
<1>22. CellsInReach' = Abstract!InReach(part, Visible')
  BY <1>19, <1>20, <1>21, ReachAfter
<1>23. Abstract!New(new.type, members, SubSeq(Visible, 1, left))
  <2>1. Visible' = Append(SubSeq(Visible, 1, left), Abstract!ref(Count + 1))
    BY <1>5, <1>14 DEF Abstract!ref, Values!ref
  <2>2. part = [d \in DOMAIN CellsInReach \cup {Count + 1} |->
                  IF d = Count + 1 THEN [type |-> new.type, contents |-> members]
                  ELSE CellsInReach[d]]
    BY <1>5, <1>15 DEF part, cell, Reached
  <2>3. Count' = Count + 1 /\ Running /\ Running' = Running
    BY <1>5, <1>8
  <2>4. QED
    BY <1>22, <2>1, <2>2, <2>3 DEF Abstract!New
<1>24. QED
  BY <1>8, <1>10, <1>23

\* The last entries of a stack.
LEMMA LastEntries ==
  ASSUME NEW s, NEW m \in Nat, s = [k \in 1..m |-> s[k]], NEW n \in 0..m,
         NEW from, from = m - n + 1
  PROVE  SubSeq(s, from, m) = [j \in 1..n |-> s[m - n + j]]
<1> DEFINE S == {s[k] : k \in 1..m}
<1>1. s \in [1..m -> S]
  OBVIOUS
<1>2. s \in Seq(S) /\ Len(s) = m
  BY <1>1, FunctionIsSeq
<1>3. PICK t : t = SubSeq(s, from, m)
  OBVIOUS
<1> HIDE DEF S
<1>4. Len(t) = n /\ t = [j \in 1..n |-> s[m - n + j]] /\ t \in Seq(S)
  <2>1. PICK b \in Int : b = from
    OBVIOUS
  <2>2. \A i \in b..m : s[i] \in S
    BY <1>1, <2>1
  <2>3. t = SubSeq(s, b, m) /\ m \in Int /\ m - b + 1 = n
    BY <1>3, <2>1
  <2>4. /\ t \in Seq(S)
        /\ Len(t) = IF b <= m THEN m - b + 1 ELSE 0
        /\ \A i \in 1..(m - b + 1) : t[i] = s[b + i - 1]
    <3>1. SubSeq(s, b, m) \in Seq(S)
      BY <2>2, SubSeqProperties
    <3>2. Len(SubSeq(s, b, m)) = IF b <= m THEN m - b + 1 ELSE 0
      BY <2>2, SubSeqProperties
    <3>3. \A i \in 1..(m - b + 1) : SubSeq(s, b, m)[i] = s[b + i - 1]
      BY <2>2, SubSeqProperties
    <3>4. QED
      BY <2>3, <3>1, <3>2, <3>3
  <2>5. Len(t) = n
    BY <2>1, <2>3, <2>4
  <2>6. \A j \in 1..n : t[j] = s[m - n + j]
    BY <2>1, <2>3, <2>4
  <2>7. t = [j \in 1..n |-> t[j]]
    BY <2>4, <2>5, LenProperties
  <2>8. QED
    BY <2>4, <2>5, <2>6, <2>7
<1>5. QED
  BY <1>3, <1>4

\* The stack of a function that has its object.
LEMMA FillView ==
  ASSUME IInv, CInv, VInv, pc = "fill"
  PROVE  /\ SP \in Nat /\ Scratch \in 0..1 /\ SP - Scratch \in Nat
         /\ NamesApart /\ Alive /\ ~ Compacting
         /\ Abstract!SP = SP - Scratch /\ Len(Visible) = SP - Scratch
         /\ Visible = [k \in 1..(SP - Scratch) |-> Visible[k]]
         /\ \A k \in 1..SP : stack[k] \in Word /\ Clean(stack[k], DOMAIN obj)
         /\ \A k \in 1..(SP - Scratch) :
              /\ Visible[k] = Value(stack[k])
              /\ Values!IsRef(Visible[k]) => Visible[k][2] \in Reached
         /\ \A i : Arg(i) = stack[SP - i]
<1>1. NamesApart
  BY DEF VInv
<1>2. /\ SP \in Nat /\ Scratch \in 0..1 /\ SP - Scratch \in Nat /\ Alive /\ ~ Compacting
      /\ Visible = [k \in 1..(SP - Scratch) |-> Value(stack[k])]
      /\ Len(Visible) = SP - Scratch
      /\ \A k \in 1..SP : stack[k] \in Word /\ Clean(stack[k], DOMAIN obj)
  BY <1>1, ViewHere
<1>3. ASSUME NEW k \in 1..(SP - Scratch)
      PROVE  /\ Visible[k] = Value(stack[k])
             /\ Values!IsRef(Visible[k]) => Visible[k][2] \in Reached
  <2>1. Visible[k] = Value(stack[k]) /\ Visible[k] \in Values!Entries(Visible)
    BY <1>2 DEF Values!Entries
  <2>2. QED
    BY <1>1, <2>1, ReachHere
<1>4. Abstract!SP = SP - Scratch
  BY <1>2 DEF Abstract!SP
<1>5. Visible = [k \in 1..(SP - Scratch) |-> Visible[k]]
  BY <1>2
<1>6. QED
  BY <1>1, <1>2, <1>3, <1>4, <1>5 DEF Arg, SP

\* Barray from alloc_array on: the operands become the members, in order.
LEMMA FinishArrayImplements ==
  ASSUME IInv, CInv, VInv, IInv', CInv', FinishArray
  PROVE  VInv' /\ [Abstract!Next]_Abstract!vars
<1> DEFINE n == op.n
           contents == [j \in 1..n |-> Arg(n - j)]
           new == NewObject("ARRAY", n, contents)
           members == [j \in 1..n |-> Visible[SP - n + j]]
<1>1. pc = "fill" /\ op.fn = "Barray" /\ Finish("Barray", new, n, Dropped(n))
  BY DEF FinishArray, Finish
<1>2. /\ SP \in Nat /\ Scratch = 0 /\ SP - Scratch = SP /\ Abstract!SP = SP
      /\ Len(Visible) = SP /\ Visible = [k \in 1..SP |-> Visible[k]]
      /\ \A k \in 1..SP : stack[k] \in Word /\ Clean(stack[k], DOMAIN obj)
      /\ \A k \in 1..SP : /\ Visible[k] = Value(stack[k])
                          /\ Values!IsRef(Visible[k]) => Visible[k][2] \in Reached
      /\ \A i : Arg(i) = stack[SP - i]
  <2>1. Scratch = 0
    BY <1>1 DEF Scratch
  <2>2. SP \in Nat
    BY <1>1, FillView
  <2>3. SP - Scratch = SP
    BY <2>1, <2>2
  <2>4. QED
    BY <1>1, <2>1, <2>2, <2>3, FillView
<1>3. n \in ArraySizes /\ n \in 0..SP /\ n \in Nat /\ n <= SP - NGlobals
  <2>1. n \in ArraySizes /\ n <= SP - NGlobals
    BY <1>1, <1>2 DEF VInv, CallMeans, Alive
  <2>2. QED
    BY <1>2, <2>1, SizesAssumption, NGlobalsAssumption
<1>4. ASSUME NEW j \in 1..n
      PROVE  /\ SP - n + j \in 1..SP /\ contents[j] = stack[SP - n + j]
             /\ members[j] = Visible[SP - n + j]
  <2>1. SP - n + j \in 1..SP /\ SP - (n - j) = SP - n + j
    BY <1>2, <1>3
  <2>2. QED
    BY <1>2, <2>1
<1>5. /\ DOMAIN contents = 1..n /\ new.contents = contents /\ new.type = "ARRAY"
      /\ new.id = ids /\ Fields(new) = 1..n
  BY <1>3 DEF NewObject, Fields, FirstField, NMembers
<1>6. members = [j \in 1..n |-> members[j]]
  OBVIOUS
<1> HIDE DEF contents, new, members
<1>7. Depicts(members, new)
  BY <1>2, <1>4, <1>5, <1>6 DEF Depicts
<1>8. \A x \in Values!Entries(members) : Values!IsRef(x) => x[2] \in Reached
  <2>1. \A j \in 1..n : Values!IsRef(members[j]) => members[j][2] \in Reached
    BY <1>2, <1>4
  <2>2. DOMAIN members = 1..n
    BY <1>6
  <2>3. QED
    BY <2>1, <2>2 DEF Values!Entries
<1>9. SP - n <= SP - Scratch
  BY <1>2, <1>3
<1>10. VInv' /\ Abstract!New("ARRAY", members, SubSeq(Visible, 1, SP - n))
  BY <1>1, <1>3, <1>5, <1>7, <1>8, <1>9, NewImplements
<1>11. Abstract!Top(n) = members
  BY <1>2, <1>3, LastEntries DEF Abstract!Top, members
<1>12. Abstract!Dropped(n) = SubSeq(Visible, 1, SP - n)
  BY <1>2 DEF Abstract!Dropped
<1>13. Abstract!NewArray
  BY <1>2, <1>3, <1>10, <1>11, <1>12 DEF Abstract!NewArray
<1>14. QED
  BY <1>10, <1>13 DEF Abstract!Next

\* The members of a sexp or a closure: a first one and the operands below it.
LEMMA AfterFirstImplements ==
  ASSUME IInv, CInv, VInv, IInv', CInv', NEW fn \in {"Bsexp", "Bclosure"}, NEW n, n = op.n,
         NEW type, NEW len, NEW first, ~ UNBOXED(first),
         Finish(fn, NewObject(type, len, AfterFirst(first)), n, Dropped(n + 1)),
         (type = "SEXP" /\ len = n) \/ (type = "CLOSURE" /\ len = n + 1)
  PROVE  /\ VInv' /\ n \in Nat /\ n <= Abstract!SP - NGlobals
         /\ Abstract!New(type, <<Values!raw(first)>> \o Abstract!Top(n), Abstract!Dropped(n))
<1> DEFINE contents == AfterFirst(first)
           new == NewObject(type, len, contents)
           m == SP - 1
           members == [j \in 1..(n + 1) |->
                         IF j = 1 THEN Values!raw(first) ELSE Visible[m - n + j - 1]]
<1>1. pc = "fill" /\ op.fn = fn
  BY DEF Finish
<1>2. /\ SP \in Nat /\ Scratch = 1 /\ m \in Nat /\ SP - Scratch = m
      /\ Abstract!SP = m /\ Len(Visible) = m /\ Visible = [k \in 1..m |-> Visible[k]]
      /\ \A k \in 1..SP : stack[k] \in Word /\ Clean(stack[k], DOMAIN obj)
      /\ \A k \in 1..m : /\ Visible[k] = Value(stack[k])
                         /\ Values!IsRef(Visible[k]) => Visible[k][2] \in Reached
      /\ \A i : Arg(i) = stack[SP - i]
  <2>1. Scratch = 1
    BY <1>1 DEF Scratch
  <2>2. SP - Scratch = m
    BY <2>1
  <2>3. QED
    BY <1>1, <2>1, <2>2, FillView
<1>3. n \in Nat /\ n <= m - NGlobals /\ n \in 0..m /\ n + 1 \in 0..SP
  <2>1. n <= m - NGlobals
    BY <1>1, <1>2 DEF VInv, CallMeans, Alive
  <2>2. n \in Nat
    BY <1>1, Operands
  <2>3. QED
    BY <1>2, <2>1, <2>2, NGlobalsAssumption
<1>4. ASSUME NEW j \in 2..(n + 1)
      PROVE  /\ m - n + j - 1 \in 1..m /\ m - n + j - 1 \in 1..SP
             /\ contents[j] = stack[m - n + j - 1]
             /\ members[j] = Visible[m - n + j - 1]
  <2>1. /\ m - n + j - 1 \in 1..m /\ m - n + j - 1 \in 1..SP /\ j \in 1..(n + 1) /\ j # 1
        /\ SP - (n - j + 2) = m - n + j - 1
    <3>1. PICK l, i, q : l = SP /\ i = n /\ q = j
      OBVIOUS
    <3>2. l \in Nat /\ i \in Nat /\ i <= l - 1 /\ q \in 2..(i + 1)
      BY <1>2, <1>3, <3>1
    <3>3. /\ l - 1 - i + q - 1 \in 1..(l - 1) /\ l - 1 - i + q - 1 \in 1..l
          /\ q \in 1..(i + 1) /\ q # 1 /\ l - (i - q + 2) = l - 1 - i + q - 1
      BY <3>2
    <3>4. QED
      BY <3>1, <3>3
  <2>2. QED
    BY <1>2, <2>1 DEF AfterFirst
<1>5. /\ DOMAIN contents = 1..(n + 1) /\ contents[1] = first
      /\ new.contents = contents /\ new.type = type /\ new.id = ids /\ Fields(new) = 2..(n + 1)
  BY <1>3 DEF AfterFirst, NewObject, Fields, FirstField, NMembers
<1>6. members = [j \in 1..(n + 1) |-> members[j]] /\ members[1] = Values!raw(first)
  BY <1>3
<1> HIDE DEF contents, new, members
<1>7. <<Values!raw(first)>> \o Abstract!Top(n) = members
  <2>1. PICK t : t = Abstract!Top(n)
    OBVIOUS
  <2>2. t = [j \in 1..n |-> Visible[m - n + j]]
    BY <1>2, <1>3, <2>1, LastEntries DEF Abstract!Top
  <2> DEFINE T == {t[j] : j \in 1..n}
  <2>3. t \in [1..n -> T]
    BY <2>2
  <2>4. t \in Seq(T) /\ Len(t) = n
    BY <1>3, <2>3, FunctionIsSeq
  <2> HIDE DEF T
  <2>5. PICK u, x : u = <<x>> \o t /\ x = Values!raw(first)
    OBVIOUS
  <2>6. Len(u) = n + 1 /\ u = [j \in 1..(n + 1) |-> IF j = 1 THEN x ELSE t[j - 1]]
    BY <1>3, <2>4, <2>5
  <2>7. ASSUME NEW j \in 1..(n + 1)
        PROVE  u[j] = members[j]
    <3>1. CASE j = 1
      BY <1>6, <2>5, <2>6, <3>1
    <3>2. CASE j # 1
      <4>1. j \in 2..(n + 1) /\ j - 1 \in 1..n /\ m - n + (j - 1) = m - n + j - 1
        BY <1>2, <1>3, <3>2
      <4>2. QED
        BY <1>4, <2>2, <2>6, <3>2, <4>1
    <3>3. QED
      BY <3>1, <3>2
  <2>8. u = members
    BY <1>6, <2>6, <2>7
  <2>9. QED
    BY <2>1, <2>5, <2>8
<1>8. Depicts(members, new)
  <2>1. members[1] = Plain(first)
    BY <1>6 DEF Plain
  <2>2. \A j \in 1..(n + 1) : j = 1 \/ j \in 2..(n + 1)
    BY <1>3
  <2>3. QED
    BY <1>2, <1>4, <1>5, <1>6, <2>1, <2>2 DEF Depicts
<1>9. \A x \in Values!Entries(members) : Values!IsRef(x) => x[2] \in Reached
  <2>1. \A j \in 2..(n + 1) : Values!IsRef(members[j]) => members[j][2] \in Reached
    BY <1>2, <1>4
  <2>2. ~ Values!IsRef(members[1])
    <3>1. members[1] = Plain(first)
      BY <1>6 DEF Plain
    <3>2. QED
      BY <3>1, PlainNoRef
  <2>3. \A j \in 1..(n + 1) : j = 1 \/ j \in 2..(n + 1)
    BY <1>3
  <2>4. DOMAIN members = 1..(n + 1)
    BY <1>6
  <2>5. QED
    BY <2>1, <2>2, <2>3, <2>4 DEF Values!Entries
<1>10. PICK k \in 0..SP : k = n + 1
  BY <1>3
<1>11. SP - k <= SP - Scratch /\ SP - k = m - n
  BY <1>2, <1>3, <1>10
<1>12. Finish(fn, new, n, Dropped(k))
  BY <1>10 DEF new, contents
<1>13. VInv' /\ Abstract!New(new.type, members, SubSeq(Visible, 1, SP - k))
  BY <1>5, <1>8, <1>9, <1>11, <1>12, NewImplements
<1>14. Abstract!Dropped(n) = SubSeq(Visible, 1, SP - k)
  BY <1>2, <1>11 DEF Abstract!Dropped
<1>15. QED
  BY <1>2, <1>3, <1>5, <1>7, <1>13, <1>14

\* Bsexp and Bclosure from alloc on.
LEMMA FinishAfterFirstImplements ==
  ASSUME IInv, CInv, VInv, IInv', CInv', FinishSexp \/ FinishClosure
  PROVE  VInv' /\ [Abstract!Next]_Abstract!vars
<1>1. CASE FinishSexp
  <2>1. PICK tag, first : tag = Arg(0) /\ first = UNBOX(tag)
    OBVIOUS
  <2>2. /\ pc = "fill" /\ op.fn = "Bsexp"
        /\ Finish("Bsexp", NewObject("SEXP", op.n, AfterFirst(first)), op.n, Dropped(op.n + 1))
    BY <1>1, <2>1 DEF FinishSexp, Finish
  <2>3. tag \in Imm
    BY <2>1, <2>2 DEF IInv, TagOnTop, UNBOXED
  <2>4. ~ UNBOXED(first)
    BY <2>1, <2>3, UnboxAssumption, ImmAssumption DEF UNBOXED
  <2>5. op.n \in SexpSizes
    BY <2>2 DEF VInv, CallMeans, Alive
  <2>6. PICK n : n = op.n
    OBVIOUS
  <2>7. /\ VInv' /\ n <= Abstract!SP - NGlobals
        /\ Abstract!New("SEXP", <<Values!raw(first)>> \o Abstract!Top(n), Abstract!Dropped(n))
    BY <2>2, <2>4, <2>6, AfterFirstImplements
  <2>8. Abstract!NewSexp
    <3>1. Values!raw(first) = Abstract!raw(UNBOX(tag))
      BY <2>1 DEF Values!raw, Abstract!raw
    <3>2. QED
      BY <2>3, <2>5, <2>6, <2>7, <3>1 DEF Abstract!NewSexp
  <2>9. QED
    BY <2>7, <2>8 DEF Abstract!Next
<1>2. CASE FinishClosure
  <2>1. PICK first : first = Arg(0)
    OBVIOUS
  <2>2. /\ pc = "fill" /\ op.fn = "Bclosure"
        /\ Finish("Bclosure", NewObject("CLOSURE", op.n + 1, AfterFirst(first)),
                  op.n, Dropped(op.n + 1))
    BY <1>2, <2>1 DEF FinishClosure, Finish
  <2>3. op.n \in ClosureSizes /\ first \in Code
    BY <2>1, <2>2 DEF VInv, CallMeans, Alive, Coming
  <2>4. ~ UNBOXED(first)
    BY <2>3, CodeAssumption, ImmAssumption DEF UNBOXED
  <2>5. PICK n : n = op.n
    OBVIOUS
  <2>6. /\ VInv' /\ n <= Abstract!SP - NGlobals
        /\ Abstract!New("CLOSURE", <<Values!raw(first)>> \o Abstract!Top(n), Abstract!Dropped(n))
    BY <2>2, <2>4, <2>5, AfterFirstImplements
  <2>7. Abstract!NewClosure
    <3>1. Values!raw(first) = Abstract!raw(first)
      BY DEF Values!raw, Abstract!raw
    <3>2. QED
      BY <2>3, <2>5, <2>6, <3>1 DEF Abstract!NewClosure
  <2>8. QED
    BY <2>6, <2>7 DEF Abstract!Next
<1>3. QED
  BY <1>1, <1>2

\* The whole stack is what is left of it when nothing is dropped.
LEMMA NothingDropped ==
  ASSUME IInv, CInv, VInv, pc = "fill", Scratch = 0
  PROVE  /\ 0 \in 0..SP /\ Dropped(0) = stack /\ SubSeq(Visible, 1, SP - 0) = Visible
         /\ SP - 0 <= SP - Scratch
<1>1. SP \in Nat /\ SP = Len(stack) /\ stack \in Seq(Word)
  BY FillFacts
<1>2. Dropped(0) = stack
  BY <1>1, SubSeqFull DEF Dropped
<1>3. Len(Visible) = SP /\ Visible = [k \in 1..SP |-> Visible[k]]
  <2>1. SP - Scratch = SP
    BY <1>1
  <2>2. QED
    BY <2>1, FillView
<1> DEFINE S == {Visible[k] : k \in 1..SP}
<1>4. Visible \in [1..SP -> S]
  BY <1>3
<1>5. Visible \in Seq(S)
  BY <1>1, <1>4, FunctionIsSeq
<1> HIDE DEF S
<1>6. SubSeq(Visible, 1, SP) = Visible
  BY <1>3, <1>5, SubSeqFull
<1>7. QED
  BY <1>1, <1>2, <1>6

\* LmakeArray from alloc_array on.
LEMMA FinishMakeArrayImplements ==
  ASSUME IInv, CInv, VInv, IInv', CInv', FinishMakeArray
  PROVE  VInv' /\ [Abstract!Next]_Abstract!vars
<1>1. PICK zero \in Imm :
        Finish("LmakeArray", NewObject("ARRAY", op.n, [j \in 1..op.n |-> zero]), 0, stack)
  BY DEF FinishMakeArray
<1> DEFINE n == op.n
           contents == [j \in 1..n |-> zero]
           new == NewObject("ARRAY", n, contents)
           members == [j \in 1..n |-> Values!imm(zero)]
<1>2. pc = "fill" /\ op.fn = "LmakeArray" /\ Scratch = 0
  BY <1>1 DEF Finish, Scratch
<1>3. n \in ArraySizes /\ n \in Nat
  <2>1. n \in ArraySizes
    BY <1>2 DEF VInv, CallMeans, Alive
  <2>2. QED
    BY <2>1, SizesAssumption
<1>4. /\ DOMAIN contents = 1..n /\ new.contents = contents /\ new.type = "ARRAY"
      /\ new.id = ids /\ Fields(new) = 1..n /\ \A j \in 1..n : contents[j] = zero
  BY <1>3 DEF NewObject, Fields, FirstField, NMembers
<1>5. zero \in Word /\ Clean(zero, DOMAIN obj) /\ Value(zero) = Values!imm(zero)
  BY CleanPlain DEF Word, Value, Plain, UNBOXED
<1>6. members = [j \in 1..n |-> members[j]] /\ \A j \in 1..n : members[j] = Values!imm(zero)
  OBVIOUS
<1>7. Finish("LmakeArray", new, 0, Dropped(0))
  BY <1>1, <1>2, NothingDropped
<1> HIDE DEF contents, new, members
<1>8. Depicts(members, new)
  BY <1>4, <1>5, <1>6 DEF Depicts
<1>9. \A x \in Values!Entries(members) : Values!IsRef(x) => x[2] \in Reached
  <2>1. \A x \in Values!Entries(members) : x = Values!imm(zero)
    BY <1>6 DEF Values!Entries
  <2>2. QED
    BY <2>1 DEF Values!imm, Values!IsRef
<1>10. 0 \in 0..SP /\ SP - 0 <= SP - Scratch /\ SubSeq(Visible, 1, SP - 0) = Visible
  BY <1>2, NothingDropped
<1>11. VInv' /\ Abstract!New(new.type, members, SubSeq(Visible, 1, SP - 0))
  BY <1>4, <1>7, <1>8, <1>9, <1>10, NewImplements
<1>12. Abstract!NewZeros
  <2>1. members = [i \in 1..n |-> Abstract!imm(zero)]
    BY DEF members, Values!imm, Abstract!imm
  <2>2. Abstract!New("ARRAY", members, Visible)
    BY <1>4, <1>10, <1>11
  <2>3. QED
    BY <1>3, <2>1, <2>2 DEF Abstract!NewZeros
<1>13. QED
  BY <1>11, <1>12 DEF Abstract!Next

\* Lclone of anything but a string, from alloc on.
LEMMA FinishCloneImplements ==
  ASSUME IInv, CInv, VInv, IInv', CInv', FinishClone
  PROVE  VInv' /\ [Abstract!Next]_Abstract!vars
<1>1. /\ pc = "fill" /\ op.fn = "Lclone" /\ NamesApart /\ Scratch = 0
      /\ Finish("Lclone", [Container(Arg(0)) EXCEPT !.id = ids], 1, Dropped(1))
  BY DEF FinishClone, Finish, VInv, Scratch
<1>2. RefersToSized(Arg(0), need) /\ ReferredHere
  BY <1>1, FillFacts DEF CallSound, Alive
<1>3. /\ SP \in Nat /\ SP > NGlobals /\ 1 \in 0..SP /\ SP \in 1..SP /\ SP - Scratch = SP
      /\ Arg(0) = stack[SP] /\ Abstract!SP = SP /\ SP - 1 <= SP - Scratch
      /\ Abstract!Arg(0) = Visible[SP] /\ Len(Visible) = SP
  <2>1. SP \in Nat /\ SP - Scratch = SP
    BY <1>1, FillView
  <2>2. Len(Visible) = SP /\ Abstract!SP = SP /\ \A i : Arg(i) = stack[SP - i]
    BY <1>1, <2>1, FillView
  <2>3. SP > NGlobals
    BY <1>1, <2>2 DEF VInv, CallMeans, Alive
  <2>4. SP >= 1 /\ SP - 0 = SP
    BY <2>1, <2>3, NGlobalsAssumption
  <2>5. Abstract!Arg(0) = Visible[SP]
    BY <2>2, <2>4 DEF Abstract!Arg
  <2>6. QED
    BY <1>1, <2>1, <2>2, <2>3, <2>4, <2>5
<1>4. PICK h, o, c : h = Header(Arg(0)) /\ o = obj[h] /\ c = o.id
  OBVIOUS
<1>5. IsAddress(stack[SP]) /\ h = Header(stack[SP])
  BY <1>2, <1>3, <1>4 DEF ReferredHere
<1>6. /\ h \in DOMAIN obj /\ c \in Reached /\ Visible[SP] = Values!ref(c)
      /\ CellsInReach[c] = [type |-> o.type, contents |-> Seen(o)]
      /\ \A i \in DOMAIN o.contents : Values!IsRef(Seen(o)[i]) => Seen(o)[i][2] \in Reached
  <2>1. PICK k \in 1..(SP - Scratch) : k = SP
    BY <1>3
  <2>2. QED
    BY <1>1, <1>4, <1>5, <2>1, OperandSeen
<1>7. /\ Container(Arg(0)) = o /\ o \in Object /\ WellSized(o)
      /\ \A v \in FieldValues(o) : v \in Word /\ Clean(v, DOMAIN obj)
  <2>1. Container(Arg(0)) = o
    BY <1>4, <1>6 DEF Container, At
  <2>2. QED
    BY <1>1, <1>4, <1>6, <2>1, ViewHere
<1>8. PICK new : new = [o EXCEPT !.id = ids]
  OBVIOUS
<1>9. /\ new.type = o.type /\ new.contents = o.contents /\ new.id = ids
      /\ Fields(new) = Fields(o)
  BY <1>7, <1>8 DEF Object, Fields
<1>10. Depicts(Seen(o), new)
  <2>1. \A i \in Fields(o) : o.contents[i] \in FieldValues(o)
    BY DEF FieldValues
  <2>2. QED
    BY <1>7, <1>9, <2>1 DEF Depicts, Seen
<1>11. \A x \in Values!Entries(Seen(o)) : Values!IsRef(x) => x[2] \in Reached
  <2>1. DOMAIN Seen(o) = DOMAIN o.contents
    BY DEF Seen
  <2>2. QED
    BY <1>6, <2>1 DEF Values!Entries
<1>12. Finish("Lclone", new, 1, Dropped(1))
  BY <1>1, <1>7, <1>8
<1>13. VInv' /\ Abstract!New(new.type, Seen(o), SubSeq(Visible, 1, SP - 1))
  BY <1>3, <1>9, <1>10, <1>11, <1>12, NewImplements
<1>14. Abstract!Clone
  <2>1. Abstract!IsRef(Abstract!Arg(0)) /\ Abstract!Arg(0)[2] = c
    BY <1>3, <1>6 DEF Values!ref, Abstract!IsRef
  <2>2. CellsInReach[c].type = new.type /\ CellsInReach[c].contents = Seen(o)
    BY <1>6, <1>9
  <2>3. Abstract!Dropped(1) = SubSeq(Visible, 1, SP - 1)
    BY <1>3 DEF Abstract!Dropped
  <2>4. QED
    BY <1>3, <1>13, <2>1, <2>2, <2>3 DEF Abstract!Clone
<1>15. QED
  BY <1>13, <1>14 DEF Abstract!Next

\* A new string: its characters refer to nothing.
LEMMA NewTextImplements ==
  ASSUME IInv, CInv, VInv, IInv', CInv', NEW fn, NEW len \in Nat, NEW chars,
         DOMAIN chars = 1..len, NEW nroots, NEW n \in 0..SP, Scratch = 0,
         Finish(fn, NewObject("STRING", len, chars), nroots, Dropped(n))
  PROVE  /\ VInv'
         /\ Abstract!New("STRING", [i \in 1..len |-> Plain(chars[i])], SubSeq(Visible, 1, SP - n))
<1> DEFINE members == [i \in 1..len |-> Plain(chars[i])]
           new == NewObject("STRING", len, chars)
<1>1. new.type = "STRING" /\ new.contents = chars /\ new.id = ids /\ Fields(new) = {}
  BY DEF NewObject, Fields
<1>2. members = [i \in 1..len |-> members[i]] /\ \A i \in 1..len : members[i] = Plain(chars[i])
  OBVIOUS
<1>3. SP - n <= SP - Scratch
  <2>1. SP \in Nat
    BY FillView DEF Finish
  <2>2. QED
    BY <2>1
<1> HIDE DEF members, new
<1>4. Depicts(members, new)
  BY <1>1, <1>2 DEF Depicts
<1>5. \A x \in Values!Entries(members) : ~ Values!IsRef(x)
  BY <1>2, PlainNoRef DEF Values!Entries
<1>6. Finish(fn, new, nroots, Dropped(n))
  BY DEF new
<1>7. VInv' /\ Abstract!New(new.type, members, SubSeq(Visible, 1, SP - n))
  BY <1>1, <1>3, <1>4, <1>5, <1>6, NewImplements
<1>8. QED
  BY <1>1, <1>7 DEF members

\* Bstring and Lstring from alloc_string on.
LEMMA FinishStringImplements ==
  ASSUME IInv, CInv, VInv, IInv', CInv', FinishString \/ FinishLstring
  PROVE  VInv' /\ [Abstract!Next]_Abstract!vars
<1>1. pc = "fill" /\ op.fn \in {"Bstring", "Lstring"} /\ Scratch = 0
  BY DEF FinishString, FinishLstring, Finish, Scratch
<1>2. PICK text, len : text = op.text /\ len = Len(op.text)
  OBVIOUS
<1>3. text \in Texts /\ text \in Seq(Imm)
  <2>1. text \in Texts
    BY <1>1, <1>2, FillFacts DEF CallSound, Alive
  <2>2. QED
    BY <2>1, TextsAssumption
<1>4. len \in Nat /\ DOMAIN text = 1..len /\ \A i \in 1..len : text[i] \in Imm
  BY <1>2, <1>3, LenProperties, ElementOfSeq
<1>5. PICK fn, nroots : Finish(fn, NewObject("STRING", len, text), nroots, Dropped(0))
  <2>1. Dropped(0) = stack
    BY <1>1, NothingDropped
  <2>2. CASE FinishString
    BY <1>2, <2>1, <2>2 DEF FinishString
  <2>3. CASE FinishLstring
    BY <1>2, <2>1, <2>3 DEF FinishLstring
  <2>4. QED
    BY <2>2, <2>3
<1>6. 0 \in 0..SP /\ SubSeq(Visible, 1, SP - 0) = Visible
  BY <1>1, NothingDropped
<1>7. /\ VInv'
      /\ Abstract!New("STRING", [i \in 1..len |-> Plain(text[i])], SubSeq(Visible, 1, SP - 0))
  BY <1>1, <1>4, <1>5, <1>6, NewTextImplements
<1>8. [i \in 1..len |-> Plain(text[i])] = [i \in DOMAIN text |-> Abstract!imm(text[i])]
  BY <1>4 DEF Plain, UNBOXED, Values!imm, Abstract!imm
<1>9. Abstract!NewString
  BY <1>3, <1>6, <1>7, <1>8 DEF Abstract!NewString
<1>10. QED
  BY <1>7, <1>9 DEF Abstract!Next

\* An operand that is a string, named by an entry of the stack.
LEMMA StringOperand ==
  ASSUME IInv, CInv, VInv, pc = "fill", NEW v \in Word, RefersToString(v),
         NEW k \in 1..(SP - Scratch), Visible[k] = Value(v),
         NEW text, text = Container(v).contents
  PROVE  /\ Abstract!IsRef(Visible[k]) /\ Abstract!IsString(Visible[k])
         /\ text \in Seq(Word) /\ Len(text) \in Nat /\ DOMAIN text = 1..Len(text)
         /\ CellsInReach[Visible[k][2]].contents = [i \in 1..Len(text) |-> Plain(text[i])]
         /\ Len(TextOf(Visible[k])) = Len(text)
<1>1. NamesApart /\ Alive /\ ~ Compacting
  BY FillView
<1>2. IsAddress(v) /\ Header(v) \in DOMAIN obj /\ obj[Header(v)].type = "STRING"
  BY FillFacts DEF ReferredHere
<1>3. PICK h, o, c : h = Header(v) /\ o = obj[h] /\ c = o.id
  OBVIOUS
<1>4. Container(v) = o /\ h \in DOMAIN obj /\ o.type = "STRING" /\ o.contents = text
  BY <1>2, <1>3 DEF Container, At
<1>5. text \in Seq(Word)
  BY OperandText
<1>6. Len(text) \in Nat /\ DOMAIN text = 1..Len(text)
  BY <1>5, LenProperties
<1>7. Visible[k] = Values!ref(c)
  BY <1>1, <1>2, <1>3, ValueHere
<1>8. c \in Reached /\ Visible[k][2] = c /\ Values!IsRef(Visible[k])
  <2>1. Values!IsRef(Visible[k]) /\ Visible[k][2] = c
    BY <1>7 DEF Values!ref, Values!IsRef
  <2>2. QED
    BY <2>1, FillView
<1>9. CellsInReach[c] = [type |-> o.type, contents |-> Seen(o)]
  <2>1. CellsInReach[c] = AllCells[c]
    BY <1>1, <1>8, ReachHere
  <2>2. QED
    BY <1>1, <1>3, <1>4, <2>1, CellHere
<1>10. Seen(o) = [i \in 1..Len(text) |-> Plain(text[i])]
  <2>1. Fields(o) = {}
    BY <1>4 DEF Fields
  <2>2. QED
    BY <1>4, <1>6, <2>1 DEF Seen
<1>11. TextOf(Visible[k]) = Seen(o) /\ CellsInReach[c].contents = Seen(o)
       /\ CellsInReach[c].type = "STRING"
  BY <1>4, <1>8, <1>9 DEF TextOf
<1>12. Abstract!IsRef(Visible[k]) /\ Abstract!IsString(Visible[k])
  BY <1>8, <1>11 DEF Abstract!IsString, Abstract!IsRef, Values!IsRef
<1>13. Len(Seen(o)) = Len(text)
  <2>1. PICK s, l : s = Seen(o) /\ l = Len(text)
    OBVIOUS
  <2>2. s = [i \in 1..l |-> Plain(text[i])] /\ l \in Nat
    BY <1>6, <1>10, <2>1
  <2>3. Len(s) = l
    BY <2>2
  <2>4. QED
    BY <2>1, <2>3
<1>14. QED
  BY <1>5, <1>6, <1>8, <1>10, <1>11, <1>12, <1>13

\* The operands of a function on texts that has its object.
LEMMA TextCall ==
  ASSUME IInv, CInv, VInv, pc = "fill",
         op.fn \in {"LcloneString", "Lsubstring", "Li__Infix_4343"}
  PROVE  /\ Scratch = 0 /\ SP \in Nat /\ SP - Scratch = SP /\ Abstract!SP = SP
         /\ Len(Visible) = SP /\ CallSound /\ Alive /\ pc # "mutator" /\ cvar \in Word
         /\ op.n \in Nat /\ op.from \in Nat /\ Meaning(cvar) = Value(cvar)
         /\ \A i \in 0..(SP - 1) :
              /\ SP - i \in 1..SP /\ Arg(i) \in Word /\ Visible[SP - i] = Value(Arg(i))
              /\ Abstract!Arg(i) = Visible[SP - i] /\ Operand(i) = Visible[SP - i]
<1>1. Scratch = 0
  BY DEF Scratch
<1>2. SP \in Nat /\ SP - Scratch = SP
  BY <1>1, FillView
<1>3. /\ Abstract!SP = SP /\ Len(Visible) = SP /\ \A i : Arg(i) = stack[SP - i]
      /\ \A k \in 1..SP : stack[k] \in Word /\ Visible[k] = Value(stack[k])
  BY <1>2, FillView
<1>4. ASSUME NEW i \in 0..(SP - 1)
      PROVE  /\ SP - i \in 1..SP /\ Arg(i) \in Word /\ Visible[SP - i] = Value(Arg(i))
             /\ Abstract!Arg(i) = Visible[SP - i] /\ Operand(i) = Visible[SP - i]
  <2>1. SP - i \in 1..SP
    BY <1>2
  <2>2. QED
    BY <1>3, <2>1 DEF Abstract!Arg, Operand
<1>5. CallSound /\ Alive /\ cvar \in Word /\ op.n \in Nat /\ op.from \in Nat
  BY FillFacts, Operands DEF Alive, IInv, TypeOK, GcTypeOK
<1>6. Meaning(cvar) = Value(cvar)
  BY DEF Meaning, Coming
<1>7. QED
  BY <1>1, <1>2, <1>3, <1>4, <1>5, <1>6

\* Lclone of a string from alloc_string on.
LEMMA FinishCloneStringImplements ==
  ASSUME IInv, CInv, VInv, IInv', CInv', FinishCloneString
  PROVE  VInv' /\ [Abstract!Next]_Abstract!vars
<1>1. pc = "fill" /\ op.fn = "LcloneString"
  BY DEF FinishCloneString, Finish
<1>2. /\ Scratch = 0 /\ SP \in Nat /\ SP - Scratch = SP /\ Abstract!SP = SP
      /\ CallSound /\ Alive /\ cvar \in Word /\ Meaning(cvar) = Value(cvar)
      /\ Len(Visible) = SP
  BY <1>1, TextCall
<1>3. SP > NGlobals /\ Meaning(cvar) = Operand(0) /\ Len(TextOf(Operand(0))) = Len(op.text)
  BY <1>1, <1>2 DEF VInv, CallMeans
<1>4. SP >= 1 /\ 0 \in 0..(SP - 1) /\ 1 \in 0..SP /\ SP - 0 = SP /\ SP \in 1..SP
  BY <1>2, <1>3, NGlobalsAssumption
<1>5. Operand(0) = Visible[SP] /\ Abstract!Arg(0) = Visible[SP]
  BY <1>1, <1>4, TextCall
<1>6. RefersToString(cvar)
  BY <1>1, <1>2 DEF CallSound
<1>7. PICK text, len, k : text = Container(cvar).contents /\ len = Len(op.text) /\ k = SP
  OBVIOUS
<1>8. /\ Abstract!IsString(Visible[k])
      /\ Len(text) \in Nat /\ DOMAIN text = 1..Len(text)
      /\ CellsInReach[Visible[k][2]].contents = [i \in 1..Len(text) |-> Plain(text[i])]
      /\ Len(TextOf(Visible[k])) = Len(text)
  <2>1. k \in 1..(SP - Scratch) /\ Visible[k] = Value(cvar)
    BY <1>2, <1>3, <1>4, <1>5, <1>7
  <2>2. QED
    BY <1>1, <1>2, <1>6, <1>7, <2>1, StringOperand
<1>9. len = Len(text) /\ len \in Nat
  BY <1>3, <1>5, <1>7, <1>8
<1>10. PICK chars : chars = Copied(text, len)
  OBVIOUS
<1>11. DOMAIN chars = 1..len /\ \A i \in 1..len : chars[i] = text[i]
  BY <1>8, <1>9, <1>10 DEF Copied
<1>12. Finish("LcloneString", NewObject("STRING", len, chars), 2, Dropped(1))
  BY <1>7, <1>10 DEF FinishCloneString, NewString
<1>13. /\ VInv'
       /\ Abstract!New("STRING", [i \in 1..len |-> Plain(chars[i])], SubSeq(Visible, 1, SP - 1))
  BY <1>2, <1>4, <1>9, <1>11, <1>12, NewTextImplements
<1>14. [i \in 1..len |-> Plain(chars[i])] = CellsInReach[Abstract!Arg(0)[2]].contents
  BY <1>5, <1>7, <1>8, <1>9, <1>11
<1>15. Abstract!Clone
  <2>1. Abstract!Dropped(1) = SubSeq(Visible, 1, SP - 1)
    BY <1>2 DEF Abstract!Dropped
  <2>2. Abstract!IsRef(Abstract!Arg(0)) /\ CellsInReach[Abstract!Arg(0)[2]].type = "STRING"
    BY <1>5, <1>7, <1>8 DEF Abstract!IsString
  <2>3. QED
    BY <1>2, <1>3, <1>13, <1>14, <2>1, <2>2 DEF Abstract!Clone
<1>16. QED
  BY <1>13, <1>15 DEF Abstract!Next

\* A part of a sequence.
LEMMA PartOf ==
  ASSUME NEW s, NEW m \in Nat, s = [k \in 1..m |-> s[k]], NEW i \in 1..(m + 1),
         NEW j \in (i - 1)..m
  PROVE  /\ DOMAIN SubSeq(s, i, j) = 1..(j - i + 1)
         /\ \A k \in 1..(j - i + 1) : SubSeq(s, i, j)[k] = s[i + k - 1]
         /\ SubSeq(s, i, j) = [k \in DOMAIN SubSeq(s, i, j) |-> SubSeq(s, i, j)[k]]
<1> DEFINE S == {s[k] : k \in 1..m}
<1>1. s \in [1..m -> S]
  OBVIOUS
<1>2. \A k \in i..j : s[k] \in S
  BY <1>1
<1>3. i \in Int /\ j \in Int
  OBVIOUS
<1> HIDE DEF S
<1>4. SubSeq(s, i, j) \in Seq(S)
  BY <1>2, <1>3, SubSeqProperties
<1>5. Len(SubSeq(s, i, j)) = IF i <= j THEN j - i + 1 ELSE 0
  BY <1>2, <1>3, SubSeqProperties
<1>6. \A k \in 1..(j - i + 1) : SubSeq(s, i, j)[k] = s[i + k - 1]
  BY <1>2, <1>3, SubSeqProperties
<1>7. PICK t : t = SubSeq(s, i, j)
  OBVIOUS
<1>8. Len(t) = j - i + 1
  BY <1>5, <1>7
<1>9. DOMAIN t = 1..(j - i + 1) /\ t = [k \in DOMAIN t |-> t[k]]
  BY <1>4, <1>7, <1>8, LenProperties
<1>10. QED
  BY <1>6, <1>7, <1>9

\* Lsubstring from alloc_string on.
LEMMA FinishSubstringImplements ==
  ASSUME IInv, CInv, VInv, IInv', CInv', FinishSubstring
  PROVE  VInv' /\ [Abstract!Next]_Abstract!vars
<1>1. pc = "fill" /\ op.fn = "Lsubstring"
  BY DEF FinishSubstring, Finish
<1>2. /\ Scratch = 0 /\ SP \in Nat /\ SP - Scratch = SP /\ Abstract!SP = SP
      /\ CallSound /\ Alive /\ Len(Visible) = SP /\ op.n \in Nat /\ op.from \in Nat
  BY <1>1, TextCall
<1>3. /\ SP >= NGlobals + 3 /\ Values!IsImm(Operand(1)) /\ Values!IsImm(Operand(2))
      /\ op.from + op.n <= Len(TextOf(Operand(0)))
  BY <1>1, <1>2 DEF VInv, CallMeans
<1>4. /\ 0 \in 0..(SP - 1) /\ 1 \in 0..(SP - 1) /\ 2 \in 0..(SP - 1) /\ 3 \in 0..SP
      /\ SP - 0 = SP /\ SP \in 1..SP
  BY <1>2, <1>3, NGlobalsAssumption
<1>5. /\ Operand(0) = Visible[SP] /\ Abstract!Arg(0) = Visible[SP] /\ Arg(0) \in Word
      /\ Visible[SP] = Value(Arg(0))
      /\ Abstract!Arg(1) = Operand(1) /\ Abstract!Arg(2) = Operand(2)
  BY <1>1, <1>4, TextCall
<1>6. RefersToString(Arg(0))
  BY <1>1, <1>2 DEF CallSound
<1>7. PICK text, n, from, k, v : /\ text = Container(Arg(0)).contents /\ n = op.n
                                 /\ from = op.from /\ k = SP /\ v = Arg(0)
  OBVIOUS
<1>8. PICK len, cell : len = Len(text) /\ cell = CellsInReach[Visible[k][2]].contents
  OBVIOUS
<1>9. /\ Abstract!IsString(Visible[k])
      /\ text \in Seq(Word) /\ len \in Nat /\ DOMAIN text = 1..len
      /\ cell = [i \in 1..len |-> Plain(text[i])]
      /\ Len(TextOf(Visible[k])) = len
  <2>1. k \in 1..(SP - Scratch) /\ Visible[k] = Value(v) /\ v \in Word /\ RefersToString(v)
    BY <1>2, <1>4, <1>5, <1>6, <1>7
  <2>2. text = Container(v).contents
    BY <1>7
  <2>3. /\ Abstract!IsString(Visible[k])
        /\ text \in Seq(Word) /\ Len(text) \in Nat /\ DOMAIN text = 1..Len(text)
        /\ CellsInReach[Visible[k][2]].contents = [i \in 1..Len(text) |-> Plain(text[i])]
        /\ Len(TextOf(Visible[k])) = Len(text)
    BY <1>1, <2>1, <2>2, StringOperand
  <2>4. QED
    BY <1>8, <2>3
<1>10. n \in Nat /\ from \in Nat /\ from + n <= len
  BY <1>2, <1>3, <1>5, <1>7, <1>9
<1>11. PICK part : part = SubSeq(text, from + 1, len)
  OBVIOUS
<1>12. DOMAIN part = 1..(len - from) /\ \A i \in 1..(len - from) : part[i] = text[from + i]
  <2>1. PICK first : first = from + 1
    OBVIOUS
  <2>2. first \in 1..(len + 1) /\ len \in (first - 1)..len
    BY <1>9, <1>10, <2>1
  <2>3. text = [i \in 1..len |-> text[i]]
    BY <1>8, <1>9, LenProperties
  <2>4. /\ DOMAIN SubSeq(text, first, len) = 1..(len - first + 1)
        /\ \A i \in 1..(len - first + 1) : SubSeq(text, first, len)[i] = text[first + i - 1]
    BY <1>9, <2>2, <2>3, PartOf
  <2>5. part = SubSeq(text, first, len) /\ len - first + 1 = len - from
    BY <1>9, <1>10, <1>11, <2>1
  <2>6. DOMAIN part = 1..(len - from)
    BY <2>4, <2>5
  <2>7. ASSUME NEW i \in 1..(len - from)
        PROVE  part[i] = text[from + i]
    <3>1. i \in 1..(len - first + 1) /\ first + i - 1 = from + i
      BY <1>9, <1>10, <2>1, <2>5
    <3>2. QED
      BY <2>4, <2>5, <3>1
  <2>8. QED
    BY <2>6, <2>7
<1>13. PICK chars : chars = Copied(part, n)
  OBVIOUS
<1>14. DOMAIN chars = 1..n /\ \A i \in 1..n : chars[i] = text[from + i]
  <2>1. \A i \in 1..n : i \in 1..(len - from)
    BY <1>9, <1>10
  <2>2. QED
    BY <1>12, <1>13, <2>1 DEF Copied
<1>15. Finish("Lsubstring", NewObject("STRING", n, chars), 1, Dropped(3))
  BY <1>7, <1>8, <1>11, <1>13 DEF FinishSubstring, NewString
<1>16. /\ VInv'
       /\ Abstract!New("STRING", [i \in 1..n |-> Plain(chars[i])], SubSeq(Visible, 1, SP - 3))
  BY <1>2, <1>4, <1>10, <1>14, <1>15, NewTextImplements
<1>17. PICK i \in 1..(len + 1), j \in Nat : i = from + 1 /\ j = from + n
  BY <1>9, <1>10
<1>18. j \in (i - 1)..len
  BY <1>9, <1>10, <1>17
<1>19. [h \in 1..n |-> Plain(chars[h])] = SubSeq(cell, i, j)
  <2>1. PICK s : s = SubSeq(cell, i, j)
    OBVIOUS
  <2>2. cell = [h \in 1..len |-> cell[h]]
    BY <1>9
  <2>3. /\ DOMAIN SubSeq(cell, i, j) = 1..(j - i + 1)
        /\ \A h \in 1..(j - i + 1) : SubSeq(cell, i, j)[h] = cell[i + h - 1]
        /\ SubSeq(cell, i, j) = [h \in DOMAIN SubSeq(cell, i, j) |-> SubSeq(cell, i, j)[h]]
    <3>1. len \in Nat
      BY <1>9
    <3>2. QED
      BY <3>1, <1>18, <2>2, PartOf
  <2>4. j - i + 1 = n /\ \A h \in 1..n : i + h - 1 = from + h /\ from + h \in 1..len
    BY <1>9, <1>10, <1>17
  <2>5. DOMAIN s = 1..n /\ s = [h \in DOMAIN s |-> s[h]]
    BY <2>1, <2>3, <2>4
  <2>6. ASSUME NEW h \in 1..n
        PROVE  s[h] = Plain(chars[h])
    <3>1. s[h] = cell[from + h] /\ from + h \in 1..len
      BY <2>1, <2>3, <2>4
    <3>2. QED
      BY <1>9, <1>14, <3>1
  <2>7. QED
    BY <2>1, <2>5, <2>6
<1>20. Len(cell) = len
  BY <1>9
<1>21. Abstract!Substring
  <2>1. Abstract!Dropped(3) = SubSeq(Visible, 1, SP - 3)
    BY <1>2 DEF Abstract!Dropped
  <2>2. Abstract!New("STRING", SubSeq(cell, i, j), Abstract!Dropped(3))
    BY <1>16, <1>19, <2>1
  <2>3. cell = CellsInReach[Abstract!Arg(0)[2]].contents /\ Abstract!IsString(Abstract!Arg(0))
    BY <1>5, <1>7, <1>8, <1>9
  <2>4. Abstract!IsImm(Abstract!Arg(1)) /\ Abstract!IsImm(Abstract!Arg(2))
    BY <1>3, <1>5 DEF Values!IsImm, Abstract!IsImm
  <2>5. \E a \in 1..(Len(cell) + 1) : \E b \in (a - 1)..Len(cell) :
          Abstract!New("STRING", SubSeq(cell, a, b), Abstract!Dropped(3))
    BY <1>17, <1>18, <1>20, <2>2
  <2>6. QED
    BY <1>2, <1>3, <2>3, <2>4, <2>5 DEF Abstract!Substring
<1>22. QED
  BY <1>16, <1>21 DEF Abstract!Next

\* A cell whose members are the characters of a text.
Spells(cell, text) == cell = [j \in 1..Len(text) |-> Plain(text[j])]

\* Concatenation from alloc_string on.
LEMMA FinishConcatImplements ==
  ASSUME IInv, CInv, VInv, IInv', CInv', FinishConcat
  PROVE  VInv' /\ [Abstract!Next]_Abstract!vars
<1>1. pc = "fill" /\ op.fn = "Li__Infix_4343"
  BY DEF FinishConcat, Finish
<1>2. /\ Scratch = 0 /\ SP \in Nat /\ SP - Scratch = SP /\ Abstract!SP = SP
      /\ CallSound /\ Alive /\ Len(Visible) = SP /\ op.n \in Nat
  BY <1>1, TextCall
<1>3. /\ SP >= NGlobals + 2
      /\ op.n = Len(TextOf(Operand(0))) + Len(TextOf(Operand(1)))
  BY <1>1, <1>2 DEF VInv, CallMeans
<1>4. 0 \in 0..(SP - 1) /\ 1 \in 0..(SP - 1) /\ 2 \in 0..SP
  BY <1>2, <1>3, NGlobalsAssumption
<1>5. RefersToString(Arg(0)) /\ RefersToString(Arg(1))
  BY <1>1, <1>2 DEF CallSound
<1>6. ASSUME NEW i \in 0..1, NEW text, text = Container(Arg(i)).contents,
             NEW cell, cell = CellsInReach[Abstract!Arg(i)[2]].contents
      PROVE  /\ Abstract!IsString(Abstract!Arg(i)) /\ text \in Seq(Word)
             /\ Len(text) \in Nat /\ DOMAIN text = 1..Len(text)
             /\ Spells(cell, text) /\ Len(TextOf(Operand(i))) = Len(text)
  <2>1. i \in 0..(SP - 1)
    BY <1>4
  <2>2. PICK k, v : k = SP - i /\ v = Arg(i)
    OBVIOUS
  <2>3. /\ k \in 1..(SP - Scratch) /\ v \in Word /\ Visible[k] = Value(v)
        /\ Abstract!Arg(i) = Visible[k] /\ Operand(i) = Visible[k]
    BY <1>1, <1>2, <2>1, <2>2, TextCall
  <2>4. RefersToString(v) /\ text = Container(v).contents
    BY <1>5, <1>6, <2>2
  <2>5. /\ Abstract!IsString(Visible[k])
        /\ text \in Seq(Word) /\ Len(text) \in Nat /\ DOMAIN text = 1..Len(text)
        /\ CellsInReach[Visible[k][2]].contents = [j \in 1..Len(text) |-> Plain(text[j])]
        /\ Len(TextOf(Visible[k])) = Len(text)
    BY <1>1, <2>3, <2>4, StringOperand
  <2>6. QED
    BY <1>6, <2>3, <2>5 DEF Spells
<1>7. PICK one, two, a, b : /\ one = Container(Arg(0)).contents
                            /\ two = Container(Arg(1)).contents
                            /\ a = CellsInReach[Abstract!Arg(0)[2]].contents
                            /\ b = CellsInReach[Abstract!Arg(1)[2]].contents
  OBVIOUS
<1>8. PICK m, n : m = Len(one) /\ n = Len(two)
  OBVIOUS
<1>9. /\ Abstract!IsString(Abstract!Arg(0)) /\ one \in Seq(Word) /\ m \in Nat
      /\ a = [j \in 1..m |-> Plain(one[j])] /\ Len(TextOf(Operand(0))) = m
  <2>1. PICK i \in 0..1 : i = 0
    OBVIOUS
  <2>2. one = Container(Arg(i)).contents /\ a = CellsInReach[Abstract!Arg(i)[2]].contents
    BY <1>7, <2>1
  <2>3. /\ Abstract!IsString(Abstract!Arg(i)) /\ one \in Seq(Word) /\ Len(one) \in Nat
        /\ Spells(a, one) /\ Len(TextOf(Operand(i))) = Len(one)
    BY <1>6, <2>2
  <2>4. QED
    BY <1>8, <2>1, <2>3 DEF Spells
<1>10. /\ Abstract!IsString(Abstract!Arg(1)) /\ two \in Seq(Word) /\ n \in Nat
       /\ b = [j \in 1..n |-> Plain(two[j])] /\ Len(TextOf(Operand(1))) = n
  <2>1. PICK i \in 0..1 : i = 1
    OBVIOUS
  <2>2. two = Container(Arg(i)).contents /\ b = CellsInReach[Abstract!Arg(i)[2]].contents
    BY <1>7, <2>1
  <2>3. /\ Abstract!IsString(Abstract!Arg(i)) /\ two \in Seq(Word) /\ Len(two) \in Nat
        /\ Spells(b, two) /\ Len(TextOf(Operand(i))) = Len(two)
    BY <1>6, <2>2
  <2>4. QED
    BY <1>8, <2>1, <2>3 DEF Spells
<1>11. PICK len : len = op.n
  OBVIOUS
<1>12. len = m + n /\ len \in Nat
  <2>1. len = m + n
    BY <1>3, <1>9, <1>10, <1>11
  <2>2. QED
    BY <1>9, <1>10, <2>1
<1>13. PICK both, chars : both = one \o two /\ chars = Copied(both, len)
  OBVIOUS
<1>14. DOMAIN both = 1..(m + n)
       /\ \A j \in 1..(m + n) : both[j] = IF j <= m THEN one[j] ELSE two[j - m]
  <2>1. /\ both \in Seq(Word) /\ Len(both) = m + n
        /\ \A j \in 1..(m + n) : both[j] = IF j <= m THEN one[j] ELSE two[j - m]
    BY <1>8, <1>9, <1>10, <1>13, ConcatProperties
  <2>2. QED
    BY <2>1, LenProperties
<1>15. DOMAIN chars = 1..len
       /\ \A j \in 1..len : chars[j] = IF j <= m THEN one[j] ELSE two[j - m]
  BY <1>12, <1>13, <1>14 DEF Copied
<1>16. Finish("Li__Infix_4343", NewObject("STRING", len, chars), 2, Dropped(2))
  BY <1>7, <1>11, <1>13 DEF FinishConcat, NewString
<1>17. /\ VInv'
       /\ Abstract!New("STRING", [i \in 1..len |-> Plain(chars[i])], SubSeq(Visible, 1, SP - 2))
  <2>1. PICK k \in 0..SP : k = 2
    BY <1>4
  <2>2. Finish("Li__Infix_4343", NewObject("STRING", len, chars), 2, Dropped(k))
    BY <1>16, <2>1
  <2>3. /\ VInv'
        /\ Abstract!New("STRING", [i \in 1..len |-> Plain(chars[i])],
                        SubSeq(Visible, 1, SP - k))
    BY <1>2, <1>12, <1>15, <2>2, NewTextImplements
  <2>4. QED
    BY <2>1, <2>3
<1>18. [i \in 1..len |-> Plain(chars[i])] = a \o b
  <2> DEFINE S == {a[j] : j \in 1..m} \cup {b[j] : j \in 1..n}
  <2>1. a \in [1..m -> S] /\ b \in [1..n -> S]
    BY <1>9, <1>10
  <2> HIDE DEF S
  <2>2. a \in Seq(S) /\ Len(a) = m /\ b \in Seq(S) /\ Len(b) = n
    <3>1. m \in Nat /\ n \in Nat
      BY <1>9, <1>10
    <3>2. QED
      BY <2>1, <3>1, FunctionIsSeq
  <2>3. PICK s : s = a \o b
    OBVIOUS
  <2>4. /\ s \in Seq(S) /\ Len(s) = m + n
        /\ \A j \in 1..(m + n) : s[j] = IF j <= m THEN a[j] ELSE b[j - m]
    BY <1>9, <1>10, <2>2, <2>3, ConcatProperties
  <2>5. DOMAIN s = 1..len /\ s = [j \in 1..len |-> s[j]]
    BY <1>12, <2>4, LenProperties
  <2>6. ASSUME NEW j \in 1..len
        PROVE  s[j] = Plain(chars[j])
    <3>1. CASE j <= m
      <4>1. j \in 1..m
        BY <1>9, <1>12, <3>1
      <4>2. s[j] = a[j] /\ chars[j] = one[j]
        BY <1>12, <1>15, <2>4, <3>1
      <4>3. QED
        BY <1>9, <4>1, <4>2
    <3>2. CASE ~ (j <= m)
      <4>1. j - m \in 1..n
        BY <1>9, <1>10, <1>12, <3>2
      <4>2. s[j] = b[j - m] /\ chars[j] = two[j - m]
        BY <1>12, <1>15, <2>4, <3>2
      <4>3. QED
        BY <1>10, <4>1, <4>2
    <3>3. QED
      BY <3>1, <3>2
  <2>7. QED
    BY <2>3, <2>5, <2>6
<1>19. Abstract!Concat
  <2>1. Abstract!Dropped(2) = SubSeq(Visible, 1, SP - 2)
    BY <1>2 DEF Abstract!Dropped
  <2>2. QED
    BY <1>2, <1>3, <1>7, <1>9, <1>10, <1>17, <1>18, <2>1 DEF Abstract!Concat
<1>20. QED
  BY <1>17, <1>19 DEF Abstract!Next

-----------------------------------------------------------------------------
(* The whole machine.                                                       *)

\* Every step of the program and of the runtime functions.
LEMMA MutatorImplements ==
  ASSUME IInv, CInv, VInv, IInv', CInv', MutatorStep
  PROVE  VInv' /\ [Abstract!Next]_Abstract!vars
BY StackImplements, ElemImplements, StaImplements, BeginMembersImplement, BeginTextImplement,
   FinishArrayImplements, FinishAfterFirstImplements, FinishStringImplements,
   FinishCloneImplements, FinishCloneStringImplements, FinishMakeArrayImplements,
   FinishSubstringImplements, FinishConcatImplements
DEF MutatorStep

\* Where nothing changes nothing is seen.
LEMMA StutterImplements ==
  ASSUME IInv, VInv, UNCHANGED vars
  PROVE  VInv' /\ [Abstract!Next]_Abstract!vars
<1>1. /\ UNCHANGED <<heap, old, obj, stack, extra, cvar, op, need, ids, pc>>
      /\ UNCHANGED <<root, head, tail, cur, todo, iter, free>>
  BY DEF vars, store, caller, regs
<1>2. /\ Compacting' = Compacting /\ Marked' = Marked /\ \A h : Target(h)' = Target(h)
      /\ \A v : Fix(v)' = Fix(v) /\ Coming(v)' = Coming(v)
  <2>1. /\ Compacting' = Compacting /\ Marked' = Marked /\ \A h : Target(h)' = Target(h)
    BY <1>1 DEF Compacting, Marked, Target, At
  <2>2. \A v : Fix(v)' = Fix(v)
    BY <1>1, <2>1 DEF Fix, InOld, Moved
  <2>3. QED
    BY <1>1, <2>1, <2>2 DEF Coming
<1>3. Memory' = Memory
  <2>1. \A o : Updated(o)' = Updated(o)
    BY <1>2 DEF Updated
  <2>2. Live' = Live
    BY <1>1, <1>2 DEF Live, Settled
  <2>3. \A h : Image(h)' = Image(h)
    BY <1>1, <1>2, <2>1 DEF Image, Place, ComingContents
  <2>4. QED
    BY <2>2, <2>3 DEF Memory
<1>4. Unseen
  BY <1>1, <1>2, <1>3 DEF Unseen, SP
<1>5. Apart(Memory) /\ SP \in Nat
  BY DEF VInv, NamesApart, IInv, TypeOK, GcTypeOK, SP
<1>6. /\ Visible' = Visible /\ CellsInReach' = CellsInReach
      /\ op.fn = "LcloneString" => Meaning(cvar)' = Meaning(cvar)
  BY <1>4, <1>5, UnseenView
<1>7. Count' = Count /\ Running' = Running /\ (Alive' <=> Alive)
  BY <1>1 DEF Count, Running, Alive
<1>8. NamesApart'
  BY <1>3, <1>7 DEF VInv, NamesApart, Apart
<1>9. Coming(Arg(0))' = Coming(Arg(0))
  BY <1>1, <1>2 DEF Arg, SP
<1>10. CallMeans'
  BY <1>1, <1>6, <1>7, <1>9 DEF VInv, CallMeans, Operand, TextOf
<1>11. QED
  BY <1>6, <1>7, <1>8, <1>10 DEF VInv, Abstract!vars

\* The runtime starts with nothing but globals that are not set.
LEMMA ViewInit ==
  ASSUME Init
  PROVE  VInv /\ Abstract!Init
<1>1. /\ DOMAIN obj = {} /\ stack = [k \in 1..NGlobals |-> Foreign] /\ pc = "mutator"
      /\ ids = 0 /\ op.fn = "none" /\ NGlobals \in Nat
  BY NGlobalsAssumption DEF Init, GcInit, NoOp, Call, CallAt
<1>2. Memory = {} /\ Live = {} /\ ~ Compacting /\ Count = 0
  BY <1>1 DEF Memory, Live, Compacting, Count
<1>3. NamesApart
  BY <1>2 DEF NamesApart, Apart
<1>4. CallMeans
  BY <1>1 DEF CallMeans
<1>5. Value(Foreign) = Values!raw(0)
  BY <1>1, <1>2, ImmAssumption DEF Value, Holders, Plain, UNBOXED, Foreign
<1>6. SP = NGlobals
  BY <1>1 DEF SP
<1>7. Visible = [k \in 1..NGlobals |-> Values!raw(0)]
  BY <1>1, <1>5, <1>6 DEF Visible, Coming, Scratch, SP
<1>8. DOMAIN AllCells = {}
  BY <1>2 DEF AllCells
<1>9. CellsInReach = <<>>
  BY <1>8 DEF CellsInReach, Values!InReach, Values!Live
<1>10. Abstract!Init
  BY <1>1, <1>2, <1>7, <1>9 DEF Abstract!Init, Values!raw, Abstract!raw, Running
<1>11. QED
  BY <1>3, <1>4, <1>10 DEF VInv

\* Every step keeps what the view rests on, and is a step of LamaStore or none.
LEMMA ViewNext ==
  ASSUME IInv, CInv, VInv, [Next]_vars
  PROVE  VInv' /\ [Abstract!Next]_Abstract!vars
<1>1. IInv' /\ CInv'
  BY IInvNext, CInvNext
<1>2. CASE MutatorStep
  BY <1>1, <1>2, MutatorImplements
<1>3. CASE GcStep
  BY <1>1, <1>3, CollectorImplements
<1>4. CASE UNCHANGED vars
  BY <1>4, StutterImplements
<1>5. QED
  BY <1>2, <1>3, <1>4 DEF Next

\* No two objects have the same name, and what a runtime function read of its
\* operands before it called alloc is true of them when alloc returns.
THEOREM ViewHolds == Spec => []VInv
<1>1. Init => IInv /\ CInv /\ VInv
  BY IInvInit, CInvInit, ViewInit
<1>2. IInv /\ CInv /\ VInv /\ [Next]_vars => (IInv /\ CInv /\ VInv)'
  BY IInvNext, CInvNext, ViewNext
<1>3. QED
  BY <1>1, <1>2, PTL DEF Spec

\* A program cannot tell the heap from a store without addresses and without a
\* collector: gc.c moves, marks and reclaims objects and runtime.c fills words
\* in, and every step is one of LamaStore, or none.
THEOREM ImplementsTheStore == Spec => ImplementsStore
<1>1. Init => Abstract!Init
  BY ViewInit
<1>2. IInv /\ CInv /\ VInv /\ [Next]_vars => [Abstract!Next]_Abstract!vars
  BY ViewNext
<1>3. QED
  BY <1>1, <1>2, InvariantHolds, ViewHolds, PTL DEF Spec, ImplementsStore, Abstract!Spec
=============================================================================
