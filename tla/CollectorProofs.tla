---------------------------- MODULE CollectorProofs ----------------------------
(***************************************************************************)
(* What the runtime and its collector promise, for every value of the      *)
(* constants: any heap, any graph of objects, any roots, any chunks mmap   *)
(* may return, any number of collections.                                  *)
(*                                                                         *)
(* The first part is about Runtime: types, the discipline of the extra     *)
(* roots, and that alloc never returns NULL.  The three need one another.  *)
(* The types of what a function stores in a new object depend on its       *)
(* operands being on the stack, which is part of ExtraRootsBalanced; that  *)
(* the tag of a sexp is still an integer after a collection is TagOnTop;   *)
(* that the collector puts only addresses of fields in its queue is        *)
(* Scanning.  Their conjunction, IInv, is inductive.  Room adds the        *)
(* arithmetic of compact_phase.                                            *)
(*                                                                         *)
(* In the second part the steps of the program, the mark phase and the     *)
(* compact phase keep the invariant of CollectorInvariant; InvariantHolds  *)
(* puts them together.  Each property of Gc is then a consequence of the   *)
(* invariant in one state, SlidingSparesTheRest one of a step from such a  *)
(* state.                                                                  *)
(***************************************************************************)
EXTENDS CollectorInvariant, SequenceTheorems, FiniteSetTheorems, TLAPS

-----------------------------------------------------------------------------
(* Types, extra roots and room for a request.                               *)

\* Memory holds objects with as many members as their headers say.
Objects(objs) ==
  /\ DOMAIN objs \subseteq Int
  /\ \A h \in DOMAIN objs : objs[h] \in Object /\ WellSized(objs[h])

\* obj_words: the size macros of runtime_common.h give a number of words.
LEMMA WordsNat ==
  ASSUME NEW type \in Types, NEW len \in Nat
  PROVE  obj_words(type, len) \in Nat
BY DEF Types, obj_words, obj_size, BYTES_TO_WORDS, DATA_HEADER_SZ, MEMBER_SIZE, WordBytes

\* What the runtime writes to memory word by word is a sequence.
LEMMA FunctionIsSeq ==
  ASSUME NEW S, NEW n \in Nat, NEW f \in [1..n -> S]
  PROVE  f \in Seq(S) /\ Len(f) = n
OBVIOUS

\* Reading memory yields an object, whatever the address.
LEMMA AtObject ==
  ASSUME Objects(obj), NEW h
  PROVE  At(h) \in Object /\ WellSized(At(h))
<1>1. NoObject \in Object /\ WellSized(NoObject)
  BY DEF NoObject, Object, WellSized, NMembers, Types
<1>2. QED
  BY <1>1 DEF At, Objects

\* obj_size_header_ptr: the iterators of gc.c step forward.
LEMMA ObjectWords ==
  ASSUME NEW o \in Object
  PROVE  Words(o) \in Nat
BY WordsNat DEF Object, Words

\* Writing a forward_address (gc.c:702) leaves objects.
LEMMA FwdObjects ==
  ASSUME NEW objs, Objects(objs), NEW cell, NEW p \in Int
  PROVE  Objects([objs EXCEPT ![cell].fwd = p])
BY DEF Objects, Object, WellSized, NMembers

\* make_enqueued (gc.c:728) leaves objects.
LEMMA EnqObjects ==
  ASSUME NEW objs, Objects(objs), NEW h
  PROVE  Objects([objs EXCEPT ![h].enq = TRUE])
BY DEF Objects, Object, WellSized, NMembers

\* mark_object and make_dequeued (gc.c:713, 733) leave objects.
LEMMA MarkObjects ==
  ASSUME NEW objs, Objects(objs), NEW h
  PROVE  Objects([objs EXCEPT ![h].enq = FALSE, ![h].mark = TRUE])
BY DEF Objects, Object, WellSized, NMembers

\* queue_enqueue (gc.c:507) leaves objects.
LEMMA EnqueuedObjects ==
  ASSUME NEW objs, Objects(objs), NEW cell, NEW p \in Int
  PROVE  Objects(Enqueued(objs, cell, p))
BY FwdObjects, EnqObjects DEF Enqueued

\* Filling in the words that alloc returned leaves objects.
LEMMA PutObjects ==
  ASSUME Objects(obj), NEW h \in Int, NEW o \in Object, WellSized(o)
  PROVE  Objects(Put(h, o))
BY DEF Objects, Put

\* The memcpy of compact_phase (gc.c:286) leaves objects.
LEMMA ShiftObjects ==
  ASSUME Objects(obj), NEW shift \in Int
  PROVE  Objects([a \in {h + shift : h \in DOMAIN obj} |-> obj[a - shift]])
BY DEF Objects

\* The memmove of physically_relocate (gc.c:491) leaves objects.
LEMMA MovedToObjects ==
  ASSUME Objects(obj), NEW h \in DOMAIN obj, NEW to \in Int
  PROVE  Objects(MovedTo(h, to))
<1>1. /\ [obj[h] EXCEPT !.mark = FALSE] \in Object
      /\ WellSized([obj[h] EXCEPT !.mark = FALSE])
  BY DEF Objects, Object, WellSized, NMembers
<1>2. QED
  BY <1>1 DEF Objects, MovedTo

\* Writing members (gc.c:457, runtime.c:949) leaves objects.
LEMMA ContentsObjects ==
  ASSUME Objects(obj), NEW h \in DOMAIN obj, NEW s \in Seq(Word),
         Len(s) = Len(obj[h].contents)
  PROVE  Objects([obj EXCEPT ![h].contents = s])
BY DEF Objects, Object, WellSized, NMembers

\* A member the header counts is a word.
LEMMA MemberWord ==
  ASSUME NEW o \in Object, WellSized(o), NEW i \in 1..NMembers(o.type, o.len)
  PROVE  o.contents[i] \in Word
BY DEF Object, WellSized, NMembers

\* The field iterators (gc.c:827) stay within the members.
LEMMA FieldMember ==
  ASSUME NEW o \in Object, WellSized(o)
  PROVE  /\ Fields(o) \subseteq 1..NMembers(o.type, o.len)
         /\ o.type = "STRING" => 1..o.len \subseteq 1..NMembers(o.type, o.len)
BY DEF Object, Fields, FirstField, NMembers, Types

\* obj_next_ptr_field_iterator (gc.c:856) stops at addresses only.
LEMMA PtrFieldInt ==
  ASSUME NEW o \in Object, WellSized(o), NEW i \in PtrFields(o)
  PROVE  o.contents[i] \in Int
BY MemberWord, FieldMember DEF PtrFields, Word, UNBOXED

-----------------------------------------------------------------------------
\* The loops of the mark phase: the roots are counted from 1, and the fields
\* still to visit are pointer fields of the object under the scan.
Scanning == /\ pc \in {"roots", "queue", "fields"} => root >= 1
            /\ pc = "fields" => todo \subseteq PtrFields(At(cur))
\* Until Bsexp returns the boxed hash of the tag is on top of the stack.
TagOnTop == op.fn = "Bsexp" => UNBOXED(Arg(0))
\* The inductive invariant.
IInv == TypeOK /\ ExtraRootsBalanced /\ Scanning /\ TagOnTop

\* Runtime's type invariant gives the one the lemmas above use.
LEMMA ObjType == TypeOK => Objects(obj)
BY DEF TypeOK, GcTypeOK, Objects

\* In the mutator nothing is registered.
LEMMA Unregistered ==
  ASSUME IInv, pc = "mutator"
  PROVE  extra = <<>> /\ op.fn = "none"
BY DEF IInv, ExtraRootsBalanced, RootsOf

\* args[i] is a word of the stack.
LEMMA ArgWord ==
  ASSUME stack \in Seq(Word), NEW i \in 0..(SP - 1)
  PROVE  Arg(i) \in Word
<1>1. SP - i \in 1..Len(stack)
  BY LenProperties DEF SP
<1>2. QED
  BY <1>1, ElementOfSeq DEF Arg

\* The contents of an operand is a sequence of words.
LEMMA ContentsWords ==
  ASSUME IInv, NEW v
  PROVE  Container(v).contents \in Seq(Word) /\ Container(v).len \in Nat
BY ObjType, AtObject DEF Container, IInv, Object

\* Popping operands (main.c:147) leaves a stack.
LEMMA DroppedSeq ==
  ASSUME stack \in Seq(Word), NEW n \in 0..SP
  PROVE  Dropped(n) \in Seq(Word) /\ Len(Dropped(n)) = SP - n
<1>1. SP \in Nat /\ \A i \in 1..(SP - n) : stack[i] \in Word
  BY LenProperties, ElementOfSeq DEF SP
<1>2. QED
  BY <1>1, SubSeqProperties DEF Dropped

\* An instruction that neither allocates nor registers.
LEMMA MutatorInv ==
  ASSUME IInv, Mutator, MutatorLeaves,
         stack' \in Seq(Word), Objects(obj')
  PROVE  IInv'
<1>1. extra' = <<>> /\ op'.fn = "none" /\ pc' = "mutator"
  BY Unregistered DEF Mutator, MutatorLeaves
<1>2. Len(stack') \in Nat
  BY LenProperties
<1>3. TypeOK'
  BY <1>1, <1>2 DEF IInv, TypeOK, GcTypeOK, MutatorLeaves, regs, Objects
<1>4. ExtraRootsBalanced'
  BY <1>1, <1>2 DEF ExtraRootsBalanced, RootsOf, OperandsOf, SP
<1>5. QED
  BY <1>1, <1>3, <1>4 DEF IInv, Scanning, TagOnTop

\* A function of the runtime up to its call of alloc (PRE_GC, runtime.c:10).
LEMMA BeginInv ==
  ASSUME IInv, Mutator,
         NEW call \in Calls,
         NEW args \in Seq(Word), NEW locs \in Seq(0..Len(args)),
         NEW words \in Nat, NEW local \in Word,
         locs = RootsOf(call, Len(args)),
         OperandsOf(call) <= Len(args),
         call.fn = "Bsexp" => UNBOXED(args[Len(args)]),
         Begin(call, locs, words, args, local)
  PROVE  IInv'
<1>1. extra = <<>>
  BY Unregistered DEF Mutator
<1>2. pc' \in {"alloc", "exit"} /\ extra' \in Seq(0..Len(args)) /\ need' \in Nat
      /\ (pc' # "exit" => extra' = locs)
  <2>1. <<>> \o locs = locs
    BY ConcatEmptySeq
  <2>2. CASE CanRegister(locs)
    BY <1>1, <2>1, <2>2 DEF Begin, Register
  <2>3. CASE ~ CanRegister(locs)
    BY <1>1, <2>3, EmptySeq DEF Begin, IInv, TypeOK, GcTypeOK
  <2>4. QED
    BY <2>2, <2>3
<1>3. TypeOK'
  BY <1>2 DEF Begin, IInv, TypeOK, GcTypeOK, PCs, store, regs
<1>4. ExtraRootsBalanced'
  BY <1>2 DEF Begin, ExtraRootsBalanced, RootsOf, OperandsOf, SP
<1>5. QED
  BY <1>2, <1>3, <1>4 DEF Begin, IInv, Scanning, TagOnTop, Arg, SP

\* What a constructor writes is an object.
LEMMA NewObjectObject ==
  ASSUME IInv, NEW type \in Types, NEW len \in Nat,
         NEW contents \in Seq(Word), Len(contents) = NMembers(type, len)
  PROVE  /\ NewObject(type, len, contents) \in Object
         /\ WellSized(NewObject(type, len, contents))
BY DEF NewObject, Object, WellSized, IInv, TypeOK, GcTypeOK

\* A function of the runtime from the return of alloc on.
LEMMA FinishInv ==
  ASSUME IInv, NEW fn, NEW new \in Object, WellSized(new),
         NEW nroots \in Nat, nroots = Len(extra), NEW rest \in Seq(Word),
         Finish(fn, new, nroots, rest)
  PROVE  IInv'
<1>1. heap.current \in Int /\ need \in Nat /\ Objects(obj)
  BY ObjType DEF IInv, TypeOK, GcTypeOK, Chunk
<1>2. NewHeader \in Int /\ NewRef \in Word
  BY <1>1 DEF NewHeader, NewRef, Content, BYTES_TO_WORDS, DATA_HEADER_SZ, WordBytes, Word
<1>3. Objects(obj')
  BY <1>1, <1>2, PutObjects DEF Finish
<1>4. extra' = <<>>
  <2>1. Len(extra) - nroots = 0
    BY LenProperties DEF IInv, TypeOK, GcTypeOK
  <2>2. QED
    BY <2>1, SubSeqEmpty DEF Finish, Unregister
<1>5. stack' \in Seq(Word) /\ Len(stack') \in Nat
  BY <1>2, AppendProperties, LenProperties DEF Finish, Pushed
<1>6. op' = NoOp /\ pc' = "mutator"
  BY DEF Finish
<1>7. TypeOK'
  <2>1. op' \in Calls
    BY <1>6, EmptySeq DEF NoOp, Call, CallAt, Calls, Fns
  <2>2. extra' \in Seq(0..Len(stack'))
    BY <1>4, EmptySeq
  <2>3. /\ UNCHANGED <<heap, old, ids, root, head, tail, cur, todo, iter, free>>
        /\ cvar' \in Word /\ need' \in Nat /\ pc' \in PCs
    BY DEF Finish, regs, PCs, Word
  <2>4. QED
    BY <1>3, <1>5, <2>1, <2>2, <2>3 DEF IInv, TypeOK, GcTypeOK, Objects
<1>8. ExtraRootsBalanced'
  BY <1>4, <1>5, <1>6 DEF NoOp, Call, CallAt, ExtraRootsBalanced, RootsOf, OperandsOf, SP
<1>9. QED
  BY <1>6, <1>7, <1>8 DEF IInv, NoOp, Call, CallAt, Scanning, TagOnTop

-----------------------------------------------------------------------------
\* CONST, LD, DUP, ST and DROP.
LEMMA StackStep ==
  ASSUME IInv, Const \/ Load \/ Store \/ Drop
  PROVE  IInv'
<1>1. Objects(obj) /\ stack \in Seq(Word) /\ SP \in Nat
  BY ObjType, LenProperties DEF SP, IInv, TypeOK, GcTypeOK
<1>2. CASE Const
  BY <1>1, <1>2, MutatorInv, AppendProperties DEF Const, Pushed, Word
<1>3. CASE Load
  BY <1>1, <1>3, MutatorInv, AppendProperties, ElementOfSeq DEF Load, Pushed, SP
<1>4. CASE Store
  BY <1>1, <1>4, MutatorInv, ExceptSeq, ElementOfSeq DEF Store, SP
<1>5. CASE Drop
  BY <1>1, <1>5, MutatorInv, DroppedSeq, NGlobalsAssumption DEF Drop
<1>6. QED
  BY <1>2, <1>3, <1>4, <1>5

\* Belem.
LEMMA ElemStep ==
  ASSUME IInv, Elem
  PROVE  IInv'
<1>1. Objects(obj) /\ stack \in Seq(Word) /\ SP \in Nat
  BY ObjType, LenProperties DEF SP, IInv, TypeOK, GcTypeOK
<1>2. PICK i \in Fields(Container(Arg(1)))
               \cup (IF Container(Arg(1)).type = "STRING"
                     THEN 1..Container(Arg(1)).len ELSE {}) :
        stack' = Pushed(Dropped(2), Container(Arg(1)).contents[i])
  BY DEF Elem
<1>3. Container(Arg(1)) \in Object /\ WellSized(Container(Arg(1)))
  BY <1>1, AtObject DEF Container
<1>4. Container(Arg(1)).contents[i] \in Word
  BY <1>3, MemberWord, FieldMember
<1>5. Dropped(2) \in Seq(Word)
  BY <1>1, DroppedSeq, NGlobalsAssumption DEF Elem
<1>6. QED
  BY <1>1, <1>2, <1>4, <1>5, MutatorInv, AppendProperties DEF Elem, Pushed

\* Bsta.
LEMMA StaStep ==
  ASSUME IInv, Sta
  PROVE  IInv'
<1> DEFINE h == Header(Arg(2))
<1>1. Objects(obj) /\ stack \in Seq(Word) /\ SP \in Nat /\ SP >= 3
  BY ObjType, LenProperties, NGlobalsAssumption
     DEF SP, Sta, IInv, TypeOK, GcTypeOK
<1>2. stack' \in Seq(Word)
  BY <1>1, DroppedSeq, AppendProperties DEF Sta, Pushed, Word
<1>3. h \in DOMAIN obj /\ Container(Arg(2)) = obj[h]
      /\ obj[h] \in Object /\ WellSized(obj[h])
  BY <1>1 DEF Sta, IsRef, Container, At, Objects
<1>4. Arg(0) \in Word
  BY <1>1, ArgWord
<1>5. ASSUME NEW i \in 1..NMembers(obj[h].type, obj[h].len), NEW w \in Word,
             obj' = [obj EXCEPT ![h].contents[i] = w]
      PROVE  Objects(obj')
  <2>1. obj[h].contents \in Seq(Word) /\ i \in 1..Len(obj[h].contents)
    BY <1>3 DEF Object, WellSized
  <2>2. /\ [obj[h].contents EXCEPT ![i] = w] \in Seq(Word)
        /\ Len([obj[h].contents EXCEPT ![i] = w]) = Len(obj[h].contents)
    BY <2>1, ExceptSeq
  <2>3. obj' = [obj EXCEPT ![h].contents = [obj[h].contents EXCEPT ![i] = w]]
    BY <1>5
  <2>4. QED
    BY <1>1, <1>3, <2>2, <2>3, ContentsObjects
<1>6. Objects(obj')
  <2>1. CASE obj[h].type = "STRING"
    <3>1. PICK i \in 1..obj[h].len, c \in Imm : obj' = [obj EXCEPT ![h].contents[i] = c]
      BY <1>3, <2>1 DEF Sta
    <3>2. QED
      BY <1>3, <1>5, <2>1, <3>1, FieldMember DEF Word
  <2>2. CASE obj[h].type # "STRING"
    <3>1. PICK i \in Fields(obj[h]) : obj' = [obj EXCEPT ![h].contents[i] = Arg(0)]
      BY <1>3, <2>2 DEF Sta
    <3>2. QED
      BY <1>3, <1>4, <1>5, <3>1, FieldMember
  <2>3. QED
    BY <2>1, <2>2
<1>7. QED
  BY <1>2, <1>6, MutatorInv DEF Sta

-----------------------------------------------------------------------------
\* The slots of n operands are slots of the stack.
LEMMA ArgSlotsSeq ==
  ASSUME NEW top \in Nat, NEW first \in Nat, NEW n \in Nat, first + n <= top
  PROVE  ArgSlots(top, first, n) \in Seq(0..top) /\ Len(ArgSlots(top, first, n)) = n
<1>1. ArgSlots(top, first, n) \in [1..n -> 0..top]
  BY DEF ArgSlots
<1>2. QED
  BY <1>1, FunctionIsSeq

\* One or two locations are a sequence of locations.
LEMMA SingletonSeq ==
  ASSUME NEW S, NEW e \in S, NEW f \in S
  PROVE  <<e>> \in Seq(S) /\ <<e, f>> \in Seq(S) /\ Len(<<e>>) = 1 /\ Len(<<e, f>>) = 2
OBVIOUS

\* Barray up to alloc_array.
LEMMA BeginArrayStep ==
  ASSUME IInv, BeginArray
  PROVE  IInv'
<1>1. stack \in Seq(Word) /\ SP \in Nat /\ SP = Len(stack) /\ cvar \in Word
  BY LenProperties DEF SP, IInv, TypeOK, GcTypeOK
<1>2. PICK n \in ArraySizes :
        /\ n <= SP - NGlobals
        /\ Begin(Call("Barray", n, <<>>), ArgSlots(SP, 0, n),
                 obj_words("ARRAY", n), stack, cvar)
  BY DEF BeginArray
<1>3. n \in Nat /\ n <= SP
  BY <1>1, <1>2, SizesAssumption, NGlobalsAssumption
<1> DEFINE call == Call("Barray", n, <<>>)
<1>4. /\ call \in Calls
      /\ call.fn = "Barray" /\ call.n = n
  BY <1>3, EmptySeq DEF Call, CallAt, Calls, Fns
<1>5. ArgSlots(SP, 0, n) = RootsOf(call, SP) /\ OperandsOf(call) <= SP
  BY <1>3, <1>4 DEF RootsOf, OperandsOf
<1>6. ArgSlots(SP, 0, n) \in Seq(0..SP) /\ obj_words("ARRAY", n) \in Nat
  BY <1>1, <1>3, ArgSlotsSeq, WordsNat DEF Types
<1> HIDE DEF call
<1>7. QED
  BY <1>1, <1>2, <1>4, <1>5, <1>6, BeginInv DEF BeginArray, CanAlloc, call

\* Bsexp up to alloc_sexp.
LEMMA BeginSexpStep ==
  ASSUME IInv, BeginSexp
  PROVE  IInv'
<1>1. stack \in Seq(Word) /\ SP \in Nat /\ SP = Len(stack) /\ cvar \in Word
  BY LenProperties DEF SP, IInv, TypeOK, GcTypeOK
<1>2. PICK n \in SexpSizes, tag \in Imm :
        /\ n <= SP - NGlobals
        /\ Begin(Call("Bsexp", n, <<>>), ArgSlots(SP + 1, 0, n),
                 obj_words("SEXP", n), Pushed(stack, tag), cvar)
  BY DEF BeginSexp
<1>3. n \in Nat /\ n <= SP
  BY <1>1, <1>2, SizesAssumption, NGlobalsAssumption
<1> DEFINE call == Call("Bsexp", n, <<>>)
           args == Pushed(stack, tag)
<1>4. /\ call \in Calls
      /\ call.fn = "Bsexp" /\ call.n = n
  BY <1>3, EmptySeq DEF Call, CallAt, Calls, Fns
<1>5. args \in Seq(Word) /\ Len(args) = SP + 1 /\ args[Len(args)] = tag
  BY <1>1, AppendProperties DEF Pushed, Word
<1>6. ArgSlots(SP + 1, 0, n) = RootsOf(call, SP + 1) /\ OperandsOf(call) <= SP + 1
  BY <1>1, <1>3, <1>4 DEF RootsOf, OperandsOf
<1>7. ArgSlots(SP + 1, 0, n) \in Seq(0..(SP + 1)) /\ obj_words("SEXP", n) \in Nat
  <2>1. SP + 1 \in Nat /\ 0 + n <= SP + 1
    BY <1>1, <1>3
  <2>2. ArgSlots(SP + 1, 0, n) \in Seq(0..(SP + 1))
    BY <1>3, <2>1, ArgSlotsSeq
  <2>3. obj_words("SEXP", n) \in Nat
    BY <1>3, WordsNat DEF Types
  <2>4. QED
    BY <2>2, <2>3
<1>8. UNBOXED(args[Len(args)])
  BY <1>5 DEF UNBOXED
<1>9. Begin(call, ArgSlots(SP + 1, 0, n), obj_words("SEXP", n), args, cvar)
  BY <1>2
<1> HIDE DEF call, args
<1>10. QED
  BY <1>1, <1>4, <1>5, <1>6, <1>7, <1>8, <1>9, BeginInv DEF BeginSexp, CanAlloc

\* Bclosure up to alloc_closure.
LEMMA BeginClosureStep ==
  ASSUME IInv, BeginClosure
  PROVE  IInv'
<1>1. stack \in Seq(Word) /\ SP \in Nat /\ SP = Len(stack) /\ cvar \in Word
  BY LenProperties DEF SP, IInv, TypeOK, GcTypeOK
<1>2. PICK n \in ClosureSizes, code \in Code :
        /\ n <= SP - NGlobals
        /\ Begin(Call("Bclosure", n, <<>>), ArgSlots(SP + 1, 1, n),
                 obj_words("CLOSURE", n + 1), Pushed(stack, code), cvar)
  BY DEF BeginClosure
<1>3. n \in Nat /\ n <= SP
  BY <1>1, <1>2, SizesAssumption, NGlobalsAssumption
<1> DEFINE call == Call("Bclosure", n, <<>>)
           args == Pushed(stack, code)
<1>4. /\ call \in Calls
      /\ call.fn = "Bclosure" /\ call.n = n
  BY <1>3, EmptySeq DEF Call, CallAt, Calls, Fns
<1>5. args \in Seq(Word) /\ Len(args) = SP + 1
  BY <1>1, AppendProperties, CodeAssumption DEF Pushed, Word
<1>6. ArgSlots(SP + 1, 1, n) = RootsOf(call, SP + 1) /\ OperandsOf(call) <= SP + 1
  BY <1>1, <1>3, <1>4 DEF RootsOf, OperandsOf
<1>7. /\ ArgSlots(SP + 1, 1, n) \in Seq(0..(SP + 1))
      /\ obj_words("CLOSURE", n + 1) \in Nat
  <2>1. SP + 1 \in Nat /\ n + 1 \in Nat /\ 1 + n <= SP + 1
    BY <1>1, <1>3
  <2>2. ArgSlots(SP + 1, 1, n) \in Seq(0..(SP + 1))
    BY <1>3, <2>1, ArgSlotsSeq
  <2>3. obj_words("CLOSURE", n + 1) \in Nat
    BY <2>1, WordsNat DEF Types
  <2>4. QED
    BY <2>2, <2>3
<1>8. Begin(call, ArgSlots(SP + 1, 1, n), obj_words("CLOSURE", n + 1), args, cvar)
  BY <1>2
<1> HIDE DEF call, args
<1>9. QED
  BY <1>1, <1>4, <1>5, <1>6, <1>7, <1>8, BeginInv DEF BeginClosure, CanAlloc

\* Texts are sequences of words.
LEMMA TextsWords == Texts \subseteq Seq(Word)
BY TextsAssumption, SeqMonotonic DEF Word

\* Bstring and Lstring up to alloc_string.
LEMMA BeginStringStep ==
  ASSUME IInv, BeginString \/ BeginLstring
  PROVE  IInv'
<1>1. stack \in Seq(Word) /\ SP \in Nat /\ SP = Len(stack) /\ Mutator
  BY LenProperties DEF SP, IInv, TypeOK, GcTypeOK, BeginString, BeginLstring, CanAlloc
<1>2. ASSUME NEW t \in Texts, NEW fn \in {"Bstring", "Lstring"}
      PROVE  /\ Call(fn, 0, t) \in Calls
             /\ Call(fn, 0, t).fn = fn
             /\ obj_words("STRING", Len(t)) \in Nat
  <2>1. t \in Seq(Word) /\ Len(t) \in Nat
    BY TextsWords, LenProperties
  <2>2. QED
    BY <2>1, WordsNat DEF Call, CallAt, Calls, Fns, Types
<1>3. CASE BeginString
  <2>1. PICK t \in Texts :
          Begin(Call("Bstring", 0, t), <<CLocal>>, obj_words("STRING", Len(t)),
                stack, Foreign)
    BY <1>3 DEF BeginString
  <2> DEFINE call == Call("Bstring", 0, t)
  <2>2. /\ call \in Calls /\ call.fn = "Bstring"
        /\ obj_words("STRING", Len(t)) \in Nat
    BY <1>2
  <2>3. <<CLocal>> = RootsOf(call, SP) /\ OperandsOf(call) <= SP
    BY <1>1, <2>2 DEF RootsOf, OperandsOf
  <2>4. <<CLocal>> \in Seq(0..SP) /\ Foreign \in Word
    BY <1>1, SingletonSeq DEF CLocal, Foreign, Word
  <2>5. Begin(call, <<CLocal>>, obj_words("STRING", Len(t)), stack, Foreign)
    BY <2>1
  <2> HIDE DEF call
  <2>6. QED
    BY <1>1, <2>2, <2>3, <2>4, <2>5, BeginInv
<1>4. CASE BeginLstring
  <2>1. SP > 0
    BY <1>1, <1>4, NGlobalsAssumption DEF BeginLstring
  <2>2. PICK t \in Texts :
          Begin(Call("Lstring", 0, t), <<SP, CLocal>>, obj_words("STRING", Len(t)),
                stack, Foreign)
    BY <1>4 DEF BeginLstring
  <2> DEFINE call == Call("Lstring", 0, t)
  <2>3. /\ call \in Calls /\ call.fn = "Lstring"
        /\ obj_words("STRING", Len(t)) \in Nat
    BY <1>2
  <2>4. <<SP, CLocal>> = RootsOf(call, SP) /\ OperandsOf(call) <= SP
    BY <1>1, <2>1, <2>3 DEF RootsOf, OperandsOf
  <2>5. <<SP, CLocal>> \in Seq(0..SP) /\ Foreign \in Word
    BY <1>1, SingletonSeq DEF CLocal, Foreign, Word
  <2>6. Begin(call, <<SP, CLocal>>, obj_words("STRING", Len(t)), stack, Foreign)
    BY <2>2
  <2> HIDE DEF call
  <2>7. QED
    BY <1>1, <2>3, <2>4, <2>5, <2>6, BeginInv
<1>5. QED
  BY <1>3, <1>4

\* Lclone up to alloc.
LEMMA BeginCloneStep ==
  ASSUME IInv, BeginClone \/ BeginCloneString
  PROVE  IInv'
<1> DEFINE o == Container(Arg(0))
<1>1. /\ stack \in Seq(Word) /\ SP \in Nat /\ SP = Len(stack) /\ SP > 0
      /\ Mutator /\ cvar \in Word
  <2>1. CanAlloc /\ SP > NGlobals
    BY DEF BeginClone, BeginCloneString
  <2>2. stack \in Seq(Word) /\ SP \in Nat /\ SP = Len(stack) /\ cvar \in Word
    BY LenProperties DEF SP, IInv, TypeOK, GcTypeOK
  <2>3. QED
    BY <2>1, <2>2, NGlobalsAssumption DEF CanAlloc
<1>2. o \in Object /\ WellSized(o) /\ o.contents \in Seq(Word) /\ Len(o.contents) \in Nat
  BY ObjType, AtObject, LenProperties DEF Container, IInv, Object
<1>3. Arg(0) \in Word
  BY <1>1, ArgWord
<1> HIDE DEF o
<1>4. CASE BeginClone
  <2> DEFINE call == Call("Lclone", 0, <<>>)
  <2>1. Begin(call, <<SP>>, Words(o), stack, cvar)
    BY <1>4 DEF BeginClone, o
  <2>2. call \in Calls /\ call.fn = "Lclone"
    BY EmptySeq DEF Call, CallAt, Calls, Fns
  <2>3. <<SP>> = RootsOf(call, SP) /\ OperandsOf(call) <= SP
    BY <1>1, <2>2 DEF RootsOf, OperandsOf
  <2>4. <<SP>> \in Seq(0..SP) /\ Words(o) \in Nat
    BY <1>1, <1>2, SingletonSeq, ObjectWords
  <2> HIDE DEF call
  <2>5. QED
    BY <1>1, <2>1, <2>2, <2>3, <2>4, BeginInv
<1>5. CASE BeginCloneString
  <2> DEFINE call == Call("LcloneString", 0, o.contents)
  <2>1. Begin(call, <<SP, CLocal>>, obj_words("STRING", Len(o.contents)), stack, Arg(0))
    BY <1>5 DEF BeginCloneString, o
  <2>2. call \in Calls /\ call.fn = "LcloneString"
    BY <1>2 DEF Call, CallAt, Calls, Fns
  <2>3. <<SP, CLocal>> = RootsOf(call, SP) /\ OperandsOf(call) <= SP
    BY <1>1, <2>2 DEF RootsOf, OperandsOf
  <2>4. <<SP, CLocal>> \in Seq(0..SP)
    BY <1>1, SingletonSeq DEF CLocal
  <2>5. obj_words("STRING", Len(o.contents)) \in Nat
    BY <1>2, WordsNat DEF Types
  <2> HIDE DEF call
  <2>6. QED
    BY <1>1, <1>3, <2>1, <2>2, <2>3, <2>4, <2>5, BeginInv
<1>6. QED
  BY <1>4, <1>5

\* LmakeArray, Lsubstring and Li__Infix_4343 up to alloc.
LEMMA BeginLibraryStep ==
  ASSUME IInv, BeginMakeArray \/ BeginSubstring \/ BeginConcat
  PROVE  IInv'
<1>1. /\ stack \in Seq(Word) /\ SP \in Nat /\ SP = Len(stack)
      /\ Mutator /\ cvar \in Word /\ NGlobals \in Nat
  <2>1. CanAlloc
    BY DEF BeginMakeArray, BeginSubstring, BeginConcat
  <2>2. QED
    BY <2>1, LenProperties, NGlobalsAssumption
    DEF SP, IInv, TypeOK, GcTypeOK, CanAlloc
<1>2. CASE BeginMakeArray
  <2>1. PICK n \in ArraySizes :
          Begin(Call("LmakeArray", n, <<>>), <<>>, obj_words("ARRAY", n), stack, cvar)
    BY <1>2 DEF BeginMakeArray
  <2> DEFINE call == Call("LmakeArray", n, <<>>)
  <2>2. n \in Nat /\ obj_words("ARRAY", n) \in Nat
    BY SizesAssumption, WordsNat DEF Types
  <2>3. call \in Calls /\ call.fn = "LmakeArray"
    BY <2>2, EmptySeq DEF Call, CallAt, Calls, Fns
  <2>4. <<>> = RootsOf(call, SP) /\ OperandsOf(call) <= SP /\ <<>> \in Seq(0..SP)
    BY <1>1, <2>3, EmptySeq DEF RootsOf, OperandsOf
  <2>5. Begin(call, <<>>, obj_words("ARRAY", n), stack, cvar)
    BY <2>1
  <2> HIDE DEF call
  <2>6. QED
    BY <1>1, <2>2, <2>3, <2>4, <2>5, BeginInv
<1>3. CASE BeginSubstring
  <2> DEFINE len == Container(Arg(0)).len
  <2>1. len \in Nat
    BY ContentsWords
  <2>2. SP >= 3
    BY <1>1, <1>3 DEF BeginSubstring
  <2>3. ASSUME NEW pp \in 0..len, NEW ll \in 0..(len - pp),
               Begin(CallAt("Lsubstring", ll, <<>>, pp), <<SP>>,
                     obj_words("STRING", ll), stack, cvar)
        PROVE  IInv'
    <3> DEFINE call == CallAt("Lsubstring", ll, <<>>, pp)
    <3>1. pp \in Nat /\ ll \in Nat /\ obj_words("STRING", ll) \in Nat
      BY <2>1, WordsNat DEF Types
    <3>2. call \in Calls /\ call.fn = "Lsubstring"
      BY <3>1, EmptySeq DEF CallAt, Calls, Fns
    <3>3. <<SP>> = RootsOf(call, SP) /\ OperandsOf(call) <= SP
      BY <1>1, <2>2, <3>2 DEF RootsOf, OperandsOf
    <3>4. <<SP>> \in Seq(0..SP)
      BY <1>1, SingletonSeq
    <3>5. Begin(call, <<SP>>, obj_words("STRING", ll), stack, cvar)
      BY <2>3
    <3> HIDE DEF call
    <3>6. QED
      BY <1>1, <3>1, <3>2, <3>3, <3>4, <3>5, BeginInv
  <2>4. CASE pc' = "exit" /\ UNCHANGED <<store, caller, need, ids, regs>>
    BY <2>4 DEF store, caller, regs, IInv, TypeOK, GcTypeOK, ExtraRootsBalanced, PCs,
                Scanning, TagOnTop, Arg, SP, RootsOf, OperandsOf, WellSized,
                BeginSubstring, CanAlloc, Mutator
  <2>5. \/ \E pp \in 0..len : \E ll \in 0..(len - pp) :
             Begin(CallAt("Lsubstring", ll, <<>>, pp), <<SP>>,
                   obj_words("STRING", ll), stack, cvar)
        \/ pc' = "exit" /\ UNCHANGED <<store, caller, need, ids, regs>>
    BY <1>3 DEF BeginSubstring
  <2> HIDE DEF len
  <2>6. QED
    BY <2>3, <2>4, <2>5
<1>4. CASE BeginConcat
  <2> DEFINE len == Container(Arg(0)).len + Container(Arg(1)).len
             call == Call("Li__Infix_4343", len, <<>>)
  <2>1. len \in Nat /\ obj_words("STRING", len) \in Nat
    <3>1. len \in Nat
      BY ContentsWords
    <3>2. QED
      BY <3>1, WordsNat DEF Types
  <2>2. SP >= 2
    BY <1>1, <1>4 DEF BeginConcat
  <2>3. Begin(call, <<SP, SP - 1>>, obj_words("STRING", len), stack, cvar)
    BY <1>4 DEF BeginConcat
  <2> HIDE DEF len
  <2>4. call \in Calls /\ call.fn = "Li__Infix_4343"
    BY <2>1, EmptySeq DEF Call, CallAt, Calls, Fns
  <2>5. <<SP, SP - 1>> = RootsOf(call, SP) /\ OperandsOf(call) <= SP
    BY <1>1, <2>2, <2>4 DEF RootsOf, OperandsOf
  <2>6. <<SP, SP - 1>> \in Seq(0..SP)
    BY <1>1, <2>2, SingletonSeq
  <2> HIDE DEF call
  <2>7. QED
    BY <1>1, <2>1, <2>3, <2>4, <2>5, <2>6, BeginInv
<1>5. QED
  BY <1>2, <1>3, <1>4

-----------------------------------------------------------------------------
\* While a function runs its operands are on the stack and registered.
LEMMA Operands ==
  ASSUME IInv, pc = "fill"
  PROVE  /\ stack \in Seq(Word) /\ SP \in Nat
         /\ op.n \in Nat /\ op.text \in Seq(Word) /\ op.from \in Nat
         /\ OperandsOf(op) <= SP /\ extra = RootsOf(op, SP)
BY LenProperties DEF IInv, TypeOK, GcTypeOK, ExtraRootsBalanced, SP, Calls

\* Barray from alloc_array on.
LEMMA FinishArrayStep ==
  ASSUME IInv, FinishArray
  PROVE  IInv'
<1> DEFINE contents == [j \in 1..op.n |-> Arg(op.n - j)]
<1>1. op.fn = "Barray" /\ pc = "fill"
  BY DEF FinishArray, Finish
<1>2. op.n <= SP /\ op.n \in Nat /\ SP \in Nat /\ stack \in Seq(Word)
  BY <1>1, Operands DEF OperandsOf
<1>3. contents \in [1..op.n -> Word]
  BY <1>2, ArgWord
<1>4. contents \in Seq(Word) /\ Len(contents) = NMembers("ARRAY", op.n)
  BY <1>2, <1>3, FunctionIsSeq DEF NMembers
<1>5. Len(extra) = op.n
  <2>1. 0 + op.n <= SP /\ extra = ArgSlots(SP, 0, op.n)
    BY <1>1, <1>2, Operands DEF RootsOf
  <2>2. QED
    BY <1>2, <2>1, ArgSlotsSeq
<1>6. Dropped(op.n) \in Seq(Word)
  BY <1>2, DroppedSeq
<1>7. Finish("Barray", NewObject("ARRAY", op.n, contents), op.n, Dropped(op.n))
  BY DEF FinishArray
<1> HIDE DEF contents
<1>8. /\ NewObject("ARRAY", op.n, contents) \in Object
      /\ WellSized(NewObject("ARRAY", op.n, contents))
  BY <1>2, <1>4, NewObjectObject DEF Types
<1>9. QED
  BY <1>2, <1>5, <1>6, <1>7, <1>8, FinishInv

\* The arguments of Bsexp and Bclosure below the word on top of them.
LEMMA AfterFirstSeq ==
  ASSUME IInv, pc = "fill", NEW w \in Word, op.n + 1 <= SP
  PROVE  AfterFirst(w) \in Seq(Word) /\ Len(AfterFirst(w)) = op.n + 1
<1>1. op.n + 1 \in Nat /\ op.n \in Nat /\ SP \in Nat /\ stack \in Seq(Word)
  BY Operands
<1>2. ASSUME NEW j \in 1..(op.n + 1), j # 1
      PROVE  Arg(op.n - j + 2) \in Word
  <2>1. op.n - j + 2 \in 0..(SP - 1)
    BY <1>1, <1>2
  <2>2. QED
    BY <1>1, <2>1, ArgWord
<1>3. AfterFirst(w) \in [1..(op.n + 1) -> Word]
  BY <1>2 DEF AfterFirst
<1>4. QED
  BY <1>1, <1>3, FunctionIsSeq

\* Bsexp from alloc_sexp on: the tag is still an integer.
LEMMA FinishSexpStep ==
  ASSUME IInv, FinishSexp
  PROVE  IInv'
<1> DEFINE contents == AfterFirst(UNBOX(Arg(0)))
<1>1. op.fn = "Bsexp" /\ pc = "fill"
  BY DEF FinishSexp, Finish
<1>2. op.n + 1 <= SP /\ op.n \in Nat /\ SP \in Nat /\ stack \in Seq(Word)
  BY <1>1, Operands DEF OperandsOf
<1>3. UNBOX(Arg(0)) \in Word
  BY <1>1, UnboxAssumption DEF IInv, TagOnTop, UNBOXED, Word
<1>4. contents \in Seq(Word) /\ Len(contents) = NMembers("SEXP", op.n)
  BY <1>1, <1>2, <1>3, AfterFirstSeq DEF NMembers
<1>5. Len(extra) = op.n
  <2>1. 0 + op.n <= SP /\ extra = ArgSlots(SP, 0, op.n)
    BY <1>1, <1>2, Operands DEF RootsOf
  <2>2. QED
    BY <1>2, <2>1, ArgSlotsSeq
<1>6. Dropped(op.n + 1) \in Seq(Word)
  BY <1>2, DroppedSeq
<1>7. Finish("Bsexp", NewObject("SEXP", op.n, contents), op.n, Dropped(op.n + 1))
  BY DEF FinishSexp
<1> HIDE DEF contents
<1>8. /\ NewObject("SEXP", op.n, contents) \in Object
      /\ WellSized(NewObject("SEXP", op.n, contents))
  BY <1>2, <1>4, NewObjectObject DEF Types
<1>9. QED
  BY <1>2, <1>5, <1>6, <1>7, <1>8, FinishInv

\* Bclosure from alloc_closure on.
LEMMA FinishClosureStep ==
  ASSUME IInv, FinishClosure
  PROVE  IInv'
<1> DEFINE contents == AfterFirst(Arg(0))
           new == NewObject("CLOSURE", op.n + 1, contents)
<1>1. op.fn = "Bclosure" /\ pc = "fill"
  BY DEF FinishClosure, Finish
<1>2. op.n + 1 <= SP /\ op.n \in Nat /\ SP \in Nat /\ stack \in Seq(Word)
  BY <1>1, Operands DEF OperandsOf
<1>3. Arg(0) \in Word
  BY <1>2, ArgWord
<1>4. contents \in Seq(Word) /\ Len(contents) = NMembers("CLOSURE", op.n + 1)
  BY <1>1, <1>2, <1>3, AfterFirstSeq DEF NMembers
<1>5. Len(extra) = op.n
  <2>1. 1 + op.n <= SP /\ extra = ArgSlots(SP, 1, op.n)
    BY <1>1, <1>2, Operands DEF RootsOf
  <2>2. QED
    BY <1>2, <2>1, ArgSlotsSeq
<1>6. Dropped(op.n + 1) \in Seq(Word)
  BY <1>2, DroppedSeq
<1>7. Finish("Bclosure", new, op.n, Dropped(op.n + 1))
  BY DEF FinishClosure
<1>8. op.n + 1 \in Nat /\ "CLOSURE" \in Types
  BY <1>2 DEF Types
<1> HIDE DEF contents
<1>9. new \in Object /\ WellSized(new)
  BY <1>4, <1>8, NewObjectObject
<1> HIDE DEF new
<1>10. QED
  BY <1>2, <1>5, <1>6, <1>7, <1>9, FinishInv

\* Bstring and Lstring from alloc_string on.
LEMMA FinishStringStep ==
  ASSUME IInv, FinishString \/ FinishLstring
  PROVE  IInv'
<1>1. stack \in Seq(Word) /\ op.text \in Seq(Word) /\ pc = "fill"
  BY Operands DEF FinishString, FinishLstring, Finish
<1>2. Len(op.text) \in Nat /\ Len(op.text) = NMembers("STRING", Len(op.text))
      /\ "STRING" \in Types
  BY <1>1, LenProperties DEF NMembers, Types
<1> DEFINE new == NewObject("STRING", Len(op.text), op.text)
<1>3. new \in Object /\ WellSized(new)
  BY <1>1, <1>2, NewObjectObject
<1>4. CASE FinishString
  <2>1. op.fn = "Bstring"
    BY <1>4 DEF FinishString, Finish
  <2>2. Len(extra) = 1
    BY <1>1, <2>1, Operands, SingletonSeq DEF RootsOf
  <2>3. Finish("Bstring", new, 1, stack)
    BY <1>4 DEF FinishString
  <2>4. QED
    BY <1>1, <1>3, <2>2, <2>3, FinishInv
<1>5. CASE FinishLstring
  <2>1. op.fn = "Lstring"
    BY <1>5 DEF FinishLstring, Finish
  <2>2. Len(extra) = 2
    BY <1>1, <2>1, Operands, SingletonSeq DEF RootsOf
  <2>3. Finish("Lstring", new, 2, stack)
    BY <1>5 DEF FinishLstring
  <2>4. QED
    BY <1>1, <1>3, <2>2, <2>3, FinishInv
<1>6. QED
  BY <1>4, <1>5

\* Lclone of anything but a string, from alloc on.
LEMMA FinishCloneStep ==
  ASSUME IInv, FinishClone
  PROVE  IInv'
<1> DEFINE o == Container(Arg(0))
<1>1. op.fn = "Lclone" /\ pc = "fill"
  BY DEF FinishClone, Finish
<1>2. Len(extra) = 1 /\ SP \in Nat /\ SP >= 1 /\ stack \in Seq(Word)
  BY <1>1, Operands, SingletonSeq DEF RootsOf, OperandsOf
<1>3. o \in Object /\ WellSized(o)
  BY ObjType, AtObject DEF Container, IInv
<1> DEFINE new == [o EXCEPT !.id = ids]
<1>4. new \in Object /\ WellSized(new)
  BY <1>3 DEF Object, WellSized, IInv, TypeOK, GcTypeOK
<1>5. Dropped(1) \in Seq(Word)
  BY <1>2, DroppedSeq
<1>6. Finish("Lclone", new, 1, Dropped(1))
  BY DEF FinishClone
<1> HIDE DEF o, new
<1>7. QED
  BY <1>2, <1>4, <1>5, <1>6, FinishInv

\* strncpy writes as many words as the header of the new string says.
LEMMA NewStringObject ==
  ASSUME IInv, NEW text \in Seq(Word), NEW n \in Nat
  PROVE  NewString(text, n) \in Object /\ WellSized(NewString(text, n))
<1>1. \A i \in DOMAIN text : text[i] \in Word
  BY LenProperties, ElementOfSeq
<1>2. Copied(text, n) \in [1..n -> Word]
  BY <1>1 DEF Copied, Word
<1>3. Copied(text, n) \in Seq(Word) /\ Len(Copied(text, n)) = NMembers("STRING", n)
  BY <1>2, FunctionIsSeq DEF NMembers
<1>4. QED
  BY <1>3, NewObjectObject DEF NewString, Types

\* Lclone of a string, from alloc_string on.
LEMMA FinishCloneStringStep ==
  ASSUME IInv, FinishCloneString
  PROVE  IInv'
<1> DEFINE new == NewString(Container(cvar).contents, Len(op.text))
<1>1. op.fn = "LcloneString" /\ pc = "fill" /\ Finish("LcloneString", new, 2, Dropped(1))
  BY DEF FinishCloneString, Finish
<1>2. extra = <<SP, CLocal>> /\ OperandsOf(op) = 1
  BY <1>1, Operands DEF RootsOf, OperandsOf
<1>3. Len(extra) = 2 /\ SP \in Nat /\ SP >= 1 /\ stack \in Seq(Word) /\ Len(op.text) \in Nat
  BY <1>1, <1>2, Operands, SingletonSeq, LenProperties
<1>4. Dropped(1) \in Seq(Word)
  BY <1>3, DroppedSeq
<1>5. new \in Object /\ WellSized(new)
  BY <1>3, ContentsWords, NewStringObject
<1> HIDE DEF new
<1>6. QED
  BY <1>1, <1>3, <1>4, <1>5, FinishInv

\* LmakeArray, which registers nothing, from alloc_array on.
LEMMA FinishMakeArrayStep ==
  ASSUME IInv, FinishMakeArray
  PROVE  IInv'
<1>1. PICK zero \in Imm :
        Finish("LmakeArray", NewObject("ARRAY", op.n, [j \in 1..op.n |-> zero]), 0, stack)
  BY DEF FinishMakeArray
<1> DEFINE contents == [j \in 1..op.n |-> zero]
<1>2. op.fn = "LmakeArray" /\ pc = "fill"
  BY <1>1 DEF Finish
<1>3. op.n \in Nat /\ stack \in Seq(Word) /\ extra = <<>>
  BY <1>2, Operands DEF RootsOf
<1>4. Len(extra) = 0
  BY <1>3
<1>5. contents \in [1..op.n -> Word]
  BY DEF Word
<1>6. contents \in Seq(Word) /\ Len(contents) = NMembers("ARRAY", op.n)
  BY <1>3, <1>5, FunctionIsSeq DEF NMembers
<1>7. Finish("LmakeArray", NewObject("ARRAY", op.n, contents), 0, stack)
  BY <1>1
<1> HIDE DEF contents
<1>8. /\ NewObject("ARRAY", op.n, contents) \in Object
      /\ WellSized(NewObject("ARRAY", op.n, contents))
  BY <1>3, <1>6, NewObjectObject DEF Types
<1>9. QED
  BY <1>3, <1>4, <1>7, <1>8, FinishInv

\* Lsubstring from alloc_string on.
LEMMA FinishSubstringStep ==
  ASSUME IInv, FinishSubstring
  PROVE  IInv'
<1> DEFINE text == Container(Arg(0)).contents
           part == SubSeq(text, op.from + 1, Len(text))
<1>1. /\ op.fn = "Lsubstring" /\ pc = "fill"
      /\ Finish("Lsubstring", NewString(part, op.n), 1, Dropped(3))
  BY DEF FinishSubstring, Finish
<1>2. extra = <<SP>> /\ OperandsOf(op) = 3
  BY <1>1, Operands DEF RootsOf, OperandsOf
<1>3. /\ Len(extra) = 1 /\ SP \in Nat /\ SP >= 3 /\ stack \in Seq(Word)
      /\ op.n \in Nat /\ op.from \in Nat
  BY <1>1, <1>2, Operands, SingletonSeq
<1>4. Dropped(3) \in Seq(Word)
  BY <1>3, DroppedSeq
<1>5. part \in Seq(Word)
  <2>1. text \in Seq(Word) /\ Len(text) \in Nat
    BY ContentsWords, LenProperties
  <2>2. \A i \in (op.from + 1)..Len(text) : text[i] \in Word
    BY <1>3, <2>1, ElementOfSeq
  <2> HIDE DEF text
  <2>3. QED
    BY <1>3, <2>1, <2>2, SubSeqProperties DEF text
<1> HIDE DEF part
<1>6. NewString(part, op.n) \in Object /\ WellSized(NewString(part, op.n))
  BY <1>3, <1>5, NewStringObject
<1>7. QED
  BY <1>1, <1>3, <1>4, <1>6, FinishInv

\* Li__Infix_4343 from alloc_string on.
LEMMA FinishConcatStep ==
  ASSUME IInv, FinishConcat
  PROVE  IInv'
<1> DEFINE both == Container(Arg(0)).contents \o Container(Arg(1)).contents
<1>1. /\ op.fn = "Li__Infix_4343" /\ pc = "fill"
      /\ Finish("Li__Infix_4343", NewString(both, op.n), 2, Dropped(2))
  BY DEF FinishConcat, Finish
<1>2. extra = <<SP, SP - 1>> /\ OperandsOf(op) = 2
  BY <1>1, Operands DEF RootsOf, OperandsOf
<1>3. Len(extra) = 2 /\ SP \in Nat /\ SP >= 2 /\ stack \in Seq(Word) /\ op.n \in Nat
  BY <1>1, <1>2, Operands
<1>4. Dropped(2) \in Seq(Word)
  BY <1>3, DroppedSeq
<1>5. both \in Seq(Word)
  BY ContentsWords, ConcatProperties
<1> HIDE DEF both
<1>6. NewString(both, op.n) \in Object /\ WellSized(NewString(both, op.n))
  BY <1>3, <1>5, NewStringObject
<1>7. QED
  BY <1>1, <1>3, <1>4, <1>6, FinishInv

-----------------------------------------------------------------------------
(* The collector.                                                           *)

\* A step that leaves what the program and its call hold where they are.
LEMMA CallerKept ==
  ASSUME IInv, UNCHANGED <<stack, extra, op>>,
         pc \notin {"mutator", "exit"}, pc' \notin {"mutator", "exit"}
  PROVE  ExtraRootsBalanced' /\ TagOnTop'
BY DEF IInv, ExtraRootsBalanced, RootsOf, OperandsOf, TagOnTop, Arg, SP

\* alloc keeps the invariant.
LEMMA AllocTypes ==
  ASSUME IInv, AllocStep
  PROVE  IInv'
<1>1. /\ heap.current \in Int /\ need \in Nat /\ ids \in Nat /\ heap \in Chunk
      /\ root \in Nat
  BY DEF IInv, TypeOK, GcTypeOK, Chunk
<1>2. heap' \in Chunk /\ ids' \in Nat /\ root' \in Nat
  <2>1. [heap EXCEPT !.current = @ + need] \in Chunk
    BY <1>1 DEF Chunk
  <2>2. QED
    BY <1>1, <2>1 DEF AllocStep, AllocOnHeap, StartGc, Retry, store, regs
<1>3. /\ pc' \in PCs /\ pc' \notin {"mutator", "exit", "queue", "fields"}
      /\ pc' = "roots" => root' = 1
      /\ pc \notin {"mutator", "exit"}
      /\ UNCHANGED <<old, obj, caller, need, head, tail, cur, todo, iter, free>>
  BY DEF AllocStep, AllocOnHeap, StartGc, Retry, PCs, store, regs
<1>4. TypeOK'
  BY <1>2, <1>3 DEF IInv, TypeOK, GcTypeOK, caller, WellSized
<1>5. QED
  BY <1>3, <1>4, CallerKept DEF IInv, Scanning, caller

\* heap_next_obj_iterator yields an address.
LEMMA NextCellInt ==
  ASSUME IInv, NEW h \in Int
  PROVE  Next_cell(h) \in Int
BY ObjType, AtObject, ObjectWords DEF IInv, Next_cell

\* The roots are words.
LEMMA RootWord ==
  ASSUME IInv, NEW n \in 1..NRoots
  PROVE  RootValue(n) \in Word
<1>1. /\ stack \in Seq(Word) /\ extra \in Seq(0..Len(stack)) /\ cvar \in Word
      /\ Len(stack) \in Nat /\ Len(extra) \in Nat
  BY LenProperties DEF IInv, TypeOK, GcTypeOK
<1>2. CASE n <= Len(stack)
  <2>1. Len(stack) + 1 - n \in 1..Len(stack)
    BY <1>1, <1>2
  <2>2. QED
    BY <1>1, <1>2, <2>1, ElementOfSeq DEF RootValue
<1>3. CASE n > Len(stack)
  <2>1. n - Len(stack) \in 1..Len(extra)
    BY <1>1, <1>3 DEF NRoots
  <2>2. extra[n - Len(stack)] \in 0..Len(stack)
    BY <1>1, <2>1, ElementOfSeq
  <2>3. Deref(extra[n - Len(stack)]) \in Word
    BY <1>1, <2>2, ElementOfSeq DEF Deref, CLocal
  <2>4. QED
    BY <1>1, <1>3, <2>3 DEF RootValue
<1>4. QED
  BY <1>1, <1>2, <1>3

\* The collector's bits and forward addresses are no part of a value.
SameValues(objs, kept) ==
  /\ DOMAIN kept = DOMAIN objs
  /\ \A a \in DOMAIN objs : /\ kept[a].id = objs[a].id
                            /\ kept[a].type = objs[a].type
                            /\ kept[a].len = objs[a].len
                            /\ kept[a].contents = objs[a].contents

\* Each write of the mark phase keeps the values as they are.
LEMMA FwdSame ==
  ASSUME NEW objs, Objects(objs), NEW cell, NEW p
  PROVE  SameValues(objs, [objs EXCEPT ![cell].fwd = p])
BY DEF Objects, Object, SameValues

\* make_enqueued keeps the values.
LEMMA EnqSame ==
  ASSUME NEW objs, Objects(objs), NEW h
  PROVE  SameValues(objs, [objs EXCEPT ![h].enq = TRUE])
BY DEF Objects, Object, SameValues

\* queue_enqueue keeps the values.
LEMMA EnqueuedSame ==
  ASSUME NEW objs, Objects(objs), NEW cell, NEW p \in Int
  PROVE  SameValues(objs, Enqueued(objs, cell, p))
<1> DEFINE linked == [objs EXCEPT ![cell].fwd = p]
<1>1. Objects(linked) /\ SameValues(objs, linked)
  BY FwdObjects, FwdSame
<1> HIDE DEF linked
<1>2. SameValues(linked, [linked EXCEPT ![Header(p)].enq = TRUE])
  BY <1>1, EnqSame
<1>3. SameValues(objs, [linked EXCEPT ![Header(p)].enq = TRUE])
  BY <1>1, <1>2 DEF SameValues
<1>4. QED
  BY <1>3 DEF Enqueued, linked

\* mark_object and make_dequeued keep the values.
LEMMA MarkSame ==
  ASSUME NEW objs, Objects(objs), NEW h
  PROVE  SameValues(objs, [objs EXCEPT ![h].enq = FALSE, ![h].mark = TRUE])
BY DEF Objects, Object, SameValues

\* Where values are kept, the fields still to visit stay pointer fields.
LEMMA PtrFieldsKept ==
  ASSUME SameValues(obj, obj')
  PROVE  \A a : PtrFields(At(a))' = PtrFields(At(a))
BY DEF SameValues, PtrFields, Fields, At

\* The mark phase keeps the invariant.
LEMMA MarkTypes ==
  ASSUME IInv, MarkStep
  PROVE  IInv'
<1>1. /\ Objects(obj) /\ heap \in Chunk /\ heap.begin \in Int
      /\ root \in Nat /\ head \in Int /\ tail \in Int /\ cur \in Int
      /\ todo \subseteq Nat /\ pc \in PCs
  BY ObjType DEF IInv, TypeOK, GcTypeOK, Chunk
<1>2. /\ UNCHANGED <<heap, old, caller, need, ids>>
      /\ pc \notin {"mutator", "exit"} /\ pc' \notin {"mutator", "exit"} /\ pc' \in PCs
  BY <1>1 DEF MarkStep, SkipRoot, MarkRoot, Dequeue, ScanField, FieldsDone, MarkReturn,
              MarkDone, PCs, store
<1>3. ASSUME NEW v \in Word, Unmarked(v)
      PROVE  v \in Int
  BY <1>3 DEF Unmarked, is_valid_heap_pointer, UNBOXED, Word
<1>4. ASSUME Objects(obj'), root' \in Nat, head' \in Int, tail' \in Int, cur' \in Int,
             todo' \subseteq Nat, iter' \in Int, free' \in Int, Scanning'
      PROVE  IInv'
  <2>1. TypeOK'
    BY <1>2, <1>4 DEF IInv, TypeOK, GcTypeOK, Objects, caller
  <2>2. QED
    BY <1>2, <1>4, <2>1, CallerKept DEF IInv, caller
<1>5. iter \in Int /\ free \in Int /\ Scanning
      /\ (pc \in {"roots", "queue", "fields"} => root >= 1)
  BY DEF IInv, TypeOK, GcTypeOK, Scanning
<1>6. CASE SkipRoot
  BY <1>1, <1>4, <1>5, <1>6 DEF SkipRoot, Scanning, store
<1>7. CASE MarkRoot
  <2>1. RootValue(root) \in Int
    BY <1>1, <1>3, <1>5, <1>7, RootWord DEF MarkRoot
  <2>2. Objects(obj')
    BY <1>1, <1>7, <2>1, EnqueuedObjects DEF MarkRoot
  <2>3. QED
    BY <1>1, <1>4, <1>5, <1>7, <2>2, NextCellInt DEF MarkRoot, Scanning
<1>8. CASE Dequeue
  <2> DEFINE h == Header(At(head).fwd)
  <2>1. h \in Int /\ PtrFields(At(h)) \subseteq Nat
    BY <1>1, AtObject
       DEF Object, Header, BYTES_TO_WORDS, DATA_HEADER_SZ, WordBytes, PtrFields, Fields,
           FirstField
  <2>2. Objects(obj')
    BY <1>1, <1>8, MarkObjects DEF Dequeue
  <2>3. \A a : PtrFields(At(a))' = PtrFields(At(a))
    BY <1>1, <1>8, MarkSame, PtrFieldsKept DEF Dequeue
  <2>4. Scanning'
    BY <1>5, <1>8, <2>3 DEF Scanning, Dequeue
  <2>5. QED
    BY <1>1, <1>4, <1>5, <1>8, <2>1, <2>2, <2>4, NextCellInt DEF Dequeue
<1>9. CASE ScanField
  <2>1. PICK i \in todo :
          /\ todo' = todo \ {i}
          /\ IF Enqueueable(At(cur).contents[i])
             THEN /\ obj' = Enqueued(obj, tail, At(cur).contents[i])
                  /\ tail' = Next_cell(tail)
             ELSE UNCHANGED <<obj, tail>>
    BY <1>9 DEF ScanField
  <2>2. i \in PtrFields(At(cur)) /\ todo \subseteq PtrFields(At(cur)) /\ pc = "fields"
    BY <1>9, <2>1 DEF ScanField, IInv, Scanning
  <2>3. At(cur).contents[i] \in Int
    BY <1>1, <2>2, AtObject, PtrFieldInt
  <2>4. Objects(obj') /\ tail' \in Int
    BY <1>1, <2>1, <2>3, EnqueuedObjects, NextCellInt
  <2>5. SameValues(obj, obj')
    BY <1>1, <2>1, <2>3, EnqueuedSame DEF SameValues
  <2>6. \A a : PtrFields(At(a))' = PtrFields(At(a))
    BY <2>5, PtrFieldsKept
  <2>7. Scanning'
    BY <1>5, <1>9, <2>1, <2>2, <2>6 DEF Scanning, ScanField
  <2>8. QED
    BY <1>1, <1>4, <1>5, <1>9, <2>1, <2>4, <2>7 DEF ScanField
<1>10. CASE FieldsDone
  BY <1>1, <1>4, <1>5, <1>10 DEF FieldsDone, Scanning, store
<1>11. CASE MarkReturn
  BY <1>1, <1>4, <1>5, <1>11 DEF MarkReturn, Scanning, store
<1>12. CASE MarkDone
  BY <1>1, <1>4, <1>5, <1>12 DEF MarkDone, Scanning, store
<1>13. QED
  BY <1>6, <1>7, <1>8, <1>9, <1>10, <1>11, <1>12 DEF MarkStep

\* A fixed word is a word, and an immediate is not touched.
LEMMA FixWord ==
  ASSUME IInv, NEW v \in Word
  PROVE  Fix(v) \in Word /\ (UNBOXED(v) => Fix(v) = v)
<1>1. /\ Objects(obj) /\ heap.begin \in Int /\ old.begin \in Int
  BY ObjType DEF IInv, TypeOK, GcTypeOK, Chunk
<1>2. \A h : At(h).fwd \in Int
  BY <1>1, AtObject DEF Object
<1>3. ASSUME InOld(v)
      PROVE  Moved(v) \in Int
  <2>1. v \in Int
    BY <1>3 DEF InOld, UNBOXED, Word
  <2>2. QED
    BY <1>1, <1>2, <2>1
       DEF Moved, Target, Content, Header, BYTES_TO_WORDS, DATA_HEADER_SZ, WordBytes
<1>4. QED
  BY <1>3 DEF Fix, InOld, Word

\* An object moves to an address.
LEMMA TargetInt ==
  ASSUME IInv, NEW h
  PROVE  Target(h) \in Int
<1>1. At(h).fwd \in Int
  BY ObjType, AtObject DEF IInv, Object
<1>2. QED
  BY <1>1 DEF Target, IInv, TypeOK, GcTypeOK, Chunk

\* update_references leaves objects.
LEMMA UpdateObjects ==
  ASSUME IInv, UpdateObject
  PROVE  Objects(obj')
<1>1. Objects(obj)
  BY ObjType DEF IInv
<1>2. CASE At(iter).mark
  <2> DEFINE o == obj[iter]
             fixed == [i \in DOMAIN o.contents |->
                         IF i \in PtrFields(o) THEN Fix(o.contents[i]) ELSE o.contents[i]]
  <2>1. iter \in DOMAIN obj
    BY <1>2 DEF At, NoObject
  <2>2. o.contents \in Seq(Word)
    BY <1>1, <2>1 DEF Objects, Object
  <2>3. Len(o.contents) \in Nat /\ DOMAIN o.contents = 1..Len(o.contents)
    BY <2>2, LenProperties
  <2>4. \A i \in 1..Len(o.contents) : o.contents[i] \in Word /\ Fix(o.contents[i]) \in Word
    BY <2>2, ElementOfSeq, FixWord
  <2>5. fixed \in [1..Len(o.contents) -> Word]
    BY <2>3, <2>4
  <2>6. obj' = [obj EXCEPT ![iter].contents = fixed]
    BY <1>2, <2>1 DEF UpdateObject
  <2> HIDE DEF fixed
  <2>7. fixed \in Seq(Word) /\ Len(fixed) = Len(o.contents)
    BY <2>3, <2>5, FunctionIsSeq
  <2>8. QED
    BY <1>1, <2>1, <2>6, <2>7, ContentsObjects
<1>3. CASE ~ At(iter).mark
  BY <1>1, <1>3 DEF UpdateObject
<1>4. QED
  BY <1>2, <1>3

\* compact_phase keeps the invariant.
LEMMA CompactTypes ==
  ASSUME IInv, CompactStep
  PROVE  IInv'
<1>1. /\ Objects(obj) /\ heap \in Chunk /\ heap.begin \in Int /\ heap.current \in Int
      /\ heap.size \in Int /\ old \in Chunk /\ need \in Nat
      /\ iter \in Int /\ free \in Int /\ cvar \in Word /\ stack \in Seq(Word)
      /\ extra \in Seq(0..Len(stack))
      /\ (op.fn = "Bsexp" => UNBOXED(Arg(0)))
      /\ pc \in PCs /\ ExtraRootsBalanced
  BY ObjType DEF IInv, TypeOK, GcTypeOK, Chunk, TagOnTop
<1>2. /\ UNCHANGED <<extra, op, need, ids, root, head, tail, cur, todo>>
      /\ pc \notin {"mutator", "exit"}
      /\ pc' \in PCs \ {"mutator", "exit", "roots", "queue", "fields"}
  BY <1>1 DEF CompactStep, Locate, MapChunk, MapFails, UpdateObject, FixRoots, Relocate,
              Shrink, PCs, store, caller, regs
<1>3. ASSUME heap' \in Chunk, old' \in Chunk, Objects(obj'),
             UNCHANGED <<stack, cvar>>, iter' \in Int, free' \in Int
      PROVE  IInv'
  <2>1. TypeOK'
    BY <1>2, <1>3 DEF IInv, TypeOK, GcTypeOK, Objects
  <2>2. QED
    BY <1>2, <1>3, <2>1, CallerKept DEF IInv, Scanning
<1>4. Next_cell(iter) \in Int /\ Words(At(iter)) \in Nat
  BY <1>1, NextCellInt, AtObject, ObjectWords
<1>5. CASE Locate
  <2>1. Objects(obj') /\ free' \in Int
    <3>1. Objects([obj EXCEPT ![iter].fwd = free])
      BY <1>1, FwdObjects
    <3>2. obj' = obj \/ obj' = [obj EXCEPT ![iter].fwd = free]
      BY <1>5 DEF Locate
    <3>3. free' = free \/ free' = free + Words(At(iter))
      BY <1>5 DEF Locate
    <3>4. Objects(obj')
      BY <1>1, <3>1, <3>2 DEF Objects
    <3>5. QED
      BY <1>1, <1>4, <3>3, <3>4
  <2>2. QED
    BY <1>1, <1>3, <1>4, <1>5, <2>1 DEF Locate, caller
<1>6. CASE MapChunk
  <2>1. PICK b \in Bases :
          /\ heap' = [begin |-> b, size |-> NextHeapSize,
                      current |-> heap.current + (b - heap.begin)]
          /\ obj' = [a \in {h + (b - heap.begin) : h \in DOMAIN obj} |->
                       obj[a - (b - heap.begin)]]
          /\ free' = free + (b - heap.begin)
          /\ iter' = b
    BY <1>6 DEF MapChunk
  <2>2. b \in Int /\ b - heap.begin \in Int
    BY <1>1, BasesAssumption
  <2>3. NextHeapSize \in Int
    BY <1>1, MinCapAssumption DEF NextHeapSize, Max2
  <2>4. heap' \in Chunk /\ free' \in Int /\ iter' \in Int
    <3>1. /\ heap.current + (b - heap.begin) \in Int
          /\ free + (b - heap.begin) \in Int
      BY <1>1, <2>2
    <3>2. QED
      BY <2>1, <2>2, <2>3, <3>1 DEF Chunk
  <2>5. Objects(obj')
    BY <1>1, <2>1, <2>2, ShiftObjects
  <2>6. QED
    BY <1>1, <1>3, <1>6, <2>4, <2>5 DEF MapChunk, caller
<1>7. CASE MapFails
  BY <1>1, <1>3, <1>7 DEF MapFails, store, caller, regs
<1>8. CASE UpdateObject
  BY <1>1, <1>3, <1>4, <1>8, UpdateObjects DEF UpdateObject, caller
<1>9. CASE FixRoots
  <2>1. Len(stack) \in Nat /\ DOMAIN stack = 1..Len(stack)
    BY <1>1, LenProperties
  <2>2. \A k \in 1..Len(stack) : stack[k] \in Word /\ Fix(stack[k]) \in Word
    BY <1>1, ElementOfSeq, FixWord
  <2>3. stack' \in [1..Len(stack) -> Word]
    BY <1>9, <2>1, <2>2 DEF FixRoots
  <2>4. stack' \in Seq(Word) /\ Len(stack') = Len(stack)
    BY <2>1, <2>3, FunctionIsSeq
  <2>5. cvar' \in Word
    BY <1>1, <1>9, FixWord DEF FixRoots
  <2>6. UNCHANGED <<heap, old, obj, free>> /\ iter' \in Int
    BY <1>1, <1>9 DEF FixRoots, store
  <2>7. TypeOK'
    BY <1>1, <1>2, <2>4, <2>5, <2>6 DEF IInv, TypeOK, GcTypeOK
  <2>8. ExtraRootsBalanced'
    BY <1>1, <1>2, <2>4 DEF ExtraRootsBalanced, RootsOf, OperandsOf, SP
  <2>9. TagOnTop'
    <3>1. ASSUME op.fn = "Bsexp"
          PROVE  UNBOXED(stack'[Len(stack)])
      <4>1. Len(stack) >= 1
        BY <1>1, <2>1, <3>1 DEF ExtraRootsBalanced, OperandsOf, SP, IInv, TypeOK, Calls
      <4>2. UNBOXED(stack[Len(stack)]) /\ stack[Len(stack)] \in Word
        BY <1>1, <2>1, <2>2, <3>1, <4>1 DEF Arg, SP
      <4>3. stack'[Len(stack)] = Fix(stack[Len(stack)])
        BY <1>9, <2>1, <4>1 DEF FixRoots
      <4>4. QED
        BY <4>2, <4>3, FixWord
    <3>2. QED
      BY <1>2, <2>1, <2>4, <3>1 DEF TagOnTop, Arg, SP
  <2>10. QED
    BY <1>2, <2>7, <2>8, <2>9 DEF IInv, Scanning
<1>10. CASE Relocate
  <2>1. CASE At(iter).mark
    <3>1. iter \in DOMAIN obj
      BY <2>1 DEF At, NoObject
    <3>2. Objects(obj')
      BY <1>1, <1>10, <2>1, <3>1, TargetInt, MovedToObjects DEF Relocate
    <3>3. QED
      BY <1>1, <1>3, <1>4, <1>10, <3>2 DEF Relocate, caller
  <2>2. CASE ~ At(iter).mark
    BY <1>1, <1>3, <1>4, <1>10, <2>2 DEF Relocate, caller
  <2>3. QED
    BY <2>1, <2>2
<1>11. CASE Shrink
  <2>1. Objects(obj')
    BY <1>1, <1>11 DEF Objects, Shrink
  <2>2. heap' \in Chunk /\ old' \in Chunk
    BY <1>1, <1>11 DEF Shrink, Chunk, NoChunk
  <2>3. QED
    BY <1>3, <1>11, <2>1, <2>2 DEF Shrink, caller
<1>12. QED
  BY <1>5, <1>6, <1>7, <1>8, <1>9, <1>10, <1>11 DEF CompactStep

-----------------------------------------------------------------------------
\* __init establishes the invariant.
LEMMA IInvInit == Init => IInv
<1> SUFFICES ASSUME Init PROVE IInv
  OBVIOUS
<1>1. heap \in Chunk
  BY BasesAssumption, MinCapAssumption DEF Init, GcInit, Chunk
<1>2. stack \in [1..NGlobals -> Word]
  BY DEF Init, GcInit, Foreign, Word
<1>3. stack \in Seq(Word) /\ Len(stack) = NGlobals
  BY <1>2, NGlobalsAssumption, FunctionIsSeq
<1>4. /\ old \in Chunk /\ DOMAIN obj = {} /\ extra = <<>> /\ cvar \in Word
      /\ op = NoOp /\ pc = "mutator"
      /\ need \in Nat /\ ids \in Nat /\ root \in Nat /\ head \in Int /\ tail \in Int
      /\ cur \in Int /\ todo \subseteq Nat /\ iter \in Int /\ free \in Int
  BY DEF Init, GcInit, NoChunk, Chunk, Word
<1>5. op \in Calls /\ extra \in Seq(0..Len(stack))
  BY <1>4, EmptySeq DEF NoOp, Call, CallAt, Calls, Fns
<1>6. TypeOK
  BY <1>1, <1>3, <1>4, <1>5 DEF TypeOK, GcTypeOK, PCs
<1>7. ExtraRootsBalanced
  BY <1>3, <1>4, NGlobalsAssumption DEF ExtraRootsBalanced, RootsOf, OperandsOf, NoOp, Call, CallAt, SP
<1>8. QED
  BY <1>4, <1>6, <1>7 DEF IInv, Scanning, TagOnTop, NoOp, Call, CallAt

\* Every step keeps the invariant.
LEMMA IInvNext ==
  ASSUME IInv, [Next]_vars
  PROVE  IInv'
<1>1. CASE MutatorStep
  BY <1>1, StackStep, ElemStep, StaStep, BeginArrayStep, BeginSexpStep, BeginClosureStep,
     BeginStringStep, BeginCloneStep, FinishArrayStep, FinishSexpStep, FinishClosureStep,
     FinishStringStep, FinishCloneStep, FinishCloneStringStep,
     BeginLibraryStep, FinishMakeArrayStep, FinishSubstringStep, FinishConcatStep
  DEF MutatorStep
<1>2. CASE GcStep
  BY <1>2, AllocTypes, MarkTypes, CompactTypes DEF GcStep
<1>3. CASE UNCHANGED vars
  BY <1>3 DEF vars, store, caller, regs, IInv, TypeOK, GcTypeOK, ExtraRootsBalanced,
              Scanning, TagOnTop, Arg, SP, RootsOf, OperandsOf, PtrFields, At, WellSized
<1>4. QED
  BY <1>1, <1>2, <1>3 DEF Next

\* At every point of a run memory holds objects whose headers count their
\* members, the stack holds words and the extra roots are locations of the
\* stack or of the C variable: alloc, the collector and the constructors of
\* runtime.c never leave memory that the iterators of gc.c would misread.
THEOREM TypeCorrect == Spec => []TypeOK
<1>1. IInv => TypeOK
  BY DEF IInv
<1>2. QED
  BY <1>1, IInvInit, IInvNext, PTL DEF Spec

\* push_extra_root and pop_extra_root (gc.c:622, 632) are balanced in every
\* function of runtime.c that allocates, in LIFO order, with the collector
\* running in between or not.
THEOREM RootsBalanced == Spec => []ExtraRootsBalanced
<1>1. IInv => ExtraRootsBalanced
  BY DEF IInv
<1>2. QED
  BY <1>1, IInvInit, IInvNext, PTL DEF Spec

-----------------------------------------------------------------------------
\* The free pointer of compute_locations stays at or above the start of the
\* chunk; the chunk that compact_phase maps holds the live words and the words
\* asked for; so after a collection the request fits.
Room ==
  /\ pc = "locate" => heap.begin <= free
  /\ pc \in {"update", "relocate"} => free + need <= End(heap)
  /\ pc = "retry" => Fits
  /\ pc # "crash"

\* compact_phase makes room.
LEMMA RoomCompact ==
  ASSUME IInv, Room, CompactStep
  PROVE  Room'
<1>1. /\ Objects(obj) /\ heap \in Chunk /\ heap.begin \in Int /\ heap.size \in Int
      /\ heap.current \in Int /\ need \in Nat /\ free \in Int /\ UNCHANGED need
  BY ObjType DEF IInv, TypeOK, GcTypeOK, Chunk, CompactStep, Locate, MapChunk, MapFails,
                 UpdateObject, FixRoots, Relocate, Shrink
<1>2. CASE Locate
  <2>1. Words(At(iter)) \in Nat
    BY <1>1, AtObject, ObjectWords
  <2>2. pc = "locate" /\ pc' = "locate" /\ heap' = heap
        /\ (free' = free \/ free' = free + Words(At(iter)))
    BY <1>2 DEF Locate
  <2>3. QED
    BY <1>1, <2>1, <2>2 DEF Room
<1>3. CASE MapChunk
  <2>1. PICK b \in Bases :
          /\ heap' = [begin |-> b, size |-> NextHeapSize,
                      current |-> heap.current + (b - heap.begin)]
          /\ free' = free + (b - heap.begin)
    BY <1>3 DEF MapChunk
  <2>2. b \in Int
    BY BasesAssumption
  <2>3. heap.begin <= free /\ pc' = "update"
    BY <1>3 DEF MapChunk, Room
  <2>4. NextHeapSize \in Int /\ NextHeapSize >= (free - heap.begin) * 2 + need
    BY <1>1, MinCapAssumption DEF NextHeapSize, Max2
  <2>5. (free - heap.begin) * 2 >= free - heap.begin
    BY <1>1, <2>3
  <2>6. free + (b - heap.begin) + need <= b + NextHeapSize
    BY <1>1, <2>2, <2>4, <2>5
  <2>7. heap'.begin = b /\ heap'.size = NextHeapSize
    BY <2>1
  <2>8. QED
    BY <1>1, <2>1, <2>3, <2>6, <2>7 DEF Room, End
<1>4. CASE MapFails
  BY <1>4 DEF MapFails, Room
<1>5. CASE UpdateObject \/ FixRoots \/ Relocate
  <2>1. /\ pc \in {"update", "relocate"} /\ pc' \in {"update", "relocate"}
        /\ UNCHANGED <<heap, free>>
    BY <1>5 DEF UpdateObject, FixRoots, Relocate, store
  <2>2. QED
    BY <1>1, <2>1 DEF Room, End
<1>6. CASE Shrink
  <2>1. pc = "relocate" /\ pc' = "retry" /\ heap' = [heap EXCEPT !.current = free]
    BY <1>6 DEF Shrink
  <2>2. heap'.current = free /\ heap'.begin = heap.begin /\ heap'.size = heap.size
    BY <1>1, <2>1 DEF Chunk
  <2>3. QED
    BY <1>1, <2>1, <2>2 DEF Room, Fits, End
<1>7. QED
  BY <1>2, <1>3, <1>4, <1>5, <1>6 DEF CompactStep

\* Every step keeps Room.
LEMMA RoomNext ==
  ASSUME IInv, Room, [Next]_vars
  PROVE  Room'
<1>1. CASE MutatorStep
  <2>1. pc' \in {"mutator", "alloc", "exit"}
    BY <1>1 DEF MutatorStep, Const, Load, Store, Drop, Elem, Sta, Mutator, MutatorLeaves,
         Begin, BeginArray, BeginSexp, BeginClosure, BeginString, BeginLstring, BeginClone,
         BeginCloneString, Finish, FinishArray, FinishSexp, FinishClosure, FinishString,
         FinishLstring, FinishClone, FinishCloneString, BeginMakeArray, BeginSubstring,
         BeginConcat, FinishMakeArray, FinishSubstring, FinishConcat
  <2>2. QED
    BY <2>1 DEF Room
<1>2. CASE AllocStep
  BY <1>2 DEF AllocStep, AllocOnHeap, StartGc, Retry, Room
<1>3. CASE MarkStep
  <2>1. heap.begin \in Int
    BY DEF IInv, TypeOK, GcTypeOK, Chunk
  <2>2. QED
    BY <1>3, <2>1 DEF MarkStep, SkipRoot, MarkRoot, Dequeue, ScanField, FieldsDone,
                      MarkReturn, MarkDone, Room, store
<1>4. CASE CompactStep
  BY <1>4, RoomCompact
<1>5. CASE UNCHANGED vars
  BY <1>5 DEF vars, store, regs, Room, Fits, End
<1>6. QED
  BY <1>1, <1>2, <1>3, <1>4, <1>5 DEF Next, GcStep

\* gc_alloc (gc.c:199) never returns NULL: after a collection the request of
\* its caller, who writes to the result unchecked, fits in the heap.
THEOREM NeverOutOfRoom == Spec => []AllocSucceeds
<1>1. Init => IInv /\ Room
  BY IInvInit DEF Init, GcInit, Room
<1>2. IInv /\ Room /\ [Next]_vars => (IInv /\ Room)'
  BY IInvNext, RoomNext
<1>3. Room => AllocSucceeds
  BY DEF Room, AllocSucceeds
<1>4. QED
  BY <1>1, <1>2, <1>3, PTL DEF Spec

-----------------------------------------------------------------------------
(***************************************************************************)
(* Outside of a collection: the steps of the program, the first and second *)
(* half of each function of runtime.c and alloc keep the invariant.        *)
(*                                                                         *)
(* Between collections the memory to come is the heap itself, so HeapSound *)
(* is ObjSound of obj, and what must be shown of a step is that the words  *)
(* it copies are words of the stack or of an object, that the words alloc  *)
(* gives are as many as the object filled in has (CallSound), and that     *)
(* they lie behind all other objects.                                      *)
(***************************************************************************)

\* An object is two words above its header.
LEMMA HeaderContent ==
  ASSUME NEW h \in Int
  PROVE  Header(h) = h - 2 /\ Content(h) = h + 2 /\ Header(Content(h)) = h
BY DEF Header, Content, BYTES_TO_WORDS, DATA_HEADER_SZ, WordBytes

\* No object is without its header.
LEMMA WordsTwo ==
  ASSUME NEW o \in Object
  PROVE  Words(o) \in Nat /\ Words(o) >= 2
<1>1. o.len \in Nat /\ o.type \in Types
  BY DEF Object
<1>2. \E x \in Nat : obj_size(o.type, o.len) = 16 + x
  BY <1>1 DEF Types, obj_size, DATA_HEADER_SZ, MEMBER_SIZE, WordBytes
<1>3. \A x \in Nat : (15 + x) \div 8 \in Nat /\ (15 + x) \div 8 >= 1
  OBVIOUS
<1>4. QED
  BY <1>2, <1>3 DEF Words, obj_words, BYTES_TO_WORDS, WordBytes

\* The part of Sound that is about objects where they are.
ObjSound(objs, first, last, roots) ==
  /\ first \in DOMAIN objs \cup {last}
  /\ \A h \in DOMAIN objs :
       /\ first <= h /\ h < last /\ h + Words(objs[h]) \in DOMAIN objs \cup {last}
       /\ \A a \in DOMAIN objs \cup {last} : a > h => a >= h + Words(objs[h])
  /\ \A h \in DOMAIN objs : \A v \in FieldValues(objs[h]) : Clean(v, DOMAIN objs)
  /\ \A h \in DOMAIN objs : objs[h].type = "STRING" =>
       \A i \in 1..objs[h].len : objs[h].contents[i] \in Chars
  /\ \A v \in roots : Clean(v, DOMAIN objs)

\* An image has what its object has, and its place.
LEMMA ImageFields ==
  \A h : /\ Image(h).at = Place(h) /\ Image(h).id = obj[h].id
         /\ Image(h).type = obj[h].type /\ Image(h).len = obj[h].len
         /\ Image(h).contents = ComingContents(h)
         /\ Words(Image(h)) = Words(obj[h]) /\ Fields(Image(h)) = Fields(obj[h])
BY DEF Image, Words, Fields

\* Before an object moves it is in the memory to come where it is.
LEMMA ImageHere ==
  ~ Compacting =>
     /\ Live = DOMAIN obj
     /\ \A h : /\ Image(h).at = h /\ Image(h).contents = obj[h].contents
               /\ FieldValues(Image(h)) = FieldValues(obj[h])
BY ImageFields DEF Compacting, Live, Place, ComingContents, FieldValues

\* Where nothing is moved the memory is what obj says.
LEMMA StartsHere == ~ Compacting => Starts(Memory) = DOMAIN obj
BY ImageHere DEF Memory, Starts

\* That the memory is in order can then be said of obj itself.
LEMMA SoundHere ==
  ~ Compacting =>
    \A first, last, roots :
      Sound(Memory, first, last, roots) <=> ObjSound(obj, first, last, roots)
<1> SUFFICES ASSUME ~ Compacting, NEW first, NEW last, NEW roots
             PROVE  Sound(Memory, first, last, roots) <=> ObjSound(obj, first, last, roots)
  OBVIOUS
<1>1. Starts(Memory) = DOMAIN obj
  BY StartsHere
<1>2. \A c : c \in Memory <=> \E h \in DOMAIN obj : c = Image(h)
  BY ImageHere DEF Memory
<1>3. \A h : /\ Image(h).at = h /\ Image(h).contents = obj[h].contents
             /\ FieldValues(Image(h)) = FieldValues(obj[h])
             /\ Image(h).type = obj[h].type /\ Image(h).len = obj[h].len
             /\ Words(Image(h)) = Words(obj[h])
  BY ImageHere, ImageFields
<1> HIDE DEF Memory
<1>4. QED
  BY <1>1, <1>2, <1>3 DEF Sound, Tiled, ObjSound


\* A word that a function knows to be a string, or an object of some size.
ReferredHere ==
  \A v : /\ RefersToString(v) <=>
              /\ IsAddress(v) /\ Header(v) \in DOMAIN obj
              /\ obj[Header(v)].type = "STRING"
         /\ \A n : RefersToSized(v, n) <=>
              /\ IsAddress(v) /\ Header(v) \in DOMAIN obj
              /\ Words(obj[Header(v)]) = n

LEMMA RefersHere == ~ Compacting => ReferredHere
<1> SUFFICES ASSUME ~ Compacting, NEW v, NEW n
             PROVE  /\ RefersToString(v) <=>
                         /\ IsAddress(v) /\ Header(v) \in DOMAIN obj
                         /\ obj[Header(v)].type = "STRING"
                    /\ RefersToSized(v, n) <=>
                         /\ IsAddress(v) /\ Header(v) \in DOMAIN obj
                         /\ Words(obj[Header(v)]) = n
  BY DEF ReferredHere
<1>1. \A c : c \in Memory <=> \E h \in DOMAIN obj : c = Image(h)
  BY ImageHere DEF Memory
<1>2. \A h : Image(h).at = h /\ Image(h).type = obj[h].type
             /\ Words(Image(h)) = Words(obj[h])
  BY ImageHere, ImageFields
<1>3. Coming(v) = v
  BY DEF Coming, Compacting
<1>4. QED
  BY <1>1, <1>2, <1>3 DEF RefersToString, RefersToSized

\* Nothing is changed in a root outside of "update".
LEMMA RootsHere == ~ Compacting => ComingRoots = Roots
BY DEF Compacting, ComingRoots, Coming

\* Integers, characters and raw words refer to nothing.
LEMMA CleanPlain ==
  ASSUME NEW v, v \in Imm \cup Chars \cup Raw, NEW places
  PROVE  Clean(v, places)
BY DEF Clean, IsAddress, UNBOXED, Chars, Raw

\* No bit of the collector is set.
Quiet(objs) == \A h \in DOMAIN objs : objs[h].mark = FALSE /\ objs[h].enq = FALSE

Calm == pc \in {"mutator", "alloc", "fill", "exit", "crash", "segv"}

StackWords(s) == {s[k] : k \in DOMAIN s}

\* The invariant where no collection is under way, or has just ended.
LEMMA CalmFacts ==
  ASSUME IInv, CInv, Calm \/ pc = "retry", Alive
  PROVE  /\ heap.begin \in Bases /\ IsFiniteSet(DOMAIN obj)
         /\ ObjSound(obj, heap.begin, Limit, Roots)
         /\ Quiet(obj) /\ Objects(obj)
<1>1. Objects(obj)
  BY ObjType DEF IInv
<1>2. Marked = {} /\ Flagged = {} /\ ~ Compacting
  BY DEF CInv, Bits, Calm, Alive, Compacting
<1>3. Quiet(obj)
  BY <1>1, <1>2 DEF Quiet, Marked, Flagged, Objects, Object
<1>4. Sound(Memory, heap.begin, Limit, Roots)
  BY <1>2, RootsHere DEF CInv, HeapSound
<1>5. QED
  BY <1>1, <1>2, <1>3, <1>4, SoundHere DEF CInv, HeapSound

\* What is to show for it after a step.
CalmFits ==
  /\ Calm /\ heap.begin \in Bases /\ IsFiniteSet(DOMAIN obj)
  /\ Alive => ObjSound(obj, heap.begin, Limit, Roots) /\ Quiet(obj) /\ CallSound

\* Outside of a collection (gc.c:58) nothing of the invariant but the heap, the
\* bits and the running call is at stake.
LEMMA CalmInv == CalmFits => CInv
<1> SUFFICES ASSUME Calm, heap.begin \in Bases, IsFiniteSet(DOMAIN obj),
                    Alive => ObjSound(obj, heap.begin, Limit, Roots) /\ Quiet(obj)
                             /\ CallSound
             PROVE  CInv
  BY DEF CalmFits
<1>1. ~ Compacting
  BY DEF Calm, Compacting
<1>2. HeapSound
  BY <1>1, SoundHere, RootsHere DEF HeapSound
<1>3. Bits
  BY DEF Bits, Calm, Alive, Quiet, Marked, Flagged
<1>4. CallSound
  BY DEF CallSound
<1>5. Marking /\ Queue /\ Locating /\ Compaction /\ Collected
  BY <1>1 DEF Marking, Queue, Locating, Compaction, Collected, Calm
<1>6. QED
  BY <1>2, <1>3, <1>4, <1>5 DEF CInv

\* The roots of a program that runs are its stack.
LEMMA MutatorRoots ==
  IInv /\ pc = "mutator" => Roots = StackWords(stack) /\ Limit = heap.current
<1> SUFFICES ASSUME IInv, pc = "mutator"
             PROVE  Roots = StackWords(stack) /\ Limit = heap.current
  OBVIOUS
<1>1. extra = <<>>
  BY Unregistered
<1>2. QED
  BY <1>1 DEF Roots, StackWords, Limit, Compacting

\* An instruction that neither allocates nor registers.
LEMMA MutatorSound ==
  ASSUME IInv, CInv, IInv', Mutator, MutatorLeaves,
         DOMAIN obj' = DOMAIN obj, Quiet(obj'),
         ObjSound(obj', heap.begin, heap.current, StackWords(stack'))
  PROVE  CInv'
<1>1. heap' = heap /\ pc = "mutator" /\ pc' = "mutator"
  BY DEF MutatorLeaves, Mutator
<1>2. Roots' = StackWords(stack') /\ Limit' = heap.current
  <2>1. (IInv /\ pc = "mutator" => Roots = StackWords(stack) /\ Limit = heap.current)'
    BY MutatorRoots, PTL
  <2>2. QED
    BY <1>1, <2>1
<1>3. heap.begin \in Bases /\ IsFiniteSet(DOMAIN obj)
  BY DEF CInv, HeapSound
<1>4. CallSound'
  BY <1>1 DEF CallSound
<1>5. (CalmFits => CInv)'
  BY CalmInv, PTL
<1>6. QED
  BY <1>1, <1>2, <1>3, <1>4, <1>5 DEF Calm, CalmFits

-----------------------------------------------------------------------------
(* Instructions that neither allocate nor register.                         *)

\* Adding a word to the stack or dropping some.
LEMMA StackClean ==
  ASSUME NEW s \in Seq(Word), NEW D, \A v \in StackWords(s) : Clean(v, D)
  PROVE  /\ \A v \in Word : Clean(v, D) =>
              \A w \in StackWords(Pushed(s, v)) : Clean(w, D)
         /\ \A n \in 0..Len(s) :
              \A w \in StackWords(SubSeq(s, 1, Len(s) - n)) : Clean(w, D)
<1>1. ASSUME NEW v \in Word, Clean(v, D), NEW w \in StackWords(Pushed(s, v))
      PROVE  Clean(w, D)
  <2>1. PICK k \in 1..(Len(s) + 1) : w = Append(s, v)[k]
    BY <1>1, AppendProperties, LenProperties DEF StackWords, Pushed
  <2>2. CASE k = Len(s) + 1
    BY <1>1, <2>1, <2>2, AppendProperties
  <2>3. CASE k \in 1..Len(s)
    BY <2>1, <2>3, AppendProperties, LenProperties DEF StackWords
  <2>4. QED
    BY <2>1, <2>2, <2>3, LenProperties
<1>2. ASSUME NEW n \in 0..Len(s), NEW w \in StackWords(SubSeq(s, 1, Len(s) - n))
      PROVE  Clean(w, D)
  <2>1. Len(s) \in Nat /\ DOMAIN s = 1..Len(s) /\ \A i \in 1..(Len(s) - n) : s[i] \in Word
    BY LenProperties, ElementOfSeq
  <2>2. /\ DOMAIN SubSeq(s, 1, Len(s) - n) = 1..(Len(s) - n)
        /\ \A i \in 1..(Len(s) - n) : SubSeq(s, 1, Len(s) - n)[i] = s[i]
    BY <2>1, SubSeqProperties
  <2>3. QED
    BY <1>2, <2>1, <2>2 DEF StackWords
<1>3. QED
  BY <1>1, <1>2

\* Popping operands.
LEMMA DroppedClean ==
  ASSUME stack \in Seq(Word), NEW D, \A v \in StackWords(stack) : Clean(v, D),
         NEW n \in 0..SP
  PROVE  /\ Dropped(n) \in Seq(Word)
         /\ \A v \in StackWords(Dropped(n)) : Clean(v, D)
<1>1. \A m \in 0..Len(stack) :
        \A w \in StackWords(SubSeq(stack, 1, Len(stack) - m)) : Clean(w, D)
  BY StackClean
<1>2. QED
  BY <1>1, DroppedSeq DEF Dropped, SP

\* What the instructions start from.
LEMMA MutatorFacts ==
  ASSUME IInv, CInv, pc = "mutator"
  PROVE  /\ ObjSound(obj, heap.begin, heap.current, StackWords(stack))
         /\ Quiet(obj) /\ Objects(obj)
         /\ stack \in Seq(Word) /\ SP \in Nat /\ SP = Len(stack)
         /\ \A i \in 0..(SP - 1) : Arg(i) \in Word /\ Clean(Arg(i), DOMAIN obj)
<1>1. ObjSound(obj, heap.begin, heap.current, StackWords(stack)) /\ Quiet(obj) /\ Objects(obj)
  BY CalmFacts, MutatorRoots DEF Calm, Alive
<1>2. stack \in Seq(Word) /\ SP \in Nat /\ SP = Len(stack)
  BY LenProperties DEF SP, IInv, TypeOK, GcTypeOK
<1>3. ASSUME NEW i \in 0..(SP - 1)
      PROVE  Arg(i) \in Word /\ Clean(Arg(i), DOMAIN obj)
  <2>1. SP - i \in 1..Len(stack) /\ DOMAIN stack = 1..Len(stack)
    BY <1>2, LenProperties
  <2>2. QED
    BY <1>1, <1>2, <2>1, ArgWord DEF Arg, StackWords, ObjSound
<1>4. QED
  BY <1>1, <1>2, <1>3

\* CONST, LD, DUP, ST and DROP.
LEMMA StackSound ==
  ASSUME IInv, CInv, IInv', Const \/ Load \/ Store \/ Drop
  PROVE  CInv'
<1>1. Mutator /\ MutatorLeaves /\ obj' = obj /\ pc = "mutator"
  BY DEF Const, Load, Store, Drop, Mutator
<1>2. /\ ObjSound(obj, heap.begin, heap.current, StackWords(stack))
      /\ Quiet(obj) /\ stack \in Seq(Word) /\ SP \in Nat /\ SP = Len(stack)
      /\ \A i \in 1..Len(stack) : stack[i] \in Word
  BY <1>1, MutatorFacts, ElementOfSeq
<1>3. \A v \in StackWords(stack) : Clean(v, DOMAIN obj)
  BY <1>2 DEF ObjSound
<1>4. DOMAIN stack = 1..Len(stack)
  BY <1>2, LenProperties
<1>5. \A v \in StackWords(stack') : Clean(v, DOMAIN obj)
  <2>1. CASE Const
    BY <1>2, <1>3, <2>1, StackClean, CleanPlain DEF Const, Word
  <2>2. CASE Load
    <3>1. PICK k \in 1..SP : stack' = Pushed(stack, stack[k])
      BY <2>2 DEF Load
    <3>2. stack[k] \in Word /\ Clean(stack[k], DOMAIN obj)
      BY <1>2, <1>3, <1>4 DEF StackWords
    <3>3. QED
      BY <1>2, <1>3, <3>1, <3>2, StackClean
  <2>3. CASE Store
    BY <1>2, <1>3, <1>4, <2>3 DEF Store, StackWords
  <2>4. CASE Drop
    <3>1. stack' = Dropped(1) /\ 1 \in 0..SP
      BY <1>2, <2>4, NGlobalsAssumption DEF Drop
    <3>2. QED
      BY <1>2, <1>3, <3>1, DroppedClean
  <2>5. QED
    BY <2>1, <2>2, <2>3, <2>4
<1>6. ObjSound(obj', heap.begin, heap.current, StackWords(stack')) /\ Quiet(obj')
  BY <1>1, <1>2, <1>5 DEF ObjSound
<1>7. QED
  BY <1>1, <1>6, MutatorSound

\* Belem.
LEMMA ElemSound ==
  ASSUME IInv, CInv, IInv', Elem
  PROVE  CInv'
<1> DEFINE h == Header(Arg(1))
<1>1. Mutator /\ MutatorLeaves /\ obj' = obj /\ pc = "mutator"
  BY DEF Elem, Mutator
<1>2. /\ ObjSound(obj, heap.begin, heap.current, StackWords(stack))
      /\ Quiet(obj) /\ Objects(obj) /\ stack \in Seq(Word) /\ SP \in Nat /\ SP = Len(stack)
  BY <1>1, MutatorFacts
<1>3. \A v \in StackWords(stack) : Clean(v, DOMAIN obj)
  BY <1>2 DEF ObjSound
<1>4. h \in DOMAIN obj /\ Container(Arg(1)) = obj[h]
  BY DEF Elem, IsRef, Container, At
<1>5. PICK i \in Fields(obj[h]) \cup (IF obj[h].type = "STRING" THEN 1..obj[h].len ELSE {}) :
        stack' = Pushed(Dropped(2), obj[h].contents[i])
  BY <1>4 DEF Elem
<1>6. obj[h].contents[i] \in Word
  BY <1>2, <1>4, <1>5, MemberWord, FieldMember DEF Objects
<1>7. Clean(obj[h].contents[i], DOMAIN obj)
  <2>1. CASE i \in Fields(obj[h])
    BY <1>2, <1>4, <2>1 DEF ObjSound, FieldValues
  <2>2. CASE obj[h].type = "STRING" /\ i \in 1..obj[h].len
    BY <1>2, <1>4, <2>2, CleanPlain DEF ObjSound
  <2>3. QED
    BY <1>5, <2>1, <2>2
<1>8. SP >= 2
  BY <1>2, NGlobalsAssumption DEF Elem
<1>9. Dropped(2) \in Seq(Word) /\ \A v \in StackWords(Dropped(2)) : Clean(v, DOMAIN obj)
  <2>1. 2 \in 0..SP
    BY <1>2, <1>8
  <2>2. QED
    BY <1>2, <1>3, <2>1, DroppedClean
<1>10. \A v \in StackWords(stack') : Clean(v, DOMAIN obj)
  BY <1>5, <1>6, <1>7, <1>9, StackClean
<1>11. ObjSound(obj', heap.begin, heap.current, StackWords(stack')) /\ Quiet(obj')
  BY <1>1, <1>2, <1>10 DEF ObjSound
<1>12. QED
  BY <1>1, <1>11, MutatorSound

\* A write to a member keeps the heap in order: a string gets characters, any
\* other object words that refer to objects.
LEMMA WriteSound ==
  ASSUME Objects(obj), NEW h \in DOMAIN obj,
         NEW i \in 1..NMembers(obj[h].type, obj[h].len), NEW w,
         Clean(w, DOMAIN obj), obj[h].type = "STRING" => w \in Chars,
         NEW first, NEW last, NEW roots, ObjSound(obj, first, last, roots), Quiet(obj),
         NEW written, written = [obj EXCEPT ![h].contents[i] = w]
  PROVE  ObjSound(written, first, last, roots) /\ Quiet(written)
<1>1. DOMAIN written = DOMAIN obj
  OBVIOUS
<1>2. obj[h] \in Object /\ \A a \in DOMAIN obj : obj[a] \in Object
  BY DEF Objects
<1>3. \A a \in DOMAIN obj :
        /\ written[a].type = obj[a].type /\ written[a].len = obj[a].len
        /\ written[a].mark = obj[a].mark /\ written[a].enq = obj[a].enq
        /\ \A j \in 1..NMembers(obj[a].type, obj[a].len) :
             written[a].contents[j] = obj[a].contents[j]
             \/ (a = h /\ written[a].contents[j] = w)
  <2>1. \A a \in DOMAIN obj : a # h => written[a] = obj[a]
    OBVIOUS
  <2>2. written[h] = [obj[h] EXCEPT !.contents = [obj[h].contents EXCEPT ![i] = w]]
    OBVIOUS
  <2>3. /\ written[h].type = obj[h].type /\ written[h].len = obj[h].len
        /\ written[h].mark = obj[h].mark /\ written[h].enq = obj[h].enq
        /\ written[h].contents = [obj[h].contents EXCEPT ![i] = w]
    BY <1>2, <2>2 DEF Object
  <2>4. DOMAIN obj[h].contents = 1..NMembers(obj[h].type, obj[h].len)
    <3>1. WellSized(obj[h])
      BY DEF Objects
    <3>2. QED
      BY <1>2, <3>1, LenProperties DEF WellSized, Object
  <2>5. \A j \in 1..NMembers(obj[h].type, obj[h].len) :
          written[h].contents[j] = obj[h].contents[j] \/ written[h].contents[j] = w
    <3> DEFINE f == obj[h].contents
               g == [f EXCEPT ![i] = w]
    <3>1. \A j \in DOMAIN f : g[j] = f[j] \/ g[j] = w
      OBVIOUS
    <3>2. written[h].contents = g /\ obj[h].contents = f
          /\ DOMAIN f = 1..NMembers(obj[h].type, obj[h].len)
      BY <2>3, <2>4
    <3> HIDE DEF f, g
    <3>3. QED
      BY <3>1, <3>2
  <2>6. QED
    BY <2>1, <2>3, <2>5
<1>4. \A a \in DOMAIN obj : /\ Words(written[a]) = Words(obj[a])
                            /\ Fields(written[a]) = Fields(obj[a])
  BY <1>3 DEF Words, Fields
<1>5. \A a \in DOMAIN obj : \A v \in FieldValues(written[a]) : Clean(v, DOMAIN obj)
  BY <1>2, <1>3, <1>4, FieldMember DEF FieldValues, ObjSound, Objects
<1>6. \A a \in DOMAIN obj : written[a].type = "STRING" =>
        \A j \in 1..written[a].len : written[a].contents[j] \in Chars
  BY <1>2, <1>3, FieldMember DEF ObjSound, Objects
<1>7. Quiet(written)
  BY <1>1, <1>3 DEF Quiet
<1>8. QED
  BY <1>1, <1>4, <1>5, <1>6, <1>7 DEF ObjSound

\* Bsta.
LEMMA StaSound ==
  ASSUME IInv, CInv, IInv', Sta
  PROVE  CInv'
<1> DEFINE h == Header(Arg(2))
<1>1. Mutator /\ MutatorLeaves /\ pc = "mutator"
  BY DEF Sta, Mutator
<1>2. /\ ObjSound(obj, heap.begin, heap.current, StackWords(stack))
      /\ Quiet(obj) /\ Objects(obj) /\ stack \in Seq(Word) /\ SP \in Nat /\ SP = Len(stack)
      /\ \A i \in 0..(SP - 1) : Arg(i) \in Word /\ Clean(Arg(i), DOMAIN obj)
  BY <1>1, MutatorFacts
<1>3. \A v \in StackWords(stack) : Clean(v, DOMAIN obj)
  BY <1>2 DEF ObjSound
<1>4. h \in DOMAIN obj /\ Container(Arg(2)) = obj[h] /\ obj[h] \in Object /\ WellSized(obj[h])
  BY <1>2 DEF Sta, IsRef, Container, At, Objects
<1>5. SP >= 3
  BY <1>2, NGlobalsAssumption DEF Sta
<1>6. \E i \in 1..NMembers(obj[h].type, obj[h].len) : \E w :
        /\ obj' = [obj EXCEPT ![h].contents[i] = w]
        /\ Clean(w, DOMAIN obj) /\ (obj[h].type = "STRING" => w \in Chars)
  <2>1. CASE obj[h].type = "STRING"
    <3>1. PICK i \in 1..obj[h].len, c \in Imm : obj' = [obj EXCEPT ![h].contents[i] = c]
      BY <1>4, <2>1 DEF Sta
    <3>2. i \in 1..NMembers(obj[h].type, obj[h].len) /\ Clean(c, DOMAIN obj) /\ c \in Chars
      BY <1>4, <2>1, FieldMember, CleanPlain DEF Chars
    <3>3. QED
      BY <3>1, <3>2
  <2>2. CASE obj[h].type # "STRING"
    <3>1. PICK i \in Fields(obj[h]) : obj' = [obj EXCEPT ![h].contents[i] = Arg(0)]
      BY <1>4, <2>2 DEF Sta
    <3>2. i \in 1..NMembers(obj[h].type, obj[h].len) /\ Clean(Arg(0), DOMAIN obj)
      BY <1>2, <1>4, <1>5, FieldMember
    <3>3. QED
      BY <2>2, <3>1, <3>2
  <2>3. QED
    BY <2>1, <2>2
<1>7. /\ ObjSound(obj', heap.begin, heap.current, StackWords(stack)) /\ Quiet(obj')
      /\ DOMAIN obj' = DOMAIN obj
  <2>0. PICK i \in 1..NMembers(obj[h].type, obj[h].len) :
          \E w : /\ obj' = [obj EXCEPT ![h].contents[i] = w]
                 /\ Clean(w, DOMAIN obj) /\ (obj[h].type = "STRING" => w \in Chars)
    BY <1>6
  <2>1. PICK w : /\ obj' = [obj EXCEPT ![h].contents[i] = w]
                 /\ Clean(w, DOMAIN obj) /\ (obj[h].type = "STRING" => w \in Chars)
    BY <2>0
  <2> DEFINE written == [obj EXCEPT ![h].contents[i] = w]
  <2>2. ObjSound(written, heap.begin, heap.current, StackWords(stack)) /\ Quiet(written)
    BY <1>2, <1>4, <2>1, WriteSound
  <2>3. obj' = written /\ DOMAIN written = DOMAIN obj
    BY <2>1
  <2> HIDE DEF written
  <2>4. QED
    BY <2>2, <2>3
<1>8. \A v \in StackWords(stack') : Clean(v, DOMAIN obj)
  <2>1. 3 \in 0..SP
    BY <1>2, <1>5
  <2>2. Dropped(3) \in Seq(Word) /\ \A v \in StackWords(Dropped(3)) : Clean(v, DOMAIN obj)
    BY <1>2, <1>3, <2>1, DroppedClean
  <2>3. PICK boxed \in Imm : stack' = Pushed(Dropped(3), boxed)
    BY DEF Sta
  <2>4. QED
    BY <2>2, <2>3, StackClean, CleanPlain DEF Word
<1>9. ObjSound(obj', heap.begin, heap.current, StackWords(stack'))
  BY <1>7, <1>8 DEF ObjSound
<1>10. QED
  BY <1>1, <1>7, <1>9, MutatorSound

-----------------------------------------------------------------------------
(* Functions that allocate.                                                 *)

\* No object of a chunk lies where a raw word could point to.
LEMMA AddressAbove ==
  ASSUME NEW b \in Bases, NEW v \in Int, v >= b
  PROVE  IsAddress(v)
BY PlacesAssumption, ImmAssumption, BasesAssumption, CodeAssumption
DEF IsAddress, UNBOXED, Raw, Foreign

\* What a function takes for an object is the address of one.
LEMMA RefAddress ==
  ASSUME IInv, CInv, Calm, Alive, NEW v \in Word, IsRef(v)
  PROVE  IsAddress(v) /\ Header(v) \in DOMAIN obj /\ Container(v) = obj[Header(v)]
<1>1. heap.begin \in Bases /\ ObjSound(obj, heap.begin, Limit, Roots) /\ Objects(obj)
  BY CalmFacts
<1>2. v \in Int /\ Header(v) \in DOMAIN obj /\ Header(v) \in Int
  BY <1>1 DEF IsRef, UNBOXED, Word, Objects
<1>3. heap.begin \in Int /\ heap.begin <= Header(v)
  BY <1>1, <1>2, BasesAssumption DEF ObjSound
<1>4. v >= heap.begin
  BY <1>2, <1>3, HeaderContent
<1>5. QED
  BY <1>1, <1>2, <1>4, AddressAbove DEF Container, At

\* A function up to its call of alloc.
LEMMA BeginSound ==
  ASSUME IInv, CInv, IInv', Mutator, NEW call, NEW locs, NEW words, NEW args, NEW local,
         Begin(call, locs, words, args, local),
         \A v \in StackWords(args) : Clean(v, DOMAIN obj),
         (\E j \in DOMAIN locs : locs[j] = CLocal) => Clean(local, DOMAIN obj),
         locs \in Seq(Int), pc' = "alloc" => CallSound'
  PROVE  CInv'
<1>1. /\ ObjSound(obj, heap.begin, heap.current, StackWords(stack)) /\ Quiet(obj)
      /\ heap.begin \in Bases /\ IsFiniteSet(DOMAIN obj) /\ extra = <<>>
  BY MutatorFacts, Unregistered DEF CInv, HeapSound, Mutator
<1>2. /\ stack' = args /\ cvar' = local /\ UNCHANGED <<heap, old, obj>>
      /\ pc' \in {"alloc", "exit"} /\ (pc' = "alloc" => extra' = locs)
  <2>1. <<>> \o locs = locs
    BY ConcatEmptySeq
  <2>2. QED
    BY <1>1, <2>1 DEF Begin, Register, store
<1>3. ASSUME pc' = "alloc"
      PROVE  ObjSound(obj', heap'.begin, Limit', Roots')
  <2>1. Limit' = heap.current
    BY <1>2, <1>3 DEF Limit, Compacting
  <2>2. \A v \in Roots' : Clean(v, DOMAIN obj)
    BY <1>2, <1>3 DEF Roots, StackWords
  <2>3. QED
    BY <1>1, <1>2, <2>1, <2>2 DEF ObjSound
<1>4. (CalmFits => CInv)'
  BY CalmInv, PTL
<1>5. QED
  BY <1>1, <1>2, <1>3, <1>4 DEF Calm, Alive, CalmFits

\* Barray, Bsexp, Bclosure and LmakeArray up to alloc.
LEMMA BeginMembersSound ==
  ASSUME IInv, CInv, IInv', BeginArray \/ BeginSexp \/ BeginClosure \/ BeginMakeArray
  PROVE  CInv'
<1>1. /\ stack \in Seq(Word) /\ SP \in Nat /\ SP = Len(stack) /\ NGlobals \in Nat
      /\ \A v \in StackWords(stack) : Clean(v, DOMAIN obj)
      /\ Mutator
  BY MutatorFacts, NGlobalsAssumption
  DEF ObjSound, BeginArray, BeginSexp, BeginClosure, BeginMakeArray, CanAlloc, Mutator
<1>2. ASSUME NEW top \in Nat, NEW first \in {0, 1}, NEW n \in Nat, first + n <= top
      PROVE  /\ ArgSlots(top, first, n) \in Seq(Int)
             /\ ~ \E j \in DOMAIN ArgSlots(top, first, n) :
                    ArgSlots(top, first, n)[j] = CLocal
  <2>1. ArgSlots(top, first, n) \in [1..n -> Int]
    BY <1>2 DEF ArgSlots
  <2>2. \A j \in 1..n : ArgSlots(top, first, n)[j] > 0
    BY <1>2 DEF ArgSlots
  <2>3. QED
    BY <2>1, <2>2, FunctionIsSeq DEF CLocal
<1>3. CASE BeginArray
  <2>1. PICK n \in ArraySizes :
          /\ n <= SP - NGlobals
          /\ Begin(Call("Barray", n, <<>>), ArgSlots(SP, 0, n),
                   obj_words("ARRAY", n), stack, cvar)
    BY <1>3 DEF BeginArray
  <2>2. n \in Nat /\ 0 + n <= SP
    BY <1>1, <2>1, SizesAssumption
  <2>3. pc' = "alloc" => CallSound'
    BY <2>1 DEF CallSound, Begin, Call, CallAt, CanRegister
  <2>4. QED
    BY <1>1, <1>2, <2>1, <2>2, <2>3, BeginSound
<1>4. CASE BeginSexp
  <2>1. PICK n \in SexpSizes, tag \in Imm :
          /\ n <= SP - NGlobals
          /\ Begin(Call("Bsexp", n, <<>>), ArgSlots(SP + 1, 0, n),
                   obj_words("SEXP", n), Pushed(stack, tag), cvar)
    BY <1>4 DEF BeginSexp
  <2>2. n \in Nat /\ SP + 1 \in Nat /\ 0 + n <= SP + 1
    BY <1>1, <2>1, SizesAssumption
  <2>3. pc' = "alloc" => CallSound'
    BY <2>1 DEF CallSound, Begin, Call, CallAt, CanRegister
  <2>4. \A v \in StackWords(Pushed(stack, tag)) : Clean(v, DOMAIN obj)
    BY <1>1, StackClean, CleanPlain DEF Word
  <2>5. QED
    BY <1>1, <1>2, <2>1, <2>2, <2>3, <2>4, BeginSound
<1>5. CASE BeginClosure
  <2>1. PICK n \in ClosureSizes, code \in Code :
          /\ n <= SP - NGlobals
          /\ Begin(Call("Bclosure", n, <<>>), ArgSlots(SP + 1, 1, n),
                   obj_words("CLOSURE", n + 1), Pushed(stack, code), cvar)
    BY <1>5 DEF BeginClosure
  <2>2. n \in Nat /\ SP + 1 \in Nat /\ 1 + n <= SP + 1
    BY <1>1, <2>1, SizesAssumption
  <2>3. pc' = "alloc" => CallSound'
    BY <2>1 DEF CallSound, Begin, Call, CallAt, CanRegister
  <2>4. \A v \in StackWords(Pushed(stack, code)) : Clean(v, DOMAIN obj)
    <3>1. code \in Word /\ Clean(code, DOMAIN obj)
      BY CleanPlain, CodeAssumption DEF Word, Raw
    <3>2. QED
      BY <1>1, <3>1, StackClean
  <2>5. QED
    BY <1>1, <1>2, <2>1, <2>2, <2>3, <2>4, BeginSound
<1>6. CASE BeginMakeArray
  <2>1. PICK n \in ArraySizes :
          Begin(Call("LmakeArray", n, <<>>), <<>>, obj_words("ARRAY", n), stack, cvar)
    BY <1>6 DEF BeginMakeArray
  <2>2. pc' = "alloc" => CallSound'
    BY <2>1 DEF CallSound, Begin, Call, CallAt, CanRegister
  <2>3. <<>> \in Seq(Int) /\ DOMAIN <<>> = {}
    BY EmptySeq
  <2>4. QED
    BY <1>1, <2>1, <2>2, <2>3, BeginSound
<1>7. QED
  BY <1>3, <1>4, <1>5, <1>6

\* What a function has found out about an operand is true when alloc starts.
LEMMA RefersAtAlloc ==
  ASSUME obj' = obj, pc' = "alloc"
  PROVE  \A v : IsAddress(v) /\ Header(v) \in DOMAIN obj =>
           /\ obj[Header(v)].type = "STRING" => RefersToString(v)'
           /\ RefersToSized(v, Words(obj[Header(v)]))'
<1>1. (~ Compacting => ReferredHere)'
  BY RefersHere, PTL
<1>2. ~ Compacting'
  BY DEF Compacting
<1>3. QED
  BY <1>1, <1>2 DEF ReferredHere

\* Bstring and Lstring up to alloc_string.
LEMMA BeginStringSound ==
  ASSUME IInv, CInv, IInv', BeginString \/ BeginLstring
  PROVE  CInv'
<1>1. /\ \A v \in StackWords(stack) : Clean(v, DOMAIN obj)
      /\ Mutator /\ SP \in Int
  BY MutatorFacts DEF ObjSound, BeginString, BeginLstring, CanAlloc, Mutator
<1>2. Clean(Foreign, DOMAIN obj)
  BY CleanPlain DEF Chars
<1>3. CASE BeginString
  <2>1. PICK t \in Texts :
          Begin(Call("Bstring", 0, t), <<CLocal>>, obj_words("STRING", Len(t)),
                stack, Foreign)
    BY <1>3 DEF BeginString
  <2>2. pc' = "alloc" => CallSound'
    BY <2>1 DEF CallSound, Begin, Call, CallAt, CanRegister
  <2>3. <<CLocal>> \in Seq(Int)
    BY DEF CLocal
  <2>4. QED
    BY <1>1, <1>2, <2>1, <2>2, <2>3, BeginSound
<1>4. CASE BeginLstring
  <2>1. PICK t \in Texts :
          Begin(Call("Lstring", 0, t), <<SP, CLocal>>, obj_words("STRING", Len(t)),
                stack, Foreign)
    BY <1>4 DEF BeginLstring
  <2>2. pc' = "alloc" => CallSound'
    BY <2>1 DEF CallSound, Begin, Call, CallAt, CanRegister
  <2>3. <<SP, CLocal>> \in Seq(Int)
    BY <1>1 DEF CLocal
  <2>4. QED
    BY <1>1, <1>2, <2>1, <2>2, <2>3, BeginSound
<1>5. QED
  BY <1>3, <1>4

\* The operands of the functions that read them again.
LEMMA OperandFacts ==
  ASSUME IInv, CInv, Mutator, NEW i \in 0..(SP - 1), IsRef(Arg(i))
  PROVE  /\ IsAddress(Arg(i)) /\ Header(Arg(i)) \in DOMAIN obj
         /\ Container(Arg(i)) = obj[Header(Arg(i))]
         /\ Clean(Arg(i), DOMAIN obj)
BY MutatorFacts, RefAddress DEF Mutator, Calm, Alive

\* Lclone, Lsubstring and Li__Infix_4343 up to alloc.
LEMMA BeginOperandSound ==
  ASSUME IInv, CInv, IInv', BeginClone \/ BeginCloneString \/ BeginSubstring \/ BeginConcat
  PROVE  CInv'
<1>1. /\ \A v \in StackWords(stack) : Clean(v, DOMAIN obj)
      /\ Mutator /\ pc = "mutator" /\ SP \in Nat /\ SP = Len(stack) /\ NGlobals \in Nat
  BY MutatorFacts, NGlobalsAssumption
  DEF ObjSound, BeginClone, BeginCloneString, BeginSubstring, BeginConcat, CanAlloc, Mutator
<1>2. 0 \in 0..(SP - 1) /\ IsRef(Arg(0))
  BY <1>1 DEF BeginClone, BeginCloneString, BeginSubstring, BeginConcat, IsString
<1>3. /\ IsAddress(Arg(0)) /\ Header(Arg(0)) \in DOMAIN obj
      /\ Container(Arg(0)) = obj[Header(Arg(0))]
      /\ Clean(Arg(0), DOMAIN obj)
  BY <1>1, <1>2, OperandFacts
<1>4. <<SP>> \in Seq(Int) /\ ~ \E j \in DOMAIN <<SP>> : <<SP>>[j] = CLocal
  BY <1>1, <1>2 DEF CLocal
<1>5. ASSUME stack' = stack, obj' = obj, pc' = "alloc"
      PROVE  /\ Arg(0)' = Arg(0) /\ Arg(1)' = Arg(1)
             /\ obj[Header(Arg(0))].type = "STRING" => RefersToString(Arg(0))'
             /\ need' = Words(obj[Header(Arg(0))]) => RefersToSized(Arg(0), need)'
  <2>1. Arg(0)' = Arg(0) /\ Arg(1)' = Arg(1)
    BY <1>5 DEF Arg, SP
  <2>2. QED
    BY <1>3, <1>5, <2>1, RefersAtAlloc
<1>6. CASE BeginClone
  <2>1. Begin(Call("Lclone", 0, <<>>), <<SP>>, Words(Container(Arg(0))), stack, cvar)
    BY <1>6 DEF BeginClone
  <2>2. ASSUME pc' = "alloc"
        PROVE  CallSound'
    <3>1. /\ stack' = stack /\ obj' = obj /\ op'.fn = "Lclone"
          /\ need' = Words(obj[Header(Arg(0))])
      BY <1>3, <2>1, <2>2 DEF Begin, Call, CallAt, store
    <3>2. RefersToSized(Arg(0), need)'
      BY <1>5, <2>2, <3>1
    <3>3. QED
      BY <3>1, <3>2 DEF CallSound
  <2>3. QED
    BY <1>1, <1>4, <2>1, <2>2, BeginSound
<1>7. CASE BeginCloneString
  <2> DEFINE text == Container(Arg(0)).contents
  <2>1. Begin(Call("LcloneString", 0, text), <<SP, CLocal>>,
              obj_words("STRING", Len(text)), stack, Arg(0))
    BY <1>7 DEF BeginCloneString
  <2>2. obj[Header(Arg(0))].type = "STRING"
    BY <1>3, <1>7 DEF BeginCloneString
  <2>3. ASSUME pc' = "alloc"
        PROVE  CallSound'
    <3>1. /\ stack' = stack /\ obj' = obj /\ op'.fn = "LcloneString" /\ cvar' = Arg(0)
          /\ op'.text = text /\ need' = obj_words("STRING", Len(text))
      BY <1>3, <2>1, <2>3 DEF Begin, Call, CallAt, store
    <3>2. RefersToString(cvar)'
      BY <1>5, <2>2, <2>3, <3>1
    <3>3. QED
      BY <3>1, <3>2 DEF CallSound
  <2>4. <<SP, CLocal>> \in Seq(Int)
    BY <1>1 DEF CLocal
  <2> HIDE DEF text
  <2>5. QED
    BY <1>1, <1>3, <2>1, <2>3, <2>4, BeginSound
<1>8. CASE BeginSubstring
  <2> DEFINE len == Container(Arg(0)).len
  <2>1. obj[Header(Arg(0))].type = "STRING"
    BY <1>3, <1>8 DEF BeginSubstring, IsString
  <2>2. ASSUME NEW pp, NEW ll,
               Begin(CallAt("Lsubstring", ll, <<>>, pp), <<SP>>,
                     obj_words("STRING", ll), stack, cvar)
        PROVE  CInv'
    <3>1. ASSUME pc' = "alloc"
          PROVE  CallSound'
      <4>1. /\ stack' = stack /\ obj' = obj /\ op'.fn = "Lsubstring"
            /\ op'.n = ll /\ need' = obj_words("STRING", ll)
        BY <2>2, <3>1 DEF Begin, CallAt, store
      <4>2. RefersToString(Arg(0))'
        BY <1>5, <2>1, <3>1, <4>1
      <4>3. QED
        BY <4>1, <4>2 DEF CallSound
    <3>2. QED
      BY <1>1, <1>4, <2>2, <3>1, BeginSound
  <2>3. CASE pc' = "exit" /\ UNCHANGED <<store, caller, need, ids, regs>>
    <3>1. heap.begin \in Bases /\ IsFiniteSet(DOMAIN obj)
      BY DEF CInv, HeapSound
    <3>2. CalmFits'
      BY <2>3, <3>1 DEF CalmFits, Calm, Alive, store
    <3>3. (CalmFits => CInv)'
      BY CalmInv, PTL
    <3>4. QED
      BY <3>2, <3>3
  <2>4. QED
    BY <1>8, <2>2, <2>3 DEF BeginSubstring
<1>9. CASE BeginConcat
  <2> DEFINE len == Container(Arg(0)).len + Container(Arg(1)).len
  <2>1. Begin(Call("Li__Infix_4343", len, <<>>), <<SP, SP - 1>>,
              obj_words("STRING", len), stack, cvar)
    BY <1>9 DEF BeginConcat
  <2>2. 1 \in 0..(SP - 1) /\ IsRef(Arg(1))
    BY <1>1, <1>9 DEF BeginConcat, IsString
  <2>3. /\ IsAddress(Arg(1)) /\ Header(Arg(1)) \in DOMAIN obj
        /\ Container(Arg(1)) = obj[Header(Arg(1))]
    BY <1>1, <2>2, OperandFacts
  <2>4. /\ obj[Header(Arg(0))].type = "STRING"
        /\ obj[Header(Arg(1))].type = "STRING"
    BY <1>3, <1>9, <2>3 DEF BeginConcat, IsString
  <2>5. ASSUME pc' = "alloc"
        PROVE  CallSound'
    <3>1. /\ stack' = stack /\ obj' = obj /\ op'.fn = "Li__Infix_4343"
          /\ op'.n = len /\ need' = obj_words("STRING", len)
      BY <2>1, <2>5 DEF Begin, Call, CallAt, store
    <3>2. RefersToString(Arg(0))'
      BY <1>5, <2>4, <2>5, <3>1
    <3>3. RefersToString(Arg(1))'
      <4>1. Arg(1)' = Arg(1)
        BY <1>5, <2>5, <3>1
      <4>2. QED
        BY <2>3, <2>4, <2>5, <3>1, <4>1, RefersAtAlloc
    <3>4. QED
      BY <3>1, <3>2, <3>3 DEF CallSound
  <2>6. /\ <<SP, SP - 1>> \in Seq(Int)
        /\ ~ \E j \in DOMAIN <<SP, SP - 1>> : <<SP, SP - 1>>[j] = CLocal
    BY <1>1, <2>2 DEF CLocal
  <2> HIDE DEF len
  <2>7. QED
    BY <1>1, <2>1, <2>5, <2>6, BeginSound
<1>10. QED
  BY <1>6, <1>7, <1>8, <1>9

-----------------------------------------------------------------------------
(* The same functions from the return of alloc on.                          *)

\* A new object after the last one.
LEMMA PutSound ==
  ASSUME Objects(obj), NEW first \in Int, NEW last \in Int, NEW roots,
         ObjSound(obj, first, last, roots), NEW new \in Object,
         \A v \in FieldValues(new) : Clean(v, DOMAIN obj),
         new.type = "STRING" => \A i \in 1..new.len : new.contents[i] \in Chars,
         NEW values, \A v \in values : Clean(v, DOMAIN obj \cup {last})
  PROVE  ObjSound(Put(last, new), first, last + Words(new), values)
<1> DEFINE objs == Put(last, new)
           next == last + Words(new)
<1>1. /\ DOMAIN objs = DOMAIN obj \cup {last} /\ objs[last] = new
      /\ \A h \in DOMAIN obj : h < last /\ h # last /\ objs[h] = obj[h]
  BY DEF Put, ObjSound
<1>2. Words(new) \in Nat /\ Words(new) >= 2 /\ DOMAIN obj \subseteq Int
      /\ \A h \in DOMAIN obj : Words(obj[h]) \in Nat
  BY WordsTwo DEF Objects
<1>3. next \in Int /\ next > last /\ first <= last
  BY <1>1, <1>2 DEF ObjSound
<1>4. first \in DOMAIN objs \cup {next}
  BY <1>1 DEF ObjSound
<1>5. ASSUME NEW h \in DOMAIN objs
      PROVE  /\ first <= h /\ h < next /\ h + Words(objs[h]) \in DOMAIN objs \cup {next}
             /\ \A a \in DOMAIN objs \cup {next} : a > h => a >= h + Words(objs[h])
  <2>1. CASE h = last
    BY <1>1, <1>2, <1>3, <2>1
  <2>2. CASE h \in DOMAIN obj
    <3>1. /\ first <= h /\ h < last /\ h + Words(obj[h]) \in DOMAIN obj \cup {last}
          /\ \A a \in DOMAIN obj \cup {last} : a > h => a >= h + Words(obj[h])
      BY <2>2 DEF ObjSound
    <3>2. objs[h] = obj[h] /\ next >= h + Words(obj[h]) /\ h < next
      BY <1>1, <1>2, <1>3, <2>2, <3>1
    <3>3. QED
      BY <1>1, <3>1, <3>2
  <2>3. QED
    BY <1>1, <2>1, <2>2
<1>6. \A D, v : Clean(v, D) => Clean(v, D \cup {last})
  BY DEF Clean
<1>7. \A h \in DOMAIN objs : \A v \in FieldValues(objs[h]) : Clean(v, DOMAIN objs)
  BY <1>1, <1>6 DEF ObjSound
<1>8. \A h \in DOMAIN objs : objs[h].type = "STRING" =>
        \A i \in 1..objs[h].len : objs[h].contents[i] \in Chars
  BY <1>1 DEF ObjSound
<1>9. \A v \in values : Clean(v, DOMAIN objs)
  BY <1>1
<1> HIDE DEF objs, next
<1>10. ObjSound(objs, first, next, values)
  BY <1>4, <1>5, <1>7, <1>8, <1>9 DEF ObjSound
<1>11. QED
  BY <1>10 DEF objs, next

\* What a function starts from when alloc has returned.
LEMMA FillFacts ==
  ASSUME IInv, CInv, pc = "fill"
  PROVE  /\ heap.begin \in Bases /\ heap.begin \in Int /\ IsFiniteSet(DOMAIN obj)
         /\ NewHeader \in Int /\ heap.current = NewHeader + need /\ need \in Nat
         /\ ObjSound(obj, heap.begin, NewHeader, Roots)
         /\ Quiet(obj) /\ Objects(obj)
         /\ stack \in Seq(Word) /\ SP \in Nat /\ SP = Len(stack)
         /\ \A v \in StackWords(stack) : Clean(v, DOMAIN obj)
         /\ \A i \in 0..(SP - 1) : Arg(i) \in Word /\ Clean(Arg(i), DOMAIN obj)
         /\ CallSound /\ ReferredHere
<1>1. /\ heap.begin \in Bases /\ IsFiniteSet(DOMAIN obj)
      /\ ObjSound(obj, heap.begin, Limit, Roots) /\ Quiet(obj) /\ Objects(obj)
  BY CalmFacts DEF Calm, Alive
<1>2. Limit = NewHeader /\ ~ Compacting
  BY DEF Limit, Compacting
<1>3. heap.current \in Int /\ need \in Nat /\ heap.begin \in Int
  BY DEF IInv, TypeOK, GcTypeOK, Chunk
<1>4. stack \in Seq(Word) /\ SP \in Nat /\ SP = Len(stack)
  BY LenProperties DEF SP, IInv, TypeOK, GcTypeOK
<1>5. \A v \in StackWords(stack) : Clean(v, DOMAIN obj)
  BY <1>1 DEF StackWords, ObjSound, Roots
<1>6. ASSUME NEW i \in 0..(SP - 1)
      PROVE  Arg(i) \in Word /\ Clean(Arg(i), DOMAIN obj)
  <2>1. SP - i \in 1..Len(stack) /\ DOMAIN stack = 1..Len(stack)
    BY <1>4, LenProperties
  <2>2. QED
    BY <1>4, <1>5, <2>1, ArgWord DEF Arg, StackWords
<1>7. QED
  BY <1>1, <1>2, <1>3, <1>4, <1>5, <1>6, RefersHere DEF NewHeader, CInv

\* A function of the runtime from the return of alloc on.
LEMMA FinishSound ==
  ASSUME IInv, CInv, IInv', NEW fn, NEW new, NEW nroots,
         NEW n \in 0..SP, Finish(fn, new, nroots, Dropped(n)),
         Words(new) = need, ~ new.mark, ~ new.enq,
         \A v \in FieldValues(new) : Clean(v, DOMAIN obj),
         new.type = "STRING" => \A i \in 1..new.len : new.contents[i] \in Chars
  PROVE  CInv'
<1>1. pc = "fill" /\ pc' = "mutator"
  BY DEF Finish
<1>2. /\ heap.begin \in Bases /\ heap.begin \in Int /\ IsFiniteSet(DOMAIN obj)
      /\ NewHeader \in Int /\ heap.current = NewHeader + need
      /\ ObjSound(obj, heap.begin, NewHeader, Roots)
      /\ Quiet(obj) /\ Objects(obj) /\ stack \in Seq(Word)
      /\ \A v \in StackWords(stack) : Clean(v, DOMAIN obj)
  BY <1>1, FillFacts
<1>3. /\ heap' = heap /\ obj' = Put(NewHeader, new)
      /\ stack' = Pushed(Dropped(n), NewRef)
  BY DEF Finish
<1> new \in Object
  <2>1. Objects(obj)'
    <3>1. (TypeOK => Objects(obj))'
      BY ObjType, PTL
    <3>2. QED
      BY <3>1 DEF IInv
  <2>2. NewHeader \in DOMAIN obj' /\ obj'[NewHeader] = new
    BY <1>3 DEF Put
  <2>3. QED
    BY <2>1, <2>2 DEF Objects
<1>4. \A v \in StackWords(stack') : Clean(v, DOMAIN obj \cup {NewHeader})
  <2>1. \A D, v : Clean(v, D) => Clean(v, D \cup {NewHeader})
    BY DEF Clean
  <2>2. /\ Dropped(n) \in Seq(Word)
        /\ \A v \in StackWords(Dropped(n)) : Clean(v, DOMAIN obj)
    BY <1>2, DroppedClean
  <2>3. NewRef \in Word /\ Header(NewRef) = NewHeader
    BY <1>2, HeaderContent DEF NewRef, Word
  <2>4. Clean(NewRef, DOMAIN obj \cup {NewHeader})
    BY <2>3 DEF Clean
  <2>5. QED
    BY <1>3, <2>1, <2>2, <2>3, <2>4, StackClean
<1>5. ObjSound(obj', heap.begin, NewHeader + Words(new), StackWords(stack'))
  BY <1>2, <1>3, <1>4, PutSound
<1>6. Limit' = heap.current /\ Roots' = StackWords(stack')
  <2>1. (IInv /\ pc = "mutator" => Roots = StackWords(stack) /\ Limit = heap.current)'
    BY MutatorRoots, PTL
  <2>2. QED
    BY <1>1, <1>3, <2>1
<1>7. Quiet(obj') /\ DOMAIN obj' = DOMAIN obj \cup {NewHeader}
  <2>1. new.mark = FALSE /\ new.enq = FALSE
    BY DEF Object
  <2>2. QED
    BY <1>2, <1>3, <2>1 DEF Quiet, Put
<1>8. IsFiniteSet(DOMAIN obj')
  <2>1. IsFiniteSet(DOMAIN obj \cup {NewHeader})
    BY <1>2, FS_AddElement
  <2>2. QED
    BY <1>7, <2>1
<1>9. CallSound'
  BY <1>1 DEF CallSound
<1>10. CalmFits'
  BY <1>1, <1>2, <1>3, <1>5, <1>6, <1>7, <1>8, <1>9 DEF CalmFits, Calm
<1>11. (CalmFits => CInv)'
  BY CalmInv, PTL
<1>12. QED
  BY <1>10, <1>11

\* Barray and LmakeArray from alloc_array on.
LEMMA FinishArraySound ==
  ASSUME IInv, CInv, IInv', FinishArray \/ FinishMakeArray
  PROVE  CInv'
<1>1. pc = "fill" /\ op.fn \in {"Barray", "LmakeArray"}
  BY DEF FinishArray, FinishMakeArray, Finish
<1>2. /\ SP \in Nat /\ op.n \in Nat /\ OperandsOf(op) <= SP
      /\ \A i \in 0..(SP - 1) : Clean(Arg(i), DOMAIN obj)
      /\ need = obj_words("ARRAY", op.n)
  BY <1>1, FillFacts, Operands DEF CallSound, Alive
<1>3. ASSUME NEW contents
      PROVE  LET new == NewObject("ARRAY", op.n, contents)
             IN  /\ Words(new) = need /\ ~ new.mark /\ ~ new.enq /\ new.type = "ARRAY"
                 /\ FieldValues(new) = {contents[j] : j \in 1..op.n}
  BY <1>2 DEF NewObject, Words, FieldValues, Fields, FirstField, NMembers
<1>4. CASE FinishArray
  <2> DEFINE contents == [j \in 1..op.n |-> Arg(op.n - j)]
             new == NewObject("ARRAY", op.n, contents)
  <2>1. op.fn = "Barray" /\ Finish("Barray", new, op.n, Dropped(op.n))
    BY <1>4 DEF FinishArray, Finish
  <2>2. op.n \in 0..SP
    BY <1>2, <2>1 DEF OperandsOf
  <2>3. \A v \in {contents[j] : j \in 1..op.n} : Clean(v, DOMAIN obj)
    <3>1. \A j \in 1..op.n : contents[j] = Arg(op.n - j) /\ op.n - j \in 0..(SP - 1)
      BY <1>2, <2>2
    <3>2. QED
      BY <1>2, <3>1
  <2> HIDE DEF contents
  <2>4. /\ Words(new) = need /\ ~ new.mark /\ ~ new.enq /\ new.type = "ARRAY"
        /\ \A v \in FieldValues(new) : Clean(v, DOMAIN obj)
    BY <1>3, <2>3
  <2> HIDE DEF new
  <2>5. QED
    BY <2>1, <2>2, <2>4, FinishSound
<1>5. CASE FinishMakeArray
  <2>1. PICK zero \in Imm :
          Finish("LmakeArray", NewObject("ARRAY", op.n, [j \in 1..op.n |-> zero]), 0, stack)
    BY <1>5 DEF FinishMakeArray
  <2> DEFINE contents == [j \in 1..op.n |-> zero]
             new == NewObject("ARRAY", op.n, contents)
  <2>2. Finish("LmakeArray", new, 0, Dropped(0))
    <3>1. Dropped(0) = stack
      BY <1>1, FillFacts, SubSeqFull DEF Dropped
    <3>2. QED
      BY <2>1, <3>1
  <2>3. \A v \in {contents[j] : j \in 1..op.n} : Clean(v, DOMAIN obj)
    BY CleanPlain
  <2> HIDE DEF contents
  <2>4. /\ Words(new) = need /\ ~ new.mark /\ ~ new.enq /\ new.type = "ARRAY"
        /\ \A v \in FieldValues(new) : Clean(v, DOMAIN obj)
    BY <1>3, <2>3
  <2>5. 0 \in 0..SP
    BY <1>2
  <2> HIDE DEF new
  <2>6. QED
    BY <2>2, <2>4, <2>5, FinishSound
<1>6. QED
  BY <1>4, <1>5

\* Bsexp and Bclosure from alloc on: the members are the operands below the
\* word on top of the stack.
LEMMA FinishAfterFirstSound ==
  ASSUME IInv, CInv, IInv', FinishSexp \/ FinishClosure
  PROVE  CInv'
<1>1. pc = "fill" /\ op.fn \in {"Bsexp", "Bclosure"}
  BY DEF FinishSexp, FinishClosure, Finish
<1>2. /\ SP \in Nat /\ op.n \in Nat /\ op.n + 1 \in 0..SP
      /\ \A i \in 0..(SP - 1) : Clean(Arg(i), DOMAIN obj)
      /\ op.fn = "Bsexp" => need = obj_words("SEXP", op.n)
      /\ op.fn = "Bclosure" => need = obj_words("CLOSURE", op.n + 1)
  BY <1>1, FillFacts, Operands DEF CallSound, Alive, OperandsOf
<1>3. ASSUME NEW first
      PROVE  \A v \in {AfterFirst(first)[j] : j \in 2..(op.n + 1)} : Clean(v, DOMAIN obj)
  <2>1. \A j \in 2..(op.n + 1) :
          AfterFirst(first)[j] = Arg(op.n - j + 2) /\ op.n - j + 2 \in 0..(SP - 1)
    BY <1>2 DEF AfterFirst
  <2>2. QED
    BY <1>2, <2>1
<1>4. CASE FinishSexp
  <2> DEFINE contents == AfterFirst(UNBOX(Arg(0)))
             new == NewObject("SEXP", op.n, contents)
  <2>1. op.fn = "Bsexp" /\ Finish("Bsexp", new, op.n, Dropped(op.n + 1))
    BY <1>4 DEF FinishSexp, Finish
  <2>2. \A v \in {contents[j] : j \in 2..(op.n + 1)} : Clean(v, DOMAIN obj)
    BY <1>3
  <2> HIDE DEF contents
  <2>3. /\ Words(new) = need /\ ~ new.mark /\ ~ new.enq /\ new.type = "SEXP"
        /\ FieldValues(new) = {contents[j] : j \in 2..(op.n + 1)}
    BY <1>2, <2>1 DEF NewObject, Words, FieldValues, Fields, FirstField, NMembers
  <2> HIDE DEF new
  <2>4. QED
    BY <1>2, <2>1, <2>2, <2>3, FinishSound
<1>5. CASE FinishClosure
  <2> DEFINE contents == AfterFirst(Arg(0))
             new == NewObject("CLOSURE", op.n + 1, contents)
  <2>1. op.fn = "Bclosure" /\ Finish("Bclosure", new, op.n, Dropped(op.n + 1))
    BY <1>5 DEF FinishClosure, Finish
  <2>2. \A v \in {contents[j] : j \in 2..(op.n + 1)} : Clean(v, DOMAIN obj)
    BY <1>3
  <2> HIDE DEF contents
  <2>3. /\ Words(new) = need /\ ~ new.mark /\ ~ new.enq /\ new.type = "CLOSURE"
        /\ FieldValues(new) = {contents[j] : j \in 2..(op.n + 1)}
    BY <1>2, <2>1 DEF NewObject, Words, FieldValues, Fields, FirstField, NMembers
  <2> HIDE DEF new
  <2>4. QED
    BY <1>2, <2>1, <2>2, <2>3, FinishSound
<1>6. QED
  BY <1>4, <1>5

\* A new string.
LEMMA StringFields ==
  ASSUME NEW len, NEW contents
  PROVE  LET new == NewObject("STRING", len, contents)
         IN  /\ Words(new) = obj_words("STRING", len)
             /\ ~ new.mark /\ ~ new.enq /\ new.type = "STRING" /\ new.len = len
             /\ new.contents = contents /\ FieldValues(new) = {}
BY DEF NewObject, Words, FieldValues, Fields

\* Bstring and Lstring from alloc_string on.
LEMMA FinishStringSound ==
  ASSUME IInv, CInv, IInv', FinishString \/ FinishLstring
  PROVE  CInv'
<1> DEFINE new == NewObject("STRING", Len(op.text), op.text)
<1>1. pc = "fill" /\ op.fn \in {"Bstring", "Lstring"}
  BY DEF FinishString, FinishLstring, Finish
<1>2. /\ op.text \in Texts /\ need = obj_words("STRING", Len(op.text))
      /\ SP \in Nat /\ SP = Len(stack) /\ stack \in Seq(Word)
  BY <1>1, FillFacts DEF CallSound, Alive
<1>3. \A i \in 1..Len(op.text) : op.text[i] \in Chars
  <2>1. op.text \in Seq(Imm)
    BY <1>2, TextsAssumption
  <2>2. QED
    BY <2>1, ElementOfSeq DEF Chars
<1>4. /\ Words(new) = need /\ ~ new.mark /\ ~ new.enq /\ new.type = "STRING"
      /\ new.len = Len(op.text) /\ new.contents = op.text /\ FieldValues(new) = {}
  BY <1>2, StringFields
<1>5. 0 \in 0..SP /\ Dropped(0) = stack
  BY <1>2, SubSeqFull DEF Dropped
<1>6. Finish("Bstring", new, 1, Dropped(0)) \/ Finish("Lstring", new, 2, Dropped(0))
  BY <1>5 DEF FinishString, FinishLstring
<1> HIDE DEF new
<1>7. QED
  BY <1>3, <1>4, <1>5, <1>6, FinishSound

\* Lclone of anything but a string, from alloc on: it copies the words it
\* made room for, and no bit of the collector is set in them.
LEMMA FinishCloneSound ==
  ASSUME IInv, CInv, IInv', FinishClone
  PROVE  CInv'
<1> DEFINE h == Header(Arg(0))
           new == [Container(Arg(0)) EXCEPT !.id = ids]
<1>1. pc = "fill" /\ op.fn = "Lclone" /\ Finish("Lclone", new, 1, Dropped(1))
  BY DEF FinishClone, Finish
<1>2. RefersToSized(Arg(0), need) /\ ReferredHere
  BY <1>1, FillFacts DEF CallSound, Alive
<1>3. h \in DOMAIN obj /\ Words(obj[h]) = need
  BY <1>2 DEF ReferredHere
<1>4. /\ Container(Arg(0)) = obj[h] /\ obj[h] \in Object
      /\ ObjSound(obj, heap.begin, NewHeader, Roots) /\ Quiet(obj)
  BY <1>1, <1>3, FillFacts DEF Container, At, Objects
<1>5. /\ new.type = obj[h].type /\ new.len = obj[h].len /\ new.contents = obj[h].contents
      /\ new.mark = obj[h].mark /\ new.enq = obj[h].enq
  BY <1>4 DEF Object
<1>6. Words(new) = need /\ FieldValues(new) = FieldValues(obj[h])
  BY <1>3, <1>5 DEF Words, FieldValues, Fields
<1>7. 1 \in 0..SP
  BY <1>1, Operands DEF OperandsOf
<1>8. /\ ~ new.mark /\ ~ new.enq
      /\ \A v \in FieldValues(new) : Clean(v, DOMAIN obj)
      /\ new.type = "STRING" => \A i \in 1..new.len : new.contents[i] \in Chars
  BY <1>3, <1>4, <1>5, <1>6 DEF ObjSound, Quiet
<1> HIDE DEF new
<1>9. QED
  BY <1>1, <1>6, <1>7, <1>8, FinishSound

\* The characters of an operand that is a string.
LEMMA OperandText ==
  ASSUME IInv, CInv, pc = "fill", NEW v, RefersToString(v)
  PROVE  /\ Container(v).contents \in Seq(Word)
         /\ \A i \in DOMAIN Container(v).contents : Container(v).contents[i] \in Chars
<1>1. Header(v) \in DOMAIN obj /\ obj[Header(v)].type = "STRING"
  BY FillFacts DEF ReferredHere
<1> DEFINE o == obj[Header(v)]
<1>2. Container(v) = o /\ o \in Object /\ WellSized(o)
  BY <1>1, FillFacts DEF Container, At, Objects
<1>3. o.contents \in Seq(Word) /\ DOMAIN o.contents = 1..o.len
  BY <1>1, <1>2, LenProperties DEF Object, WellSized, NMembers
<1>4. \A i \in 1..o.len : o.contents[i] \in Chars
  BY <1>1, FillFacts DEF ObjSound
<1>5. QED
  BY <1>2, <1>3, <1>4

\* What strncpy makes of it.
LEMMA CopiedChars ==
  ASSUME NEW text, \A i \in DOMAIN text : text[i] \in Chars, NEW n
  PROVE  LET new == NewString(text, n)
         IN  /\ Words(new) = obj_words("STRING", n) /\ ~ new.mark /\ ~ new.enq
             /\ FieldValues(new) = {}
             /\ \A i \in 1..new.len : new.contents[i] \in Chars
<1>1. \A i \in 1..n : Copied(text, n)[i] \in Chars
  BY DEF Copied, Chars, Foreign
<1>2. QED
  BY <1>1, StringFields DEF NewString

\* Lclone of a string, Lsubstring and Li__Infix_4343 from alloc_string on.
LEMMA FinishTextSound ==
  ASSUME IInv, CInv, IInv', FinishCloneString \/ FinishSubstring \/ FinishConcat
  PROVE  CInv'
<1>1. pc = "fill" /\ op.fn \in {"LcloneString", "Lsubstring", "Li__Infix_4343"}
  BY DEF FinishCloneString, FinishSubstring, FinishConcat, Finish
<1>2. SP \in Nat /\ CallSound /\ Alive /\ pc # "mutator" /\ OperandsOf(op) <= SP
      /\ op.n \in Nat /\ op.from \in Nat
  BY <1>1, FillFacts, Operands DEF Alive
<1>3. ASSUME NEW fn, NEW text, \A i \in DOMAIN text : text[i] \in Chars,
             NEW len, need = obj_words("STRING", len), NEW nroots, NEW n \in 0..SP,
             Finish(fn, NewString(text, len), nroots, Dropped(n))
      PROVE  CInv'
  BY <1>3, CopiedChars, FinishSound
<1>4. CASE FinishCloneString
  <2>1. op.fn = "LcloneString"
    BY <1>4 DEF FinishCloneString, Finish
  <2>2. RefersToString(cvar) /\ need = obj_words("STRING", Len(op.text)) /\ 1 \in 0..SP
    BY <1>2, <2>1 DEF CallSound, OperandsOf
  <2>3. QED
    BY <1>1, <1>3, <1>4, <2>2, OperandText DEF FinishCloneString
<1>5. CASE FinishSubstring
  <2> DEFINE text == Container(Arg(0)).contents
             part == SubSeq(text, op.from + 1, Len(text))
  <2>1. op.fn = "Lsubstring"
    BY <1>5 DEF FinishSubstring, Finish
  <2>2. RefersToString(Arg(0)) /\ need = obj_words("STRING", op.n) /\ 3 \in 0..SP
    BY <1>2, <2>1 DEF CallSound, OperandsOf
  <2>3. text \in Seq(Word) /\ \A i \in DOMAIN text : text[i] \in Chars
    BY <1>1, <2>2, OperandText
  <2>4. \A i \in DOMAIN part : part[i] \in Chars
    <3> HIDE DEF text
    <3>1. text \in Seq(Chars) /\ Len(text) \in Nat
      BY <2>3, LenProperties
    <3>2. \A i \in (op.from + 1)..Len(text) : text[i] \in Chars
      BY <1>2, <3>1, ElementOfSeq
    <3>3. SubSeq(text, op.from + 1, Len(text)) \in Seq(Chars)
      BY <1>2, <3>1, <3>2, SubSeqProperties
    <3>4. QED
      BY <3>3, ElementOfSeq, LenProperties DEF part
  <2>5. Finish("Lsubstring", NewString(part, op.n), 1, Dropped(3))
    BY <1>5 DEF FinishSubstring
  <2> HIDE DEF part
  <2>6. QED
    BY <1>3, <2>2, <2>4, <2>5
<1>6. CASE FinishConcat
  <2> DEFINE one == Container(Arg(0)).contents
             two == Container(Arg(1)).contents
  <2>1. op.fn = "Li__Infix_4343"
    BY <1>6 DEF FinishConcat, Finish
  <2>2. /\ RefersToString(Arg(0)) /\ RefersToString(Arg(1))
        /\ need = obj_words("STRING", op.n) /\ 2 \in 0..SP
    BY <1>2, <2>1 DEF CallSound, OperandsOf
  <2>3. /\ one \in Seq(Word) /\ \A i \in DOMAIN one : one[i] \in Chars
        /\ two \in Seq(Word) /\ \A i \in DOMAIN two : two[i] \in Chars
    BY <1>1, <2>2, OperandText
  <2>4. Finish("Li__Infix_4343", NewString(one \o two, op.n), 2, Dropped(2))
    BY <1>6 DEF FinishConcat
  <2> HIDE DEF one, two
  <2>5. \A i \in DOMAIN (one \o two) : (one \o two)[i] \in Chars
    <3>1. one \in Seq(Chars) /\ two \in Seq(Chars)
      BY <2>3
    <3>2. one \o two \in Seq(Chars)
      BY <3>1, ConcatProperties
    <3>3. QED
      BY <3>2, ElementOfSeq, LenProperties
  <2>6. QED
    BY <1>3, <2>2, <2>4, <2>5
<1>7. QED
  BY <1>4, <1>5, <1>6

-----------------------------------------------------------------------------
(* alloc, before and after a collection.                                    *)

\* Where nothing is moved, what is not a bit of the collector is kept.
LEMMA MemoryKept ==
  ASSUME ~ Compacting, ~ Compacting', SameValues(obj, obj')
  PROVE  Memory' = Memory
<1>1. DOMAIN obj' = DOMAIN obj
  BY DEF SameValues
<1>2. \A h \in DOMAIN obj : Image(h)' = Image(h)
  BY DEF SameValues, Image, Place, ComingContents, Compacting
<1>3. Live' = DOMAIN obj /\ Live = DOMAIN obj
  BY <1>1 DEF Live, Compacting
<1>4. QED
  BY <1>2, <1>3 DEF Memory

\* The call under way is sound as long as the memory and the operands are.
LEMMA CallKept ==
  ASSUME CallSound, Alive, pc # "mutator", UNCHANGED <<op, need>>, Memory' = Memory,
         OperandsOf(op) >= 1 => Coming(Arg(0))' = Coming(Arg(0)),
         OperandsOf(op) >= 2 => Coming(Arg(1))' = Coming(Arg(1)),
         op.fn = "LcloneString" => Coming(cvar)' = Coming(cvar)
  PROVE  CallSound'
<1>1. op.fn \in {"Lsubstring", "Li__Infix_4343", "Lclone"} => OperandsOf(op) >= 1
  BY DEF OperandsOf
<1>2. op.fn = "Li__Infix_4343" => OperandsOf(op) >= 2
  BY DEF OperandsOf
<1>3. /\ op.fn \in {"Lsubstring", "Li__Infix_4343"} /\ RefersToString(Arg(0))
           => RefersToString(Arg(0))'
      /\ op.fn = "Li__Infix_4343" /\ RefersToString(Arg(1)) => RefersToString(Arg(1))'
  BY <1>1, <1>2 DEF RefersToString
<1>4. op.fn = "Lclone" /\ RefersToSized(Arg(0), need) => RefersToSized(Arg(0), need)'
  BY <1>1 DEF RefersToSized
<1>5. op.fn = "LcloneString" /\ RefersToString(cvar) => RefersToString(cvar)'
  BY DEF RefersToString
<1>6. QED
  BY <1>3, <1>4, <1>5 DEF CallSound

\* The same where no reference is to be changed.
LEMMA CallKeptHere ==
  ASSUME CallSound, Alive, pc # "mutator", UNCHANGED <<op, need, stack, cvar>>,
         ~ Compacting, ~ Compacting', SameValues(obj, obj')
  PROVE  CallSound'
<1>1. Memory' = Memory
  BY MemoryKept
<1>2. \A v : Coming(v) = v
  BY DEF Coming, Compacting
<1>3. Arg(0)' = Arg(0) /\ Arg(1)' = Arg(1)
  BY DEF Arg, SP
<1>4. /\ Coming(Arg(0))' = Coming(Arg(0)) /\ Coming(Arg(1))' = Coming(Arg(1))
      /\ Coming(cvar)' = Coming(cvar)
  BY <1>3 DEF Coming, Compacting
<1>5. QED
  BY <1>1, <1>4, CallKept

\* gc_alloc_on_existing_heap and the end of gc_alloc.
LEMMA AllocSound ==
  ASSUME IInv, CInv, AllocStep
  PROVE  CInv'
<1>1. /\ heap.current \in Int /\ heap \in Chunk /\ need \in Nat
      /\ pc \in {"alloc", "retry"} /\ ~ Compacting /\ Alive /\ pc # "mutator"
      /\ UNCHANGED <<old, obj, stack, extra, cvar, op, need>>
  BY DEF IInv, TypeOK, GcTypeOK, Chunk, AllocStep, AllocOnHeap, StartGc, Retry,
         Compacting, Alive, caller, store
<1>2. /\ heap.begin \in Bases /\ IsFiniteSet(DOMAIN obj)
      /\ ObjSound(obj, heap.begin, heap.current, Roots) /\ Quiet(obj) /\ Objects(obj)
  BY <1>1, CalmFacts DEF Calm, Limit
<1>3. SameValues(obj, obj') /\ Roots' = Roots
  BY <1>1 DEF SameValues, Roots
<1>4. CASE StartGc
  <2>1. /\ pc' = "roots" /\ root' = 1 /\ ~ Compacting' /\ Alive' /\ UNCHANGED heap
        /\ pc = "alloc"
    BY <1>4 DEF StartGc, Compacting, Alive, store
  <2>2. CallSound'
    BY <1>1, <1>3, <2>1, CallKeptHere DEF CInv
  <2>3. HeapSound'
    <3>1. Memory' = Memory /\ Limit' = Limit /\ ComingRoots' = ComingRoots
      BY <1>1, <1>3, <2>1, MemoryKept DEF Limit, ComingRoots, Coming, Compacting
    <3>2. QED
      BY <1>1, <2>1, <3>1 DEF CInv, HeapSound
  <2>4. Marked' = {} /\ Flagged' = {}
    BY <1>1, <1>2 DEF Quiet, Marked, Flagged
  <2>5. Bits'
    BY <2>1, <2>4 DEF Bits
  <2>6. Marking'
    <3>1. ~ \E n \in 1..NRoots' : n < 1
      BY DEF NRoots
    <3>2. QED
      BY <2>1, <2>4, <3>1 DEF Marking, Gray
  <2>7. QED
    BY <2>1, <2>2, <2>3, <2>5, <2>6 DEF CInv, Queue, Locating, Compaction, Collected, Compacting
<1>5. CASE AllocOnHeap \/ Retry
  <2>1. pc' \in {"fill", "crash"}
        /\ (pc' = "fill" => heap' = [heap EXCEPT !.current = @ + need])
        /\ (pc' = "crash" => heap' = heap)
    BY <1>5 DEF AllocOnHeap, Retry
  <2>2. heap'.begin = heap.begin /\ (pc' = "fill" => heap'.current = heap.current + need)
    BY <1>1, <2>1 DEF Chunk
  <2>3. pc' = "fill" => Limit' = heap.current
    <3>1. pc' = "fill" => NewHeader' = heap.current
      BY <1>1, <2>2 DEF NewHeader
    <3>2. pc' = "fill" => Limit' = NewHeader'
      BY DEF Limit, Compacting
    <3>3. QED
      BY <3>1, <3>2
  <2>4. pc' = "fill" => CallSound'
    BY <1>1, <1>3, CallKeptHere DEF CInv, Compacting
  <2>5. CalmFits'
    BY <1>1, <1>2, <1>3, <2>1, <2>2, <2>3, <2>4 DEF CalmFits, Calm, Alive
  <2>6. (CalmFits => CInv)'
    BY CalmInv, PTL
  <2>7. QED
    BY <2>5, <2>6
<1>6. QED
  BY <1>4, <1>5 DEF AllocStep

\* __init leaves an empty heap.
LEMMA CInvInit == Init => CInv
<1> SUFFICES ASSUME Init PROVE CInv
  OBVIOUS
<1>1. /\ heap.begin \in Bases /\ heap.current = heap.begin /\ DOMAIN obj = {}
      /\ stack = [k \in 1..NGlobals |-> Foreign] /\ extra = <<>> /\ pc = "mutator"
  BY DEF Init, GcInit
<1>2. Roots = StackWords(stack) /\ Limit = heap.current
  BY <1>1 DEF Roots, StackWords, Limit, Compacting
<1>3. \A v \in Roots : Clean(v, {})
  BY <1>1, <1>2, CleanPlain DEF StackWords, Chars
<1>4. ObjSound(obj, heap.begin, Limit, Roots) /\ Quiet(obj) /\ CallSound
  BY <1>1, <1>2, <1>3 DEF ObjSound, Quiet, CallSound
<1>5. IsFiniteSet(DOMAIN obj)
  BY <1>1, FS_EmptySet
<1>6. QED
  BY <1>1, <1>4, <1>5, CalmInv DEF CalmFits, Calm

\* Every step of the program and of alloc keeps the invariant.
LEMMA MutatorSteps ==
  ASSUME IInv, CInv, IInv', MutatorStep
  PROVE  CInv'
BY StackSound, ElemSound, StaSound, BeginMembersSound, BeginStringSound, BeginOperandSound,
   FinishArraySound, FinishAfterFirstSound, FinishStringSound, FinishCloneSound,
   FinishTextSound
DEF MutatorStep

-----------------------------------------------------------------------------
(***************************************************************************)
(* The mark phase (gc.c:243-274, 505-553).                                 *)
(*                                                                         *)
(* Three facts go together. Marking says that what is found is in every    *)
(* closed set and that the members of what is marked are found. Queue says *)
(* that the cells between the iterators hold the objects that wait, each   *)
(* in one cell, and that there are no more cells before the tail than      *)
(* objects found: so the tail meets a cell while there is an object left   *)
(* to find, and a cell is written to only after its entry was taken.       *)
(* ValidAddress makes the test is_valid_heap_pointer, which compares       *)
(* numbers, the question whether a word refers to an object.               *)
(***************************************************************************)

MarkPhase == pc \in {"roots", "queue", "fields"}

\* Objects lie where they are, one after the other up to heap.current.
InPlace == pc \in {"mutator", "alloc", "roots", "queue", "fields", "locate", "retry"}

\* What mark() starts from, and what a collection leaves: words refer to
\* objects or to nothing.
LEMMA InPlaceFacts ==
  ASSUME IInv, CInv, InPlace
  PROVE  /\ heap.begin \in Bases /\ heap.begin \in Int /\ heap.current \in Int
         /\ IsFiniteSet(DOMAIN obj) /\ ~ Compacting /\ Alive
         /\ ObjSound(obj, heap.begin, heap.current, Roots)
         /\ Objects(obj) /\ DOMAIN obj \subseteq Int
         /\ \A h \in DOMAIN obj : obj[h] \in Object /\ Words(obj[h]) \in Nat
                                  /\ Words(obj[h]) >= 2
<1>1. ~ Compacting /\ Alive /\ Limit = heap.current
  BY DEF InPlace, Compacting, Alive, Limit
<1>2. Sound(Memory, heap.begin, heap.current, Roots)
  BY <1>1, RootsHere DEF CInv, HeapSound
<1>3. Objects(obj) /\ heap.begin \in Int /\ heap.current \in Int
  BY ObjType DEF IInv, TypeOK, GcTypeOK, Chunk
<1>4. QED
  BY <1>1, <1>2, <1>3, SoundHere, WordsTwo DEF CInv, HeapSound, Objects

\* The same for the mark phase and the plan made from it.
LEMMA MarkFacts ==
  ASSUME IInv, CInv, MarkPhase \/ pc = "locate"
  PROVE  /\ heap.begin \in Bases /\ heap.begin \in Int /\ heap.current \in Int
         /\ IsFiniteSet(DOMAIN obj) /\ ~ Compacting /\ Alive
         /\ ObjSound(obj, heap.begin, heap.current, Roots)
         /\ Objects(obj) /\ DOMAIN obj \subseteq Int
         /\ \A h \in DOMAIN obj : obj[h] \in Object /\ Words(obj[h]) \in Nat
                                  /\ Words(obj[h]) >= 2
<1>1. InPlace
  BY DEF InPlace, MarkPhase
<1>2. QED
  BY <1>1, InPlaceFacts

\* The roots mark_phase visits.
LEMMA RootValues ==
  ASSUME IInv
  PROVE  Roots = {RootValue(n) : n \in 1..NRoots}
<1>1. /\ stack \in Seq(Word) /\ extra \in Seq(0..Len(stack))
      /\ Len(stack) \in Nat /\ DOMAIN stack = 1..Len(stack)
      /\ Len(extra) \in Nat /\ DOMAIN extra = 1..Len(extra)
  BY LenProperties DEF IInv, TypeOK, GcTypeOK
<1>2. ASSUME NEW n \in 1..NRoots
      PROVE  RootValue(n) \in Roots
  <2>1. CASE n <= Len(stack)
    <3>1. Len(stack) + 1 - n \in DOMAIN stack
      BY <1>1, <2>1
    <3>2. QED
      BY <2>1, <3>1 DEF RootValue, Roots
  <2>2. CASE n > Len(stack)
    <3>1. n - Len(stack) \in DOMAIN extra
      BY <1>1, <2>2 DEF NRoots
    <3>2. extra[n - Len(stack)] \in 0..Len(stack)
      BY <1>1, <3>1, ElementOfSeq
    <3>3. RootValue(n) = Deref(extra[n - Len(stack)])
      BY <1>1, <2>2 DEF RootValue
    <3>4. CASE extra[n - Len(stack)] = CLocal
      BY <3>1, <3>3, <3>4 DEF Deref, Roots
    <3>5. CASE extra[n - Len(stack)] # CLocal
      BY <1>1, <3>2, <3>3, <3>5 DEF Deref, Roots, CLocal
    <3>6. QED
      BY <3>4, <3>5
  <2>3. QED
    BY <1>1, <2>1, <2>2
<1>3. ASSUME NEW k \in DOMAIN stack
      PROVE  \E n \in 1..NRoots : stack[k] = RootValue(n)
  <2>1. /\ Len(stack) + 1 - k \in 1..NRoots /\ Len(stack) + 1 - k <= Len(stack)
        /\ Len(stack) + 1 - (Len(stack) + 1 - k) = k
    BY <1>1 DEF NRoots
  <2>2. QED
    BY <2>1 DEF RootValue
<1>4. ASSUME NEW j \in DOMAIN extra, extra[j] = CLocal
      PROVE  \E n \in 1..NRoots : cvar = RootValue(n)
  <2>1. /\ Len(stack) + j \in 1..NRoots /\ ~ (Len(stack) + j <= Len(stack))
        /\ Len(stack) + j - Len(stack) = j
    BY <1>1 DEF NRoots
  <2>2. RootValue(Len(stack) + j) = Deref(extra[j])
    BY <2>1 DEF RootValue
  <2>3. Deref(extra[j]) = cvar
    BY <1>4 DEF Deref
  <2>4. QED
    BY <2>1, <2>2, <2>3
<1>5. QED
  BY <1>2, <1>3, <1>4 DEF Roots

\* is_valid_heap_pointer tells references from all other words.
LEMMA ValidAddress ==
  ASSUME IInv, CInv, InPlace, NEW v \in Word, Clean(v, DOMAIN obj)
  PROVE  /\ is_valid_heap_pointer(v) <=> IsAddress(v)
         /\ IsAddress(v) => v \in Int /\ Header(v) \in DOMAIN obj
                            /\ At(Header(v)) = obj[Header(v)]
<1>1. /\ heap.begin \in Bases /\ heap.begin \in Int /\ heap.current \in Int
      /\ ObjSound(obj, heap.begin, heap.current, Roots) /\ DOMAIN obj \subseteq Int
      /\ \A h \in DOMAIN obj : Words(obj[h]) \in Nat /\ Words(obj[h]) >= 2
  BY InPlaceFacts
<1>2. ASSUME is_valid_heap_pointer(v)
      PROVE  IsAddress(v)
  <2>1. v \in Int /\ v >= heap.begin
    BY <1>1, <1>2 DEF is_valid_heap_pointer, UNBOXED, Word
  <2>2. QED
    BY <1>1, <2>1, AddressAbove
<1>3. ASSUME IsAddress(v)
      PROVE  /\ v \in Int /\ Header(v) \in DOMAIN obj
             /\ heap.begin <= v /\ v <= heap.current /\ ~ UNBOXED(v)
  <2>1. v \in Int /\ Header(v) \in DOMAIN obj /\ v = Header(v) + 2 /\ ~ UNBOXED(v)
    BY <1>3, HeaderContent DEF Clean, IsAddress, UNBOXED, Word
  <2>2. /\ heap.begin <= Header(v) /\ Header(v) < heap.current
        /\ heap.current >= Header(v) + Words(obj[Header(v)])
    BY <1>1, <2>1 DEF ObjSound
  <2>3. QED
    BY <1>1, <2>1, <2>2
<1>4. QED
  BY <1>2, <1>3 DEF is_valid_heap_pointer, At

\* The same in the mark phase and after it.
LEMMA ValidIsAddress ==
  ASSUME IInv, CInv, MarkPhase \/ pc = "locate", NEW v \in Word, Clean(v, DOMAIN obj)
  PROVE  /\ is_valid_heap_pointer(v) <=> IsAddress(v)
         /\ IsAddress(v) => v \in Int /\ Header(v) \in DOMAIN obj
                            /\ At(Header(v)) = obj[Header(v)]
<1>1. InPlace
  BY DEF InPlace, MarkPhase
<1>2. QED
  BY <1>1, ValidAddress

\* The objects mark() takes for new ones are the unmarked ones.
LEMMA UnmarkedFacts ==
  ASSUME IInv, CInv, MarkPhase, NEW v \in Word, Clean(v, DOMAIN obj)
  PROVE  /\ ~ Unmarked(v) => Clean(v, Marked)
         /\ ~ Enqueueable(v) => Clean(v, Gray)
         /\ Unmarked(v) => /\ v \in Int /\ Header(v) \in DOMAIN obj /\ IsAddress(v)
                           /\ Header(v) \notin Marked
         /\ Enqueueable(v) => Unmarked(v) /\ Header(v) \notin Gray
BY ValidIsAddress DEF Unmarked, Enqueueable, Clean, Marked, Flagged, Gray

\* A walk of heap_next_obj_iterator from an object.
LEMMA NextCell ==
  ASSUME IInv, CInv, MarkPhase \/ pc = "locate", NEW h \in DOMAIN obj
  PROVE  /\ Next_cell(h) = h + Words(obj[h])
         /\ h < Next_cell(h) /\ Next_cell(h) \in DOMAIN obj \cup {heap.current}
         /\ \A a \in DOMAIN obj \cup {heap.current} : a > h <=> a >= Next_cell(h)
<1>1. /\ heap.current \in Int
      /\ ObjSound(obj, heap.begin, heap.current, Roots) /\ DOMAIN obj \subseteq Int
      /\ Words(obj[h]) \in Nat /\ Words(obj[h]) >= 2
  BY MarkFacts
<1>2. Next_cell(h) = h + Words(obj[h])
  BY DEF Next_cell, At
<1>3. QED
  BY <1>1, <1>2 DEF ObjSound

\* The members are where they were.
LEMMA KidsSame ==
  ASSUME NEW objs, NEW kept, SameValues(objs, kept)
  PROVE  \A h \in DOMAIN objs : Kids(kept[h]) = Kids(objs[h])
BY DEF SameValues, Kids, FieldValues, Fields

\* queue_enqueue: one more cell, one more object that waits.
QueuedIn(objs, kept, cell, p) ==
  /\ SameValues(objs, kept)
  /\ \A a \in DOMAIN objs :
       /\ kept[a].mark = objs[a].mark
       /\ a = Header(p) => kept[a].enq = TRUE
       /\ a # Header(p) => kept[a].enq = objs[a].enq
       /\ a = cell => kept[a].fwd = p
       /\ a # cell => kept[a].fwd = objs[a].fwd

\* queue_enqueue (gc.c:507) changes a forward address and a bit, no member.
LEMMA EnqueuedEffect ==
  ASSUME Objects(obj), NEW cell \in DOMAIN obj, NEW p \in Int, Header(p) \in DOMAIN obj
  PROVE  QueuedIn(obj, Enqueued(obj, cell, p), cell, p)
<1> DEFINE linked == [obj EXCEPT ![cell].fwd = p]
<1>1. /\ DOMAIN linked = DOMAIN obj /\ Objects(linked)
      /\ \A a \in DOMAIN obj :
           /\ linked[a].mark = obj[a].mark /\ linked[a].enq = obj[a].enq
           /\ linked[a].fwd = IF a = cell THEN p ELSE obj[a].fwd
  <2>1. Objects(linked)
    BY FwdObjects
  <2>2. \A a \in DOMAIN obj : obj[a] \in Object
    BY DEF Objects
  <2>3. \A a \in DOMAIN obj :
          linked[a] = IF a = cell THEN [obj[a] EXCEPT !.fwd = p] ELSE obj[a]
    OBVIOUS
  <2>4. \A o \in Object : /\ [o EXCEPT !.fwd = p].mark = o.mark
                          /\ [o EXCEPT !.fwd = p].enq = o.enq
                          /\ [o EXCEPT !.fwd = p].fwd = p
    BY DEF Object
  <2>5. DOMAIN linked = DOMAIN obj
    OBVIOUS
  <2> HIDE DEF linked
  <2>6. QED
    BY <2>1, <2>2, <2>3, <2>4, <2>5
<1> DEFINE objs == [linked EXCEPT ![Header(p)].enq = TRUE]
<1> HIDE DEF linked
<1>2. /\ DOMAIN objs = DOMAIN obj
      /\ \A a \in DOMAIN obj :
           /\ objs[a].mark = linked[a].mark /\ objs[a].fwd = linked[a].fwd
           /\ objs[a].enq = IF a = Header(p) THEN TRUE ELSE linked[a].enq
  BY <1>1 DEF Objects, Object
<1>3. Enqueued(obj, cell, p) = objs
  BY DEF Enqueued, linked
<1> HIDE DEF objs
<1>4. QED
  BY <1>1, <1>2, <1>3, EnqueuedSame DEF QueuedIn

-----------------------------------------------------------------------------
\* mark() and the loop over the roots change bits and forward addresses only.
LEMMA MarkKeeps ==
  ASSUME IInv, CInv, MarkStep, SameValues(obj, obj'),
         pc' \in {"queue", "fields"} \/ Flagged' = {}
  PROVE  /\ HeapSound' /\ CallSound' /\ Bits' /\ Compaction' /\ Collected'
         /\ Roots' = Roots /\ NRoots' = NRoots /\ heap' = heap
         /\ \A n : RootValue(n)' = RootValue(n)
         /\ DOMAIN obj' = DOMAIN obj
         /\ \A h \in DOMAIN obj : Kids(obj'[h]) = Kids(obj[h])
         /\ \A S \in SUBSET DOMAIN obj : ClosedIn(S)' <=> ClosedIn(S)
<1>1. /\ UNCHANGED <<heap, old, stack, extra, cvar, op, need>>
      /\ MarkPhase /\ (MarkPhase' \/ pc' = "locate")
  BY DEF MarkStep, SkipRoot, MarkRoot, Dequeue, ScanField, FieldsDone, MarkReturn,
         MarkDone, MarkPhase, store, caller
<1>2. ~ Compacting /\ ~ Compacting' /\ Alive /\ Alive' /\ pc # "mutator" /\ pc' # "mutator"
  BY <1>1 DEF MarkPhase, Compacting, Alive
<1>3. /\ Roots' = Roots /\ NRoots' = NRoots /\ \A n : RootValue(n)' = RootValue(n)
  BY <1>1 DEF Roots, NRoots, RootValue, Deref
<1>4. DOMAIN obj' = DOMAIN obj /\ \A h \in DOMAIN obj : Kids(obj'[h]) = Kids(obj[h])
  BY KidsSame DEF SameValues
<1>5. HeapSound'
  <2>1. Memory' = Memory /\ ComingRoots' = ComingRoots
    BY <1>2, <1>3, MemoryKept DEF ComingRoots, Coming, Compacting
  <2>2. Limit' = Limit
    BY <1>1 DEF Limit, Compacting, MarkPhase
  <2>3. QED
    BY <1>1, <1>2, <1>4, <2>1, <2>2 DEF CInv, HeapSound
<1>6. CallSound'
  BY <1>1, <1>2, CallKeptHere DEF CInv
<1>7. Bits'
  BY <1>1, <1>2 DEF Bits, MarkPhase
<1>8. Compaction' /\ Collected'
  BY <1>1, <1>2 DEF Compaction, Collected, Compacting, MarkPhase
<1>9. \A S \in SUBSET DOMAIN obj : ClosedIn(S)' <=> ClosedIn(S)
  BY <1>3, <1>4 DEF ClosedIn
<1>10. QED
  BY <1>1, <1>3, <1>4, <1>5, <1>6, <1>7, <1>8, <1>9

\* Steps that change no object.
LEMMA SameSame == obj' = obj => SameValues(obj, obj')
BY DEF SameValues

\* mark (*root) for a value that is no pointer or is marked already.
LEMMA SkipRootSound ==
  ASSUME IInv, CInv, SkipRoot
  PROVE  CInv'
<1>1. /\ pc = "roots" /\ pc' = "roots" /\ root' = root + 1 /\ obj' = obj /\ MarkPhase
      /\ root \in Nat /\ root >= 1 /\ root \in 1..NRoots
  BY DEF SkipRoot, store, MarkPhase, IInv, TypeOK, GcTypeOK, Scanning, NRoots
<1>2. Flagged = {} /\ Flagged' = Flagged /\ Marked' = Marked /\ Gray' = Gray
  BY <1>1 DEF CInv, Bits, Alive, Flagged, Marked, Gray
<1>3. MarkStep /\ SameValues(obj, obj')
  BY <1>1, SameSame DEF MarkStep
<1>4. /\ HeapSound' /\ CallSound' /\ Bits' /\ Compaction' /\ Collected'
      /\ NRoots' = NRoots /\ \A n : RootValue(n)' = RootValue(n)
      /\ \A S \in SUBSET DOMAIN obj : ClosedIn(S)' <=> ClosedIn(S)
  BY <1>2, <1>3, MarkKeeps
<1>5. Clean(RootValue(root), Gray)
  <2>1. RootValue(root) \in Word /\ RootValue(root) \in Roots
    BY <1>1, RootWord, RootValues
  <2>2. Clean(RootValue(root), DOMAIN obj)
    BY <1>1, <2>1, MarkFacts DEF ObjSound
  <2>3. Clean(RootValue(root), Marked)
    BY <1>1, <2>1, <2>2, UnmarkedFacts DEF SkipRoot
  <2>4. QED
    BY <2>3 DEF Clean, Gray
<1>6. Marking'
  <2>1. ASSUME NEW n \in 1..NRoots, n < root + 1
        PROVE  Clean(RootValue(n), Gray)
    <3>1. n < root \/ n = root
      BY <1>1, <2>1 DEF NRoots
    <3>2. QED
      BY <1>1, <1>5, <3>1 DEF CInv, Marking
  <2>2. QED
    BY <1>1, <1>2, <1>4, <2>1 DEF CInv, Marking
<1>7. QED
  BY <1>1, <1>4, <1>6 DEF CInv, Queue, Locating

\* The counts of the queue's invariant are of finite sets.
LEMMA GrayFinite ==
  IsFiniteSet(DOMAIN obj) => Gray \subseteq DOMAIN obj /\ IsFiniteSet(Gray)
<1>1. Gray \subseteq DOMAIN obj
  BY DEF Gray, Marked, Flagged
<1>2. QED
  BY <1>1, FS_Subset

\* mark (*root) for an unmarked object.
LEMMA MarkRootSound ==
  ASSUME IInv, CInv, MarkRoot
  PROVE  CInv'
<1> DEFINE v == RootValue(root)
           b == heap.begin
<1> HIDE DEF v, b
<1>1. /\ pc = "roots" /\ pc' = "queue" /\ root' = root + 1 /\ MarkPhase
      /\ obj' = Enqueued(obj, b, v) /\ head' = b /\ tail' = Next_cell(b)
      /\ heap' = heap
      /\ root \in Nat /\ root >= 1 /\ root \in 1..NRoots /\ Unmarked(v)
  BY DEF MarkRoot, MarkPhase, IInv, TypeOK, GcTypeOK, Scanning, NRoots, v, b
<1>2. /\ ObjSound(obj, b, heap.current, Roots) /\ Objects(obj)
      /\ DOMAIN obj \subseteq Int /\ b \in Int /\ heap.current \in Int
      /\ IsFiniteSet(DOMAIN obj)
  BY <1>1, MarkFacts DEF b
<1>3. v \in Int /\ Header(v) \in DOMAIN obj /\ IsAddress(v) /\ Header(v) \notin Marked
      /\ v \in Roots /\ Clean(v, DOMAIN obj)
  <2>1. v \in Word /\ v \in Roots
    BY <1>1, RootWord, RootValues DEF v
  <2>2. Clean(v, DOMAIN obj)
    BY <1>2, <2>1 DEF ObjSound
  <2>3. QED
    BY <1>1, <2>1, <2>2, UnmarkedFacts
<1>4. b \in DOMAIN obj
  BY <1>2, <1>3 DEF ObjSound
<1>5. /\ SameValues(obj, obj') /\ DOMAIN obj' = DOMAIN obj
      /\ \A a \in DOMAIN obj :
           /\ obj'[a].mark = obj[a].mark
           /\ a = Header(v) => obj'[a].enq = TRUE
           /\ a # Header(v) => obj'[a].enq = obj[a].enq
           /\ a = b => obj'[a].fwd = v
           /\ a # b => obj'[a].fwd = obj[a].fwd
  <2>1. QueuedIn(obj, Enqueued(obj, b, v), b, v)
    BY <1>2, <1>3, <1>4, EnqueuedEffect
  <2>2. QED
    BY <1>1, <2>1 DEF QueuedIn, SameValues
<1>6. /\ Next_cell(b) \in DOMAIN obj \cup {heap.current} /\ b < Next_cell(b)
      /\ \A a \in DOMAIN obj \cup {heap.current} : a > b <=> a >= Next_cell(b)
  BY <1>1, <1>4, NextCell
<1>7. Flagged = {} /\ Flagged' = {Header(v)} /\ Marked' = Marked /\ Gray' = Gray \cup {Header(v)}
  <2>1. Flagged = {}
    BY <1>1 DEF CInv, Bits, Alive
  <2>2. \A a \in DOMAIN obj : obj[a].enq = FALSE
    BY <1>2, <2>1 DEF Flagged, Objects, Object
  <2>3. Flagged' = {Header(v)}
    BY <1>3, <1>5, <2>2 DEF Flagged
  <2>4. Marked' = Marked
    BY <1>5 DEF Marked
  <2>5. QED
    BY <2>1, <2>3, <2>4 DEF Gray
<1>8. MarkStep
  BY DEF MarkStep
<1>9. /\ HeapSound' /\ CallSound' /\ Bits' /\ Compaction' /\ Collected'
      /\ NRoots' = NRoots /\ \A n : RootValue(n)' = RootValue(n)
      /\ \A h \in DOMAIN obj : Kids(obj'[h]) = Kids(obj[h])
      /\ \A S \in SUBSET DOMAIN obj : ClosedIn(S)' <=> ClosedIn(S)
  BY <1>1, <1>5, <1>8, MarkKeeps
<1>10. Marking'
  <2>1. ASSUME NEW n \in 1..NRoots, n < root + 1
        PROVE  Clean(RootValue(n), Gray')
    <3>1. n < root \/ n = root
      BY <1>1, <2>1 DEF NRoots
    <3>2. CASE n < root
      BY <1>1, <1>7, <3>2, <2>1 DEF CInv, Marking, Clean
    <3>3. CASE n = root
      BY <1>7, <3>3 DEF Clean, v
    <3>4. QED
      BY <3>1, <3>2, <3>3
  <2>2. \A h \in Marked : Kids(obj[h]) \subseteq Gray'
    BY <1>1, <1>7 DEF CInv, Marking
  <2>3. ASSUME NEW S \in SUBSET DOMAIN obj, ClosedIn(S)
        PROVE  Gray' \subseteq S
    <3>1. Gray \subseteq S
      BY <1>1, <2>3 DEF CInv, Marking
    <3>2. Header(v) \in S
      BY <1>3, <2>3 DEF ClosedIn, Named
    <3>3. QED
      BY <1>7, <3>1, <3>2
  <2>4. \A h \in Marked' : Kids(obj'[h]) \subseteq Gray'
    BY <1>7, <1>9, <2>2 DEF Marked
  <2>5. QED
    BY <1>1, <1>5, <1>9, <2>1, <2>3, <2>4 DEF Marking
<1>11. Queue'
  <2>1. Cells' = {b}
    BY <1>1, <1>2, <1>4, <1>5, <1>6 DEF Cells
  <2>2. {h \in DOMAIN obj' : h < tail'} = {b}
    BY <1>1, <1>2, <1>4, <1>5, <1>6 DEF ObjSound
  <2>3. Header(obj'[b].fwd) = Header(v)
    BY <1>4, <1>5
  <2>4. Cardinality({b}) <= Cardinality(Gray')
    <3>1. IsFiniteSet(Gray') /\ {Header(v)} \in SUBSET Gray'
      BY <1>2, <1>7, GrayFinite, FS_AddElement
    <3>2. Cardinality({Header(v)}) <= Cardinality(Gray')
      BY <3>1, FS_Subset
    <3>3. QED
      BY <3>2, FS_Singleton
  <2>5. /\ {Header(obj'[h].fwd) : h \in Cells'} = Flagged'
        /\ \A g, h \in Cells' : Header(obj'[g].fwd) = Header(obj'[h].fwd) => g = h
        /\ Flagged' \cap Marked' = {}
    BY <1>3, <1>7, <2>1, <2>3
  <2>6. /\ head' \in DOMAIN obj' \cup {heap'.current}
        /\ tail' \in DOMAIN obj' \cup {heap'.current} /\ head' <= tail'
    BY <1>1, <1>2, <1>4, <1>5, <1>6
  <2>7. Cardinality({h \in DOMAIN obj' : h < tail'}) <= Cardinality(Gray')
    BY <2>2, <2>4
  <2>8. QED
    BY <2>5, <2>6, <2>7 DEF Queue
<1>12. QED
  BY <1>1, <1>9, <1>10, <1>11 DEF CInv, Locating

\* make_dequeued and mark_object.
DequeuedIn(objs, kept, h) ==
  /\ SameValues(objs, kept)
  /\ \A a \in DOMAIN objs :
       /\ kept[a].fwd = objs[a].fwd
       /\ a = h => kept[a].mark = TRUE /\ kept[a].enq = FALSE
       /\ a # h => kept[a].mark = objs[a].mark /\ kept[a].enq = objs[a].enq

\* queue_dequeue and mark_object (gc.c:515) change two bits of one object.
LEMMA DequeuedEffect ==
  ASSUME NEW objs, Objects(objs), NEW h
  PROVE  DequeuedIn(objs, [objs EXCEPT ![h].enq = FALSE, ![h].mark = TRUE], h)
<1> DEFINE kept == [objs EXCEPT ![h].enq = FALSE, ![h].mark = TRUE]
<1>1. SameValues(objs, kept)
  BY MarkSame
<1>2. \A a \in DOMAIN objs : objs[a] \in Object
  BY DEF Objects
<1>3. \A a \in DOMAIN objs :
       /\ kept[a].fwd = objs[a].fwd
       /\ a = h => kept[a].mark = TRUE /\ kept[a].enq = FALSE
       /\ a # h => kept[a].mark = objs[a].mark /\ kept[a].enq = objs[a].enq
  BY <1>2 DEF Object
<1> HIDE DEF kept
<1>4. DequeuedIn(objs, kept, h)
  BY <1>1, <1>3 DEF DequeuedIn
<1>5. QED
  BY <1>4 DEF kept

\* queue_dequeue and mark_object.
LEMMA DequeueSound ==
  ASSUME IInv, CInv, Dequeue
  PROVE  CInv'
<1> DEFINE h == Header(obj[head].fwd)
<1> HIDE DEF h
<1>1. pc = "queue" /\ pc' = "fields" /\ MarkPhase /\ MarkStep /\ head # tail
  BY DEF Dequeue, MarkPhase, MarkStep
<1>2. /\ ObjSound(obj, heap.begin, heap.current, Roots) /\ Objects(obj)
      /\ DOMAIN obj \subseteq Int /\ heap.current \in Int
      /\ IsFiniteSet(DOMAIN obj)
  BY <1>1, MarkFacts
<1>3. /\ head \in DOMAIN obj \cup {heap.current} /\ tail \in DOMAIN obj \cup {heap.current}
      /\ head <= tail
      /\ {Header(obj[a].fwd) : a \in Cells} = Flagged
      /\ \A a, b \in Cells : Header(obj[a].fwd) = Header(obj[b].fwd) => a = b
      /\ Flagged \cap Marked = {}
      /\ Cardinality({a \in DOMAIN obj : a < tail}) <= Cardinality(Gray)
  BY <1>1 DEF CInv, Queue
<1>4. head \in DOMAIN obj /\ head < tail /\ head \in Cells /\ head \in Int /\ tail \in Int
  BY <1>1, <1>2, <1>3 DEF ObjSound, Cells
<1>5. h \in Flagged /\ h \in DOMAIN obj /\ h \notin Marked
  BY <1>3, <1>4 DEF h, Flagged
<1>6. /\ obj' = [obj EXCEPT ![h].enq = FALSE, ![h].mark = TRUE]
      /\ cur' = h /\ todo' = PtrFields(obj[h])
      /\ head' = Next_cell(head) /\ tail' = tail /\ root' = root /\ heap' = heap
  BY <1>4, <1>5 DEF Dequeue, At, h
<1>7. DequeuedIn(obj, obj', h)
  BY <1>2, <1>6, DequeuedEffect
<1>8. SameValues(obj, obj') /\ DOMAIN obj' = DOMAIN obj
  BY <1>7 DEF DequeuedIn, SameValues
<1>9. Marked' = Marked \cup {h} /\ Flagged' = Flagged \ {h} /\ Gray' = Gray
  <2>1. Marked' = Marked \cup {h}
    BY <1>5, <1>7, <1>8 DEF DequeuedIn, Marked
  <2>2. Flagged' = Flagged \ {h}
    BY <1>5, <1>7, <1>8 DEF DequeuedIn, Flagged
  <2>3. QED
    BY <1>5, <2>1, <2>2 DEF Gray
<1>10. /\ HeapSound' /\ CallSound' /\ Bits' /\ Compaction' /\ Collected'
       /\ NRoots' = NRoots /\ \A n : RootValue(n)' = RootValue(n)
       /\ \A a \in DOMAIN obj : Kids(obj'[a]) = Kids(obj[a])
       /\ \A S \in SUBSET DOMAIN obj : ClosedIn(S)' <=> ClosedIn(S)
  BY <1>1, <1>8, MarkKeeps
<1>11. Marking'
  <2>1. /\ \A n \in 1..NRoots : n < root => Clean(RootValue(n), Gray)
        /\ \A a \in Marked : Kids(obj[a]) \subseteq Gray
        /\ \A S \in SUBSET DOMAIN obj : ClosedIn(S) => Gray \subseteq S
    BY <1>1 DEF CInv, Marking
  <2>2. \A a \in Marked' : a = cur' \/ Kids(obj'[a]) \subseteq Gray'
    BY <1>6, <1>9, <1>10, <2>1 DEF Marked
  <2>3. PtrFields(obj'[cur']) = todo' /\ cur' \in Marked'
    BY <1>5, <1>6, <1>8, <1>9 DEF SameValues, PtrFields, Fields
  <2>4. QED
    BY <1>1, <1>6, <1>8, <1>9, <1>10, <2>1, <2>2, <2>3 DEF Marking
<1>12. Queue'
  <2>1. /\ head' \in DOMAIN obj \cup {heap.current}
        /\ \A a \in DOMAIN obj \cup {heap.current} : a > head <=> a >= head'
        /\ head' \in Int
    BY <1>1, <1>2, <1>4, <1>6, NextCell
  <2>2. head' <= tail
    BY <1>3, <1>4, <2>1
  <2>3. Cells' = Cells \ {head}
    BY <1>2, <1>4, <1>6, <1>8, <2>1 DEF Cells
  <2>4. \A a \in DOMAIN obj : obj'[a].fwd = obj[a].fwd
    BY <1>7 DEF DequeuedIn
  <2>5. Cells \subseteq DOMAIN obj
    BY DEF Cells
  <2>6. {Header(obj'[a].fwd) : a \in Cells'} = Flagged'
    <3>1. {Header(obj'[a].fwd) : a \in Cells'} = {Header(obj[a].fwd) : a \in Cells \ {head}}
      BY <2>3, <2>4, <2>5
    <3>2. {Header(obj[a].fwd) : a \in Cells \ {head}} = Flagged \ {h}
      BY <1>3, <1>4 DEF h
    <3>3. QED
      BY <1>9, <3>1, <3>2
  <2>7. \A a, b \in Cells' : Header(obj'[a].fwd) = Header(obj'[b].fwd) => a = b
    BY <1>3, <2>3, <2>4, <2>5
  <2>8. Flagged' \cap Marked' = {}
    BY <1>3, <1>9
  <2>9. QED
    BY <1>3, <1>6, <1>8, <1>9, <2>1, <2>2, <2>6, <2>7, <2>8 DEF Queue
<1>13. QED
  BY <1>1, <1>10, <1>11, <1>12 DEF CInv, Locating

\* All members of the object have been looked at.
LEMMA FieldsDoneSound ==
  ASSUME IInv, CInv, FieldsDone
  PROVE  CInv'
<1>1. /\ pc = "fields" /\ pc' = "queue" /\ MarkPhase /\ MarkStep /\ todo = {}
      /\ UNCHANGED <<obj, heap, head, tail, root>>
  BY DEF FieldsDone, MarkPhase, MarkStep, store
<1>2. SameValues(obj, obj')
  BY <1>1, SameSame
<1>3. Marked' = Marked /\ Flagged' = Flagged /\ Gray' = Gray /\ Cells' = Cells
  BY <1>1 DEF Marked, Flagged, Gray, Cells
<1>4. /\ HeapSound' /\ CallSound' /\ Bits' /\ Compaction' /\ Collected'
      /\ NRoots' = NRoots /\ \A n : RootValue(n)' = RootValue(n)
      /\ \A S \in SUBSET DOMAIN obj : ClosedIn(S)' <=> ClosedIn(S)
  BY <1>1, <1>2, MarkKeeps
<1>5. Kids(obj[cur]) \subseteq Gray
  <2>1. \A i \in PtrFields(obj[cur]) : Clean(obj[cur].contents[i], Gray)
    BY <1>1 DEF CInv, Marking
  <2>2. QED
    BY <2>1 DEF Kids, Named, FieldValues, PtrFields, IsAddress, Clean
<1>6. Marking'
  BY <1>1, <1>3, <1>4, <1>5 DEF CInv, Marking
<1>7. Queue'
  BY <1>1, <1>3 DEF CInv, Queue
<1>8. QED
  BY <1>1, <1>4, <1>6, <1>7 DEF CInv, Locating

\* mark() returns to the loop over the roots.
LEMMA MarkReturnSound ==
  ASSUME IInv, CInv, MarkReturn
  PROVE  CInv'
<1>1. /\ pc = "queue" /\ pc' = "roots" /\ MarkPhase /\ MarkStep /\ head = tail
      /\ UNCHANGED <<obj, heap, root>>
  BY DEF MarkReturn, MarkPhase, MarkStep, store
<1>2. SameValues(obj, obj')
  BY <1>1, SameSame
<1>3. Marked' = Marked /\ Flagged' = Flagged /\ Gray' = Gray
  BY <1>1 DEF Marked, Flagged, Gray
<1>4. Flagged = {}
  <2>1. Cells = {}
    BY <1>1, MarkFacts DEF Cells, IInv, TypeOK, GcTypeOK
  <2>2. QED
    BY <1>1, <2>1 DEF CInv, Queue
<1>5. /\ HeapSound' /\ CallSound' /\ Bits' /\ Compaction' /\ Collected'
      /\ NRoots' = NRoots /\ \A n : RootValue(n)' = RootValue(n)
      /\ \A S \in SUBSET DOMAIN obj : ClosedIn(S)' <=> ClosedIn(S)
  BY <1>1, <1>2, <1>3, <1>4, MarkKeeps
<1>6. Marking'
  BY <1>1, <1>3, <1>5 DEF CInv, Marking
<1>7. QED
  BY <1>1, <1>5, <1>6 DEF CInv, Locating, Queue

\* All roots have been visited.
LEMMA MarkDoneSound ==
  ASSUME IInv, CInv, MarkDone
  PROVE  CInv'
<1>1. /\ pc = "roots" /\ pc' = "locate" /\ MarkPhase /\ MarkStep /\ root > NRoots
      /\ UNCHANGED <<obj, heap>> /\ iter' = heap.begin /\ free' = heap.begin
  BY DEF MarkDone, MarkPhase, MarkStep, store
<1>2. SameValues(obj, obj')
  BY <1>1, SameSame
<1>3. Marked' = Marked /\ Flagged' = Flagged /\ Flagged = {} /\ Gray = Marked
  BY <1>1 DEF CInv, Bits, Alive, Marked, Flagged, Gray
<1>4. /\ HeapSound' /\ CallSound' /\ Bits' /\ Compaction' /\ Collected'
      /\ \A S \in SUBSET DOMAIN obj : ClosedIn(S)' <=> ClosedIn(S)
  BY <1>1, <1>2, <1>3, MarkKeeps
<1>5. /\ \A n \in 1..NRoots : Clean(RootValue(n), Marked)
      /\ \A h \in Marked : Kids(obj[h]) \subseteq Marked
      /\ \A S \in SUBSET DOMAIN obj : ClosedIn(S) => Marked \subseteq S
  <2>1. root \in Nat /\ NRoots \in Nat
    BY LenProperties DEF IInv, TypeOK, GcTypeOK, NRoots
  <2>2. \A n \in 1..NRoots : n < root
    BY <1>1, <2>1
  <2>3. QED
    BY <1>1, <1>3, <2>2 DEF CInv, Marking
<1>6. Marked \in SUBSET DOMAIN obj /\ ClosedIn(Marked)
  BY <1>5, RootValues DEF ClosedIn, Named, Clean, Marked
<1>7. Passed' = {}
  <2>1. \A h \in DOMAIN obj : heap.begin <= h /\ h \in Int
    BY <1>1, MarkFacts DEF ObjSound
  <2>2. heap.begin \in Int
    BY <1>1, MarkFacts
  <2>3. QED
    BY <1>1, <1>3, <2>1, <2>2 DEF Passed, Marked
<1>8. Locating'
  <2>1. ObjSound(obj, heap.begin, heap.current, Roots) /\ heap.begin \in Int
    BY <1>1, MarkFacts
  <2>2. heap.begin \in DOMAIN obj \cup {heap.current}
    BY <2>1 DEF ObjSound
  <2>3. ClosedIn(Marked)' /\ \A S \in SUBSET DOMAIN obj' : ClosedIn(S)' => Marked' \subseteq S
    BY <1>1, <1>3, <1>4, <1>5, <1>6
  <2>4. QED
    BY <1>1, <1>7, <2>1, <2>2, <2>3 DEF Locating
<1>9. QED
  BY <1>1, <1>4, <1>8 DEF CInv, Marking, Queue

\* A member of the object under the scan.
LEMMA ScanFacts ==
  ASSUME IInv, CInv, pc = "fields", NEW i \in todo
  PROVE  LET v == obj[cur].contents[i]
         IN  /\ cur \in DOMAIN obj /\ At(cur) = obj[cur] /\ v \in Int
             /\ v \in FieldValues(obj[cur]) /\ Clean(v, DOMAIN obj)
             /\ i \in PtrFields(obj[cur])
<1>1. cur \in Marked /\ cur \in DOMAIN obj
  BY DEF CInv, Marking, Marked
<1>2. At(cur) = obj[cur] /\ i \in PtrFields(obj[cur]) /\ i \in Fields(obj[cur])
  BY <1>1 DEF At, IInv, Scanning, PtrFields
<1>3. Objects(obj) /\ ObjSound(obj, heap.begin, heap.current, Roots)
  BY MarkFacts DEF MarkPhase
<1>4. obj[cur].contents[i] \in Int
  BY <1>1, <1>2, <1>3, PtrFieldInt DEF Objects
<1>5. obj[cur].contents[i] \in FieldValues(obj[cur])
  BY <1>2 DEF FieldValues
<1>6. QED
  BY <1>1, <1>2, <1>3, <1>4, <1>5 DEF ObjSound

\* The queue never runs out of cells: there are fewer objects before its tail
\* than objects found, and the new one has not been found.
LEMMA TailFree ==
  ASSUME IInv, CInv, pc = "fields", NEW h \in DOMAIN obj, h \notin Gray
  PROVE  /\ tail \in DOMAIN obj /\ tail \in Int /\ tail < Next_cell(tail)
         /\ Next_cell(tail) \in DOMAIN obj \cup {heap.current}
         /\ {a \in DOMAIN obj : a < Next_cell(tail)} = {a \in DOMAIN obj : a < tail} \cup {tail}
         /\ Cardinality({a \in DOMAIN obj : a < Next_cell(tail)})
              <= Cardinality(Gray \cup {h})
<1> DEFINE before == {a \in DOMAIN obj : a < tail}
<1>1. /\ ObjSound(obj, heap.begin, heap.current, Roots)
      /\ DOMAIN obj \subseteq Int /\ heap.current \in Int /\ IsFiniteSet(DOMAIN obj)
  BY MarkFacts DEF MarkPhase
<1>2. tail \in DOMAIN obj \cup {heap.current} /\ Cardinality(before) <= Cardinality(Gray)
  BY DEF CInv, Queue
<1>3. before \subseteq DOMAIN obj /\ Gray \subseteq DOMAIN obj
  BY GrayFinite, <1>1
<1>4. IsFiniteSet(before) /\ IsFiniteSet(Gray)
  BY <1>1, <1>3, FS_Subset
<1>5. Cardinality(before) \in Nat /\ Cardinality(Gray) \in Nat /\ Cardinality(DOMAIN obj) \in Nat
  BY <1>1, <1>4, FS_CardinalityType
<1>6. tail \in DOMAIN obj
  <2>1. ASSUME tail \notin DOMAIN obj
        PROVE  FALSE
    <3>1. before = DOMAIN obj
      BY <1>1, <1>2, <2>1 DEF ObjSound
    <3>2. Cardinality(Gray) <= Cardinality(DOMAIN obj)
      BY <1>1, <1>3, FS_Subset
    <3>3. Cardinality(DOMAIN obj) = Cardinality(Gray)
      BY <1>2, <1>5, <3>1, <3>2
    <3>4. Gray = DOMAIN obj
      BY <1>1, <1>3, <3>3, FS_Subset
    <3>5. QED
      BY <3>4
  <2>2. QED
    BY <2>1
<1>7. /\ tail \in Int /\ tail < Next_cell(tail)
      /\ Next_cell(tail) \in DOMAIN obj \cup {heap.current}
      /\ \A a \in DOMAIN obj \cup {heap.current} : a > tail <=> a >= Next_cell(tail)
  BY <1>1, <1>6, NextCell DEF MarkPhase
<1>8. {a \in DOMAIN obj : a < Next_cell(tail)} = before \cup {tail}
  BY <1>1, <1>6, <1>7
<1>9. Cardinality(before \cup {tail}) = Cardinality(before) + 1
  <2>1. tail \notin before
    BY <1>7
  <2>2. QED
    BY <1>4, <2>1, FS_AddElement
<1>10. Cardinality(Gray \cup {h}) = Cardinality(Gray) + 1
  BY <1>4, FS_AddElement
<1> HIDE DEF before
<1>11. Cardinality(before \cup {tail}) <= Cardinality(Gray \cup {h})
  BY <1>2, <1>5, <1>9, <1>10
<1>12. QED
  BY <1>6, <1>7, <1>8, <1>11 DEF before

\* A member that is new joins the queue.
LEMMA ScanNewSound ==
  ASSUME IInv, CInv, pc = "fields", NEW i \in todo, NEW v, v = obj[cur].contents[i],
         Enqueueable(v), obj' = Enqueued(obj, tail, v), tail' = Next_cell(tail),
         todo' = todo \ {i}, MarkStep, pc' = "fields",
         UNCHANGED <<heap, root, head, cur>>
  PROVE  CInv'
<1>1. /\ cur \in DOMAIN obj /\ v \in Int /\ v \in FieldValues(obj[cur])
      /\ Clean(v, DOMAIN obj) /\ MarkPhase
  BY ScanFacts DEF MarkPhase
<1>2. /\ Header(v) \in DOMAIN obj /\ Header(v) \notin Gray /\ IsAddress(v)
  BY <1>1, UnmarkedFacts DEF Word
<1>3. /\ ObjSound(obj, heap.begin, heap.current, Roots) /\ Objects(obj)
      /\ DOMAIN obj \subseteq Int /\ heap.current \in Int
  BY <1>1, MarkFacts
<1>4. /\ tail \in DOMAIN obj /\ tail \in Int /\ tail < Next_cell(tail)
      /\ Next_cell(tail) \in DOMAIN obj \cup {heap.current}
      /\ {a \in DOMAIN obj : a < Next_cell(tail)} = {a \in DOMAIN obj : a < tail} \cup {tail}
      /\ Cardinality({a \in DOMAIN obj : a < Next_cell(tail)})
           <= Cardinality(Gray \cup {Header(v)})
  BY <1>2, TailFree
<1>5. QueuedIn(obj, obj', tail, v)
  BY <1>1, <1>2, <1>3, <1>4, EnqueuedEffect
<1>6. SameValues(obj, obj') /\ DOMAIN obj' = DOMAIN obj
  BY <1>5 DEF QueuedIn, SameValues
<1>7. Marked' = Marked /\ Flagged' = Flagged \cup {Header(v)} /\ Gray' = Gray \cup {Header(v)}
  <2>1. Marked' = Marked
    BY <1>5, <1>6 DEF QueuedIn, Marked
  <2>2. Flagged' = Flagged \cup {Header(v)}
    BY <1>2, <1>5, <1>6 DEF QueuedIn, Flagged
  <2>3. QED
    BY <2>1, <2>2 DEF Gray
<1>8. /\ HeapSound' /\ CallSound' /\ Bits' /\ Compaction' /\ Collected'
      /\ NRoots' = NRoots /\ \A n : RootValue(n)' = RootValue(n)
      /\ \A a \in DOMAIN obj : Kids(obj'[a]) = Kids(obj[a])
      /\ \A S \in SUBSET DOMAIN obj : ClosedIn(S)' <=> ClosedIn(S)
  BY <1>6, MarkKeeps
<1>9. Marking'
  <2>1. /\ \A n \in 1..NRoots : n < root => Clean(RootValue(n), Gray)
        /\ \A a \in Marked : a = cur \/ Kids(obj[a]) \subseteq Gray
        /\ \A S \in SUBSET DOMAIN obj : ClosedIn(S) => Gray \subseteq S
        /\ cur \in Marked
        /\ \A j \in PtrFields(obj[cur]) \ todo : Clean(obj[cur].contents[j], Gray)
    BY DEF CInv, Marking
  <2>2. \A n \in 1..NRoots' : n < root' => Clean(RootValue(n)', Gray')
    BY <1>7, <1>8, <2>1 DEF Clean
  <2>3. \A a \in Marked' : a = cur' \/ Kids(obj'[a]) \subseteq Gray'
    BY <1>7, <1>8, <2>1 DEF Marked
  <2>4. ASSUME NEW S \in SUBSET DOMAIN obj, ClosedIn(S)
        PROVE  Gray' \subseteq S
    <3>1. Gray \subseteq S /\ cur \in S
      BY <2>1, <2>4 DEF Gray
    <3>2. Header(v) \in S
      BY <1>1, <1>2, <2>4, <3>1 DEF ClosedIn, Kids, Named
    <3>3. QED
      BY <1>7, <3>1, <3>2
  <2>5. PtrFields(obj'[cur']) = PtrFields(obj[cur]) /\ obj'[cur'].contents = obj[cur].contents
    BY <1>1, <1>6 DEF SameValues, PtrFields, Fields
  <2>6. \A j \in PtrFields(obj[cur]) \ todo' : Clean(obj[cur].contents[j], Gray')
    BY <1>7, <2>1 DEF Clean
  <2>7. QED
    BY <1>6, <1>7, <1>8, <2>1, <2>2, <2>3, <2>4, <2>5, <2>6 DEF Marking
<1>10. Queue'
  <2>1. /\ head \in DOMAIN obj \cup {heap.current} /\ head <= tail
        /\ {Header(obj[a].fwd) : a \in Cells} = Flagged
        /\ \A a, b \in Cells : Header(obj[a].fwd) = Header(obj[b].fwd) => a = b
        /\ Flagged \cap Marked = {}
    BY DEF CInv, Queue
  <2>2. Cells' = Cells \cup {tail} /\ tail \notin Cells /\ head <= tail'
    <3>1. head \in Int
      BY <1>3, <2>1
    <3>2. tail \notin Cells
      BY <1>4 DEF Cells
    <3>3. \A a \in DOMAIN obj : a < Next_cell(tail) <=> a < tail \/ a = tail
      BY <1>4
    <3>4. Cells' = Cells \cup {tail}
      BY <1>4, <1>6, <2>1, <3>3 DEF Cells
    <3>5. head <= tail'
      BY <1>3, <1>4, <2>1, <3>1
    <3>6. QED
      BY <3>2, <3>4, <3>5
  <2>3. /\ \A a \in Cells : obj'[a].fwd = obj[a].fwd
        /\ obj'[tail].fwd = v
    BY <1>4, <1>5, <2>2 DEF QueuedIn, Cells
  <2>4. {Header(obj'[a].fwd) : a \in Cells'} = Flagged'
    BY <1>7, <2>1, <2>2, <2>3
  <2>5. \A a \in Cells : Header(obj[a].fwd) # Header(v)
    BY <1>2, <2>1 DEF Gray
  <2>6. \A a, b \in Cells' : Header(obj'[a].fwd) = Header(obj'[b].fwd) => a = b
    BY <2>1, <2>2, <2>3, <2>5
  <2>7. Flagged' \cap Marked' = {}
    BY <1>2, <1>7, <2>1 DEF Gray
  <2>8. QED
    BY <1>4, <1>6, <1>7, <2>1, <2>2, <2>4, <2>6, <2>7 DEF Queue
<1>11. QED
  BY <1>8, <1>9, <1>10 DEF CInv, Locating

\* A member that is none or has been found is passed over.
LEMMA ScanOldSound ==
  ASSUME IInv, CInv, pc = "fields", NEW i \in todo, NEW v, v = obj[cur].contents[i],
         ~ Enqueueable(v), obj' = obj, tail' = tail,
         todo' = todo \ {i}, MarkStep, pc' = "fields",
         UNCHANGED <<heap, root, head, cur>>
  PROVE  CInv'
<1>1. MarkPhase /\ SameValues(obj, obj')
  BY SameSame DEF MarkPhase
<1>2. Marked' = Marked /\ Flagged' = Flagged /\ Gray' = Gray /\ Cells' = Cells
  BY DEF Marked, Flagged, Gray, Cells
<1>3. /\ HeapSound' /\ CallSound' /\ Bits' /\ Compaction' /\ Collected'
      /\ NRoots' = NRoots /\ \A n : RootValue(n)' = RootValue(n)
      /\ \A S \in SUBSET DOMAIN obj : ClosedIn(S)' <=> ClosedIn(S)
  BY <1>1, MarkKeeps
<1>4. Clean(v, Gray)
  <2>1. v \in Int /\ Clean(v, DOMAIN obj)
    BY ScanFacts
  <2>2. QED
    BY <1>1, <2>1, UnmarkedFacts DEF Word
<1>5. Marking'
  <2>1. \A j \in PtrFields(obj[cur]) \ todo' : Clean(obj[cur].contents[j], Gray)
    BY <1>4 DEF CInv, Marking
  <2>2. QED
    BY <1>2, <1>3, <2>1 DEF CInv, Marking
<1>6. Queue'
  BY <1>2 DEF CInv, Queue
<1>7. QED
  BY <1>3, <1>5, <1>6 DEF CInv, Locating

\* One pointer field of the object under the scan.
LEMMA ScanFieldSound ==
  ASSUME IInv, CInv, ScanField
  PROVE  CInv'
<1>1. pc = "fields" /\ pc' = "fields" /\ MarkStep /\ UNCHANGED <<heap, root, head, cur>>
  BY DEF ScanField, MarkStep
<1>2. PICK i \in todo :
        /\ todo' = todo \ {i}
        /\ LET v == At(cur).contents[i]
           IN  IF Enqueueable(v)
               THEN /\ obj' = Enqueued(obj, tail, v)
                    /\ tail' = Next_cell(tail)
               ELSE UNCHANGED <<obj, tail>>
  BY DEF ScanField
<1>3. At(cur) = obj[cur]
  BY <1>1, ScanFacts
<1>4. CASE Enqueueable(obj[cur].contents[i])
  BY <1>1, <1>2, <1>3, <1>4, ScanNewSound
<1>5. CASE ~ Enqueueable(obj[cur].contents[i])
  BY <1>1, <1>2, <1>3, <1>5, ScanOldSound
<1>6. QED
  BY <1>4, <1>5

\* The mark phase keeps the invariant.
LEMMA MarkSteps ==
  ASSUME IInv, CInv, MarkStep
  PROVE  CInv'
BY SkipRootSound, MarkRootSound, DequeueSound, ScanFieldSound, FieldsDoneSound,
   MarkReturnSound, MarkDoneSound DEF MarkStep

-----------------------------------------------------------------------------
(***************************************************************************)
(* The compact phase (gc.c:276-499).                                       *)
(*                                                                         *)
(* The argument is that the memory to come is fixed the moment the live    *)
(* objects have been copied to their new chunk. compute_locations packs    *)
(* them (Locating); MapChunk turns the heap into the memory to come, the   *)
(* live objects at their places with every reference renamed; and then no  *)
(* step changes it: to update the references of an object, to fix the      *)
(* roots and to move an object down make true what was already counted on. *)
(* An object moves to an address no higher than its own and ends below the *)
(* place of the next one, so a memmove runs into objects that are dead or  *)
(* gone (MoveFacts).                                                       *)
(***************************************************************************)

\* compute_locations writes the place of a live object.
LocatedIn(objs, kept, h, place) ==
  /\ SameValues(objs, kept)
  /\ \A a \in DOMAIN objs :
       /\ kept[a].mark = objs[a].mark /\ kept[a].enq = objs[a].enq
       /\ a = h => kept[a].fwd = place
       /\ a # h => kept[a].fwd = objs[a].fwd

\* compute_locations (gc.c:318) writes one forward address.
LEMMA LocatedEffect ==
  ASSUME NEW objs, Objects(objs), NEW h, NEW place
  PROVE  LocatedIn(objs, [objs EXCEPT ![h].fwd = place], h, place)
<1> DEFINE kept == [objs EXCEPT ![h].fwd = place]
<1>1. SameValues(objs, kept)
  BY FwdSame
<1>2. \A a \in DOMAIN objs : objs[a] \in Object
  BY DEF Objects
<1>3. \A a \in DOMAIN objs :
       /\ kept[a].mark = objs[a].mark /\ kept[a].enq = objs[a].enq
       /\ a = h => kept[a].fwd = place
       /\ a # h => kept[a].fwd = objs[a].fwd
  BY <1>2 DEF Object
<1> HIDE DEF kept
<1>4. LocatedIn(objs, kept, h, place)
  BY <1>1, <1>3 DEF LocatedIn
<1>5. QED
  BY <1>4 DEF kept

\* compute_locations, for the object under the iterator.
LEMMA LocateSound ==
  ASSUME IInv, CInv, Locate
  PROVE  CInv'
<1> DEFINE w == Words(obj[iter])
<1> HIDE DEF w
<1>1. /\ pc = "locate" /\ pc' = "locate" /\ iter < heap.current /\ Alive /\ Alive'
      /\ ~ Compacting /\ ~ Compacting' /\ pc # "mutator" /\ pc' # "mutator"
      /\ UNCHANGED <<heap, old, stack, extra, cvar, op, need>>
  BY DEF Locate, Alive, Compacting, caller
<1>2. /\ ObjSound(obj, heap.begin, heap.current, Roots) /\ Objects(obj)
      /\ DOMAIN obj \subseteq Int /\ heap.current \in Int /\ heap.begin \in Int
      /\ heap.begin \in Bases /\ IsFiniteSet(DOMAIN obj)
      /\ \A h \in DOMAIN obj : obj[h] \in Object /\ Words(obj[h]) \in Nat /\ Words(obj[h]) >= 2
  BY <1>1, MarkFacts
<1>3. /\ ClosedIn(Marked)
      /\ \A S \in SUBSET DOMAIN obj : ClosedIn(S) => Marked \subseteq S
      /\ iter \in DOMAIN obj \cup {heap.current}
      /\ heap.begin <= free /\ free <= iter
      /\ heap.begin \in {obj[h].fwd : h \in Passed} \cup {free}
      /\ \A h \in Passed :
           /\ heap.begin <= obj[h].fwd /\ obj[h].fwd <= h
           /\ obj[h].fwd + Words(obj[h]) \in {obj[g].fwd : g \in Passed} \cup {free}
           /\ obj[h].fwd + Words(obj[h]) <= free
           /\ \A g \in Passed : g > h => obj[g].fwd >= obj[h].fwd + Words(obj[h])
  BY <1>1 DEF CInv, Locating
<1>4. iter \in DOMAIN obj /\ iter \in Int /\ free \in Int /\ At(iter) = obj[iter]
  BY <1>1, <1>2, <1>3 DEF At, IInv, TypeOK, GcTypeOK
<1>5. /\ iter' = Next_cell(iter) /\ iter < Next_cell(iter)
      /\ Next_cell(iter) \in DOMAIN obj \cup {heap.current} /\ iter' \in Int
      /\ \A a \in DOMAIN obj \cup {heap.current} : a > iter <=> a >= Next_cell(iter)
  BY <1>1, <1>2, <1>4, NextCell DEF Locate
<1>6. \/ obj[iter].mark /\ obj' = [obj EXCEPT ![iter].fwd = free] /\ free' = free + w
      \/ ~ obj[iter].mark /\ obj' = obj /\ free' = free
  BY <1>4 DEF Locate, w
<1>7. LocatedIn(obj, obj', iter, free) \/ (obj' = obj /\ iter \notin Marked)
  BY <1>2, <1>6, LocatedEffect DEF Marked
<1>8. SameValues(obj, obj') /\ DOMAIN obj' = DOMAIN obj
  BY <1>7, SameSame DEF LocatedIn, SameValues
<1>9. Marked' = Marked /\ Flagged' = Flagged
  BY <1>7, <1>8 DEF LocatedIn, Marked, Flagged
<1>10. \A h \in DOMAIN obj : Words(obj'[h]) = Words(obj[h]) /\ Kids(obj'[h]) = Kids(obj[h])
  BY <1>8, KidsSame DEF SameValues, Words
<1>11. HeapSound'
  <2>1. Memory' = Memory
    BY <1>1, <1>8, MemoryKept
  <2>2. ComingRoots' = ComingRoots /\ Limit' = Limit
    BY <1>1 DEF ComingRoots, Coming, Compacting, Roots, Limit
  <2>3. QED
    BY <1>1, <1>8, <2>1, <2>2 DEF CInv, HeapSound
<1>12. CallSound'
  BY <1>1, <1>8, CallKeptHere DEF CInv
<1>13. ClosedIn(Marked)' /\ \A S \in SUBSET DOMAIN obj' : ClosedIn(S)' => Marked' \subseteq S
  <2>1. \A S \in SUBSET DOMAIN obj : ClosedIn(S)' <=> ClosedIn(S)
    BY <1>1, <1>10 DEF ClosedIn, Roots
  <2>2. Marked \in SUBSET DOMAIN obj
    BY DEF Marked
  <2>3. ClosedIn(Marked)'
    BY <1>3, <1>9, <1>10, <2>2, <1>1 DEF ClosedIn, Roots
  <2>4. QED
    BY <1>3, <1>8, <1>9, <2>1, <2>3
<1>14. CASE iter \notin Marked
  <2>1. obj' = obj /\ free' = free
    BY <1>4, <1>6, <1>14 DEF Marked
  <2>2. Passed' = Passed
    BY <1>2, <1>4, <1>5, <1>9, <1>14, <2>1 DEF Passed, Marked
  <2>3. free' <= iter'
    BY <1>3, <1>4, <1>5, <2>1
  <2>4. Locating'
    BY <1>1, <1>3, <1>5, <1>13, <2>1, <2>2, <2>3 DEF Locating
  <2>5. QED
    BY <1>1, <1>9, <1>11, <1>12, <2>4
       DEF CInv, Bits, Alive, Marking, Queue, Compaction, Collected, Compacting
<1>15. CASE iter \in Marked
  <2>1. LocatedIn(obj, obj', iter, free) /\ free' = free + w
    BY <1>6, <1>7, <1>15 DEF Marked
  <2>2. /\ \A h \in DOMAIN obj : h # iter => obj'[h].fwd = obj[h].fwd
        /\ obj'[iter].fwd = free
    BY <1>4, <2>1 DEF LocatedIn
  <2>3. Passed' = Passed \cup {iter} /\ iter \notin Passed /\ \A h \in Passed : h < iter
    BY <1>2, <1>4, <1>5, <1>9, <1>15 DEF Passed, Marked
  <2>4. Passed \subseteq DOMAIN obj
    BY DEF Passed, Marked
  <2>5. {obj'[h].fwd : h \in Passed'} = {obj[h].fwd : h \in Passed} \cup {free}
    BY <2>2, <2>3, <2>4
  <2>6. w = Words(obj[iter]) /\ w \in Nat /\ w >= 2 /\ iter' = iter + w /\ free' \in Int
    BY <1>2, <1>4, <1>5, <2>1 DEF w, Next_cell
  <2>7. \A h \in Passed : obj[h].fwd \in Int
    BY <1>2, <2>4 DEF Object
  <2>8. heap.begin <= free' /\ free' <= iter' /\ free <= free'
    BY <1>2, <1>3, <1>4, <2>1, <2>6
  <2>9. ASSUME NEW h \in Passed'
        PROVE  /\ heap.begin <= obj'[h].fwd /\ obj'[h].fwd <= h
               /\ obj'[h].fwd + Words(obj'[h]) \in {obj'[g].fwd : g \in Passed'} \cup {free'}
               /\ obj'[h].fwd + Words(obj'[h]) <= free'
               /\ \A g \in Passed' : g > h => obj'[g].fwd >= obj'[h].fwd + Words(obj'[h])
    <3>1. CASE h = iter
      <4>1. obj'[h].fwd = free /\ Words(obj'[h]) = w
        BY <1>4, <1>10, <2>2, <2>6, <3>1
      <4>2. \A g \in Passed' : ~ g > h
        BY <1>4, <2>3, <2>4, <1>2, <3>1
      <4>3. QED
        BY <1>2, <1>3, <1>4, <2>1, <2>6, <3>1, <4>1, <4>2
    <3>2. CASE h \in Passed
      <4>1. obj'[h].fwd = obj[h].fwd /\ Words(obj'[h]) = Words(obj[h])
        BY <1>10, <2>2, <2>3, <2>4, <3>2
      <4>2. obj[h].fwd + Words(obj[h]) <= free'
        BY <1>2, <1>3, <1>4, <2>4, <2>7, <2>8, <2>6, <3>2
      <4>3. ASSUME NEW g \in Passed', g > h
            PROVE  obj'[g].fwd >= obj[h].fwd + Words(obj[h])
        <5>1. CASE g = iter
          BY <1>3, <2>2, <1>4, <1>2, <2>4, <2>7, <3>2, <5>1
        <5>2. CASE g \in Passed
          BY <1>3, <2>2, <2>3, <2>4, <3>2, <4>3, <5>2
        <5>3. QED
          BY <2>3, <5>1, <5>2
      <4>4. QED
        BY <1>3, <2>5, <3>2, <4>1, <4>2, <4>3
    <3>3. QED
      BY <2>3, <3>1, <3>2
  <2>10. heap.begin \in {obj'[h].fwd : h \in Passed'} \cup {free'}
    BY <1>3, <2>5
  <2>11. Locating'
    BY <1>1, <1>5, <1>8, <1>13, <2>8, <2>9, <2>10 DEF Locating
  <2>12. QED
    BY <1>1, <1>9, <1>11, <1>12, <2>11
       DEF CInv, Bits, Alive, Marking, Queue, Compaction, Collected, Compacting
<1>16. QED
  BY <1>14, <1>15

\* mmap fails.
LEMMA MapFailsSound ==
  ASSUME IInv, CInv, MapFails
  PROVE  CInv'
<1>1. /\ pc' = "segv" /\ UNCHANGED <<heap, obj>>
  BY DEF MapFails, store
<1>2. heap.begin \in Bases /\ IsFiniteSet(DOMAIN obj)
  BY DEF CInv, HeapSound
<1>3. (CalmFits => CInv)'
  BY CalmInv, PTL
<1>4. QED
  BY <1>1, <1>2, <1>3 DEF CalmFits, Calm, Alive

-----------------------------------------------------------------------------
(* The second chunk: every step leaves the memory to come as it is.         *)

\* What update_references and physically_relocate start from.
LEMMA CompactingFacts ==
  ASSUME IInv, CInv, Compacting
  PROVE  /\ Alive /\ pc # "mutator" /\ Limit = free /\ Flagged = {}
         /\ heap.begin \in Int /\ heap.current \in Int /\ free \in Int /\ iter \in Int
         /\ heap.begin \in Bases /\ IsFiniteSet(DOMAIN obj) /\ Objects(obj)
         /\ DOMAIN obj \subseteq Int
         /\ \A h \in DOMAIN obj :
              /\ obj[h] \in Object /\ Words(obj[h]) \in Nat /\ Words(obj[h]) >= 2
              /\ heap.begin <= h /\ h < heap.current
              /\ Target(h) \in Int
         /\ TiledFrom(iter) /\ Marked \subseteq DOMAIN obj
         /\ Sound(Memory, heap.begin, free, ComingRoots)
<1>1. Alive /\ pc # "mutator" /\ Limit = free
  BY DEF Compacting, Alive, Limit
<1>2. Objects(obj) /\ free \in Int /\ iter \in Int /\ heap.begin \in Int /\ heap.current \in Int
  BY ObjType DEF IInv, TypeOK, GcTypeOK, Chunk
<1>3. Flagged = {}
  BY DEF CInv, Bits, Compacting, Alive
<1>4. heap.begin \in Bases /\ IsFiniteSet(DOMAIN obj)
      /\ Sound(Memory, heap.begin, free, ComingRoots)
  BY <1>1 DEF CInv, HeapSound
<1>5. TiledFrom(iter) /\ \A h \in DOMAIN obj : heap.begin <= h /\ h < heap.current
  BY DEF CInv, Compaction
<1>6. QED
  BY <1>1, <1>2, <1>3, <1>4, <1>5, WordsTwo, TargetInt DEF Objects, Marked

\* The memory is kept, and with it all that is said of it.
LEMMA MemoryStays ==
  ASSUME IInv, CInv, Compacting, Compacting' \/ pc' = "retry",
         Memory' = Memory, ComingRoots' = ComingRoots, Limit' = Limit,
         heap.begin' = heap.begin, IsFiniteSet(DOMAIN obj'), Flagged' = {},
         pc' = "retry" => Marked' = {}, Compaction',
         UNCHANGED <<op, need>>,
         OperandsOf(op) >= 1 => Coming(Arg(0))' = Coming(Arg(0)),
         OperandsOf(op) >= 2 => Coming(Arg(1))' = Coming(Arg(1)),
         op.fn = "LcloneString" => Coming(cvar)' = Coming(cvar)
  PROVE  CInv'
<1>1. Alive /\ Alive' /\ pc # "mutator"
  BY DEF Alive, Compacting
<1>2. HeapSound'
  BY <1>1 DEF CInv, HeapSound
<1>3. CallSound'
  BY <1>1, CallKept DEF CInv
<1>4. Bits'
  BY DEF Bits, Compacting
<1>5. Marking' /\ Queue' /\ Locating'
  BY DEF Marking, Queue, Locating, Compacting
<1>6. Collected'
  BY DEF CInv, Collected, Compacting
<1>7. QED
  BY <1>2, <1>3, <1>4, <1>5, <1>6 DEF CInv

\* A step the program cannot see: the memory to come, and what the words on
\* the stack and the C variable will be, are the same before and after it.
Unseen ==
  /\ Memory' = Memory
  /\ op' = op /\ SP' = SP
  /\ \A k \in 1..SP : Coming(stack[k])' = Coming(stack[k])
  /\ op.fn = "LcloneString" => Coming(cvar)' = Coming(cvar)

\* heap_next_obj_iterator in the second chunk.
LEMMA CompactNext ==
  ASSUME IInv, CInv, Compacting, iter < heap.current
  PROVE  /\ iter \in DOMAIN obj /\ At(iter) = obj[iter]
         /\ Next_cell(iter) = iter + Words(obj[iter]) /\ iter < Next_cell(iter)
         /\ Next_cell(iter) \in DOMAIN obj \cup {heap.current}
         /\ \A a \in DOMAIN obj \cup {heap.current} : a > iter <=> a >= Next_cell(iter)
<1>1. /\ iter \in Int /\ heap.current \in Int /\ DOMAIN obj \subseteq Int /\ TiledFrom(iter)
      /\ \A h \in DOMAIN obj : Words(obj[h]) \in Nat /\ Words(obj[h]) >= 2
  BY CompactingFacts
<1>2. iter \in DOMAIN obj
  BY <1>1 DEF TiledFrom
<1>3. At(iter) = obj[iter] /\ Next_cell(iter) = iter + Words(obj[iter])
  BY <1>2 DEF At, Next_cell
<1>4. QED
  BY <1>1, <1>2, <1>3 DEF TiledFrom

\* The walk goes on from the next object.
LEMMA TiledOn ==
  ASSUME IInv, CInv, Compacting, iter < heap.current
  PROVE  TiledFrom(Next_cell(iter))
BY CompactNext, CompactingFacts DEF TiledFrom

\* update_references writes the new values of the members of one object.
UpdatedIn(objs, kept, h, members) ==
  /\ DOMAIN kept = DOMAIN objs
  /\ \A a \in DOMAIN objs :
       /\ kept[a].id = objs[a].id /\ kept[a].type = objs[a].type
       /\ kept[a].len = objs[a].len /\ kept[a].mark = objs[a].mark
       /\ kept[a].enq = objs[a].enq /\ kept[a].fwd = objs[a].fwd
       /\ a = h => kept[a].contents = members
       /\ a # h => kept[a] = objs[a]

\* update_references (gc.c:423) writes the members of one object.
LEMMA UpdatedEffect ==
  ASSUME NEW objs, Objects(objs), NEW h, NEW members
  PROVE  UpdatedIn(objs, [objs EXCEPT ![h].contents = members], h, members)
<1> DEFINE kept == [objs EXCEPT ![h].contents = members]
<1>1. \A a \in DOMAIN objs : objs[a] \in Object
  BY DEF Objects
<1>2. DOMAIN kept = DOMAIN objs
  OBVIOUS
<1>3. \A a \in DOMAIN objs :
       /\ kept[a].id = objs[a].id /\ kept[a].type = objs[a].type
       /\ kept[a].len = objs[a].len /\ kept[a].mark = objs[a].mark
       /\ kept[a].enq = objs[a].enq /\ kept[a].fwd = objs[a].fwd
       /\ a = h => kept[a].contents = members
       /\ a # h => kept[a] = objs[a]
  BY <1>1 DEF Object
<1> HIDE DEF kept
<1>4. UpdatedIn(objs, kept, h, members)
  BY <1>2, <1>3 DEF UpdatedIn
<1>5. QED
  BY <1>4 DEF kept

\* update_references, for the object under the iterator.
LEMMA UpdateObjectSound ==
  ASSUME IInv, CInv, UpdateObject
  PROVE  CInv' /\ Unseen
<1>1. /\ pc = "update" /\ pc' = "update" /\ iter < heap.current
      /\ Compacting /\ Compacting' /\ iter' = Next_cell(iter)
      /\ UNCHANGED <<heap, old, stack, extra, cvar, op, need, free>>
  BY DEF UpdateObject, Compacting, caller
<1>2. /\ heap.current \in Int /\ iter \in Int /\ IsFiniteSet(DOMAIN obj) /\ Objects(obj)
      /\ DOMAIN obj \subseteq Int /\ Flagged = {} /\ Marked \subseteq DOMAIN obj
      /\ \A h \in DOMAIN obj : Words(obj[h]) \in Nat
  BY <1>1, CompactingFacts
<1>3. /\ iter \in DOMAIN obj /\ At(iter) = obj[iter] /\ iter < iter' /\ iter' \in Int
      /\ \A a \in DOMAIN obj : a > iter <=> a >= iter'
      /\ TiledFrom(iter')
  BY <1>1, <1>2, CompactNext, TiledOn
<1>4. \/ /\ iter \in Marked /\ obj' = [obj EXCEPT ![iter].contents = Updated(obj[iter])]
      \/ /\ iter \notin Marked /\ obj' = obj
  BY <1>3 DEF UpdateObject, Marked, Updated
<1>5. UpdatedIn(obj, obj', iter, Updated(obj[iter])) \/ (iter \notin Marked /\ obj' = obj)
  BY <1>2, <1>4, UpdatedEffect
<1>6. /\ DOMAIN obj' = DOMAIN obj
      /\ \A a \in DOMAIN obj :
           /\ obj'[a].id = obj[a].id /\ obj'[a].type = obj[a].type
           /\ obj'[a].len = obj[a].len /\ obj'[a].mark = obj[a].mark
           /\ obj'[a].enq = obj[a].enq /\ obj'[a].fwd = obj[a].fwd
           /\ a # iter => obj'[a] = obj[a]
      /\ iter \in Marked => obj'[iter].contents = Updated(obj[iter])
  BY <1>3, <1>5 DEF UpdatedIn
<1>7. Marked' = Marked /\ Flagged' = {} /\ \A a \in DOMAIN obj : Words(obj'[a]) = Words(obj[a])
  BY <1>2, <1>6 DEF Marked, Flagged, Words
<1>8. \A h : Target(h)' = Target(h)
  BY <1>1, <1>6 DEF Target, At
<1>9. \A v : Fix(v)' = Fix(v)
  BY <1>1, <1>8 DEF Fix, InOld, Moved
<1>10. ASSUME NEW h \in Marked
       PROVE  Image(h)' = Image(h)
  <2>1. h \in DOMAIN obj /\ Place(h)' = Place(h)
    BY <1>1, <1>2, <1>7, <1>8 DEF Place
  <2>2. ComingContents(h)' = ComingContents(h)
    <3>1. CASE h = iter
      BY <1>1, <1>2, <1>3, <1>6, <3>1 DEF ComingContents
    <3>2. CASE h # iter
      <4>1. obj'[h] = obj[h] /\ (h >= iter' <=> h >= iter)
        BY <1>2, <1>3, <1>6, <2>1, <3>2
      <4>2. Updated(obj[h])' = Updated(obj[h])
        BY <1>9, <4>1 DEF Updated
      <4>3. QED
        BY <1>1, <4>1, <4>2 DEF ComingContents
    <3>3. QED
      BY <3>1, <3>2
  <2>3. QED
    BY <1>6, <2>1, <2>2 DEF Image
<1>11. Memory' = Memory
  BY <1>1, <1>7, <1>10 DEF Memory, Live
<1>12. ComingRoots' = ComingRoots /\ Limit' = Limit
  BY <1>1, <1>9 DEF ComingRoots, Coming, Roots, Limit, Compacting
<1>13. Compaction'
  <2>1. TiledFrom(iter)' /\ TiledFrom(heap.begin)'
    BY <1>1, <1>3, <1>6, <1>7 DEF TiledFrom, CInv, Compaction
  <2>2. QED
    BY <1>1, <1>2, <1>6, <1>7, <1>8, <2>1 DEF CInv, Compaction
<1>14. /\ Coming(Arg(0))' = Coming(Arg(0)) /\ Coming(Arg(1))' = Coming(Arg(1))
       /\ Coming(cvar)' = Coming(cvar)
  BY <1>1, <1>9 DEF Coming, Arg, SP
<1>15. CInv'
  BY <1>1, <1>2, <1>6, <1>7, <1>11, <1>12, <1>13, <1>14, MemoryStays
<1>16. Unseen
  BY <1>1, <1>9, <1>11 DEF Unseen, Coming, SP
<1>17. QED
  BY <1>15, <1>16

\* The places of the live objects, where they have not moved yet.
LEMMA Places ==
  ASSUME IInv, CInv, Compacting
  PROVE  \A h \in Marked : /\ Place(h) = Target(h) /\ heap.begin <= Target(h)
                           /\ Target(h) < free /\ Target(h) \in Starts(Memory)
<1>1. ASSUME NEW h \in Marked
      PROVE  /\ Place(h) = Target(h) /\ Image(h) \in Memory /\ Image(h).at = Target(h)
  BY ImageFields DEF Place, Memory, Live, Compacting
<1>2. Tiled(Memory, heap.begin, free)
  BY CompactingFacts DEF Sound
<1>3. QED
  BY <1>1, <1>2 DEF Tiled, Starts

\* Before the first move no object lies in its new place.
LEMMA NoneSettled ==
  IInv /\ CInv /\ pc = "update" => Settled = {}
<1> SUFFICES ASSUME IInv, CInv, pc = "update", NEW d \in Settled
             PROVE  FALSE
  OBVIOUS
<1>1. /\ d \in DOMAIN obj /\ d < free /\ \A h \in Marked : d < Target(h)
  BY DEF Settled
<1>2. Compacting
  BY DEF Compacting
<1>3. heap.begin \in Int /\ heap.begin <= d /\ d \in Int /\ free \in Int
  BY <1>1, <1>2, CompactingFacts
<1>4. heap.begin \in Starts(Memory) \cup {free}
  BY <1>2, CompactingFacts DEF Sound, Tiled
<1>5. CASE heap.begin = free
  BY <1>1, <1>3, <1>5
<1>6. CASE heap.begin \in Starts(Memory)
  <2>1. PICK h \in Marked : heap.begin = Image(h).at
    BY <1>6 DEF Starts, Memory, Live
  <2>2. Image(h).at = Target(h)
    BY <1>2, ImageFields DEF Place
  <2>3. QED
    BY <1>1, <1>3, <2>1, <2>2
<1>7. QED
  BY <1>4, <1>5, <1>6

\* scan_and_fix_region and scan_and_fix_region_roots.
LEMMA FixRootsSound ==
  ASSUME IInv, CInv, FixRoots
  PROVE  CInv' /\ Unseen
<1>1. /\ pc = "update" /\ pc' = "relocate" /\ iter >= heap.current
      /\ Compacting /\ Compacting' /\ iter' = heap.begin
      /\ stack' = [k \in DOMAIN stack |-> Fix(stack[k])]
      /\ cvar' = IF \E i \in DOMAIN extra : extra[i] = CLocal THEN Fix(cvar) ELSE cvar
      /\ UNCHANGED <<heap, old, obj, extra, op, need, free>>
  BY DEF FixRoots, Compacting, store
<1>2. /\ heap.current \in Int /\ iter \in Int /\ IsFiniteSet(DOMAIN obj)
      /\ DOMAIN obj \subseteq Int /\ Flagged = {} /\ Marked \subseteq DOMAIN obj
      /\ \A h \in DOMAIN obj : heap.begin <= h /\ h < heap.current
  BY <1>1, CompactingFacts
<1>3. Marked' = Marked /\ Flagged' = {} /\ \A h : Target(h)' = Target(h)
  BY <1>1, <1>2 DEF Marked, Flagged, Target, At
<1>4. Settled' = {}
  BY <1>1, <1>3, NoneSettled DEF Settled
<1>5. \A h \in Marked : Image(h)' = Image(h)
  BY <1>1, <1>2, <1>3 DEF Image, Place, ComingContents
<1>6. Memory' = Memory
  BY <1>1, <1>3, <1>4, <1>5 DEF Memory, Live
<1>7. DOMAIN stack' = DOMAIN stack /\ \A k \in DOMAIN stack : stack'[k] = Fix(stack[k])
  BY <1>1
<1>8. ComingRoots' = ComingRoots /\ Limit' = Limit
  <2>1. \A v : Coming(v)' = v
    BY <1>1 DEF Coming
  <2>2. \A v : Coming(v) = Fix(v)
    BY <1>1 DEF Coming
  <2>3. Roots' = {Fix(v) : v \in Roots}
    <3>1. {stack'[k] : k \in DOMAIN stack'} = {Fix(v) : v \in {stack[k] : k \in DOMAIN stack}}
      BY <1>7
    <3>2. {cvar' : i \in {j \in DOMAIN extra' : extra'[j] = CLocal}}
            = {Fix(v) : v \in {cvar : i \in {j \in DOMAIN extra : extra[j] = CLocal}}}
      BY <1>1
    <3>3. QED
      BY <3>1, <3>2 DEF Roots
  <2>4. ComingRoots' = {Fix(v) : v \in Roots}
    BY <2>1, <2>3 DEF ComingRoots
  <2>5. QED
    BY <1>1, <2>2, <2>4 DEF ComingRoots, Limit, Compacting
<1>9. Compaction'
  <2>1. TiledFrom(heap.begin)' /\ \A h \in Marked : heap.begin <= h
    BY <1>1, <1>2 DEF TiledFrom, CInv, Compaction
  <2>2. QED
    BY <1>1, <1>2, <1>3, <2>1 DEF CInv, Compaction
<1>10. OperandsOf(op) >= 1 => Coming(Arg(0))' = Coming(Arg(0))
  <2>1. stack \in Seq(Word) /\ SP \in Nat /\ DOMAIN stack = 1..SP /\ SP' = SP
        /\ OperandsOf(op) <= SP
    BY <1>1, <1>7, LenProperties
       DEF IInv, TypeOK, GcTypeOK, SP, ExtraRootsBalanced
  <2>2. SUFFICES ASSUME OperandsOf(op) >= 1
                 PROVE  stack'[SP'] = Fix(stack[SP])
    BY <1>1, <2>1 DEF Coming, Arg
  <2>3. OperandsOf(op) \in Int
    BY DEF OperandsOf, IInv, TypeOK, Calls
  <2>4. QED
    BY <1>7, <2>1, <2>2, <2>3
<1>11. OperandsOf(op) >= 2 => Coming(Arg(1))' = Coming(Arg(1))
  <2>1. stack \in Seq(Word) /\ SP \in Nat /\ DOMAIN stack = 1..SP /\ SP' = SP
        /\ OperandsOf(op) <= SP
    BY <1>1, <1>7, LenProperties
       DEF IInv, TypeOK, GcTypeOK, SP, ExtraRootsBalanced
  <2>2. SUFFICES ASSUME OperandsOf(op) >= 2
                 PROVE  stack'[SP' - 1] = Fix(stack[SP - 1])
    BY <1>1, <2>1 DEF Coming, Arg
  <2>3. OperandsOf(op) \in Int
    BY DEF OperandsOf, IInv, TypeOK, Calls
  <2>4. QED
    BY <1>7, <2>1, <2>2, <2>3
<1>12. op.fn = "LcloneString" => Coming(cvar)' = Coming(cvar)
  <2>1. SUFFICES ASSUME op.fn = "LcloneString"
                 PROVE  Coming(cvar)' = Coming(cvar)
    OBVIOUS
  <2>2. extra = <<SP, CLocal>>
    BY <1>1, <2>1 DEF IInv, ExtraRootsBalanced, RootsOf
  <2>3. cvar' = Fix(cvar)
    BY <1>1, <2>2
  <2>4. QED
    BY <1>1, <2>3 DEF Coming
<1>13. CInv'
  BY <1>1, <1>2, <1>3, <1>6, <1>8, <1>9, <1>10, <1>11, <1>12, MemoryStays
<1>14. Unseen
  <2>1. stack \in Seq(Word) /\ SP \in Nat /\ DOMAIN stack = 1..SP /\ SP' = SP
    BY <1>1, <1>7, LenProperties DEF IInv, TypeOK, GcTypeOK, SP
  <2>2. \A k \in 1..SP : Coming(stack[k])' = Coming(stack[k])
    BY <1>1, <1>7, <2>1 DEF Coming
  <2>3. QED
    BY <1>1, <1>6, <1>12, <2>1, <2>2 DEF Unseen
<1>15. QED
  BY <1>13, <1>14

\* memmove: objects that are not run into stay, the moved one is unmarked.
MovedIn(objs, kept, h, to, overwritten) ==
  /\ DOMAIN kept = ((DOMAIN objs \ overwritten) \ {h}) \cup {to}
  /\ \A a \in DOMAIN kept : a # to => kept[a] = objs[a]
  /\ kept[to].id = objs[h].id /\ kept[to].type = objs[h].type
  /\ kept[to].len = objs[h].len /\ kept[to].contents = objs[h].contents
  /\ kept[to].mark = FALSE /\ kept[to].enq = objs[h].enq

\* After memmove (gc.c:491) there is the object, and what it did not run into.
LEMMA MovedEffect ==
  ASSUME Objects(obj), NEW h \in DOMAIN obj, NEW to
  PROVE  MovedIn(obj, MovedTo(h, to), h, to, Overwritten(to, Words(obj[h])))
<1> DEFINE over == Overwritten(to, Words(obj[h]))
           moved == [obj[h] EXCEPT !.mark = FALSE]
           kept == [a \in ((DOMAIN obj \ over) \ {h}) \cup {to} |->
                      IF a = to THEN moved ELSE obj[a]]
<1>1. obj[h] \in Object
  BY DEF Objects
<1>2. /\ moved.id = obj[h].id /\ moved.type = obj[h].type
      /\ moved.len = obj[h].len /\ moved.contents = obj[h].contents
      /\ moved.mark = FALSE /\ moved.enq = obj[h].enq
  BY <1>1 DEF Object
<1>3. MovedTo(h, to) = kept
  BY DEF MovedTo
<1> HIDE DEF over, moved
<1>4. MovedIn(obj, kept, h, to, over)
  BY <1>2 DEF MovedIn
<1>5. QED
  BY <1>3, <1>4 DEF over

\* The memmove of the object under the iterator.
LEMMA MoveFacts ==
  ASSUME IInv, CInv, pc = "relocate", iter < heap.current, iter \in Marked,
         NEW t, t = Target(iter), NEW w, w = Words(obj[iter])
  PROVE  /\ t \in Int /\ w \in Nat /\ w >= 2 /\ t <= iter /\ heap.begin <= t /\ t < free
         /\ \A h \in DOMAIN obj : h > iter => h \notin Overwritten(t, w)
         /\ \A h \in Marked : h # iter => h > iter /\ Target(h) >= t + w
         /\ \A d \in Settled : d < t /\ d \notin Overwritten(t, w) /\ d # iter /\ d \notin Marked
         /\ \A d \in DOMAIN obj : d \notin Overwritten(t, w) /\ d > t => d >= t + w
         /\ t + w \in Settled \cup {Target(h) : h \in Marked} \cup {free}
<1>1. Compacting /\ iter \in DOMAIN obj
  BY DEF Compacting, Marked
<1>2. /\ heap.begin \in Int /\ heap.current \in Int /\ free \in Int /\ iter \in Int
      /\ DOMAIN obj \subseteq Int /\ Marked \subseteq DOMAIN obj
      /\ \A h \in DOMAIN obj :
           /\ Words(obj[h]) \in Nat /\ Words(obj[h]) >= 2 /\ Target(h) \in Int
      /\ Tiled(Memory, heap.begin, free)
  BY <1>1, CompactingFacts DEF Sound
<1>3. /\ \A h \in Marked :
           /\ Target(h) <= h
           /\ \A g \in Marked : g > h => Target(g) >= Target(h) + Words(obj[h])
      /\ \A h \in Marked : h >= iter
  BY <1>1 DEF CInv, Compaction
<1>4. t \in Int /\ w \in Nat /\ w >= 2 /\ t <= iter /\ heap.begin <= t /\ t < free
      /\ t \in Starts(Memory)
  BY <1>1, <1>2, <1>3, Places
<1>5. \A h \in DOMAIN obj : h > iter <=> h >= iter + w
  BY <1>1, <1>2, CompactNext
<1>6. \A h \in DOMAIN obj : h > iter => h \notin Overwritten(t, w)
  BY <1>2, <1>4, <1>5 DEF Overwritten
<1>7. ASSUME NEW h \in Marked, h # iter
      PROVE  h > iter /\ Target(h) >= t + w
  BY <1>2, <1>3, <1>7
<1>8. ASSUME NEW d \in Settled
      PROVE  d < t /\ d \notin Overwritten(t, w) /\ d # iter /\ d \notin Marked
  <2>1. d \in DOMAIN obj /\ d < t /\ d \in Int /\ \A h \in Marked : d < Target(h)
    BY <1>2 DEF Settled
  <2>2. d \notin Marked
    BY <1>2, <1>3, <2>1
  <2>3. Image(d) \in Memory /\ Image(d).at = d /\ Words(Image(d)) = Words(obj[d])
    BY <2>2, ImageFields DEF Place, Memory, Live, Compacting
  <2>4. t >= d + Words(obj[d])
    BY <1>2, <1>4, <2>1, <2>3 DEF Tiled
  <2>5. QED
    BY <1>2, <1>4, <2>1, <2>2, <2>4 DEF Overwritten
<1>9. \A d \in DOMAIN obj : d \notin Overwritten(t, w) /\ d > t => d >= t + w
  BY <1>2, <1>4 DEF Overwritten
<1>10. t + w \in Settled \cup {Target(h) : h \in Marked} \cup {free}
  <2>1. Image(iter) \in Memory /\ Image(iter).at = t /\ Words(Image(iter)) = w
    BY <1>1, ImageFields DEF Place, Memory, Live, Compacting
  <2>2. t + w \in Starts(Memory) \cup {free}
    BY <1>2, <2>1 DEF Tiled
  <2>3. Starts(Memory) \subseteq Settled \cup {Target(h) : h \in Marked}
    <3>1. ASSUME NEW h \in Settled \cup Marked
          PROVE  Image(h).at \in Settled \cup {Target(g) : g \in Marked}
      BY ImageFields DEF Place, Compacting
    <3>2. QED
      BY <3>1 DEF Starts, Memory, Live
  <2>4. QED
    BY <2>2, <2>3
<1>11. QED
  BY <1>4, <1>6, <1>7, <1>8, <1>9, <1>10

\* physically_relocate, for a live object.
LEMMA RelocateLiveSound ==
  ASSUME IInv, CInv, Relocate, iter \in Marked,
         NEW t, t = Target(iter), NEW w, w = Words(obj[iter])
  PROVE  CInv' /\ Unseen
<1> DEFINE over == Overwritten(t, w)
<1> HIDE DEF over
<1>1. /\ pc = "relocate" /\ pc' = "relocate" /\ iter < heap.current
      /\ Compacting /\ Compacting' /\ iter' = Next_cell(iter)
      /\ UNCHANGED <<heap, old, stack, extra, cvar, op, need, free>>
  BY DEF Relocate, Compacting, caller
<1>2. /\ heap.begin \in Int /\ heap.current \in Int /\ free \in Int /\ iter \in Int
      /\ IsFiniteSet(DOMAIN obj) /\ Objects(obj)
      /\ DOMAIN obj \subseteq Int /\ Flagged = {} /\ Marked \subseteq DOMAIN obj
      /\ \A h \in DOMAIN obj :
           /\ Words(obj[h]) \in Nat /\ Words(obj[h]) >= 2 /\ Target(h) \in Int
           /\ heap.begin <= h /\ h < heap.current
  BY <1>1, CompactingFacts
<1>3. /\ iter \in DOMAIN obj /\ At(iter) = obj[iter] /\ iter < iter' /\ iter' \in Int
      /\ iter' \in DOMAIN obj \cup {heap.current}
      /\ \A a \in DOMAIN obj \cup {heap.current} : a > iter <=> a >= iter'
      /\ TiledFrom(iter')
  BY <1>1, <1>2, CompactNext, TiledOn
<1>4. /\ t \in Int /\ w \in Nat /\ w >= 2 /\ t <= iter /\ heap.begin <= t /\ t < free
      /\ \A h \in DOMAIN obj : h > iter => h \notin over
      /\ \A h \in Marked : h # iter => h > iter /\ Target(h) >= t + w
      /\ \A d \in Settled : d < t /\ d \notin over /\ d # iter /\ d \notin Marked
      /\ \A d \in DOMAIN obj : d \notin over /\ d > t => d >= t + w
      /\ t + w \in Settled \cup {Target(h) : h \in Marked} \cup {free}
  BY <1>1, MoveFacts DEF over
<1>5. MovedIn(obj, obj', iter, t, over)
  <2>1. obj' = MovedTo(iter, t)
    BY <1>3 DEF Relocate, Marked
  <2>2. QED
    BY <1>2, <1>3, <2>1, MovedEffect DEF over
<1>6. /\ DOMAIN obj' = ((DOMAIN obj \ over) \ {iter}) \cup {t}
      /\ \A a \in DOMAIN obj' : a # t => obj'[a] = obj[a]
      /\ obj'[t].id = obj[iter].id /\ obj'[t].type = obj[iter].type
      /\ obj'[t].len = obj[iter].len /\ obj'[t].contents = obj[iter].contents
      /\ obj'[t].mark = FALSE /\ obj'[t].enq = obj[iter].enq
  BY <1>5 DEF MovedIn
<1>7. \A h \in DOMAIN obj : h > iter => h \in DOMAIN obj' /\ h # t /\ obj'[h] = obj[h]
  BY <1>2, <1>4, <1>6
<1>8. Marked' = Marked \ {iter}
  <2>1. \A h \in Marked : h # iter => h \in Marked'
    BY <1>2, <1>4, <1>7 DEF Marked
  <2>2. \A h \in Marked' : h \in Marked /\ h # iter
    BY <1>6 DEF Marked
  <2>3. QED
    BY <2>1, <2>2
<1>9. Flagged' = {}
  BY <1>2, <1>3, <1>6 DEF Flagged
<1>10. \A h \in Marked' : /\ h \in DOMAIN obj /\ h > iter /\ obj'[h] = obj[h] /\ h \in DOMAIN obj'
                          /\ Target(h)' = Target(h)
  <2>1. ASSUME NEW h \in Marked'
        PROVE  h \in DOMAIN obj /\ h > iter /\ obj'[h] = obj[h] /\ h \in DOMAIN obj'
    BY <1>2, <1>4, <1>7, <1>8
  <2>2. QED
    BY <1>1, <2>1 DEF Target, At
<1>11. Settled' = Settled \cup {t}
  <2>1. ASSUME NEW d \in Settled
        PROVE  d \in Settled'
    BY <1>1, <1>4, <1>6, <1>8, <1>10 DEF Settled
  <2>2. t \in Settled'
    <3>1. \A h \in Marked' : t < Target(h)
      BY <1>2, <1>4, <1>8
    <3>2. QED
      BY <1>1, <1>4, <1>6, <1>10, <3>1 DEF Settled
  <2>3. ASSUME NEW d \in Settled', d # t
        PROVE  d \in Settled
    <3>1. /\ d \in DOMAIN obj /\ d \notin over /\ d < free /\ d \in Int
          /\ \A h \in Marked' : d < Target(h)
      BY <1>1, <1>2, <1>6, <1>10, <2>3 DEF Settled
    <3>2. CASE d < t
      <4>1. \A h \in Marked : d < Target(h)
        BY <1>8, <3>1, <3>2
      <4>2. QED
        BY <3>1, <4>1 DEF Settled
    <3>3. CASE d > t
      <4>1. d >= t + w
        BY <1>4, <3>1, <3>3
      <4>2. CASE t + w = free
        BY <1>2, <3>1, <4>1, <4>2
      <4>3. CASE t + w \in Settled
        BY <1>4, <4>3
      <4>4. CASE t + w \in {Target(h) : h \in Marked}
        <5>1. PICK h \in Marked : t + w = Target(h)
          BY <4>4
        <5>2. h # iter
          BY <1>4, <5>1
        <5>3. d < t + w
          BY <1>8, <3>1, <5>1, <5>2
        <5>4. QED
          BY <1>4, <3>1, <4>1, <5>3
      <4>5. QED
        BY <1>4, <4>2, <4>3, <4>4
    <3>4. QED
      BY <1>4, <2>3, <3>1, <3>2, <3>3
  <2>4. QED
    BY <2>1, <2>2, <2>3
<1>12. Memory' = Memory
  <2>1. Live' = Settled \cup {t} \cup (Marked \ {iter}) /\ Live = Settled \cup Marked
    BY <1>1, <1>8, <1>11 DEF Live
  <2>2. Image(t)' = Image(iter)
    <3>1. Place(t)' = t /\ Place(iter) = t
      BY <1>1, <1>6 DEF Place, Marked
    <3>2. ComingContents(t)' = ComingContents(iter)
      BY <1>1, <1>6 DEF ComingContents
    <3>3. QED
      BY <1>6, <3>1, <3>2 DEF Image
  <2>3. ASSUME NEW d \in Settled
        PROVE  Image(d)' = Image(d)
    <3>1. d \in DOMAIN obj' /\ obj'[d] = obj[d]
      BY <1>4, <1>6 DEF Settled
    <3>2. Place(d)' = d /\ Place(d) = d
      BY <1>4, <1>8 DEF Place
    <3>3. ComingContents(d)' = ComingContents(d)
      BY <1>1, <3>1 DEF ComingContents
    <3>4. QED
      BY <3>1, <3>2, <3>3 DEF Image
  <2>4. ASSUME NEW h \in Marked, h # iter
        PROVE  Image(h)' = Image(h)
    <3>1. h \in Marked' /\ obj'[h] = obj[h] /\ Target(h)' = Target(h)
      BY <1>8, <1>10, <2>4
    <3>2. Place(h)' = Place(h)
      BY <1>1, <2>4, <3>1 DEF Place
    <3>3. ComingContents(h)' = ComingContents(h)
      BY <1>1, <3>1 DEF ComingContents
    <3>4. QED
      BY <3>1, <3>2, <3>3 DEF Image
  <2>5. QED
    BY <2>1, <2>2, <2>3, <2>4 DEF Memory
<1>13. ComingRoots' = ComingRoots /\ Limit' = Limit
  BY <1>1 DEF ComingRoots, Coming, Roots, Limit, Compacting
<1>14. Compaction'
  <2>1. \A h \in DOMAIN obj' : heap.begin <= h /\ h < heap.current
    BY <1>2, <1>3, <1>4, <1>6
  <2>2. TiledFrom(iter)'
    <3>1. \A h \in DOMAIN obj' : h >= iter' => h \in DOMAIN obj /\ obj'[h] = obj[h]
      BY <1>2, <1>3, <1>4, <1>6
    <3>2. \A a \in DOMAIN obj \cup {heap.current} : a > iter => a \in DOMAIN obj' \cup {heap.current}
      BY <1>7
    <3>3. iter' \in DOMAIN obj' \cup {heap.current}
      BY <1>2, <1>3, <3>2
    <3>4. ASSUME NEW h \in DOMAIN obj', h >= iter'
          PROVE  /\ h < heap.current /\ h + Words(obj'[h]) \in DOMAIN obj' \cup {heap.current}
                 /\ \A b \in DOMAIN obj' \cup {heap.current} : b > h => b >= h + Words(obj'[h])
      <4>1. h \in DOMAIN obj /\ obj'[h] = obj[h] /\ h > iter /\ Words(obj[h]) \in Nat
        BY <1>2, <1>3, <3>1, <3>4
      <4>2. /\ h < heap.current /\ h + Words(obj[h]) \in DOMAIN obj \cup {heap.current}
            /\ \A b \in DOMAIN obj \cup {heap.current} : b > h => b >= h + Words(obj[h])
        BY <1>3, <3>4, <4>1 DEF TiledFrom
      <4>3. h + Words(obj[h]) \in DOMAIN obj' \cup {heap.current}
        BY <1>2, <3>2, <4>1, <4>2
      <4>4. ASSUME NEW b \in DOMAIN obj' \cup {heap.current}, b > h
            PROVE  b >= h + Words(obj[h])
        <5>1. b \in DOMAIN obj \cup {heap.current}
          BY <1>2, <1>4, <1>6, <4>1, <4>4
        <5>2. QED
          BY <4>2, <4>4, <5>1
      <4>5. QED
        BY <4>1, <4>2, <4>3, <4>4
    <3>5. QED
      BY <1>1, <3>3, <3>4 DEF TiledFrom
  <2>3. \A h \in Marked' :
           /\ Target(h)' <= h /\ h >= iter'
           /\ \A g \in Marked' : g > h => Target(g)' >= Target(h)' + Words(obj'[h])
    BY <1>1, <1>2, <1>3, <1>8, <1>10 DEF CInv, Compaction
  <2>4. QED
    BY <1>1, <2>1, <2>2, <2>3 DEF Compaction, TiledFrom
<1>15. IsFiniteSet(DOMAIN obj')
  <2>1. IsFiniteSet((DOMAIN obj \ over) \ {iter})
    BY <1>2, FS_Subset
  <2>2. QED
    BY <1>6, <2>1, FS_AddElement
<1>16. /\ Coming(Arg(0))' = Coming(Arg(0)) /\ Coming(Arg(1))' = Coming(Arg(1))
       /\ Coming(cvar)' = Coming(cvar)
  BY <1>1 DEF Coming, Arg, SP
<1>17. CInv'
  BY <1>1, <1>9, <1>12, <1>13, <1>14, <1>15, <1>16, MemoryStays
<1>18. Unseen
  BY <1>1, <1>12 DEF Unseen, Coming, SP
<1>19. QED
  BY <1>17, <1>18

\* physically_relocate passes over garbage.
LEMMA RelocateDeadSound ==
  ASSUME IInv, CInv, Relocate, iter \notin Marked
  PROVE  CInv' /\ Unseen
<1>1. /\ pc = "relocate" /\ pc' = "relocate" /\ iter < heap.current
      /\ Compacting /\ Compacting' /\ iter' = Next_cell(iter)
      /\ UNCHANGED <<heap, old, stack, extra, cvar, op, need, free>>
  BY DEF Relocate, Compacting, caller
<1>2. /\ heap.current \in Int /\ iter \in Int /\ IsFiniteSet(DOMAIN obj)
      /\ DOMAIN obj \subseteq Int /\ Flagged = {} /\ Marked \subseteq DOMAIN obj
  BY <1>1, CompactingFacts
<1>3. /\ iter \in DOMAIN obj /\ At(iter) = obj[iter]
      /\ \A a \in DOMAIN obj \cup {heap.current} : a > iter <=> a >= iter'
      /\ TiledFrom(iter')
  BY <1>1, <1>2, CompactNext, TiledOn
<1>4. obj' = obj
  BY <1>3 DEF Relocate, Marked
<1>5. Marked' = Marked /\ Flagged' = {} /\ \A h : Target(h)' = Target(h)
  BY <1>1, <1>2, <1>4 DEF Marked, Flagged, Target, At
<1>6. Memory' = Memory
  BY <1>1, <1>4, <1>5 DEF Memory, Live, Settled, Image, Place, ComingContents
<1>7. ComingRoots' = ComingRoots /\ Limit' = Limit
  BY <1>1 DEF ComingRoots, Coming, Roots, Limit, Compacting
<1>8. Compaction'
  <2>1. \A h \in Marked : h >= iter'
    BY <1>1, <1>2, <1>3 DEF CInv, Compaction
  <2>2. TiledFrom(iter)'
    BY <1>1, <1>3, <1>4 DEF TiledFrom
  <2>3. QED
    BY <1>1, <1>4, <1>5, <2>1, <2>2 DEF CInv, Compaction, TiledFrom
<1>9. /\ Coming(Arg(0))' = Coming(Arg(0)) /\ Coming(Arg(1))' = Coming(Arg(1))
      /\ Coming(cvar)' = Coming(cvar)
  BY <1>1 DEF Coming, Arg, SP
<1>10. CInv'
  BY <1>1, <1>2, <1>4, <1>5, <1>6, <1>7, <1>8, <1>9, MemoryStays
<1>11. Unseen
  BY <1>1, <1>6 DEF Unseen, Coming, SP
<1>12. QED
  BY <1>10, <1>11

\* The heap ends after the live objects.
LEMMA ShrinkSound ==
  ASSUME IInv, CInv, Shrink
  PROVE  CInv' /\ Unseen
<1>1. /\ pc = "relocate" /\ pc' = "retry" /\ iter >= heap.current
      /\ Compacting /\ ~ Compacting'
      /\ heap' = [heap EXCEPT !.current = free]
      /\ obj' = [a \in {h \in DOMAIN obj : h < free} |-> obj[a]]
      /\ UNCHANGED <<stack, extra, cvar, op, need>>
  BY DEF Shrink, Compacting, caller
<1>2. /\ heap.current \in Int /\ iter \in Int /\ IsFiniteSet(DOMAIN obj)
      /\ DOMAIN obj \subseteq Int /\ Flagged = {} /\ Marked \subseteq DOMAIN obj
      /\ \A h \in DOMAIN obj : h < heap.current
      /\ heap \in Chunk
  BY <1>1, CompactingFacts DEF IInv, TypeOK, GcTypeOK
<1>3. heap'.begin = heap.begin /\ heap'.current = free
  BY <1>1, <1>2 DEF Chunk
<1>4. Marked = {}
  BY <1>1, <1>2 DEF CInv, Compaction
<1>5. Settled = {h \in DOMAIN obj : h < free}
  BY <1>4 DEF Settled
<1>6. /\ DOMAIN obj' = Settled
      /\ \A a \in Settled : obj'[a] = obj[a] /\ a \in DOMAIN obj
  BY <1>1, <1>5
<1>7. Marked' = {} /\ Flagged' = {}
  BY <1>2, <1>4, <1>6 DEF Marked, Flagged
<1>8. Memory' = Memory
  <2>1. Live' = Settled /\ Live = Settled
    BY <1>1, <1>4, <1>6 DEF Live
  <2>2. \A a \in Settled : Image(a)' = Image(a)
    BY <1>1, <1>4, <1>6, <1>7 DEF Image, Place, ComingContents
  <2>3. QED
    BY <2>1, <2>2 DEF Memory
<1>9. ComingRoots' = ComingRoots /\ Limit' = Limit
  BY <1>1, <1>3 DEF ComingRoots, Coming, Roots, Limit, Compacting
<1>10. IsFiniteSet(DOMAIN obj')
  BY <1>2, <1>5, <1>6, FS_Subset
<1>11. /\ Coming(Arg(0))' = Coming(Arg(0)) /\ Coming(Arg(1))' = Coming(Arg(1))
       /\ Coming(cvar)' = Coming(cvar)
  BY <1>1 DEF Coming, Arg, SP
<1>12. Compaction'
  BY <1>1 DEF Compaction
<1>13. CInv'
  BY <1>1, <1>3, <1>7, <1>8, <1>9, <1>10, <1>11, <1>12, MemoryStays
<1>14. Unseen
  BY <1>1, <1>8 DEF Unseen, Coming, SP
<1>15. QED
  BY <1>13, <1>14

-----------------------------------------------------------------------------
(* The second chunk is mapped: what compute_locations has planned.          *)

\* Objects that get other places, with their members renamed accordingly, are
\* in order when the old ones are and the places fit together.
Placed(objs, live, place, first, last) ==
  /\ first \in {place[h] : h \in live} \cup {last}
  /\ \A h \in live :
       /\ first <= place[h] /\ place[h] < last
       /\ place[h] + Words(objs[h]) \in {place[g] : g \in live} \cup {last}
       /\ place[h] + Words(objs[h]) <= last
       /\ \A g \in live : place[g] > place[h] => place[g] >= place[h] + Words(objs[h])

Depicted(objs, live, place, fix, img) ==
  \A h \in live :
    /\ img[h].at = place[h] /\ img[h].type = objs[h].type /\ img[h].len = objs[h].len
    /\ Words(img[h]) = Words(objs[h])
    /\ FieldValues(img[h]) = {fix[v] : v \in FieldValues(objs[h])}
    /\ objs[h].type = "STRING" => \A i \in 1..objs[h].len : img[h].contents[i] \in Chars

Renames(fix, live, place) ==
  \A v \in Word : Clean(v, live) =>
    /\ IsAddress(fix[v]) <=> IsAddress(v)
    /\ IsAddress(v) => Header(fix[v]) = place[Header(v)]

Within(objs, live, roots) ==
  /\ \A h \in live : \A v \in FieldValues(objs[h]) : v \in Word /\ Clean(v, live)
  /\ \A v \in roots : v \in Word /\ Clean(v, live)

\* Objects that are packed, with references renamed the same way, are in order.
LEMMA RenamedSound ==
  ASSUME NEW objs, NEW live, NEW place, NEW fix, NEW img, NEW first, NEW last, NEW roots,
         NEW m, m = {img[h] : h \in live},
         Placed(objs, live, place, first, last), Depicted(objs, live, place, fix, img),
         Renames(fix, live, place), Within(objs, live, roots)
  PROVE  Sound(m, first, last, {fix[v] : v \in roots})
<1>1. \A c : c \in m <=> \E h \in live : c = img[h]
  OBVIOUS
<1>2. Starts(m) = {place[h] : h \in live}
  BY <1>1 DEF Starts, Depicted
<1>3. Tiled(m, first, last)
  <2>1. ASSUME NEW h \in live
        PROVE  /\ first <= img[h].at /\ img[h].at < last
               /\ img[h].at + Words(img[h]) \in Starts(m) \cup {last}
               /\ \A a \in Starts(m) \cup {last} :
                    a > img[h].at => a >= img[h].at + Words(img[h])
    <3>1. img[h].at = place[h] /\ Words(img[h]) = Words(objs[h])
      BY DEF Depicted
    <3>2. \A a \in Starts(m) \cup {last} : a > place[h] => a >= place[h] + Words(objs[h])
      BY <1>2 DEF Placed
    <3>3. QED
      BY <1>2, <3>1, <3>2 DEF Placed
  <2>2. first \in Starts(m) \cup {last}
    BY <1>2 DEF Placed
  <2>3. QED
    BY <1>1, <2>1, <2>2 DEF Tiled
<1>4. \A v \in Word : Clean(v, live) => Clean(fix[v], Starts(m))
  BY <1>2 DEF Clean, Renames
<1>5. ASSUME NEW h \in live, NEW v \in FieldValues(img[h])
      PROVE  Clean(v, Starts(m))
  <2>1. FieldValues(img[h]) = {fix[w] : w \in FieldValues(objs[h])}
    BY DEF Depicted
  <2>2. PICK w \in FieldValues(objs[h]) : v = fix[w]
    BY <2>1
  <2>3. w \in Word /\ Clean(w, live)
    BY DEF Within
  <2>4. QED
    BY <1>4, <2>2, <2>3
<1>6. \A c \in m : c.type = "STRING" => \A i \in 1..c.len : c.contents[i] \in Chars
  BY <1>1 DEF Depicted
<1>7. \A v \in {fix[w] : w \in roots} : Clean(v, Starts(m))
  BY <1>4 DEF Within
<1> HIDE DEF Starts
<1>8. QED
  BY <1>1, <1>3, <1>5, <1>6, <1>7 DEF Sound

\* Nothing is left out that all sets of objects with what they refer to have.
LEMMA RenamedMinimal ==
  ASSUME NEW objs, NEW live, NEW place, NEW fix, NEW img, NEW roots,
         NEW m, m = {img[h] : h \in live}, Depicted(objs, live, place, fix, img),
         Renames(fix, live, place), Within(objs, live, roots),
         \A S \in SUBSET live :
           Named(roots) \subseteq S /\ (\A h \in S : Kids(objs[h]) \subseteq S) => S = live
  PROVE  Minimal(m, {fix[v] : v \in roots})
<1>1. \A c : c \in m <=> \E h \in live : c = img[h]
  OBVIOUS
<1>2. Starts(m) = {place[h] : h \in live}
  BY <1>1 DEF Starts, Depicted
<1> SUFFICES ASSUME NEW S \in SUBSET Starts(m),
                    Named({fix[v] : v \in roots}) \subseteq S,
                    \A c \in m : c.at \in S => Kids(c) \subseteq S
             PROVE  S = Starts(m)
  BY DEF Minimal
<1> DEFINE old_S == {h \in live : place[h] \in S}
<1>3. Named(roots) \subseteq old_S
  <2>1. ASSUME NEW v \in roots, IsAddress(v)
        PROVE  Header(v) \in old_S
    <3>1. v \in Word /\ Clean(v, live) /\ Header(v) \in live
      BY <2>1 DEF Within, Clean
    <3>2. IsAddress(fix[v]) /\ Header(fix[v]) = place[Header(v)]
      BY <2>1, <3>1 DEF Renames
    <3>3. Header(fix[v]) \in S
      BY <3>2 DEF Named
    <3>4. QED
      BY <3>1, <3>2, <3>3
  <2>2. QED
    BY <2>1 DEF Named
<1>4. ASSUME NEW h \in old_S
      PROVE  Kids(objs[h]) \subseteq old_S
  <2>1. h \in live /\ place[h] \in S /\ img[h] \in m /\ img[h].at = place[h]
    BY <1>1, <1>4 DEF Depicted
  <2>2. Kids(img[h]) \subseteq S
    BY <2>1
  <2>3. ASSUME NEW v \in FieldValues(objs[h]), IsAddress(v)
        PROVE  Header(v) \in old_S
    <3>1. v \in Word /\ Clean(v, live) /\ Header(v) \in live
      BY <2>1, <2>3 DEF Within, Clean
    <3>2. IsAddress(fix[v]) /\ Header(fix[v]) = place[Header(v)]
      BY <2>3, <3>1 DEF Renames
    <3>3. fix[v] \in FieldValues(img[h])
      BY <2>1 DEF Depicted
    <3>4. Header(fix[v]) \in S
      BY <2>2, <3>2, <3>3 DEF Kids, Named
    <3>5. QED
      BY <3>1, <3>2, <3>4
  <2>4. QED
    BY <2>3 DEF Kids, Named
<1>5. old_S = live
  BY <1>3, <1>4
<1>6. \A h \in live : place[h] \in S
  BY <1>5
<1>7. \A x \in Starts(m) : x \in S
  BY <1>2, <1>6
<1>8. QED
  BY <1>7

\* mmap and memcpy, to a chunk that is s words above the old one.
MappedTo(b, s) ==
  /\ pc = "locate" /\ pc' = "update" /\ iter >= heap.current
  /\ b \in Bases /\ s = b - heap.begin
  /\ heap'.begin = b /\ heap'.current = heap.current + s /\ old' = heap
  /\ obj' = [a \in {h + s : h \in DOMAIN obj} |-> obj[a - s]]
  /\ free' = free + s /\ iter' = b
  /\ UNCHANGED <<stack, extra, cvar, op, need, ids>>

\* The effect of MapChunk, by chunk.
LEMMA MapChunkIs ==
  MapChunk => \E b \in Bases : MappedTo(b, b - heap.begin)
BY DEF MapChunk, MappedTo, caller

\* All objects have been passed: their places are packed.
LEMMA AllPassed ==
  ASSUME IInv, CInv, pc = "locate", iter >= heap.current
  PROVE  /\ heap.begin \in Int /\ free \in Int /\ heap.begin <= free
         /\ Marked \subseteq DOMAIN obj
         /\ heap.begin \in {obj[h].fwd : h \in Marked} \cup {free}
         /\ \A h \in Marked :
              /\ obj[h].fwd \in Int /\ Words(obj[h]) \in Nat /\ Words(obj[h]) >= 2
              /\ heap.begin <= obj[h].fwd /\ obj[h].fwd <= h
              /\ obj[h].fwd + Words(obj[h]) \in {obj[g].fwd : g \in Marked} \cup {free}
              /\ obj[h].fwd + Words(obj[h]) <= free
              /\ \A g \in Marked : g > h => obj[g].fwd >= obj[h].fwd + Words(obj[h])
<1>1. /\ ObjSound(obj, heap.begin, heap.current, Roots) /\ DOMAIN obj \subseteq Int
      /\ heap.begin \in Int /\ heap.current \in Int
      /\ \A h \in DOMAIN obj : obj[h] \in Object /\ Words(obj[h]) \in Nat /\ Words(obj[h]) >= 2
  BY MarkFacts
<1>2. free \in Int /\ iter \in Int /\ Marked \subseteq DOMAIN obj
  BY DEF IInv, TypeOK, GcTypeOK, Marked
<1>3. Passed = Marked
  BY <1>1, <1>2 DEF Passed, ObjSound
<1>4. \A h \in Marked : obj[h].fwd \in Int
  BY <1>1, <1>2 DEF Object
<1>5. QED
  BY <1>1, <1>2, <1>3, <1>4 DEF CInv, Locating

\* The copy of the heap.
LEMMA MappedObjects ==
  ASSUME IInv, CInv, NEW b, NEW s, MappedTo(b, s)
  PROVE  /\ s \in Int /\ b \in Int /\ b = heap.begin + s
         /\ DOMAIN obj' = {h + s : h \in DOMAIN obj}
         /\ \A h \in DOMAIN obj : h + s \in DOMAIN obj' /\ obj'[h + s] = obj[h]
                                  /\ Target(h + s)' = obj[h].fwd + s
         /\ Marked' = {h + s : h \in Marked} /\ Flagged' = {}
         /\ IsFiniteSet(DOMAIN obj')
<1>1. /\ DOMAIN obj \subseteq Int /\ IsFiniteSet(DOMAIN obj) /\ heap.begin \in Int
      /\ \A h \in DOMAIN obj : obj[h] \in Object
  BY MarkFacts DEF MappedTo
<1>2. s \in Int /\ b \in Int /\ b = heap.begin + s
  BY <1>1, BasesAssumption DEF MappedTo
<1>3. DOMAIN obj' = {h + s : h \in DOMAIN obj}
  BY DEF MappedTo
<1>4. \A h \in DOMAIN obj : h + s \in DOMAIN obj' /\ obj'[h + s] = obj[h]
  <2>1. \A a \in DOMAIN obj' : obj'[a] = obj[a - s]
    BY DEF MappedTo
  <2>2. \A h \in DOMAIN obj : h + s \in DOMAIN obj'
    BY <1>3
  <2>3. ASSUME NEW h \in DOMAIN obj, NEW a \in DOMAIN obj', a = h + s
        PROVE  obj'[a] = obj[h]
    <3>1. a - s = h
      BY <1>1, <1>2, <2>3
    <3>2. QED
      BY <2>1, <3>1
  <2>4. QED
    BY <2>2, <2>3
<1>5. ASSUME NEW h \in DOMAIN obj
      PROVE  Target(h + s)' = obj[h].fwd + s
  <2>1. obj[h].fwd \in Int
    BY <1>1 DEF Object
  <2>2. Target(h + s)' = b + (obj[h].fwd - heap.begin)
    BY <1>4 DEF Target, At, MappedTo
  <2>3. QED
    BY <1>1, <1>2, <2>1, <2>2
<1>6. Marked' = {h + s : h \in Marked}
  BY <1>3, <1>4 DEF Marked
<1>7. Flagged' = {}
  <2>1. Flagged = {}
    BY DEF CInv, Bits, Alive, MappedTo
  <2>2. QED
    BY <1>3, <1>4, <2>1 DEF Flagged
<1>8. IsFiniteSet(DOMAIN obj')
  <2> DEFINE f == [h \in DOMAIN obj |-> h + s]
  <2>1. f \in Surjection(DOMAIN obj, DOMAIN obj')
    BY <1>3 DEF Surjection
  <2> HIDE DEF f
  <2>2. QED
    BY <1>1, <2>1, FS_Surjection
<1>9. QED
  BY <1>2, <1>3, <1>4, <1>5, <1>6, <1>7, <1>8

\* A word that refers to a live object will refer to its place.
LEMMA FixedWord ==
  ASSUME IInv, CInv, NEW b, NEW s, MappedTo(b, s), NEW v \in Word, Clean(v, Marked)
  PROVE  /\ IsAddress(v) => Header(v) \in Marked
                            /\ Fix(v)' = Content(obj[Header(v)].fwd + s)
         /\ ~ IsAddress(v) => Fix(v)' = v
<1>1. Clean(v, DOMAIN obj)
  BY DEF Clean, Marked
<1>2. /\ is_valid_heap_pointer(v) <=> IsAddress(v)
      /\ IsAddress(v) => v \in Int /\ Header(v) \in DOMAIN obj
  BY <1>1, ValidIsAddress DEF MappedTo
<1>3. InOld(v)' <=> IsAddress(v)
  BY <1>2 DEF InOld, is_valid_heap_pointer, MappedTo
<1>4. ASSUME IsAddress(v)
      PROVE  Header(v) \in Marked /\ Fix(v)' = Content(obj[Header(v)].fwd + s)
  <2>1. v \in Int /\ Header(v) \in DOMAIN obj /\ Header(v) \in Marked
    BY <1>2, <1>4 DEF Clean
  <2>2. s \in Int /\ b \in Int /\ b = heap.begin + s /\ heap.begin \in Int
    <3>1. s \in Int /\ b \in Int /\ b = heap.begin + s
      BY MappedObjects
    <3>2. heap.begin \in Int
      BY MarkFacts DEF MappedTo
    <3>3. QED
      BY <3>1, <3>2
  <2>3. Header(b + (v - heap.begin)) = Header(v) + s
    BY <2>1, <2>2, HeaderContent
  <2>4. Target(Header(v) + s)' = obj[Header(v)].fwd + s
    BY <2>1, MappedObjects
  <2>5. Moved(v)' = Content(obj[Header(v)].fwd + s)
    BY <2>3, <2>4 DEF Moved, MappedTo
  <2>6. QED
    BY <1>3, <1>4, <2>1, <2>5 DEF Fix
<1>5. QED
  BY <1>3, <1>4 DEF Fix

\* What the plan of compute_locations makes of places, words and objects.
MapPlace(s) == [h \in Marked |-> obj[h].fwd + s]
MapFix == [v \in Word |-> Fix(v)']
MapImage(s) == [h \in Marked |-> Image(h + s)']

\* The places of compute_locations, seen from the new chunk (gc.c:305), lie one
\* behind the other.
LEMMA MappedPlaces ==
  ASSUME IInv, CInv, NEW b, NEW s, MappedTo(b, s)
  PROVE  Placed(obj, Marked, MapPlace(s), b, free + s)
<1>1. /\ heap.begin \in Int /\ free \in Int /\ heap.begin <= free
      /\ heap.begin \in {obj[h].fwd : h \in Marked} \cup {free}
      /\ \A h \in Marked :
           /\ obj[h].fwd \in Int /\ Words(obj[h]) \in Nat /\ Words(obj[h]) >= 2
           /\ heap.begin <= obj[h].fwd
           /\ obj[h].fwd + Words(obj[h]) \in {obj[g].fwd : g \in Marked} \cup {free}
           /\ obj[h].fwd + Words(obj[h]) <= free
           /\ \A g \in Marked : g > h => obj[g].fwd >= obj[h].fwd + Words(obj[h])
  BY AllPassed DEF MappedTo
<1>2. s \in Int /\ b \in Int /\ b = heap.begin + s
  BY MappedObjects
<1>3. Marked \subseteq Int
  BY DEF Marked, IInv, TypeOK, GcTypeOK
<1> DEFINE place == MapPlace(s)
<1>4. \A h \in Marked : place[h] = obj[h].fwd + s
  BY DEF MapPlace
<1> HIDE DEF place
<1>5. \A x \in Int : x \in {obj[h].fwd : h \in Marked} \cup {free}
                     => x + s \in {place[h] : h \in Marked} \cup {free + s}
  BY <1>4
<1>6. b \in {place[h] : h \in Marked} \cup {free + s}
  BY <1>1, <1>2, <1>5
<1>7. ASSUME NEW h \in Marked
      PROVE  /\ b <= place[h] /\ place[h] < free + s
             /\ place[h] + Words(obj[h]) \in {place[g] : g \in Marked} \cup {free + s}
             /\ place[h] + Words(obj[h]) <= free + s
             /\ \A g \in Marked : place[g] > place[h] => place[g] >= place[h] + Words(obj[h])
  <2> DEFINE x == obj[h].fwd
             w == Words(obj[h])
  <2>1. /\ x \in Int /\ w \in Nat /\ w >= 2 /\ heap.begin <= x /\ x + w <= free
        /\ x + w \in {obj[g].fwd : g \in Marked} \cup {free} /\ place[h] = x + s
    BY <1>1, <1>4
  <2> HIDE DEF x, w
  <2>2. x + w + s \in {place[g] : g \in Marked} \cup {free + s} /\ x + w + s = place[h] + w
    BY <1>2, <1>5, <2>1
  <2>3. b <= place[h] /\ place[h] < free + s /\ place[h] + w <= free + s
    BY <1>1, <1>2, <2>1
  <2>4. ASSUME NEW g \in Marked, place[g] > place[h]
        PROVE  place[g] >= place[h] + w
    <3>1. obj[g].fwd \in Int /\ Words(obj[g]) \in Nat /\ place[g] = obj[g].fwd + s
      BY <1>1, <1>4
    <3>2. g > h
      <4>1. CASE h > g
        <5>1. x >= obj[g].fwd + Words(obj[g])
          BY <1>1, <4>1 DEF x
        <5>2. QED
          BY <1>2, <2>1, <2>4, <3>1, <5>1
      <4>2. CASE h = g
        BY <1>2, <2>1, <2>4, <3>1, <4>2
      <4>3. QED
        BY <1>3, <4>1, <4>2
    <3>3. obj[g].fwd >= x + w
      BY <1>1, <3>2 DEF x, w
    <3>4. QED
      BY <1>2, <2>1, <3>1, <3>3
  <2>5. QED
    BY <2>2, <2>3, <2>4 DEF w
<1>8. Placed(obj, Marked, place, b, free + s)
  BY <1>6, <1>7 DEF Placed
<1>9. QED
  BY <1>8 DEF place

\* scan_and_fix_region (gc.c:334) turns a reference to a live object into one to
\* its place.
LEMMA MappedWords ==
  ASSUME IInv, CInv, NEW b, NEW s, MappedTo(b, s)
  PROVE  Renames(MapFix, Marked, MapPlace(s))
<1> SUFFICES ASSUME NEW v \in Word, Clean(v, Marked)
             PROVE  /\ IsAddress(MapFix[v]) <=> IsAddress(v)
                    /\ IsAddress(v) => Header(MapFix[v]) = MapPlace(s)[Header(v)]
  BY DEF Renames
<1>1. MapFix[v] = Fix(v)'
  BY DEF MapFix
<1>2. CASE ~ IsAddress(v)
  BY <1>1, <1>2, FixedWord
<1>3. CASE IsAddress(v)
  <2>1. Header(v) \in Marked /\ Fix(v)' = Content(obj[Header(v)].fwd + s)
    BY <1>3, FixedWord
  <2>2. obj[Header(v)].fwd \in Int /\ obj[Header(v)].fwd >= heap.begin /\ heap.begin \in Int
    BY <2>1, AllPassed DEF MappedTo
  <2>3. s \in Int /\ b \in Int /\ b = heap.begin + s
    BY MappedObjects
  <2>4. b \in Bases
    BY DEF MappedTo
  <2>5. Content(obj[Header(v)].fwd + s) \in Int /\ Content(obj[Header(v)].fwd + s) >= b
        /\ Header(Content(obj[Header(v)].fwd + s)) = obj[Header(v)].fwd + s
    BY <2>2, <2>3, HeaderContent
  <2>6. IsAddress(Content(obj[Header(v)].fwd + s))
    BY <2>4, <2>5, AddressAbove
  <2>7. MapPlace(s)[Header(v)] = obj[Header(v)].fwd + s
    BY <2>1 DEF MapPlace
  <2>8. QED
    BY <1>1, <1>3, <2>1, <2>5, <2>6, <2>7
<1>4. QED
  BY <1>2, <1>3

\* Live objects and roots refer to live objects, so nothing is lost with the rest.
LEMMA MappedWithin ==
  ASSUME IInv, CInv, pc = "locate"
  PROVE  Within(obj, Marked, Roots)
<1>1. /\ Objects(obj) /\ Marked \subseteq DOMAIN obj /\ ClosedIn(Marked)
  BY MarkFacts DEF CInv, Locating, Marked
<1>2. ASSUME NEW h \in Marked, NEW v \in FieldValues(obj[h])
      PROVE  v \in Word /\ Clean(v, Marked)
  <2>1. PICK i \in Fields(obj[h]) : v = obj[h].contents[i]
    BY DEF FieldValues
  <2>2. v \in Word
    BY <1>1, <2>1, FieldMember, MemberWord DEF Objects
  <2>3. Kids(obj[h]) \subseteq Marked
    BY <1>1 DEF ClosedIn
  <2>4. QED
    BY <2>2, <2>3 DEF Kids, Named, Clean
<1>3. ASSUME NEW v \in Roots
      PROVE  v \in Word /\ Clean(v, Marked)
  <2>1. v \in Word
    BY RootValues, RootWord
  <2>2. QED
    BY <1>1, <2>1 DEF ClosedIn, Named, Clean
<1>4. QED
  BY <1>2, <1>3 DEF Within

\* The object an object will be.
LEMMA MappedImage ==
  ASSUME IInv, CInv, NEW b, NEW s, MappedTo(b, s), NEW h \in Marked
  PROVE  /\ Image(h + s)' \in Memory'
         /\ Image(h + s)'.at = obj[h].fwd + s
         /\ Image(h + s)'.id = obj[h].id
         /\ Image(h + s)'.type = obj[h].type /\ Image(h + s)'.len = obj[h].len
         /\ Words(Image(h + s)') = Words(obj[h])
         /\ FieldValues(Image(h + s)') = {MapFix[v] : v \in FieldValues(obj[h])}
         /\ obj[h].type = "STRING" =>
              \A i \in 1..obj[h].len : Image(h + s)'.contents[i] \in Chars
         /\ DOMAIN Image(h + s)'.contents = DOMAIN obj[h].contents
         /\ \A i \in DOMAIN obj[h].contents :
              Image(h + s)'.contents[i] = IF i \in Fields(obj[h]) THEN MapFix[obj[h].contents[i]]
                                          ELSE obj[h].contents[i]
<1>1. /\ h \in DOMAIN obj /\ obj[h] \in Object /\ WellSized(obj[h])
      /\ h \in Int /\ heap.begin \in Int /\ heap.begin <= h
      /\ ObjSound(obj, heap.begin, heap.current, Roots)
  BY MarkFacts DEF MappedTo, Marked, Objects, ObjSound
<1>2. PICK o : o = obj[h]
  OBVIOUS
<1>3. o \in Object /\ WellSized(o) /\ Within(obj, Marked, Roots)
  BY <1>1, <1>2, MappedWithin DEF MappedTo
<1>4. s \in Int /\ b = heap.begin + s /\ Marked' = {a + s : a \in Marked}
  BY MappedObjects
<1>5. obj'[h + s] = o /\ Target(h + s)' = o.fwd + s
  BY <1>1, <1>2, MappedObjects
<1>6. h + s \in Marked'
  BY <1>4
<1>7. pc' = "update" /\ iter' = b
  BY DEF MappedTo
<1>8. h + s >= b
  BY <1>1, <1>4
<1>9. Image(h + s)' \in Memory'
  BY <1>6, <1>7 DEF Memory, Live
<1>10. /\ Fields(o) \subseteq DOMAIN o.contents
       /\ DOMAIN o.contents = 1..NMembers(o.type, o.len)
  <2>1. DOMAIN o.contents = 1..NMembers(o.type, o.len)
    BY <1>3, LenProperties DEF WellSized, Object
  <2>2. QED
    BY <1>3, <2>1, FieldMember
<1> DEFINE members == ComingContents(h + s)'
<1>11. members = [i \in DOMAIN o.contents |->
                    IF i \in PtrFields(o) THEN Fix(o.contents[i])' ELSE o.contents[i]]
  BY <1>5, <1>7, <1>8 DEF ComingContents, Updated
<1> HIDE DEF members
<1>12. /\ Image(h + s)'.at = o.fwd + s /\ Image(h + s)'.id = o.id
       /\ Image(h + s)'.type = o.type /\ Image(h + s)'.len = o.len
       /\ Image(h + s)'.contents = members
  BY <1>5, <1>6, <1>7 DEF Image, Place, Compacting, members
<1>13. Words(Image(h + s)') = Words(o) /\ Fields(Image(h + s)') = Fields(o)
  BY <1>12 DEF Words, Fields
<1>14. ASSUME NEW i \in Fields(o)
       PROVE  members[i] = MapFix[o.contents[i]]
  <2>1. o.contents[i] \in Word
    BY <1>3, MemberWord, FieldMember
  <2>2. MapFix[o.contents[i]] = Fix(o.contents[i])'
    BY <2>1 DEF MapFix
  <2>3. CASE i \in PtrFields(o)
    BY <1>10, <1>11, <2>2, <2>3
  <2>4. CASE i \notin PtrFields(o)
    <3>1. ~ IsAddress(o.contents[i])
      BY <2>4 DEF PtrFields, IsAddress
    <3>2. Clean(o.contents[i], Marked)
      BY <3>1 DEF Clean
    <3>3. Fix(o.contents[i])' = o.contents[i]
      BY <2>1, <3>1, <3>2, FixedWord
    <3>4. members[i] = o.contents[i]
      BY <1>10, <1>11, <2>4
    <3>5. QED
      BY <2>2, <3>3, <3>4
  <2>5. QED
    BY <2>3, <2>4
<1>15. FieldValues(Image(h + s)') = {MapFix[v] : v \in FieldValues(o)}
  <2>1. FieldValues(Image(h + s)') = {members[i] : i \in Fields(o)}
    BY <1>12, <1>13 DEF FieldValues
  <2>2. {MapFix[v] : v \in FieldValues(o)} = {MapFix[o.contents[i]] : i \in Fields(o)}
    BY DEF FieldValues
  <2>3. QED
    BY <1>14, <2>1, <2>2
<1>16. ASSUME o.type = "STRING", NEW i \in 1..o.len
       PROVE  members[i] \in Chars
  <2>1. i \in DOMAIN o.contents /\ i \notin PtrFields(o)
    BY <1>10, <1>16 DEF NMembers, PtrFields, Fields
  <2>2. members[i] = o.contents[i]
    BY <1>11, <2>1
  <2>3. QED
    BY <1>1, <1>2, <1>16, <2>2 DEF ObjSound
<1>17. /\ DOMAIN members = DOMAIN o.contents
       /\ \A i \in DOMAIN o.contents :
            members[i] = IF i \in Fields(o) THEN MapFix[o.contents[i]] ELSE o.contents[i]
  <2>1. PtrFields(o) \subseteq Fields(o)
    BY DEF PtrFields
  <2>2. QED
    BY <1>11, <1>14, <2>1
<1>18. QED
  BY <1>2, <1>9, <1>12, <1>13, <1>15, <1>16, <1>17

\* What a root refers to it will refer to.
LEMMA MappedRefers ==
  ASSUME IInv, CInv, NEW b, NEW s, MappedTo(b, s), NEW v \in Roots
  PROVE  /\ RefersToString(v) => RefersToString(v)'
         /\ \A n : RefersToSized(v, n) => RefersToSized(v, n)'
<1>1. ~ Compacting /\ pc' = "update"
  BY DEF MappedTo, Compacting
<1>2. v \in Word /\ Clean(v, Marked)
  BY MappedWithin DEF Within, MappedTo
<1>3. ASSUME IsAddress(v)
      PROVE  /\ Header(v) \in Marked /\ IsAddress(Coming(v)')
             /\ Header(Coming(v)') = obj[Header(v)].fwd + s
  <2>1. Header(v) \in Marked
    BY <1>2, <1>3 DEF Clean
  <2>2. MapFix[v] = Coming(v)'
    BY <1>1, <1>2 DEF MapFix, Coming
  <2>3. IsAddress(MapFix[v]) /\ Header(MapFix[v]) = MapPlace(s)[Header(v)]
    BY <1>2, <1>3, MappedWords DEF Renames
  <2>4. QED
    BY <2>1, <2>2, <2>3 DEF MapPlace
<1>4. ASSUME IsAddress(v)
      PROVE  /\ Image(Header(v) + s)' \in Memory'
             /\ Image(Header(v) + s)'.at = Header(Coming(v)')
             /\ Image(Header(v) + s)'.type = obj[Header(v)].type
             /\ Words(Image(Header(v) + s)') = Words(obj[Header(v)])
  <2>1. PICK h \in Marked : h = Header(v)
    BY <1>3, <1>4
  <2>2. /\ Image(h + s)' \in Memory' /\ Image(h + s)'.at = obj[h].fwd + s
        /\ Image(h + s)'.type = obj[h].type /\ Words(Image(h + s)') = Words(obj[h])
    BY MappedImage
  <2>3. QED
    BY <1>3, <1>4, <2>1, <2>2
<1>5. RefersToString(v) => RefersToString(v)'
  <2>1. SUFFICES ASSUME RefersToString(v)
                 PROVE  RefersToString(v)'
    OBVIOUS
  <2>2. IsAddress(v) /\ obj[Header(v)].type = "STRING"
    BY <1>1, <2>1, RefersHere DEF ReferredHere
  <2>3. IsAddress(Coming(v)') /\ \E c \in Memory' : c.at = Header(Coming(v)') /\ c.type = "STRING"
    BY <1>3, <1>4, <2>2
  <2>4. QED
    BY <2>3 DEF RefersToString
<1>6. ASSUME NEW n, RefersToSized(v, n)
      PROVE  RefersToSized(v, n)'
  <2>1. IsAddress(v) /\ Words(obj[Header(v)]) = n
    BY <1>1, <1>6, RefersHere DEF ReferredHere
  <2>2. IsAddress(Coming(v)') /\ \E c \in Memory' : c.at = Header(Coming(v)') /\ Words(c) = n
    BY <1>3, <1>4, <2>1
  <2>3. QED
    BY <2>2 DEF RefersToSized
<1>7. QED
  BY <1>5, <1>6

\* What a function knows about its operands stays true.
LEMMA MappedCall ==
  ASSUME IInv, CInv, NEW b, NEW s, MappedTo(b, s)
  PROVE  CallSound'
<1>1. Alive /\ Alive' /\ pc # "mutator" /\ CallSound /\ UNCHANGED <<stack, extra, cvar, op, need>>
  BY DEF MappedTo, Alive, CInv
<1>2. /\ stack \in Seq(Word) /\ SP \in Nat /\ DOMAIN stack = 1..SP
      /\ OperandsOf(op) <= SP /\ extra = RootsOf(op, SP) /\ OperandsOf(op) \in Int
      /\ SP' = SP
  BY <1>1, LenProperties
     DEF IInv, TypeOK, GcTypeOK, SP, ExtraRootsBalanced, Alive, OperandsOf, Calls
<1>3. OperandsOf(op) >= 1 => Arg(0) \in Roots /\ Arg(0)' = Arg(0)
  BY <1>1, <1>2 DEF Arg, Roots
<1>4. OperandsOf(op) >= 2 => Arg(1) \in Roots /\ Arg(1)' = Arg(1)
  BY <1>1, <1>2 DEF Arg, Roots
<1>5. op.fn = "LcloneString" => cvar \in Roots
  <2>1. SUFFICES ASSUME op.fn = "LcloneString"
                 PROVE  cvar \in Roots
    OBVIOUS
  <2>2. extra = <<SP, CLocal>>
    BY <1>2, <2>1 DEF RootsOf
  <2>3. 2 \in DOMAIN extra /\ extra[2] = CLocal
    BY <2>2
  <2>4. QED
    BY <2>3 DEF Roots
<1>6. ASSUME OperandsOf(op) >= 1
      PROVE  /\ RefersToString(Arg(0)) => RefersToString(Arg(0))'
             /\ RefersToSized(Arg(0), need) => RefersToSized(Arg(0), need)'
  <2>1. PICK v \in Roots : v = Arg(0) /\ Arg(0)' = v
    BY <1>3, <1>6
  <2>2. /\ RefersToString(v) => RefersToString(v)'
        /\ \A n : RefersToSized(v, n) => RefersToSized(v, n)'
    BY MappedRefers
  <2>3. RefersToString(Arg(0)) => RefersToString(Arg(0))'
    BY <2>1, <2>2 DEF RefersToString
  <2>4. RefersToSized(Arg(0), need) => RefersToSized(Arg(0), need)'
    <3>1. PICK n : n = need /\ n = need'
      BY <1>1
    <3>2. RefersToSized(v, n) => RefersToSized(v, n)'
      BY <2>2
    <3>3. QED
      BY <2>1, <3>1, <3>2 DEF RefersToSized
  <2>5. QED
    BY <2>3, <2>4
<1>7. ASSUME OperandsOf(op) >= 2
      PROVE  RefersToString(Arg(1)) => RefersToString(Arg(1))'
  <2>1. PICK v \in Roots : v = Arg(1) /\ Arg(1)' = v
    BY <1>4, <1>7
  <2>2. RefersToString(v) => RefersToString(v)'
    BY MappedRefers
  <2>3. QED
    BY <2>1, <2>2 DEF RefersToString
<1>8. ASSUME op.fn = "LcloneString"
      PROVE  RefersToString(cvar) => RefersToString(cvar)'
  <2>1. PICK v \in Roots : v = cvar /\ cvar' = v
    BY <1>1, <1>5, <1>8
  <2>2. RefersToString(v) => RefersToString(v)'
    BY MappedRefers
  <2>3. QED
    BY <2>1, <2>2 DEF RefersToString
<1>9. op.fn \in {"Lsubstring", "Li__Infix_4343", "Lclone"} => OperandsOf(op) >= 1
  BY DEF OperandsOf
<1>10. op.fn = "Li__Infix_4343" => OperandsOf(op) >= 2
  BY DEF OperandsOf
<1>11. QED
  BY <1>1, <1>6, <1>7, <1>8, <1>9, <1>10 DEF CallSound

\* mmap and memcpy.
LEMMA MapChunkSound ==
  ASSUME IInv, CInv, MapChunk
  PROVE  CInv'
<1>1. PICK b \in Bases : MappedTo(b, b - heap.begin)
  BY MapChunkIs
<1>2. PICK s : s = b - heap.begin
  OBVIOUS
<1>3. MappedTo(b, s)
  BY <1>1, <1>2
<1>4. /\ pc = "locate" /\ pc' = "update" /\ Alive' /\ Compacting' /\ ~ Compacting
      /\ heap'.begin = b /\ heap'.current = heap.current + s
      /\ free' = free + s /\ iter' = b
      /\ UNCHANGED <<stack, extra, cvar, op, need>>
  BY <1>3 DEF MappedTo, Alive, Compacting
<1>5. /\ s \in Int /\ b \in Int /\ b = heap.begin + s
      /\ DOMAIN obj' = {h + s : h \in DOMAIN obj}
      /\ Marked' = {h + s : h \in Marked} /\ Flagged' = {}
      /\ IsFiniteSet(DOMAIN obj')
  BY <1>3, MappedObjects
<1>6. \A h \in DOMAIN obj : h + s \in DOMAIN obj' /\ obj'[h + s] = obj[h]
                            /\ Target(h + s)' = obj[h].fwd + s
  BY <1>3, MappedObjects
<1>7. /\ ObjSound(obj, heap.begin, heap.current, Roots) /\ heap.current \in Int
      /\ DOMAIN obj \subseteq Int /\ heap.begin \in Int
      /\ \A h \in DOMAIN obj : Words(obj[h]) \in Nat
  BY <1>4, MarkFacts
<1> DEFINE fixed == {MapFix[v] : v \in Roots}
<1>8. Memory' = {MapImage(s)[h] : h \in Marked}
  <2>1. Memory' = {Image(a)' : a \in Marked'}
    BY <1>4 DEF Memory, Live
  <2>2. \A h \in Marked : MapImage(s)[h] = Image(h + s)'
    BY DEF MapImage
  <2>3. QED
    BY <1>5, <2>1, <2>2
<1>9. ComingRoots' = fixed
  <2>1. Roots' = Roots /\ \A v : Coming(v)' = Fix(v)'
    BY <1>4 DEF Roots, Coming
  <2>2. \A v \in Roots : MapFix[v] = Fix(v)'
    BY <1>4, MappedWithin DEF Within, MapFix
  <2>3. ComingRoots' = {Fix(v)' : v \in Roots}
    BY <2>1 DEF ComingRoots
  <2>4. QED
    BY <2>2, <2>3
<1>10. Depicted(obj, Marked, MapPlace(s), MapFix, MapImage(s))
  <2>1. ASSUME NEW h \in Marked
        PROVE  /\ MapImage(s)[h].at = MapPlace(s)[h]
               /\ MapImage(s)[h].type = obj[h].type /\ MapImage(s)[h].len = obj[h].len
               /\ Words(MapImage(s)[h]) = Words(obj[h])
               /\ FieldValues(MapImage(s)[h]) = {MapFix[v] : v \in FieldValues(obj[h])}
               /\ obj[h].type = "STRING" =>
                    \A i \in 1..obj[h].len : MapImage(s)[h].contents[i] \in Chars
    <3>1. MapImage(s)[h] = Image(h + s)' /\ MapPlace(s)[h] = obj[h].fwd + s
      BY DEF MapImage, MapPlace
    <3>2. QED
      BY <1>3, <3>1, MappedImage
  <2>2. QED
    BY <2>1 DEF Depicted
<1>11. /\ Placed(obj, Marked, MapPlace(s), b, free + s) /\ Renames(MapFix, Marked, MapPlace(s))
       /\ Within(obj, Marked, Roots)
  BY <1>3, <1>4, MappedPlaces, MappedWords, MappedWithin
<1>12. Sound(Memory', b, free + s, fixed)
  BY <1>8, <1>10, <1>11, RenamedSound
<1>13. Minimal(Memory', fixed)
  <2>1. \A S \in SUBSET Marked :
          Named(Roots) \subseteq S /\ (\A h \in S : Kids(obj[h]) \subseteq S) => S = Marked
    <3>1. \A S \in SUBSET DOMAIN obj : ClosedIn(S) => Marked \subseteq S
      BY <1>4 DEF CInv, Locating
    <3>2. QED
      BY <3>1 DEF ClosedIn, Marked
  <2>2. QED
    BY <1>8, <1>10, <1>11, <2>1, RenamedMinimal
<1> HIDE DEF fixed
<1>14. HeapSound'
  BY <1>4, <1>5, <1>9, <1>12 DEF HeapSound, Limit
<1>15. Collected'
  BY <1>9, <1>13 DEF Collected
<1>16. CallSound'
  BY <1>3, MappedCall
<1>17. Bits' /\ Marking' /\ Queue' /\ Locating'
  BY <1>4, <1>5 DEF Bits, Marking, Queue, Locating
<1>18. Compaction'
  <2>1. ASSUME NEW a \in DOMAIN obj'
        PROVE  /\ b <= a /\ a < heap.current + s
               /\ a + Words(obj'[a]) \in DOMAIN obj' \cup {heap.current + s}
               /\ \A c \in DOMAIN obj' \cup {heap.current + s} : c > a => c >= a + Words(obj'[a])
    <3>1. PICK h \in DOMAIN obj : a = h + s
      BY <1>5
    <3>2. obj'[a] = obj[h] /\ h \in Int /\ Words(obj[h]) \in Nat
      BY <1>6, <1>7, <3>1
    <3>3. /\ heap.begin <= h /\ h < heap.current
          /\ h + Words(obj[h]) \in DOMAIN obj \cup {heap.current}
          /\ \A c \in DOMAIN obj \cup {heap.current} : c > h => c >= h + Words(obj[h])
      BY <1>7 DEF ObjSound
    <3>4. a + Words(obj[h]) \in DOMAIN obj' \cup {heap.current + s}
      <4>1. a + Words(obj[h]) = h + Words(obj[h]) + s
        BY <1>5, <3>1, <3>2
      <4>2. QED
        BY <1>5, <3>3, <4>1
    <3>5. ASSUME NEW c \in DOMAIN obj' \cup {heap.current + s}, c > a
          PROVE  c >= a + Words(obj[h])
      <4>1. PICK d \in DOMAIN obj \cup {heap.current} : c = d + s
        BY <1>5
      <4>2. d \in Int
        BY <1>7
      <4>3. d > h
        BY <1>5, <3>1, <3>2, <3>5, <4>1, <4>2
      <4>4. d >= h + Words(obj[h])
        BY <3>3, <4>3
      <4>5. QED
        BY <1>5, <3>1, <3>2, <4>1, <4>2, <4>4
    <3>6. QED
      BY <1>5, <1>7, <3>1, <3>2, <3>3, <3>4, <3>5
  <2>2. b \in DOMAIN obj' \cup {heap.current + s}
    <3>1. heap.begin \in DOMAIN obj \cup {heap.current}
      BY <1>7 DEF ObjSound
    <3>2. QED
      BY <1>5, <3>1
  <2>3. TiledFrom(iter)' /\ TiledFrom(heap.begin)'
    BY <1>4, <2>1, <2>2 DEF TiledFrom
  <2>4. ASSUME NEW a \in Marked'
        PROVE  /\ Target(a)' <= a
               /\ \A c \in Marked' : c > a => Target(c)' >= Target(a)' + Words(obj'[a])
    <3>1. PICK h \in Marked : a = h + s
      BY <1>5
    <3>2. /\ obj'[a] = obj[h] /\ Target(a)' = obj[h].fwd + s /\ h \in Int
          /\ obj[h].fwd \in Int /\ obj[h].fwd <= h /\ Words(obj[h]) \in Nat
          /\ \A g \in Marked : g > h => obj[g].fwd >= obj[h].fwd + Words(obj[h])
      <4>1. h \in DOMAIN obj
        BY DEF Marked
      <4>2. Target(h + s)' = obj[h].fwd + s
        BY <1>6, <4>1
      <4>3. Target(a)' = Target(h + s)'
        BY <3>1 DEF Target, At
      <4>4. QED
        BY <1>3, <1>6, <1>7, <3>1, <4>1, <4>2, <4>3, AllPassed DEF MappedTo
    <3>3. ASSUME NEW c \in Marked', c > a
          PROVE  Target(c)' >= Target(a)' + Words(obj'[a])
      <4>1. PICK g \in Marked : c = g + s
        BY <1>5
      <4>2. g \in DOMAIN obj /\ g \in Int
        BY <1>7 DEF Marked
      <4>3. Target(c)' = obj[g].fwd + s
        <5>1. Target(g + s)' = obj[g].fwd + s
          BY <1>6, <4>2
        <5>2. Target(c)' = Target(g + s)'
          BY <4>1 DEF Target, At
        <5>3. QED
          BY <5>1, <5>2
      <4>4. g > h
        BY <1>5, <3>1, <3>2, <3>3, <4>1, <4>2
      <4>5. obj[g].fwd >= obj[h].fwd + Words(obj[h]) /\ obj[g].fwd \in Int
        BY <1>3, <3>2, <4>4, AllPassed DEF MappedTo
      <4>6. QED
        BY <1>5, <3>2, <4>3, <4>5
    <3>4. Target(a)' <= a
      BY <1>5, <3>1, <3>2
    <3>5. QED
      BY <3>3, <3>4
  <2>5. QED
    BY <1>4, <2>1, <2>3, <2>4 DEF Compaction
<1>19. QED
  BY <1>14, <1>15, <1>16, <1>17, <1>18 DEF CInv

\* The compact phase keeps the invariant.
LEMMA CompactSteps ==
  ASSUME IInv, CInv, CompactStep
  PROVE  CInv'
BY LocateSound, MapChunkSound, MapFailsSound, UpdateObjectSound, FixRootsSound,
   RelocateLiveSound, RelocateDeadSound, ShrinkSound DEF CompactStep

-----------------------------------------------------------------------------
(* The invariant, and what follows from it.                                *)

\* Where nothing changes.
LEMMA StutterSound ==
  ASSUME CInv, UNCHANGED vars
  PROVE  CInv'
<1>1. UNCHANGED <<heap, old, obj, stack, extra, cvar, op, need, ids, pc,
                  root, head, tail, cur, todo, iter, free>>
  BY DEF vars, store, caller, regs
<1>2. /\ Compacting' = Compacting /\ Alive' = Alive /\ Marked' = Marked /\ Flagged' = Flagged
      /\ Gray' = Gray /\ Roots' = Roots /\ NRoots' = NRoots /\ Cells' = Cells
      /\ Passed' = Passed
      /\ \A h : Target(h)' = Target(h)
      /\ \A n : RootValue(n)' = RootValue(n)
  BY <1>1 DEF Compacting, Alive, Marked, Flagged, Gray, Roots, NRoots, Cells, Passed,
              Target, At, RootValue, Deref
<1>3. \A v : Fix(v)' = Fix(v)
  BY <1>1, <1>2 DEF Fix, InOld, Moved
<1>4. \A o : Updated(o)' = Updated(o)
  BY <1>3 DEF Updated
<1>5. \A v : Coming(v)' = Coming(v)
  BY <1>1, <1>3 DEF Coming
<1>6. Settled' = Settled /\ Limit' = Limit
  BY <1>1, <1>2 DEF Settled, Limit, NewHeader
<1>7. Live' = Live /\ ComingRoots' = ComingRoots
  BY <1>1, <1>2, <1>5, <1>6 DEF Live, ComingRoots
<1>8. \A h : Image(h)' = Image(h)
  BY <1>1, <1>2, <1>4 DEF Image, Place, ComingContents
<1>9. Memory' = Memory
  BY <1>7, <1>8 DEF Memory
<1>10. HeapSound'
  BY <1>1, <1>2, <1>6, <1>7, <1>9 DEF HeapSound, CInv
<1>11. CallSound'
  <2>1. Arg(0)' = Arg(0) /\ Arg(1)' = Arg(1)
    BY <1>1 DEF Arg, SP
  <2>2. /\ Coming(Arg(0))' = Coming(Arg(0)) /\ Coming(Arg(1))' = Coming(Arg(1))
        /\ Coming(cvar)' = Coming(cvar)
    BY <1>1, <1>2, <2>1 DEF Coming, Fix, InOld, Moved, Target, At
  <2>3. CASE Alive /\ pc # "mutator"
    BY <1>1, <1>9, <2>2, <2>3, CallKept DEF CInv
  <2>4. CASE ~ (Alive /\ pc # "mutator")
    BY <1>1, <1>2, <2>4 DEF CallSound
  <2>5. QED
    BY <2>3, <2>4
<1>12. Bits' /\ Marking' /\ Queue' /\ Locating'
  <2>1. \A S : ClosedIn(S)' <=> ClosedIn(S)
    BY <1>1, <1>2 DEF ClosedIn
  <2>2. QED
    BY <1>1, <1>2, <2>1 DEF CInv, Bits, Marking, Queue, Locating, ClosedIn
<1>13. Compaction' /\ Collected'
  BY <1>1, <1>2, <1>7, <1>9 DEF CInv, Compaction, TiledFrom, Collected
<1>14. QED
  BY <1>10, <1>11, <1>12, <1>13 DEF CInv

\* Every step keeps the invariant.
LEMMA CInvNext ==
  ASSUME IInv, CInv, [Next]_vars
  PROVE  CInv'
<1>1. IInv'
  BY IInvNext
<1>2. CASE MutatorStep
  BY <1>1, <1>2, MutatorSteps
<1>3. CASE GcStep
  BY <1>3, AllocSound, MarkSteps, CompactSteps DEF GcStep
<1>4. CASE UNCHANGED vars
  BY <1>4, StutterSound
<1>5. QED
  BY <1>2, <1>3, <1>4 DEF Next

\* What holds of the heap, the roots and the collector's registers at every
\* step of the program and of gc.c.
THEOREM InvariantHolds == Spec => [](IInv /\ CInv)
<1>1. Init => IInv /\ CInv
  BY IInvInit, CInvInit
<1>2. IInv /\ CInv /\ [Next]_vars => (IInv /\ CInv)'
  BY IInvNext, CInvNext
<1>3. QED
  BY <1>1, <1>2, PTL DEF Spec

-----------------------------------------------------------------------------
(* The properties of Gc, from the invariant.                                *)

\* The words gc.c takes for pointers are those that refer to objects.
LEMMA WordSets ==
  ASSUME IInv, CInv, InPlace, NEW values, values \subseteq Word,
         \A v \in values : Clean(v, DOMAIN obj)
  PROVE  Refs(values) = Named(values) /\ Named(values) \subseteq DOMAIN obj
<1>1. \A v \in values : /\ is_valid_heap_pointer(v) <=> IsAddress(v)
                        /\ IsAddress(v) => Header(v) \in DOMAIN obj
  BY ValidAddress
<1>2. QED
  BY <1>1 DEF Refs, Named

\* The immediates mark() steps over refer to nothing.
LEMMA ChildrenAreKids ==
  ASSUME IInv, CInv, InPlace, NEW h \in DOMAIN obj
  PROVE  Children(h) = Kids(obj[h]) /\ Kids(obj[h]) \subseteq DOMAIN obj
<1> DEFINE all == FieldValues(obj[h])
           ptrs == {obj[h].contents[i] : i \in PtrFields(obj[h])}
<1>1. ObjSound(obj, heap.begin, heap.current, Roots) /\ Objects(obj)
  BY InPlaceFacts
<1>2. \A i \in Fields(obj[h]) : obj[h].contents[i] \in Word
  BY <1>1, FieldMember, MemberWord DEF Objects
<1>3. /\ all \subseteq Word /\ ptrs \subseteq all
      /\ \A v \in all : Clean(v, DOMAIN obj)
      /\ \A v \in all : IsAddress(v) => v \in ptrs
  BY <1>1, <1>2 DEF ObjSound, FieldValues, PtrFields, IsAddress
<1> HIDE DEF all, ptrs
<1>4. Refs(ptrs) = Named(ptrs) /\ Named(all) \subseteq DOMAIN obj
  BY <1>3, WordSets
<1>5. Named(ptrs) = Named(all)
  BY <1>3 DEF Named
<1>6. QED
  BY <1>4, <1>5 DEF Children, Kids, all, ptrs

\* The values mark_phase visits are the roots.
LEMMA RootHeadersNamed ==
  ASSUME IInv, CInv, InPlace
  PROVE  RootHeaders = Named(Roots) /\ Named(Roots) \subseteq DOMAIN obj
<1>1. Roots \subseteq Word
  BY RootValues, RootWord
<1>2. \A v \in Roots : Clean(v, DOMAIN obj)
  BY InPlaceFacts DEF ObjSound
<1>3. QED
  BY <1>1, <1>2, WordSets, RootValues DEF RootHeaders

\* So the sets Gc calls closed are those of the invariant.
LEMMA ClosedSets ==
  ASSUME IInv, CInv, InPlace, NEW S \in SUBSET DOMAIN obj
  PROVE  Closed(S) <=> ClosedIn(S)
BY ChildrenAreKids, RootHeadersNamed DEF Closed, ClosedIn

\* Every word that passes is_valid_heap_pointer (gc.c:501) means an object.
LEMMA ReferencesFact == IInv /\ CInv => ReferencesResolve
<1> SUFFICES ASSUME IInv, CInv, Stopped \/ pc \in {"roots", "queue", "fields", "retry"}
             PROVE  /\ RootHeaders \subseteq DOMAIN obj
                    /\ \A h \in DOMAIN obj : Children(h) \subseteq DOMAIN obj
  BY DEF ReferencesResolve
<1>1. InPlace
  BY DEF InPlace, Stopped
<1>2. QED
  BY <1>1, ChildrenAreKids, RootHeadersNamed

\* heap_next_obj_iterator (gc.c:743) goes from object to object.
LEMMA TiledFact == IInv /\ CInv => HeapTiled
<1> SUFFICES ASSUME IInv, CInv,
                    Stopped \/ pc \in {"roots", "queue", "fields", "locate", "update", "retry"}
             PROVE  HeapTiled
  BY DEF HeapTiled
<1>1. CASE InPlace
  <2>1. /\ ObjSound(obj, heap.begin, heap.current, Roots)
        /\ heap.current \in Int /\ DOMAIN obj \subseteq Int
    BY <1>1, InPlaceFacts
  <2>2. QED
    BY <2>1 DEF HeapTiled, ObjSound
<1>2. CASE pc = "update"
  <2>1. TiledFrom(heap.begin) /\ \A h \in DOMAIN obj : heap.begin <= h
    BY <1>2 DEF CInv, Compaction, Compacting
  <2>2. QED
    BY <2>1 DEF HeapTiled, TiledFrom
<1>3. QED
  BY <1>1, <1>2 DEF InPlace, Stopped

\* No bit of a forward_address word is set between collections.
LEMMA BitsFact == IInv /\ CInv => BitsClear
BY DEF CInv, Bits, BitsClear, Stopped, Alive

\* Different cells lend their words to different objects.
LEMMA QueueFact == IInv /\ CInv => QueueHoldsUnmarkedOnce
<1> SUFFICES ASSUME IInv, CInv, pc \in {"queue", "fields"}
             PROVE  /\ tail <= heap.current
                    /\ {Header(obj[h].fwd) : h \in Cells} = Flagged
                    /\ Cardinality(Cells) = Cardinality(Flagged)
                    /\ Flagged \cap Marked = {}
  BY DEF QueueHoldsUnmarkedOnce, Cells
<1>1. /\ tail \in DOMAIN obj \cup {heap.current}
      /\ {Header(obj[h].fwd) : h \in Cells} = Flagged
      /\ \A g, h \in Cells : Header(obj[g].fwd) = Header(obj[h].fwd) => g = h
      /\ Flagged \cap Marked = {}
  BY DEF CInv, Queue
<1>2. InPlace
  BY DEF InPlace
<1>3. tail <= heap.current
  <2>1. /\ ObjSound(obj, heap.begin, heap.current, Roots)
        /\ heap.current \in Int /\ DOMAIN obj \subseteq Int
    BY <1>2, InPlaceFacts
  <2>2. QED
    BY <1>1, <2>1 DEF ObjSound
<1>4. IsFiniteSet(Cells)
  BY <1>2, InPlaceFacts, FS_Subset DEF Cells
<1>5. Cardinality(Cells) = Cardinality(Flagged)
  <2> DEFINE f == [h \in Cells |-> Header(obj[h].fwd)]
  <2>1. f \in Bijection(Cells, Flagged)
    BY <1>1 DEF Bijection, Injection, Surjection, IsInjective
  <2>2. QED
    BY <1>4, <2>1, FS_Bijection DEF ExistsBijection
<1>6. QED
  BY <1>1, <1>3, <1>5

\* The least closed set is what is reachable.
LEMMA MarkedFact == IInv /\ CInv => MarkedIsReachable
<1> SUFFICES ASSUME IInv, CInv, pc = "locate"
             PROVE  Marked = Reachable
  BY DEF MarkedIsReachable
<1>1. ClosedIn(Marked) /\ \A S \in SUBSET DOMAIN obj : ClosedIn(S) => Marked \subseteq S
  BY DEF CInv, Locating
<1>2. \A S \in SUBSET DOMAIN obj : Closed(S) <=> ClosedIn(S)
  BY ClosedSets DEF InPlace
<1>3. Marked \in SUBSET DOMAIN obj
  BY DEF Marked
<1>4. QED
  BY <1>1, <1>2, <1>3 DEF Reachable

\* What the compaction leaves is the least closed set of the new heap.
LEMMA SurviveFact == IInv /\ CInv => OnlyReachableSurvive
<1> SUFFICES ASSUME IInv, CInv, pc = "retry"
             PROVE  DOMAIN obj = Reachable
  BY DEF OnlyReachableSurvive
<1>1. InPlace /\ ~ Compacting
  BY DEF InPlace, Compacting
<1>2. Starts(Memory) = DOMAIN obj /\ ComingRoots = Roots
  BY <1>1, StartsHere, RootsHere
<1>3. Minimal(Memory, Roots)
  BY <1>2 DEF CInv, Collected
<1>4. ASSUME NEW S \in SUBSET DOMAIN obj, ClosedIn(S)
      PROVE  S = DOMAIN obj
  <2>1. ASSUME NEW c \in Memory, c.at \in S
        PROVE  Kids(c) \subseteq S
    <3>1. PICK h \in DOMAIN obj : c = Image(h)
      BY <1>1, ImageHere DEF Memory
    <3>2. c.at = h /\ Kids(c) = Kids(obj[h])
      BY <1>1, <3>1, ImageHere DEF Kids
    <3>3. QED
      BY <1>4, <2>1, <3>2 DEF ClosedIn
  <2>2. QED
    BY <1>2, <1>3, <1>4, <2>1 DEF Minimal, ClosedIn
<1>5. QED
  BY <1>1, <1>4, ClosedSets DEF Reachable

\* A step that moves an object leaves those behind it alone.
LEMMA SlidingFact ==
  ASSUME IInv, CInv, [Next]_vars, pc = "relocate", pc' = "relocate"
  PROVE  \A h \in Marked : h > iter => h \in DOMAIN obj' /\ obj'[h] = obj[h]
<1>1. CASE UNCHANGED obj
  BY <1>1 DEF Marked
<1>2. CASE Relocate /\ iter \in Marked
  <2> DEFINE t == Target(iter)
             w == Words(obj[iter])
             over == Overwritten(t, w)
  <2>1. iter < heap.current /\ obj' = MovedTo(iter, t) /\ iter \in DOMAIN obj
    BY <1>2 DEF Relocate, Marked, At
  <2>2. Objects(obj) /\ DOMAIN obj \subseteq Int /\ iter \in Int
    BY ObjType DEF IInv, TypeOK, GcTypeOK
  <2>3. MovedIn(obj, obj', iter, t, over)
    BY <2>1, <2>2, MovedEffect
  <2>4. /\ t \in Int /\ t <= iter
        /\ \A h \in DOMAIN obj : h > iter => h \notin over
    BY <1>2, <2>1, MoveFacts
  <2> HIDE DEF t, w, over
  <2>5. ASSUME NEW h \in Marked, h > iter
        PROVE  h \in DOMAIN obj' /\ obj'[h] = obj[h]
    <3>1. h \in DOMAIN obj /\ h \in Int /\ h # iter /\ h # t /\ h \notin over
      BY <2>2, <2>4, <2>5 DEF Marked
    <3>2. QED
      BY <2>3, <3>1 DEF MovedIn
  <2>6. QED
    BY <2>5
<1>3. CASE Relocate /\ iter \notin Marked
  <2>1. ~ At(iter).mark
    BY <1>3 DEF At, NoObject, Marked
  <2>2. QED
    BY <1>1, <1>3, <2>1 DEF Relocate
<1>4. Relocate \/ UNCHANGED obj
  <2>1. CASE MutatorStep
    BY <2>1 DEF MutatorStep, Const, Load, Store, Drop, Elem, Sta, CanAlloc, Mutator,
       BeginArray, BeginSexp, BeginClosure, BeginString, BeginLstring, BeginClone,
       BeginCloneString, BeginMakeArray, BeginSubstring, BeginConcat, Finish,
       FinishArray, FinishSexp, FinishClosure, FinishString, FinishLstring, FinishClone,
       FinishCloneString, FinishMakeArray, FinishSubstring, FinishConcat
  <2>2. CASE AllocStep \/ MarkStep
    BY <2>2 DEF AllocStep, AllocOnHeap, StartGc, Retry, MarkStep, SkipRoot, MarkRoot,
       Dequeue, ScanField, FieldsDone, MarkReturn, MarkDone
  <2>3. CASE CompactStep
    BY <2>3 DEF CompactStep, Locate, MapChunk, MapFails, UpdateObject, FixRoots, Shrink
  <2>4. CASE UNCHANGED vars
    BY <2>4 DEF vars, store
  <2>5. QED
    BY <2>1, <2>2, <2>3, <2>4 DEF Next, GcStep
<1>5. QED
  BY <1>1, <1>2, <1>3, <1>4

\* gc.c never takes a number for a pointer to where no object is: roots and
\* members that look like heap pointers (gc.c:501) name objects, when mark() and
\* the program follow them.
THEOREM ReferencesAlwaysResolve == Spec => []ReferencesResolve
BY InvariantHolds, ReferencesFact, PTL

\* The walks of gc.c over the heap (gc.c:743) meet every object and nothing else,
\* whatever was allocated, marked, copied and moved before.
THEOREM HeapAlwaysTiled == Spec => []HeapTiled
BY InvariantHolds, TiledFact, PTL

\* A collection, with all its steps, gives back the mark and enqueued bits it has
\* set (gc.c:487-497, 515-540), Lclone's copies of headers included.
THEOREM BitsAlwaysClear == Spec => []BitsClear
BY InvariantHolds, BitsFact, PTL

\* The comment of mark() (gc.c:534): its queue, kept in the forward addresses of
\* objects it may not have visited, holds unmarked objects, each once, and its
\* tail never leaves the heap.
THEOREM QueueAlwaysInOrder == Spec => []QueueHoldsUnmarkedOnce
BY InvariantHolds, QueueFact, PTL

\* mark_phase (gc.c:249) marks what the roots reach, and nothing else.
THEOREM MarksTheReachable == Spec => []MarkedIsReachable
BY InvariantHolds, MarkedFact, PTL

\* After compact_phase (gc.c:276) the heap has the reachable objects and no
\* others, however they were placed before.
THEOREM KeepsTheReachable == Spec => []OnlyReachableSurvive
BY InvariantHolds, SurviveFact, PTL

\* No memmove of physically_relocate (gc.c:491) touches a live object that has
\* yet to move.
THEOREM SlidesWithoutDamage == Spec => SlidingSparesTheRest
<1>1. IInv /\ CInv /\ [Next]_vars =>
        [pc = "relocate" /\ pc' = "relocate" =>
           \A h \in Marked : h > iter => h \in DOMAIN obj' /\ obj'[h] = obj[h]]_vars
  BY SlidingFact
<1>2. QED
  BY <1>1, InvariantHolds, PTL DEF Spec, SlidingSparesTheRest

=============================================================================
