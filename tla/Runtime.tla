------------------------------- MODULE Runtime -------------------------------
(***************************************************************************)
(* The functions of runtime.c that build and use Lama values, called by    *)
(* the interpreter of main.c with the operand stack as their argument      *)
(* vector.  A function that allocates is two actions: one up to its call   *)
(* of alloc, one from its return on, with the collector of Gc in between.  *)
(***************************************************************************)
EXTENDS Gc

CONSTANTS
  NGlobals,           \* global_area_size of the bytecode file
  Code,               \* code offsets, the first word of a closure
  UNBOX(_),           \* the integer an immediate stands for
  Texts,              \* strings the program writes down or prints
  ArraySizes, SexpSizes, ClosureSizes,    \* numbers of operands
  Library,            \* functions of the library the program calls
  MaxStack, MaxAllocs                     \* bounds of the model

ASSUME NGlobalsAssumption == NGlobals \in Nat
ASSUME CodeAssumption == Code \subseteq Nat
\* mmap places no chunk at address 0 or at an offset into a file of code.
ASSUME PlacesAssumption == \A b \in Bases : b > 0 /\ \A c \in Code : b > c
ASSUME UnboxAssumption == \A v \in Imm : UNBOX(v) \in Int
ASSUME TextsAssumption == Texts \subseteq Seq(Imm)
ASSUME SizesAssumption ==
  ArraySizes \subseteq Nat /\ SexpSizes \subseteq Nat /\ ClosureSizes \subseteq Nat

\* A call: the function, and what it has in C variables across alloc, a
\* number, a text in a C buffer and a position.
CallAt(fn, n, text, from) == [fn |-> fn, n |-> n, text |-> text, from |-> from]
Call(fn, n, text) == CallAt(fn, n, text, 0)
NoOp == Call("none", 0, <<>>)

Fns == {"none", "Barray", "Bsexp", "Bclosure", "Bstring", "Lstring",
        "Lclone", "LcloneString", "LmakeArray", "Lsubstring", "Li__Infix_4343"}
Calls == [fn : Fns, n : Nat, text : Seq(Word), from : Nat]

\* Words that stand for no object: 0 is also an uninitialised global.
Foreign == 0

\* The globals lie at the bottom of the stack and start as zeros.
Init == GcInit([k \in 1..NGlobals |-> Foreign]) /\ op = NoOp

-----------------------------------------------------------------------------
(* The operand stack, and an access to an object through its contents.      *)

SP == Len(stack)                          \* the top slot
Arg(i) == stack[SP - i]                   \* args[i] of SP_ptr()
Dropped(n) == SubSeq(stack, 1, SP - n)
Pushed(s, v) == Append(s, v)

IsRef(v) == ~ UNBOXED(v) /\ Header(v) \in DOMAIN obj
Container(v) == At(Header(v))

Mutator == pc = "mutator"
MutatorLeaves == UNCHANGED <<heap, old, extra, cvar, need, ids, pc, regs, op>>

Const ==
  /\ Mutator /\ SP < MaxStack
  /\ \E v \in Imm : stack' = Pushed(stack, v)
  /\ UNCHANGED obj /\ MutatorLeaves

\* LD of a global, a local or an argument, and DUP: a copy of a slot.
Load ==
  /\ Mutator /\ SP < MaxStack
  /\ \E k \in 1..SP : stack' = Pushed(stack, stack[k])
  /\ UNCHANGED obj /\ MutatorLeaves

\* ST to a global, a local or an argument keeps its operand.
Store ==
  /\ Mutator
  /\ \E k \in 1..SP : stack' = [stack EXCEPT ![k] = stack[SP]]
  /\ UNCHANGED obj /\ MutatorLeaves

Drop ==
  /\ Mutator /\ SP > NGlobals
  /\ stack' = Dropped(1)
  /\ UNCHANGED obj /\ MutatorLeaves

\* ELEM: the index is on top of the container; a string yields a character.
\* The program keeps the index within the object, Belem does not look.
Elem ==
  /\ Mutator /\ SP >= NGlobals + 2
  /\ UNBOXED(Arg(0)) /\ IsRef(Arg(1))
  /\ LET o == Container(Arg(1))
     IN  \E i \in Fields(o) \cup (IF o.type = "STRING" THEN 1..o.len ELSE {}) :
           stack' = Pushed(Dropped(2), o.contents[i])
  /\ UNCHANGED obj /\ MutatorLeaves

\* STA: the value is on top of an index and a container.  Bsta returns the
\* value, and the interpreter boxes it once more as the result.
Sta ==
  /\ Mutator /\ SP >= NGlobals + 3
  /\ UNBOXED(Arg(1)) /\ IsRef(Arg(2))
  /\ LET h == Header(Arg(2))
         o == Container(Arg(2))
     IN  IF o.type = "STRING"
         THEN \E i \in 1..o.len, c \in Imm : obj' = [obj EXCEPT ![h].contents[i] = c]
         ELSE \E i \in Fields(o) : obj' = [obj EXCEPT ![h].contents[i] = Arg(0)]
  /\ \E boxed \in Imm : stack' = Pushed(Dropped(3), boxed)
  /\ MutatorLeaves

-----------------------------------------------------------------------------
(* Functions that allocate, up to the call of alloc.  Each registers the    *)
(* locations it reads again afterwards; a full pool ends the program.       *)

Begin(call, locs, words, args, local) ==
  /\ op' = call
  /\ stack' = args
  /\ cvar' = local
  /\ IF CanRegister(locs)
     THEN /\ Register(locs)
          /\ need' = words
          /\ pc' = "alloc"
     ELSE /\ pc' = "exit"
          /\ UNCHANGED <<extra, need>>
  /\ UNCHANGED <<store, ids, regs>>

CanAlloc == Mutator /\ ids < MaxAllocs

\* &args[first] .. &args[first + n - 1], the top of the stack being slot top.
ArgSlots(top, first, n) == [i \in 1..n |-> top - first - i + 1]

BeginArray ==
  /\ CanAlloc
  /\ \E n \in ArraySizes :
       /\ n <= SP - NGlobals
       /\ n = 0 => SP < MaxStack
       /\ Begin(Call("Barray", n, <<>>), ArgSlots(SP, 0, n),
                obj_words("ARRAY", n), stack, cvar)

\* The boxed hash of the tag is pushed and becomes args[0]; the runtime
\* registers args[0] .. args[n-1], one slot short of the last member.
BeginSexp ==
  /\ CanAlloc /\ SP < MaxStack
  /\ \E n \in SexpSizes, tag \in Imm :
       /\ n <= SP - NGlobals
       /\ Begin(Call("Bsexp", n, <<>>), ArgSlots(SP + 1, 0, n),
                obj_words("SEXP", n), Pushed(stack, tag), cvar)

\* The code offset is pushed and becomes args[0].
BeginClosure ==
  /\ CanAlloc /\ SP < MaxStack
  /\ \E n \in ClosureSizes, code \in Code :
       /\ n <= SP - NGlobals
       /\ Begin(Call("Bclosure", n, <<>>), ArgSlots(SP + 1, 1, n),
                obj_words("CLOSURE", n + 1), Pushed(stack, code), cvar)

\* STRING: args is the address of the C variable with the text's address.
BeginString ==
  /\ CanAlloc /\ SP < MaxStack
  /\ \E t \in Texts :
       Begin(Call("Bstring", 0, t), <<CLocal>>, obj_words("STRING", Len(t)),
             stack, Foreign)

\* CALL Lstring: the operand is printed to a C buffer, and the operand and
\* the buffer's address are registered.
BeginLstring ==
  /\ CanAlloc /\ SP > NGlobals /\ SP < MaxStack /\ "Lstring" \in Library
  /\ \E t \in Texts :
       Begin(Call("Lstring", 0, t), <<SP, CLocal>>, obj_words("STRING", Len(t)),
             stack, Foreign)

\* Lclone of anything but a string.
BeginClone ==
  /\ CanAlloc /\ SP > NGlobals /\ IsRef(Arg(0)) /\ "Lclone" \in Library
  /\ Container(Arg(0)).type # "STRING"
  /\ Begin(Call("Lclone", 0, <<>>), <<SP>>, Words(Container(Arg(0))), stack, cvar)

\* Mutant: the local copy is not registered.
BeginCloneStringLocal ==
  /\ CanAlloc /\ SP > NGlobals /\ IsRef(Arg(0)) /\ "Lclone" \in Library
  /\ Container(Arg(0)).type = "STRING"
  /\ LET text == Container(Arg(0)).contents
     IN  Begin(Call("LcloneString", 0, text), <<SP>>,
               obj_words("STRING", Len(text)), stack, Arg(0))

\* Lclone of a string is Bstring with a local copy of args[0].
BeginCloneString ==
  /\ CanAlloc /\ SP > NGlobals /\ IsRef(Arg(0)) /\ "Lclone" \in Library
  /\ Container(Arg(0)).type = "STRING"
  /\ LET text == Container(Arg(0)).contents
     IN  Begin(Call("LcloneString", 0, text), <<SP, CLocal>>,
               obj_words("STRING", Len(text)), stack, Arg(0))

\* The length is a number the program has, not an operand on the stack.
BeginMakeArray ==
  /\ CanAlloc /\ SP < MaxStack /\ "LmakeArray" \in Library
  /\ \E n \in ArraySizes :
       Begin(Call("LmakeArray", n, <<>>), <<>>, obj_words("ARRAY", n), stack, cvar)

IsString(v) == IsRef(v) /\ Container(v).type = "STRING"

\* The string on top of a position and a length; a failure when the part is
\* not within the string.
BeginSubstring ==
  /\ CanAlloc /\ SP >= NGlobals + 3 /\ "Lsubstring" \in Library
  /\ IsString(Arg(0)) /\ UNBOXED(Arg(1)) /\ UNBOXED(Arg(2))
  /\ LET len == Container(Arg(0)).len
     IN  \/ \E pp \in 0..len : \E ll \in 0..(len - pp) :
              Begin(CallAt("Lsubstring", ll, <<>>, pp), <<SP>>,
                    obj_words("STRING", ll), stack, cvar)
         \/ /\ pc' = "exit"
            /\ UNCHANGED <<store, caller, need, ids, regs>>

\* Concatenation: the lengths are read before alloc, and again after it.
BeginConcat ==
  /\ CanAlloc /\ SP >= NGlobals + 2 /\ "Li__Infix_4343" \in Library
  /\ IsString(Arg(0)) /\ IsString(Arg(1))
  /\ LET len == Container(Arg(0)).len + Container(Arg(1)).len
     IN  Begin(Call("Li__Infix_4343", len, <<>>), <<SP, SP - 1>>,
               obj_words("STRING", len), stack, cvar)

-----------------------------------------------------------------------------
(* The same functions from the return of alloc on.                          *)

Finish(fn, new, nroots, rest) ==
  /\ pc = "fill" /\ op.fn = fn
  /\ obj' = Put(NewHeader, new)
  /\ stack' = Pushed(rest, NewRef)
  /\ Unregister(nroots)
  /\ pc' = "mutator" /\ op' = NoOp
  /\ cvar' = 0 /\ need' = 0
  /\ UNCHANGED <<heap, old, ids, regs>>

\* contents[n - 1 - i] = args[i]
FinishArray ==
  Finish("Barray",
         NewObject("ARRAY", op.n, [j \in 1..op.n |-> Arg(op.n - j)]),
         op.n, Dropped(op.n))

\* A first word, then contents[i] = args[n - i].
AfterFirst(first) ==
  [j \in 1..(op.n + 1) |-> IF j = 1 THEN first ELSE Arg(op.n - j + 2)]

\* The first word of a sexp is its tag.
FinishSexp ==
  Finish("Bsexp", NewObject("SEXP", op.n, AfterFirst(UNBOX(Arg(0)))),
         op.n, Dropped(op.n + 1))

\* Mutant: the word for the code is not counted.
FinishClosureShort ==
  Finish("Bclosure", NewObject("CLOSURE", op.n, AfterFirst(Arg(0))),
         op.n, Dropped(op.n + 1))

\* contents[0] = args[0] is the code, contents[n - i] = args[i + 1].
FinishClosure ==
  Finish("Bclosure", NewObject("CLOSURE", op.n + 1, AfterFirst(Arg(0))),
         op.n, Dropped(op.n + 1))

FinishString ==
  Finish("Bstring", NewObject("STRING", Len(op.text), op.text), 1, stack)

\* The interpreter leaves the operand of Lstring under the result.
FinishLstring ==
  Finish("Lstring", NewObject("STRING", Len(op.text), op.text), 2, stack)

\* memcpy of the words from where args[0] is now, the collector's bits and the
\* forward address included; only "id" is the copy's own here.  The caller
\* pops the argument.
FinishClone ==
  Finish("Lclone", [Container(Arg(0)) EXCEPT !.id = ids], 1, Dropped(1))

\* strncpy of n characters, zeros where the text ends earlier.
Copied(text, n) == [i \in 1..n |-> IF i \in DOMAIN text THEN text[i] ELSE 0]
NewString(text, n) == NewObject("STRING", n, Copied(text, n))

\* As many characters as strlen found before.
FinishCloneString ==
  Finish("LcloneString", NewString(Container(cvar).contents, Len(op.text)),
         2, Dropped(1))

\* BOX(0) in every member.
FinishMakeArray ==
  \E zero \in Imm :
    Finish("LmakeArray", NewObject("ARRAY", op.n, [j \in 1..op.n |-> zero]), 0, stack)

\* Mutant: the string stays registered.
FinishSubstringKeeps ==
  LET text == Container(Arg(0)).contents
  IN  Finish("Lsubstring", NewString(SubSeq(text, op.from + 1, Len(text)), op.n),
             0, Dropped(3))

\* strncpy from where the string is now.
FinishSubstring ==
  LET text == Container(Arg(0)).contents
  IN  Finish("Lsubstring", NewString(SubSeq(text, op.from + 1, Len(text)), op.n),
             1, Dropped(3))

\* Mutant: the operands are taken in the opposite order.
FinishConcatSwapped ==
  Finish("Li__Infix_4343",
         NewString(Container(Arg(1)).contents \o Container(Arg(0)).contents, op.n),
         2, Dropped(2))

\* Both operands are read where they are now.
FinishConcat ==
  Finish("Li__Infix_4343",
         NewString(Container(Arg(0)).contents \o Container(Arg(1)).contents, op.n),
         2, Dropped(2))

-----------------------------------------------------------------------------
MutatorStep ==
  Const \/ Load \/ Store \/ Drop \/ Elem \/ Sta
  \/ BeginArray \/ BeginSexp \/ BeginClosure \/ BeginString \/ BeginLstring
  \/ BeginClone \/ BeginCloneString
  \/ BeginMakeArray \/ BeginSubstring \/ BeginConcat
  \/ FinishArray \/ FinishSexp \/ FinishClosure \/ FinishString
  \/ FinishLstring \/ FinishClone \/ FinishCloneString
  \/ FinishMakeArray \/ FinishSubstring \/ FinishConcat

Next == MutatorStep \/ GcStep

Spec == Init /\ [][Next]_vars

\* A function of the runtime runs on until it returns.
FairSpec == Spec /\ WF_vars(GcStep)

\* The same with the operands of the running function (runtime.c:829): a new
\* object has the members its header counts, whatever the collector did to
\* the stack between the two halves of the function.
TypeOK ==
  /\ GcTypeOK
  /\ op \in Calls

\* The slots and the C variable a function has registered, the top of the
\* stack being slot top.
RootsOf(call, top) ==
  CASE call.fn = "none"     -> <<>>
    [] call.fn = "Barray"   -> ArgSlots(top, 0, call.n)
    [] call.fn = "Bsexp"    -> ArgSlots(top, 0, call.n)
    [] call.fn = "Bclosure" -> ArgSlots(top, 1, call.n)
    [] call.fn = "Bstring"  -> <<CLocal>>
    [] call.fn = "LmakeArray" -> <<>>
    [] call.fn \in {"Lclone", "Lsubstring"} -> <<top>>
    [] call.fn = "Li__Infix_4343" -> <<top, top - 1>>
    [] OTHER                -> <<top, CLocal>>

\* How many words of the stack a function takes for its operands.
OperandsOf(call) ==
  CASE call.fn = "Barray"                  -> call.n
    [] call.fn \in {"Bsexp", "Bclosure"}   -> call.n + 1
    [] call.fn \in {"none", "Bstring", "LmakeArray"} -> 0
    [] call.fn = "Li__Infix_4343"          -> 2
    [] call.fn = "Lsubstring"              -> 3
    [] OTHER                               -> 1

\* gc.h:95: extra_roots is a LIFO stack of the values that escape into the
\* runtime.  It is empty while the program runs; from the first push to the
\* last pop of a function it holds the locations of that function's operands,
\* which are all on the operand stack, however often the collector has run.
ExtraRootsBalanced ==
  /\ pc = "mutator" => op.fn = "none"
  /\ pc # "exit" => extra = RootsOf(op, SP)
  /\ OperandsOf(op) <= SP
=============================================================================
