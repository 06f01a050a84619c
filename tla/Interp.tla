-------------------------------- MODULE Interp --------------------------------
(***************************************************************************)
(* The instructions of disassemble in main.c that compute, build, test and *)
(* print values, on words and objects in memory.  Frames has the           *)
(* instructions that work on frames, Runtime has the collector: here no    *)
(* object moves.                                                           *)
(*                                                                         *)
(* Object k of the heap has its contents at the even word 2 * k.  Where    *)
(* the code accesses memory that is no member of an object, or writes a    *)
(* reference over what is none, the model stops.  The program gives        *)
(* Lstring what can be printed.                                            *)
(***************************************************************************)
EXTENDS MachineWords, TagHash, StringBuf

CONSTANTS
  Consts, Inputs,       \* operands of CONST, numbers typed in
  Texts, Tags,          \* entries of the string table
  Sizes, Codes,         \* operands of SEXP, ARRAY and Barray; of CLOSURE
  Starts,               \* stacks and heaps a program has made before
  MaxStack, MaxObjects, MaxSteps,         \* bounds of the model
  PrintAt               \* heights of the stack at which the program prints

ASSUME OperandsAssumption == Consts \subseteq Ints /\ Sizes \subseteq 0..(Half - 2)
                             /\ Codes \subseteq 0..(Half - 1) /\ Inputs \subseteq AllWords
                             /\ PrintAt \subseteq Nat \ {0}
                             /\ Texts \cup Tags \subseteq Seq(Characters \ {0})

\* 64^10 is less than 2^62: a hash is an integer.
ASSUME TagsAssumption == \A t \in Tags : ~ TagFails(t) => LtagHash(t) \in 0..(Half - 1)

\* There are words for the addresses of all objects.
ASSUME BoundsAssumption == MaxObjects \in Nat /\ MaxObjects < Half

VARIABLES
  stack,      \* the operand stack, the top last
  heap,       \* the objects
  effect,     \* what the last instruction wrote, or whether it jumped
  state,      \* "running", "printing", "failed", "strayed" after an access
              \* to memory that is no member of an object
  todo,       \* pieces of text still to print
  steps       \* instructions executed

vars == <<stack, heap, effect, state, todo, steps, sbuf>>

NoEffect == <<>>
Jumped(instruction, taken) == <<instruction, taken>>
Wrote(n) == <<"write", n>>

-----------------------------------------------------------------------------
(* Operands and objects.                                                    *)

SP == Len(stack)
Arg(i) == stack[SP - i]
Dropped(n) == SubSeq(stack, 1, SP - n)

\* operand_push and operand_top with VAL.
Val(n) == BOX(n)
AsVal(w) == UNBOX(w)

Object(type, tag, members) == [type |-> type, tag |-> tag, members |-> members]
Address(k) == 2 * k
At(w) == heap[w \div 2]
NewAddress == Address(Len(heap) + 1)

IsA(w, type) == ~ UNBOXED(w) /\ At(w).type = type

\* The members an index can name; the first word of a closure is its code.
ValuesIn(o) == IF o.type = "CLOSURE" THEN Tail(o.members) ELSE o.members
Indices(o) == (IF o.type = "CLOSURE" THEN 1 ELSE 0)..(Len(o.members) - 1)

-----------------------------------------------------------------------------
(* What a program can have made before.                                     *)

\* A word, where there are n objects.
IsWord(w, n) == w \in AllWords /\ (UNBOXED(w) \/ w \div 2 \in 1..n)

Objects == [type : {"STRING", "ARRAY", "SEXP", "CLOSURE"}, tag : Int, members : Seq(Int)]
IsObject(o, n) ==
  /\ o \in Objects
  /\ o.type = "SEXP" => \E t \in Tags : ~ TagFails(t) /\ o.tag = LtagHash(t)
  /\ o.type = "CLOSURE" => o.members # <<>> /\ o.members[1] \in 0..(Half - 1)
  /\ o.type # "STRING" => Len(o.members) < Half
  /\ \A i \in DOMAIN ValuesIn(o) :
       IF o.type = "STRING" THEN ValuesIn(o)[i] \in Characters ELSE IsWord(ValuesIn(o)[i], n)

Made(words, objects) ==
  /\ words \in Seq(Int) /\ \A i \in DOMAIN words : IsWord(words[i], Len(objects))
  /\ objects \in Seq(Objects) /\ \A k \in DOMAIN objects : IsObject(objects[k], Len(objects))
  /\ Len(objects) <= MaxObjects

ASSUME StartsAssumption == \A start \in Starts : Made(start.stack, start.heap)

Init ==
  /\ \E start \in Starts : stack = start.stack /\ heap = start.heap
  /\ effect = NoEffect
  /\ state = "running" /\ todo = <<>> /\ steps = 0
  /\ contents = <<>> /\ ptr = 0 /\ len = 0

-----------------------------------------------------------------------------
(* What an instruction does.                                                *)

Ready(n) == state = "running" /\ SP >= n /\ steps < MaxSteps

Becomes(s, h, e) ==
  /\ Len(s) <= MaxStack
  /\ stack' = s /\ heap' = h /\ effect' = e
  /\ steps' = steps + 1
  /\ UNCHANGED <<state, todo, sbuf>>

Pushes(s, w) == Becomes(Append(s, w), heap, NoEffect)

\* A new object, its address pushed on s.
Makes(s, o) ==
  /\ Len(heap) < MaxObjects
  /\ Becomes(Append(s, NewAddress), Append(heap, o), NoEffect)

Ends(how) ==
  /\ state' = how /\ effect' = NoEffect /\ steps' = steps + 1
  /\ UNCHANGED <<stack, heap, todo, sbuf>>

-----------------------------------------------------------------------------
(* BINOP and MISC.                                                          *)

BINOP ==
  /\ Ready(2)
  /\ LET right == AsVal(Arg(0))
         left  == AsVal(Arg(1))
     IN  \E op \in Ops :
           IF Divides(op) /\ right = 0 THEN Ends("failed")
           ELSE Pushes(Dropped(2), Val(Result(op, left, right)))

MI_CONST == Ready(0) /\ \E n \in Consts : Pushes(stack, Val(n))

\* Bstring copies up to the zero.
StringOf(bytes) == Object("STRING", 0, CText(bytes))

MI_STRING == Ready(0) /\ \E t \in Texts : Makes(stack, StringOf(t))

\* sexp_function pushes the tag, and Bsexp takes the members from below it:
\* contents[i] = args[n - i].
MI_SEXP ==
  /\ Ready(0)
  /\ \E t \in Tags, n \in Sizes :
       IF TagFails(t) THEN Ends("failed")
       ELSE LET args == Append(stack, Val(LtagHash(t)))
                arg(i) == args[Len(args) - i]
            IN  /\ n <= SP
                /\ Makes(Dropped(n),
                         Object("SEXP", UNBOX(arg(0)), [i \in 1..n |-> arg(n - i + 1)]))

\* Mutant: the character is not cut to eight bits.
StoredWhole(o, i, value) ==
  [o EXCEPT !.members[i + 1] = IF o.type = "STRING" THEN UNBOX(value) ELSE value]

\* Bsta: a string takes the low eight bits of an integer.
Stored(o, i, value) ==
  [o EXCEPT !.members[i + 1] = IF o.type = "STRING" THEN AsChar(UNBOX(value)) ELSE value]

\* With a reference for its index Bsta writes to the first word of the object:
\* the first member of an array, else the tag, the code or eight characters.
\* The interpreter boxes what Bsta returns, which is the value as it is.
MI_STA ==
  /\ Ready(3)
  /\ LET value == Arg(0)
         i     == IF UNBOXED(Arg(1)) THEN UNBOX(Arg(1)) ELSE 0
         x     == Arg(2)
     IN  IF UNBOXED(x) THEN Ends(IF UNBOXED(Arg(1)) THEN "failed" ELSE "strayed")
         ELSE IF i \notin Indices(At(x)) \/ (~ UNBOXED(Arg(1)) /\ At(x).type # "ARRAY")
         THEN Ends("strayed")
         ELSE Becomes(Append(Dropped(3), Val(value)),
                      [heap EXCEPT ![x \div 2] = Stored(@, i, value)], NoEffect)

MI_DROP == Ready(1) /\ Becomes(Dropped(1), heap, NoEffect)
MI_DUP  == Ready(1) /\ Pushes(stack, Arg(0))
MI_SWAP == Ready(2) /\ Becomes(Dropped(2) \o <<Arg(0), Arg(1)>>, heap, NoEffect)

\* Mutant: the character is not boxed.
BelemRaw(o, i) == o.members[i + 1]

Belem(o, i) == IF o.type = "STRING" THEN BOX(o.members[i + 1]) ELSE o.members[i + 1]

\* A reference given as the index is halved, which is beyond any object.
MI_ELEM ==
  /\ Ready(2)
  /\ LET b == AsVal(Arg(0))
         a == Arg(1)
     IN  IF UNBOXED(a) THEN Ends("failed")
         ELSE IF ~ UNBOXED(Arg(0)) \/ b \notin Indices(At(a)) THEN Ends("strayed")
         ELSE Pushes(Dropped(2), Belem(At(a), b))

-----------------------------------------------------------------------------
(* CTRL.                                                                    *)

\* Mutant: the word is compared as it is.
IsZeroBoxed(w) == w = 0

IsZero(w) == AsVal(w) = 0

CTRL_CJMP ==
  /\ Ready(1)
  /\ LET zero == IsZero(Arg(0))
     IN  \/ Becomes(Dropped(1), heap, Jumped("CJMPz", zero))
         \/ Becomes(Dropped(1), heap, Jumped("CJMPnz", ~ zero))

\* The captured values are copies of variables.  Bclosure.
CTRL_CLOSURE ==
  /\ Ready(0)
  /\ \E code \in Codes, n \in Sizes : \E vs \in [1..n -> ToSet(stack)] :
       Makes(stack, Object("CLOSURE", 0, <<code>> \o vs))

\* Btag, after LtagHash.
CTRL_TAG ==
  /\ Ready(1)
  /\ \E t \in Tags, n \in Sizes :
       IF TagFails(t) THEN Ends("failed")
       ELSE LET d == Arg(0)
            IN  Pushes(Dropped(1),
                       Val(Bool(/\ IsA(d, "SEXP")
                                /\ At(d).tag = LtagHash(t)
                                /\ Len(At(d).members) = n)))

\* The operand stays below the result.
CTRL_ARRAY ==
  /\ Ready(1)
  /\ \E n \in Sizes :
       Pushes(stack, Val(Bool(IsA(Arg(0), "ARRAY") /\ Len(At(Arg(0)).members) = n)))

CTRL_FAIL == Ready(0) /\ Ends("failed")

-----------------------------------------------------------------------------
(* PATT.                                                                    *)

\* Bstring_patt(x, y) with the top of the stack for x and the operand below
\* it for y.  ASSERT_STRING lets an integer pass, whose memory is then read.
PATT_STRING ==
  /\ Ready(2)
  /\ LET x == Arg(0)
         y == Arg(1)
     IN  IF ~ UNBOXED(y) /\ At(y).type # "STRING" THEN Ends("failed")
         ELSE IF UNBOXED(x) \/ At(x).type # "STRING" THEN Pushes(Dropped(2), Val(0))
         ELSE IF UNBOXED(y) THEN Ends("strayed")
         ELSE Pushes(Dropped(2), Val(Bool(CText(At(x).members) = CText(At(y).members))))

\* #string, #array, #sexp, #fun; #ref, #val.
PattResult(test, w) ==
  CASE test = "#string" -> IsA(w, "STRING")
    [] test = "#array"  -> IsA(w, "ARRAY")
    [] test = "#sexp"   -> IsA(w, "SEXP")
    [] test = "#fun"    -> IsA(w, "CLOSURE")
    [] test = "#ref"    -> ~ UNBOXED(w)
    [] test = "#val"    -> UNBOXED(w)

PATT ==
  /\ Ready(1)
  /\ \E test \in {"#string", "#array", "#sexp", "#fun", "#ref", "#val"} :
       Pushes(Dropped(1), Val(Bool(PattResult(test, Arg(0)))))

-----------------------------------------------------------------------------
(* RT.                                                                      *)

\* Lread boxes what scanf has found.
RT_READ == Ready(0) /\ \E in \in Inputs : Pushes(stack, Val(UNBOX(BOX(in))))

\* The operand stays.
RT_WRITE == Ready(1) /\ Becomes(stack, heap, Wrote(UNBOX(BOX(AsVal(Arg(0))))))

RT_LENGTH ==
  /\ Ready(1)
  /\ IF UNBOXED(Arg(0)) THEN Ends("failed")
     ELSE Pushes(Dropped(1), BOX(Len(At(Arg(0)).members)))

\* contents[n - 1 - i] = args[i]
RT_BARRAY ==
  /\ Ready(0)
  /\ \E n \in Sizes \cup {-1} :
       IF n < 0 THEN Ends("failed")
       ELSE n <= SP /\ Makes(Dropped(n), Object("ARRAY", 0, [j \in 1..n |-> Arg(n - j)]))

-----------------------------------------------------------------------------
(* RT_STRING: Lstring prints its operand to the buffer, one call of         *)
(* printStringBuf for each piece of text, and makes a string of it.         *)

\* Pieces of text between brackets, and pieces with ", " between the members
\* they are of; characters are codes.
Enclosed(open, pieces, close) == <<open>> \o pieces \o <<close>>

Listed(members) ==
  FlattenSeq([i \in DOMAIN members |-> IF i = 1 THEN members[1] ELSE <<<<44, 32>>>> \o members[i]])

\* %ld and %x.
Numeral(base, n) ==
  LET Digit(k) == k + (IF k < 10 THEN 48 ELSE 87)
      digits[k \in Nat] == IF k < base THEN <<Digit(k)>>
                           ELSE Append(digits[k \div base], Digit(k % base))
  IN  IF n < 0 THEN <<45>> \o digits[-n] ELSE digits[n]

\* The tag is "cons", of which there are as many letters as a tag has.
IsCons(o) == o.type = "SEXP" /\ de_hash(o.tag) = Shortened(<<99, 111, 110, 115>>)

\* The elements of a list, down to a tail that is an integer.
Elements(o) ==
  LET from[n \in Nat] == [w \in AllWords |->
        IF n = 0 \/ UNBOXED(w) THEN <<>>
        ELSE <<At(w).members[1]>> \o from[n - 1][At(w).members[2]]]
  IN  <<o.members[1]>> \o from[Len(heap)][o.members[2]]

printValue(w) ==
  LET pieces[n \in Nat] == [v \in AllWords |->
        IF n = 0 \/ UNBOXED(v) THEN <<Numeral(10, UNBOX(v))>>
        ELSE LET o == At(v)
                 code == <<48, 120>> \o Numeral(16, o.members[1])
                 Of(words) == [i \in DOMAIN words |-> pieces[n - 1][words[i]]]
                 values == Of(ValuesIn(o))
                 tag == de_hash(o.tag)
             IN  CASE o.type = "STRING"  -> <<<<34>> \o CText(o.members) \o <<34>>>>
                   [] o.type = "CLOSURE" ->
                        Enclosed(<<60, 99, 108, 111, 115, 117, 114, 101, 32>>,
                                 Listed(<<<<code>>>> \o values), <<62>>)
                   [] o.type = "ARRAY"   -> Enclosed(<<91>>, Listed(values), <<93>>)
                   [] IsCons(o)          -> Enclosed(<<123>>, Listed(Of(Elements(o))), <<125>>)
                   [] OTHER -> IF values = <<>> THEN <<tag>>
                               ELSE <<tag>> \o Enclosed(<<32, 40>>, Listed(values), <<41>>)]
  IN  pieces[Len(heap) + 1][w]

\* There is no cycle, and a list is made of cells with two members; printValue
\* does not look.
Printable(w) ==
  LET deep[n \in Nat] == [v \in AllWords |->
        ~ UNBOXED(v) =>
          /\ n > 0
          /\ LET o == At(v)
             IN  /\ o.type # "STRING" => \A u \in ToSet(ValuesIn(o)) : deep[n - 1][u]
                 /\ IsCons(o) => /\ Len(o.members) = 2
                                 /\ ~ UNBOXED(o.members[2]) => IsCons(At(o.members[2]))]
  IN  deep[Len(heap)][w]

RT_STRING ==
  /\ state = "running" /\ SP \in PrintAt /\ Len(heap) < MaxObjects
  /\ Printable(Arg(0))
  /\ createStringBuf
  /\ todo' = printValue(Arg(0))
  /\ state' = "printing"
  /\ UNCHANGED <<stack, heap, effect, steps>>

PrintPiece ==
  /\ state = "printing" /\ todo # <<>>
  /\ \/ Again(Head(todo)) /\ UNCHANGED todo
     \/ Fits(Head(todo)) /\ todo' = Tail(todo)
  /\ UNCHANGED <<stack, heap, effect, state, steps>>

\* The operand stays below the string.
Prints ==
  /\ state = "printing" /\ todo = <<>>
  /\ stack' = Append(stack, NewAddress)
  /\ heap' = Append(heap, StringOf(contents))
  /\ effect' = NoEffect /\ state' = "running" /\ steps' = steps + 1
  /\ contents' = <<>> /\ ptr' = 0 /\ len' = 0
  /\ UNCHANGED todo

-----------------------------------------------------------------------------
PrintStep == PrintPiece \/ Prints

Next == \/ BINOP \/ MI_CONST \/ MI_STRING \/ MI_SEXP \/ MI_STA
        \/ MI_DROP \/ MI_DUP \/ MI_SWAP \/ MI_ELEM
        \/ CTRL_CJMP \/ CTRL_CLOSURE \/ CTRL_TAG \/ CTRL_ARRAY \/ CTRL_FAIL
        \/ PATT_STRING \/ PATT
        \/ RT_READ \/ RT_WRITE \/ RT_LENGTH \/ RT_BARRAY
        \/ RT_STRING \/ PrintStep

Spec == Init /\ [][Next]_vars

\* Lstring runs until it returns.
FairSpec == Spec /\ WF_vars(PrintStep)

-----------------------------------------------------------------------------
(* Properties.                                                              *)

\* The type invariant.  Strings hold characters whatever is stored in them,
\* and the tag of a sexp is the hash of a name.
WellMade ==
  /\ Made(stack, heap)
  /\ state \in {"running", "printing", "failed", "strayed"}
  /\ state = "printing" =>
       /\ stack # <<>> /\ Len(heap) < MaxObjects
       /\ todo \in Seq(Seq(Characters \ {0}))
       /\ contents \in Seq(Characters) /\ len = Len(contents) /\ ptr \in 0..(len - 1)

\* Every word a program has is an integer or the address of an object, though
\* addresses are never told from integers but by their low bit.
ValuesHeld == ToSet(stack) \cup UNION {ToSet(ValuesIn(heap[k])) : k \in
                                      {k \in DOMAIN heap : heap[k].type # "STRING"}}
WordsResolve ==
  \A w \in ValuesHeld : w \in AllWords /\ (UNBOXED(w) \/ w \in {Address(k) : k \in DOMAIN heap})

\* runtime.c:283-304: while Lstring prints, what is in the buffer up to ptr and
\* the pieces still to print are the whole text.  There is no zero before ptr,
\* and after the last piece there is one at ptr, so that what realloc has left
\* in the new bytes is never part of the string.
PrintedSoFar ==
  state = "printing" =>
    /\ SubSeq(contents, 1, ptr) \o FlattenSeq(todo) = FlattenSeq(printValue(Arg(0)))
    /\ \A i \in 1..ptr : contents[i] # 0
    /\ todo = <<>> => contents[ptr + 1] = 0

\* runtime.c:288-304: whatever the buffer's size and however often it grows,
\* the string has all that was printed.
PrintsWhole ==
  [][state = "printing" /\ state' = "running" =>
       heap'[Len(heap')].members = FlattenSeq(printValue(Arg(0)))]_vars

\* The loop "again" of vprintStringBuf ends: the buffer outgrows any piece.
PrintingEnds == state = "printing" ~> state # "printing"

\* The assertion of Bstring_patt, ".string_patt:2" (runtime.c:908), is about
\* the pattern; a scrutinee of any other kind is no match (runtime.c:910-915).
StringPatternTakesAnyValue ==
  [][PATT_STRING /\ IsA(Arg(0), "STRING") => state' = "running"]_vars
=============================================================================
