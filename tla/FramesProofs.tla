----------------------------- MODULE FramesProofs -----------------------------
(***************************************************************************)
(* The operand stack of main.c stays well formed: in a compiled program,   *)
(* whatever its functions and however deep its calls, the frames form a    *)
(* chain, LD and ST stay in the words that are in use, and every reference *)
(* names a closure that was made.                                          *)
(*                                                                         *)
(* The chain is given by the set of the bases of its frames, and each      *)
(* lemma about an instruction says which set it is afterwards.  All of     *)
(* them but BEGIN and END keep it, since they write operands, or slots     *)
(* that are not among the saved words, and never a return address; BEGIN   *)
(* adds a base below all others, and END takes the lowest away.            *)
(*                                                                         *)
(* From "The order of the bases" on: the frames mean calls, so that every  *)
(* instruction of a compiled program is one of CallStack.  The activations *)
(* are the frames in the order of their bases, from main downwards.  An    *)
(* instruction writes below the saved words of the running frame, its      *)
(* arguments or a global, so that the frames of its callers, which lie     *)
(* between those and the globals, stay what they are; BEGIN and END add    *)
(* and take away the last one.                                             *)
(***************************************************************************)
EXTENDS FramesView, FiniteSetTheorems, SequenceTheorems, SequenceLemmas, TLAPS

\* Types, references and the chain of frames.
IInv == TypeOK /\ LinkedFrames

-----------------------------------------------------------------------------
(* Words and memories.                                                      *)

Memory == [0..STACK_SIZE -> Value]
Frame == [fun : Funs, captured : Seq(Value)]

\* What a word consists of.
LEMMA ValueParts ==
  ASSUME NEW v \in Value
  PROVE  v[1] \in {"val", "ptr", "addr"} /\ v[2] \in Int
BY DEF Value

\* The three kinds of words and their parts.
LEMMA ValueMade ==
  ASSUME NEW n \in Int
  PROVE  /\ val(n) \in Value /\ ptr(n) \in Value /\ addr(n) \in Value
         /\ val(n)[1] = "val" /\ val(n)[2] = n
         /\ ptr(n)[1] = "ptr" /\ ptr(n)[2] = n
         /\ addr(n)[1] = "addr" /\ addr(n)[2] = n
BY DEF Value, val, ptr, addr

\* Frames stay when their saved words stay.
LEMMA FramesKept ==
  ASSUME NEW m, NEW k, NEW B, B \subseteq Int, FramesIn(m, B),
         \A e \in B : \A i \in (e - 2)..(e + 2) : k[i] = m[i]
  PROVE  /\ FramesIn(k, B)
         /\ \A e \in B \cup {0} : OperandsFrom(k, e) = OperandsFrom(m, e)
<1>1. \A e \in B : /\ k[e - 2] = m[e - 2] /\ k[e - 1] = m[e - 1]
                   /\ k[e] = m[e] /\ k[e + 1] = m[e + 1] /\ k[e + 2] = m[e + 2]
  OBVIOUS
<1>2. \A e \in B \cup {0} : OperandsFrom(k, e) = OperandsFrom(m, e)
  BY <1>1 DEF OperandsFrom
<1>3. ASSUME NEW e \in B
      PROVE  /\ e + 2 < STACK_SIZE - NGlobals
             /\ k[e + 1][2] \in Nat /\ k[e - 2][2] \in Nat /\ OperandsFrom(k, e) >= 1
             /\ IsSelf(k[e + 2])
             /\ k[e][2] \in B \cup {0}
             /\ k[e - 1][2] \in ReturnsTo(k[e][2])
             /\ e + 2 + k[e + 1][2] < OperandsFrom(k, k[e][2])
             /\ \A d \in B : d > e => k[e][2] # 0 /\ d >= k[e][2]
  <2>1. /\ e + 2 < STACK_SIZE - NGlobals
        /\ m[e + 1][2] \in Nat /\ m[e - 2][2] \in Nat /\ OperandsFrom(m, e) >= 1
        /\ IsSelf(m[e + 2])
        /\ m[e][2] \in B \cup {0}
        /\ m[e - 1][2] \in ReturnsTo(m[e][2])
        /\ e + 2 + m[e + 1][2] < OperandsFrom(m, m[e][2])
        /\ \A d \in B : d > e => m[e][2] # 0 /\ d >= m[e][2]
    BY DEF FramesIn
  <2>2. /\ k[e - 2] = m[e - 2] /\ k[e - 1] = m[e - 1]
        /\ k[e] = m[e] /\ k[e + 1] = m[e + 1] /\ k[e + 2] = m[e + 2]
    BY <1>1
  <2>3. OperandsFrom(k, e) = OperandsFrom(m, e)
        /\ OperandsFrom(k, m[e][2]) = OperandsFrom(m, m[e][2])
    BY <1>2, <2>1
  <2>4. QED
    BY <2>1, <2>2, <2>3
<1>4. QED
  BY <1>2, <1>3 DEF FramesIn

\* What a chain says of the last frame.
LEMMA ChainFacts ==
  ASSUME NEW m \in Memory, NEW t \in Int, NEW call, NEW B, Chain(m, t, call, B),
         NEW b, b = m[STACK_SIZE][2]
  PROVE  /\ STACK_SIZE \in Nat /\ NGlobals \in Nat
         /\ B \subseteq Int /\ b \in Int /\ OperandsFrom(m, b) \in Int
         /\ OperandsFrom(m, b) <= STACK_SIZE - NGlobals
         /\ \A e \in B : /\ e >= b /\ e >= 3 /\ OperandsFrom(m, b) <= e - 2
                         /\ e + 2 < STACK_SIZE - NGlobals
<1>1. STACK_SIZE \in Nat /\ NGlobals \in Nat /\ STACK_SIZE >= NGlobals + 5
  BY StackAssumption
<1>2. B \subseteq Int /\ FramesIn(m, B) /\ b \in B \cup {0}
      /\ (b = 0 => B = {}) /\ \A e \in B : b <= e
  BY <1>1 DEF Chain
<1>3. CASE b = 0
  <2>1. B = {}
    BY <1>2, <1>3
  <2>2. OperandsFrom(m, b) = STACK_SIZE - NGlobals
    BY <1>3 DEF OperandsFrom
  <2>3. QED
    BY <1>1, <1>3, <2>1, <2>2
<1>4. CASE b # 0
  <2>0. B \subseteq 1..STACK_SIZE
    BY DEF Chain
  <2>1. b \in B /\ b >= 1
    BY <1>1, <1>2, <1>4, <2>0
  <2>2. /\ m[b - 2][2] \in Nat /\ OperandsFrom(m, b) >= 1 /\ b + 2 < STACK_SIZE - NGlobals
        /\ \A e \in B : e + 2 < STACK_SIZE - NGlobals
    BY <1>2, <2>1 DEF FramesIn
  <2>3. OperandsFrom(m, b) = b - 2 - m[b - 2][2]
    BY <1>4 DEF OperandsFrom
  <2>4. QED
    BY <1>1, <1>2, <2>1, <2>2, <2>3
<1>5. QED
  BY <1>3, <1>4

\* Operands may change without harm to any frame.
LEMMA OperandsWritten ==
  ASSUME NEW m \in Memory, NEW t \in Int, NEW call, NEW B, Chain(m, t, call, B),
         NEW from, from = OperandsFrom(m, m[STACK_SIZE][2]),
         NEW k, \A i \in 0..STACK_SIZE : i >= from => k[i] = m[i]
  PROVE  /\ FramesIn(k, B) /\ k[STACK_SIZE] = m[STACK_SIZE]
         /\ \A e \in B \cup {0} : OperandsFrom(k, e) = OperandsFrom(m, e)
<1>1. /\ STACK_SIZE \in Nat /\ NGlobals \in Nat /\ B \subseteq Int /\ from \in Int
      /\ from <= STACK_SIZE - NGlobals
      /\ \A e \in B : e >= 3 /\ from <= e - 2 /\ e + 2 < STACK_SIZE - NGlobals
  BY ChainFacts
<1>2. FramesIn(m, B)
  BY DEF Chain
<1>3. ASSUME NEW e \in B, NEW i \in (e - 2)..(e + 2)
      PROVE  k[i] = m[i]
  <2>1. e \in Int /\ e >= 3 /\ from <= e - 2 /\ e + 2 < STACK_SIZE - NGlobals
    BY <1>1
  <2>2. i \in Int /\ i >= e - 2 /\ i <= e + 2
    BY <2>1
  <2>3. i \in 0..STACK_SIZE /\ i >= from
    BY <1>1, <2>1, <2>2
  <2>4. QED
    BY <2>3
<1>4. k[STACK_SIZE] = m[STACK_SIZE]
  BY <1>1
<1>5. QED
  BY <1>1, <1>2, <1>3, <1>4, FramesKept

\* The frame of a running instruction.
LEMMA RunningFacts ==
  ASSUME IInv, Running
  PROVE  /\ STACK_SIZE \in Nat /\ NGlobals \in Nat /\ mem \in Memory
         /\ top \in 1..STACK_SIZE /\ top \in Int
         /\ closures \in Seq(Frame) /\ site \in Sites \cup {0}
         /\ ebp \in Int /\ ebp >= 3 /\ ebp # 0 /\ ebp + 2 < STACK_SIZE - NGlobals
         /\ NArgs \in Nat /\ NLocals \in Nat
         /\ OperandsFrom(mem, ebp) = ebp - 2 - NLocals
         /\ OperandsFrom(mem, ebp) \in Int
         /\ OperandsFrom(mem, ebp) <= STACK_SIZE - NGlobals
         /\ OperandsFrom(mem, ebp) <= STACK_SIZE
         /\ top <= OperandsFrom(mem, ebp)
         /\ NOps = OperandsFrom(mem, ebp) - top /\ NOps \in Nat
         /\ OperandsFrom(mem, mem[ebp][2]) \in Int
         /\ ebp + 2 + NArgs < OperandsFrom(mem, mem[ebp][2])
         /\ OperandsFrom(mem, mem[ebp][2]) <= STACK_SIZE - NGlobals
<1>1. /\ mem \in Memory /\ top \in 1..STACK_SIZE /\ closures \in Seq(Frame)
      /\ site \in Sites \cup {0}
  BY DEF IInv, TypeOK, Memory, Frame
<1> DEFINE B == Bases
<1>2. Chain(mem, top, <<>>, B)
  BY DEF IInv, LinkedFrames, Running
<1> HIDE DEF B
<1>3. /\ STACK_SIZE \in Nat /\ NGlobals \in Nat /\ B \subseteq Int /\ ebp \in Int
      /\ \A e \in B : e >= 3 /\ e + 2 < STACK_SIZE - NGlobals
  BY <1>1, <1>2, ChainFacts DEF ebp
<1>4. ebp \in B /\ ebp # 0 /\ top <= OperandsFrom(mem, ebp) /\ FramesIn(mem, B)
      /\ \A e \in B : ebp <= e
  BY <1>2 DEF Chain, ebp
<1>5. NArgs \in Nat /\ NLocals \in Nat
      /\ mem[ebp][2] \in B \cup {0}
      /\ ebp + 2 + NArgs < OperandsFrom(mem, mem[ebp][2])
  BY <1>4 DEF FramesIn, NArgs, NLocals
<1>6. OperandsFrom(mem, ebp) = ebp - 2 - NLocals
  BY <1>4 DEF OperandsFrom, NLocals
<1>7. NOps = OperandsFrom(mem, ebp) - top /\ NOps \in Nat
  <2>1. NOps = (ebp - 2 - NLocals) - top
    BY DEF NOps
  <2>2. top <= ebp - 2 - NLocals /\ ebp \in Int /\ NLocals \in Nat /\ top \in Int
    BY <1>1, <1>3, <1>4, <1>5, <1>6
  <2>3. QED
    BY <1>6, <2>1, <2>2
<1>8. OperandsFrom(mem, mem[ebp][2]) \in Int
      /\ OperandsFrom(mem, mem[ebp][2]) <= STACK_SIZE - NGlobals
  <2>1. CASE mem[ebp][2] = 0
    BY <1>3, <2>1 DEF OperandsFrom
  <2>2. CASE mem[ebp][2] # 0
    <3> DEFINE c == mem[ebp][2]
    <3>1. c \in B /\ OperandsFrom(mem, c) = c - 2 - mem[c - 2][2]
      BY <1>5, <2>2 DEF OperandsFrom
    <3>2. mem[c - 2][2] \in Nat
      BY <1>4, <3>1 DEF FramesIn
    <3> HIDE DEF c
    <3>3. OperandsFrom(mem, c) \in Int /\ OperandsFrom(mem, c) <= STACK_SIZE - NGlobals
      BY <1>3, <3>1, <3>2
    <3>4. QED
      BY <3>3 DEF c
  <2>3. QED
    BY <2>1, <2>2
<1>9. /\ ebp >= 3 /\ ebp # 0 /\ ebp + 2 < STACK_SIZE - NGlobals
      /\ OperandsFrom(mem, ebp) \in Int
      /\ OperandsFrom(mem, ebp) <= STACK_SIZE - NGlobals
      /\ OperandsFrom(mem, ebp) <= STACK_SIZE
      /\ top <= OperandsFrom(mem, ebp) /\ top \in Int
  <2>1. ebp >= 3 /\ ebp + 2 < STACK_SIZE - NGlobals
    BY <1>3, <1>4
  <2>2. QED
    BY <1>1, <1>3, <1>4, <1>5, <1>6, <2>1
<1>10. QED
  BY <1>1, <1>3, <1>5, <1>6, <1>7, <1>8, <1>9

\* The chain it is in; its bases are the marks above the top.
LEMMA RunningChain ==
  ASSUME IInv, Running
  PROVE  /\ Chain(mem, top, <<>>, Bases) /\ ebp \in Bases /\ Bases = BasesFrom(mem, top)
         /\ Bases \in SUBSET (1..STACK_SIZE) /\ Bases \subseteq Int
         /\ FramesIn(mem, Bases)
         /\ \A e \in Bases : /\ e >= ebp /\ OperandsFrom(mem, ebp) <= e - 2 /\ e >= 3
                             /\ e + 2 < STACK_SIZE - NGlobals
<1>1. Chain(mem, top, <<>>, Bases)
  BY DEF IInv, LinkedFrames, Running
<1>2. ebp \in Bases /\ Bases \subseteq 1..STACK_SIZE /\ FramesIn(mem, Bases)
  BY <1>1 DEF Chain, ebp
<1>3. Bases = BasesFrom(mem, top)
  BY DEF Bases, BasesOf, Running
<1>4. mem \in Memory /\ top \in Int
  BY RunningFacts
<1>5. \A e \in Bases : /\ e >= ebp /\ OperandsFrom(mem, ebp) <= e - 2 /\ e >= 3
                       /\ e + 2 < STACK_SIZE - NGlobals
  BY <1>1, <1>4, ChainFacts DEF ebp
<1>6. Bases \subseteq Int
  BY <1>2, StackAssumption
<1>7. QED
  BY <1>1, <1>2, <1>3, <1>5, <1>6

\* A word that is in use is no code address, unless it lies below a base.
LEMMA NoAddress ==
  ASSUME IInv, Running, NEW i \in top..(STACK_SIZE - 1), i + 1 \notin Bases
  PROVE  mem[i][1] # "addr"
<1>1. STACK_SIZE \in Nat /\ top \in Int
  BY RunningFacts
<1>2. i + 1 \in (top + 1)..STACK_SIZE /\ (i + 1) - 1 = i
  BY <1>1
<1>3. i + 1 \notin BasesFrom(mem, top)
  BY RunningChain
<1>4. QED
  BY <1>2, <1>3 DEF BasesFrom

\* The operands of a frame are no code addresses.
LEMMA OperandPlain ==
  ASSUME IInv, Running, NEW i \in top..(OperandsFrom(mem, ebp) - 1)
  PROVE  mem[i][1] # "addr"
<1>1. /\ STACK_SIZE \in Nat /\ NGlobals \in Nat /\ top \in Int
      /\ OperandsFrom(mem, ebp) \in Int /\ OperandsFrom(mem, ebp) <= STACK_SIZE - NGlobals
  BY RunningFacts
<1>2. i + 1 \notin Bases
  <2>1. \A e \in Bases : OperandsFrom(mem, ebp) <= e - 2 /\ e \in Int
    BY RunningChain
  <2>2. QED
    BY <1>1, <2>1
<1>3. i \in top..(STACK_SIZE - 1)
  BY <1>1
<1>4. QED
  BY <1>2, <1>3, NoAddress

\* The bases stay when nothing but operands changes and no operand becomes a code
\* address; lo is where the words in use begin afterwards.
LEMMA BasesKept ==
  ASSUME IInv, Running, NEW m, NEW lo \in Int, lo <= OperandsFrom(mem, ebp),
         \A i \in 0..STACK_SIZE : i >= OperandsFrom(mem, ebp) => m[i] = mem[i],
         \A i \in lo..(OperandsFrom(mem, ebp) - 1) : m[i][1] # "addr"
  PROVE  BasesFrom(m, lo) = Bases
<1> DEFINE from == OperandsFrom(mem, ebp)
<1>1. /\ STACK_SIZE \in Nat /\ NGlobals \in Nat /\ top \in 1..STACK_SIZE
      /\ from \in Int /\ from <= STACK_SIZE - NGlobals /\ top <= from /\ from >= 1
  <2>1. from >= 1
    BY RunningChain DEF FramesIn
  <2>2. QED
    BY <2>1, RunningFacts
<1>2. \A i \in top..(from - 1) : mem[i][1] # "addr"
  BY OperandPlain
<1>3. Bases = BasesFrom(mem, top)
  BY RunningChain
<1> HIDE DEF from
<1>4. ASSUME NEW e \in Int
      PROVE  e \in BasesFrom(m, lo) <=> e \in BasesFrom(mem, top)
  <2>1. CASE e - 1 >= from
    <3>1. e \in (lo + 1)..STACK_SIZE <=> e \in (top + 1)..STACK_SIZE
      BY <1>1, <2>1 DEF from
    <3>2. e \in (top + 1)..STACK_SIZE => m[e - 1] = mem[e - 1]
      BY <1>1, <2>1 DEF from
    <3>3. QED
      BY <3>1, <3>2 DEF BasesFrom
  <2>2. CASE e - 1 < from
    <3>1. e \in (top + 1)..STACK_SIZE => e - 1 \in top..(from - 1)
      BY <1>1, <2>2
    <3>2. e \in (lo + 1)..STACK_SIZE => e - 1 \in lo..(from - 1)
      BY <1>1, <2>2
    <3>3. e \notin BasesFrom(m, lo)
      BY <3>2 DEF BasesFrom, from
    <3>4. e \notin BasesFrom(mem, top)
      BY <1>2, <3>1 DEF BasesFrom
    <3>5. QED
      BY <3>3, <3>4
  <2>3. QED
    BY <1>1, <2>1, <2>2
<1>5. BasesFrom(m, lo) \subseteq Int /\ BasesFrom(mem, top) \subseteq Int
  BY <1>1 DEF BasesFrom
<1>6. QED
  BY <1>3, <1>4, <1>5

\* One word of the memory is written.
LEMMA WordWritten ==
  ASSUME NEW m \in Memory, NEW made, WordsNamed(m, made), STACK_SIZE \in Nat,
         NEW i \in 0..(STACK_SIZE - 1), NEW v \in Value, Named(v, made)
  PROVE  [m EXCEPT ![i] = v] \in Memory /\ WordsNamed([m EXCEPT ![i] = v], made)
BY DEF Memory, WordsNamed

Calls == Seq([fun : Funs, pushed : Seq(Value)])

\* A call that is being made is one of a function of the program.
LEMMA CallMade ==
  ASSUME NEW call \in Calls, call # <<>>
  PROVE  /\ call[1].fun \in Funs /\ call[1].fun.args \in Nat /\ call[1].fun.locals \in Nat
         /\ call[1].pushed \in Seq(Value)
<1>1. Len(call) \in Nat /\ Len(call) # 0
  BY EmptySeq, LenProperties DEF Calls
<1>2. 1 \in 1..Len(call)
  BY <1>1
<1>3. call[1] \in [fun : Funs, pushed : Seq(Value)]
  BY <1>2, ElementOfSeq DEF Calls
<1>4. QED
  BY <1>3, FunsAssumption

\* operand_push, as far as slot t (main.c:129).
LEMMA PushesSound ==
  ASSUME IInv, NEW t \in Int, t <= STACK_SIZE, NEW m \in Memory, NEW call \in Calls,
         PushesTo(t, m, call), closures' \in Seq(Frame),
         WordsNamed(m, closures'), WordsNamed(mem, closures'), site' \in Sites \cup {0},
         Checked(t) => Chain(m, t, call, BasesOf(m, t, call))
  PROVE  IInv'
<1>1. STACK_SIZE \in Nat
  BY StackAssumption
<1>2. CASE Checked(t)
  <2>1. mem' = m /\ top' = t /\ callee' = call /\ state' = state
    BY <1>2 DEF PushesTo
  <2>2. t \in 1..STACK_SIZE
    BY <1>1, <1>2 DEF Checked
  <2>3. TypeOK'
    BY <2>1, <2>2 DEF IInv, TypeOK, Memory, Calls, Frame
  <2>4. Chain(mem', top', callee', Bases')
    BY <1>2, <2>1 DEF Bases
  <2>5. WordsNamed(mem', closures')
    BY <2>1
  <2>6. QED
    BY <2>3, <2>4, <2>5 DEF IInv, LinkedFrames
<1>3. CASE ~ Checked(t)
  <2>1. mem' = mem /\ top' = top /\ callee' = callee /\ state' = "failed"
    BY <1>3 DEF PushesTo, Fail
  <2>2. TypeOK'
    BY <2>1 DEF IInv, TypeOK, Frame
  <2>3. QED
    BY <2>1, <2>2 DEF IInv, LinkedFrames
<1>4. QED
  BY <1>2, <1>3

\* Operands are pushed, or one is changed.
LEMMA OperandsSound ==
  ASSUME IInv, Running, NEW t \in Int, t <= OperandsFrom(mem, ebp), NEW m \in Memory,
         PushesTo(t, m, callee), closures' \in Seq(Frame),
         WordsNamed(m, closures'), WordsNamed(mem, closures'), UNCHANGED site,
         \A i \in 0..STACK_SIZE : i >= OperandsFrom(mem, ebp) => m[i] = mem[i],
         Checked(t) => \A i \in t..(OperandsFrom(mem, ebp) - 1) : m[i][1] # "addr"
  PROVE  IInv'
<1>1. /\ STACK_SIZE \in Nat /\ NGlobals \in Nat /\ mem \in Memory /\ site \in Sites \cup {0}
      /\ OperandsFrom(mem, ebp) \in Int /\ OperandsFrom(mem, ebp) <= STACK_SIZE
      /\ top \in Int
  BY RunningFacts
<1> DEFINE B == Bases
<1>2. Chain(mem, top, <<>>, B) /\ ebp \in B
  BY RunningChain
<1>2a. Checked(t) => BasesOf(m, t, <<>>) = B
  BY BasesKept DEF BasesOf
<1> HIDE DEF B
<1>3. /\ FramesIn(m, B) /\ m[STACK_SIZE] = mem[STACK_SIZE]
      /\ OperandsFrom(m, ebp) = OperandsFrom(mem, ebp)
  BY <1>1, <1>2, OperandsWritten DEF ebp
<1>4. Chain(m, t, <<>>, B)
  BY <1>2, <1>3 DEF Chain, ebp
<1>5. callee = <<>> /\ <<>> \in Calls
  BY EmptySeq DEF Running, Calls
<1>6. QED
  BY <1>1, <1>2a, <1>4, <1>5, PushesSound

\* operand_push of a value that is no code address (main.c:129).
LEMMA PushSound ==
  ASSUME IInv, Running, NEW v \in Value, Named(v, closures), v[1] # "addr", Push(v),
         UNCHANGED <<closures, site>>
  PROVE  IInv'
<1>1. /\ STACK_SIZE \in Nat /\ mem \in Memory /\ top \in 1..STACK_SIZE
      /\ closures \in Seq(Frame) /\ OperandsFrom(mem, ebp) \in Int
      /\ top <= OperandsFrom(mem, ebp)
  BY RunningFacts
<1>2. WordsNamed(mem, closures)
  BY DEF IInv, LinkedFrames
<1> DEFINE m == [mem EXCEPT ![top - 1] = v]
<1>3. m \in Memory /\ WordsNamed(m, closures)
  BY <1>1, <1>2, WordWritten
<1>4. \A i \in 0..STACK_SIZE : i >= OperandsFrom(mem, ebp) => m[i] = mem[i]
  BY <1>1 DEF Memory
<1>5. PushesTo(top - 1, m, callee)
  BY DEF Push
<1>6. ASSUME Checked(top - 1), NEW i \in (top - 1)..(OperandsFrom(mem, ebp) - 1)
      PROVE  m[i][1] # "addr"
  <2>1. i \in 0..STACK_SIZE
    <3>1. OperandsFrom(mem, ebp) <= STACK_SIZE
      BY RunningFacts
    <3>2. QED
      BY <1>1, <3>1
  <2>2. CASE i = top - 1
    BY <1>1, <2>1, <2>2 DEF Memory
  <2>3. CASE i # top - 1
    BY <1>1, <2>1, <2>3, OperandPlain DEF Memory
  <2>4. QED
    BY <2>2, <2>3
<1> HIDE DEF m
<1>7. QED
  BY <1>1, <1>2, <1>3, <1>4, <1>5, <1>6, OperandsSound

\* A slot of the stack has a value.
LEMMA SlotValue ==
  ASSUME IInv, NEW i \in 0..(STACK_SIZE - 1)
  PROVE  mem[i] \in Value /\ Named(mem[i], closures)
<1>1. STACK_SIZE \in Nat
  BY StackAssumption
<1>2. QED
  BY <1>1 DEF IInv, LinkedFrames, TypeOK, WordsNamed

-----------------------------------------------------------------------------
(* Operands.                                                                *)

\* CONST pushes an integer.
LEMMA ConstSound ==
  ASSUME IInv, Const
  PROVE  IInv'
<1>1. PICK n \in Data : Push(val(n))
  BY DEF Const
<1>2. n \in Int
  BY DataAssumption
<1>3. val(n) \in Value /\ Named(val(n), closures) /\ val(n)[1] # "addr"
  BY <1>2, ValueMade DEF Named
<1>4. QED
  BY <1>1, <1>3, PushSound DEF Const

\* DUP pushes what an operand holds.
LEMMA DupSound ==
  ASSUME IInv, Dup
  PROVE  IInv'
<1>1. /\ top \in 1..STACK_SIZE /\ STACK_SIZE \in Nat /\ NGlobals \in Nat
      /\ OperandsFrom(mem, ebp) \in Int
      /\ OperandsFrom(mem, ebp) <= STACK_SIZE - NGlobals
      /\ NOps = OperandsFrom(mem, ebp) - top /\ NOps >= 1
  BY RunningFacts DEF Dup
<1>2. top \in 0..(STACK_SIZE - 1) /\ top \in top..(OperandsFrom(mem, ebp) - 1)
  BY <1>1
<1>3. mem[top][1] # "addr"
  BY <1>2, OperandPlain DEF Dup
<1>4. QED
  BY <1>2, <1>3, SlotValue, PushSound DEF Dup

\* DROP of a compiled program leaves the frame alone: the operand it takes is one
\* of the frame's.
LEMMA DropSound ==
  ASSUME IInv, Compiled, Drop
  PROVE  IInv'
<1>1. /\ STACK_SIZE \in Nat /\ NGlobals \in Nat /\ mem \in Memory /\ top \in 1..STACK_SIZE
      /\ OperandsFrom(mem, ebp) \in Int
      /\ OperandsFrom(mem, ebp) <= STACK_SIZE - NGlobals
      /\ NOps = OperandsFrom(mem, ebp) - top /\ NOps >= 1
  BY RunningFacts DEF Drop
<1>2. mem' = mem /\ callee' = callee /\ closures' = closures /\ site' = site
  BY DEF Drop
<1>3. CASE Checked(top)
  <2>1. top' = top + 1 /\ state' = state /\ top' \in 1..STACK_SIZE
        /\ top' <= OperandsFrom(mem, ebp)
    BY <1>1, <1>3 DEF Drop
  <2>2. Chain(mem, top, <<>>, Bases) /\ ebp \in Bases
    BY RunningChain DEF Drop
  <2>3. Chain(mem, top', <<>>, Bases)
    BY <2>1, <2>2 DEF Chain, ebp
  <2>4. TypeOK'
    BY <1>2, <2>1 DEF IInv, TypeOK
  <2>5. \A i \in top'..(OperandsFrom(mem, ebp) - 1) : mem[i][1] # "addr"
    BY <1>1, <2>1, OperandPlain DEF Drop
  <2>6. BasesFrom(mem, top') = Bases
    BY <1>1, <2>1, <2>5, BasesKept DEF Drop
  <2>7. callee' = <<>> /\ Bases' = Bases
    BY <1>2, <2>6 DEF Bases, BasesOf, Drop, Running
  <2>8. QED
    BY <1>2, <2>3, <2>4, <2>7 DEF IInv, LinkedFrames
<1>4. CASE ~ Checked(top)
  <2>1. state' = "failed" /\ top' = top
    BY <1>4 DEF Drop
  <2>2. TypeOK'
    BY <1>2, <2>1 DEF IInv, TypeOK
  <2>3. QED
    BY <1>2, <2>1, <2>2 DEF IInv, LinkedFrames
<1>5. QED
  BY <1>3, <1>4

\* SWAP exchanges two operands.
LEMMA SwapSound ==
  ASSUME IInv, Swap
  PROVE  IInv'
<1>1. /\ STACK_SIZE \in Nat /\ NGlobals \in Nat /\ mem \in Memory /\ top \in 1..STACK_SIZE
      /\ OperandsFrom(mem, ebp) \in Int
      /\ OperandsFrom(mem, ebp) <= STACK_SIZE - NGlobals
      /\ NOps = OperandsFrom(mem, ebp) - top /\ NOps >= 2
  BY RunningFacts DEF Swap
<1>2. top \in 0..(STACK_SIZE - 1) /\ top + 1 \in 0..(STACK_SIZE - 1)
      /\ top + 1 < OperandsFrom(mem, ebp)
  BY <1>1
<1>3. /\ mem[top] \in Value /\ Named(mem[top], closures)
      /\ mem[top + 1] \in Value /\ Named(mem[top + 1], closures)
      /\ WordsNamed(mem, closures)
  BY <1>2, SlotValue DEF IInv, LinkedFrames
<1> DEFINE m == [mem EXCEPT ![top] = mem[top + 1]]
           n == [m EXCEPT ![top + 1] = mem[top]]
<1>4. m \in Memory /\ WordsNamed(m, closures)
  BY <1>1, <1>2, <1>3, WordWritten
<1>5. n \in Memory /\ WordsNamed(n, closures)
  <2> HIDE DEF m
  <2>1. QED
    BY <1>1, <1>2, <1>3, <1>4, WordWritten
<1>6. \A i \in 0..STACK_SIZE : i >= OperandsFrom(mem, ebp) => n[i] = mem[i]
  BY <1>1, <1>2 DEF Memory
<1>7. mem' = n
  BY DEF Swap
<1>7a. ASSUME NEW i \in top..(OperandsFrom(mem, ebp) - 1)
       PROVE  n[i][1] # "addr"
  <2>1. i \in 0..STACK_SIZE /\ top \in top..(OperandsFrom(mem, ebp) - 1)
        /\ top + 1 \in top..(OperandsFrom(mem, ebp) - 1)
    BY <1>1, <1>2
  <2>2. n[i] \in {mem[top], mem[top + 1], mem[i]}
    BY <1>1, <2>1 DEF Memory
  <2>3. QED
    BY <2>1, <2>2, OperandPlain DEF Swap
<1> HIDE DEF m, n
<1>7b. BasesFrom(n, top) = Bases
  BY <1>1, <1>6, <1>7a, BasesKept DEF Swap
<1> DEFINE B == Bases
<1>8. Chain(mem, top, <<>>, B) /\ ebp \in B
  BY RunningChain DEF Swap
<1> HIDE DEF B
<1>9. /\ FramesIn(n, B) /\ n[STACK_SIZE] = mem[STACK_SIZE]
      /\ OperandsFrom(n, ebp) = OperandsFrom(mem, ebp)
  BY <1>1, <1>6, <1>8, OperandsWritten DEF ebp
<1>10. Chain(n, top, <<>>, B)
  BY <1>8, <1>9 DEF Chain, ebp
<1>11. /\ mem' = n /\ top' = top /\ callee' = callee /\ callee = <<>>
       /\ closures' = closures /\ site' = site /\ state' = state
  BY <1>7 DEF Swap, Running
<1>12. TypeOK'
  BY <1>5, <1>11 DEF IInv, TypeOK, Memory
<1>13. Bases' = B
  BY <1>7b, <1>11 DEF Bases, BasesOf, B
<1>14. QED
  BY <1>5, <1>10, <1>11, <1>12, <1>13 DEF IInv, LinkedFrames

-----------------------------------------------------------------------------
(* LD and ST.                                                               *)

\* The operands of the caller of the running frame end below the saved words of
\* every other frame.
LEMMA CallerApart ==
  ASSUME IInv, Running, NEW e \in Bases, e > ebp
  PROVE  /\ mem[ebp][2] \in Bases /\ mem[ebp][2] # 0 /\ e >= mem[ebp][2]
         /\ OperandsFrom(mem, mem[ebp][2]) <= mem[ebp][2] - 2
         /\ OperandsFrom(mem, mem[ebp][2]) <= e - 2
<1>1. /\ Bases \subseteq Int /\ FramesIn(mem, Bases) /\ ebp \in Bases
  BY RunningChain
<1>2. mem[ebp][2] \in Bases /\ mem[ebp][2] # 0 /\ e >= mem[ebp][2]
  BY <1>1 DEF FramesIn
<1> DEFINE c == mem[ebp][2]
<1>3. mem[c - 2][2] \in Nat /\ OperandsFrom(mem, c) = c - 2 - mem[c - 2][2]
  BY <1>1, <1>2 DEF FramesIn, OperandsFrom
<1>4. c \in Int /\ e \in Int /\ e >= c
  BY <1>1, <1>2
<1> HIDE DEF c
<1>5. OperandsFrom(mem, c) <= c - 2 /\ OperandsFrom(mem, c) <= e - 2
  BY <1>3, <1>4
<1>6. QED
  BY <1>2, <1>5 DEF c

\* Globals, locals and arguments lie in the stack, and not where a frame
\* keeps its saved words.
LEMMA PositionFacts ==
  ASSUME IInv, Running, NEW p \in Positions
  PROVE  /\ p \in top..(STACK_SIZE - 1) /\ p \notin {ebp - 2, ebp - 1, ebp, ebp + 1, ebp + 2}
         /\ \/ p >= STACK_SIZE - NGlobals
            \/ p < ebp - 2
            \/ ebp + 2 < p /\ p < OperandsFrom(mem, mem[ebp][2])
<1>1. /\ STACK_SIZE \in Nat /\ NGlobals \in Nat /\ top \in 1..STACK_SIZE
      /\ ebp \in Int /\ ebp >= 3 /\ ebp + 2 < STACK_SIZE - NGlobals
      /\ NArgs \in Nat /\ NLocals \in Nat /\ top <= ebp - 2 - NLocals
      /\ OperandsFrom(mem, mem[ebp][2]) \in Int
      /\ ebp + 2 + NArgs < OperandsFrom(mem, mem[ebp][2])
      /\ OperandsFrom(mem, mem[ebp][2]) <= STACK_SIZE - NGlobals
  BY RunningFacts
<1>2. CASE \E k \in 0..(NGlobals - 1) : p = GlobalPos(k)
  BY <1>1, <1>2 DEF GlobalPos
<1>3. CASE \E k \in 0..(NLocals - 1) : p = LocalPos(k)
  BY <1>1, <1>3 DEF LocalPos
<1>4. CASE \E k \in 0..(NArgs - 1) : p = ArgPos(k)
  BY <1>1, <1>4 DEF ArgPos
<1>5. QED
  BY <1>2, <1>3, <1>4 DEF Positions

\* They are saved words of no frame, neither of the running one nor of its callers,
\* and hold no code address.
LEMMA PositionsApart ==
  ASSUME IInv, Running, NEW p \in Positions
  PROVE  /\ \A e \in Bases : p \notin (e - 2)..(e + 2)
         /\ mem[p][1] # "addr"
<1>1. /\ STACK_SIZE \in Nat /\ NGlobals \in Nat /\ top \in Int
      /\ OperandsFrom(mem, mem[ebp][2]) \in Int /\ ebp \in Int
  BY RunningFacts
<1>2. /\ p \in top..(STACK_SIZE - 1)
      /\ \/ p >= STACK_SIZE - NGlobals
         \/ p < ebp - 2
         \/ ebp + 2 < p /\ p < OperandsFrom(mem, mem[ebp][2])
  BY PositionFacts
<1>3. ASSUME NEW e \in Bases
      PROVE  p \notin (e - 2)..(e + 2)
  <2>1. e \in Int /\ ebp <= e /\ e + 2 < STACK_SIZE - NGlobals /\ p \in Int
    BY <1>1, <1>2, RunningChain
  <2>2. CASE p >= STACK_SIZE - NGlobals \/ p < ebp - 2
    BY <1>1, <2>1, <2>2
  <2>3. CASE ebp + 2 < p /\ p < OperandsFrom(mem, mem[ebp][2])
    <3>1. CASE e = ebp
      BY <1>1, <2>1, <2>3, <3>1
    <3>2. CASE e # ebp
      <4>1. e > ebp
        BY <1>1, <2>1, <3>2
      <4>2. OperandsFrom(mem, mem[ebp][2]) <= e - 2
        BY <4>1, CallerApart
      <4>3. QED
        BY <1>1, <2>1, <2>3, <4>2
    <3>3. QED
      BY <3>1, <3>2
  <2>4. QED
    BY <1>2, <2>2, <2>3
<1>4. p + 1 \notin Bases
  <2>1. \A e \in Bases : e \in Int
    BY RunningChain
  <2>2. ASSUME p + 1 \in Bases
        PROVE  FALSE
    <3>1. p \in ((p + 1) - 2)..((p + 1) + 2)
      BY <1>1, <1>2
    <3>2. QED
      BY <1>3, <2>2, <3>1
  <2>3. QED
    BY <2>2
<1>5. QED
  BY <1>2, <1>3, <1>4, NoAddress

\* LD pushes what a slot of the frame or a global holds.
LEMMA LoadSound ==
  ASSUME IInv, Load
  PROVE  IInv'
<1>1. PICK p \in Positions : Push(mem[p])
  BY DEF Load
<1>2. p \in top..(STACK_SIZE - 1) /\ top \in 1..STACK_SIZE /\ STACK_SIZE \in Nat
  BY PositionFacts, RunningFacts DEF Load
<1>3. p \in 0..(STACK_SIZE - 1)
  BY <1>2
<1>4. Running /\ mem[p][1] # "addr"
  BY PositionsApart DEF Load
<1>5. QED
  BY <1>1, <1>3, <1>4, SlotValue, PushSound DEF Load

\* What ST writes is a saved word of no frame, so the bases stay.
LEMMA StoreKeeps ==
  ASSUME IInv, Store
  PROVE  /\ \A e \in Bases : \A i \in (e - 2)..(e + 2) : mem'[i] = mem[i]
         /\ Bases' = Bases /\ mem' \in Memory /\ mem'[STACK_SIZE] = mem[STACK_SIZE]
         /\ WordsNamed(mem', closures)
<1>0. Running /\ top' = top /\ callee' = callee
  BY DEF Store
<1>1. PICK p \in Positions : mem' = [mem EXCEPT ![p] = mem[top]]
  BY DEF Store
<1>2. /\ STACK_SIZE \in Nat /\ NGlobals \in Nat /\ mem \in Memory /\ top \in 1..STACK_SIZE
      /\ OperandsFrom(mem, ebp) \in Int
      /\ OperandsFrom(mem, ebp) <= STACK_SIZE - NGlobals
      /\ NOps = OperandsFrom(mem, ebp) - top /\ NOps >= 1
  BY RunningFacts DEF Store
<1>3. /\ p \in top..(STACK_SIZE - 1)
      /\ \A e \in Bases : p \notin (e - 2)..(e + 2)
      /\ mem[p][1] # "addr"
  BY <1>0, PositionFacts, PositionsApart
<1>4. p \in 0..(STACK_SIZE - 1) /\ top \in 0..(STACK_SIZE - 1)
      /\ top \in top..(OperandsFrom(mem, ebp) - 1)
  BY <1>2, <1>3
<1>5. /\ mem[top] \in Value /\ Named(mem[top], closures) /\ WordsNamed(mem, closures)
      /\ mem[top][1] # "addr"
  BY <1>0, <1>4, SlotValue, OperandPlain DEF IInv, LinkedFrames
<1>6. mem' \in Memory /\ WordsNamed(mem', closures)
  BY <1>1, <1>2, <1>4, <1>5, WordWritten
<1>7. \A i \in 0..STACK_SIZE : mem'[i] = IF i = p THEN mem[top] ELSE mem[i]
  BY <1>1, <1>2 DEF Memory
<1>8. ASSUME NEW e \in Bases, NEW i \in (e - 2)..(e + 2)
      PROVE  mem'[i] = mem[i]
  <2>1. e \in Int /\ e >= 3 /\ e + 2 < STACK_SIZE - NGlobals
    BY <1>0, RunningChain
  <2>2. i \in 0..STACK_SIZE
    BY <1>2, <2>1
  <2>3. i # p
    BY <1>3
  <2>4. QED
    BY <1>7, <2>2, <2>3
<1>9. BasesFrom(mem', top) = BasesFrom(mem, top)
  <2>1. ASSUME NEW e \in (top + 1)..STACK_SIZE
        PROVE  mem'[e - 1][1] = "addr" <=> mem[e - 1][1] = "addr"
    <3>1. e - 1 \in 0..STACK_SIZE
      BY <1>2
    <3>2. QED
      BY <1>3, <1>5, <1>7, <3>1
  <2>2. QED
    BY <2>1 DEF BasesFrom
<1>10. callee = <<>>
  BY <1>0 DEF Running
<1>11. Bases' = Bases
  BY <1>0, <1>9, <1>10 DEF Bases, BasesOf
<1>12. mem'[STACK_SIZE] = mem[STACK_SIZE]
  BY <1>2, <1>4, <1>7
<1>13. QED
  BY <1>6, <1>8, <1>11, <1>12

\* ST writes a global, a local or an argument.
LEMMA StoreSound ==
  ASSUME IInv, Store
  PROVE  IInv'
<1>1. /\ Running /\ callee = <<>> /\ top' = top /\ callee' = callee
      /\ closures' = closures /\ site' = site /\ state' = state
  BY DEF Store, Running
<1>2. /\ \A e \in Bases : \A i \in (e - 2)..(e + 2) : mem'[i] = mem[i]
      /\ Bases' = Bases /\ mem' \in Memory /\ mem'[STACK_SIZE] = mem[STACK_SIZE]
      /\ WordsNamed(mem', closures)
  BY StoreKeeps
<1>3. Bases \subseteq Int /\ FramesIn(mem, Bases) /\ Chain(mem, top, <<>>, Bases)
  BY <1>1, RunningChain
<1>4. /\ FramesIn(mem', Bases)
      /\ \A e \in Bases \cup {0} : OperandsFrom(mem', e) = OperandsFrom(mem, e)
  BY <1>2, <1>3, FramesKept
<1>5. Chain(mem', top, <<>>, Bases)
  BY <1>2, <1>3, <1>4 DEF Chain
<1>6. TypeOK'
  BY <1>1, <1>2 DEF IInv, TypeOK, Memory
<1>7. QED
  BY <1>1, <1>2, <1>5, <1>6 DEF IInv, LinkedFrames

-----------------------------------------------------------------------------
(* Closures.                                                                *)

\* A word that names a closure and is not 0 names one of those made.
LEMMA NamedClosure ==
  ASSUME IInv, NEW v \in Value, Named(v, closures), v[1] = "ptr", v # ptr(0)
  PROVE  /\ v[2] \in 1..Len(closures) /\ closures[v[2]] \in Frame
         /\ \A j \in DOMAIN closures[v[2]].captured :
              /\ Named(closures[v[2]].captured[j], closures)
              /\ closures[v[2]].captured[j][1] # "addr"
<1>1. closures \in Seq(Frame) /\ WordsNamed(mem, closures)
  BY DEF IInv, LinkedFrames, TypeOK, Frame
<1>2. v = <<v[1], v[2]>> /\ v[2] \in Int
  BY DEF Value
<1>3. v[2] # 0
  BY <1>2 DEF ptr
<1>4. Len(closures) \in Nat /\ DOMAIN closures = 1..Len(closures)
  BY <1>1, LenProperties
<1>5. v[2] \in 1..Len(closures)
  BY <1>2, <1>3, <1>4 DEF Named
<1>6. closures[v[2]] \in Frame
  BY <1>1, <1>5, ElementOfSeq
<1>7. QED
  BY <1>1, <1>4, <1>5, <1>6 DEF WordsNamed

\* The values a running closure captured.
LEMMA SelfFacts ==
  ASSUME IInv, Running
  PROVE  /\ InClosure => /\ Self[2] \in 1..Len(closures) /\ closures[Self[2]] \in Frame
                         /\ Captured = closures[Self[2]].captured
         /\ Captured \in Seq(Value)
         /\ \A i \in DOMAIN Captured : /\ Captured[i] \in Value
                                       /\ Named(Captured[i], closures)
                                       /\ Captured[i][1] # "addr"
<1>1. ebp + 2 \in 0..(STACK_SIZE - 1)
  <2>1. /\ STACK_SIZE \in Nat /\ NGlobals \in Nat /\ ebp \in Int /\ ebp >= 3
        /\ ebp + 2 < STACK_SIZE - NGlobals
    BY RunningFacts
  <2>2. QED
    BY <2>1
<1>2. Self \in Value /\ Named(Self, closures)
  BY <1>1, SlotValue DEF Self
<1>3. CASE InClosure
  <2>1. /\ Self[2] \in 1..Len(closures) /\ closures[Self[2]] \in Frame
        /\ \A j \in DOMAIN closures[Self[2]].captured :
             /\ Named(closures[Self[2]].captured[j], closures)
             /\ closures[Self[2]].captured[j][1] # "addr"
    BY <1>2, <1>3, NamedClosure DEF InClosure
  <2>2. Captured = closures[Self[2]].captured
    BY <1>3 DEF Captured
  <2>3. Captured \in Seq(Value)
    BY <2>1, <2>2 DEF Frame
  <2>4. \A i \in DOMAIN Captured : Captured[i] \in Value
    BY <2>3, ElementOfSeq, LenProperties
  <2>5. QED
    BY <2>1, <2>2, <2>3, <2>4
<1>4. CASE ~ InClosure
  BY <1>4, EmptySeq DEF Captured
<1>5. QED
  BY <1>3, <1>4

\* LD C of a compiled program pushes a captured value.
LEMMA LoadCapturedSound ==
  ASSUME IInv, Compiled, LoadCaptured
  PROVE  IInv'
<1>1. Running /\ Captured \in Seq(Value)
      /\ \A i \in DOMAIN Captured : /\ Captured[i] \in Value
                                   /\ Named(Captured[i], closures)
                                   /\ Captured[i][1] # "addr"
  BY SelfFacts DEF LoadCaptured
<1>2. Len(Captured) \in Nat /\ DOMAIN Captured = 1..Len(Captured)
  BY <1>1, LenProperties
<1>3. PICK k \in 0..CapturedLen : k < Len(Captured) /\ Push(Captured[k + 1])
  BY <1>2 DEF LoadCaptured, IndexPasses, CapturedLen
<1>4. k + 1 \in DOMAIN Captured
  BY <1>2, <1>3 DEF CapturedLen
<1>5. QED
  BY <1>1, <1>3, <1>4, PushSound DEF LoadCaptured

\* What names a closure does so when more of them are made.
LEMMA StillNamed ==
  ASSUME NEW v \in Value, NEW made, NEW more, Len(made) \in Nat, Len(more) \in Nat,
         Len(made) <= Len(more), Named(v, made)
  PROVE  Named(v, more)
BY ValueParts DEF Named

\* ST C writes a closure and not the stack.
LEMMA StoreCapturedSound ==
  ASSUME IInv, StoreCaptured
  PROVE  IInv'
<1>0. Running /\ InClosure /\ NOps >= 1
      /\ mem' = mem /\ top' = top /\ callee' = callee /\ site' = site /\ state' = state
  BY DEF StoreCaptured
<1>1. PICK k \in 1..Len(Captured) :
        closures' = [closures EXCEPT ![Self[2]].captured[k] = mem[top]]
  BY DEF StoreCaptured
<1>2. /\ STACK_SIZE \in Nat /\ NGlobals \in Nat /\ top \in 1..STACK_SIZE
      /\ closures \in Seq(Frame) /\ OperandsFrom(mem, ebp) \in Int
      /\ OperandsFrom(mem, ebp) <= STACK_SIZE - NGlobals
      /\ NOps = OperandsFrom(mem, ebp) - top
  BY <1>0, RunningFacts
<1>3. top \in 0..(STACK_SIZE - 1)
  BY <1>0, <1>2
<1>4. /\ mem[top] \in Value /\ Named(mem[top], closures) /\ WordsNamed(mem, closures)
      /\ mem[top][1] # "addr"
  <2>1. top \in top..(OperandsFrom(mem, ebp) - 1)
    BY <1>0, <1>2
  <2>2. QED
    BY <1>0, <1>3, <2>1, SlotValue, OperandPlain DEF IInv, LinkedFrames
<1> DEFINE s == Self[2]
           old == closures[s]
           new == [old EXCEPT !.captured = [old.captured EXCEPT ![k] = mem[top]]]
<1>5. /\ s \in 1..Len(closures) /\ old \in Frame /\ Captured = old.captured
  BY <1>0, SelfFacts
<1>6. old.captured \in Seq(Value) /\ k \in 1..Len(old.captured)
  BY <1>5 DEF Frame
<1>7. /\ [old.captured EXCEPT ![k] = mem[top]] \in Seq(Value)
      /\ DOMAIN [old.captured EXCEPT ![k] = mem[top]] = DOMAIN old.captured
  BY <1>4, <1>6, ExceptSeq
<1>8. /\ new \in Frame /\ DOMAIN new.captured = DOMAIN old.captured
      /\ \A j \in DOMAIN old.captured :
           new.captured[j] = IF j = k THEN mem[top] ELSE old.captured[j]
  BY <1>5, <1>6, <1>7 DEF Frame
<1>9. closures' = [closures EXCEPT ![s] = new]
  BY <1>1
<1> HIDE DEF old, new
<1>10. /\ closures' \in Seq(Frame) /\ Len(closures') = Len(closures)
       /\ DOMAIN closures' = DOMAIN closures /\ DOMAIN closures = 1..Len(closures)
       /\ \A i \in 1..Len(closures) : closures'[i] = IF i = s THEN new ELSE closures[i]
  BY <1>2, <1>5, <1>8, <1>9, ExceptSeq, LenProperties
<1>11. WordsNamed(mem', closures')
  <2>1. ASSUME NEW i \in DOMAIN closures', NEW j \in DOMAIN closures'[i].captured
        PROVE  Named(closures'[i].captured[j], closures') /\ closures'[i].captured[j][1] # "addr"
    <3>1. CASE i = s
      <4>1. closures'[i].captured = new.captured /\ j \in DOMAIN old.captured
        BY <1>8, <1>10, <2>1, <3>1
      <4>2. Named(old.captured[j], closures) /\ old.captured[j][1] # "addr"
        BY <1>4, <1>5, <1>10, <4>1 DEF WordsNamed, old
      <4>3. Named(closures'[i].captured[j], closures) /\ closures'[i].captured[j][1] # "addr"
        BY <1>4, <1>8, <4>1, <4>2
      <4>4. QED
        BY <1>10, <4>3 DEF Named
    <3>2. CASE i # s
      BY <1>4, <1>10, <3>2 DEF WordsNamed, Named
    <3>3. QED
      BY <3>1, <3>2
  <2>2. ASSUME NEW q \in 0..(STACK_SIZE - 1)
        PROVE  Named(mem'[q], closures')
    BY <1>0, <1>4, <1>10 DEF WordsNamed, Named
  <2>3. QED
    BY <2>1, <2>2 DEF WordsNamed
<1>12. TypeOK'
  BY <1>0, <1>10 DEF IInv, TypeOK, Frame
<1>13. Bases' = Bases
  BY <1>0 DEF Bases
<1>14. QED
  BY <1>0, <1>11, <1>12, <1>13 DEF IInv, LinkedFrames

\* CLOSURE writes below the operands it finds only, and what it captures and
\* the new closure itself have been made.
LEMMA MakeClosureSound ==
  ASSUME IInv, MakeClosure
  PROVE  IInv'
<1>0. Running /\ UNCHANGED site
  BY DEF MakeClosure
<1> DEFINE Loaded == {mem[p] : p \in Positions} \cup {Captured[i] : i \in DOMAIN Captured}
           m(n, vs) == [k \in DOMAIN mem |->
                          IF k = top - 1 THEN ptr(Len(closures) + 1)
                          ELSE IF k = top - n - 1 THEN addr(0)
                          ELSE IF k < top /\ k >= top - n THEN vs[top - k]
                          ELSE mem[k]]
<1>1. PICK f \in Funs, n \in CaptureSizes : \E vs \in [1..n -> Loaded] :
        IF Checked(top - n - 1)
        THEN /\ closures' = Append(closures, [fun |-> f, captured |-> vs])
             /\ mem' = m(n, vs) /\ top' = top - 1 /\ UNCHANGED <<callee, state>>
        ELSE Fail /\ UNCHANGED closures
  BY DEF MakeClosure
<1>2. PICK vs \in [1..n -> Loaded] :
        IF Checked(top - n - 1)
        THEN /\ closures' = Append(closures, [fun |-> f, captured |-> vs])
             /\ mem' = m(n, vs) /\ top' = top - 1 /\ UNCHANGED <<callee, state>>
        ELSE Fail /\ UNCHANGED closures
  BY <1>1
<1>3. /\ STACK_SIZE \in Nat /\ NGlobals \in Nat /\ mem \in Memory /\ top \in 1..STACK_SIZE
      /\ closures \in Seq(Frame) /\ site \in Sites \cup {0}
      /\ OperandsFrom(mem, ebp) \in Int
      /\ OperandsFrom(mem, ebp) <= STACK_SIZE - NGlobals
      /\ top <= OperandsFrom(mem, ebp)
  BY <1>0, RunningFacts
<1>4. n \in Nat /\ Len(closures) \in Nat /\ DOMAIN closures = 1..Len(closures)
      /\ WordsNamed(mem, closures)
  BY <1>3, CaptureAssumption, LenProperties DEF IInv, LinkedFrames
<1>5. CASE ~ Checked(top - n - 1)
  <2>1. /\ state' = "failed" /\ mem' = mem /\ top' = top /\ callee' = callee
        /\ closures' = closures /\ site' = site
    BY <1>0, <1>2, <1>5 DEF Fail
  <2>2. TypeOK'
    BY <2>1 DEF IInv, TypeOK
  <2>3. QED
    BY <1>4, <2>1, <2>2 DEF IInv, LinkedFrames
<1>6. CASE Checked(top - n - 1)
  <2>1. /\ closures' = Append(closures, [fun |-> f, captured |-> vs])
        /\ mem' = m(n, vs) /\ top' = top - 1 /\ UNCHANGED <<callee, state>>
    BY <1>2, <1>6
  <2>2. ASSUME NEW v \in Loaded
        PROVE  v \in Value /\ Named(v, closures) /\ v[1] # "addr"
    <3>1. CASE v \in {mem[p] : p \in Positions}
      <4>1. PICK p \in Positions : v = mem[p]
        BY <3>1
      <4>2. p \in top..(STACK_SIZE - 1)
        BY <1>0, PositionFacts
      <4>3. p \in 0..(STACK_SIZE - 1)
        BY <1>3, <4>2
      <4>4. QED
        BY <1>0, <4>1, <4>3, SlotValue, PositionsApart
    <3>2. CASE v \in {Captured[i] : i \in DOMAIN Captured}
      BY <1>0, <3>2, SelfFacts
    <3>3. QED
      BY <3>1, <3>2
  <2>3. vs \in Seq(Value) /\ DOMAIN vs = 1..n /\ \A j \in 1..n : vs[j] \in Loaded
    <3> HIDE DEF Loaded
    <3>1. DOMAIN vs = 1..n /\ \A j \in 1..n : vs[j] \in Loaded
      OBVIOUS
    <3>2. \A j \in 1..n : vs[j] \in Value
      BY <2>2, <3>1
    <3>3. vs \in [1..n -> Value]
      BY <3>1, <3>2
    <3>4. QED
      BY <1>4, <3>1, <3>3
  <2> HIDE DEF Loaded
  <2> DEFINE new == [fun |-> f, captured |-> vs]
  <2>4. new \in Frame /\ new.captured = vs
    BY <2>3 DEF Frame
  <2> HIDE DEF new
  <2>5. /\ closures' \in Seq(Frame) /\ Len(closures') = Len(closures) + 1
        /\ \A i \in 1..Len(closures) : closures'[i] = closures[i]
        /\ closures'[Len(closures) + 1] = new
    BY <1>3, <2>1, <2>4, AppendProperties DEF new
  <2>6. DOMAIN closures' = 1..(Len(closures) + 1)
    BY <2>5, LenProperties
  <2>7. \A v \in Value : Named(v, closures) => Named(v, closures')
    BY <1>4, <2>5, StillNamed
  <2>8. ASSUME NEW i \in DOMAIN closures', NEW j \in DOMAIN closures'[i].captured
        PROVE  Named(closures'[i].captured[j], closures') /\ closures'[i].captured[j][1] # "addr"
    <3>1. CASE i = Len(closures) + 1
      <4>1. closures'[i].captured = vs /\ j \in 1..n
        BY <2>3, <2>4, <2>5, <3>1
      <4>2. QED
        BY <2>2, <2>3, <2>7, <4>1
    <3>2. CASE i # Len(closures) + 1
      <4>1. i \in 1..Len(closures) /\ closures'[i] = closures[i]
        BY <1>4, <2>5, <2>6, <3>2
      <4>2a. closures[i] \in Frame
        BY <1>3, <4>1, ElementOfSeq
      <4>2. closures[i].captured \in Seq(Value)
        BY <4>2a DEF Frame
      <4>3. j \in DOMAIN closures[i].captured /\ closures[i].captured[j] \in Value
        BY <4>1, <4>2, ElementOfSeq, LenProperties
      <4>4. Named(closures[i].captured[j], closures) /\ closures[i].captured[j][1] # "addr"
        BY <1>4, <4>1, <4>3 DEF WordsNamed
      <4>5. QED
        BY <2>7, <4>1, <4>3, <4>4
    <3>3. QED
      BY <3>1, <3>2
  <2>9. ASSUME NEW q \in 0..STACK_SIZE
        PROVE  /\ m(n, vs)[q] \in Value
               /\ q < STACK_SIZE => Named(m(n, vs)[q], closures')
               /\ q >= OperandsFrom(mem, ebp) => m(n, vs)[q] = mem[q]
               /\ top - 1 <= q /\ q < OperandsFrom(mem, ebp) => m(n, vs)[q][1] # "addr"
    <3>0. DOMAIN mem = 0..STACK_SIZE /\ mem[q] \in Value
          /\ (q < STACK_SIZE => Named(mem[q], closures))
      <4>1. q < STACK_SIZE => q \in 0..(STACK_SIZE - 1)
        BY <1>3
      <4>2. DOMAIN mem = 0..STACK_SIZE /\ mem[q] \in Value
        BY <1>3 DEF Memory
      <4>3. QED
        BY <4>1, <4>2, SlotValue
    <3>1. CASE q = top - 1
      <4>1. m(n, vs)[q] = ptr(Len(closures) + 1)
        BY <3>0, <3>1
      <4>2. /\ ptr(Len(closures) + 1) \in Value /\ ptr(Len(closures) + 1)[2] = Len(closures) + 1
            /\ ptr(Len(closures) + 1)[1] = "ptr"
        BY <1>4, ValueMade
      <4>3. q < OperandsFrom(mem, ebp)
        BY <1>3, <3>1
      <4>4. QED
        BY <1>3, <1>4, <2>5, <4>1, <4>2, <4>3 DEF Named
    <3>2. CASE q # top - 1 /\ q = top - n - 1
      <4>1. m(n, vs)[q] = addr(0)
        BY <3>0, <3>2
      <4>2. addr(0) \in Value /\ addr(0)[1] = "addr"
        BY ValueMade
      <4>3. q < OperandsFrom(mem, ebp) /\ q < top - 1
        BY <1>3, <1>4, <3>2
      <4>4. QED
        BY <1>3, <4>1, <4>2, <4>3 DEF Named
    <3>3. CASE q # top - 1 /\ q # top - n - 1 /\ q < top /\ q >= top - n
      <4>1. m(n, vs)[q] = vs[top - q] /\ top - q \in 1..n
        BY <1>3, <1>4, <3>0, <3>3
      <4>2. m(n, vs)[q] \in Value /\ Named(m(n, vs)[q], closures') /\ m(n, vs)[q][1] # "addr"
        BY <2>2, <2>3, <2>7, <4>1
      <4>3. q < OperandsFrom(mem, ebp)
        BY <1>3, <3>3
      <4>4. QED
        BY <1>3, <4>2, <4>3
    <3>4. CASE q # top - 1 /\ q # top - n - 1 /\ ~ (q < top /\ q >= top - n)
      <4>1. m(n, vs)[q] = mem[q]
        BY <3>0, <3>4
      <4>2. top - 1 <= q /\ q < OperandsFrom(mem, ebp) => q \in top..(OperandsFrom(mem, ebp) - 1)
        BY <1>3, <3>4
      <4>3. QED
        BY <1>0, <2>7, <3>0, <4>1, <4>2, OperandPlain
    <3>5. QED
      BY <3>1, <3>2, <3>3, <3>4
  <2>10. m(n, vs) \in Memory
    <3>1. DOMAIN m(n, vs) = 0..STACK_SIZE /\ m(n, vs) = [q \in DOMAIN m(n, vs) |-> m(n, vs)[q]]
      BY <1>3 DEF Memory
    <3> HIDE DEF m
    <3>2. QED
      BY <2>9, <3>1 DEF Memory
  <2> HIDE DEF m
  <2>11. WordsNamed(m(n, vs), closures')
    BY <1>3, <2>8, <2>9 DEF WordsNamed
  <2>12. WordsNamed(mem, closures')
    <3>1. \A k \in 0..(STACK_SIZE - 1) : mem[k] \in Value /\ Named(mem[k], closures)
      BY SlotValue
    <3>2. QED
      BY <2>7, <2>8, <3>1 DEF WordsNamed
  <2>13. PushesTo(top - 1, m(n, vs), callee)
    BY <1>3, <1>4, <1>6, <2>1 DEF PushesTo, Checked
  <2>14. top - 1 \in Int /\ top - 1 <= OperandsFrom(mem, ebp)
    BY <1>3
  <2>15. \A i \in 0..STACK_SIZE : i >= OperandsFrom(mem, ebp) => m(n, vs)[i] = mem[i]
    BY <2>9
  <2>16. ASSUME NEW i \in (top - 1)..(OperandsFrom(mem, ebp) - 1)
         PROVE  m(n, vs)[i][1] # "addr"
    <3>1. i \in 0..STACK_SIZE /\ top - 1 <= i /\ i < OperandsFrom(mem, ebp)
      BY <1>3
    <3>2. QED
      BY <2>9, <3>1
  <2>17. QED
    BY <1>0, <2>5, <2>10, <2>11, <2>12, <2>13, <2>14, <2>15, <2>16, OperandsSound
<1>7. QED
  BY <1>5, <1>6

-----------------------------------------------------------------------------
(* Calls.                                                                   *)

\* The operands a function is called with are values of the stack.
LEMMA PushedSound ==
  ASSUME IInv, Running, NEW n \in Nat, n <= NOps, NEW f \in Funs
  PROVE  <<[fun |-> f, pushed |-> Pushed(n)]>> \in Calls
<1>1. /\ STACK_SIZE \in Nat /\ NGlobals \in Nat /\ top \in 1..STACK_SIZE
      /\ OperandsFrom(mem, ebp) \in Int
      /\ OperandsFrom(mem, ebp) <= STACK_SIZE - NGlobals
      /\ NOps = OperandsFrom(mem, ebp) - top
  BY RunningFacts
<1>2. ASSUME NEW i \in 1..n
      PROVE  mem[top + n - i] \in Value
  <2>1. top + n - i \in 0..(STACK_SIZE - 1)
    BY <1>1
  <2>2. QED
    BY <2>1, SlotValue
<1>3. Pushed(n) \in [1..n -> Value]
  BY <1>2 DEF Pushed
<1>4. Pushed(n) \in Seq(Value)
  BY <1>3
<1> DEFINE c == [fun |-> f, pushed |-> Pushed(n)]
<1>5. c \in [fun : Funs, pushed : Seq(Value)]
  BY <1>4
<1> HIDE DEF c
<1>6. <<c>> \in Calls
  BY <1>5 DEF Calls
<1>7. QED
  BY <1>6 DEF c

\* A call leaves the frames alone when it writes below the operands only, and
\* its arguments end there.
LEMMA CallPushes ==
  ASSUME IInv, Running, NEW t \in Int, t <= STACK_SIZE, NEW m \in Memory, NEW r \in Sites,
         NEW call \in Calls, call # <<>>,
         t + 1 + call[1].fun.args < OperandsFrom(mem, ebp),
         t \in 0..STACK_SIZE => m[t] = addr(r) /\ IsSelf(m[t + 1]),
         PushesTo(t, m, call), UNCHANGED <<closures, site>>,
         WordsNamed(m, closures),
         \A i \in 0..STACK_SIZE : i >= OperandsFrom(mem, ebp) => m[i] = mem[i],
         t \in 0..STACK_SIZE =>
           \A i \in (t + 1)..(OperandsFrom(mem, ebp) - 1) : m[i][1] # "addr"
  PROVE  IInv' /\ (state' = "running" => Bases' = Bases)
<1>1. /\ STACK_SIZE \in Nat /\ NGlobals \in Nat /\ mem \in Memory /\ site \in Sites \cup {0}
      /\ closures \in Seq(Frame) /\ OperandsFrom(mem, ebp) \in Int /\ top \in Int
      /\ WordsNamed(mem, closures) /\ ebp \in Int /\ ebp # 0
  <2>1. WordsNamed(mem, closures)
    BY DEF IInv, LinkedFrames
  <2>2. /\ STACK_SIZE \in Nat /\ NGlobals \in Nat /\ mem \in Memory
        /\ site \in Sites \cup {0} /\ closures \in Seq(Frame)
        /\ OperandsFrom(mem, ebp) \in Int /\ top \in 1..STACK_SIZE
        /\ ebp \in Int /\ ebp >= 3
    BY RunningFacts
  <2>3. top \in Int /\ ebp # 0
    BY <2>2
  <2>4. QED
    BY <2>1, <2>2, <2>3
<1> DEFINE B == Bases
<1>2. Chain(mem, top, <<>>, B) /\ ebp \in B
  BY RunningChain
<1>3. ASSUME t \in 0..STACK_SIZE
      PROVE  BasesOf(m, t, call) = B
  <2>1. call[1].fun.args \in Nat
    BY CallMade
  <2>2. t + 1 \in Int /\ t + 1 <= OperandsFrom(mem, ebp)
    BY <1>1, <2>1
  <2>3. BasesFrom(m, t + 1) = Bases
    BY <1>3, <2>2, BasesKept
  <2>4. QED
    BY <2>3 DEF BasesOf
<1> HIDE DEF B
<1>4. /\ FramesIn(m, B) /\ m[STACK_SIZE] = mem[STACK_SIZE]
      /\ OperandsFrom(m, ebp) = OperandsFrom(mem, ebp)
  BY <1>1, <1>2, OperandsWritten DEF ebp
<1>5. ASSUME Checked(t)
      PROVE  Chain(m, t, call, BasesOf(m, t, call)) /\ BasesOf(m, t, call) = B
  <2>1. t \in 0..STACK_SIZE
    BY <1>1, <1>5 DEF Checked
  <2>2. r \in Int
    BY DataAssumption
  <2>3. m[t][2] = r /\ m[t][1] = "addr" /\ IsSelf(m[t + 1]) /\ r \in ReturnsTo(ebp)
    BY <1>1, <2>1, <2>2, ValueMade DEF ReturnsTo
  <2>4. Chain(m, t, call, B)
    BY <1>1, <1>2, <1>4, <2>3 DEF Chain, ebp
  <2>5. QED
    BY <1>3, <2>1, <2>4
<1>6. IInv'
  BY <1>1, <1>5, PushesSound
<1>7. ASSUME state' = "running"
      PROVE  Bases' = Bases
  <2>1. Checked(t)
    BY <1>7 DEF PushesTo, Fail
  <2>2. mem' = m /\ top' = t /\ callee' = call
    BY <2>1 DEF PushesTo
  <2>3. QED
    BY <1>5, <2>1, <2>2 DEF Bases, B
<1>8. QED
  BY <1>6, <1>7

\* CALL turns the arguments round where they are, and pushes two words.
LEMMA CallSound ==
  ASSUME IInv, Call
  PROVE  IInv' /\ (state' = "running" => Bases' = Bases)
<1>0. Running /\ UNCHANGED <<closures, site>>
  BY DEF Call
<1> DEFINE m(n, r) == [Reversed(n) EXCEPT ![top - 1] = val(0), ![top - 2] = addr(r)]
<1>1. PICK f \in Funs, r \in Sites :
        /\ NOps >= f.args
        /\ PushesTo(top - 2, m(f.args, r), <<[fun |-> f, pushed |-> Pushed(f.args)]>>)
  BY DEF Call
<1> DEFINE n == f.args
           call == <<[fun |-> f, pushed |-> Pushed(n)]>>
<1>2. /\ STACK_SIZE \in Nat /\ NGlobals \in Nat /\ mem \in Memory /\ top \in 1..STACK_SIZE
      /\ OperandsFrom(mem, ebp) \in Int
      /\ OperandsFrom(mem, ebp) <= STACK_SIZE - NGlobals
      /\ NOps = OperandsFrom(mem, ebp) - top
  BY <1>0, RunningFacts
<1>3. n \in Nat /\ n <= NOps /\ r \in Int
  BY <1>1, <1>2, FunsAssumption, DataAssumption
<1>4. call \in Calls /\ call # <<>> /\ call[1].fun.args = n
  <2>1. call \in Calls
    BY <1>0, <1>3, PushedSound
  <2>2. QED
    BY <2>1
<1>5. ASSUME NEW q \in 0..STACK_SIZE
      PROVE  /\ m(n, r)[q] \in Value
             /\ q < STACK_SIZE => Named(m(n, r)[q], closures)
             /\ q >= OperandsFrom(mem, ebp) => m(n, r)[q] = mem[q]
             /\ q = top - 2 => m(n, r)[q] = addr(r)
             /\ q = top - 1 => m(n, r)[q] = val(0)
             /\ top - 1 <= q /\ q < OperandsFrom(mem, ebp) => m(n, r)[q][1] # "addr"
  <2>0. DOMAIN mem = 0..STACK_SIZE /\ mem[q] \in Value
    BY <1>2 DEF Memory
  <2>1. CASE q = top - 1 \/ q = top - 2
    <3>1. \/ q = top - 1 /\ m(n, r)[q] = val(0)
          \/ q = top - 2 /\ m(n, r)[q] = addr(r)
      BY <1>2, <2>0, <2>1 DEF Reversed
    <3>2. /\ val(0) \in Value /\ val(0)[1] = "val"
          /\ addr(r) \in Value /\ addr(r)[1] = "addr"
      BY <1>3, ValueMade
    <3>3. q < OperandsFrom(mem, ebp) /\ top - 2 # top - 1 /\ ~ (top - 1 <= top - 2)
      BY <1>2, <1>3, <2>1
    <3> HIDE DEF m
    <3>4. QED
      BY <1>2, <3>1, <3>2, <3>3 DEF Named
  <2>2. CASE q # top - 1 /\ q # top - 2 /\ top <= q /\ q < top + n
    <3>1. m(n, r)[q] = mem[top + (top + n - 1 - q)]
      BY <1>2, <2>0, <2>2 DEF Reversed
    <3>2. /\ top + (top + n - 1 - q) \in 0..(STACK_SIZE - 1) /\ q < OperandsFrom(mem, ebp)
          /\ top + (top + n - 1 - q) \in top..(OperandsFrom(mem, ebp) - 1)
      BY <1>2, <1>3, <2>2
    <3>3. QED
      BY <1>0, <1>2, <2>2, <3>1, <3>2, SlotValue, OperandPlain
  <2>3. CASE q # top - 1 /\ q # top - 2 /\ ~ (top <= q /\ q < top + n)
    <3>1. m(n, r)[q] = mem[q]
      BY <1>2, <2>0, <2>3 DEF Reversed
    <3>2. /\ q < STACK_SIZE => q \in 0..(STACK_SIZE - 1)
          /\ top - 1 <= q /\ q < OperandsFrom(mem, ebp) => q \in top..(OperandsFrom(mem, ebp) - 1)
      BY <1>2, <2>3
    <3>3. QED
      BY <1>0, <2>0, <2>3, <3>1, <3>2, SlotValue, OperandPlain
  <2>4. QED
    BY <2>1, <2>2, <2>3
<1>6. m(n, r) \in Memory
  <2>1. DOMAIN m(n, r) = 0..STACK_SIZE /\ m(n, r) = [q \in DOMAIN m(n, r) |-> m(n, r)[q]]
    BY <1>2 DEF Memory, Reversed
  <2> HIDE DEF m
  <2>2. QED
    BY <1>5, <2>1 DEF Memory
<1>7. PushesTo(top - 2, m(n, r), call)
  BY <1>1
<1>8. top - 2 \in Int /\ top - 2 <= STACK_SIZE /\ top - 2 + 1 + n < OperandsFrom(mem, ebp)
  BY <1>2, <1>3
<1> HIDE DEF m, n
<1>9. WordsNamed(m(n, r), closures)
  BY <1>2, <1>5 DEF IInv, LinkedFrames, WordsNamed
<1> HIDE DEF call
<1>10. /\ \A i \in 0..STACK_SIZE : i >= OperandsFrom(mem, ebp) => m(n, r)[i] = mem[i]
       /\ top - 2 \in 0..STACK_SIZE => m(n, r)[top - 2] = addr(r)
       /\ m(n, r)[top - 2 + 1] = val(0) /\ IsSelf(val(0))
       /\ \A i \in (top - 2 + 1)..(OperandsFrom(mem, ebp) - 1) : m(n, r)[i][1] # "addr"
  <2>1. top - 2 + 1 = top - 1 /\ top - 1 \in 0..STACK_SIZE
    BY <1>2
  <2>2. ASSUME NEW i \in (top - 1)..(OperandsFrom(mem, ebp) - 1)
        PROVE  m(n, r)[i][1] # "addr"
    <3>1. i \in 0..STACK_SIZE /\ top - 1 <= i /\ i < OperandsFrom(mem, ebp)
      BY <1>2
    <3>2. QED
      BY <1>5, <3>1
  <2>3. QED
    BY <1>5, <2>1, <2>2 DEF IsSelf
<1>11. top - 2 + 1 + call[1].fun.args < OperandsFrom(mem, ebp)
  BY <1>4, <1>8
<1>12. QED
  BY <1>0, <1>4, <1>6, <1>7, <1>8, <1>9, <1>10, <1>11, CallPushes

\* CALLC moves the closure above its arguments, where they were.
LEMMA CallClosureSound ==
  ASSUME IInv, CallClosure
  PROVE  IInv' /\ (state' = "running" => Bases' = Bases)
<1>0. Running /\ UNCHANGED <<closures, site>>
  BY DEF CallClosure
<1>2. /\ STACK_SIZE \in Nat /\ NGlobals \in Nat /\ mem \in Memory /\ top \in 1..STACK_SIZE
      /\ OperandsFrom(mem, ebp) \in Int
      /\ OperandsFrom(mem, ebp) <= STACK_SIZE - NGlobals
      /\ NOps = OperandsFrom(mem, ebp) - top
  BY <1>0, RunningFacts
<1> DEFINE m(n, r) == [ClosureOnTop(n) EXCEPT ![top - 1] = addr(r)]
<1>1. PICK n \in 0..(NOps - 1), r \in Sites :
        /\ mem[top + n][1] = "ptr" /\ mem[top + n] # ptr(0)
        /\ closures[mem[top + n][2]].fun.args = n
        /\ PushesTo(top - 1, m(n, r),
                    <<[fun |-> closures[mem[top + n][2]].fun, pushed |-> Pushed(n)]>>)
  BY DEF CallClosure
<1> DEFINE f == closures[mem[top + n][2]].fun
           call == <<[fun |-> f, pushed |-> Pushed(n)]>>
<1>3. n \in Nat /\ n + 1 <= NOps /\ r \in Int
  BY <1>1, <1>2, DataAssumption
<1>4. call \in Calls /\ call # <<>> /\ call[1].fun.args = n
  <2>1. top + n \in 0..(STACK_SIZE - 1)
    BY <1>2, <1>3
  <2>2. mem[top + n] \in Value /\ Named(mem[top + n], closures)
    BY <2>1, SlotValue
  <2>3. closures[mem[top + n][2]] \in Frame
    BY <1>1, <2>2, NamedClosure
  <2>4. f \in Funs
    BY <2>3 DEF Frame
  <2>5. n <= NOps
    BY <1>2, <1>3
  <2> HIDE DEF f
  <2>6. call \in Calls
    BY <1>0, <1>3, <2>4, <2>5, PushedSound
  <2>7. f.args = n
    BY <1>1 DEF f
  <2>8. QED
    BY <2>6, <2>7
<1> HIDE DEF f
<1>5. ASSUME NEW q \in 0..STACK_SIZE
      PROVE  /\ m(n, r)[q] \in Value
             /\ q < STACK_SIZE => Named(m(n, r)[q], closures)
             /\ q >= OperandsFrom(mem, ebp) => m(n, r)[q] = mem[q]
             /\ q = top - 1 => m(n, r)[q] = addr(r)
             /\ q = top => m(n, r)[q] = mem[top + n]
             /\ top <= q /\ q < OperandsFrom(mem, ebp) => m(n, r)[q][1] # "addr"
  <2>0. DOMAIN mem = 0..STACK_SIZE /\ mem[q] \in Value
    BY <1>2 DEF Memory
  <2>1. CASE q = top - 1
    <3>1. m(n, r)[q] = addr(r)
      BY <1>2, <2>0, <2>1 DEF ClosureOnTop
    <3>2. addr(r) \in Value /\ addr(r)[1] = "addr"
      BY <1>3, ValueMade
    <3>3. q < OperandsFrom(mem, ebp) /\ q # top /\ ~ (top <= q)
      BY <1>2, <1>3, <2>1
    <3> HIDE DEF m
    <3>4. QED
      BY <1>2, <3>1, <3>2, <3>3 DEF Named
  <2>2. CASE q = top
    <3>1. m(n, r)[q] = mem[top + n]
      BY <1>2, <2>0, <2>2 DEF ClosureOnTop
    <3>2. /\ top + n \in 0..(STACK_SIZE - 1) /\ q < OperandsFrom(mem, ebp) /\ q # top - 1
          /\ top + n \in top..(OperandsFrom(mem, ebp) - 1)
      BY <1>2, <1>3, <2>2
    <3>3. /\ mem[top + n] \in Value /\ Named(mem[top + n], closures)
          /\ mem[top + n][1] # "addr"
      BY <1>0, <3>2, SlotValue, OperandPlain
    <3>4. QED
      BY <1>2, <3>1, <3>2, <3>3
  <2>3. CASE top < q /\ q <= top + n
    <3>1. m(n, r)[q] = mem[q - 1]
      BY <1>2, <2>0, <2>3 DEF ClosureOnTop
    <3>2. /\ q - 1 \in 0..(STACK_SIZE - 1) /\ q < OperandsFrom(mem, ebp) /\ q # top - 1
          /\ q - 1 \in top..(OperandsFrom(mem, ebp) - 1) /\ q # top
      BY <1>2, <1>3, <2>3
    <3>3. mem[q - 1] \in Value /\ Named(mem[q - 1], closures) /\ mem[q - 1][1] # "addr"
      BY <1>0, <3>2, SlotValue, OperandPlain
    <3>4. QED
      BY <1>2, <3>1, <3>2, <3>3
  <2>4. CASE q # top - 1 /\ q # top /\ ~ (top < q /\ q <= top + n)
    <3>1. m(n, r)[q] = mem[q]
      BY <1>2, <2>0, <2>4 DEF ClosureOnTop
    <3>2. /\ q < STACK_SIZE => q \in 0..(STACK_SIZE - 1)
          /\ top <= q /\ q < OperandsFrom(mem, ebp) => q \in top..(OperandsFrom(mem, ebp) - 1)
      BY <1>2, <2>4
    <3>3. QED
      BY <1>0, <2>0, <2>4, <3>1, <3>2, SlotValue, OperandPlain
  <2>5. QED
    BY <2>1, <2>2, <2>3, <2>4
<1>6. m(n, r) \in Memory
  <2>1. DOMAIN m(n, r) = 0..STACK_SIZE /\ m(n, r) = [q \in DOMAIN m(n, r) |-> m(n, r)[q]]
    BY <1>2 DEF Memory, ClosureOnTop
  <2> HIDE DEF m
  <2>2. QED
    BY <1>5, <2>1 DEF Memory
<1>7. PushesTo(top - 1, m(n, r), call)
  BY <1>1 DEF f
<1>8. top - 1 \in Int /\ top - 1 <= STACK_SIZE /\ top - 1 + 1 + n < OperandsFrom(mem, ebp)
  BY <1>2, <1>3
<1> HIDE DEF m
<1>9. WordsNamed(m(n, r), closures)
  BY <1>2, <1>5 DEF IInv, LinkedFrames, WordsNamed
<1> HIDE DEF call
<1>10. /\ \A i \in 0..STACK_SIZE : i >= OperandsFrom(mem, ebp) => m(n, r)[i] = mem[i]
       /\ top - 1 \in 0..STACK_SIZE => m(n, r)[top - 1] = addr(r)
       /\ IsSelf(m(n, r)[top - 1 + 1])
       /\ \A i \in (top - 1 + 1)..(OperandsFrom(mem, ebp) - 1) : m(n, r)[i][1] # "addr"
  <2>1. top - 1 + 1 = top /\ top \in 0..STACK_SIZE
    BY <1>2
  <2>2. ASSUME NEW i \in top..(OperandsFrom(mem, ebp) - 1)
        PROVE  m(n, r)[i][1] # "addr"
    <3>1. i \in 0..STACK_SIZE /\ top <= i /\ i < OperandsFrom(mem, ebp)
      BY <1>2
    <3>2. QED
      BY <1>5, <3>1
  <2>3. IsSelf(m(n, r)[top])
    BY <1>1, <1>5, <2>1 DEF IsSelf
  <2>4. QED
    BY <1>5, <2>1, <2>2, <2>3
<1>11. top - 1 + 1 + call[1].fun.args < OperandsFrom(mem, ebp)
  BY <1>4, <1>8
<1>12. QED
  BY <1>0, <1>4, <1>6, <1>7, <1>8, <1>9, <1>10, <1>11, CallPushes

\* The call that BEGIN answers.
LEMMA CalleeFacts ==
  ASSUME IInv, state = "running", callee # <<>>
  PROVE  /\ STACK_SIZE \in Nat /\ NGlobals \in Nat /\ mem \in Memory
         /\ top \in 1..STACK_SIZE /\ closures \in Seq(Frame) /\ site \in Sites \cup {0}
         /\ callee[1].fun \in Funs /\ callee[1].fun.args \in Nat /\ callee[1].fun.locals \in Nat
         /\ ebp \in Int /\ OperandsFrom(mem, ebp) \in Int
         /\ OperandsFrom(mem, ebp) <= STACK_SIZE - NGlobals
         /\ top + 1 + callee[1].fun.args < OperandsFrom(mem, ebp)
         /\ mem[top] \in Value /\ Named(mem[top], closures)
         /\ mem[top][1] = "addr" /\ mem[top][2] \in ReturnsTo(ebp) /\ IsSelf(mem[top + 1])
         /\ Chain(mem, top, callee, Bases) /\ Bases = BasesFrom(mem, top + 1)
         /\ Bases \subseteq Int /\ FramesIn(mem, Bases)
         /\ \A e \in Bases : /\ e >= ebp /\ OperandsFrom(mem, ebp) <= e - 2 /\ e >= 3
                             /\ e + 2 < STACK_SIZE - NGlobals
<1>0. Chain(mem, top, callee, Bases) /\ Bases = BasesFrom(mem, top + 1)
  BY DEF IInv, LinkedFrames, Bases, BasesOf
<1>1. /\ mem \in Memory /\ top \in 1..STACK_SIZE /\ closures \in Seq(Frame)
      /\ site \in Sites \cup {0} /\ callee \in Calls
  BY EmptySeq DEF IInv, TypeOK, Memory, Frame, Calls
<1>2. /\ STACK_SIZE \in Nat /\ NGlobals \in Nat /\ ebp \in Int
      /\ OperandsFrom(mem, ebp) \in Int
      /\ OperandsFrom(mem, ebp) <= STACK_SIZE - NGlobals
      /\ Bases \subseteq Int /\ FramesIn(mem, Bases)
      /\ \A e \in Bases : /\ e >= ebp /\ OperandsFrom(mem, ebp) <= e - 2 /\ e >= 3
                          /\ e + 2 < STACK_SIZE - NGlobals
  <2>1. top \in Int /\ STACK_SIZE \in Nat
    BY <1>1, StackAssumption
  <2>2. FramesIn(mem, Bases)
    BY <1>0 DEF Chain
  <2>3. QED
    BY <1>0, <1>1, <2>1, <2>2, ChainFacts DEF ebp
<1>4. /\ callee[1].fun \in Funs /\ callee[1].fun.args \in Nat /\ callee[1].fun.locals \in Nat
  BY <1>1, CallMade
<1>5. /\ top + 1 + callee[1].fun.args < OperandsFrom(mem, ebp)
      /\ mem[top][1] = "addr" /\ mem[top][2] \in ReturnsTo(ebp) /\ IsSelf(mem[top + 1])
  BY <1>0 DEF Chain, ebp
<1>6. top \in 0..(STACK_SIZE - 1)
  <2>1. \A n \in Nat : top + 1 + n < OperandsFrom(mem, ebp) => top < STACK_SIZE
    BY <1>1, <1>2
  <2>2. top < STACK_SIZE
    BY <1>4, <1>5, <2>1
  <2>3. QED
    BY <1>1, <1>2, <2>2
<1>7. mem[top] \in Value /\ Named(mem[top], closures)
  BY <1>6, SlotValue
<1>8. QED
  BY <1>0, <1>1, <1>2, <1>4, <1>5, <1>7

\* What BEGIN writes when the function f is called: a frame at base.
Begun(f, base) ==
  [k \in DOMAIN mem |->
     CASE k = base + 1        -> val(f.args)
       [] k = base            -> val(ebp)
       [] k = base - 1        -> mem[top]
       [] k = base - 2        -> val(f.locals)
       [] k < base - 2 /\ k >= base - 2 - f.locals -> val(-1)
       [] k = STACK_SIZE      -> ptr(base)
       [] OTHER               -> mem[k]]

\* The words of the new frame, and those it leaves alone.
LEMMA BegunWords ==
  ASSUME IInv, state = "running", callee # <<>>,
         NEW f, f = callee[1].fun, NEW base, base = top - 1, NEW m, m = Begun(f, base)
  PROVE  /\ m \in Memory /\ WordsNamed(m, closures)
         /\ m[STACK_SIZE] = ptr(base) /\ base \in 0..(STACK_SIZE - 3)
         /\ \A q \in (base + 2)..(STACK_SIZE - 1) : m[q] = mem[q]
         /\ base - 2 - f.locals >= 1 =>
              /\ m[base + 1] = val(f.args) /\ m[base] = val(ebp) /\ m[base - 1] = mem[top]
              /\ m[base - 2] = val(f.locals)
              /\ \A q \in (base - 2 - f.locals)..(base - 3) : m[q] = val(-1)
<1>1. /\ STACK_SIZE \in Nat /\ NGlobals \in Nat /\ mem \in Memory
      /\ top \in 1..STACK_SIZE /\ closures \in Seq(Frame)
      /\ f.args \in Nat /\ f.locals \in Nat
      /\ ebp \in Int /\ OperandsFrom(mem, ebp) \in Int
      /\ OperandsFrom(mem, ebp) <= STACK_SIZE - NGlobals
      /\ top + 1 + f.args < OperandsFrom(mem, ebp)
      /\ mem[top] \in Value /\ Named(mem[top], closures)
  BY CalleeFacts
<1> DEFINE locals == f.locals
           args == f.args
<1>2. args \in Nat /\ locals \in Nat /\ top + 1 + args < OperandsFrom(mem, ebp)
  BY <1>1
<1>3. \A q \in 0..STACK_SIZE :
        m[q] = CASE q = base + 1        -> val(args)
                 [] q = base            -> val(ebp)
                 [] q = base - 1        -> mem[top]
                 [] q = base - 2        -> val(locals)
                 [] q < base - 2 /\ q >= base - 2 - locals -> val(-1)
                 [] q = STACK_SIZE      -> ptr(base)
                 [] OTHER               -> mem[q]
  BY <1>1 DEF Begun, Memory
<1>4. DOMAIN m = 0..STACK_SIZE /\ m = [q \in 0..STACK_SIZE |-> m[q]]
  BY <1>1 DEF Begun, Memory
<1> HIDE DEF locals, args
<1>5. base \in 0..(STACK_SIZE - 3)
  BY <1>1, <1>2
<1>5a. /\ STACK_SIZE \in Nat /\ base \in Nat /\ base + 2 < STACK_SIZE
       /\ args \in Nat /\ locals \in Nat
  BY <1>1, <1>2, <1>5
<1>6. ASSUME NEW q \in 0..STACK_SIZE
      PROVE  /\ q = STACK_SIZE => m[q] = ptr(base)
             /\ q >= base + 2 /\ q < STACK_SIZE => m[q] = mem[q]
             /\ q = base + 1 => m[q] = val(args)
             /\ q = base => m[q] = val(ebp)
             /\ q = base - 1 => m[q] = mem[top]
             /\ q = base - 2 => m[q] = val(locals)
             /\ q < base - 2 /\ q >= base - 2 - locals => m[q] = val(-1)
             /\ q < base - 2 /\ q < base - 2 - locals => m[q] = mem[q]
  <2>1. m[q] = CASE q = base + 1        -> val(args)
                 [] q = base            -> val(ebp)
                 [] q = base - 1        -> mem[top]
                 [] q = base - 2        -> val(locals)
                 [] q < base - 2 /\ q >= base - 2 - locals -> val(-1)
                 [] q = STACK_SIZE      -> ptr(base)
                 [] OTHER               -> mem[q]
    BY <1>3
  <2>2. CASE q >= base - 2
    BY <1>5a, <2>1, <2>2
  <2>3. CASE q < base - 2
    BY <1>5a, <2>1, <2>3
  <2>4. QED
    BY <1>5a, <2>2, <2>3
<1>7. ASSUME NEW q \in 0..STACK_SIZE
      PROVE  m[q] \in Value /\ (q < STACK_SIZE => Named(m[q], closures))
  <2>1. mem[q] \in Value /\ (q < STACK_SIZE => Named(mem[q], closures))
    <3>1. q < STACK_SIZE => q \in 0..(STACK_SIZE - 1)
      BY <1>1
    <3>2. mem[q] \in Value
      BY <1>1 DEF Memory
    <3>3. QED
      BY <3>1, <3>2, SlotValue
  <2>2. /\ val(args) \in Value /\ val(args)[1] = "val"
        /\ val(ebp) \in Value /\ val(ebp)[1] = "val"
        /\ val(locals) \in Value /\ val(locals)[1] = "val"
        /\ val(-1) \in Value /\ val(-1)[1] = "val"
        /\ ptr(base) \in Value
    BY <1>1, <1>2, <1>5, ValueMade
  <2>3. \/ m[q] \in {val(args), val(ebp), val(locals), val(-1)}
        \/ m[q] = mem[top]
        \/ q = STACK_SIZE /\ m[q] = ptr(base)
        \/ m[q] = mem[q]
    <3>1. \/ q = STACK_SIZE \/ (q >= base + 2 /\ q < STACK_SIZE)
          \/ q = base + 1 \/ q = base \/ q = base - 1 \/ q = base - 2
          \/ q < base - 2 /\ q >= base - 2 - locals
          \/ q < base - 2 /\ q < base - 2 - locals
      BY <1>5a
    <3>2. QED
      BY <1>6, <3>1
  <2>4. CASE m[q] \in {val(args), val(ebp), val(locals), val(-1)}
    BY <2>2, <2>4 DEF Named
  <2>5. CASE m[q] = mem[top] \/ m[q] = mem[q]
    BY <1>1, <2>1, <2>5
  <2>6. CASE q = STACK_SIZE /\ m[q] = ptr(base)
    BY <1>1, <2>2, <2>6
  <2>7. QED
    BY <2>3, <2>4, <2>5, <2>6
<1>8. m \in Memory
  BY <1>4, <1>7 DEF Memory
<1>9. WordsNamed(m, closures)
  BY <1>1, <1>7 DEF IInv, LinkedFrames, WordsNamed
<1>10. ASSUME base - 2 - locals >= 1
       PROVE  /\ m[base + 1] = val(args) /\ m[base] = val(ebp) /\ m[base - 1] = mem[top]
              /\ m[base - 2] = val(locals)
              /\ \A q \in (base - 2 - locals)..(base - 3) : m[q] = val(-1)
  <2>1. /\ base + 1 \in 0..STACK_SIZE /\ base \in 0..STACK_SIZE
        /\ base - 1 \in 0..STACK_SIZE /\ base - 2 \in 0..STACK_SIZE
    BY <1>1, <1>2, <1>5, <1>10
  <2>2. ASSUME NEW q \in (base - 2 - locals)..(base - 3)
        PROVE  m[q] = val(-1)
    <3>1. q \in 0..STACK_SIZE /\ q < base - 2 /\ q >= base - 2 - locals
      BY <1>5a, <1>10
    <3>2. QED
      BY <1>6, <3>1
  <2>3. m[base + 1] = val(args) /\ m[base] = val(ebp)
    BY <1>6, <2>1
  <2>4. m[base - 1] = mem[top] /\ m[base - 2] = val(locals)
    BY <1>6, <2>1
  <2>5. QED
    BY <2>2, <2>3, <2>4
<1>11. m[STACK_SIZE] = ptr(base)
  BY <1>1, <1>6
<1>12. ASSUME NEW q \in (base + 2)..(STACK_SIZE - 1)
       PROVE  m[q] = mem[q]
  <2>1. q \in 0..STACK_SIZE /\ q >= base + 2 /\ q < STACK_SIZE
    BY <1>1, <1>5
  <2>2. QED
    BY <1>6, <2>1
<1>13. QED
  BY <1>5, <1>8, <1>9, <1>10, <1>11, <1>12 DEF args, locals

\* BEGIN puts a frame below the arguments it was called with, and below every
\* other frame.
LEMMA BeginSound ==
  ASSUME IInv, Begin
  PROVE  IInv' /\ (state' = "running" => Bases' = Bases \cup {top - 1})
<1>0. state = "running" /\ callee # <<>> /\ UNCHANGED <<closures, site>>
  BY DEF Begin
<1> DEFINE B == Bases
<1>1. Chain(mem, top, callee, B) /\ B = BasesFrom(mem, top + 1)
  BY <1>0, CalleeFacts
<1>2. /\ STACK_SIZE \in Nat /\ NGlobals \in Nat /\ mem \in Memory
      /\ top \in 1..STACK_SIZE /\ closures \in Seq(Frame) /\ site \in Sites \cup {0}
      /\ callee[1].fun.args \in Nat /\ callee[1].fun.locals \in Nat
      /\ ebp \in Int /\ OperandsFrom(mem, ebp) \in Int
      /\ OperandsFrom(mem, ebp) <= STACK_SIZE - NGlobals
      /\ top + 1 + callee[1].fun.args < OperandsFrom(mem, ebp)
      /\ mem[top][1] = "addr" /\ mem[top][2] \in ReturnsTo(ebp) /\ IsSelf(mem[top + 1])
      /\ FramesIn(mem, B) /\ B \subseteq Int
      /\ \A e \in B : /\ e >= ebp /\ e >= 3 /\ OperandsFrom(mem, ebp) <= e - 2
                      /\ e + 2 < STACK_SIZE - NGlobals
  BY <1>0, CalleeFacts
<1> HIDE DEF B
<1> DEFINE f == callee[1].fun
           args == f.args
           locals == f.locals
           base == top - 1
           m == Begun(f, base)
<1>3. PushesTo(base - 2 - locals, m, <<>>)
  BY DEF Begin, Begun
<1>4. args \in Nat /\ locals \in Nat /\ base \in Int /\ base = top - 1
      /\ base + 2 + args < OperandsFrom(mem, ebp)
  BY <1>2
<1>5. /\ m \in Memory /\ WordsNamed(m, closures)
      /\ m[STACK_SIZE] = ptr(base) /\ base \in 0..(STACK_SIZE - 3)
      /\ \A q \in (base + 2)..(STACK_SIZE - 1) : m[q] = mem[q]
      /\ base - 2 - locals >= 1 =>
           /\ m[base + 1] = val(args) /\ m[base] = val(ebp) /\ m[base - 1] = mem[top]
           /\ m[base - 2] = val(locals)
           /\ \A q \in (base - 2 - locals)..(base - 3) : m[q] = val(-1)
  BY <1>0, BegunWords
<1> HIDE DEF m, f, args, locals, base
<1>6. WordsNamed(mem, closures)
  BY DEF IInv, LinkedFrames
<1>7. ASSUME base - 2 - locals >= 1
      PROVE  BasesFrom(m, base - 2 - locals) = B \cup {base}
  <2>1. /\ val(args)[1] = "val" /\ val(ebp)[1] = "val" /\ val(locals)[1] = "val"
        /\ val(-1)[1] = "val"
    BY <1>2, <1>4, ValueMade
  <2>2. ASSUME NEW q \in (base - 2 - locals)..(base + 1), q # base - 1
        PROVE  m[q][1] # "addr"
    <3>1. q \in (base - 2 - locals)..(base - 3) \/ q \in {base - 2, base, base + 1}
      BY <1>4, <2>2
    <3>2. QED
      BY <1>5, <1>7, <2>1, <3>1
  <2>3. ASSUME NEW e \in Int
        PROVE  e \in BasesFrom(m, base - 2 - locals) <=> e \in B \cup {base}
    <3>1. CASE e = base
      <4>1. m[e - 1] = mem[top] /\ e \in (base - 2 - locals + 1)..STACK_SIZE
        BY <1>2, <1>4, <1>5, <1>7, <3>1
      <4>2. QED
        BY <1>2, <3>1, <4>1 DEF BasesFrom
    <3>2. CASE e > base + 2
      <4>1. e \in (base - 2 - locals + 1)..STACK_SIZE <=> e \in (top + 1 + 1)..STACK_SIZE
        BY <1>2, <1>4, <3>2
      <4>2. e <= STACK_SIZE => m[e - 1] = mem[e - 1]
        <5>1. e <= STACK_SIZE => e - 1 \in (base + 2)..(STACK_SIZE - 1)
          BY <1>2, <1>4, <3>2
        <5>2. QED
          BY <1>5, <5>1
      <4>3. e # base
        BY <1>4, <3>2
      <4>4. QED
        BY <1>1, <4>1, <4>2, <4>3, <1>2 DEF BasesFrom
    <3>3. CASE e # base /\ e <= base + 2
      <4>1. e \notin B
        BY <1>2, <1>4, <3>3
      <4>2. e \in (base - 2 - locals + 1)..STACK_SIZE
              => e - 1 \in (base - 2 - locals)..(base + 1) /\ e - 1 # base - 1
        BY <1>4, <3>3
      <4>3. QED
        BY <2>2, <3>3, <4>1, <4>2 DEF BasesFrom
    <3>4. QED
      BY <1>4, <3>1, <3>2, <3>3
  <2>4. BasesFrom(m, base - 2 - locals) \subseteq Int /\ B \cup {base} \subseteq Int
    BY <1>2, <1>4 DEF BasesFrom
  <2>5. QED
    BY <2>3, <2>4
<1>9. ASSUME base - 2 - locals >= 1
      PROVE  Chain(m, base - 2 - locals, <<>>, B \cup {base})
  <2>2. /\ m[base + 1][2] = args /\ m[base][2] = ebp /\ m[base - 1] = mem[top]
        /\ m[base - 2][2] = locals /\ m[STACK_SIZE][2] = base /\ m[base + 2] = mem[top + 1]
    <3>1. /\ m[base + 1] = val(args) /\ m[base] = val(ebp) /\ m[base - 1] = mem[top]
          /\ m[base - 2] = val(locals) /\ m[STACK_SIZE] = ptr(base)
      BY <1>5, <1>9
    <3>2. /\ val(args)[2] = args /\ val(ebp)[2] = ebp /\ val(locals)[2] = locals
          /\ ptr(base)[2] = base
      BY <1>2, <1>4, ValueMade
    <3>3. base + 2 \in (base + 2)..(STACK_SIZE - 1) /\ base + 2 = top + 1
      BY <1>2, <1>4
    <3>4. QED
      BY <1>5, <3>1, <3>2, <3>3
  <2>4. ebp \in B \cup {0} /\ (ebp = 0 => B = {})
    BY <1>1 DEF Chain, ebp
  <2>5. ASSUME NEW e \in B, NEW i \in (e - 2)..(e + 2)
        PROVE  m[i] = mem[i]
    <3>1. e \in Int /\ OperandsFrom(mem, ebp) <= e - 2 /\ e + 2 < STACK_SIZE - NGlobals
      BY <1>2
    <3>2. i \in (base + 2)..(STACK_SIZE - 1)
      BY <1>2, <1>4, <3>1
    <3>3. QED
      BY <1>5, <3>2
  <2>6. /\ FramesIn(m, B)
        /\ \A e \in B \cup {0} : OperandsFrom(m, e) = OperandsFrom(mem, e)
    BY <1>2, <2>5, FramesKept
  <2>7. \A e \in B : base < e
    BY <1>2, <1>4
  <2>8. OperandsFrom(m, base) = base - 2 - locals
    BY <1>4, <1>9, <2>2 DEF OperandsFrom
  <2>9. base + 2 < STACK_SIZE - NGlobals /\ base \in 1..STACK_SIZE
    BY <1>2, <1>4, <1>9
  <2>10. FramesIn(m, B \cup {base})
    <3>1. ASSUME NEW e \in B
          PROVE  /\ e + 2 < STACK_SIZE - NGlobals
                 /\ m[e + 1][2] \in Nat /\ m[e - 2][2] \in Nat /\ OperandsFrom(m, e) >= 1
                 /\ IsSelf(m[e + 2])
                 /\ m[e][2] \in B \cup {base} \cup {0}
                 /\ m[e - 1][2] \in ReturnsTo(m[e][2])
                 /\ e + 2 + m[e + 1][2] < OperandsFrom(m, m[e][2])
                 /\ \A d \in B \cup {base} : d > e => m[e][2] # 0 /\ d >= m[e][2]
      <4>1. ASSUME NEW d \in B \cup {base}, d > e
            PROVE  d \in B
        BY <1>2, <1>4, <2>7, <4>1
      <4>2. QED
        BY <2>6, <4>1 DEF FramesIn
    <3>2. /\ base + 2 < STACK_SIZE - NGlobals
          /\ m[base + 1][2] \in Nat /\ m[base - 2][2] \in Nat /\ OperandsFrom(m, base) >= 1
          /\ IsSelf(m[base + 2])
          /\ m[base][2] \in B \cup {base} \cup {0}
          /\ m[base - 1][2] \in ReturnsTo(m[base][2])
      BY <1>2, <1>4, <1>9, <2>2, <2>4, <2>8, <2>9
    <3>3. base + 2 + m[base + 1][2] < OperandsFrom(m, m[base][2])
      BY <1>4, <2>2, <2>4, <2>6
    <3>4. ASSUME NEW d \in B \cup {base}, d > base
          PROVE  m[base][2] # 0 /\ d >= m[base][2]
      <4>1. d \in B
        BY <1>4, <3>4
      <4>2. QED
        BY <1>2, <2>2, <2>4, <4>1
    <3>5. QED
      BY <3>1, <3>2, <3>3, <3>4 DEF FramesIn
  <2>11. \A e \in B \cup {base} : base <= e
    BY <1>2, <1>4, <2>7
  <2>12. B \cup {base} \subseteq 1..STACK_SIZE /\ base # 0
    BY <1>1, <1>2, <2>9 DEF Chain
  <2>13. base - 2 - locals <= OperandsFrom(m, base)
    BY <1>4, <2>8
  <2>14. QED
    BY <2>2, <2>10, <2>11, <2>12, <2>13 DEF Chain
<1>10. base - 2 - locals \in Int /\ base - 2 - locals <= STACK_SIZE /\ <<>> \in Calls
  BY <1>2, <1>4, EmptySeq DEF Calls
<1>11. ASSUME Checked(base - 2 - locals)
       PROVE  /\ BasesOf(m, base - 2 - locals, <<>>) = B \cup {base}
              /\ Chain(m, base - 2 - locals, <<>>, BasesOf(m, base - 2 - locals, <<>>))
  <2>1. base - 2 - locals >= 1
    BY <1>4, <1>11 DEF Checked
  <2>2. QED
    BY <1>7, <1>9, <2>1 DEF BasesOf
<1>12. IInv'
  BY <1>0, <1>2, <1>3, <1>5, <1>6, <1>10, <1>11, PushesSound
<1>13. ASSUME state' = "running"
       PROVE  Bases' = B \cup {base}
  <2>1. Checked(base - 2 - locals)
    BY <1>3, <1>13 DEF PushesTo, Fail
  <2>2. mem' = m /\ top' = base - 2 - locals /\ callee' = <<>>
    BY <1>3, <2>1 DEF PushesTo
  <2>3. QED
    BY <1>11, <2>1, <2>2 DEF Bases
<1>14. QED
  BY <1>12, <1>13 DEF B, base

\* What END writes: the result in slot t, and the base of the caller.
LEMMA EndFacts ==
  ASSUME IInv, End, NEW c, c = mem[ebp][2], NEW t, t = ebp + 2 + NArgs
  PROVE  /\ Running /\ mem' \in Memory /\ top' = t /\ WordsNamed(mem', closures)
         /\ c \in Bases \cup {0} /\ c \in Int /\ (c = 0 => Bases = {ebp})
         /\ t \in 1..(STACK_SIZE - 1) /\ t < OperandsFrom(mem, c) /\ t \in Int /\ t > ebp
         /\ OperandsFrom(mem, c) \in Int /\ OperandsFrom(mem, c) <= STACK_SIZE - NGlobals
         /\ mem'[STACK_SIZE] = ptr(c) /\ ptr(c)[2] = c
         /\ \A q \in 0..(STACK_SIZE - 1) : mem'[q] = IF q = t THEN mem[top] ELSE mem[q]
         /\ mem[top] \in Value /\ mem[top][1] # "addr"
         /\ \A e \in Bases \ {ebp} :
              /\ c # 0 /\ c \in Bases /\ e \in Int /\ e > ebp /\ e >= c
              /\ OperandsFrom(mem, c) <= e - 2 /\ t < e - 2
<1>0. Running /\ NOps >= 1
  BY DEF End
<1>1. /\ STACK_SIZE \in Nat /\ NGlobals \in Nat /\ mem \in Memory
      /\ top \in 1..STACK_SIZE
      /\ ebp \in Int /\ ebp >= 3 /\ NArgs \in Nat
      /\ OperandsFrom(mem, ebp) \in Int
      /\ OperandsFrom(mem, ebp) <= STACK_SIZE - NGlobals
      /\ NOps = OperandsFrom(mem, ebp) - top
      /\ OperandsFrom(mem, c) \in Int
      /\ ebp + 2 + NArgs < OperandsFrom(mem, c)
      /\ OperandsFrom(mem, c) <= STACK_SIZE - NGlobals
  BY <1>0, RunningFacts
<1>2. /\ FramesIn(mem, Bases) /\ ebp \in Bases /\ Bases \subseteq Int
      /\ \A e \in Bases : e >= ebp
  BY <1>0, RunningChain
<1>3. /\ c \in Bases \cup {0}
      /\ \A d \in Bases : d > ebp => c # 0 /\ d >= c
  BY <1>2 DEF FramesIn
<1>4. c \in Int
  BY <1>2, <1>3
<1>5. t \in Int /\ t > ebp /\ t >= 1 /\ t < OperandsFrom(mem, c)
  BY <1>1
<1>6. t \in 1..(STACK_SIZE - 1)
  BY <1>1, <1>5
<1>7. top \in 0..(STACK_SIZE - 1) /\ top \in top..(OperandsFrom(mem, ebp) - 1)
  BY <1>0, <1>1
<1>8. /\ mem[top] \in Value /\ Named(mem[top], closures) /\ mem[top][1] # "addr"
      /\ WordsNamed(mem, closures) /\ ptr(c) \in Value /\ ptr(c)[2] = c
  BY <1>0, <1>4, <1>7, SlotValue, OperandPlain, ValueMade DEF IInv, LinkedFrames
<1>9. mem' = [mem EXCEPT ![t] = mem[top], ![STACK_SIZE] = ptr(c)] /\ top' = t
  BY DEF End
<1>10. /\ mem' \in Memory /\ mem'[STACK_SIZE] = ptr(c)
       /\ \A q \in 0..(STACK_SIZE - 1) : mem'[q] = IF q = t THEN mem[top] ELSE mem[q]
  <2> DEFINE p == ptr(c)
             r == mem[top]
  <2>1. /\ mem' = [mem EXCEPT ![t] = r, ![STACK_SIZE] = p] /\ r \in Value /\ p \in Value
        /\ mem \in [0..STACK_SIZE -> Value] /\ STACK_SIZE \in Nat /\ t \in 1..(STACK_SIZE - 1)
    BY <1>1, <1>6, <1>8, <1>9 DEF Memory
  <2> HIDE DEF p, r
  <2>2. /\ mem' \in [0..STACK_SIZE -> Value] /\ mem'[STACK_SIZE] = p
        /\ \A q \in 0..(STACK_SIZE - 1) : mem'[q] = IF q = t THEN r ELSE mem[q]
    BY <2>1
  <2>3. QED
    BY <2>2 DEF p, r, Memory
<1>11. WordsNamed(mem', closures)
  BY <1>8, <1>10 DEF WordsNamed
<1>12. c = 0 => Bases = {ebp}
  <2>1. ASSUME c = 0, NEW e \in Bases
        PROVE  e = ebp
    <3>1. ~ (e > ebp) /\ e >= ebp /\ e \in Int
      BY <1>2, <1>3, <2>1
    <3>2. QED
      BY <1>1, <3>1
  <2>2. QED
    BY <1>2, <2>1
<1>13. ASSUME NEW e \in Bases \ {ebp}
       PROVE  /\ c # 0 /\ c \in Bases /\ e \in Int /\ e > ebp /\ e >= c
              /\ OperandsFrom(mem, c) <= e - 2 /\ t < e - 2
  <2>1. e \in Int /\ e > ebp
    BY <1>1, <1>2
  <2>2. c # 0 /\ c \in Bases /\ e >= c
    BY <1>3, <2>1
  <2>3. OperandsFrom(mem, c) <= e - 2
    BY <1>0, <2>1, CallerApart
  <2>4. QED
    BY <1>1, <1>5, <2>1, <2>2, <2>3
<1>14. QED
  BY <1>0, <1>1, <1>3, <1>4, <1>5, <1>6, <1>8, <1>9, <1>10, <1>11, <1>12, <1>13

\* END takes the base of the running frame from the bases.
LEMMA EndBases ==
  ASSUME IInv, End
  PROVE  Bases' = Bases \ {ebp}
<1> DEFINE c == mem[ebp][2]
           t == ebp + 2 + NArgs
<1>1. /\ Running /\ top' = t
      /\ t \in 1..(STACK_SIZE - 1) /\ t \in Int /\ t > ebp
      /\ \A q \in 0..(STACK_SIZE - 1) : mem'[q] = IF q = t THEN mem[top] ELSE mem[q]
      /\ mem[top][1] # "addr"
      /\ \A e \in Bases \ {ebp} : t < e - 2
  BY EndFacts
<1> HIDE DEF c, t
<1>2. /\ Bases = BasesFrom(mem, top) /\ ebp \in Bases /\ Bases \subseteq Int
  BY <1>1, RunningChain
<1>3. STACK_SIZE \in Nat /\ top \in 1..STACK_SIZE /\ top <= ebp /\ ebp \in Int
  <2>1. /\ STACK_SIZE \in Nat /\ top \in 1..STACK_SIZE /\ ebp \in Int /\ NLocals \in Nat
        /\ top <= OperandsFrom(mem, ebp) /\ OperandsFrom(mem, ebp) = ebp - 2 - NLocals
    BY <1>1, RunningFacts
  <2>2. QED
    BY <2>1
<1>4. callee' = <<>>
  BY DEF End, Running
<1>5. Bases' = BasesFrom(mem', t)
  BY <1>1, <1>4 DEF Bases, BasesOf
<1>6. ASSUME NEW e \in Int
      PROVE  e \in BasesFrom(mem', t) <=> e \in Bases \ {ebp}
  <2>1. CASE e <= t
    <3>1. e \notin (t + 1)..STACK_SIZE /\ e \notin Bases \ {ebp}
      BY <1>1, <2>1
    <3>2. QED
      BY <3>1 DEF BasesFrom
  <2>2. CASE e = t + 1
    <3>1. e - 1 = t /\ t \in 0..(STACK_SIZE - 1)
      BY <1>1, <1>3, <2>2
    <3>2. mem'[e - 1][1] # "addr" /\ e \notin Bases \ {ebp}
      BY <1>1, <2>2, <3>1
    <3>3. QED
      BY <3>2 DEF BasesFrom
  <2>3. CASE e > t + 1
    <3>1. e # ebp /\ (e \in (t + 1)..STACK_SIZE <=> e \in (top + 1)..STACK_SIZE)
      BY <1>1, <1>3, <2>3
    <3>2. e <= STACK_SIZE => e - 1 \in 0..(STACK_SIZE - 1) /\ e - 1 # t
      BY <1>1, <1>3, <2>3
    <3>3. e \in (top + 1)..STACK_SIZE => mem'[e - 1] = mem[e - 1]
      BY <1>1, <3>2
    <3>4. e \in BasesFrom(mem', t) <=> e \in BasesFrom(mem, top)
      BY <3>1, <3>3 DEF BasesFrom
    <3>5. QED
      BY <1>2, <3>1, <3>4
  <2>4. QED
    BY <1>1, <2>1, <2>2, <2>3
<1>7. BasesFrom(mem', t) \subseteq Int
  BY <1>1 DEF BasesFrom
<1>8. QED
  BY <1>2, <1>5, <1>6, <1>7

\* END takes the last frame away: the one its caller goes on in is the next,
\* and the result is one of that one's operands.
LEMMA EndSound ==
  ASSUME IInv, End
  PROVE  IInv'
<1>0. /\ callee = <<>> /\ UNCHANGED <<callee, closures>>
      /\ Resume(mem[ebp - 1][2]) /\ state = "running"
  BY DEF End, Running
<1> DEFINE c == mem[ebp][2]
           ret == mem[ebp - 1][2]
           t == ebp + 2 + NArgs
           B == Bases
           D == B \ {ebp}
<1>1. /\ Running /\ mem' \in Memory /\ top' = t /\ WordsNamed(mem', closures)
      /\ c \in B \cup {0} /\ c \in Int
      /\ t \in 1..(STACK_SIZE - 1) /\ t < OperandsFrom(mem, c) /\ t \in Int /\ t > ebp
      /\ OperandsFrom(mem, c) \in Int /\ OperandsFrom(mem, c) <= STACK_SIZE - NGlobals
      /\ mem'[STACK_SIZE] = ptr(c) /\ ptr(c)[2] = c
      /\ \A q \in 0..(STACK_SIZE - 1) : mem'[q] = IF q = t THEN mem[top] ELSE mem[q]
      /\ \A e \in D : /\ c # 0 /\ c \in B /\ e \in Int /\ e > ebp /\ e >= c
                      /\ OperandsFrom(mem, c) <= e - 2 /\ t < e - 2
  BY EndFacts
<1>2. /\ Chain(mem, top, <<>>, B) /\ FramesIn(mem, B) /\ ebp \in B /\ B \subseteq Int
      /\ B \in SUBSET (1..STACK_SIZE)
      /\ \A e \in B : e >= 3 /\ e + 2 < STACK_SIZE - NGlobals /\ e >= ebp
  BY <1>1, RunningChain
<1>3. /\ STACK_SIZE \in Nat /\ NGlobals \in Nat /\ mem \in Memory /\ ebp \in Int
      /\ ebp >= 3 /\ site \in Sites \cup {0}
  BY <1>1, RunningFacts
<1>4. Bases' = D
  BY EndBases
<1>5. ret \in ReturnsTo(c)
  BY <1>2 DEF FramesIn
<1> HIDE DEF c, ret, t, B
<1>6. ret \in Sites \cup {0} /\ (c = 0 => ret = 0)
  BY <1>5 DEF ReturnsTo
<1>7. state' \in {"running", "stopped"} /\ site' \in Sites \cup {0}
      /\ (state' = "running" => ret # 0)
  BY <1>0, <1>3, <1>6 DEF Resume, ret
<1>8. TypeOK'
  <2>1. top' \in 1..STACK_SIZE
    BY <1>1, <1>3
  <2>2. QED
    BY <1>0, <1>1, <1>7, <2>1 DEF IInv, TypeOK, Memory
<1>9. ASSUME state' = "running"
      PROVE  Chain(mem', t, <<>>, D)
  <2>1. c \in B /\ c # 0
    BY <1>1, <1>6, <1>7, <1>9
  <2>2. mem[c - 2][2] \in Nat /\ OperandsFrom(mem, c) = c - 2 - mem[c - 2][2]
    BY <1>2, <2>1 DEF FramesIn, OperandsFrom
  <2>3. c # ebp
    BY <1>1, <1>3, <2>2
  <2>4. ASSUME NEW e \in D, NEW i \in (e - 2)..(e + 2)
        PROVE  mem'[i] = mem[i]
    <3>1. e \in Int /\ t < e - 2 /\ e >= 3 /\ e + 2 < STACK_SIZE - NGlobals
      BY <1>1, <1>2
    <3>2. i \in 0..(STACK_SIZE - 1) /\ i # t
      BY <1>1, <1>3, <3>1
    <3>3. QED
      BY <1>1, <3>2
  <2>5. ASSUME NEW e \in D
        PROVE  /\ e + 2 < STACK_SIZE - NGlobals
               /\ mem[e + 1][2] \in Nat /\ mem[e - 2][2] \in Nat /\ OperandsFrom(mem, e) >= 1
               /\ IsSelf(mem[e + 2])
               /\ mem[e][2] \in D \cup {0}
               /\ mem[e - 1][2] \in ReturnsTo(mem[e][2])
               /\ e + 2 + mem[e + 1][2] < OperandsFrom(mem, mem[e][2])
               /\ \A d \in D : d > e => mem[e][2] # 0 /\ d >= mem[e][2]
    <3>1. /\ e + 2 < STACK_SIZE - NGlobals
          /\ mem[e + 1][2] \in Nat /\ mem[e - 2][2] \in Nat /\ OperandsFrom(mem, e) >= 1
          /\ IsSelf(mem[e + 2])
          /\ mem[e][2] \in B \cup {0}
          /\ mem[e - 1][2] \in ReturnsTo(mem[e][2])
          /\ e + 2 + mem[e + 1][2] < OperandsFrom(mem, mem[e][2])
          /\ \A d \in B : d > e => mem[e][2] # 0 /\ d >= mem[e][2]
      BY <1>2 DEF FramesIn
    <3>2. OperandsFrom(mem, ebp) \in Int /\ OperandsFrom(mem, ebp) <= ebp
      <4>1. mem[ebp - 2][2] \in Nat /\ OperandsFrom(mem, ebp) = ebp - 2 - mem[ebp - 2][2]
        BY <1>2, <1>3 DEF FramesIn, OperandsFrom
      <4>2. QED
        BY <1>3, <4>1
    <3>3. e \in Int /\ e > ebp
      BY <1>1
    <3>4. mem[e][2] # ebp
      BY <1>3, <3>1, <3>2, <3>3
    <3>5. QED
      BY <3>1, <3>4
  <2>6. FramesIn(mem, D)
    BY <2>5 DEF FramesIn
  <2>7. c \in D /\ D \subseteq Int /\ D \subseteq 1..STACK_SIZE /\ \A e \in D : c <= e
    BY <1>1, <1>2, <2>1, <2>3
  <2> HIDE DEF D
  <2>8. /\ FramesIn(mem', D)
        /\ \A e \in D \cup {0} : OperandsFrom(mem', e) = OperandsFrom(mem, e)
    BY <2>4, <2>6, <2>7, FramesKept
  <2>9. t <= OperandsFrom(mem', c)
    BY <1>1, <2>7, <2>8
  <2>10. mem'[STACK_SIZE][2] = c
    BY <1>1
  <2>11. QED
    BY <2>1, <2>7, <2>8, <2>9, <2>10 DEF Chain
<1>10. QED
  BY <1>0, <1>1, <1>4, <1>8, <1>9 DEF IInv, LinkedFrames

-----------------------------------------------------------------------------
(* The first state, every step and the theorems.                            *)

\* No frame is built before the first BEGIN.
LEMMA InitBases ==
  ASSUME Init
  PROVE  Bases = {}
<1>1. STACK_SIZE \in Nat /\ NGlobals \in Nat /\ STACK_SIZE >= NGlobals + 5
  BY StackAssumption
<1> DEFINE ret == STACK_SIZE - NGlobals - 4
           args == {STACK_SIZE - NGlobals - 1, STACK_SIZE - NGlobals - 2}
<1>2. /\ mem = [k \in 0..STACK_SIZE |-> IF k \in args THEN val(-1)
                                        ELSE IF k = ret THEN addr(0) ELSE ptr(0)]
      /\ top = ret /\ callee # <<>>
  BY DEF Init
<1>3. val(-1)[1] = "val" /\ ptr(0)[1] = "ptr"
  BY DEF val, ptr
<1>4. ASSUME NEW e \in (top + 2)..STACK_SIZE
      PROVE  mem[e - 1] \in {val(-1), ptr(0)}
  BY <1>1, <1>2
<1>5. top + 1 + 1 = top + 2
  BY <1>1, <1>2
<1>6. Bases = BasesFrom(mem, top + 1)
  BY <1>2 DEF Bases, BasesOf
<1>7. QED
  BY <1>3, <1>4, <1>5, <1>6 DEF BasesFrom

\* dump_file leaves an empty chain and a call of main under way.
LEMMA InitSound ==
  ASSUME Init
  PROVE  IInv
<1>1. STACK_SIZE \in Nat /\ NGlobals \in Nat /\ STACK_SIZE >= NGlobals + 5
  BY StackAssumption
<1> DEFINE ret == STACK_SIZE - NGlobals - 4
           args == {STACK_SIZE - NGlobals - 1, STACK_SIZE - NGlobals - 2}
           main == <<[fun |-> Main, pushed |-> <<val(-1), val(-1)>>]>>
<1>2. /\ mem = [k \in 0..STACK_SIZE |-> IF k \in args THEN val(-1)
                                        ELSE IF k = ret THEN addr(0) ELSE ptr(0)]
      /\ top = ret /\ callee = main
      /\ closures = <<>> /\ site = 0 /\ state = "running"
  BY DEF Init
<1>3. /\ val(-1) \in Value /\ val(-1)[1] = "val"
      /\ addr(0) \in Value /\ addr(0)[1] = "addr" /\ addr(0)[2] = 0
      /\ ptr(0) \in Value /\ ptr(0)[2] = 0 /\ ptr(0)[1] = "ptr"
  BY ValueMade
<1>4. main \in Calls /\ main # <<>> /\ main[1].fun.args = 2
  <2>1. <<val(-1), val(-1)>> \in Seq(Value)
    BY <1>3
  <2> DEFINE two == <<val(-1), val(-1)>>
             c == [fun |-> Main, pushed |-> two]
  <2> HIDE DEF two
  <2>2. c \in [fun : Funs, pushed : Seq(Value)]
    BY <2>1, FunsAssumption DEF two
  <2>3. c.fun.args = 2
    BY FunsAssumption
  <2> HIDE DEF c
  <2>4. <<c>> \in Calls /\ <<c>> # <<>> /\ <<c>>[1] = c
    BY <2>2 DEF Calls
  <2>5. QED
    BY <2>3, <2>4 DEF c, two
<1> HIDE DEF main
<1>5. mem \in Memory
  BY <1>2, <1>3 DEF Memory
<1>6. ret \in 1..STACK_SIZE /\ mem[ret] = addr(0) /\ mem[STACK_SIZE] = ptr(0)
  BY <1>1, <1>2
<1>7. TypeOK
  <2>1. closures \in Seq([fun : Funs, captured : Seq(Value)])
    BY <1>2, EmptySeq
  <2>2. QED
    BY <1>2, <1>4, <1>5, <1>6, <2>1 DEF TypeOK, Memory, Calls
<1>8. WordsNamed(mem, closures)
  <2>1. Len(closures) = 0 /\ DOMAIN closures = {}
    BY <1>2, EmptySeq
  <2>2. ASSUME NEW k \in 0..(STACK_SIZE - 1)
        PROVE  Named(mem[k], closures)
    <3>1. mem[k] \in {val(-1), addr(0), ptr(0)}
      BY <1>1, <1>2
    <3>2. QED
      BY <1>3, <2>1, <3>1 DEF Named
  <2>3. QED
    BY <2>1, <2>2 DEF WordsNamed
<1>8a. Bases = {}
  BY InitBases
<1>9. Chain(mem, top, callee, Bases)
  <2>1. /\ mem[STACK_SIZE][2] = 0 /\ mem[top][1] = "addr" /\ mem[top][2] \in ReturnsTo(0)
        /\ IsSelf(mem[top + 1])
    <3>1. mem[STACK_SIZE][2] = 0 /\ mem[top][1] = "addr" /\ mem[top][2] = 0
      BY <1>2, <1>3, <1>6
    <3>2. mem[top + 1] = ptr(0)
      BY <1>1, <1>2
    <3>3. QED
      BY <1>3, <3>1, <3>2 DEF ReturnsTo, IsSelf
  <2>2. OperandsFrom(mem, 0) = STACK_SIZE - NGlobals
    BY DEF OperandsFrom
  <2>3. top + 1 + callee[1].fun.args < OperandsFrom(mem, 0)
    BY <1>1, <1>2, <1>4, <2>2
  <2>4. FramesIn(mem, {})
    BY DEF FramesIn
  <2>5. callee # <<>>
    BY <1>2, <1>4
  <2>6. QED
    BY <1>8a, <2>1, <2>3, <2>4, <2>5 DEF Chain
<1>10. QED
  BY <1>7, <1>8, <1>9 DEF IInv, LinkedFrames

\* Every instruction of a compiled program keeps the frames, the operands and
\* the references in order.
LEMMA NextSound ==
  ASSUME Compiled, IInv, [Next]_vars
  PROVE  IInv'
<1>1. CASE Const
  BY <1>1, ConstSound
<1>2. CASE Drop
  BY <1>2, DropSound
<1>3. CASE Dup
  BY <1>3, DupSound
<1>4. CASE Swap
  BY <1>4, SwapSound
<1>5. CASE Load
  BY <1>5, LoadSound
<1>6. CASE Store
  BY <1>6, StoreSound
<1>7. CASE LoadCaptured
  BY <1>7, LoadCapturedSound
<1>8. CASE StoreCaptured
  BY <1>8, StoreCapturedSound
<1>9. CASE MakeClosure
  BY <1>9, MakeClosureSound
<1>10. CASE Call
  BY <1>10, CallSound
<1>11. CASE CallClosure
  BY <1>11, CallClosureSound
<1>12. CASE Begin
  BY <1>12, BeginSound
<1>13. CASE End
  BY <1>13, EndSound
<1>14. CASE UNCHANGED vars
  BY <1>14 DEF vars, IInv, TypeOK, LinkedFrames, Bases
<1>15. QED
  BY <1>1, <1>2, <1>3, <1>4, <1>5, <1>6, <1>7, <1>8, <1>9, <1>10, <1>11, <1>12,
     <1>13, <1>14 DEF Next

\* Types, references and frames stay in order.
LEMMA FramesSound ==
  ASSUME Compiled
  PROVE  Spec => []IInv
<1>1. Init => IInv
  BY InitSound
<1>2. IInv /\ [Next]_vars => IInv'
  BY NextSound
<1>3. QED
  BY <1>1, <1>2, PTL DEF Spec

\* The return addresses in the stack are those of a chain of frames, and every
\* reference names a closure made, at every step of every compiled program
\* (main.c:277-394).
THEOREM FramesInOrder ==
  ASSUME Compiled
  PROVE  Spec => []LinkedFrames
<1>1. IInv => LinkedFrames
  BY DEF IInv
<1>2. QED
  BY <1>1, FramesSound, PTL

\* The stack stays between the two ends that gc_get_stack_top_checked guards
\* (main.c:36-43), and its words are values.
THEOREM StackTypeCorrect ==
  ASSUME Compiled
  PROVE  Spec => []TypeOK
<1>1. IInv => TypeOK
  BY DEF IInv
<1>2. QED
  BY <1>1, FramesSound, PTL

\* LD and ST (main.c:179-275) of a compiled program reach words in use that are no
\* saved words of the frame, at any depth of calls.
THEOREM AccessesStay ==
  ASSUME Compiled
  PROVE  Spec => []AccessesStayInFrame
<1>1. IInv => AccessesStayInFrame
  BY PositionFacts DEF AccessesStayInFrame
<1>2. QED
  BY <1>1, FramesSound, PTL

-----------------------------------------------------------------------------
(* The order of the bases.                                                  *)

\* Every rank is that of a base.
Ordered(B) ==
  /\ B \subseteq Int /\ IsFiniteSet(B)
  /\ \A i \in 1..Cardinality(B) : \E e \in B : Rank(B, e) = i

\* A rank counts the base itself and no more than all of them.
LEMMA RankRange ==
  ASSUME NEW B, B \subseteq Int, IsFiniteSet(B), NEW e \in B
  PROVE  Rank(B, e) \in 1..Cardinality(B)
<1> DEFINE S == {d \in B : d >= e}
<1>1. /\ IsFiniteSet(S) /\ Cardinality(S) <= Cardinality(B)
      /\ Cardinality(S) \in Nat /\ Cardinality(B) \in Nat
  BY FS_Subset, FS_CardinalityType
<1>2. e \in S
  OBVIOUS
<1>3. Cardinality(S) # 0
  BY <1>1, <1>2, FS_EmptySet
<1> HIDE DEF S
<1>4. QED
  BY <1>1, <1>3 DEF Rank, S

\* The higher of two bases has the lower rank.
LEMMA RankDecreases ==
  ASSUME NEW B, B \subseteq Int, IsFiniteSet(B), NEW e \in B, NEW d \in B, e < d
  PROVE  Rank(B, d) < Rank(B, e)
<1> DEFINE S == {x \in B : x >= e}
           T == {x \in B : x >= d}
<1>1. T \subseteq S /\ e \in S /\ e \notin T
  <2>1. \A x \in B : x \in Int /\ (x >= d => x >= e)
    OBVIOUS
  <2>2. e >= e /\ ~ (e >= d)
    OBVIOUS
  <2>3. QED
    BY <2>1, <2>2
<1>2. IsFiniteSet(S) /\ IsFiniteSet(T)
  BY FS_Subset
<1>3. Cardinality(S) \in Nat /\ Cardinality(T) \in Nat
  BY <1>2, FS_CardinalityType
<1> HIDE DEF S, T
<1>4. Cardinality(T) <= Cardinality(S) /\ Cardinality(T) # Cardinality(S)
  BY <1>1, <1>2, FS_Subset
<1>5. Cardinality(T) < Cardinality(S)
  BY <1>3, <1>4
<1>6. QED
  BY <1>5 DEF Rank, S, T

\* A base is the one of its rank.
LEMMA BaseOfRank ==
  ASSUME NEW B, Ordered(B)
  PROVE  /\ Cardinality(B) \in Nat
         /\ \A i \in 1..Cardinality(B) : BaseAt(B, i) \in B /\ Rank(B, BaseAt(B, i)) = i
         /\ \A e \in B : Rank(B, e) \in 1..Cardinality(B) /\ BaseAt(B, Rank(B, e)) = e
<1>1. B \subseteq Int /\ IsFiniteSet(B) /\ Cardinality(B) \in Nat
  BY FS_CardinalityType DEF Ordered
<1>2. ASSUME NEW i \in 1..Cardinality(B)
      PROVE  BaseAt(B, i) \in B /\ Rank(B, BaseAt(B, i)) = i
  <2>1. \E e \in B : Rank(B, e) = i
    BY DEF Ordered
  <2>2. QED
    BY <2>1 DEF BaseAt
<1>3. ASSUME NEW e \in B
      PROVE  Rank(B, e) \in 1..Cardinality(B) /\ BaseAt(B, Rank(B, e)) = e
  <2>1. Rank(B, e) \in 1..Cardinality(B)
    BY <1>1, RankRange
  <2> DEFINE d == BaseAt(B, Rank(B, e))
  <2>2. d \in B /\ Rank(B, d) = Rank(B, e)
    BY <1>2, <2>1
  <2> HIDE DEF d
  <2>3. ~ (d < e) /\ ~ (e < d)
    <3>1. Rank(B, e) \in Int
      BY <1>1, <2>1
    <3>2. ASSUME d < e
          PROVE  FALSE
      <4>1. Rank(B, e) < Rank(B, d)
        BY <1>1, <2>2, <3>2, RankDecreases
      <4>2. QED
        BY <2>2, <3>1, <4>1
    <3>3. ASSUME e < d
          PROVE  FALSE
      <4>1. Rank(B, d) < Rank(B, e)
        BY <1>1, <2>2, <3>3, RankDecreases
      <4>2. QED
        BY <2>2, <3>1, <4>1
    <3>4. QED
      BY <3>2, <3>3
  <2>4. d = e
    BY <1>1, <2>2, <2>3
  <2>5. QED
    BY <2>1, <2>4 DEF d
<1>4. QED
  BY <1>1, <1>2, <1>3

\* The lowest base has the last rank, and the ranks of the others do not depend
\* on it.
LEMMA LowestRank ==
  ASSUME NEW B, B \subseteq Int, IsFiniteSet(B), NEW b \in B, \A e \in B : b <= e
  PROVE  /\ IsFiniteSet(B \ {b}) /\ Cardinality(B) \in Nat /\ Cardinality(B) >= 1
         /\ Cardinality(B \ {b}) = Cardinality(B) - 1
         /\ Rank(B, b) = Cardinality(B)
         /\ \A e \in B \ {b} : Rank(B \ {b}, e) = Rank(B, e)
<1> DEFINE D == B \ {b}
<1>1. IsFiniteSet(D) /\ Cardinality(D) = Cardinality(B) - 1
  BY FS_RemoveElement
<1>2. Cardinality(B) \in Nat /\ Cardinality(D) \in Nat
  BY <1>1, FS_CardinalityType
<1>3. {d \in B : d >= b} = B
  OBVIOUS
<1>4. ASSUME NEW e \in D
      PROVE  {d \in D : d >= e} = {d \in B : d >= e}
  OBVIOUS
<1>5. QED
  BY <1>1, <1>2, <1>3, <1>4 DEF Rank

\* Without the lowest base the others keep their order, and with a lower one they
\* do as well.
LEMMA LowestBase ==
  ASSUME NEW B, B \subseteq Int, IsFiniteSet(B), NEW b \in B, \A e \in B : b <= e
  PROVE  /\ Ordered(B) <=> Ordered(B \ {b})
         /\ Cardinality(B) \in Nat /\ Cardinality(B) >= 1
         /\ Cardinality(B \ {b}) = Cardinality(B) - 1
         /\ Ordered(B) =>
              /\ BaseAt(B, Cardinality(B)) = b
              /\ \A i \in 1..(Cardinality(B) - 1) :
                   BaseAt(B, i) \in B \ {b} /\ BaseAt(B \ {b}, i) = BaseAt(B, i)
<1> DEFINE D == B \ {b}
           n == Cardinality(B)
<1>1. /\ IsFiniteSet(D) /\ n \in Nat /\ n >= 1
      /\ Cardinality(D) = n - 1
      /\ Rank(B, b) = n /\ \A e \in D : Rank(D, e) = Rank(B, e)
  BY LowestRank
<1>1a. D \subseteq B /\ b \in B /\ B \subseteq D \cup {b} /\ D \subseteq Int
  OBVIOUS
<1>1b. n = Cardinality(B)
  OBVIOUS
<1> HIDE DEF D, n
<1>2. ASSUME Ordered(B), NEW i \in 1..(n - 1)
      PROVE  BaseAt(B, i) \in D /\ Rank(D, BaseAt(B, i)) = i
  <2>1. i \in 1..n /\ i # n
    BY <1>1
  <2>2. BaseAt(B, i) \in B /\ Rank(B, BaseAt(B, i)) = i
    BY <1>1b, <1>2, <2>1, BaseOfRank
  <2>3. BaseAt(B, i) # b
    BY <1>1, <2>1, <2>2
  <2>4. QED
    BY <1>1, <1>1a, <2>2, <2>3
<1>3. Ordered(B) => Ordered(D)
  BY <1>1, <1>1a, <1>2 DEF Ordered
<1>4. ASSUME Ordered(D)
      PROVE  Ordered(B)
  <2>1. ASSUME NEW i \in 1..n
        PROVE  \E e \in B : Rank(B, e) = i
    <3>1. CASE i = n
      BY <1>1, <1>1a, <3>1
    <3>2. CASE i # n
      <4>1. i \in 1..Cardinality(D)
        BY <1>1, <3>2
      <4>2. PICK e \in D : Rank(D, e) = i
        BY <1>4, <4>1 DEF Ordered
      <4>3. QED
        BY <1>1, <1>1a, <4>2
    <3>3. QED
      BY <3>1, <3>2
  <2>2. QED
    BY <1>1b, <2>1 DEF Ordered
<1>5. ASSUME Ordered(B)
      PROVE  /\ BaseAt(B, n) = b
             /\ \A i \in 1..(n - 1) : BaseAt(B, i) \in D /\ BaseAt(D, i) = BaseAt(B, i)
  <2>1. BaseAt(B, n) = b
    <3>1. BaseAt(B, Rank(B, b)) = b
      BY <1>1a, <1>5, BaseOfRank
    <3>2. QED
      BY <1>1, <3>1
  <2>2. ASSUME NEW i \in 1..(n - 1)
        PROVE  BaseAt(B, i) \in D /\ BaseAt(D, i) = BaseAt(B, i)
    <3>1. BaseAt(B, i) \in D /\ Rank(D, BaseAt(B, i)) = i
      BY <1>2, <1>5
    <3>2. BaseAt(D, Rank(D, BaseAt(B, i))) = BaseAt(B, i)
      BY <1>3, <1>5, <3>1, BaseOfRank
    <3>3. QED
      BY <3>1, <3>2
  <2>3. QED
    BY <2>1, <2>2
<1>6. QED
  BY <1>1, <1>3, <1>4, <1>5 DEF D, n

-----------------------------------------------------------------------------
(* Frames and activations.                                                  *)

\* The words of the frame at e; its operands end at lo.
WordsKept(m, k, lo, e) ==
  \A i \in lo..(e + 2 + m[e + 1][2]) : k[i] = m[i]

\* A frame is the same when its words are.
LEMMA FrameKept ==
  ASSUME NEW m, NEW k, NEW lo \in Int, NEW e \in Int, lo <= e - 2 - m[e - 2][2],
         m[e + 1][2] \in Nat, m[e - 2][2] \in Nat, WordsKept(m, k, lo, e)
  PROVE  FrameAt(k, lo, e) = FrameAt(m, lo, e) /\ k[e + 1] = m[e + 1]
<1> DEFINE from == e - 2 - m[e - 2][2]
<1>1. /\ k[e + 1] = m[e + 1] /\ k[e + 2] = m[e + 2]
      /\ k[e - 1] = m[e - 1] /\ k[e - 2] = m[e - 2]
  BY DEF WordsKept
<1>2. \A j \in 1..m[e + 1][2] : k[e + 2 + j] = m[e + 2 + j]
  BY DEF WordsKept
<1>3. from \in Int /\ lo <= from /\ from <= e - 2
  OBVIOUS
<1>4. \A i \in 1..m[e - 2][2] : k[e - 2 - i] = m[e - 2 - i]
  <2>1. \A i \in 1..m[e - 2][2] : e - 2 - i \in lo..(e + 2 + m[e + 1][2])
    OBVIOUS
  <2>2. QED
    BY <2>1 DEF WordsKept
<1> HIDE DEF from
<1>5. \A i \in 1..(from - lo) : k[from - i] = m[from - i]
  <2>1. \A i \in 1..(from - lo) : from - i \in lo..(e + 2 + m[e + 1][2])
    BY <1>3
  <2>2. QED
    BY <2>1 DEF WordsKept
<1>6. Below(k, m[e - 2][2], e - 2) = Below(m, m[e - 2][2], e - 2)
      /\ Below(k, from - lo, from) = Below(m, from - lo, from)
  BY <1>4, <1>5 DEF Below
<1>6a. Above(k, m[e + 1][2], e + 2) = Above(m, m[e + 1][2], e + 2)
  BY <1>2 DEF Above
<1>7. QED
  BY <1>1, <1>6, <1>6a DEF FrameAt, from

\* The frame that is next above another one is its caller, and its operands end
\* above the arguments of that one.
LEMMA CallerNext ==
  ASSUME NEW m, NEW B, B \subseteq 1..STACK_SIZE, FramesIn(m, B), Ordered(B),
         NEW i \in 1..(Cardinality(B) - 1)
  PROVE  /\ BaseAt(B, i) \in B /\ BaseAt(B, i + 1) \in B
         /\ m[BaseAt(B, i + 1)][2] = BaseAt(B, i)
         /\ AboveArgs(m, BaseAt(B, i + 1)) <= OperandsFrom(m, BaseAt(B, i))
<1> DEFINE d == BaseAt(B, i + 1)
           e == BaseAt(B, i)
           c == m[d][2]
<1>0. B \subseteq Int /\ IsFiniteSet(B) /\ Cardinality(B) \in Nat
  BY BaseOfRank DEF Ordered
<1>1. /\ B \subseteq Int /\ IsFiniteSet(B) /\ Cardinality(B) \in Nat
      /\ \A x \in B : x \in Int /\ x >= 1
  BY <1>0, StackAssumption
<1>2. d \in B /\ Rank(B, d) = i + 1 /\ e \in B /\ Rank(B, e) = i
  BY <1>1, BaseOfRank
<1> HIDE DEF d, e, c
<1>3. d < e
  <2>1. d # e
    BY <1>2
  <2>2. ~ (e < d)
    <3>1. ASSUME e < d
          PROVE  Rank(B, d) < Rank(B, e)
      BY <1>1, <1>2, <3>1, RankDecreases
    <3>2. QED
      BY <1>1, <1>2, <3>1
  <2>3. QED
    BY <1>1, <1>2, <2>1, <2>2
<1>4. /\ c \in B \cup {0} /\ c # 0 /\ e >= c
      /\ m[d + 1][2] \in Nat /\ d + 2 + m[d + 1][2] < OperandsFrom(m, c)
  BY <1>2, <1>3 DEF FramesIn, c
<1>5. c \in B /\ c \in Int /\ m[c - 2][2] \in Nat /\ OperandsFrom(m, c) = c - 2 - m[c - 2][2]
  BY <1>1, <1>4 DEF FramesIn, OperandsFrom
<1>6. d < c
  <2>1. PICK p \in Nat, q \in Nat : p = m[d + 1][2] /\ q = m[c - 2][2]
    BY <1>4, <1>5
  <2>2. d \in Int /\ c \in Int /\ d + 2 + p < c - 2 - q
    BY <1>1, <1>2, <1>4, <1>5, <2>1
  <2>3. QED
    BY <2>2
<1>7. ~ (c < e)
  <2>1. ASSUME c < e
        PROVE  FALSE
    <3>1. Rank(B, c) < Rank(B, d)
      BY <1>1, <1>2, <1>5, <1>6, RankDecreases
    <3>2. Rank(B, e) < Rank(B, c)
      BY <1>1, <1>2, <1>5, <2>1, RankDecreases
    <3>3. Rank(B, c) \in 1..Cardinality(B)
      BY <1>1, <1>5, RankRange
    <3>4. QED
      BY <1>1, <1>2, <3>1, <3>2, <3>3
  <2>2. QED
    BY <2>1
<1>8. c = e
  BY <1>1, <1>2, <1>4, <1>5, <1>7
<1>9. AboveArgs(m, d) <= OperandsFrom(m, e)
  BY <1>1, <1>2, <1>4, <1>5, <1>8 DEF AboveArgs
<1>10. QED
  BY <1>2, <1>8, <1>9 DEF c, d, e

\* The frames of the callers lie above the arguments of the last frame and below
\* the globals.
LEMMA CallersAbove ==
  ASSUME NEW m, NEW B, B \subseteq 1..STACK_SIZE, FramesIn(m, B), Ordered(B),
         NEW b \in B, \A e \in B : b <= e, NEW e \in B \ {b}
  PROVE  /\ AboveArgs(m, b) \in Int /\ OperandsFrom(m, e) \in Int
         /\ AboveArgs(m, b) <= OperandsFrom(m, e) /\ OperandsFrom(m, e) <= e - 2
         /\ OperandsFrom(m, e) = e - 2 - m[e - 2][2]
         /\ m[e + 1][2] \in Nat /\ m[e - 2][2] \in Nat
         /\ e + 2 + m[e + 1][2] < STACK_SIZE - NGlobals
<1>0. B \subseteq Int /\ IsFiniteSet(B) /\ Cardinality(B) \in Nat
  BY BaseOfRank DEF Ordered
<1>1. /\ B \subseteq Int /\ IsFiniteSet(B) /\ Cardinality(B) \in Nat
      /\ STACK_SIZE \in Int /\ NGlobals \in Int
      /\ \A x \in B : x \in Int /\ x >= 1
  BY <1>0, StackAssumption
<1>2. ASSUME NEW x \in B
      PROVE  /\ m[x + 1][2] \in Nat /\ m[x - 2][2] \in Nat
             /\ OperandsFrom(m, x) = x - 2 - m[x - 2][2]
             /\ OperandsFrom(m, x) \in Int /\ OperandsFrom(m, x) <= x - 2
             /\ AboveArgs(m, x) = x + 3 + m[x + 1][2] /\ AboveArgs(m, x) \in Int
             /\ x + 2 < STACK_SIZE - NGlobals
  <2>1. m[x + 1][2] \in Nat /\ m[x - 2][2] \in Nat /\ x + 2 < STACK_SIZE - NGlobals
    BY DEF FramesIn
  <2>2. OperandsFrom(m, x) = x - 2 - m[x - 2][2]
    BY <1>1 DEF OperandsFrom
  <2>3. QED
    BY <1>1, <2>1, <2>2 DEF AboveArgs
<1>3. e + 2 + m[e + 1][2] < STACK_SIZE - NGlobals
  <2> DEFINE c == m[e][2]
  <2>1. c \in B \cup {0} /\ e + 2 + m[e + 1][2] < OperandsFrom(m, c)
    BY DEF FramesIn
  <2> HIDE DEF c
  <2>2. OperandsFrom(m, c) \in Int /\ OperandsFrom(m, c) <= STACK_SIZE - NGlobals
    <3>1. CASE c = 0
      BY <1>1, <3>1 DEF OperandsFrom
    <3>2. CASE c # 0
      BY <1>1, <1>2, <2>1, <3>2
    <3>3. QED
      BY <3>1, <3>2
  <2>3. QED
    BY <1>1, <1>2, <2>1, <2>2
<1>4. AboveArgs(m, b) <= OperandsFrom(m, e)
  <2>1. Rank(B, e) \in 1..Cardinality(B) /\ BaseAt(B, Rank(B, e)) = e
        /\ BaseAt(B, Cardinality(B)) = b
    BY <1>1, BaseOfRank, LowestBase
  <2>2. PICK i \in 1..(Cardinality(B) - 1) : BaseAt(B, i) = e
    <3>1. Rank(B, e) # Cardinality(B)
      BY <2>1
    <3>2. Rank(B, e) \in 1..(Cardinality(B) - 1)
      BY <1>1, <2>1, <3>1
    <3>3. QED
      BY <2>1, <3>2
  <2> DEFINE d == BaseAt(B, i + 1)
  <2>3. d \in B /\ AboveArgs(m, d) <= OperandsFrom(m, e)
    BY <2>2, CallerNext
  <2> HIDE DEF d
  <2>4. CASE d = b
    BY <2>3, <2>4
  <2>5. CASE d # b
    <3> DEFINE c == m[b][2]
    <3>1. d > b
      BY <1>1, <2>3, <2>5
    <3>2. c \in B \cup {0} /\ c # 0 /\ d >= c /\ b + 2 + m[b + 1][2] < OperandsFrom(m, c)
      BY <2>3, <3>1 DEF FramesIn
    <3> HIDE DEF c
    <3>3. c \in B
      BY <3>2
    <3>4. /\ OperandsFrom(m, c) \in Int /\ OperandsFrom(m, c) <= c - 2 /\ c \in Int
          /\ AboveArgs(m, b) = b + 3 + m[b + 1][2] /\ m[b + 1][2] \in Nat
          /\ AboveArgs(m, d) = d + 3 + m[d + 1][2] /\ m[d + 1][2] \in Nat
          /\ d \in Int /\ b \in Int
      BY <1>1, <1>2, <2>3, <3>3
    <3>5. AboveArgs(m, b) <= c - 2 /\ c - 2 <= AboveArgs(m, d)
      BY <3>2, <3>4
    <3>6. QED
      BY <1>2, <2>3, <3>4, <3>5
  <2>6. QED
    BY <2>4, <2>5
<1>5. QED
  BY <1>2, <1>3, <1>4

\* The entries of s up to n - 1, then a.
Stacked(n, s, a) == [i \in 1..n |-> IF i = n THEN a ELSE s[i]]

\* The activations of all frames but the one at b; the operands of the last one
\* end at lo.
CallersOf(m, lo, B, b) == ActivationsOf(m, lo, B \ {b})

\* The last activation is that of the lowest base, the others are those of its
\* callers.
LEMMA ActivationsSplit ==
  ASSUME NEW m, NEW lo, NEW B, Ordered(B), NEW b \in B, \A e \in B : b <= e,
         NEW n, n = Cardinality(B)
  PROVE  /\ n \in Nat /\ n >= 1 /\ Ordered(B \ {b}) /\ Cardinality(B \ {b}) = n - 1
         /\ ActivationsOf(m, lo, B) =
              Stacked(n, CallersOf(m, AboveArgs(m, b), B, b), FrameAt(m, lo, b))
<1> DEFINE D == B \ {b}
           after == AboveArgs(m, b)
           base == [i \in 1..n |-> BaseAt(B, i)]
           dbase == [i \in 1..(n - 1) |-> BaseAt(D, i)]
<1>0. B \subseteq Int /\ IsFiniteSet(B)
  BY DEF Ordered
<1>1. /\ n \in Nat /\ n >= 1 /\ Ordered(D) /\ Cardinality(D) = n - 1
      /\ BaseAt(B, n) = b /\ \A i \in 1..(n - 1) : BaseAt(D, i) = BaseAt(B, i)
  <2>1. /\ Ordered(B) <=> Ordered(B \ {b})
        /\ Cardinality(B) \in Nat /\ Cardinality(B) >= 1
        /\ Cardinality(B \ {b}) = Cardinality(B) - 1
        /\ Ordered(B) =>
             /\ BaseAt(B, Cardinality(B)) = b
             /\ \A i \in 1..(Cardinality(B) - 1) :
                  BaseAt(B, i) \in B \ {b} /\ BaseAt(B \ {b}, i) = BaseAt(B, i)
    BY <1>0, LowestBase
  <2>2. QED
    BY <2>1
<1> HIDE DEF D
<1>2. /\ \A i \in 1..n : base[i] = BaseAt(B, i)
      /\ \A i \in 1..(n - 1) : dbase[i] = BaseAt(B, i)
  BY <1>1
<1>3. ActivationsOf(m, lo, B) =
        [i \in 1..n |-> FrameAt(m, IF i = n THEN lo ELSE AboveArgs(m, base[i + 1]), base[i])]
  BY DEF ActivationsOf
<1>4. ActivationsOf(m, after, D) =
        [i \in 1..(n - 1) |->
           FrameAt(m, IF i = n - 1 THEN after ELSE AboveArgs(m, dbase[i + 1]), dbase[i])]
  BY <1>1 DEF ActivationsOf
<1>5. base[n] = b
  BY <1>1, <1>2
<1> HIDE DEF base, dbase
<1>6. ASSUME NEW i \in 1..n, i # n
      PROVE  FrameAt(m, AboveArgs(m, base[i + 1]), base[i]) = ActivationsOf(m, after, D)[i]
  <2>1. i \in 1..(n - 1) /\ i + 1 \in 1..n
    BY <1>1, <1>6
  <2>2. base[i] = dbase[i]
    BY <1>1, <1>2, <2>1
  <2>3. CASE i = n - 1
    <3>1. i + 1 = n
      BY <1>1, <2>1, <2>3
    <3>2. QED
      BY <1>4, <1>5, <2>1, <2>2, <2>3, <3>1
  <2>4. CASE i # n - 1
    <3>1. i + 1 \in 1..(n - 1)
      BY <1>1, <2>1, <2>4
    <3>2. base[i + 1] = dbase[i + 1]
      BY <1>2, <2>1, <3>1
    <3>3. QED
      BY <1>4, <2>1, <2>2, <2>4, <3>2
  <2>5. QED
    BY <2>3, <2>4
<1>7. ASSUME NEW i \in 1..n
      PROVE  FrameAt(m, IF i = n THEN lo ELSE AboveArgs(m, base[i + 1]), base[i])
               = IF i = n THEN FrameAt(m, lo, b) ELSE ActivationsOf(m, after, D)[i]
  BY <1>5, <1>6
<1>8. ActivationsOf(m, lo, B) = Stacked(n, ActivationsOf(m, after, D), FrameAt(m, lo, b))
  BY <1>3, <1>7 DEF Stacked
<1>9. QED
  BY <1>1, <1>8 DEF D, CallersOf

\* The activations of the callers stay when nothing above the arguments of the
\* last frame changes.
LEMMA CallersKept ==
  ASSUME NEW m, NEW B, B \subseteq 1..STACK_SIZE, FramesIn(m, B), Ordered(B),
         NEW b \in B, \A e \in B : b <= e,
         NEW k, \A i \in AboveArgs(m, b)..(STACK_SIZE - NGlobals - 1) : k[i] = m[i]
  PROVE  CallersOf(k, AboveArgs(m, b), B, b) = CallersOf(m, AboveArgs(m, b), B, b)
<1> DEFINE D == B \ {b}
           lo == AboveArgs(m, b)
           n == Cardinality(D)
           base == [i \in 1..n |-> BaseAt(D, i)]
<1>1. /\ B \subseteq Int /\ IsFiniteSet(B) /\ Cardinality(B) \in Nat /\ n = Cardinality(B) - 1
      /\ n \in Nat
      /\ BaseAt(B, n + 1) = b /\ \A i \in 1..n : base[i] = BaseAt(B, i) /\ base[i] \in D
  <2>1. /\ B \subseteq Int /\ IsFiniteSet(B) /\ Cardinality(B) \in Nat
        /\ Cardinality(B) >= 1 /\ n = Cardinality(B) - 1
        /\ BaseAt(B, Cardinality(B)) = b
        /\ \A i \in 1..(Cardinality(B) - 1) : BaseAt(B, i) \in D /\ BaseAt(D, i) = BaseAt(B, i)
    BY LowestBase DEF Ordered
  <2> HIDE DEF n, D
  <2>2. n \in Nat /\ n + 1 = Cardinality(B)
    BY <2>1
  <2>3. QED
    BY <2>1, <2>2
<1>2. STACK_SIZE \in Int /\ NGlobals \in Int /\ lo \in Int
  <2>1. m[b + 1][2] \in Nat /\ b \in Int
    BY <1>1 DEF FramesIn
  <2>2. QED
    BY <2>1, StackAssumption DEF AboveArgs
<1>3. \A e \in D :
        /\ e \in Int /\ OperandsFrom(m, e) \in Int
        /\ lo <= OperandsFrom(m, e) /\ OperandsFrom(m, e) <= e - 2
        /\ OperandsFrom(m, e) = e - 2 - m[e - 2][2]
        /\ m[e + 1][2] \in Nat /\ m[e - 2][2] \in Nat
        /\ e + 2 + m[e + 1][2] < STACK_SIZE - NGlobals
  <2>1. ASSUME NEW e \in B \ {b}
        PROVE  /\ OperandsFrom(m, e) \in Int
               /\ AboveArgs(m, b) <= OperandsFrom(m, e) /\ OperandsFrom(m, e) <= e - 2
               /\ OperandsFrom(m, e) = e - 2 - m[e - 2][2]
               /\ m[e + 1][2] \in Nat /\ m[e - 2][2] \in Nat
               /\ e + 2 + m[e + 1][2] < STACK_SIZE - NGlobals
    BY CallersAbove
  <2>2. QED
    BY <1>1, <2>1
<1>3a. D \subseteq B /\ lo = AboveArgs(m, b)
  OBVIOUS
<1>4. \A i \in 1..n : (IF i = n THEN lo ELSE AboveArgs(m, base[i + 1])) <= OperandsFrom(m, base[i])
  <2> HIDE DEF n, base, D, lo
  <2>1. ASSUME NEW i \in 1..n
        PROVE  AboveArgs(m, BaseAt(B, i + 1)) <= OperandsFrom(m, base[i])
    <3>1. i \in 1..(Cardinality(B) - 1)
      BY <1>1
    <3>2. AboveArgs(m, BaseAt(B, i + 1)) <= OperandsFrom(m, BaseAt(B, i))
      BY <3>1, CallerNext
    <3>3. QED
      BY <1>1, <3>2
  <2>2. ASSUME NEW i \in 1..n
        PROVE  IF i = n THEN BaseAt(B, i + 1) = b ELSE base[i + 1] = BaseAt(B, i + 1)
    <3>1. CASE i = n
      BY <1>1, <3>1
    <3>2. CASE i # n
      <4>1. i + 1 \in 1..n
        BY <1>1, <3>2
      <4>2. QED
        BY <1>1, <3>2, <4>1
    <3>3. QED
      BY <3>1, <3>2
  <2>3. QED
    BY <1>3a, <2>1, <2>2
<1> HIDE DEF D, n, lo, base
<1>5. ASSUME NEW e \in D
      PROVE  /\ k[e + 1] = m[e + 1] /\ AboveArgs(k, e) = AboveArgs(m, e)
             /\ AboveArgs(m, e) \in Int /\ AboveArgs(m, e) >= lo
  <2>1. e + 1 \in lo..(STACK_SIZE - NGlobals - 1)
    <3>1. PICK p \in Nat : p = m[e + 1][2]
      BY <1>3
    <3>2. e \in Int /\ lo <= e - 2 /\ e + 2 + p < STACK_SIZE - NGlobals
      BY <1>2, <1>3, <3>1
    <3>3. QED
      BY <1>2, <3>2
  <2>2. k[e + 1] = m[e + 1]
    BY <2>1 DEF lo
  <2>3. QED
    BY <1>2, <1>3, <2>2 DEF AboveArgs
<1>6. ASSUME NEW e \in D, NEW last \in Int, lo <= last, last <= OperandsFrom(m, e)
      PROVE  FrameAt(k, last, e) = FrameAt(m, last, e)
  <2>1. \A i \in last..(e + 2 + m[e + 1][2]) : i \in lo..(STACK_SIZE - NGlobals - 1)
    <3>1. PICK p \in Nat : p = m[e + 1][2]
      BY <1>3
    <3>2. e \in Int /\ lo <= last /\ e + 2 + p < STACK_SIZE - NGlobals
      BY <1>2, <1>3, <1>6, <3>1
    <3>3. QED
      BY <1>2, <3>1, <3>2
  <2>2. WordsKept(m, k, last, e)
    BY <2>1 DEF WordsKept, lo
  <2>3. QED
    BY <1>3, <1>6, <2>2, FrameKept
<1>7. ASSUME NEW i \in 1..n
      PROVE  FrameAt(k, IF i = n THEN lo ELSE AboveArgs(k, base[i + 1]), base[i])
               = FrameAt(m, IF i = n THEN lo ELSE AboveArgs(m, base[i + 1]), base[i])
  <2>1. base[i] \in D
    BY <1>1
  <2>2. CASE i = n
    BY <1>2, <1>4, <1>6, <2>1, <2>2
  <2>3. CASE i # n
    <3>1. base[i + 1] \in D
      BY <1>1, <2>3
    <3>2. QED
      BY <1>4, <1>5, <1>6, <2>1, <2>3, <3>1
  <2>4. QED
    BY <2>2, <2>3
<1>8. ActivationsOf(m, lo, D) =
        [i \in 1..n |-> FrameAt(m, IF i = n THEN lo ELSE AboveArgs(m, base[i + 1]), base[i])]
      /\ ActivationsOf(k, lo, D) =
        [i \in 1..n |-> FrameAt(k, IF i = n THEN lo ELSE AboveArgs(k, base[i + 1]), base[i])]
  BY DEF ActivationsOf, n, base
<1>9. ActivationsOf(k, lo, D) = ActivationsOf(m, lo, D)
  BY <1>7, <1>8
<1>10. QED
  BY <1>9 DEF lo, D, CallersOf

-----------------------------------------------------------------------------
(* The view of a running program.                                           *)

\* The bases of a running program have ranks.
CallsInv == state = "running" => Ordered(Bases)

\* The running activation, and those of its callers.
Current == FrameAt(mem, top, ebp)
Callers == CallersOf(mem, AboveArgs(mem, ebp), Bases, ebp)

\* The running activation is the last one.
LEMMA RunningView ==
  ASSUME IInv, CallsInv, Running, NEW n, n = Cardinality(Bases)
  PROVE  /\ n \in Nat /\ n >= 1 /\ Ordered(Bases)
         /\ Activations = Stacked(n, Callers, Current)
         /\ Len(Activations) = n /\ DOMAIN Activations = 1..n
         /\ Activations = [i \in 1..n |-> Activations[i]]
         /\ Activations[n] = Current
         /\ Abstract!Ready /\ Abstract!Top = Current
         /\ Abstract!LastOf(Activations) = Current
<1>1. Ordered(Bases) /\ callee = <<>> /\ state = "running"
  BY DEF CallsInv, Running
<1>2. ebp \in Bases /\ \A e \in Bases : ebp <= e
  <2>1. ebp \in Bases /\ \A e \in Bases : e >= ebp
    BY RunningChain
  <2>2. ebp \in Int /\ Bases \subseteq Int
    BY RunningFacts, RunningChain
  <2>3. QED
    BY <2>1, <2>2
<1>3. Activations = ActivationsOf(mem, top, Bases)
  BY <1>1 DEF Activations, OpsEnd
<1>4. /\ n \in Nat /\ n >= 1
      /\ Activations = Stacked(n, Callers, Current)
  <2> DEFINE B == Bases
             b == ebp
  <2>1. Ordered(B) /\ b \in B /\ \A e \in B : b <= e
    BY <1>1, <1>2
  <2>2. n = Cardinality(B)
    OBVIOUS
  <2> HIDE DEF B, b
  <2>3. /\ n \in Nat /\ n >= 1
        /\ ActivationsOf(mem, top, B) =
             Stacked(n, CallersOf(mem, AboveArgs(mem, b), B, b), FrameAt(mem, top, b))
    BY <2>1, <2>2, ActivationsSplit
  <2>4. QED
    BY <1>3, <2>3 DEF B, b, Current, Callers
<1> DEFINE A == Activations
<1>5. /\ DOMAIN A = 1..n /\ A = [i \in 1..n |-> A[i]] /\ A[n] = Current
  BY <1>4 DEF Stacked
<1> HIDE DEF A
<1>6. Len(A) = n
  BY <1>4, <1>5, Entries
<1>7. Abstract!Ready
  BY <1>1 DEF Abstract!Ready, StateView, EnteringView
<1>8. Abstract!LastOf(Activations) = Current /\ Abstract!Top = Current
  BY <1>5, <1>6 DEF A, Abstract!LastOf, Abstract!Top
<1>9. QED
  BY <1>1, <1>4, <1>5, <1>6, <1>7, <1>8 DEF A

\* What the running activation consists of.
LEMMA CurrentWords ==
  ASSUME IInv, Running, NEW from, from = OperandsFrom(mem, ebp)
  PROVE  /\ from \in Int /\ top <= from /\ NOps = from - top /\ NOps \in Nat
         /\ Current = [args   |-> Above(mem, NArgs, ebp + 2),
                       self   |-> Plain(Self),
                       ret    |-> mem[ebp - 1][2],
                       locals |-> Below(mem, NLocals, ebp - 2),
                       ops    |-> Below(mem, NOps, from)]
         /\ Len(Current.ops) = NOps /\ DOMAIN Current.ops = 1..NOps
         /\ Current.ops = [i \in 1..NOps |-> Current.ops[i]]
         /\ \A i \in 1..NOps : Current.ops[i] = mem[from - i]
         /\ NOps >= 1 => Abstract!LastOf(Current.ops) = mem[top]
         /\ Current.ops # <<>> <=> NOps >= 1
<1>1. /\ from \in Int /\ top \in Int /\ top <= from /\ NOps = from - top /\ NOps \in Nat
      /\ ebp \in Int /\ NLocals \in Nat /\ NArgs \in Nat /\ from = ebp - 2 - NLocals
  BY RunningFacts
<1>2. from = ebp - 2 - mem[ebp - 2][2]
  BY <1>1 DEF NLocals
<1>5. Current = [args   |-> Above(mem, NArgs, ebp + 2),
                 self   |-> Plain(Self),
                 ret    |-> mem[ebp - 1][2],
                 locals |-> Below(mem, NLocals, ebp - 2),
                 ops    |-> Below(mem, NOps, from)]
  BY <1>1, <1>2 DEF Current, FrameAt, NArgs, NLocals, Self
<1> DEFINE ops == [i \in 1..NOps |-> mem[from - i]]
<1>6. Len(ops) = NOps
  BY <1>1, Entries
<1>7. NOps >= 1 => ops[Len(ops)] = mem[top]
  <2>1. from - NOps = top
    BY <1>1
  <2>2. QED
    BY <1>1, <1>6, <2>1
<1>8. ops # <<>> <=> NOps >= 1
  BY <1>1, <1>6
<1>9. Current.ops = ops
  BY <1>5 DEF Below
<1> HIDE DEF ops
<1>10. DOMAIN ops = 1..NOps /\ ops = [i \in 1..NOps |-> ops[i]]
       /\ \A i \in 1..NOps : ops[i] = mem[from - i]
  BY DEF ops
<1>11. QED
  BY <1>1, <1>5, <1>6, <1>7, <1>8, <1>9, <1>10 DEF Abstract!LastOf

-----------------------------------------------------------------------------
(* Steps that change the running activation.                                *)

\* One entry is replaced by another.
LEMMA StackedExcept ==
  ASSUME NEW n \in Nat, n >= 1, NEW s, NEW a, NEW c
  PROVE  Stacked(n, s, a) \in Abstract!WithLast(Stacked(n, s, c), {a})
<1> DEFINE t == Stacked(n, s, c)
<1>1. t = [i \in 1..n |-> t[i]]
  BY DEF Stacked
<1>2. Len(t) = n
  BY <1>1, Entries
<1>3. Stacked(n, s, a) = [t EXCEPT ![n] = a]
  BY DEF Stacked
<1> HIDE DEF t
<1>4. Stacked(n, s, a) \in Abstract!WithLast(t, {a})
  BY <1>2, <1>3 DEF Abstract!WithLast
<1>5. QED
  BY <1>4 DEF t

\* The activations of the callers do not change while the words above the
\* arguments of the running frame do not.
LEMMA LastChanges ==
  ASSUME IInv, CallsInv, Running, state' = "running", Bases' = Bases,
         mem'[STACK_SIZE] = mem[STACK_SIZE], mem'[ebp + 1] = mem[ebp + 1],
         \A i \in AboveArgs(mem, ebp)..(STACK_SIZE - NGlobals - 1) : mem'[i] = mem[i],
         NEW a, a = FrameAt(mem', OpsEnd', ebp)
  PROVE  CallsInv' /\ Activations' \in Abstract!WithLast(Activations, {a})
<1> DEFINE B == Bases
           b == ebp
           n == Cardinality(B)
           m == mem'
           lo == OpsEnd'
<1>1. /\ n \in Nat /\ n >= 1 /\ Ordered(B) /\ Activations = Stacked(n, Callers, Current)
  BY RunningView
<1>2. /\ b \in B /\ B \subseteq 1..STACK_SIZE /\ FramesIn(mem, B)
      /\ \A e \in B : b <= e
  <2>1. /\ b \in B /\ B \subseteq 1..STACK_SIZE /\ FramesIn(mem, B) /\ \A e \in B : e >= b
        /\ B \subseteq Int
    BY RunningChain
  <2>2. b \in Int
    BY RunningFacts
  <2>3. QED
    BY <2>1, <2>2
<1>3. Activations' = ActivationsOf(m, lo, B)
  BY DEF Activations
<1>4. CallsInv'
  BY <1>1 DEF CallsInv
<1>5. AboveArgs(m, b) = AboveArgs(mem, b)
  BY DEF AboveArgs
<1>6. Callers = CallersOf(mem, AboveArgs(mem, b), B, b)
  BY DEF Callers
<1>7. \A i \in AboveArgs(mem, b)..(STACK_SIZE - NGlobals - 1) : m[i] = mem[i]
  OBVIOUS
<1>8. n = Cardinality(B) /\ a = FrameAt(m, lo, b)
  OBVIOUS
<1> HIDE DEF B, b, n, m, lo
<1>9. ActivationsOf(m, lo, B) =
        Stacked(n, CallersOf(m, AboveArgs(m, b), B, b), FrameAt(m, lo, b))
  BY <1>1, <1>2, <1>8, ActivationsSplit
<1>10. CallersOf(m, AboveArgs(mem, b), B, b) = Callers
  <2>1. CallersOf(m, AboveArgs(mem, b), B, b) = CallersOf(mem, AboveArgs(mem, b), B, b)
    BY <1>1, <1>2, <1>7, CallersKept
  <2>2. QED
    BY <1>6, <2>1
<1>11. Activations' = Stacked(n, Callers, a)
  BY <1>3, <1>5, <1>8, <1>9, <1>10
<1>12. QED
  BY <1>1, <1>4, <1>11, StackedExcept

\* The globals are the last words of the stack.
LEMMA GlobalsKept ==
  ASSUME \A i \in (STACK_SIZE - NGlobals)..(STACK_SIZE - 1) : mem'[i] = mem[i]
  PROVE  GlobalsView' = GlobalsView
<1>1. STACK_SIZE \in Int /\ NGlobals \in Int
  BY StackAssumption
<1>2. ASSUME NEW k \in 1..NGlobals
      PROVE  mem'[GlobalPos(k - 1)] = mem[GlobalPos(k - 1)]
  <2>1. GlobalPos(k - 1) \in (STACK_SIZE - NGlobals)..(STACK_SIZE - 1)
    BY <1>1 DEF GlobalPos
  <2>2. QED
    BY <2>1
<1>3. QED
  BY <1>2 DEF GlobalsView, GlobalPos

\* Only operands of the running activation change.
LEMMA OperandStep ==
  ASSUME IInv, CallsInv, Running, state' = "running", Bases' = Bases,
         NEW from, from = OperandsFrom(mem, ebp),
         \A i \in 0..STACK_SIZE : i >= from => mem'[i] = mem[i],
         NEW k, k = from - OpsEnd'
  PROVE  /\ CallsInv' /\ GlobalsView' = GlobalsView
         /\ Activations' \in Abstract!WithLast(Activations,
                               {[Current EXCEPT !.ops = Below(mem', k, from)]})
<1>1. /\ from \in Int /\ top \in Int /\ top >= 1 /\ top <= from
      /\ ebp \in Int /\ ebp >= 3 /\ ebp + 2 < STACK_SIZE - NGlobals
      /\ NLocals \in Nat /\ NArgs \in Nat /\ from = ebp - 2 - NLocals
      /\ from <= STACK_SIZE - NGlobals /\ STACK_SIZE \in Nat /\ NGlobals \in Nat
      /\ ebp + 2 + NArgs < OperandsFrom(mem, mem[ebp][2])
      /\ OperandsFrom(mem, mem[ebp][2]) \in Int
      /\ OperandsFrom(mem, mem[ebp][2]) <= STACK_SIZE - NGlobals
  BY RunningFacts
<1>2. /\ NArgs = mem[ebp + 1][2] /\ NLocals = mem[ebp - 2][2]
      /\ AboveArgs(mem, ebp) = ebp + 3 + NArgs
  BY DEF NArgs, NLocals, AboveArgs
<1> DEFINE b == ebp
           m == mem'
           lo == OpsEnd'
<1>3. \A i \in from..STACK_SIZE : m[i] = mem[i]
  BY <1>1
<1>4. k = from - lo /\ b = ebp
  OBVIOUS
<1> HIDE DEF b, m, lo
<1>5. \A i \in (b - 2)..(b + 2 + NArgs) : m[i] = mem[i]
  <2>1. \A i \in (b - 2)..(b + 2 + NArgs) : i \in from..STACK_SIZE
    BY <1>1, <1>4
  <2>2. QED
    BY <1>3, <2>1
<1>6. \A i \in 1..NLocals : m[b - 2 - i] = mem[b - 2 - i]
  <2>1. \A i \in 1..NLocals : b - 2 - i \in from..STACK_SIZE
    BY <1>1, <1>4
  <2>2. QED
    BY <1>3, <2>1
<1>7. /\ m[b + 1] = mem[b + 1] /\ m[b + 2] = mem[b + 2]
      /\ m[b - 1] = mem[b - 1] /\ m[b - 2] = mem[b - 2]
      /\ m[STACK_SIZE] = mem[STACK_SIZE]
  BY <1>1, <1>3, <1>4, <1>5
<1>8. \A i \in 1..NArgs : m[b + 2 + i] = mem[b + 2 + i]
  BY <1>1, <1>4, <1>5
<1>9. /\ Below(m, NLocals, b - 2) = Below(mem, NLocals, b - 2)
      /\ Above(m, NArgs, b + 2) = Above(mem, NArgs, b + 2)
  BY <1>6, <1>8 DEF Below, Above
<1>10. FrameAt(m, lo, b) = [Current EXCEPT !.ops = Below(m, k, from)]
  <2>1. b - 2 - m[b - 2][2] = from
    BY <1>1, <1>2, <1>4, <1>7
  <2>2. FrameAt(m, lo, b) = [args   |-> Above(mem, NArgs, b + 2),
                             self   |-> Plain(mem[b + 2]),
                             ret    |-> mem[b - 1][2],
                             locals |-> Below(mem, NLocals, b - 2),
                             ops    |-> Below(m, k, from)]
    BY <1>2, <1>4, <1>7, <1>9, <2>1 DEF FrameAt
  <2>3. Current = [args   |-> Above(mem, NArgs, b + 2),
                   self   |-> Plain(Self),
                   ret    |-> mem[b - 1][2],
                   locals |-> Below(mem, NLocals, b - 2),
                   ops    |-> Below(mem, NOps, from)]
    BY <1>4, CurrentWords
  <2>4. QED
    BY <1>4, <2>2, <2>3 DEF Self
<1>11. \A i \in AboveArgs(mem, ebp)..(STACK_SIZE - NGlobals - 1) : m[i] = mem[i]
  BY <1>1, <1>2, <1>3
<1>12. GlobalsView' = GlobalsView
  BY <1>1, <1>3, GlobalsKept DEF m
<1>13. CallsInv' /\ Activations' \in Abstract!WithLast(Activations, {FrameAt(m, lo, b)})
  BY <1>4, <1>7, <1>11, LastChanges DEF m, lo, b
<1>14. QED
  BY <1>10, <1>12, <1>13 DEF m

\* The bases stay while the return addresses above the operands do.
LEMMA SameBases ==
  ASSUME IInv, Running, IInv', Running', mem'[STACK_SIZE] = mem[STACK_SIZE],
         \A i \in (ebp - 1)..(STACK_SIZE - 1) : mem'[i][1] = "addr" <=> mem[i][1] = "addr"
  PROVE  Bases' = Bases
<1> DEFINE Marked(m) == {e \in ebp..STACK_SIZE : m[e - 1][1] = "addr"}
<1>1. /\ ebp \in Int /\ ebp >= 3 /\ STACK_SIZE \in Nat /\ top \in 1..STACK_SIZE
      /\ top <= OperandsFrom(mem, ebp) /\ OperandsFrom(mem, ebp) = ebp - 2 - NLocals
      /\ NLocals \in Nat
  BY RunningFacts
<1>2. Bases = Marked(mem)
  <2>1. Bases = BasesFrom(mem, top) /\ \A e \in Bases : e >= ebp
    BY RunningChain
  <2>2. \A e \in ebp..STACK_SIZE : e \in (top + 1)..STACK_SIZE
    BY <1>1
  <2>3. \A e \in BasesFrom(mem, top) : e \in ebp..STACK_SIZE
    BY <1>1, <2>1 DEF BasesFrom
  <2>4. QED
    BY <2>1, <2>2, <2>3 DEF BasesFrom
<1>3. Bases' = Marked(mem')
  <2> DEFINE m == mem'
             t == top'
             B == Bases'
  <2>1. Chain(m, t, <<>>, B) /\ B = BasesFrom(m, t) /\ m \in Memory /\ t \in 1..STACK_SIZE
    BY DEF IInv, LinkedFrames, Running, Bases, BasesOf, TypeOK, Memory
  <2>2. m[STACK_SIZE][2] = ebp
    BY DEF ebp
  <2> HIDE DEF m, t, B
  <2>3. /\ OperandsFrom(m, ebp) \in Int /\ t <= OperandsFrom(m, ebp) /\ ebp \in B
        /\ \A e \in B : e >= ebp /\ OperandsFrom(m, ebp) <= e - 2
    <3>1. t \in Int
      BY <1>1, <2>1
    <3>2. /\ OperandsFrom(m, ebp) \in Int
          /\ \A e \in B : e >= ebp /\ OperandsFrom(m, ebp) <= e - 2
      BY <2>1, <2>2, <3>1, ChainFacts
    <3>3. ebp \in B \cup {0} /\ ebp # 0 /\ t <= OperandsFrom(m, ebp)
      BY <1>1, <2>1, <2>2 DEF Chain
    <3>4. QED
      BY <3>2, <3>3
  <2>4. \A e \in ebp..STACK_SIZE : e \in (t + 1)..STACK_SIZE
    BY <1>1, <2>1, <2>3
  <2>5. \A e \in BasesFrom(m, t) : e \in ebp..STACK_SIZE
    BY <1>1, <2>1, <2>3 DEF BasesFrom
  <2>6. B = Marked(m)
    BY <2>1, <2>4, <2>5 DEF BasesFrom
  <2>7. QED
    BY <2>6 DEF B, m
<1>4. \A e \in ebp..STACK_SIZE : mem'[e - 1][1] = "addr" <=> mem[e - 1][1] = "addr"
  <2>1. \A e \in ebp..STACK_SIZE : e - 1 \in (ebp - 1)..(STACK_SIZE - 1)
    BY <1>1
  <2>2. QED
    BY <2>1
<1>5. QED
  BY <1>2, <1>3, <1>4


-----------------------------------------------------------------------------
(* What an activation can do with its words.                                *)

\* Three forms of a change to the running activation.
LEMMA AfterPush ==
  ASSUME NEW a, NEW v, v \in {Abstract!val(d) : d \in Data} \cup Abstract!Visible(a)
  PROVE  Abstract!Pushed(a, v) \in Abstract!After(a)
BY DEF Abstract!After

LEMMA AfterStore ==
  ASSUME NEW a, Len(a.ops) \in Nat, Len(a.ops) >= 1, NEW c,
         \/ \E k \in DOMAIN a.locals : c = [a EXCEPT !.locals[k] = Abstract!LastOf(a.ops)]
         \/ \E k \in DOMAIN a.args : c = [a EXCEPT !.args[k] = Abstract!LastOf(a.ops)]
  PROVE  c \in Abstract!After(a)
BY DEF Abstract!After

LEMMA AfterOperands ==
  ASSUME NEW a, Len(a.ops) \in Nat, Len(a.ops) >= 1
  PROVE  /\ Abstract!Pushed(a, Abstract!LastOf(a.ops)) \in Abstract!After(a)
         /\ Abstract!Popped(a, 1) \in Abstract!After(a)
         /\ Len(a.ops) >= 2 => Abstract!Swapped(a) \in Abstract!After(a)
BY DEF Abstract!After

\* An instruction that only changes the words of the running activation.
LEMMA Operates ==
  ASSUME Running, state' = "running", UNCHANGED <<callee, closures, site>>,
         GlobalsView' = GlobalsView, EnteringView' = EnteringView,
         Abstract!LastOf(Activations) = Current,
         NEW a, a \in Abstract!After(Current),
         Activations' \in Abstract!WithLast(Activations, {a})
  PROVE  Abstract!Next
<1>1. Abstract!Ready
  BY DEF Running, Abstract!Ready, StateView, EnteringView
<1>2. StateView' = StateView
  BY DEF Running, StateView
<1>3. Activations' \in Abstract!WithLast(Activations, Abstract!After(Current))
  BY DEF Abstract!WithLast
<1>4. Abstract!Operate
  BY <1>1, <1>2, <1>3 DEF Abstract!Operate
<1>5. QED
  BY <1>4 DEF Abstract!Next

\* Out of stack, the program stops as it is.
LEMMA Halts ==
  ASSUME state = "running", Fail, UNCHANGED <<closures, site>>
  PROVE  CallsInv' /\ Abstract!Next
<1>1. mem' = mem /\ top' = top /\ callee' = callee /\ state' = "failed"
  BY DEF Fail
<1>2. CallsInv'
  BY <1>1 DEF CallsInv
<1>3. /\ Activations' = Activations /\ EnteringView' = EnteringView
      /\ GlobalsView' = GlobalsView
  BY <1>1 DEF Activations, OpsEnd, Bases, EnteringView, GlobalsView
<1>4. StateView = "running" /\ StateView' = "stopped"
  BY <1>1 DEF StateView
<1>5. Abstract!Halt
  BY <1>3, <1>4 DEF Abstract!Halt
<1>6. QED
  BY <1>2, <1>5 DEF Abstract!Next

\* The parts of the running activation other than its operands.
LEMMA CurrentParts ==
  ASSUME IInv, Running
  PROVE  /\ Current.args = Above(mem, NArgs, ebp + 2)
         /\ Current.self = Plain(Self)
         /\ Current.ret = mem[ebp - 1][2]
         /\ Current.locals = Below(mem, NLocals, ebp - 2)
         /\ Current = [args |-> Current.args, self |-> Current.self, ret |-> Current.ret,
                       locals |-> Current.locals, ops |-> Current.ops]
<1>1. PICK from : from = OperandsFrom(mem, ebp)
  OBVIOUS
<1>2. Current = [args   |-> Above(mem, NArgs, ebp + 2),
                 self   |-> Plain(Self),
                 ret    |-> mem[ebp - 1][2],
                 locals |-> Below(mem, NLocals, ebp - 2),
                 ops    |-> Below(mem, NOps, from)]
  BY <1>1, CurrentWords
<1>3. QED
  BY <1>2

\* The running activation finds the closure it runs.
LEMMA SameCaptured ==
  ASSUME IInv, Running
  PROVE  /\ Current.self = Plain(Self)
         /\ InClosure => Plain(Self) = Self /\ Plain(Self) # Abstract!Null
         /\ Abstract!Captured(Current) = Captured
<1>1. Current.self = Plain(Self)
  BY CurrentParts
<1>2. IsSelf(Self)
  BY RunningChain DEF FramesIn, Self
<1>3. CASE InClosure
  <2>1. Self[1] = "ptr" /\ Self # ptr(0) /\ Self # val(0)
    BY <1>3 DEF InClosure, val
  <2>2. Plain(Self) = Self /\ Plain(Self) # Abstract!Null
    BY <2>1 DEF Plain, Abstract!Null, Abstract!ptr, ptr
  <2>3. QED
    BY <1>1, <1>3, <2>2 DEF Abstract!Captured, Captured
<1>4. CASE ~ InClosure
  <2>1. Plain(Self) = ptr(0)
    BY <1>2, <1>4 DEF IsSelf, InClosure, Plain
  <2>2. QED
    BY <1>1, <1>4, <2>1 DEF Abstract!Captured, Captured, Abstract!Null, Abstract!ptr, ptr
<1>5. QED
  BY <1>3, <1>4

\* What LD reaches is visible to the running activation.
LEMMA VisibleWords ==
  ASSUME IInv, Running
  PROVE  /\ \A p \in Positions : mem[p] \in Abstract!Visible(Current)
         /\ \A i \in DOMAIN Captured : Captured[i] \in Abstract!Visible(Current)
<1>1. /\ STACK_SIZE \in Int /\ NGlobals \in Nat /\ ebp \in Int
      /\ NArgs \in Nat /\ NLocals \in Nat
  BY RunningFacts
<1>2. /\ Current.args = Above(mem, NArgs, ebp + 2)
      /\ Current.locals = Below(mem, NLocals, ebp - 2)
  BY CurrentParts
<1>3. ASSUME NEW k \in 0..(NGlobals - 1)
      PROVE  mem[GlobalPos(k)] \in Abstract!Values(GlobalsView)
  <2>1. k + 1 \in 1..NGlobals /\ GlobalPos((k + 1) - 1) = GlobalPos(k)
    BY <1>1 DEF GlobalPos
  <2>2. k + 1 \in DOMAIN GlobalsView /\ GlobalsView[k + 1] = mem[GlobalPos(k)]
    BY <2>1 DEF GlobalsView
  <2>3. QED
    BY <2>2 DEF Abstract!Values
<1>4. ASSUME NEW k \in 0..(NLocals - 1)
      PROVE  mem[LocalPos(k)] \in Abstract!Values(Current.locals)
  <2>1. k + 1 \in 1..NLocals /\ ebp - 2 - (k + 1) = LocalPos(k)
    BY <1>1 DEF LocalPos
  <2>2. k + 1 \in DOMAIN Current.locals /\ Current.locals[k + 1] = mem[LocalPos(k)]
    BY <1>2, <2>1 DEF Below
  <2>3. QED
    BY <2>2 DEF Abstract!Values
<1>5. ASSUME NEW k \in 0..(NArgs - 1)
      PROVE  mem[ArgPos(k)] \in Abstract!Values(Current.args)
  <2>1. k + 1 \in 1..NArgs /\ ebp + 2 + (k + 1) = ArgPos(k)
    BY <1>1 DEF ArgPos
  <2>2. k + 1 \in DOMAIN Current.args /\ Current.args[k + 1] = mem[ArgPos(k)]
    BY <1>2, <2>1 DEF Above
  <2>3. QED
    BY <2>2 DEF Abstract!Values
<1>6. \A p \in Positions : mem[p] \in Abstract!Visible(Current)
  BY <1>3, <1>4, <1>5 DEF Positions, Abstract!Visible
<1>7. \A i \in DOMAIN Captured : Captured[i] \in Abstract!Values(Abstract!Captured(Current))
  BY SameCaptured DEF Abstract!Values
<1>8. QED
  BY <1>6, <1>7 DEF Abstract!Visible

-----------------------------------------------------------------------------
(* Instructions on operands.                                                *)

\* The bases stay when only operands of the running frame change.
LEMMA OperandsKeepBases ==
  ASSUME IInv, Running, IInv', Running', NEW from, from = OperandsFrom(mem, ebp),
         \A i \in 0..STACK_SIZE : i >= from => mem'[i] = mem[i]
  PROVE  Bases' = Bases /\ mem'[STACK_SIZE] = mem[STACK_SIZE]
<1>1. /\ ebp \in Int /\ ebp >= 3 /\ STACK_SIZE \in Nat /\ from \in Int
      /\ NLocals \in Nat /\ from = ebp - 2 - NLocals /\ from <= STACK_SIZE
  BY RunningFacts
<1>2. mem'[STACK_SIZE] = mem[STACK_SIZE]
  BY <1>1
<1>3. \A i \in (ebp - 1)..(STACK_SIZE - 1) : mem'[i] = mem[i]
  <2>1. \A i \in (ebp - 1)..(STACK_SIZE - 1) : i \in 0..STACK_SIZE /\ i >= from
    BY <1>1
  <2>2. QED
    BY <2>1
<1>4. \A i \in (ebp - 1)..(STACK_SIZE - 1) : mem'[i][1] = "addr" <=> mem[i][1] = "addr"
  BY <1>3
<1>5. QED
  BY <1>2, <1>4, SameBases

\* An instruction that leaves other operands in the running frame.
LEMMA OperandsChange ==
  ASSUME IInv, CallsInv, Running, IInv', state' = "running",
         UNCHANGED <<callee, closures, site>>,
         NEW from, from = OperandsFrom(mem, ebp),
         \A i \in 0..STACK_SIZE : i >= from => mem'[i] = mem[i],
         NEW k, k = from - top',
         NEW s, s = Below(mem', k, from),
         [Current EXCEPT !.ops = s] \in Abstract!After(Current)
  PROVE  CallsInv' /\ Abstract!Next
<1>1. Running' /\ callee = <<>> /\ callee' = <<>>
  BY DEF Running
<1>2. Bases' = Bases
  BY <1>1, OperandsKeepBases
<1>3. OpsEnd' = top'
  BY <1>1 DEF OpsEnd
<1>4. /\ CallsInv' /\ GlobalsView' = GlobalsView
      /\ Activations' \in Abstract!WithLast(Activations,
                            {[Current EXCEPT !.ops = Below(mem', k, from)]})
  BY <1>2, <1>3, OperandStep
<1>5. EnteringView' = EnteringView
  BY <1>1 DEF EnteringView
<1>6. PICK n : n = Cardinality(Bases)
  OBVIOUS
<1>7. Abstract!LastOf(Activations) = Current
  BY <1>6, RunningView
<1>8. Abstract!Next
  BY <1>4, <1>5, <1>7, Operates
<1>9. QED
  BY <1>4, <1>8

\* What the running activation can push: an integer, what it can load or its last
\* operand.
Pushable(v) ==
  \/ v \in {Abstract!val(d) : d \in Data} \cup Abstract!Visible(Current)
  \/ NOps >= 1 /\ v = mem[top]

\* The running frame and its operands.
LEMMA RunningOps ==
  ASSUME IInv, Running, NEW from, from = OperandsFrom(mem, ebp)
  PROVE  /\ top \in Int /\ top >= 1 /\ from \in Int /\ NOps \in Nat /\ NOps = from - top
         /\ STACK_SIZE \in Nat /\ mem \in Memory /\ from <= STACK_SIZE - NGlobals
         /\ from <= STACK_SIZE
         /\ Len(Current.ops) = NOps /\ Current.ops = [i \in 1..NOps |-> Current.ops[i]]
         /\ \A i \in 1..NOps : Current.ops[i] = mem[from - i]
         /\ NOps >= 1 => Abstract!LastOf(Current.ops) = mem[top]
<1>1. /\ top \in Int /\ top >= 1 /\ from \in Int /\ NOps \in Nat /\ NOps = from - top
      /\ STACK_SIZE \in Nat /\ mem \in Memory /\ from <= STACK_SIZE - NGlobals
      /\ from <= STACK_SIZE
  BY RunningFacts
<1>2. /\ Len(Current.ops) = NOps /\ Current.ops = [i \in 1..NOps |-> Current.ops[i]]
      /\ \A i \in 1..NOps : Current.ops[i] = mem[from - i]
      /\ NOps >= 1 => Abstract!LastOf(Current.ops) = mem[top]
  BY CurrentWords
<1>3. QED
  BY <1>1, <1>2

\* The operands with another one, at the slot below the top.
LEMMA OpsPushed ==
  ASSUME IInv, Running, NEW from, from = OperandsFrom(mem, ebp), NEW v,
         top - 1 \in 0..STACK_SIZE, mem'[top - 1] = v,
         \A i \in top..STACK_SIZE : mem'[i] = mem[i]
  PROVE  Append(Current.ops, v) = Below(mem', NOps + 1, from)
<1> DEFINE ops == Current.ops
<1>1. /\ top \in Int /\ from \in Int /\ NOps \in Nat /\ NOps = from - top
      /\ STACK_SIZE \in Nat /\ from <= STACK_SIZE
      /\ ops = [i \in 1..NOps |-> ops[i]] /\ \A i \in 1..NOps : ops[i] = mem[from - i]
  BY RunningOps
<1> HIDE DEF ops
<1>2. Append(ops, v) = [i \in 1..(NOps + 1) |-> IF i = NOps + 1 THEN v ELSE ops[i]]
  BY <1>1, EntryAppended
<1>3. \A i \in 1..(NOps + 1) : mem'[from - i] = IF i = NOps + 1 THEN v ELSE ops[i]
  <2>1. \A i \in 1..NOps : from - i \in top..STACK_SIZE
    BY <1>1
  <2>2. from - (NOps + 1) = top - 1
    BY <1>1
  <2>3. \A i \in 1..(NOps + 1) : i # NOps + 1 => i \in 1..NOps
    BY <1>1
  <2>4. QED
    BY <1>1, <2>1, <2>2, <2>3
<1>4. QED
  BY <1>2, <1>3 DEF Below, ops

\* What is pushed joins the operands.
LEMMA PushImplements ==
  ASSUME IInv, CallsInv, Running, IInv', UNCHANGED <<closures, site>>, NEW v, Push(v),
         Pushable(v)
  PROVE  CallsInv' /\ Abstract!Next
<1>1. callee = <<>> /\ state = "running"
  BY DEF Running
<1>2. CASE ~ Checked(top - 1)
  BY <1>1, <1>2, Halts DEF Push, PushesTo
<1>3. CASE Checked(top - 1)
  <2> DEFINE from == OperandsFrom(mem, ebp)
             ops == Current.ops
  <2>1. /\ top \in Int /\ top >= 1 /\ from \in Int /\ top <= from /\ NOps \in Nat
        /\ NOps = from - top /\ STACK_SIZE \in Nat /\ mem \in Memory /\ from <= STACK_SIZE
    BY RunningFacts
  <2>2. /\ Len(ops) = NOps /\ ops = [i \in 1..NOps |-> ops[i]]
        /\ \A i \in 1..NOps : ops[i] = mem[from - i]
        /\ NOps >= 1 => Abstract!LastOf(ops) = mem[top]
    BY CurrentWords
  <2>3. /\ mem' = [mem EXCEPT ![top - 1] = v] /\ top' = top - 1 /\ callee' = callee
        /\ state' = state
    BY <1>3 DEF Push, PushesTo
  <2>4. 0 <= top - 1 - 1 /\ top - 1 \in 0..STACK_SIZE
    BY <1>3, <2>1 DEF Checked
  <2> HIDE DEF from, ops
  <2>5. \A i \in 0..STACK_SIZE : mem'[i] = IF i = top - 1 THEN v ELSE mem[i]
    BY <2>1, <2>3, <2>4 DEF Memory
  <2>6. \A i \in 0..STACK_SIZE : i >= from => mem'[i] = mem[i]
    BY <2>1, <2>5
  <2>7. \A i \in top..STACK_SIZE : mem'[i] = mem[i]
    BY <2>1, <2>5
  <2>8. mem'[top - 1] = v
    BY <2>4, <2>5
  <2>9. Append(ops, v) = Below(mem', NOps + 1, from)
    BY <2>4, <2>7, <2>8, OpsPushed DEF from, ops
  <2>10. NOps + 1 = from - top'
    BY <2>1, <2>3
  <2>11. Abstract!Pushed(Current, v) \in Abstract!After(Current)
    <3>1. CASE v \in {Abstract!val(d) : d \in Data} \cup Abstract!Visible(Current)
      BY <3>1, AfterPush
    <3>2. CASE NOps >= 1 /\ v = mem[top]
      BY <2>1, <2>2, <3>2, AfterOperands DEF ops
    <3>3. QED
      BY <3>1, <3>2 DEF Pushable
  <2>12. [Current EXCEPT !.ops = Append(ops, v)] \in Abstract!After(Current)
    BY <2>11 DEF Abstract!Pushed, ops
  <2>13. QED
    BY <1>1, <2>3, <2>6, <2>9, <2>10, <2>12, OperandsChange DEF from
<1>4. QED
  BY <1>2, <1>3

\* CONST, DUP, LD and LD C push.
LEMMA ConstImplements ==
  ASSUME IInv, CallsInv, IInv', Const
  PROVE  CallsInv' /\ Abstract!Next
<1>1. Running /\ UNCHANGED <<closures, site>>
  BY DEF Const
<1>2. PICK n \in Data : Push(val(n))
  BY DEF Const
<1>3. Pushable(val(n))
  BY DEF Pushable, val, Abstract!val
<1>4. QED
  BY <1>1, <1>2, <1>3, PushImplements

LEMMA DupImplements ==
  ASSUME IInv, CallsInv, IInv', Dup
  PROVE  CallsInv' /\ Abstract!Next
BY PushImplements DEF Dup, Pushable

LEMMA LoadImplements ==
  ASSUME IInv, CallsInv, IInv', Load
  PROVE  CallsInv' /\ Abstract!Next
<1>1. Running /\ UNCHANGED <<closures, site>>
  BY DEF Load
<1>2. PICK p \in Positions : Push(mem[p])
  BY DEF Load
<1>3. Pushable(mem[p])
  BY <1>1, VisibleWords DEF Pushable
<1>4. QED
  BY <1>1, <1>2, <1>3, PushImplements

LEMMA LoadCapturedImplements ==
  ASSUME IInv, Compiled, CallsInv, IInv', LoadCaptured
  PROVE  CallsInv' /\ Abstract!Next
<1>1. Running /\ UNCHANGED <<closures, site>>
  BY DEF LoadCaptured
<1>2. Len(Captured) \in Nat /\ DOMAIN Captured = 1..Len(Captured)
  BY <1>1, SelfFacts, LenProperties
<1>3. PICK k \in 0..CapturedLen :
        /\ k < Len(Captured)
        /\ IF ~ IndexPasses(k) THEN Fail
           ELSE IF k >= Len(Captured)
           THEN state' = "strayed" /\ UNCHANGED <<mem, top, callee>>
           ELSE Push(Captured[k + 1])
  BY DEF LoadCaptured
<1>4. CASE ~ IndexPasses(k)
  BY <1>1, <1>3, <1>4, Halts DEF Running
<1>5. CASE IndexPasses(k)
  <2>1. k \in Int /\ k >= 0
    BY <1>2 DEF CapturedLen
  <2>2. Push(Captured[k + 1]) /\ k + 1 \in DOMAIN Captured
    BY <1>2, <1>3, <1>5, <2>1
  <2>3. Pushable(Captured[k + 1])
    BY <1>1, <2>2, VisibleWords DEF Pushable
  <2>4. QED
    BY <1>1, <2>2, <2>3, PushImplements
<1>6. QED
  BY <1>4, <1>5

\* DROP leaves the operands but the last one.
LEMMA DropImplements ==
  ASSUME IInv, Compiled, CallsInv, IInv', Drop
  PROVE  CallsInv' /\ Abstract!Next
<1>1. Running /\ UNCHANGED <<mem, callee, closures, site>> /\ NOps >= 1 /\ state = "running"
  BY DEF Drop, Running
<1>2. CASE ~ Checked(top)
  BY <1>1, <1>2, Halts DEF Drop, Fail
<1>3. CASE Checked(top)
  <2> DEFINE ops == Current.ops
  <2>1. PICK from : from = OperandsFrom(mem, ebp)
    OBVIOUS
  <2>2. /\ top \in Int /\ from \in Int /\ NOps \in Nat /\ NOps = from - top
        /\ Len(ops) = NOps /\ ops = [i \in 1..NOps |-> ops[i]]
        /\ \A i \in 1..NOps : ops[i] = mem[from - i]
    BY <1>1, <2>1, RunningOps
  <2>3. top' = top + 1 /\ state' = state
    BY <1>3 DEF Drop
  <2> HIDE DEF ops
  <2>4. SubSeq(ops, 1, NOps - 1) = [i \in 1..((NOps - 1) + 1 - 1) |-> ops[1 - 1 + i]]
    <3>1. 1 \in 1..(NOps + 1) /\ NOps - 1 \in 0..NOps /\ 1 <= (NOps - 1) + 1
      BY <1>1, <2>2
    <3>2. QED
      BY <2>2, <3>1, PartOfEntries
  <2>5. \A i \in 1..((NOps - 1) + 1 - 1) : ops[1 - 1 + i] = mem[from - i]
    BY <1>1, <2>2
  <2>6. SubSeq(ops, 1, NOps - 1) = Below(mem, NOps - 1, from)
    <3>1. (NOps - 1) + 1 - 1 = NOps - 1
      BY <2>2
    <3>2. QED
      BY <2>4, <2>5, <3>1 DEF Below
  <2>7. Abstract!Popped(Current, 1) \in Abstract!After(Current)
    BY <1>1, <2>2, AfterOperands DEF ops
  <2>8. [Current EXCEPT !.ops = SubSeq(ops, 1, NOps - 1)] \in Abstract!After(Current)
    BY <2>2, <2>7 DEF Abstract!Popped, Abstract!Kept, ops
  <2>9. NOps - 1 = from - top'
    BY <2>2, <2>3
  <2>10. mem' = mem
    BY <1>1
  <2>11. SubSeq(ops, 1, NOps - 1) = Below(mem', NOps - 1, from)
         /\ \A i \in 0..STACK_SIZE : i >= from => mem'[i] = mem[i]
    BY <2>6, <2>10
  <2>12. QED
    BY <1>1, <2>1, <2>3, <2>8, <2>9, <2>11, OperandsChange
<1>4. QED
  BY <1>2, <1>3

\* SWAP exchanges the last two.
LEMMA SwapImplements ==
  ASSUME IInv, CallsInv, IInv', Swap
  PROVE  CallsInv' /\ Abstract!Next
<1> DEFINE ops == Current.ops
<1>1. /\ Running /\ NOps >= 2 /\ UNCHANGED <<top, callee, closures, site, state>>
      /\ state' = "running" /\ mem' = [mem EXCEPT ![top] = mem[top + 1], ![top + 1] = mem[top]]
  BY DEF Swap, Running
<1>2. PICK from : from = OperandsFrom(mem, ebp)
  OBVIOUS
<1>3. /\ top \in Int /\ top >= 1 /\ from \in Int /\ NOps \in Nat /\ NOps = from - top
      /\ STACK_SIZE \in Nat /\ mem \in Memory /\ from <= STACK_SIZE
      /\ Len(ops) = NOps /\ ops = [i \in 1..NOps |-> ops[i]]
      /\ \A i \in 1..NOps : ops[i] = mem[from - i]
  BY <1>1, <1>2, RunningOps
<1>4. \A i \in 0..STACK_SIZE :
        mem'[i] = IF i = top THEN mem[top + 1] ELSE IF i = top + 1 THEN mem[top] ELSE mem[i]
  BY <1>1, <1>3 DEF Memory
<1> HIDE DEF ops
<1> DEFINE n == NOps
           kept == SubSeq(ops, 1, n - 2)
           last == SubSeq(ops, n - 2 + 1, n)
           turned == Abstract!Reversed(last)
<1>5. kept = [i \in 1..(n - 2) |-> kept[i]] /\ \A i \in 1..(n - 2) : kept[i] = ops[i]
  <2>1. 1 \in 1..(n + 1) /\ n - 2 \in 0..n /\ 1 <= (n - 2) + 1
    BY <1>1, <1>3
  <2>2. kept = [i \in 1..((n - 2) + 1 - 1) |-> ops[1 - 1 + i]]
    BY <1>3, <2>1, PartOfEntries
  <2>3. (n - 2) + 1 - 1 = n - 2 /\ \A i \in 1..(n - 2) : 1 - 1 + i = i
    BY <1>1, <1>3
  <2> HIDE DEF kept, n
  <2>4. QED
    BY <2>2, <2>3
<1>6. last = [i \in 1..2 |-> last[i]] /\ last[1] = ops[n - 1] /\ last[2] = ops[n]
  <2> DEFINE p == n - 2 + 1
  <2>1. p \in 1..(n + 1) /\ n \in 0..n /\ p <= n + 1
    BY <1>1, <1>3
  <2>1a. /\ n + 1 - p = 2 /\ p - 1 + 1 = n - 1 /\ p - 1 + 2 = n
         /\ 1 \in 1..2 /\ 2 \in 1..2
    BY <1>1, <1>3
  <2>1b. last = SubSeq(ops, p, n)
    OBVIOUS
  <2>1c. ops = [i \in 1..n |-> ops[i]] /\ n \in Nat
    BY <1>3
  <2> HIDE DEF p, last, n
  <2>2. last = [i \in 1..(n + 1 - p) |-> ops[p - 1 + i]]
    BY <2>1, <2>1b, <2>1c, PartOfEntries
  <2>3. QED
    BY <2>1a, <2>2
<1> HIDE DEF last, kept
<1>7. turned = [i \in 1..2 |-> turned[i]] /\ turned[1] = ops[n] /\ turned[2] = ops[n - 1]
  <2>1. Len(last) = 2 /\ DOMAIN last = 1..2
    BY <1>6, Entries
  <2>2. turned = [i \in 1..2 |-> last[2 + 1 - i]]
    BY <2>1 DEF Abstract!Reversed
  <2> HIDE DEF turned
  <2>3. QED
    BY <1>6, <2>2
<1> HIDE DEF turned
<1>8. kept \o turned = [i \in 1..((n - 2) + 2) |-> IF i <= n - 2 THEN kept[i] ELSE turned[i - (n - 2)]]
  <2>1. n - 2 \in Nat
    BY <1>1, <1>3
  <2> HIDE DEF n
  <2>2. QED
    BY <1>5, <1>7, <2>1, EntriesJoined
<1>9. ASSUME NEW i \in 1..n
      PROVE  mem'[from - i] = IF i <= n - 2 THEN kept[i] ELSE turned[i - (n - 2)]
  <2>1. from - i \in 0..STACK_SIZE /\ from - i >= top
    BY <1>3
  <2>2. CASE i <= n - 2
    <3>1. from - i # top /\ from - i # top + 1 /\ i \in 1..(n - 2)
      BY <1>1, <1>3, <2>2
    <3>2. QED
      BY <1>3, <1>4, <1>5, <2>1, <2>2, <3>1
  <2>3. CASE i = n - 1
    <3>1. from - i = top + 1 /\ i - (n - 2) = 1 /\ ~ (i <= n - 2) /\ top = from - n
          /\ top + 1 # top /\ n \in 1..NOps
      BY <1>1, <1>3, <2>3
    <3>2. ops[n] = mem[top]
      BY <1>3, <3>1
    <3>3. QED
      BY <1>4, <1>7, <2>1, <3>1, <3>2
  <2>4. CASE i = n
    <3>1. from - i = top /\ i - (n - 2) = 2 /\ ~ (i <= n - 2) /\ top + 1 = from - (n - 1)
          /\ n - 1 \in 1..NOps
      BY <1>1, <1>3, <2>4
    <3>2. ops[n - 1] = mem[top + 1]
      BY <1>3, <3>1
    <3>3. QED
      BY <1>4, <1>7, <2>1, <3>1, <3>2
  <2>5. QED
    BY <1>1, <1>3, <2>2, <2>3, <2>4
<1>10. kept \o turned = Below(mem', n, from)
  <2>1. (n - 2) + 2 = n
    BY <1>1, <1>3
  <2> HIDE DEF n
  <2>2. QED
    BY <1>8, <1>9, <2>1 DEF Below
<1>11. Abstract!Swapped(Current) = [Current EXCEPT !.ops = kept \o turned]
  BY <1>3 DEF Abstract!Swapped, Abstract!Kept, Abstract!Last, kept, last, turned, ops
<1>12. Abstract!Swapped(Current) \in Abstract!After(Current)
  BY <1>1, <1>3, AfterOperands DEF ops
<1>13. n = from - top' /\ \A i \in 0..STACK_SIZE : i >= from => mem'[i] = mem[i]
  <2>1. from >= top + 2
    BY <1>1, <1>3
  <2>2. \A i \in 0..STACK_SIZE : i >= from => i # top /\ i # top + 1
    BY <1>3, <2>1
  <2>3. QED
    BY <1>1, <1>3, <1>4, <2>2
<1>14. [Current EXCEPT !.ops = kept \o turned] \in Abstract!After(Current)
  BY <1>11, <1>12
<1>15. QED
  BY <1>1, <1>2, <1>10, <1>13, <1>14, OperandsChange

-----------------------------------------------------------------------------
(* ST.                                                                      *)

\* ST writes a word of the running frame that its operands are not, or a global.
LEMMA StoreWords ==
  ASSUME IInv, CallsInv, Store, NEW p \in Positions, mem' = [mem EXCEPT ![p] = mem[top]],
         NEW from, from = OperandsFrom(mem, ebp)
  PROVE  /\ p \in from..(STACK_SIZE - 1)
         /\ \/ p \in (STACK_SIZE - NGlobals)..(STACK_SIZE - 1)
            \/ p \in (ebp - 2 - NLocals)..(ebp - 3)
            \/ p \in (ebp + 3)..(ebp + 2 + NArgs)
         /\ \A i \in 0..STACK_SIZE : mem'[i] = IF i = p THEN mem[top] ELSE mem[i]
         /\ CallsInv'
         /\ Activations' \in Abstract!WithLast(Activations,
              {[args   |-> Above(mem', NArgs, ebp + 2),
                self   |-> Current.self,
                ret    |-> Current.ret,
                locals |-> Below(mem', NLocals, ebp - 2),
                ops    |-> Current.ops]})
<1> DEFINE b == ebp
           m == mem'
<1>1. Running /\ UNCHANGED <<top, callee, closures, site, state>> /\ state' = "running"
      /\ callee' = <<>>
  BY DEF Store, Running
<1>2. /\ b \in Int /\ b >= 3 /\ b + 2 < STACK_SIZE - NGlobals
      /\ NArgs \in Nat /\ NLocals \in Nat /\ from = b - 2 - NLocals
      /\ STACK_SIZE \in Nat /\ NGlobals \in Nat /\ mem \in Memory
      /\ from >= 1 /\ top \in Int /\ top >= 1 /\ top <= from
      /\ b + 2 + NArgs < OperandsFrom(mem, mem[b][2])
      /\ OperandsFrom(mem, mem[b][2]) \in Int
      /\ OperandsFrom(mem, mem[b][2]) <= STACK_SIZE - NGlobals
  BY <1>1, RunningFacts
<1>3. \/ p \in (STACK_SIZE - NGlobals)..(STACK_SIZE - 1)
      \/ p \in (b - 2 - NLocals)..(b - 3)
      \/ p \in (b + 3)..(b + 2 + NArgs)
  BY <1>2 DEF Positions, GlobalPos, LocalPos, ArgPos
<1>4. p \in from..(STACK_SIZE - 1)
  BY <1>2, <1>3
<1>5. /\ \A e \in Bases : \A i \in (e - 2)..(e + 2) : m[i] = mem[i]
      /\ Bases' = Bases /\ m[STACK_SIZE] = mem[STACK_SIZE] /\ b \in Bases
  BY <1>1, StoreKeeps, RunningChain
<1>6. \A i \in 0..STACK_SIZE : m[i] = IF i = p THEN mem[top] ELSE mem[i]
  BY <1>2, <1>4 DEF Memory
<1>7. /\ NArgs = mem[b + 1][2] /\ NLocals = mem[b - 2][2] /\ Self = mem[b + 2]
      /\ AboveArgs(mem, b) = b + 3 + NArgs
  BY DEF NArgs, NLocals, AboveArgs, Self
<1>8. OpsEnd' = top
  BY <1>1 DEF OpsEnd
<1> HIDE DEF b, m
<1>9. /\ m[b + 1] = mem[b + 1] /\ m[b + 2] = mem[b + 2]
      /\ m[b - 1] = mem[b - 1] /\ m[b - 2] = mem[b - 2]
  BY <1>2, <1>5
<1>10. \A i \in AboveArgs(mem, b)..(STACK_SIZE - NGlobals - 1) : m[i] = mem[i]
  <2>1. \A i \in AboveArgs(mem, b)..(STACK_SIZE - NGlobals - 1) : i \in 0..STACK_SIZE /\ i # p
    BY <1>2, <1>3, <1>7
  <2>2. QED
    BY <1>6, <2>1
<1>11. CallsInv' /\ Activations' \in Abstract!WithLast(Activations, {FrameAt(m, top, b)})
  BY <1>1, <1>5, <1>8, <1>9, <1>10, LastChanges DEF m, b
<1>12. Below(m, NOps, from) = Current.ops
  <2>1. /\ Current.ops = [i \in 1..NOps |-> Current.ops[i]] /\ NOps = from - top
        /\ \A i \in 1..NOps : Current.ops[i] = mem[from - i]
    BY <1>1, RunningOps
  <2>a. /\ from \in Int /\ from <= STACK_SIZE /\ STACK_SIZE \in Nat /\ top >= 1 /\ top \in Int
        /\ NOps \in Nat /\ NOps = from - top
    BY <1>1, RunningOps
  <2>b. p \in Int /\ p >= from
    BY <1>4, <2>a
  <2>2. ASSUME NEW i \in 1..NOps
        PROVE  from - i \in 0..STACK_SIZE /\ from - i # p
    BY <2>a, <2>b
  <2>3. \A i \in 1..NOps : m[from - i] = Current.ops[i]
    BY <1>6, <2>1, <2>2
  <2>4. QED
    BY <2>1, <2>3 DEF Below
<1>13. FrameAt(m, top, b) = [args   |-> Above(m, NArgs, b + 2),
                             self   |-> Current.self,
                             ret    |-> Current.ret,
                             locals |-> Below(m, NLocals, b - 2),
                             ops    |-> Current.ops]
  <2>1. b - 2 - m[b - 2][2] = from /\ NOps = from - top
    BY <1>1, <1>2, <1>7, <1>9, RunningOps
  <2>2. Current.self = Plain(mem[b + 2]) /\ Current.ret = mem[b - 1][2]
    BY <1>1, <1>7, CurrentParts DEF b
  <2>3. QED
    BY <1>7, <1>9, <1>12, <2>1, <2>2 DEF FrameAt
<1>14. QED
  BY <1>3, <1>4, <1>6, <1>11, <1>13 DEF m, b

\* A record with another value in one place of its locals or its arguments.
LEMMA RecordExcept ==
  ASSUME NEW a, NEW s, NEW r, NEW l, NEW o, NEW k, NEW v,
         NEW c, c = [args |-> a, self |-> s, ret |-> r, locals |-> l, ops |-> o]
  PROVE  /\ [c EXCEPT !.locals[k] = v] =
              [args |-> a, self |-> s, ret |-> r, locals |-> [l EXCEPT ![k] = v], ops |-> o]
         /\ [c EXCEPT !.args[k] = v] =
              [args |-> [a EXCEPT ![k] = v], self |-> s, ret |-> r, locals |-> l, ops |-> o]
         /\ [c EXCEPT !.ops = v] =
              [args |-> a, self |-> s, ret |-> r, locals |-> l, ops |-> v]
OBVIOUS

\* ST to a local or an argument, and ST to a global.
LEMMA StoreImplements ==
  ASSUME IInv, CallsInv, IInv', Store
  PROVE  CallsInv' /\ Abstract!Next
<1>1. /\ Running /\ NOps >= 1 /\ UNCHANGED <<top, callee, closures, site, state>>
      /\ state' = "running" /\ callee' = <<>> /\ callee = <<>>
  BY DEF Store, Running
<1>2. PICK p \in Positions : mem' = [mem EXCEPT ![p] = mem[top]]
  BY DEF Store
<1>3. PICK from : from = OperandsFrom(mem, ebp)
  OBVIOUS
<1>4. /\ STACK_SIZE \in Nat /\ NGlobals \in Nat /\ ebp \in Int /\ NArgs \in Nat
      /\ NLocals \in Nat /\ from = ebp - 2 - NLocals /\ ebp >= 3
      /\ ebp + 2 < STACK_SIZE - NGlobals /\ from >= 1
      /\ ebp + 2 + NArgs < STACK_SIZE - NGlobals
  <2>1. /\ STACK_SIZE \in Nat /\ NGlobals \in Nat /\ ebp \in Int /\ NArgs \in Nat
        /\ NLocals \in Nat /\ from = ebp - 2 - NLocals /\ ebp >= 3
        /\ ebp + 2 < STACK_SIZE - NGlobals
        /\ ebp + 2 + NArgs < OperandsFrom(mem, mem[ebp][2])
        /\ OperandsFrom(mem, mem[ebp][2]) \in Int
        /\ OperandsFrom(mem, mem[ebp][2]) <= STACK_SIZE - NGlobals
        /\ top \in Int /\ top >= 1 /\ top <= from
    BY <1>1, <1>3, RunningFacts
  <2>2. QED
    BY <2>1
<1> DEFINE changed == [args   |-> Above(mem', NArgs, ebp + 2),
                       self   |-> Current.self,
                       ret    |-> Current.ret,
                       locals |-> Below(mem', NLocals, ebp - 2),
                       ops    |-> Current.ops]
<1>5. /\ \/ p \in (STACK_SIZE - NGlobals)..(STACK_SIZE - 1)
         \/ p \in (ebp - 2 - NLocals)..(ebp - 3)
         \/ p \in (ebp + 3)..(ebp + 2 + NArgs)
      /\ \A i \in 0..STACK_SIZE : mem'[i] = IF i = p THEN mem[top] ELSE mem[i]
      /\ CallsInv' /\ Activations' \in Abstract!WithLast(Activations, {changed})
  BY <1>2, <1>3, StoreWords
<1>6. /\ Current.args = Above(mem, NArgs, ebp + 2)
      /\ Current.locals = Below(mem, NLocals, ebp - 2)
      /\ Current = [args |-> Current.args, self |-> Current.self, ret |-> Current.ret,
                    locals |-> Current.locals, ops |-> Current.ops]
  BY <1>1, CurrentParts
<1>7. /\ Len(Current.ops) \in Nat /\ Len(Current.ops) >= 1 /\ Current.ops # <<>>
      /\ Abstract!LastOf(Current.ops) = mem[top]
  <2>1. Len(Current.ops) = NOps /\ NOps \in Nat /\ Abstract!LastOf(Current.ops) = mem[top]
    BY <1>1, <1>3, RunningOps
  <2>2. Current.ops # <<>>
    BY <1>1, <1>3, CurrentWords
  <2>3. QED
    BY <1>1, <2>1, <2>2
<1>8. PICK n : n = Cardinality(Bases)
  OBVIOUS
<1>9. /\ Abstract!LastOf(Activations) = Current /\ Abstract!Ready /\ Abstract!Top = Current
      /\ n \in Nat /\ n >= 1 /\ Len(Activations) = n
      /\ Activations = [i \in 1..n |-> Activations[i]] /\ Activations[n] = Current
  BY <1>1, <1>8, RunningView
<1>10. EnteringView' = EnteringView /\ StateView' = StateView
  BY <1>1 DEF EnteringView, StateView
<1>11. (\A j \in 1..NArgs : ebp + 2 + j # p) => Above(mem', NArgs, ebp + 2) = Current.args
  <2>1. \A j \in 1..NArgs : ebp + 2 + j \in 0..STACK_SIZE
    BY <1>4
  <2>2. SUFFICES ASSUME \A j \in 1..NArgs : ebp + 2 + j # p
                 PROVE  Above(mem', NArgs, ebp + 2) = Above(mem, NArgs, ebp + 2)
    BY <1>6
  <2>3. PICK q \in Int : q = ebp + 2
    BY <1>4
  <2>4. \A j \in 1..NArgs : mem'[q + j] = mem[q + j]
    BY <1>5, <2>1, <2>2, <2>3
  <2>5. Above(mem', NArgs, q) = Above(mem, NArgs, q)
    BY <2>4 DEF Above
  <2>6. QED
    BY <2>3, <2>5
<1>12. (\A j \in 1..NLocals : ebp - 2 - j # p) => Below(mem', NLocals, ebp - 2) = Current.locals
  <2>1. \A j \in 1..NLocals : ebp - 2 - j \in 0..STACK_SIZE
    BY <1>4
  <2>2. SUFFICES ASSUME \A j \in 1..NLocals : ebp - 2 - j # p
                 PROVE  Below(mem', NLocals, ebp - 2) = Below(mem, NLocals, ebp - 2)
    BY <1>6
  <2>3. PICK q \in Int : q = ebp - 2
    BY <1>4
  <2>4. \A j \in 1..NLocals : mem'[q - j] = mem[q - j]
    BY <1>5, <2>1, <2>2, <2>3
  <2>5. Below(mem', NLocals, q) = Below(mem, NLocals, q)
    BY <2>4 DEF Below
  <2>6. QED
    BY <2>3, <2>5
<1>13. p < STACK_SIZE - NGlobals => GlobalsView' = GlobalsView
  <2>1. SUFFICES ASSUME p < STACK_SIZE - NGlobals
                 PROVE  GlobalsView' = GlobalsView
    OBVIOUS
  <2>2. \A i \in (STACK_SIZE - NGlobals)..(STACK_SIZE - 1) : i \in 0..STACK_SIZE /\ i # p
    BY <1>4, <2>1
  <2>3. QED
    BY <1>5, <2>2, GlobalsKept
<1>14. CASE p \in (ebp - 2 - NLocals)..(ebp - 3)
  <2> DEFINE k == ebp - 2 - p
  <2>1. /\ k \in 1..NLocals /\ p < STACK_SIZE - NGlobals
        /\ \A j \in 1..NArgs : ebp + 2 + j # p
        /\ \A j \in 1..NLocals : ebp - 2 - j \in 0..STACK_SIZE /\ (ebp - 2 - j = p <=> j = k)
    BY <1>4, <1>14
  <2> HIDE DEF k
  <2>2. \A j \in 1..NLocals : mem'[ebp - 2 - j] = IF j = k THEN mem[top] ELSE mem[ebp - 2 - j]
    BY <1>5, <2>1
  <2>3. Below(mem', NLocals, ebp - 2) = [Current.locals EXCEPT ![k] = mem[top]]
        /\ k \in DOMAIN Current.locals
    <3>1. PICK q \in Int : q = ebp - 2
      BY <1>4
    <3>2. \A j \in 1..NLocals : mem'[q - j] = IF j = k THEN mem[top] ELSE mem[q - j]
      BY <2>2, <3>1
    <3>3. Below(mem', NLocals, q) = [Below(mem, NLocals, q) EXCEPT ![k] = mem[top]]
          /\ k \in DOMAIN Below(mem, NLocals, q)
      BY <2>1, <3>2 DEF Below
    <3>4. QED
      BY <1>6, <3>1, <3>3
  <2>4. changed = [Current EXCEPT !.locals[k] = mem[top]]
    BY <1>6, <1>11, <2>1, <2>3, RecordExcept
  <2> HIDE DEF changed
  <2>5. changed \in Abstract!After(Current)
    BY <1>7, <2>3, <2>4, AfterStore
  <2>6. QED
    BY <1>1, <1>5, <1>9, <1>10, <1>13, <2>1, <2>5, Operates
<1>15. CASE p \in (ebp + 3)..(ebp + 2 + NArgs)
  <2> DEFINE k == p - (ebp + 2)
  <2>1. /\ k \in 1..NArgs /\ p < STACK_SIZE - NGlobals
        /\ \A j \in 1..NLocals : ebp - 2 - j # p
        /\ \A j \in 1..NArgs : ebp + 2 + j \in 0..STACK_SIZE /\ (ebp + 2 + j = p <=> j = k)
    BY <1>4, <1>15
  <2> HIDE DEF k
  <2>2. \A j \in 1..NArgs : mem'[ebp + 2 + j] = IF j = k THEN mem[top] ELSE mem[ebp + 2 + j]
    BY <1>5, <2>1
  <2>3. Above(mem', NArgs, ebp + 2) = [Current.args EXCEPT ![k] = mem[top]]
        /\ k \in DOMAIN Current.args
    <3>1. PICK q \in Int : q = ebp + 2
      BY <1>4
    <3>2. \A j \in 1..NArgs : mem'[q + j] = IF j = k THEN mem[top] ELSE mem[q + j]
      BY <2>2, <3>1
    <3>3. Above(mem', NArgs, q) = [Above(mem, NArgs, q) EXCEPT ![k] = mem[top]]
          /\ k \in DOMAIN Above(mem, NArgs, q)
      BY <2>1, <3>2 DEF Above
    <3>4. QED
      BY <1>6, <3>1, <3>3
  <2>4. changed = [Current EXCEPT !.args[k] = mem[top]]
    BY <1>6, <1>12, <2>1, <2>3, RecordExcept
  <2> HIDE DEF changed
  <2>5. changed \in Abstract!After(Current)
    BY <1>7, <2>3, <2>4, AfterStore
  <2>6. QED
    BY <1>1, <1>5, <1>9, <1>10, <1>13, <2>1, <2>5, Operates
<1>16. CASE p \in (STACK_SIZE - NGlobals)..(STACK_SIZE - 1)
  <2>1. /\ \A j \in 1..NArgs : ebp + 2 + j # p
        /\ \A j \in 1..NLocals : ebp - 2 - j # p
    BY <1>4, <1>16
  <2>2. changed = Current
    BY <1>6, <1>11, <1>12, <2>1
  <2> HIDE DEF changed
  <2>3. Activations' = Activations
    BY <1>5, <1>9, <2>2 DEF Abstract!WithLast
  <2> DEFINE k == STACK_SIZE - p
  <2>4. /\ k \in 1..NGlobals
        /\ \A j \in 1..NGlobals : /\ GlobalPos(j - 1) \in 0..STACK_SIZE
                                  /\ GlobalPos(j - 1) = p <=> j = k
    BY <1>4, <1>16 DEF GlobalPos
  <2> HIDE DEF k
  <2>5. \A j \in 1..NGlobals :
          mem'[GlobalPos(j - 1)] = IF j = k THEN mem[top] ELSE mem[GlobalPos(j - 1)]
    BY <1>5, <2>4
  <2>6. GlobalsView' = [GlobalsView EXCEPT ![k] = mem[top]] /\ k \in DOMAIN GlobalsView
    BY <2>4, <2>5 DEF GlobalsView, GlobalPos
  <2>7. Abstract!StoreGlobal
    BY <1>1, <1>7, <1>9, <1>10, <2>3, <2>6 DEF Abstract!StoreGlobal
  <2>8. QED
    BY <1>5, <2>7 DEF Abstract!Next
<1>17. QED
  BY <1>5, <1>14, <1>15, <1>16

-----------------------------------------------------------------------------
(* Closures.                                                                *)

\* ST C writes a value its closure has captured.
LEMMA StoreCapturedImplements ==
  ASSUME IInv, CallsInv, StoreCaptured
  PROVE  CallsInv' /\ Abstract!Next
<1>1. /\ Running /\ InClosure /\ NOps >= 1 /\ UNCHANGED <<mem, top, callee, site, state>>
  BY DEF StoreCaptured
<1>2. PICK k \in 1..Len(Captured) :
        closures' = [closures EXCEPT ![Self[2]].captured[k] = mem[top]]
  BY DEF StoreCaptured
<1>3. PICK n, from : n = Cardinality(Bases) /\ from = OperandsFrom(mem, ebp)
  OBVIOUS
<1>4. Abstract!Ready /\ Abstract!Top = Current
  BY <1>1, <1>3, RunningView
<1>5. Current.ops # <<>> /\ Abstract!LastOf(Current.ops) = mem[top]
  BY <1>1, <1>3, CurrentWords
<1>6. /\ Activations' = Activations /\ EnteringView' = EnteringView
      /\ GlobalsView' = GlobalsView /\ StateView' = StateView
  BY <1>1 DEF Activations, OpsEnd, Bases, EnteringView, GlobalsView, StateView
<1>7. Current.self = Self /\ Abstract!Captured(Current) = Captured
  BY <1>1, SameCaptured
<1>8. k \in DOMAIN Captured
  BY <1>1, SelfFacts, LenProperties
<1>9. Abstract!StoreCaptured
  BY <1>1, <1>2, <1>4, <1>5, <1>6, <1>7, <1>8 DEF Abstract!StoreCaptured
<1>10. CallsInv'
  BY <1>1 DEF CallsInv, Bases
<1>11. QED
  BY <1>9, <1>10 DEF Abstract!Next

\* CLOSURE captures what the running activation can load.
LEMMA MakeClosureImplements ==
  ASSUME IInv, CallsInv, IInv', MakeClosure
  PROVE  CallsInv' /\ Abstract!Next
<1>1. Running /\ UNCHANGED site /\ state = "running" /\ callee = <<>>
  BY DEF MakeClosure, Running
<1>2. PICK f \in Funs, n \in CaptureSizes :
        \E vs \in [1..n -> {mem[p] : p \in Positions} \cup {Captured[i] : i \in DOMAIN Captured}] :
         IF Checked(top - n - 1)
         THEN /\ closures' = Append(closures, [fun |-> f, captured |-> vs])
              /\ mem' = [k \in DOMAIN mem |->
                           IF k = top - 1 THEN ptr(Len(closures) + 1)
                           ELSE IF k = top - n - 1 THEN addr(0)
                           ELSE IF k < top /\ k >= top - n THEN vs[top - k]
                           ELSE mem[k]]
              /\ top' = top - 1
              /\ UNCHANGED <<callee, state>>
         ELSE Fail /\ UNCHANGED closures
  BY DEF MakeClosure
<1>3. PICK vs \in [1..n -> {mem[p] : p \in Positions} \cup {Captured[i] : i \in DOMAIN Captured}] :
         IF Checked(top - n - 1)
         THEN /\ closures' = Append(closures, [fun |-> f, captured |-> vs])
              /\ mem' = [k \in DOMAIN mem |->
                           IF k = top - 1 THEN ptr(Len(closures) + 1)
                           ELSE IF k = top - n - 1 THEN addr(0)
                           ELSE IF k < top /\ k >= top - n THEN vs[top - k]
                           ELSE mem[k]]
              /\ top' = top - 1
              /\ UNCHANGED <<callee, state>>
         ELSE Fail /\ UNCHANGED closures
  BY <1>2
<1>4. CASE ~ Checked(top - n - 1)
  BY <1>1, <1>3, <1>4, Halts
<1>5. CASE Checked(top - n - 1)
  <2> DEFINE made == ptr(Len(closures) + 1)
  <2>1. /\ closures' = Append(closures, [fun |-> f, captured |-> vs])
        /\ mem' = [k \in DOMAIN mem |->
                     IF k = top - 1 THEN made
                     ELSE IF k = top - n - 1 THEN addr(0)
                     ELSE IF k < top /\ k >= top - n THEN vs[top - k]
                     ELSE mem[k]]
        /\ top' = top - 1 /\ callee' = callee /\ state' = state
    BY <1>3, <1>5
  <2> HIDE DEF made
  <2>2. PICK c, from : c = Cardinality(Bases) /\ from = OperandsFrom(mem, ebp)
    OBVIOUS
  <2>3. /\ top \in Int /\ top >= 1 /\ from \in Int /\ NOps \in Nat /\ NOps = from - top
        /\ STACK_SIZE \in Nat /\ mem \in Memory /\ from <= STACK_SIZE /\ n \in Nat
        /\ closures \in Seq(Frame) /\ top <= STACK_SIZE
    BY <1>1, <2>2, RunningOps, RunningFacts, CaptureAssumption
  <2>4. top - 1 \in 0..STACK_SIZE /\ mem'[top - 1] = made
    BY <1>5, <2>1, <2>3 DEF Checked, Memory
  <2>5. \A i \in top..STACK_SIZE : mem'[i] = mem[i]
    <3>1. ASSUME NEW i \in top..STACK_SIZE
          PROVE  mem'[i] = mem[i]
      <4>1. i \in 0..STACK_SIZE /\ i # top - 1 /\ i # top - n - 1 /\ ~ (i < top)
        BY <2>3
      <4>2. QED
        BY <2>1, <2>3, <4>1 DEF Memory
    <3>2. QED
      BY <3>1
  <2>6. Append(Current.ops, made) = Below(mem', NOps + 1, from)
    BY <1>1, <2>2, <2>4, <2>5, OpsPushed
  <2>7. \A i \in 0..STACK_SIZE : i >= from => mem'[i] = mem[i]
    BY <2>3, <2>5
  <2>8. Running' /\ callee' = <<>> /\ state' = "running"
    BY <1>1, <2>1 DEF Running
  <2>9. Bases' = Bases
    BY <1>1, <2>2, <2>7, <2>8, OperandsKeepBases
  <2>10. OpsEnd' = top' /\ NOps + 1 = from - OpsEnd'
    BY <2>1, <2>3, <2>8 DEF OpsEnd
  <2>11. /\ CallsInv' /\ GlobalsView' = GlobalsView
         /\ Activations' \in Abstract!WithLast(Activations,
                               {[Current EXCEPT !.ops = Below(mem', NOps + 1, from)]})
    BY <1>1, <2>2, <2>7, <2>8, <2>9, <2>10, OperandStep
  <2>12. Abstract!Ready /\ Abstract!Top = Current
    BY <1>1, <2>2, RunningView
  <2>13. EnteringView' = EnteringView /\ StateView' = StateView
    BY <1>1, <2>8 DEF EnteringView, StateView
  <2>14. Activations' \in Abstract!WithLast(Activations,
                            {Abstract!Pushed(Abstract!Top, Abstract!ptr(Len(closures) + 1))})
    BY <2>6, <2>11, <2>12 DEF Abstract!Pushed, Abstract!ptr, made, ptr
  <2>15. vs \in [1..n -> Abstract!Visible(Abstract!Top)]
    BY <1>1, <2>12, VisibleWords
  <2>16. Len(closures') = Len(closures) + 1
    BY <2>1, <2>3, AppendProperties
  <2>17. Abstract!MakeClosure
    BY <1>1, <2>1, <2>11, <2>12, <2>13, <2>14, <2>15, <2>16 DEF Abstract!MakeClosure
  <2>18. QED
    BY <2>11, <2>17 DEF Abstract!Next
<1>6. QED
  BY <1>4, <1>5

-----------------------------------------------------------------------------
(* CALL and CALLC.                                                          *)

\* The last n operands, in the order they were pushed, and those below them.
LEMMA LastOps ==
  ASSUME IInv, Running, NEW n \in Nat, n <= NOps, NEW from, from = OperandsFrom(mem, ebp)
  PROVE  /\ Abstract!Last(Current.ops, n) = [j \in 1..n |-> mem[top + n - j]]
         /\ Abstract!Kept(Current.ops, n) = Below(mem, NOps - n, from)
         /\ NOps - n \in Nat /\ NOps - n = from - (top + n)
         /\ n < NOps => Current.ops[NOps - n] = mem[top + n]
<1> DEFINE ops == Current.ops
           c == NOps
<1>1. /\ top \in Int /\ from \in Int /\ c \in Nat /\ c = from - top
      /\ Len(ops) = c /\ ops = [i \in 1..c |-> ops[i]] /\ \A i \in 1..c : ops[i] = mem[from - i]
  BY RunningOps
<1>2. n <= c
  OBVIOUS
<1> HIDE DEF ops, c
<1>3. SubSeq(ops, c - n + 1, c) = [j \in 1..n |-> mem[top + n - j]]
  <2> DEFINE p == c - n + 1
  <2>1. p \in Int /\ c \in Nat /\ c = from - top /\ from \in Int /\ top \in Int
        /\ p = c - n + 1
    BY <1>1
  <2> HIDE DEF p
  <2>2. p \in 1..(c + 1) /\ c \in 0..c /\ p <= c + 1 /\ c + 1 - p = n
    BY <1>2, <2>1
  <2>3. ASSUME NEW j \in 1..n
        PROVE  p - 1 + j \in 1..c /\ from - (p - 1 + j) = top + n - j
    BY <1>2, <2>1
  <2>3a. c \in Nat /\ ops = [i \in 1..c |-> ops[i]]
    BY <1>1
  <2>4. SubSeq(ops, p, c) = [j \in 1..(c + 1 - p) |-> ops[p - 1 + j]]
    BY <2>2, <2>3a, PartOfEntries
  <2>5. \A j \in 1..n : ops[p - 1 + j] = mem[top + n - j]
    BY <1>1, <2>3
  <2>6. SubSeq(ops, p, c) = [j \in 1..n |-> mem[top + n - j]]
    BY <2>2, <2>4, <2>5
  <2>7. QED
    BY <2>1, <2>6
<1>4. SubSeq(ops, 1, c - n) = Below(mem, c - n, from)
  <2> DEFINE k == c - n
  <2>1. /\ k \in 0..c /\ 1 \in 1..(c + 1) /\ 1 <= k + 1 /\ k + 1 - 1 = k
        /\ \A i \in 1..k : 1 - 1 + i = i /\ i \in 1..c
    BY <1>1, <1>2
  <2> HIDE DEF k
  <2>1a. c \in Nat /\ ops = [i \in 1..c |-> ops[i]]
    BY <1>1
  <2>2. SubSeq(ops, 1, k) = [i \in 1..(k + 1 - 1) |-> ops[1 - 1 + i]]
    BY <2>1, <2>1a, PartOfEntries
  <2>3. \A i \in 1..k : ops[1 - 1 + i] = mem[from - i]
    BY <1>1, <2>1
  <2>4. SubSeq(ops, 1, k) = Below(mem, k, from)
    BY <2>1, <2>2, <2>3 DEF Below
  <2>5. QED
    BY <2>4 DEF k
<1>5. c - n \in Nat /\ c - n = from - (top + n)
  BY <1>1, <1>2
<1>6. n < c => ops[c - n] = mem[top + n]
  <2>1. n < c => c - n \in 1..c /\ from - (c - n) = top + n
    BY <1>1, <1>2
  <2>2. QED
    BY <1>1, <2>1
<1>7. Abstract!Last(ops, n) = SubSeq(ops, c - n + 1, c)
      /\ Abstract!Kept(ops, n) = SubSeq(ops, 1, c - n)
  BY <1>1 DEF Abstract!Last, Abstract!Kept
<1>8. QED
  BY <1>3, <1>4, <1>5, <1>6, <1>7 DEF ops, c

\* A call takes operands off the running activation.
LEMMA CallStep ==
  ASSUME IInv, CallsInv, Running, state' = "running", Bases' = Bases,
         NEW n \in Nat, n <= NOps, OpsEnd' = top + n,
         \A i \in 0..STACK_SIZE : i >= top + n => mem'[i] = mem[i]
  PROVE  /\ CallsInv' /\ GlobalsView' = GlobalsView /\ StateView' = StateView
         /\ Abstract!Ready /\ Abstract!Top = Current
         /\ Activations' \in Abstract!WithLast(Activations, {Abstract!Popped(Current, n)})
<1>1. PICK c, from : c = Cardinality(Bases) /\ from = OperandsFrom(mem, ebp)
  OBVIOUS
<1>2. Abstract!Ready /\ Abstract!Top = Current
  BY <1>1, RunningView
<1>3. /\ Abstract!Kept(Current.ops, n) = Below(mem, NOps - n, from)
      /\ NOps - n \in Nat /\ NOps - n = from - (top + n)
  BY <1>1, LastOps
<1>4. /\ top \in Int /\ top >= 1 /\ from \in Int /\ NOps \in Nat /\ NOps = from - top
      /\ STACK_SIZE \in Nat /\ from <= STACK_SIZE
  BY <1>1, RunningOps
<1>5. \A i \in 0..STACK_SIZE : i >= from => mem'[i] = mem[i]
  <2>1. from >= top + n
    BY <1>3, <1>4
  <2>2. \A i \in 0..STACK_SIZE : i >= from => i >= top + n
    BY <1>4, <2>1
  <2>3. QED
    BY <2>2
<1>6. PICK k : k = NOps - n
  OBVIOUS
<1>7. k = from - OpsEnd'
  BY <1>3, <1>6
<1>8. /\ CallsInv' /\ GlobalsView' = GlobalsView
      /\ Activations' \in Abstract!WithLast(Activations,
                            {[Current EXCEPT !.ops = Below(mem', k, from)]})
  BY <1>1, <1>5, <1>7, OperandStep
<1>9. Below(mem', k, from) = Below(mem, k, from)
  <2>1. \A i \in 1..k : from - i \in 0..STACK_SIZE /\ from - i >= top + n
    BY <1>3, <1>4, <1>6
  <2>2. \A i \in 1..k : mem'[from - i] = mem[from - i]
    BY <2>1
  <2>3. QED
    BY <2>2 DEF Below
<1>10. Below(mem', k, from) = Abstract!Kept(Current.ops, n)
  BY <1>3, <1>6, <1>9
<1>11. Activations' \in Abstract!WithLast(Activations, {Abstract!Popped(Current, n)})
  BY <1>8, <1>10 DEF Abstract!Popped
<1>12. StateView' = StateView
  BY DEF StateView, Running
<1>13. QED
  BY <1>2, <1>8, <1>11, <1>12

\* CALL hands over its arguments.
LEMMA CallImplements ==
  ASSUME IInv, CallsInv, Call
  PROVE  CallsInv' /\ Abstract!Next
<1>1. Running /\ UNCHANGED <<closures, site>> /\ state = "running"
  BY DEF Call, Running
<1>2. PICK f \in Funs, r \in Sites :
        /\ NOps >= f.args
        /\ PushesTo(top - 2,
                    [Reversed(f.args) EXCEPT ![top - 1] = val(0), ![top - 2] = addr(r)],
                    <<[fun |-> f, pushed |-> Pushed(f.args)]>>)
  BY DEF Call
<1>3. CASE ~ Checked(top - 2)
  BY <1>1, <1>2, <1>3, Halts DEF PushesTo
<1>4. CASE Checked(top - 2)
  <2>1. PICK n : n = f.args
    OBVIOUS
  <2>2. n \in Nat /\ n <= NOps /\ NOps \in Nat
    BY <1>1, <1>2, <2>1, FunsAssumption, RunningFacts
  <2>3. /\ mem' = [Reversed(n) EXCEPT ![top - 1] = val(0), ![top - 2] = addr(r)]
        /\ top' = top - 2 /\ callee' = <<[fun |-> f, pushed |-> Pushed(n)]>>
        /\ state' = "running"
    BY <1>1, <1>2, <1>4, <2>1 DEF PushesTo
  <2>4. PICK from : from = OperandsFrom(mem, ebp)
    OBVIOUS
  <2>5. /\ top \in Int /\ top >= 1 /\ from \in Int /\ NOps = from - top
        /\ STACK_SIZE \in Nat /\ mem \in Memory /\ from <= STACK_SIZE /\ top - 2 >= 0
    <3>1. /\ top \in Int /\ top >= 1 /\ from \in Int /\ NOps = from - top
          /\ STACK_SIZE \in Nat /\ mem \in Memory /\ from <= STACK_SIZE
      BY <1>1, <2>4, RunningOps
    <3>2. QED
      BY <1>4, <3>1 DEF Checked
  <2>6. /\ mem'[top - 1] = val(0) /\ mem'[top - 2] = addr(r)
        /\ \A j \in 1..n : mem'[top - 1 + j] = mem[top + n - j]
        /\ \A i \in 0..STACK_SIZE : i >= top + n => mem'[i] = mem[i]
    <3>1. DOMAIN mem = 0..STACK_SIZE
      BY <2>5 DEF Memory
    <3>2. /\ top - 1 \in 0..STACK_SIZE /\ top - 2 \in 0..STACK_SIZE /\ top - 1 # top - 2
      BY <2>2, <2>5
    <3>3. \A i \in 0..STACK_SIZE : i # top - 1 /\ i # top - 2 =>
            mem'[i] = IF top <= i /\ i < top + n THEN mem[top + (top + n - 1 - i)] ELSE mem[i]
      BY <2>3, <3>1, <3>2 DEF Reversed
    <3>4. mem'[top - 1] = val(0) /\ mem'[top - 2] = addr(r)
      BY <2>3, <3>1, <3>2 DEF Reversed
    <3>5. \A i \in 0..STACK_SIZE : i >= top + n => mem'[i] = mem[i]
      BY <2>2, <2>5, <3>3
    <3>6. ASSUME NEW j \in 1..n
          PROVE  mem'[top - 1 + j] = mem[top + n - j]
      <4>1. PICK i \in 0..STACK_SIZE : i = top - 1 + j
        BY <2>2, <2>5
      <4>2. /\ i # top - 1 /\ i # top - 2 /\ top <= i /\ i < top + n
            /\ top + (top + n - 1 - i) = top + n - j
        BY <2>2, <2>5, <4>1
      <4>3. QED
        BY <3>3, <4>1, <4>2
    <3>7. QED
      BY <3>4, <3>5, <3>6
  <2>7. Bases' = Bases
    BY <2>3, CallSound
  <2>8. callee' # <<>> /\ callee'[1].fun = f /\ callee'[1].fun.args = n /\ Len(callee') = 1
    BY <2>1, <2>3
  <2>9. OpsEnd' = top + n
    <3>1. OpsEnd' = top' + 2 + n
      BY <2>8 DEF OpsEnd
    <3>2. QED
      BY <2>2, <2>3, <2>5, <3>1
  <2>10. /\ CallsInv' /\ GlobalsView' = GlobalsView /\ StateView' = StateView
         /\ Abstract!Ready /\ Abstract!Top = Current
         /\ Activations' \in Abstract!WithLast(Activations, {Abstract!Popped(Current, n)})
    BY <1>1, <2>2, <2>3, <2>6, <2>7, <2>9, CallStep
  <2>11. /\ Abstract!Last(Current.ops, n) = [j \in 1..n |-> mem[top + n - j]]
         /\ Len(Current.ops) = NOps
    BY <1>1, <2>2, <2>4, LastOps, RunningOps
  <2>12. Above(mem', n, top' + 1) = Abstract!Last(Current.ops, n)
    <3>1. top' + 1 = top - 1
      BY <2>3, <2>5
    <3>2. Above(mem', n, top - 1) = Abstract!Last(Current.ops, n)
      BY <2>6, <2>11 DEF Above
    <3>3. QED
      BY <3>1, <3>2
  <2>13. /\ Plain(mem'[top' + 1]) = Abstract!Null /\ mem'[top'][2] = r
    <3>1. top' + 1 = top - 1 /\ addr(r)[2] = r
      BY <2>3, <2>5 DEF addr
    <3>2. QED
      BY <2>3, <2>6, <3>1 DEF Plain, Abstract!Null, Abstract!ptr, ptr
  <2>14. EnteringView' = <<[fun |-> f, args |-> Abstract!Last(Current.ops, n),
                            self |-> Abstract!Null, ret |-> r]>>
    BY <2>8, <2>12, <2>13 DEF EnteringView
  <2>15. Len(EnteringView') = 1
    BY <2>14
  <2>16. Abstract!Call
    BY <1>1, <2>1, <2>2, <2>10, <2>11, <2>14, <2>15 DEF Abstract!Call
  <2>17. QED
    BY <2>10, <2>16 DEF Abstract!Next
<1>5. QED
  BY <1>3, <1>4

\* CALLC finds the closure below its arguments and hands them over in the opposite
\* order.
LEMMA CallClosureImplements ==
  ASSUME IInv, CallsInv, CallClosure
  PROVE  CallsInv' /\ Abstract!Next
<1>1. Running /\ UNCHANGED <<closures, site>> /\ state = "running"
  BY DEF CallClosure, Running
<1>2. PICK n \in 0..(NOps - 1), r \in Sites :
        LET c == mem[top + n]
        IN  /\ c[1] = "ptr" /\ c # ptr(0) /\ closures[c[2]].fun.args = n
            /\ PushesTo(top - 1, [ClosureOnTop(n) EXCEPT ![top - 1] = addr(r)],
                        <<[fun |-> closures[c[2]].fun, pushed |-> Pushed(n)]>>)
  BY DEF CallClosure
<1>3. PICK c : c = mem[top + n]
  OBVIOUS
<1>4. PICK f : f = closures[c[2]].fun
  OBVIOUS
<1>5. /\ c[1] = "ptr" /\ c # ptr(0) /\ f.args = n
      /\ PushesTo(top - 1, [ClosureOnTop(n) EXCEPT ![top - 1] = addr(r)],
                  <<[fun |-> f, pushed |-> Pushed(n)]>>)
  BY <1>2, <1>3, <1>4
<1>6. CASE ~ Checked(top - 1)
  BY <1>1, <1>5, <1>6, Halts DEF PushesTo
<1>7. CASE Checked(top - 1)
  <2>1. NOps \in Nat /\ n \in Nat /\ n + 1 <= NOps /\ n <= NOps /\ n < NOps /\ n + 1 \in Nat
    <3>1. NOps \in Nat
      BY <1>1, RunningFacts
    <3>2. QED
      BY <3>1
  <2>2. /\ mem' = [ClosureOnTop(n) EXCEPT ![top - 1] = addr(r)]
        /\ top' = top - 1 /\ callee' = <<[fun |-> f, pushed |-> Pushed(n)]>>
        /\ state' = "running"
    BY <1>1, <1>5, <1>7 DEF PushesTo
  <2>3. PICK from : from = OperandsFrom(mem, ebp)
    OBVIOUS
  <2>4. /\ top \in Int /\ top >= 1 /\ from \in Int /\ NOps = from - top
        /\ STACK_SIZE \in Nat /\ mem \in Memory /\ from <= STACK_SIZE
    BY <1>1, <2>3, RunningOps
  <2>5. top - 1 \in 0..STACK_SIZE /\ top \in 0..STACK_SIZE /\ top - 1 # top
    BY <2>1, <2>4
  <2>6. /\ mem'[top - 1] = addr(r) /\ mem'[top] = c
        /\ \A j \in 1..n : mem'[top + j] = mem[top + j - 1]
        /\ \A i \in 0..STACK_SIZE : i >= top + n + 1 => mem'[i] = mem[i]
    <3>1. DOMAIN mem = 0..STACK_SIZE
      BY <2>4 DEF Memory
    <3>2. \A i \in 0..STACK_SIZE : i # top - 1 =>
            mem'[i] = IF i = top THEN mem[top + n]
                      ELSE IF top < i /\ i <= top + n THEN mem[i - 1] ELSE mem[i]
      BY <2>2, <2>5, <3>1 DEF ClosureOnTop
    <3>3. mem'[top - 1] = addr(r)
      BY <2>2, <2>5, <3>1 DEF ClosureOnTop
    <3>4. mem'[top] = c
      BY <1>3, <2>5, <3>2
    <3>5. \A i \in 0..STACK_SIZE : i >= top + n + 1 => mem'[i] = mem[i]
      BY <2>1, <2>4, <3>2
    <3>6. ASSUME NEW j \in 1..n
          PROVE  mem'[top + j] = mem[top + j - 1]
      <4>1. PICK i \in 0..STACK_SIZE : i = top + j
        BY <2>1, <2>4
      <4>2. i # top - 1 /\ i # top /\ top < i /\ i <= top + n /\ i - 1 = top + j - 1
        BY <2>1, <2>4, <4>1
      <4>3. QED
        BY <3>2, <4>1, <4>2
    <3>7. QED
      BY <3>3, <3>4, <3>5, <3>6
  <2>7. Bases' = Bases
    BY <2>2, CallClosureSound
  <2>8. callee' # <<>> /\ callee'[1].fun = f /\ callee'[1].fun.args = n /\ Len(callee') = 1
    BY <1>5, <2>2
  <2>9. PICK taken \in Nat : taken = n + 1
    BY <2>1
  <2>10. OpsEnd' = top + taken /\ taken <= NOps
    <3>1. OpsEnd' = top' + 2 + n
      BY <2>8 DEF OpsEnd
    <3>2. QED
      BY <2>1, <2>2, <2>4, <2>9, <3>1
  <2>11. \A i \in 0..STACK_SIZE : i >= top + taken => mem'[i] = mem[i]
    BY <2>1, <2>4, <2>6, <2>9
  <2>12. /\ CallsInv' /\ GlobalsView' = GlobalsView /\ StateView' = StateView
         /\ Abstract!Ready /\ Abstract!Top = Current
         /\ Activations' \in Abstract!WithLast(Activations, {Abstract!Popped(Current, taken)})
    BY <1>1, <2>2, <2>7, <2>10, <2>11, CallStep
  <2>13. /\ Abstract!Last(Current.ops, n) = [j \in 1..n |-> mem[top + n - j]]
         /\ Current.ops[NOps - n] = c
    BY <1>1, <1>3, <2>1, <2>3, LastOps
  <2>14. Len(Current.ops) = NOps
    BY <1>1, <2>3, RunningOps
  <2>15. Above(mem', n, top' + 1) = Abstract!Reversed(Abstract!Last(Current.ops, n))
    <3> DEFINE last == Abstract!Last(Current.ops, n)
    <3>1. last = [j \in 1..n |-> mem[top + n - j]]
      BY <2>13
    <3> HIDE DEF last
    <3>2. DOMAIN last = 1..n /\ last = [j \in 1..n |-> last[j]]
      BY <3>1
    <3>3. Len(last) = n
      BY <2>1, <3>2, Entries
    <3>4. ASSUME NEW j \in 1..n
          PROVE  mem'[top + j] = last[n + 1 - j]
      <4>1. PICK i \in 1..n : i = n + 1 - j
        BY <2>1
      <4>2. top + n - i = top + j - 1
        BY <2>1, <2>4, <4>1
      <4>3. last[i] = mem[top + j - 1]
        BY <3>1, <4>2
      <4>4. QED
        BY <2>6, <4>1, <4>3
    <3>5. Abstract!Reversed(last) = [j \in 1..n |-> last[n + 1 - j]]
      BY <3>2, <3>3 DEF Abstract!Reversed
    <3>6. Above(mem', n, top) = Abstract!Reversed(last)
      BY <3>4, <3>5 DEF Above
    <3>7. top' + 1 = top
      BY <2>2, <2>4
    <3>8. QED
      BY <3>6, <3>7 DEF last
  <2>16. Plain(mem'[top' + 1]) = c /\ mem'[top'][2] = r /\ c # Abstract!Null
    <3>1. top' + 1 = top /\ addr(r)[2] = r
      BY <2>2, <2>4 DEF addr
    <3>2. c # val(0) /\ c # Abstract!Null
      BY <1>5 DEF val, Abstract!Null, Abstract!ptr, ptr
    <3>3. QED
      BY <2>2, <2>6, <3>1, <3>2 DEF Plain
  <2>17. EnteringView' = <<[fun |-> f, args |-> Abstract!Reversed(Abstract!Last(Current.ops, n)),
                            self |-> c, ret |-> r]>>
    BY <2>8, <2>15, <2>16 DEF EnteringView
  <2>18. Len(EnteringView') = 1
    BY <2>17
  <2>19. n \in 0..(Len(Abstract!Top.ops) - 1)
    BY <2>1, <2>12, <2>14
  <2>20. Abstract!Top.ops[Len(Abstract!Top.ops) - n] = c
    BY <2>12, <2>13, <2>14
  <2>21. Activations' \in Abstract!WithLast(Activations, {Abstract!Popped(Abstract!Top, n + 1)})
    BY <2>9, <2>12
  <2>22. Abstract!CallClosure
    BY <1>1, <1>4, <1>5, <2>12, <2>16, <2>17, <2>18, <2>19, <2>20, <2>21
    DEF Abstract!CallClosure
  <2>23. QED
    BY <2>12, <2>22 DEF Abstract!Next
<1>8. QED
  BY <1>6, <1>7

-----------------------------------------------------------------------------
(* BEGIN.                                                                   *)

\* The activations are a sequence as long as there are bases, and one that is
\* appended is the last.
LEMMA ActivationsLen ==
  ASSUME NEW m, NEW lo, NEW B, NEW n, n = Cardinality(B)
  PROVE  /\ ActivationsOf(m, lo, B) = [i \in 1..n |-> ActivationsOf(m, lo, B)[i]]
         /\ DOMAIN ActivationsOf(m, lo, B) = 1..n
BY DEF ActivationsOf

LEMMA StackedAppend ==
  ASSUME NEW n \in Nat, NEW s, s = [i \in 1..n |-> s[i]], NEW a
  PROVE  Append(s, a) = Stacked(n + 1, s, a)
BY EntryAppended DEF Stacked

\* What BEGIN is given and what it leaves.
LEMMA BeginWords ==
  ASSUME IInv, Begin, state' = "running", NEW f, f = callee[1].fun, NEW b, b = top - 1
  PROVE  /\ state = "running" /\ callee # <<>> /\ callee' = <<>> /\ UNCHANGED <<closures, site>>
         /\ STACK_SIZE \in Nat /\ NGlobals \in Nat /\ f.args \in Nat /\ f.locals \in Nat
         /\ top \in Int /\ b \in Int /\ b - 2 - f.locals >= 1 /\ b = top - 1
         /\ top' = b - 2 - f.locals /\ b + 2 + f.args < STACK_SIZE - NGlobals
         /\ \A e \in Bases : b < e
         /\ \A q \in (b + 2)..(STACK_SIZE - 1) : mem'[q] = mem[q]
         /\ mem'[b + 1] = val(f.args) /\ mem'[b - 1] = mem[top] /\ mem'[b - 2] = val(f.locals)
         /\ \A q \in (b - 2 - f.locals)..(b - 3) : mem'[q] = val(-1)
<1>1. state = "running" /\ callee # <<>> /\ UNCHANGED <<closures, site>>
  BY DEF Begin
<1>2. PushesTo(b - 2 - f.locals, Begun(f, b), <<>>)
  BY DEF Begin, Begun
<1>3. /\ Checked(b - 2 - f.locals) /\ mem' = Begun(f, b) /\ top' = b - 2 - f.locals
      /\ callee' = <<>>
  BY <1>2 DEF PushesTo, Fail
<1>4. /\ STACK_SIZE \in Nat /\ NGlobals \in Nat /\ f.args \in Nat /\ f.locals \in Nat
      /\ top \in Int /\ b \in Int /\ b = top - 1
      /\ OperandsFrom(mem, ebp) \in Int /\ OperandsFrom(mem, ebp) <= STACK_SIZE - NGlobals
      /\ top + 1 + f.args < OperandsFrom(mem, ebp)
      /\ \A e \in Bases : e \in Int /\ OperandsFrom(mem, ebp) <= e - 2
  BY <1>1, CalleeFacts
<1>5. b - 2 - f.locals >= 1
  BY <1>3, <1>4 DEF Checked
<1>6. /\ \A q \in (b + 2)..(STACK_SIZE - 1) : mem'[q] = mem[q]
      /\ b - 2 - f.locals >= 1 =>
           /\ mem'[b + 1] = val(f.args) /\ mem'[b] = val(ebp) /\ mem'[b - 1] = mem[top]
           /\ mem'[b - 2] = val(f.locals)
           /\ \A q \in (b - 2 - f.locals)..(b - 3) : mem'[q] = val(-1)
  BY <1>1, <1>3, BegunWords
<1>7. /\ b + 2 + f.args < STACK_SIZE - NGlobals
      /\ \A e \in Bases : b < e
  BY <1>4
<1>8. QED
  BY <1>1, <1>3, <1>4, <1>5, <1>6, <1>7

\* The frame BEGIN makes is the activation that a call starts.
LEMMA BeginFrame ==
  ASSUME IInv, Begin, state' = "running", NEW b, b = top - 1
  PROVE  /\ FrameAt(mem', top', b) = Abstract!Activation(EnteringView[1])
         /\ AboveArgs(mem', b) = OpsEnd /\ GlobalsView' = GlobalsView
         /\ \A i \in OpsEnd..(STACK_SIZE - NGlobals - 1) : mem[i] = mem'[i]
<1>1. PICK f : f = callee[1].fun
  OBVIOUS
<1>2. /\ callee # <<>> /\ callee' = <<>>
      /\ STACK_SIZE \in Nat /\ NGlobals \in Nat /\ f.args \in Nat /\ f.locals \in Nat
      /\ top \in Int /\ b \in Int /\ b - 2 - f.locals >= 1 /\ b = top - 1
      /\ top' = b - 2 - f.locals /\ b + 2 + f.args < STACK_SIZE - NGlobals
      /\ \A q \in (b + 2)..(STACK_SIZE - 1) : mem'[q] = mem[q]
      /\ mem'[b + 1] = val(f.args) /\ mem'[b - 1] = mem[top] /\ mem'[b - 2] = val(f.locals)
      /\ \A q \in (b - 2 - f.locals)..(b - 3) : mem'[q] = val(-1)
  BY <1>1, BeginWords
<1> DEFINE m == mem'
           t == top'
<1> HIDE DEF m, t
<1>3. PICK n \in Nat, l \in Nat : n = f.args /\ l = f.locals
  BY <1>2
<1>4. m[b + 1][2] = n /\ m[b - 2][2] = l /\ m[b - 1] = mem[top]
  BY <1>2, <1>3 DEF val, m
<1>5. /\ \A q \in (b + 2)..(STACK_SIZE - 1) : m[q] = mem[q]
      /\ \A q \in (b - 2 - l)..(b - 3) : m[q] = val(-1)
  BY <1>2, <1>3 DEF m
<1>6. /\ b \in Int /\ top \in Int /\ b = top - 1 /\ b - 2 - l >= 1 /\ t = b - 2 - l
      /\ b + 2 + n < STACK_SIZE - NGlobals /\ STACK_SIZE \in Nat /\ NGlobals \in Nat
  BY <1>2, <1>3 DEF t
<1>7. /\ b + 2 = top + 1 /\ OpsEnd = top + 2 + n /\ AboveArgs(m, b) = OpsEnd
  <2>1. OpsEnd = top + 2 + n
    BY <1>1, <1>2, <1>3 DEF OpsEnd
  <2>2. AboveArgs(m, b) = b + 3 + n
    BY <1>4 DEF AboveArgs
  <2>3. QED
    BY <1>6, <2>1, <2>2
<1>8. Above(m, n, b + 2) = Above(mem, n, top + 1)
  <2>1. \A j \in 1..n : b + 2 + j \in (b + 2)..(STACK_SIZE - 1) /\ b + 2 + j = top + 1 + j
    BY <1>6
  <2>2. \A j \in 1..n : m[b + 2 + j] = mem[top + 1 + j]
    BY <1>5, <2>1
  <2>3. QED
    BY <2>2 DEF Above
<1>9. m[b + 2] = mem[top + 1]
  BY <1>5, <1>6, <1>7
<1>10. Below(m, l, b - 2) = [i \in 1..l |-> val(-1)]
  <2>1. \A i \in 1..l : b - 2 - i \in (b - 2 - l)..(b - 3)
    BY <1>6
  <2>2. \A i \in 1..l : m[b - 2 - i] = val(-1)
    BY <1>5, <2>1
  <2>3. QED
    BY <2>2 DEF Below
<1>11. FrameAt(m, t, b) = [args   |-> Above(mem, n, top + 1),
                           self   |-> Plain(mem[top + 1]),
                           ret    |-> mem[top][2],
                           locals |-> [i \in 1..l |-> val(-1)],
                           ops    |-> <<>>]
  <2>1. FrameAt(m, t, b) =
          [args   |-> Above(m, m[b + 1][2], b + 2),
           self   |-> Plain(m[b + 2]),
           ret    |-> m[b - 1][2],
           locals |-> Below(m, m[b - 2][2], b - 2),
           ops    |-> Below(m, (b - 2 - m[b - 2][2]) - t, b - 2 - m[b - 2][2])]
    BY DEF FrameAt
  <2>2. (b - 2 - l) - t = 0
    BY <1>6
  <2>3. Below(m, 0, b - 2 - l) = <<>>
    BY DEF Below
  <2>4. QED
    BY <1>4, <1>8, <1>9, <1>10, <2>1, <2>2, <2>3
<1>12. EnteringView[1] = [fun  |-> f, args |-> Above(mem, n, top + 1),
                          self |-> Plain(mem[top + 1]), ret  |-> mem[top][2]]
  BY <1>1, <1>2, <1>3 DEF EnteringView
<1>13. Abstract!Activation(EnteringView[1]) =
         [args   |-> Above(mem, n, top + 1),
          self   |-> Plain(mem[top + 1]),
          ret    |-> mem[top][2],
          locals |-> [i \in 1..l |-> val(-1)],
          ops    |-> <<>>]
  BY <1>3, <1>12 DEF Abstract!Activation, Abstract!val, val
<1>14. \A i \in OpsEnd..(STACK_SIZE - NGlobals - 1) : mem[i] = m[i]
  <2>1. \A i \in OpsEnd..(STACK_SIZE - NGlobals - 1) : i \in (b + 2)..(STACK_SIZE - 1)
    BY <1>6, <1>7
  <2>2. QED
    BY <1>5, <2>1
<1>15. GlobalsView' = GlobalsView
  <2>1. \A i \in (STACK_SIZE - NGlobals)..(STACK_SIZE - 1) : i \in (b + 2)..(STACK_SIZE - 1)
    BY <1>6
  <2>2. QED
    BY <1>5, <2>1, GlobalsKept DEF m
<1>16. QED
  BY <1>7, <1>11, <1>13, <1>14, <1>15 DEF m, t

\* The bases of a program that runs after a step of a compiled program.
LEMMA NextBases ==
  ASSUME IInv', state' = "running"
  PROVE  Bases' \subseteq 1..STACK_SIZE /\ FramesIn(mem', Bases')
BY DEF IInv, LinkedFrames, Chain

\* BEGIN starts the activation of the call that is being made.
LEMMA BeginImplements ==
  ASSUME IInv, CallsInv, IInv', Begin
  PROVE  CallsInv' /\ Abstract!Next
<1>1. state = "running" /\ callee # <<>> /\ UNCHANGED <<closures, site>>
  BY DEF Begin
<1>2. CASE state' # "running"
  <2>1. Fail
    BY <1>1, <1>2 DEF Begin, PushesTo
  <2>2. QED
    BY <1>1, <2>1, Halts
<1>3. CASE state' = "running"
  <2> DEFINE B == Bases'
             C == Bases
             m == mem'
  <2>1. PICK b : b = top - 1
    OBVIOUS
  <2>2. PICK f : f = callee[1].fun
    OBVIOUS
  <2>3. callee' = <<>> /\ b \in Int /\ \A e \in C : b < e
    BY <1>3, <2>1, <2>2, BeginWords
  <2>4. B = C \cup {b}
    BY <1>3, <2>1, BeginSound
  <2>5. /\ FrameAt(m, top', b) = Abstract!Activation(EnteringView[1])
        /\ AboveArgs(m, b) = OpsEnd /\ GlobalsView' = GlobalsView
        /\ \A i \in OpsEnd..(STACK_SIZE - NGlobals - 1) : mem[i] = m[i]
    BY <1>3, <2>1, BeginFrame
  <2>6. Ordered(C) /\ C \subseteq Int /\ IsFiniteSet(C)
    BY <1>1 DEF CallsInv, Ordered
  <2>7. B \subseteq 1..STACK_SIZE /\ FramesIn(m, B)
    BY <1>3, NextBases
  <2>8. Activations' = ActivationsOf(m, top', B) /\ Activations = ActivationsOf(mem, OpsEnd, C)
    BY <2>3 DEF Activations, OpsEnd
  <2>9. CallsInv' <=> Ordered(B)
    BY <1>3 DEF CallsInv
  <2> HIDE DEF B, C, m
  <2>10. b \in B /\ B \subseteq Int /\ IsFiniteSet(B) /\ B \ {b} = C /\ \A e \in B : b <= e
    <3>1. b \notin C
      BY <2>3, <2>6
    <3>2. B \ {b} = C /\ b \in B /\ B \subseteq Int
      BY <2>3, <2>4, <2>6, <3>1
    <3>3. IsFiniteSet(B)
      BY <2>4, <2>6, FS_AddElement
    <3>4. \A e \in B : b <= e
      BY <2>3, <2>4, <2>6
    <3>5. QED
      BY <3>2, <3>3, <3>4
  <2>11. Ordered(B)
    <3>1. Ordered(B) <=> Ordered(B \ {b})
      BY <2>10, LowestBase
    <3>2. QED
      BY <2>6, <2>10, <3>1
  <2>12. PICK c, n : c = Cardinality(B) /\ n = Cardinality(C)
    OBVIOUS
  <2>13. /\ c \in Nat /\ c >= 1 /\ Cardinality(B \ {b}) = c - 1
         /\ ActivationsOf(m, top', B) =
              Stacked(c, CallersOf(m, AboveArgs(m, b), B, b), FrameAt(m, top', b))
    BY <2>10, <2>11, <2>12, ActivationsSplit
  <2>14. n \in Nat /\ n + 1 = c
    <3>1. n = Cardinality(B \ {b})
      <4>1. B \ {b} = C
        BY <2>10
      <4>2. QED
        BY <2>12, <4>1
    <3>2. QED
      BY <2>13, <3>1
  <2>15. CallersOf(m, AboveArgs(m, b), B, b) = Activations
    <3>1. \A i \in AboveArgs(m, b)..(STACK_SIZE - NGlobals - 1) : mem[i] = m[i]
      BY <2>5
    <3>2. CallersOf(mem, AboveArgs(m, b), B, b) = CallersOf(m, AboveArgs(m, b), B, b)
      BY <2>7, <2>10, <2>11, <3>1, CallersKept
    <3>3. CallersOf(mem, AboveArgs(m, b), B, b) = Activations
      BY <2>5, <2>8, <2>10 DEF CallersOf
    <3>4. QED
      BY <3>2, <3>3
  <2>16. Activations' = Stacked(n + 1, Activations, Abstract!Activation(EnteringView[1]))
    BY <2>5, <2>8, <2>13, <2>14, <2>15
  <2>17. Activations = [i \in 1..n |-> Activations[i]]
    <3>1. ActivationsOf(mem, OpsEnd, C) = [i \in 1..n |-> ActivationsOf(mem, OpsEnd, C)[i]]
      BY <2>12, ActivationsLen
    <3>2. QED
      BY <2>8, <3>1
  <2>18. Activations' = Append(Activations, Abstract!Activation(EnteringView[1]))
    BY <2>14, <2>16, <2>17, StackedAppend
  <2>19. EnteringView # <<>> /\ EnteringView' = <<>> /\ StateView = "running"
         /\ StateView' = StateView
    BY <1>1, <1>3, <2>3 DEF EnteringView, StateView
  <2>20. Abstract!Begin
    BY <1>1, <2>5, <2>18, <2>19 DEF Abstract!Begin
  <2>21. QED
    BY <2>9, <2>11, <2>20 DEF Abstract!Next
<1>4. QED
  BY <1>2, <1>3

-----------------------------------------------------------------------------
(* END.                                                                     *)

\* Slot t is the one below the operands of the frame at e, whose other words stay.
SlotBelow(m, k, t, e) ==
  /\ m[e + 1][2] \in Nat /\ m[e - 2][2] \in Nat /\ t < e - 2 - m[e - 2][2]
  /\ WordsKept(m, k, t + 1, e)

\* A frame has one operand more when the slot below its operands is among them.
LEMMA FramePushed ==
  ASSUME NEW m, NEW k, NEW t \in Int, NEW e \in Int, NEW u, u = t + 1,
         SlotBelow(m, k, t, e)
  PROVE  /\ FrameAt(k, t, e) = Abstract!Pushed(FrameAt(m, u, e), k[t])
         /\ AboveArgs(k, e) = AboveArgs(m, e)
<1>0. PICK v : v = k[t]
  OBVIOUS
<1>1. PICK n \in Nat, l \in Nat : n = m[e + 1][2] /\ l = m[e - 2][2] /\ t < e - 2 - l
  BY DEF SlotBelow
<1>2. PICK from \in Int : from = e - 2 - l
  BY <1>1
<1>3. PICK c \in Nat : c = from - (t + 1)
  BY <1>1, <1>2
<1>4. \A i \in (t + 1)..(e + 2 + n) : k[i] = m[i]
  BY <1>1 DEF WordsKept, SlotBelow
<1>5. /\ k[e + 1] = m[e + 1] /\ k[e + 2] = m[e + 2]
      /\ k[e - 1] = m[e - 1] /\ k[e - 2] = m[e - 2]
  <2>1. /\ e + 1 \in (t + 1)..(e + 2 + n) /\ e + 2 \in (t + 1)..(e + 2 + n)
        /\ e - 1 \in (t + 1)..(e + 2 + n) /\ e - 2 \in (t + 1)..(e + 2 + n)
    BY <1>2, <1>3
  <2>2. QED
    BY <1>4, <2>1
<1>6. Above(k, n, e + 2) = Above(m, n, e + 2)
  <2>1. \A j \in 1..n : e + 2 + j \in (t + 1)..(e + 2 + n)
    BY <1>2, <1>3
  <2>2. \A j \in 1..n : k[e + 2 + j] = m[e + 2 + j]
    BY <1>4, <2>1
  <2>3. QED
    BY <2>2 DEF Above
<1>7. Below(k, l, e - 2) = Below(m, l, e - 2)
  <2>1. \A j \in 1..l : e - 2 - j \in (t + 1)..(e + 2 + n)
    BY <1>2, <1>3
  <2>2. \A j \in 1..l : k[e - 2 - j] = m[e - 2 - j]
    BY <1>4, <2>1
  <2>3. QED
    BY <2>2 DEF Below
<1>8. Append(Below(m, c, from), v) = Below(k, c + 1, from)
  <2> DEFINE s == Below(m, c, from)
  <2>1. s = [i \in 1..c |-> s[i]] /\ \A i \in 1..c : s[i] = m[from - i]
    BY DEF Below
  <2> HIDE DEF s
  <2>2. Append(s, v) = [i \in 1..(c + 1) |-> IF i = c + 1 THEN v ELSE s[i]]
    BY <2>1, EntryAppended
  <2>3. /\ from - (c + 1) = t
        /\ \A i \in 1..c : from - i \in (t + 1)..(e + 2 + n)
        /\ \A i \in 1..(c + 1) : i # c + 1 => i \in 1..c
    BY <1>2, <1>3
  <2>4. \A i \in 1..(c + 1) : k[from - i] = IF i = c + 1 THEN v ELSE s[i]
    BY <1>0, <1>4, <2>1, <2>3
  <2>5. QED
    BY <2>2, <2>4 DEF Below, s
<1>9. FrameAt(m, u, e) = [args   |-> Above(m, n, e + 2),
                          self   |-> Plain(m[e + 2]),
                          ret    |-> m[e - 1][2],
                          locals |-> Below(m, l, e - 2),
                          ops    |-> Below(m, c, from)]
  BY <1>1, <1>2, <1>3 DEF FrameAt
<1>10. FrameAt(k, t, e) = [args   |-> Above(m, n, e + 2),
                           self   |-> Plain(m[e + 2]),
                           ret    |-> m[e - 1][2],
                           locals |-> Below(m, l, e - 2),
                           ops    |-> Below(k, c + 1, from)]
  <2>1. c + 1 = from - t
    BY <1>2, <1>3
  <2>2. QED
    BY <1>1, <1>2, <1>5, <1>6, <1>7, <2>1 DEF FrameAt
<1>11. FrameAt(k, t, e) = Abstract!Pushed(FrameAt(m, t + 1, e), v)
  <2>1. PICK args, self, ret, locals, ops :
          /\ args = Above(m, n, e + 2) /\ self = Plain(m[e + 2]) /\ ret = m[e - 1][2]
          /\ locals = Below(m, l, e - 2) /\ ops = Below(m, c, from)
    OBVIOUS
  <2>2. PICK a : a = [args |-> args, self |-> self, ret |-> ret, locals |-> locals, ops |-> ops]
    OBVIOUS
  <2>3. FrameAt(m, u, e) = a
    BY <1>9, <2>1, <2>2
  <2>4. Abstract!Pushed(a, v) = [args |-> args, self |-> self, ret |-> ret, locals |-> locals,
                                 ops |-> Append(ops, v)]
    <3>1. PICK more : more = Append(ops, v)
      OBVIOUS
    <3>2. Append(a.ops, v) = more
      BY <2>2, <3>1
    <3>3. [a EXCEPT !.ops = more] = [args |-> args, self |-> self, ret |-> ret,
                                     locals |-> locals, ops |-> more]
      BY <2>2, RecordExcept
    <3>4. QED
      BY <3>1, <3>2, <3>3 DEF Abstract!Pushed
  <2>5. FrameAt(k, t, e) = [args |-> args, self |-> self, ret |-> ret, locals |-> locals,
                            ops |-> Append(ops, v)]
    BY <1>8, <1>10, <2>1
  <2>6. QED
    BY <2>3, <2>4, <2>5
<1>12. QED
  BY <1>0, <1>5, <1>11 DEF AboveArgs

\* What END leaves of the view.
LEMMA EndWords ==
  ASSUME IInv, End, NEW c, c = mem[ebp][2], NEW t, t = ebp + 2 + NArgs
  PROVE  /\ Running /\ NOps >= 1 /\ callee' = <<>> /\ UNCHANGED closures
         /\ STACK_SIZE \in Nat /\ NGlobals \in Nat /\ ebp \in Int /\ top' = t /\ t \in Int
         /\ c \in Bases \cup {0} /\ c \in Int /\ (c = 0 => Bases = {ebp})
         /\ mem[ebp - 1][2] \in ReturnsTo(c) /\ t < OperandsFrom(mem, c)
         /\ AboveArgs(mem, ebp) = t + 1
         /\ GlobalsView' = GlobalsView /\ EnteringView' = EnteringView
         /\ mem'[t] = mem[top] /\ \A q \in (t + 1)..(STACK_SIZE - 1) : mem'[q] = mem[q]
         /\ c # 0 => c \in Bases /\ c # ebp
         /\ \A e \in Bases \ {ebp} : c <= e
<1>1. /\ Running /\ NOps >= 1 /\ callee = <<>> /\ callee' = <<>> /\ UNCHANGED closures
  BY DEF End, Running
<1>2. /\ STACK_SIZE \in Nat /\ NGlobals \in Nat /\ ebp \in Int /\ NArgs \in Nat /\ NLocals \in Nat
      /\ OperandsFrom(mem, ebp) = ebp - 2 - NLocals
  BY <1>1, RunningFacts
<1>3. /\ top' = t /\ c \in Bases \cup {0} /\ c \in Int /\ (c = 0 => Bases = {ebp})
      /\ t \in 1..(STACK_SIZE - 1) /\ t < OperandsFrom(mem, c) /\ t \in Int /\ t > ebp
      /\ OperandsFrom(mem, c) \in Int /\ OperandsFrom(mem, c) <= STACK_SIZE - NGlobals
      /\ \A q \in 0..(STACK_SIZE - 1) : mem'[q] = IF q = t THEN mem[top] ELSE mem[q]
      /\ \A e \in Bases \ {ebp} : e \in Int /\ e >= c
  BY EndFacts
<1>4. mem[ebp - 1][2] \in ReturnsTo(c)
  BY <1>1, RunningChain DEF FramesIn
<1>5. AboveArgs(mem, ebp) = t + 1
  BY <1>2 DEF AboveArgs, NArgs
<1>6. mem'[t] = mem[top] /\ \A q \in (t + 1)..(STACK_SIZE - 1) : mem'[q] = mem[q]
  <2>1. t \in 0..(STACK_SIZE - 1)
    BY <1>3
  <2>2. \A q \in (t + 1)..(STACK_SIZE - 1) : q \in 0..(STACK_SIZE - 1) /\ q # t
    BY <1>3
  <2>3. QED
    BY <1>3, <2>1, <2>2
<1>7. GlobalsView' = GlobalsView
  <2>1. \A i \in (STACK_SIZE - NGlobals)..(STACK_SIZE - 1) : i \in (t + 1)..(STACK_SIZE - 1)
    BY <1>2, <1>3
  <2>2. QED
    BY <1>6, <2>1, GlobalsKept
<1>8. EnteringView' = EnteringView
  BY <1>1 DEF EnteringView
<1>9. c # 0 => c \in Bases /\ c # ebp
  <2>1. c # ebp
    BY <1>2, <1>3
  <2>2. QED
    BY <1>3, <2>1
<1>10. \A e \in Bases \ {ebp} : c <= e
  BY <1>3
<1>11. QED
  BY <1>1, <1>2, <1>3, <1>4, <1>5, <1>6, <1>7, <1>8, <1>9, <1>10

\* END gives its result to the caller.
LEMMA ReturnImplements ==
  ASSUME IInv, CallsInv, IInv', End, mem[ebp][2] # 0
  PROVE  CallsInv' /\ Abstract!Next
<1> DEFINE B == Bases
           D == Bases \ {ebp}
           m == mem'
<1>1. PICK c, t, b, n : c = mem[ebp][2] /\ t = ebp + 2 + NArgs /\ b = ebp /\ n = Cardinality(B)
  OBVIOUS
<1>2. /\ Running /\ NOps >= 1 /\ callee' = <<>> /\ UNCHANGED closures
      /\ STACK_SIZE \in Nat /\ NGlobals \in Nat /\ ebp \in Int /\ top' = t /\ t \in Int
      /\ c \in Bases \cup {0} /\ c \in Int
      /\ mem[ebp - 1][2] \in ReturnsTo(c) /\ t < OperandsFrom(mem, c)
      /\ AboveArgs(mem, ebp) = t + 1
      /\ GlobalsView' = GlobalsView /\ EnteringView' = EnteringView
      /\ m[t] = mem[top] /\ \A q \in (t + 1)..(STACK_SIZE - 1) : m[q] = mem[q]
      /\ c \in Bases /\ c # ebp
      /\ \A e \in Bases \ {ebp} : c <= e
  BY <1>1, EndWords
<1>3. mem[ebp - 1][2] \in Sites /\ mem[ebp - 1][2] # 0
  BY <1>1, <1>2, DataAssumption DEF ReturnsTo
<1>4. state' = "running" /\ site' = mem[ebp - 1][2]
  BY <1>2, <1>3 DEF End, Resume, Running
<1>5. Bases' = D
  BY EndBases
<1>6. D \subseteq 1..STACK_SIZE /\ FramesIn(m, D)
  BY <1>4, <1>5, NextBases
<1>7. /\ n \in Nat /\ n >= 1 /\ Ordered(B)
      /\ Activations = Stacked(n, Callers, Current)
      /\ Len(Activations) = n /\ Activations = [i \in 1..n |-> Activations[i]]
      /\ Abstract!Ready /\ Abstract!Top = Current
  BY <1>1, <1>2, RunningView
<1>8. b \in B /\ \A e \in B : b <= e
  <2>1. b \in B /\ B \subseteq Int /\ \A e \in B : e >= b
    BY <1>1, <1>2, RunningChain
  <2>2. QED
    BY <1>1, <1>2, <2>1
<1>9. Ordered(D) /\ Cardinality(D) = n - 1
  <2> HIDE DEF B
  <2>1. Ordered(B \ {b}) /\ Cardinality(B \ {b}) = n - 1
    BY <1>1, <1>7, <1>8, ActivationsSplit
  <2>2. QED
    BY <1>1, <2>1 DEF B
<1>10. Callers = ActivationsOf(mem, t + 1, D)
  BY <1>2 DEF Callers, CallersOf
<1>11. Activations' = ActivationsOf(m, t, D)
  <2>1. OpsEnd' = t
    BY <1>2 DEF OpsEnd
  <2>2. QED
    BY <1>5, <2>1 DEF Activations
<1>12. CallsInv'
  BY <1>5, <1>9 DEF CallsInv
<1>13. c \in D /\ \A e \in D : c <= e
  BY <1>1, <1>2
<1>14. FramesIn(mem, B)
  BY <1>2, RunningChain
<1>15. /\ mem[c + 1][2] \in Nat /\ mem[c - 2][2] \in Nat /\ t < c - 2 - mem[c - 2][2]
       /\ c + 2 + mem[c + 1][2] < STACK_SIZE - NGlobals
  <2>1. mem[c + 1][2] \in Nat /\ mem[c - 2][2] \in Nat
    BY <1>2, <1>14 DEF FramesIn
  <2>2. OperandsFrom(mem, c) = c - 2 - mem[c - 2][2]
    BY <1>1 DEF OperandsFrom
  <2>3. c + 2 + mem[c + 1][2] < STACK_SIZE - NGlobals
    <3>1. Ordered(B) /\ B \subseteq 1..STACK_SIZE /\ c \in B \ {b}
      BY <1>1, <1>2, <1>7, RunningChain
    <3> HIDE DEF B
    <3>2. QED
      BY <1>8, <1>14, <3>1, CallersAbove
  <2>4. QED
    BY <1>2, <2>1, <2>2, <2>3
<1> HIDE DEF B, D, m
<1>16. /\ FrameAt(m, t, c) = Abstract!Pushed(FrameAt(mem, t + 1, c), mem[top])
       /\ AboveArgs(m, c) = AboveArgs(mem, c)
  <2>1. PICK u : u = t + 1
    OBVIOUS
  <2>2. WordsKept(mem, m, t + 1, c)
    <3>1. PICK p \in Nat : p = mem[c + 1][2] /\ c + 2 + p < STACK_SIZE - NGlobals
      BY <1>15
    <3>2. \A i \in (t + 1)..(c + 2 + p) : i \in (t + 1)..(STACK_SIZE - 1)
      BY <1>2, <3>1
    <3>3. QED
      BY <1>2, <3>1, <3>2 DEF WordsKept
  <2>3. SlotBelow(mem, m, t, c)
    BY <1>15, <2>2 DEF SlotBelow
  <2>4. /\ FrameAt(m, t, c) = Abstract!Pushed(FrameAt(mem, u, c), m[t])
        /\ AboveArgs(m, c) = AboveArgs(mem, c)
    BY <1>2, <2>1, <2>3, FramePushed
  <2>5. QED
    BY <1>2, <2>1, <2>4
<1>17. CallersOf(m, AboveArgs(mem, c), D, c) = CallersOf(mem, AboveArgs(mem, c), D, c)
  <2>1. \A i \in AboveArgs(m, c)..(STACK_SIZE - NGlobals - 1) : mem[i] = m[i]
    <3>1. AboveArgs(m, c) \in Int /\ AboveArgs(m, c) > t
      <4>1. PICK p \in Nat, q \in Nat : p = mem[c + 1][2] /\ q = mem[c - 2][2]
        BY <1>15
      <4>2. AboveArgs(m, c) = c + 3 + p
        BY <1>16, <4>1 DEF AboveArgs
      <4>3. t < c - 2 - q /\ t \in Int /\ c \in Int
        BY <1>2, <1>15, <4>1
      <4>4. c + 3 + p \in Int /\ c + 3 + p > t
        BY <4>3
      <4>5. QED
        BY <4>2, <4>4
    <3>2. \A i \in AboveArgs(m, c)..(STACK_SIZE - NGlobals - 1) : i \in (t + 1)..(STACK_SIZE - 1)
      BY <1>2, <3>1
    <3>3. QED
      BY <1>2, <3>2
  <2>2. CallersOf(mem, AboveArgs(m, c), D, c) = CallersOf(m, AboveArgs(m, c), D, c)
    BY <1>6, <1>9, <1>13, <2>1, CallersKept
  <2>3. QED
    BY <1>16, <2>2
<1> DEFINE others == CallersOf(mem, AboveArgs(mem, c), D, c)
           caller == FrameAt(mem, t + 1, c)
<1>18. PICK k : k = Cardinality(D)
  OBVIOUS
<1>19. k \in Nat /\ k >= 1 /\ ActivationsOf(mem, t + 1, D) = Stacked(k, others, caller)
  BY <1>9, <1>13, <1>18, ActivationsSplit
<1>20. Activations' = Stacked(k, others, Abstract!Pushed(caller, mem[top]))
  <2>1. ActivationsOf(m, t, D) = Stacked(k, CallersOf(m, AboveArgs(m, c), D, c), FrameAt(m, t, c))
    BY <1>9, <1>13, <1>18, ActivationsSplit
  <2>2. QED
    BY <1>11, <1>16, <1>17, <2>1
<1> HIDE DEF others, caller
<1>21. Activations' \in Abstract!WithLast(Stacked(k, others, caller),
                                          {Abstract!Pushed(caller, mem[top])})
  BY <1>19, <1>20, StackedExcept
<1>22. k = n - 1 /\ n > 1
  BY <1>7, <1>9, <1>18, <1>19
<1>23. Abstract!Kept(Activations, 1) = Stacked(k, others, caller)
  <2>1. Callers = Stacked(k, others, caller)
    BY <1>10, <1>19
  <2>2. \A i \in 1..k : Activations[i] = Callers[i]
    BY <1>7, <1>22 DEF Stacked
  <2>3. Callers = [i \in 1..k |-> Callers[i]]
    BY <2>1 DEF Stacked
  <2>4. SubSeq(Activations, 1, k) = [i \in 1..(k + 1 - 1) |-> Activations[1 - 1 + i]]
    <3> DEFINE s == Activations
    <3>1. s = [i \in 1..n |-> s[i]] /\ 1 \in 1..(n + 1) /\ k \in 0..n /\ 1 <= k + 1
      BY <1>7, <1>19, <1>22
    <3> HIDE DEF s
    <3>2. SubSeq(s, 1, k) = [i \in 1..(k + 1 - 1) |-> s[1 - 1 + i]]
      BY <1>7, <3>1, PartOfEntries
    <3>3. QED
      BY <3>2 DEF s
  <2>5. k + 1 - 1 = k /\ \A i \in 1..k : 1 - 1 + i = i
    BY <1>19
  <2>6. SubSeq(Activations, 1, k) = Callers
    BY <2>2, <2>3, <2>4, <2>5
  <2>7. QED
    BY <1>7, <1>22, <2>1, <2>6 DEF Abstract!Kept
<1>24. Abstract!LastOf(Stacked(k, others, caller)) = caller
  <2> DEFINE s == Stacked(k, others, caller)
  <2>1. s = [i \in 1..k |-> s[i]] /\ s[k] = caller
    BY <1>19 DEF Stacked
  <2> HIDE DEF s
  <2>2. Len(s) = k
    BY <1>19, <2>1, Entries
  <2>3. QED
    BY <2>1, <2>2 DEF s, Abstract!LastOf
<1>25. Current.ops # <<>> /\ Abstract!LastOf(Current.ops) = mem[top]
  <2>1. PICK from : from = OperandsFrom(mem, ebp)
    OBVIOUS
  <2>2. QED
    BY <1>2, <2>1, CurrentWords
<1>26. Current.ret = mem[ebp - 1][2]
  BY <1>2, CurrentParts
<1>27. StateView' = StateView
  BY <1>2, <1>4 DEF StateView, Running
<1>28. Abstract!End
  BY <1>2, <1>4, <1>7, <1>21, <1>22, <1>23, <1>24, <1>25, <1>26, <1>27 DEF Abstract!End
<1>29. QED
  BY <1>12, <1>28 DEF Abstract!Next

\* The program is over when main ends.
LEMMA FinishImplements ==
  ASSUME IInv, CallsInv, End, mem[ebp][2] = 0
  PROVE  CallsInv' /\ Abstract!Next
<1>1. PICK c, t, n, from : /\ c = mem[ebp][2] /\ t = ebp + 2 + NArgs /\ n = Cardinality(Bases)
                           /\ from = OperandsFrom(mem, ebp)
  OBVIOUS
<1>2. /\ Running /\ NOps >= 1 /\ callee' = <<>> /\ UNCHANGED closures
      /\ Bases = {ebp} /\ mem[ebp - 1][2] \in ReturnsTo(c)
      /\ GlobalsView' = GlobalsView /\ EnteringView' = EnteringView
  BY <1>1, EndWords
<1>3. mem[ebp - 1][2] = 0
  BY <1>1, <1>2 DEF ReturnsTo
<1>4. state' = "stopped" /\ site' = site
  BY <1>3 DEF End, Resume
<1>5. Abstract!Ready /\ Abstract!Top = Current /\ Len(Activations) = n
  BY <1>1, <1>2, RunningView
<1>6. n = 1
  BY <1>1, <1>2, FS_Singleton
<1>7. Activations' = <<>>
  <2>1. Bases' = {}
    BY <1>2, EndBases
  <2>2. Cardinality({}) = 0
    BY FS_EmptySet
  <2>3. DOMAIN Activations' = 1..0 /\ Activations' = [i \in 1..0 |-> Activations'[i]]
    BY <2>1, <2>2 DEF Activations, ActivationsOf
  <2>4. QED
    BY <2>3
<1>8. Current.ops # <<>>
  BY <1>1, <1>2, CurrentWords
<1>9. StateView' = "stopped"
  BY <1>4 DEF StateView
<1>10. Abstract!Finish
  BY <1>2, <1>4, <1>5, <1>6, <1>7, <1>8, <1>9 DEF Abstract!Finish
<1>11. CallsInv'
  BY <1>4 DEF CallsInv
<1>12. QED
  BY <1>10, <1>11 DEF Abstract!Next

-----------------------------------------------------------------------------
(* The refinement.                                                          *)

\* A program starts with the call of main.
LEMMA InitImplements ==
  ASSUME Init
  PROVE  CallsInv /\ Abstract!Init
<1>1. STACK_SIZE \in Nat /\ NGlobals \in Nat /\ STACK_SIZE >= NGlobals + 5
  BY StackAssumption
<1> DEFINE ret == STACK_SIZE - NGlobals - 4
           args == {STACK_SIZE - NGlobals - 1, STACK_SIZE - NGlobals - 2}
<1>2. /\ mem = [k \in 0..STACK_SIZE |-> IF k \in args THEN val(-1)
                                        ELSE IF k = ret THEN addr(0) ELSE ptr(0)]
      /\ top = ret /\ callee # <<>> /\ Len(callee) = 1 /\ callee[1].fun = Main
      /\ closures = <<>> /\ site = 0 /\ state = "running"
  BY DEF Init
<1>3. Bases = {}
  BY InitBases
<1>4. Cardinality(Bases) = 0 /\ IsFiniteSet(Bases)
  BY <1>3, FS_EmptySet
<1>5. CallsInv
  BY <1>3, <1>4 DEF CallsInv, Ordered
<1>6. Activations = <<>>
  BY <1>4 DEF Activations, ActivationsOf
<1>7. EnteringView = <<[fun |-> Main, args |-> <<Abstract!val(-1), Abstract!val(-1)>>,
                        self |-> Abstract!Null, ret |-> 0]>>
  <2>1. mem[top][2] = 0 /\ Plain(mem[top + 1]) = ptr(0)
    <3>1. top \in 0..STACK_SIZE /\ top + 1 \in 0..STACK_SIZE /\ top \notin args
          /\ top + 1 \notin args /\ top + 1 # ret
      BY <1>1, <1>2
    <3>2. mem[top] = addr(0) /\ mem[top + 1] = ptr(0)
      BY <1>2, <3>1
    <3>3. QED
      BY <3>2 DEF Plain, addr
  <2>2. Above(mem, 2, top + 1) = <<val(-1), val(-1)>>
    <3>1. \A k \in 1..2 : top + 1 + k \in 0..STACK_SIZE /\ top + 1 + k \in args
      BY <1>1, <1>2
    <3>2. \A k \in 1..2 : mem[top + 1 + k] = val(-1)
      BY <1>2, <3>1
    <3>3. Above(mem, 2, top + 1) = [k \in 1..2 |-> val(-1)]
      BY <3>2 DEF Above
    <3>4. <<val(-1), val(-1)>> = [k \in 1..2 |-> val(-1)]
      OBVIOUS
    <3>5. QED
      BY <3>3, <3>4
  <2>3. Main.args = 2
    BY FunsAssumption
  <2>4. QED
    BY <1>2, <2>1, <2>2, <2>3
    DEF EnteringView, Abstract!Null, Abstract!ptr, ptr, Abstract!val, val
<1>8. GlobalsView = [k \in 1..NGlobals |-> Abstract!Null]
  <2>1. ASSUME NEW k \in 1..NGlobals
        PROVE  mem[GlobalPos(k - 1)] = ptr(0)
    <3>1. GlobalPos(k - 1) \in 0..STACK_SIZE /\ GlobalPos(k - 1) \notin args
          /\ GlobalPos(k - 1) # ret
      BY <1>1 DEF GlobalPos
    <3>2. QED
      BY <1>2, <3>1
  <2>2. QED
    BY <2>1 DEF GlobalsView, Abstract!Null, Abstract!ptr, ptr
<1>9. StateView = "running"
  BY <1>2 DEF StateView
<1>10. Abstract!Init
  BY <1>2, <1>6, <1>7, <1>8, <1>9 DEF Abstract!Init
<1>11. QED
  BY <1>5, <1>10

\* Every step of a compiled program is one of the calls it means, or none.
LEMMA NextImplements ==
  ASSUME Compiled, IInv, CallsInv, IInv', [Next]_vars
  PROVE  CallsInv' /\ [Abstract!Next]_(Abstract!vars)
<1>1. CASE Const
  BY <1>1, ConstImplements
<1>2. CASE Drop
  BY <1>2, DropImplements
<1>3. CASE Dup
  BY <1>3, DupImplements
<1>4. CASE Swap
  BY <1>4, SwapImplements
<1>5. CASE Load
  BY <1>5, LoadImplements
<1>6. CASE Store
  BY <1>6, StoreImplements
<1>7. CASE LoadCaptured
  BY <1>7, LoadCapturedImplements
<1>8. CASE StoreCaptured
  BY <1>8, StoreCapturedImplements
<1>9. CASE MakeClosure
  BY <1>9, MakeClosureImplements
<1>10. CASE Call
  BY <1>10, CallImplements
<1>11. CASE CallClosure
  BY <1>11, CallClosureImplements
<1>12. CASE Begin
  BY <1>12, BeginImplements
<1>13. CASE End
  BY <1>13, ReturnImplements, FinishImplements
<1>14. CASE UNCHANGED vars
  <2>1. /\ mem' = mem /\ top' = top /\ callee' = callee /\ closures' = closures
        /\ site' = site /\ state' = state
    BY <1>14 DEF vars
  <2>2. CallsInv'
    BY <2>1 DEF CallsInv, Bases
  <2>3. UNCHANGED Abstract!vars
    BY <2>1 DEF Abstract!vars, Activations, OpsEnd, Bases, EnteringView, GlobalsView, StateView
  <2>4. QED
    BY <2>2, <2>3
<1>15. QED
  BY <1>1, <1>2, <1>3, <1>4, <1>5, <1>6, <1>7, <1>8, <1>9, <1>10, <1>11, <1>12,
     <1>13, <1>14 DEF Next

\* The frames a compiled program keeps in the operand stack (main.c:179-394) mean
\* calls: at any depth, each activation has its own arguments, locals and
\* operands, and a call changes those of its caller only by the arguments it
\* takes and the result it leaves.
THEOREM CallsImplemented ==
  ASSUME Compiled
  PROVE  Spec => ImplementsCalls
<1>1. Init => CallsInv /\ Abstract!Init
  BY InitImplements
<1>2. IInv /\ CallsInv /\ IInv' /\ [Next]_vars => CallsInv' /\ [Abstract!Next]_(Abstract!vars)
  BY NextImplements
<1>3. Spec => []IInv
  BY FramesSound
<1>4. QED
  BY <1>1, <1>2, <1>3, PTL DEF Spec, ImplementsCalls, Abstract!Spec
=============================================================================
