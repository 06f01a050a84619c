------------------------------ MODULE LamaStore ------------------------------
(***************************************************************************)
(* What the runtime promises a Lama program: values live in a store of     *)
(* cells that have names, not addresses; a cell lasts as long as it can be *)
(* reached from the operand stack and nothing the program does not do      *)
(* changes it.  There is no collector here.                                *)
(***************************************************************************)
EXTENDS LamaValues

CONSTANTS Imm, NGlobals, Code, UNBOX(_), Texts,
          ArraySizes, SexpSizes, ClosureSizes

VARIABLES
  cells,     \* name -> [type, contents], for the cells in reach
  stack,     \* the operand stack, the top last
  count,     \* cells made so far; the next one gets the next number
  running

vars == <<cells, stack, count, running>>

Init ==
  /\ cells = <<>>
  /\ stack = [k \in 1..NGlobals |-> raw(0)]
  /\ count = 0
  /\ running = TRUE

-----------------------------------------------------------------------------
SP == Len(stack)
Arg(i) == stack[SP - i]
Dropped(n) == SubSeq(stack, 1, SP - n)

\* A step leaves the stack s, and of the cells "all" those in its reach.
Becomes(all, s) ==
  /\ running
  /\ UNCHANGED <<count, running>>
  /\ stack' = s
  /\ cells' = InReach(all, s)

Const == \E v \in Imm : Becomes(cells, Append(stack, imm(v)))
Load  == \E k \in 1..SP : Becomes(cells, Append(stack, stack[k]))
Store == \E k \in 1..SP : Becomes(cells, [stack EXCEPT ![k] = Arg(0)])
Drop  == SP > NGlobals /\ Becomes(cells, Dropped(1))

\* The members of a cell a program can name.
Members(c) == LET first == IF cells[c].type \in {"SEXP", "CLOSURE"} THEN 2 ELSE 1
              IN  first..Len(cells[c].contents)

Elem ==
  /\ SP >= NGlobals + 2 /\ IsImm(Arg(0)) /\ IsRef(Arg(1))
  /\ LET c == Arg(1)[2]
     IN  \E i \in Members(c) :
           Becomes(cells, Append(Dropped(2), cells[c].contents[i]))

\* A string takes a character only; the result is some integer.
Sta ==
  /\ SP >= NGlobals + 3 /\ IsImm(Arg(1)) /\ IsRef(Arg(2))
  /\ LET c == Arg(2)[2]
         values == IF cells[c].type = "STRING" THEN {imm(v) : v \in Imm} ELSE {Arg(0)}
     IN  \E i \in Members(c), v \in values, w \in Imm :
           Becomes([cells EXCEPT ![c].contents[i] = v], Append(Dropped(3), imm(w)))

\* A new cell goes to the top of the stack s.
New(type, contents, s) ==
  LET c == count + 1
      all == [d \in DOMAIN cells \cup {c} |->
                IF d = c THEN [type |-> type, contents |-> contents] ELSE cells[d]]
  IN  /\ running
      /\ count' = c
      /\ UNCHANGED running
      /\ stack' = Append(s, ref(c))
      /\ cells' = InReach(all, Append(s, ref(c)))

Top(n) == SubSeq(stack, SP - n + 1, SP)

NewArray == \E n \in ArraySizes :
  n <= SP - NGlobals /\ New("ARRAY", Top(n), Dropped(n))
NewSexp == \E n \in SexpSizes, tag \in Imm :
  n <= SP - NGlobals /\ New("SEXP", <<raw(UNBOX(tag))>> \o Top(n), Dropped(n))
NewClosure == \E n \in ClosureSizes, code \in Code :
  n <= SP - NGlobals /\ New("CLOSURE", <<raw(code)>> \o Top(n), Dropped(n))
NewString == \E t \in Texts :
  New("STRING", [i \in DOMAIN t |-> imm(t[i])], stack)
Clone ==
  /\ SP > NGlobals /\ IsRef(Arg(0))
  /\ LET c == cells[Arg(0)[2]] IN New(c.type, c.contents, Dropped(1))

NewZeros == \E n \in ArraySizes, v \in Imm :
  New("ARRAY", [i \in 1..n |-> imm(v)], stack)

IsString(v) == IsRef(v) /\ cells[v[2]].type = "STRING"

\* A part of the string on top, and the first of two strings followed by the
\* second.
Substring ==
  /\ SP >= NGlobals + 3 /\ IsString(Arg(0)) /\ IsImm(Arg(1)) /\ IsImm(Arg(2))
  /\ LET text == cells[Arg(0)[2]].contents
     IN  \E i \in 1..(Len(text) + 1) : \E j \in (i - 1)..Len(text) :
           New("STRING", SubSeq(text, i, j), Dropped(3))
Concat ==
  /\ SP >= NGlobals + 2 /\ IsString(Arg(0)) /\ IsString(Arg(1))
  /\ New("STRING", cells[Arg(0)[2]].contents \o cells[Arg(1)[2]].contents, Dropped(2))

\* The program may end at any time: the runtime has run out of room.
Stop ==
  /\ running /\ running' = FALSE
  /\ UNCHANGED <<cells, stack, count>>

Next == \/ Const \/ Load \/ Store \/ Drop \/ Elem \/ Sta
        \/ NewArray \/ NewSexp \/ NewClosure \/ NewString \/ Clone
        \/ NewZeros \/ Substring \/ Concat
        \/ Stop

Spec == Init /\ [][Next]_vars
=============================================================================
