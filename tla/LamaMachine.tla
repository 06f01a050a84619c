----------------------------- MODULE LamaMachine -----------------------------
(***************************************************************************)
(* What the instructions of Interp promise: a stack of integers and of     *)
(* names of cells, without words, boxing, addresses or hashes of tags.     *)
(* Where the program applies an instruction to a value it is not meant     *)
(* for, the result is only known to be an integer.                         *)
(***************************************************************************)
EXTENDS Integers, Sequences

CONSTANTS
  Int1(_),                  \* the integer a result that is too large becomes
  Char(_),                  \* the character an integer becomes in a string
  Result(_, _, _),          \* of an operator and two integers
  Ops, Divides(_), Consts, Inputs, Texts, Codes, Sizes,
  Named(_),                 \* the name a tag has
  NameFails(_), Tags,
  Starts                    \* stacks with cells

VARIABLES stack, cells, effect, state

vars == <<stack, cells, effect, state>>

int(n) == <<"int", n>>
ref(k) == <<"ref", k>>
char(c) == <<"char", c>>
Chars(t) == [i \in DOMAIN t |-> char(t[i])]
IsInt(v) == v[1] = "int"
IsRef(v) == v[1] = "ref"
Truth(b) == int(IF b THEN 1 ELSE 0)

Init == /\ [stack |-> stack, cells |-> cells] \in Starts
        /\ effect = <<>> /\ state = "running"

-----------------------------------------------------------------------------
Top(i) == stack[Len(stack) - i]
Dropped(n) == SubSeq(stack, 1, Len(stack) - n)
Has(n) == state = "running" /\ Len(stack) >= n

Is(v, type) == IsRef(v) /\ cells[v[2]].type = type
Members(v) == cells[v[2]].members

Becomes(s, c, e) == stack' = s /\ cells' = c /\ effect' = e /\ UNCHANGED state
Pushes(s, v) == Becomes(Append(s, v), cells, <<>>)
Makes(s, type, name, members) ==
  Becomes(Append(s, ref(Len(cells) + 1)),
          Append(cells, [type |-> type, name |-> name, members |-> members]), <<>>)
Stops(how) == state' = how /\ effect' = <<>> /\ UNCHANGED <<stack, cells>>

\* Pushes an integer, whichever.
PushesSome(s) ==
  /\ Len(stack') = Len(s) + 1 /\ IsInt(stack'[Len(s) + 1])
  /\ Becomes(Append(s, stack'[Len(s) + 1]), cells, <<>>)

\* The last n values, the deepest first.
LastOf(n) == SubSeq(stack, Len(stack) - n + 1, Len(stack))

-----------------------------------------------------------------------------
\* Two references are compared by the cell they name.
Binop ==
  /\ Has(2) /\ cells' = cells
  /\ LET a == Top(1)
         b == Top(0)
         s == Dropped(2)
     IN  \E op \in Ops :
           IF IsInt(a) /\ IsInt(b)
           THEN IF Divides(op) /\ b[2] = 0 THEN Stops("failed")
                ELSE Pushes(s, int(Int1(Result(op, a[2], b[2]))))
           ELSE IF op \in {"==", "!="} /\ IsRef(a) /\ IsRef(b)
           THEN Pushes(s, Truth((a = b) = (op = "==")))
           ELSE PushesSome(s) \/ (Divides(op) /\ b = int(0) /\ Stops("failed"))

Const  == Has(0) /\ \E n \in Consts : Pushes(stack, int(n))
String == Has(0) /\ \E t \in Texts : Makes(stack, "STRING", <<>>, Chars(t))
Sexp   == Has(0) /\ \E t \in Tags, n \in Sizes :
  /\ n <= Len(stack)
  /\ Makes(Dropped(n), "SEXP", Named(t), LastOf(n))
  /\ ~ NameFails(t)
NoName == Has(0) /\ Stops("failed") /\ \E t \in Tags : NameFails(t)
Array  == Has(0) /\ \E n \in Sizes :
  n <= Len(stack) /\ Makes(Dropped(n), "ARRAY", <<>>, LastOf(n))
NegativeArray == Has(0) /\ Stops("failed")
Closure == Has(0) /\ Len(stack') = Len(stack) + 1 /\ \E code \in Codes, n \in Sizes :
  \E vs \in [1..n -> {stack[i] : i \in DOMAIN stack}] :
    Makes(stack, "CLOSURE", <<code>>, vs)

Drop == Has(1) /\ Becomes(Dropped(1), cells, <<>>)
Dup  == Has(1) /\ Pushes(stack, Top(0))
Swap == Has(2) /\ Becomes(Dropped(2) \o <<Top(0), Top(1)>>, cells, <<>>)

\* Which member an index names, 0 if none: of a closure the captured values,
\* from 1 on, of others from 0 on.
Member(r, index) ==
  LET i == index[2] + (IF Is(r, "CLOSURE") THEN 0 ELSE 1)
  IN  IF IsInt(index) /\ i \in DOMAIN Members(r) THEN i ELSE 0

\* STA on an array with a reference for its index.
FirstIsMeant == IsRef(Top(1)) /\ Is(Top(2), "ARRAY") /\ Members(Top(2)) # <<>>

\* The value itself is stored.  What is left on the stack is not: an integer
\* is doubled and increased, a reference becomes some integer.
Store ==
  /\ Has(3)
  /\ LET v == Top(0)
         c == Top(2)[2]
         s == Dropped(3)
     IN  IF IsInt(Top(2)) THEN Stops(IF IsInt(Top(1)) THEN "failed" ELSE "strayed")
         ELSE IF Member(Top(2), Top(1)) = 0 /\ ~ FirstIsMeant THEN Stops("strayed")
         ELSE LET i == IF FirstIsMeant THEN 1 ELSE Member(Top(2), Top(1))
                  string == Is(Top(2), "STRING")
                  kept   == IF string THEN cells'[c].members[i] ELSE v
              IN  /\ state' = state /\ effect' = <<>>
                  /\ cells' = [cells EXCEPT ![c].members[i] = kept]
                  /\ string /\ IsInt(v) => kept = char(Char(v[2]))
                  /\ Len(stack') = Len(s) + 1
                  /\ stack' = Append(s, IF IsInt(v) THEN int(Int1(2 * v[2] + 1))
                                        ELSE int(stack'[Len(s) + 1][2]))

Elem ==
  /\ Has(2)
  /\ IF IsInt(Top(1)) THEN Stops("failed")
     ELSE LET i == Member(Top(1), Top(0))
          IN  IF i = 0 THEN Stops("strayed")
              ELSE Pushes(Dropped(2), IF Is(Top(1), "STRING") THEN int(Members(Top(1))[i][2])
                                      ELSE Members(Top(1))[i])

\* A reference counts as true.
Jump ==
  /\ Has(1)
  /\ LET zero == Top(0) = int(0)
     IN  \/ Becomes(Dropped(1), cells, <<"CJMPz", zero>>)
         \/ Becomes(Dropped(1), cells, <<"CJMPnz", ~ zero>>)

Fail == Has(0) /\ Stops("failed")

-----------------------------------------------------------------------------
\* Tags agree when their names do.
TestTag == Has(1) /\ cells' = cells /\ \E t \in Tags, n \in Sizes :
  /\ Pushes(Dropped(1), Truth(/\ Is(Top(0), "SEXP")
                                /\ cells[Top(0)[2]].name = Named(t)
                                /\ Len(Members(Top(0))) = n))
  /\ ~ NameFails(t)

\* The operand is left.
TestArray == Has(1) /\ \E n \in Sizes :
  Pushes(stack, Truth(Is(Top(0), "ARRAY") /\ Len(Members(Top(0))) = n))

\* Text up to a character 0.
UpToZero(t) ==
  SubSeq(t, 1, CHOOSE n \in 0..Len(t) : /\ \A i \in 1..n : t[i] # char(0)
                                        /\ n < Len(t) => t[n + 1] = char(0))

\* The pattern is on top of the scrutinee, which has to be a string.
TestString ==
  /\ Has(2)
  /\ LET pattern == Top(0)
         v == Top(1)
     IN  IF IsRef(v) /\ ~ Is(v, "STRING") THEN Stops("failed")
         ELSE IF ~ Is(pattern, "STRING") THEN Pushes(Dropped(2), Truth(FALSE))
         ELSE IF IsInt(v) THEN Stops("strayed")
         ELSE Pushes(Dropped(2), Truth(UpToZero(Members(pattern)) = UpToZero(Members(v))))

TestKind ==
  /\ Has(1)
  /\ \/ \E type \in {"STRING", "ARRAY", "SEXP", "CLOSURE"} :
          Pushes(Dropped(1), Truth(Is(Top(0), type)))
     \/ Pushes(Dropped(1), Truth(IsRef(Top(0))))
     \/ Pushes(Dropped(1), Truth(IsInt(Top(0))))

-----------------------------------------------------------------------------
Read == Has(0) /\ \E n \in Inputs : Pushes(stack, int(Int1(n)))

\* The operand is left.
Write ==
  /\ Has(1)
  /\ IF IsInt(Top(0)) THEN Becomes(stack, cells, <<"write", Top(0)[2]>>)
     ELSE effect' # <<>> /\ effect'[1] = "write" /\ Becomes(stack, cells, effect')

\* A closure counts its code.
Length ==
  /\ Has(1)
  /\ IF IsInt(Top(0)) THEN Stops("failed")
     ELSE Pushes(Dropped(1), int(Int1(Len(Members(Top(0)))
                                      + (IF Is(Top(0), "CLOSURE") THEN 1 ELSE 0))))

\* Some text; the operand is left.
ToText ==
  /\ Has(1)
  /\ Len(cells') = Len(cells) + 1
  /\ Makes(stack, "STRING", <<>>, cells'[Len(cells')].members)

Next == \/ Binop \/ Const \/ String \/ Sexp \/ NoName
        \/ Array \/ NegativeArray \/ Closure
        \/ Drop \/ Dup \/ Swap \/ Store \/ Elem \/ Jump \/ Fail
        \/ TestTag \/ TestArray \/ TestString \/ TestKind
        \/ Read \/ Write \/ Length \/ ToText

Spec == Init /\ [][Next]_vars
=============================================================================
