----------------------------- MODULE FramesView -----------------------------
(***************************************************************************)
(* Frames implements CallStack: the activations are read off the frames in *)
(* the operand stack, from the highest base downwards.                     *)
(***************************************************************************)
EXTENDS FramesInvariant, FiniteSets

\* Code addresses are no values a program can hold; no closure is Null.
Plain(v) == IF v = val(0) THEN ptr(0) ELSE v

\* The n slots below the one at p, downwards, and those above it, upwards.
Below(m, n, p) == [i \in 1..n |-> m[p - i]]
Above(m, n, p) == [i \in 1..n |-> m[p + i]]

\* The activation of the frame at e, whose operands end at lo.
FrameAt(m, lo, e) ==
  LET from == e - 2 - m[e - 2][2]
  IN  [args   |-> Above(m, m[e + 1][2], e + 2),
       self   |-> Plain(m[e + 2]),
       ret    |-> m[e - 1][2],
       locals |-> Below(m, m[e - 2][2], e - 2),
       ops    |-> Below(m, from - lo, from)]

\* The base of frame i, that of main being the first and highest one.
Rank(bases, e) == Cardinality({d \in bases : d >= e})
BaseAt(bases, i) == CHOOSE e \in bases : Rank(bases, e) = i

\* The slot above the arguments of the frame at e: the operands of its caller
\* end there.
AboveArgs(m, e) == e + 3 + m[e + 1][2]

\* The activations of the frames at these bases; the operands of the last one
\* end at lo.
ActivationsOf(m, lo, bases) ==
  LET n == Cardinality(bases)
      base == [i \in 1..n |-> BaseAt(bases, i)]
  IN  [i \in 1..n |-> FrameAt(m, IF i = n THEN lo ELSE AboveArgs(m, base[i + 1]), base[i])]

\* ... which is the top, or above the arguments of the call that is being made.
OpsEnd == IF callee = <<>> THEN top ELSE top + 2 + callee[1].fun.args
Activations == ActivationsOf(mem, OpsEnd, Bases)

EnteringView ==
  IF callee = <<>> THEN <<>>
  ELSE <<[fun  |-> callee[1].fun,
          args |-> Above(mem, callee[1].fun.args, top + 1),
          self |-> Plain(mem[top + 1]),
          ret  |-> mem[top][2]]>>

GlobalsView == [k \in 1..NGlobals |-> mem[GlobalPos(k - 1)]]
StateView == IF state = "running" THEN "running" ELSE "stopped"

Abstract == INSTANCE CallStack WITH
  frames   <- Activations,
  entering <- EnteringView,
  globals  <- GlobalsView,
  state    <- StateView

\* The frames BEGIN and END keep in the operand stack (main.c:283-321) mean
\* calls: each activation has its own arguments, locals and operands, and
\* nothing but the result of a call changes those of the caller.
ImplementsCalls == Abstract!Spec
=============================================================================
