------------------------------- MODULE Frames -------------------------------
(***************************************************************************)
(* The operand stack of main.c and the frames BEGIN and END keep in it.    *)
(*                                                                         *)
(* g_stack is one array of words that grows downwards; the word behind its *)
(* last slot is the field ebp_index.  __gc_stack_top is one word below the *)
(* top slot: here top is stack_top_index() and the checks are the ones the *)
(* code makes on the address one word below it.                            *)
(*                                                                         *)
(* Functions are known by their number of arguments and of locals, the two *)
(* operands of BEGIN.  The instructions executed are those a compiler      *)
(* emits: they take operands of the running frame only.  With Compiled     *)
(* FALSE, DROP goes beyond the frame, after which nothing but DROP is      *)
(* modelled, and LD C takes any index.                                     *)
(***************************************************************************)
EXTENDS Integers, Sequences

CONSTANTS Data, Funs, Main, NGlobals, Sites, CaptureSizes,
          STACK_SIZE,
          Compiled,
          MaxClosures, MaxOperands      \* bounds of the model

ASSUME StackAssumption == STACK_SIZE \in Nat /\ NGlobals \in Nat
                          /\ STACK_SIZE >= NGlobals + 5
ASSUME FunsAssumption == Main \in Funs /\ Funs \subseteq [args : Nat, locals : Nat]
                         /\ Main.args = 2
ASSUME DataAssumption == Data \subseteq Int /\ Sites \subseteq Int \ {0}
ASSUME CaptureAssumption == CaptureSizes \subseteq Nat

VARIABLES
  mem,         \* g_stack, slot STACK_SIZE being ebp_index
  top,         \* stack_top_index()
  callee,      \* between CALL or CALLC and BEGIN: the function, and the
               \* operands it was called with in the order they were pushed
  closures,    \* the closures made so far
  site,        \* the return address END went to last
  state        \* "running", "stopped", "failed", or "strayed" after a read
               \* outside of an object

vars == <<mem, top, callee, closures, site, state>>

val(n) == <<"val", n>>        \* a boxed integer
ptr(x) == <<"ptr", x>>        \* a closure, or the word 0
addr(r) == <<"addr", r>>      \* a code address

ebp == mem[STACK_SIZE][2]

\* dump_file: the globals, the two arguments of main, its closure and its
\* return address; the array was all zeros.
Init ==
  LET args == {STACK_SIZE - NGlobals - 1, STACK_SIZE - NGlobals - 2}
      ret  == STACK_SIZE - NGlobals - 4
  IN  /\ mem = [k \in 0..STACK_SIZE |-> IF k \in args THEN val(-1)
                                        ELSE IF k = ret THEN addr(0) ELSE ptr(0)]
      /\ top = ret
      /\ callee = <<[fun |-> Main, pushed |-> <<val(-1), val(-1)>>]>>
      /\ closures = <<>> /\ site = 0 /\ state = "running"

-----------------------------------------------------------------------------
(* operand_push, operand_top and operand_pop.                               *)

\* Mutant: the check looks at the slot itself.
CheckedAtSlot(i) == 0 <= i /\ i - 1 < STACK_SIZE

\* gc_get_stack_top_checked on the address below slot i.
Checked(i) == 0 <= i - 1 /\ i - 1 < STACK_SIZE

Fail == state' = "failed" /\ UNCHANGED <<mem, top, callee>>

\* Pushing as far as slot t turns the slots into those of m; a call is or is
\* no longer under way.
PushesTo(t, m, call) ==
  IF Checked(t)
  THEN mem' = m /\ top' = t /\ callee' = call /\ UNCHANGED state
  ELSE Fail

Push(v) == PushesTo(top - 1, [mem EXCEPT ![top - 1] = v], callee)

-----------------------------------------------------------------------------
(* The frame: [ebp + 3 ..] arguments, [ebp + 2] closure, [ebp + 1] number   *)
(* of arguments, [ebp] old ebp, [ebp - 1] return address, [ebp - 2] number  *)
(* of locals, [ebp - 3 ..] locals downwards, operands.                      *)

NArgs   == mem[ebp + 1][2]
NLocals == mem[ebp - 2][2]
\* Mutants: the number of locals is taken for one; the closure's slot is
\* counted twice.
LocalPosHigh(k) == ebp - 2 - k
ArgPosHigh(k)  == ebp + 4 + k

ArgPos(k)    == ebp + 3 + k
LocalPos(k)  == ebp - 3 - k
GlobalPos(k) == STACK_SIZE - 1 - k
Self == mem[ebp + 2]

\* The operands of the running frame lie between its locals and the top.
NOps == (ebp - 2 - NLocals) - top

Running == state = "running" /\ callee = <<>>
Room == 0 <= NOps /\ NOps < MaxOperands

Const ==
  /\ Running /\ Room
  /\ \E n \in Data : Push(val(n))
  /\ UNCHANGED <<closures, site>>

\* The program of a compiler drops an operand of its frame; any other one
\* may drop whatever there is.
Drop ==
  /\ Running /\ (Compiled => NOps >= 1)
  /\ IF Checked(top) THEN top' = top + 1 /\ UNCHANGED state
     ELSE state' = "failed" /\ UNCHANGED top
  /\ UNCHANGED <<mem, callee, closures, site>>

Dup ==
  /\ Running /\ Room /\ NOps >= 1
  /\ Push(mem[top])
  /\ UNCHANGED <<closures, site>>

Swap ==
  /\ Running /\ NOps >= 2
  /\ mem' = [mem EXCEPT ![top] = mem[top + 1], ![top + 1] = mem[top]]
  /\ UNCHANGED <<top, callee, closures, site, state>>

-----------------------------------------------------------------------------
(* LD and ST.                                                               *)

Positions == {GlobalPos(k) : k \in 0..(NGlobals - 1)}
             \cup {LocalPos(k) : k \in 0..(NLocals - 1)}
             \cup {ArgPos(k) : k \in 0..(NArgs - 1)}

Load ==
  /\ Running /\ Room
  /\ \E p \in Positions : Push(mem[p])
  /\ UNCHANGED <<closures, site>>

Store ==
  /\ Running /\ NOps >= 1
  /\ \E p \in Positions : mem' = [mem EXCEPT ![p] = mem[top]]
  /\ UNCHANGED <<top, callee, closures, site, state>>

InClosure == Self[1] = "ptr" /\ Self # ptr(0)
Captured == IF InClosure THEN closures[Self[2]].captured ELSE <<>>

\* LEN counts the code word too, and the index is compared with LEN.
CapturedLen == Len(Captured) + 1
IndexPasses(k) == k < CapturedLen

\* LD C(k): contents[k + 1], contents[0] being the code.
LoadCaptured ==
  /\ Running /\ Room /\ InClosure
  /\ \E k \in 0..CapturedLen :
       /\ Compiled => k < Len(Captured)
       /\ IF ~ IndexPasses(k) THEN Fail
          ELSE IF k >= Len(Captured)
          THEN state' = "strayed" /\ UNCHANGED <<mem, top, callee>>
          ELSE Push(Captured[k + 1])
  /\ UNCHANGED <<closures, site>>

StoreCaptured ==
  /\ Running /\ InClosure /\ NOps >= 1
  /\ \E k \in 1..Len(Captured) :
       closures' = [closures EXCEPT ![Self[2]].captured[k] = mem[top]]
  /\ UNCHANGED <<mem, top, callee, site, state>>

\* CLOSURE: the captured values are loaded onto the stack in turn, the code
\* goes on top, and Bclosure fills its contents from the deepest one on.
MakeClosure ==
  /\ Running /\ Room /\ Len(closures) < MaxClosures
  /\ \E f \in Funs, n \in CaptureSizes :
       \E vs \in [1..n -> {mem[p] : p \in Positions}
                          \cup {Captured[i] : i \in DOMAIN Captured}] :
         IF Checked(top - n - 1)
         THEN /\ closures' = Append(closures, [fun |-> f, captured |-> vs])
              /\ mem' = [k \in DOMAIN mem |->
                           IF k = top - 1 THEN ptr(Len(closures) + 1)
                           ELSE IF k = top - n - 1 THEN addr(0)
                           ELSE IF k < top /\ k >= top - n THEN vs[top - k]
                           ELSE mem[k]]
              /\ top' = top - 1
              /\ UNCHANGED <<callee, state>>
         ELSE Fail /\ UNCHANGED closures
  /\ UNCHANGED site

-----------------------------------------------------------------------------
(* Calls.                                                                   *)

\* The n operands on top in the order they were pushed.
Pushed(n) == [i \in 1..n |-> mem[top + n - i]]

\* reverse_last_el
Reversed(n) ==
  [k \in DOMAIN mem |-> IF top <= k /\ k < top + n THEN mem[top + (top + n - 1 - k)]
                        ELSE mem[k]]

\* The arguments in reverse order, then no closure, then the return address.
Call ==
  /\ Running
  /\ \E f \in Funs, r \in Sites :
       /\ NOps >= f.args
       /\ PushesTo(top - 2,
                   [Reversed(f.args) EXCEPT ![top - 1] = val(0), ![top - 2] = addr(r)],
                   <<[fun |-> f, pushed |-> Pushed(f.args)]>>)
  /\ UNCHANGED <<closures, site>>

\* callc_function: the n arguments sink by one slot, each from its neighbour
\* above, and the closure that was below them comes to the top.
ClosureOnTop(n) ==
  [k \in DOMAIN mem |-> IF k = top THEN mem[top + n]
                        ELSE IF top < k /\ k <= top + n THEN mem[k - 1]
                        ELSE mem[k]]

CallClosure ==
  /\ Running
  /\ \E n \in 0..(NOps - 1), r \in Sites :
       LET c == mem[top + n]
       IN  /\ c[1] = "ptr" /\ c # ptr(0) /\ closures[c[2]].fun.args = n
           /\ PushesTo(top - 1, [ClosureOnTop(n) EXCEPT ![top - 1] = addr(r)],
                       <<[fun |-> closures[c[2]].fun, pushed |-> Pushed(n)]>>)
  /\ UNCHANGED <<closures, site>>

\* begin_function: the return address gives way to the number of arguments.
Begin ==
  /\ state = "running" /\ callee # <<>>
  /\ LET f == callee[1].fun
         base == top - 1
         frame == [k \in DOMAIN mem |->
                     CASE k = base + 1        -> val(f.args)
                       [] k = base            -> val(ebp)
                       [] k = base - 1        -> mem[top]
                       [] k = base - 2        -> val(f.locals)
                       [] k < base - 2 /\ k >= base - 2 - f.locals -> val(-1)
                       [] k = STACK_SIZE      -> ptr(base)
                       [] OTHER               -> mem[k]]
     IN  PushesTo(base - 2 - f.locals, frame, <<>>)
  /\ UNCHANGED <<closures, site>>

\* The return address 0 is the end of the program.
Resume(ret) ==
  IF ret = 0 THEN state' = "stopped" /\ UNCHANGED site
  ELSE site' = ret /\ UNCHANGED state

\* Mutant: the arguments are counted with one word more.
EndTooFar ==
  /\ Running /\ NOps >= 1
  /\ LET t == ebp + 3 + NArgs
     IN  /\ mem' = [mem EXCEPT ![t] = mem[top], ![STACK_SIZE] = ptr(mem[ebp][2])]
         /\ top' = t
  /\ Resume(mem[ebp - 1][2])
  /\ UNCHANGED <<callee, closures>>

\* end_function: the frame goes, its arguments and closure with it, and the
\* result is pushed.
End ==
  /\ Running /\ NOps >= 1
  /\ LET t == ebp + 2 + NArgs
     IN  /\ mem' = [mem EXCEPT ![t] = mem[top], ![STACK_SIZE] = ptr(mem[ebp][2])]
         /\ top' = t
  /\ Resume(mem[ebp - 1][2])
  /\ UNCHANGED <<callee, closures>>

Next == \/ Const \/ Drop \/ Dup \/ Swap \/ Load \/ Store
        \/ LoadCaptured \/ StoreCaptured \/ MakeClosure
        \/ Call \/ CallClosure \/ Begin \/ End

Spec == Init /\ [][Next]_vars

-----------------------------------------------------------------------------
Value == {"val", "ptr", "addr"} \X Int

\* The stack stays between the two ends gc_get_stack_top_checked guards
\* (main.c:36): slot 0 is never used, an empty stack has its top behind the
\* last slot.
TypeOK ==
  /\ mem \in [0..STACK_SIZE -> Value]
  /\ top \in 1..STACK_SIZE
  /\ callee = <<>> \/ callee \in Seq([fun : Funs, pushed : Seq(Value)])
  /\ closures \in Seq([fun : Funs, captured : Seq(Value)])
  /\ site \in Sites \cup {0}
  /\ state \in {"running", "stopped", "failed", "strayed"}

\* LD and ST reach slots of the stack that are in use, at any depth of calls:
\* never a word above the top, the saved words of the frame or ebp_index.
AccessesStayInFrame ==
  Running =>
    LET saved == {ebp - 2, ebp - 1, ebp, ebp + 1, ebp + 2}
    IN  Positions \subseteq (top..(STACK_SIZE - 1)) \ saved

\* The comment above begin_function (main.c:277): when BEGIN runs the return
\* address is on top of the closure, and below it args[1] comes before
\* args[0], an argument's index being the order it was pushed in.
ShemaBefore ==
  callee # <<>> /\ state = "running" =>
    LET n == callee[1].fun.args
    IN  \A i \in 1..n : mem[top + 1 + i] = callee[1].pushed[n + 1 - i]

\* The comment in main (main.c:1030), and what "stack underflow" reports: the
\* address __gc_stack_top stays below __gc_stack_bottom.
StackTopBelowBottom == top - 1 < STACK_SIZE

\* The failure "closure index out of bounds" (main.c:211): a captured value
\* that is loaded is one of the closure's.
CapturedIndexChecked == state # "strayed"
=============================================================================
