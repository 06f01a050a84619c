------------------------------ MODULE CallStack ------------------------------
(***************************************************************************)
(* What calls mean in a Lama bytecode program: a stack of activations,     *)
(* each with its own arguments, locals and operands.  An activation sees   *)
(* nothing of another one but the result it returns.                       *)
(***************************************************************************)
EXTENDS Integers, Sequences

CONSTANTS Data,       \* integers the program computes with
          Funs,       \* its functions: number of arguments and of locals
          Main,       \* the function the program starts with
          NGlobals,
          Sites,      \* return addresses
          CaptureSizes

VARIABLES
  frames,      \* activations, the running one last
  entering,    \* between a call and the BEGIN of the callee
  globals,
  closures,    \* the closures made so far: function and captured values
  site,        \* the site the program came back to last
  state        \* "running", "stopped"

vars == <<frames, entering, globals, closures, site, state>>

val(n) == <<"val", n>>
ptr(x) == <<"ptr", x>>        \* closure number x; 0 is no closure
Null == ptr(0)

Activation(call) ==
  [args |-> call.args, self |-> call.self, ret |-> call.ret, ops |-> <<>>,
   locals |-> [i \in 1..call.fun.locals |-> val(-1)]]

\* The command line never gets to main: its two arguments are -1.
Init ==
  /\ frames = <<>>
  /\ entering = <<[fun |-> Main, args |-> <<val(-1), val(-1)>>, self |-> Null, ret |-> 0]>>
  /\ globals = [k \in 1..NGlobals |-> Null]
  /\ closures = <<>>
  /\ site = 0
  /\ state = "running"

-----------------------------------------------------------------------------
Ready == state = "running" /\ entering = <<>>
LastOf(s) == s[Len(s)]
Kept(s, n) == SubSeq(s, 1, Len(s) - n)
Last(s, n) == SubSeq(s, Len(s) - n + 1, Len(s))
Reversed(s) == [i \in DOMAIN s |-> s[Len(s) + 1 - i]]
Values(s) == {s[k] : k \in DOMAIN s}

\* What the activation a can load: a global, a local, an argument or a value that
\* its closure has captured.
Captured(a) == IF a.self = Null THEN <<>> ELSE closures[a.self[2]].captured
Visible(a) == Values(globals) \cup Values(a.locals) \cup Values(a.args) \cup Values(Captured(a))

Pushed(a, v) == [a EXCEPT !.ops = Append(@, v)]
Popped(a, n) == [a EXCEPT !.ops = Kept(@, n)]
Swapped(a) == [a EXCEPT !.ops = Kept(@, 2) \o Reversed(Last(@, 2))]

\* What it may be after an instruction on its own words: CONST and LD push a
\* value, DUP, DROP and SWAP need operands, ST to a local or an argument keeps
\* its operand.
After(a) ==
  LET n == Len(a.ops)
      pushes == {Pushed(a, v) : v \in {val(d) : d \in Data} \cup Visible(a)}
      stores == {[a EXCEPT !.locals[k] = LastOf(a.ops)] : k \in DOMAIN a.locals}
                \cup {[a EXCEPT !.args[k] = LastOf(a.ops)] : k \in DOMAIN a.args}
  IN  pushes
      \cup (IF n < 1 THEN {} ELSE stores \cup {Pushed(a, LastOf(a.ops)), Popped(a, 1)})
      \cup (IF n < 2 THEN {} ELSE {Swapped(a)})

\* The running activation becomes one of these.
WithLast(s, activations) == {[s EXCEPT ![Len(s)] = a] : a \in activations}

Operate == Ready /\ UNCHANGED <<entering, globals, closures, site, state>>
  /\ frames' \in WithLast(frames, After(LastOf(frames)))

\* ST to a global or to a captured value.
Top == LastOf(frames)
StoreGlobal == Ready /\ Top.ops # <<>>
  /\ UNCHANGED <<entering, closures, site, state, frames>>
  /\ \E k \in DOMAIN globals : globals' = [globals EXCEPT ![k] = LastOf(Top.ops)]
StoreCaptured == Ready /\ Top.ops # <<>>
  /\ UNCHANGED <<entering, globals, site, state, frames>>
  /\ \E k \in DOMAIN Captured(Top) :
       closures' = [closures EXCEPT ![Top.self[2]].captured[k] = LastOf(Top.ops)]

\* CLOSURE captures values in the order the instruction lists them.
MakeClosure == Ready
  /\ UNCHANGED <<entering, globals, site, state>>
  /\ Len(closures') = Len(closures) + 1
  /\ frames' \in WithLast(frames, {Pushed(Top, ptr(Len(closures) + 1))})
  /\ \E f \in Funs, n \in CaptureSizes : \E vs \in [1..n -> Visible(Top)] :
       closures' = Append(closures, [fun |-> f, captured |-> vs])

\* CALL gives the callee its arguments in the order they were pushed.
Call == Ready /\ Len(entering') = 1
  /\ UNCHANGED <<globals, closures, site, state>>
  /\ \E f \in Funs, r \in Sites :
       /\ Len(Top.ops) >= f.args
       /\ entering' = <<[fun |-> f, args |-> Last(Top.ops, f.args), self |-> Null, ret |-> r]>>
       /\ frames' \in WithLast(frames, {Popped(Top, f.args)})

\* CALLC finds the closure below the arguments, and the callee gets them in
\* the opposite order.
CallClosure == Ready /\ Len(entering') = 1
  /\ UNCHANGED <<globals, closures, site, state>>
  /\ \E n \in 0..(Len(Top.ops) - 1), r \in Sites :
       LET c == Top.ops[Len(Top.ops) - n]
       IN  /\ c[1] = "ptr" /\ c # Null /\ closures[c[2]].fun.args = n
           /\ entering' = <<[fun |-> closures[c[2]].fun,
                             args |-> Reversed(Last(Top.ops, n)), self |-> c, ret |-> r]>>
           /\ frames' \in WithLast(frames, {Popped(Top, n + 1)})

Begin ==
  /\ state = "running" /\ entering # <<>>
  /\ frames' = Append(frames, Activation(entering[1]))
  /\ entering' = <<>>
  /\ UNCHANGED <<globals, closures, site, state>>

\* The last operand is the result; it joins the operands of the caller.
End == Ready /\ Top.ops # <<>> /\ Len(frames) > 1
  /\ frames' \in WithLast(Kept(frames, 1), {Pushed(LastOf(Kept(frames, 1)), LastOf(Top.ops))})
  /\ site' = Top.ret
  /\ UNCHANGED <<entering, globals, closures, state>>

\* The program is over when main ends.
Finish == Ready /\ Top.ops # <<>> /\ Len(frames) = 1
  /\ frames' = <<>>
  /\ state' = "stopped"
  /\ UNCHANGED <<entering, globals, closures, site>>

\* It may also run out of stack.
Halt ==
  /\ state = "running" /\ state' = "stopped"
  /\ UNCHANGED <<frames, entering, globals, closures, site>>

Next == \/ Operate \/ StoreGlobal \/ StoreCaptured \/ MakeClosure
        \/ Call \/ CallClosure \/ Begin \/ End \/ Finish \/ Halt

Spec == Init /\ [][Next]_vars
=============================================================================
