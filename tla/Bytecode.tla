------------------------------- MODULE Bytecode -------------------------------
(***************************************************************************)
(* What the decoder of main.c promises: a program is run from one of its   *)
(* instructions to the next one, to the one it refers to, or back behind   *)
(* the call.  An instruction is of one of the kinds "plain", "jump",       *)
(* "branch", "closure", "call", "callc", which calls a closure, "return",  *)
(* "stop", "failure", and "cut".                                           *)
(***************************************************************************)
EXTENDS Integers, Sequences

CONSTANTS Loads(_), Main(_)     \* whether a program has a fit file, and its
                                \* first instruction, 0 if none

VARIABLES program, pc, returns, closures, state

vars == <<program, pc, returns, closures, state>>

\* A compiler leaves no call or closure without its function.
IsProgram(p) ==
  /\ Main(p) \in DOMAIN p.code \cup {0}
  /\ \A k \in DOMAIN p.code :
       p.code[k].kind \in {"call", "closure"} => p.code[k].target[1] \in DOMAIN p.code

Init == /\ IsProgram(program) /\ state = "reading"
        /\ pc = 0 /\ returns = <<>> /\ closures = {}

Ends(how) == state' = how /\ UNCHANGED <<program, pc, returns, closures>>

Load == state = "reading" /\ Ends(IF Loads(program) THEN "read" ELSE "failed")

Start ==
  /\ state = "read"
  /\ IF Main(program) = 0 THEN Ends("failed")
     ELSE /\ pc' = Main(program) /\ returns' = <<0>> /\ state' = "running"
          /\ UNCHANGED <<program, closures>>

-----------------------------------------------------------------------------
Instr == program.code[pc]
Kind(kind) == state = "running" /\ pc \in DOMAIN program.code /\ Instr.kind = kind
Target == Instr.target[1]

Goes(k) == pc' = k /\ UNCHANGED <<program, returns, closures, state>>

\* No instruction is there.
Astray ==
  /\ state = "running" /\ pc \notin DOMAIN program.code
  /\ Ends("failed") \/ Ends("strayed")

\* The file ends within the instruction.
Cut == Kind("cut") /\ Ends("strayed")

\* A target that is no instruction is refused now, or when it is fetched.
GoesTo(k) == IF k \in DOMAIN program.code THEN Goes(k) ELSE Ends("failed") \/ Goes(k)

Plain == Kind("plain") /\ Goes(pc + 1)
Jump == Kind("jump") /\ GoesTo(Target)
Branch == Kind("branch") /\ (Goes(pc + 1) \/ GoesTo(Target))
Failure == Kind("failure") /\ Ends("failed")
Stop == Kind("stop") /\ Ends("stopped")

Closure ==
  /\ Kind("closure")
  /\ pc' = pc + 1
  /\ closures' = closures \cup {Target}
  /\ UNCHANGED <<program, returns, state>>

Calls(k) ==
  /\ pc' = k
  /\ returns' = Append(returns, pc + 1)
  /\ UNCHANGED <<program, closures, state>>

Call == Kind("call") /\ Calls(Target)
CallClosure == Kind("callc") /\ (Ends("failed") \/ \E k \in closures : Calls(k))

Return ==
  /\ Kind("return")
  /\ LET k == returns[Len(returns)]
     IN  IF k = 0 THEN Ends("stopped")
         ELSE /\ pc' = k
              /\ returns' = SubSeq(returns, 1, Len(returns) - 1)
              /\ UNCHANGED <<program, closures, state>>

Next == \/ Load \/ Start \/ Astray \/ Cut \/ Plain \/ Jump \/ Branch
        \/ Failure \/ Stop \/ Closure \/ Call \/ CallClosure \/ Return

Spec == Init /\ [][Next]_vars
=============================================================================
