--------------------------- MODULE FramesInvariant ---------------------------
(***************************************************************************)
(* Why the accesses of Frames stay where they belong: the saved words of   *)
(* the frames in the operand stack are a chain, and what a frame uses ends *)
(* where the operands of its caller begin.                                 *)
(***************************************************************************)
EXTENDS Frames

\* The slot above the operands of the frame at e in the memory m, which are
\* below its locals; main is called from below the globals (0).
OperandsFrom(m, e) == IF e = 0 THEN STACK_SIZE - NGlobals ELSE e - 2 - m[e - 2][2]

\* What a frame keeps of the closure it runs: 0 when a function was called.
IsSelf(v) == v = val(0) \/ v[1] = "ptr"

\* A frame whose caller's base is b returns to a site, main to 0.
ReturnsTo(b) == IF b = 0 THEN {0} ELSE Sites

\* The frames at the bases B, each with its saved words in place: its
\* arguments end within the operands of the caller, whose base is saved at
\* e, and no other frame lies between the two.
FramesIn(m, B) ==
  \A e \in B :
    /\ e + 2 < STACK_SIZE - NGlobals
    /\ m[e + 1][2] \in Nat /\ m[e - 2][2] \in Nat /\ OperandsFrom(m, e) >= 1
    /\ IsSelf(m[e + 2])
    /\ m[e][2] \in B \cup {0}
    /\ m[e - 1][2] \in ReturnsTo(m[e][2])
    /\ e + 2 + m[e + 1][2] < OperandsFrom(m, m[e][2])
    /\ \A d \in B : d > e => m[e][2] # 0 /\ d >= m[e][2]

\* ... and the one ebp_index names is the last of them.  The top is among its
\* operands, or the arguments of the call that is being made are.
Chain(m, t, call, B) ==
  LET b == m[STACK_SIZE][2]
  IN  /\ B \subseteq 1..STACK_SIZE /\ FramesIn(m, B)
      /\ b \in B \cup {0} /\ (b = 0 => B = {}) /\ \A e \in B : b <= e
      /\ call = <<>> => b # 0 /\ t <= OperandsFrom(m, b)
      /\ call # <<>> =>
           /\ t + 1 + call[1].fun.args < OperandsFrom(m, b)
           /\ m[t][1] = "addr" /\ m[t][2] \in ReturnsTo(b)
           /\ IsSelf(m[t + 1])

\* The bases of the frames: BEGIN leaves a return address below each of them,
\* and there is none anywhere else but on top of a call that is being made.
BasesFrom(m, t) == {e \in (t + 1)..STACK_SIZE : m[e - 1][1] = "addr"}
BasesOf(m, t, call) == BasesFrom(m, IF call = <<>> THEN t ELSE t + 1)
Bases == BasesOf(mem, top, callee)

\* A word that names a closure names one that was made; no closure has
\* captured a code address.
Named(v, made) == v[1] = "ptr" => v[2] \in 0..Len(made)
WordsNamed(m, made) ==
  /\ \A k \in 0..(STACK_SIZE - 1) : Named(m[k], made)
  /\ \A i \in DOMAIN made : \A j \in DOMAIN made[i].captured :
       Named(made[i].captured[j], made) /\ made[i].captured[j][1] # "addr"

\* Between any two instructions the return addresses in the stack are those of
\* a chain of frames that the saved ebp_index words (main.c:283-321) follow:
\* none reaches into the operands of another, the arguments of a frame are
\* operands of its caller, only main returns to 0; and every reference names a
\* closure made.
LinkedFrames ==
  /\ WordsNamed(mem, closures)
  /\ state = "running" => Chain(mem, top, callee, Bases)
=============================================================================
