------------------------------ MODULE MCFrames ------------------------------
(***************************************************************************)
(* Small instances of Frames for TLC.                                      *)
(***************************************************************************)
EXTENDS FramesView

\* Slots above the top are never read: two states that differ there are one.
MCView == <<[k \in top..STACK_SIZE |-> mem[k]], top, callee, closures, site, state>>

\* The value locals begin with.
MCData == {-1}

MCMain == [args |-> 2, locals |-> 0]
MCMainOnly == {MCMain}

MCFuns == {MCMain, [args |-> 1, locals |-> 1]}
=============================================================================
