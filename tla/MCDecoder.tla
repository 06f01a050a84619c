------------------------------ MODULE MCDecoder ------------------------------
(***************************************************************************)
(* Programs for TLC: a main and a function, of a few instructions each.    *)
(***************************************************************************)
EXTENDS DecoderView

Instr(kind, op, target, operands, captured) ==
  [kind |-> kind, op |-> op, target |-> target, operands |-> operands, captured |-> captured]
Simple(kind, op, operands) == Instr(kind, op, <<>>, operands, <<>>)

\* "f" and "main".
Strings == <<102, 0, 109, 97, 105, 110, 0>>

Program(code, publics, sizes) ==
  [code |-> code, strings |-> Strings, publics |-> publics, sizes |-> sizes, main |-> 2]
Public(name, entry) == [name |-> name, entry |-> entry]

Begin == Simple("plain", \h52, <<2, 0>>)
CBegin == Simple("plain", \h53, <<-1, 300>>)
End == Simple("return", \h16, <<>>)

-----------------------------------------------------------------------------
(* Every code, between a BEGIN and an END.                                  *)

Operators == {Simple("plain", op, <<>>) :
  op \in (1..13) \cup {\h13, \h14} \cup (\h17..\h1b) \cup (\h60..\h66) \cup (\h70..\h73)}
Unary == {Simple("plain", op, <<n>>) :
  op \in {\h10, \h20, \h21, \h22, \h23, \h40, \h41, \h42, \h43, \h58, \h5a, \h74},
  n \in {0, -2, 70000}}
Texts == {Simple(IF pos \in 0..6 THEN "plain" ELSE "failure", op[1], <<pos>> \o op[2]) :
  pos \in {-1, 0, 6, 7}, op \in {<<\h11, <<>>>>, <<\h12, <<2>>>>, <<\h57, <<2>>>>}}
Failures == {Simple("failure", \h59, <<1, 2>>)}
            \cup {Simple("failure", op, <<1>>) : op \in \h30..\h33}
            \cup {Simple("failure", op, <<>>) :
                    op \in {0, 14, 15, \h24, \h34, \h44, \h67, \h75}
                           \cup (\h1c..\h1f) \cup (\h5b..\h5f) \cup (\h80..\hef)}
Stops == {Simple("stop", op, <<>>) : op \in {\hf0, \hff}}

OneEach == {Program(<<Begin, instr, End>>, <<Public(2, 1)>>, <<7, 0, 1>>) :
              instr \in Operators \cup Unary \cup Texts \cup Failures \cup Stops}

-----------------------------------------------------------------------------
(* Control.                                                                 *)

\* In a function of the instructions from first to last, with functions fs.
Controls(first, last, fs) ==
  {Simple("plain", \h5a, <<7>>)}
  \cup {Instr("jump", \h15, <<k>>, <<>>, <<>>) : k \in (first + 1)..last}
  \cup {Instr("branch", \h50, <<k>>, <<>>, <<>>) : k \in (first + 1)..last}
  \cup {Instr("call", \h56, <<k>>, <<1>>, <<>>) : k \in fs}
  \cup {Instr("callc", \h55, <<>>, <<1>>, <<>>)}
  \cup {Instr("closure", \h54, <<k>>, <<Len(captured)>>, captured) :
          k \in fs, captured \in {<<>>, <<<<0, 5>>, <<3, 1>>>>}}

\* A jump to no instruction.
Wild == {Instr(i[1], i[2], <<k>>, <<>>, <<>>) :
           i \in {<<"jump", \h15>>, <<"branch", \h51>>}, k \in {0}}

Bodies(n, first, fs) ==
  [1..n -> Controls(first, first + n + 1, fs) \cup Wild]

Functions(n, m) ==
  {Program(<<Begin>> \o b \o <<End, CBegin>> \o c \o <<End>>,
           <<Public(2, n + 3), Public(2, 1), Public(0, n + 3)>>, <<7, 1, 3>>) :
     b \in Bodies(n, 1, {1, n + 3}), c \in Bodies(m, n + 3, {n + 3})}

\* Files that are not fit, and no main.
Unfit == {Program(<<Begin, End>>, publics, sizes) :
            publics \in {<<>>, <<Public(0, 1)>>},
            sizes \in {<<7, 0, -1>>, <<-1, 0, 1>>, <<80, 0, 0>>}}
NoMain == {Program(<<Begin, End>>, publics, <<7, 0, Len(publics)>>) :
             publics \in {<<>>, <<Public(0, 1)>>}}

\* The code ends at an instruction, or within one; a capture of no kind.
Capturing(kind, n, captured) == Instr(kind, \h54, <<1>>, <<n>>, captured)
Ending == {Program(<<Begin, instr>>, <<Public(2, 1)>>, <<7, 0, 1>>) :
             instr \in {Simple("plain", \h5a, <<1>>), Instr("jump", \h15, <<3>>, <<>>, <<>>),
                       Simple("cut", \h10, <<>>), Simple("cut", \h53, <<1>>),
                       Capturing("cut", 2, <<>>), Capturing("cut", 1, <<>>),
                       Capturing("failure", 3, <<>>), Capturing("failure", 1, <<<<4, 0>>>>)}}

MCPrograms == OneEach \cup Unfit \cup NoMain \cup Ending
              \cup Functions(2, 1) \cup Functions(1, 2)
=============================================================================
