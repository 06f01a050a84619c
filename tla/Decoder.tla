------------------------------- MODULE Decoder -------------------------------
(***************************************************************************)
(* How main.c finds its way through the code: dump_file, and the loop of   *)
(* disassemble, which fetches an instruction, its operands, and the        *)
(* address of the next.  What an instruction does to values is in Interp,  *)
(* to frames in Frames: of the stack, only the return addresses are kept   *)
(* here, of the heap, the code offsets of closures.                        *)
(***************************************************************************)
EXTENDS Bytefile

CONSTANT MaxCalls       \* bound of the model: frames at once

VARIABLES
  ip,
  returns,      \* the return addresses of the frames, 0 for main
  closures,     \* offsets of code closures were made with
  state         \* "reading", "read", "running", "stopped", "failed", or
                \* "strayed" after a read beyond the file

vars == <<bytefile, ip, returns, closures, state>>

Init == InitFile /\ ip = 0 /\ returns = <<>> /\ closures = {} /\ state = "reading"

read_file ==
  /\ state = "reading"
  /\ ReadFile
  /\ IF SizesFit' THEN Unpack /\ state' = "read"
     ELSE state' = "failed" /\ UNCHANGED <<string_ptr, code_ptr, code_end>>
  /\ UNCHANGED <<ip, returns, closures>>

\* The positions of the public symbols named "main".
IsMain(pos) ==
  /\ IsWritten(get_string(pos) + 4)
  /\ \A i \in 1..5 : ByteAt(get_string(pos) + i - 1) = <<109, 97, 105, 110, 0>>[i]
Mains == {i \in 0..(public_symbols_number - 1) : IsMain(public_ptr(2 * i))}
NamesFit == \A i \in 0..(public_symbols_number - 1) : IsString(public_ptr(2 * i))

Ends(how) == state' = how /\ UNCHANGED <<bytefile, ip, returns, closures>>

\* The last one is taken.
dump_file ==
  /\ state = "read"
  /\ IF ~ NamesFit \/ Mains = {} THEN Ends("failed")
     ELSE LET main  == CHOOSE i \in Mains : \A j \in Mains : j <= i
              entry == code_ptr + public_ptr(2 * main + 1)
          IN  IF entry > code_end THEN Ends("failed")
              ELSE /\ ip' = entry
                   /\ returns' = <<0>>
                   /\ state' = "running"
                   /\ UNCHANGED <<bytefile, closures>>

-----------------------------------------------------------------------------
(* Instructions, by the byte of their code.                                 *)

NoOperand ==
  (\h01..\h0d)                                      \* BINOP
  \cup {\h13, \h14} \cup (\h16..\h1b)               \* MISC
  \cup (\h60..\h66) \cup (\h70..\h73)               \* PATT, RT
  \cup (\hf0..\hff)
OneOperand ==
  {\h10, \h11, \h15}                                \* CONST, STRING, JMP
  \cup (\h20..\h23) \cup (\h30..\h33) \cup (\h40..\h43)         \* LD, LDA, ST
  \cup {\h50, \h51, \h55, \h58, \h5a}               \* CJMP, CALLC, ARRAY, LINE
  \cup {\h74}                                       \* Barray
TwoOperands ==
  {\h12, \h52, \h53, \h54, \h56, \h57, \h59}        \* SEXP, BEGIN, CLOSURE, CALL, TAG, FAIL

Valid == NoOperand \cup OneOperand \cup TwoOperands
OperandsOf(op) == IF op \in OneOperand THEN 1 ELSE IF op \in TwoOperands THEN 2 ELSE 0

\* STRING, SEXP and TAG have a position in the string table.
WithString == {\h11, \h12, \h57}

\* LDA and FAIL read their operands and fail.
Failing == (\h30..\h33) \cup {\h59}

Jumping == {\h15, \h16, \h50, \h51, \h54, \h55, \h56} \cup (\hf0..\hff)

-----------------------------------------------------------------------------
(* get_byte and get_int.                                                    *)

Code == ByteAt(ip)

NOperands == OperandsOf(Code)

Arg(i) == IntAt(ip + 1 + 4 * (i - 1))

InBounds(a, n) == code_ptr <= a /\ a + n <= code_end

AfterOperands == ip + 1 + 4 * NOperands

\* code_end is beyond the file: a read can pass the check and find what fread
\* has not written.
Unwritten ==
  /\ InBounds(ip, 1)
  /\ IsWritten(ip) => /\ Code \in Valid
                      /\ InBounds(ip, AfterOperands - ip)
                      /\ ~ IsWritten(AfterOperands - 1)

\* An instruction is there with its operands, and is none that always fails.
Fits ==
  /\ InBounds(ip, 1)
  /\ Code \in Valid \ Failing
  /\ InBounds(ip, AfterOperands - ip)
  /\ Code \in WithString => IsString(Arg(1))

Fetched == state = "running" /\ ~ Unwritten /\ Fits

Fails == state = "running" /\ ~ Unwritten /\ ~ Fits /\ Ends("failed")

Strays == state = "running" /\ Unwritten /\ Ends("strayed")

-----------------------------------------------------------------------------
(* The next instruction.                                                    *)

Goes(address) == ip' = address /\ UNCHANGED <<bytefile, returns, closures, state>>

Plain ==
  /\ Fetched
  /\ Code \notin Jumping
  /\ Goes(AfterOperands)

\* A negative target is not refused here.
MI_JMP ==
  /\ Fetched /\ Code = \h15
  /\ IF code_ptr + Arg(1) > code_end THEN Ends("failed") ELSE Goes(code_ptr + Arg(1))

\* The operand on the stack decides.
CTRL_CJMP ==
  /\ Fetched /\ Code \in {\h50, \h51}
  /\ \/ Goes(AfterOperands)
     \/ IF Arg(1) < 0 \/ code_ptr + Arg(1) > code_end THEN Ends("failed")
        ELSE Goes(code_ptr + Arg(1))

\* Mutant: the byte is not counted.
AfterCapturesShort(n) == AfterOperands + 4 * n

\* A byte and an int for each captured variable.
AfterCaptures(n) == AfterOperands + 5 * n

CTRL_CLOSURE ==
  /\ Fetched /\ Code = \h54
  /\ LET n == Arg(2)
         next == AfterCaptures(n)
     IN  IF InBounds(ip, next - ip) /\ ~ IsWritten(next - 1) THEN Ends("strayed")
         ELSE IF \/ ~ InBounds(ip, next - ip)
                 \/ \E i \in 1..n : ByteAt(AfterOperands + 5 * (i - 1)) \notin 0..3
         THEN Ends("failed")
         ELSE /\ ip' = next
              /\ closures' = closures \cup {Arg(1)}
              /\ UNCHANGED <<bytefile, returns, state>>

Calls(offset) ==
  /\ Len(returns) < MaxCalls
  /\ ip' = code_ptr + offset
  /\ returns' = Append(returns, AfterOperands)
  /\ UNCHANGED <<bytefile, closures, state>>

CTRL_CALL == Fetched /\ Code = \h56 /\ Calls(Arg(1))

\* What is called is any of the closures, or no closure.
CTRL_CALLC ==
  /\ Fetched /\ Code = \h55
  /\ Ends("failed") \/ \E offset \in closures : Calls(offset)

MI_END ==
  /\ Fetched /\ Code = \h16
  /\ LET return_address == Last(returns)
     IN  IF return_address = 0 THEN Ends("stopped")
         ELSE IF return_address < code_ptr \/ return_address > code_end THEN Ends("failed")
         ELSE /\ ip' = return_address
              /\ returns' = Front(returns)
              /\ UNCHANGED <<bytefile, closures, state>>

OP_END == Fetched /\ Code \in \hf0..\hff /\ Ends("stopped")

Next == \/ read_file \/ dump_file \/ Fails \/ Strays \/ Plain \/ MI_JMP \/ CTRL_CJMP
        \/ CTRL_CLOSURE \/ CTRL_CALL \/ CTRL_CALLC \/ MI_END \/ OP_END

Spec == Init /\ [][Next]_vars
=============================================================================
