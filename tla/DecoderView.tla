----------------------------- MODULE DecoderView -----------------------------
(***************************************************************************)
(* Decoder implements Bytecode: an address is the instruction that begins  *)
(* there.                                                                  *)
(***************************************************************************)
EXTENDS Decoder

-----------------------------------------------------------------------------
(* What a program is.                                                       *)

Byte == 0..255
MaxInt == 2147483647
Int32 == (-MaxInt - 1)..MaxInt

\* The numbers an instruction has in the file, and the code of one that has as
\* many as it needs.
Numbers(instr) == Len(instr.target) + Len(instr.operands)
Whole(instr) == Numbers(instr) = OperandsOf(instr.op)

\* The position in the string table is one.
Named(p, instr) == instr.op \in WithString => instr.operands[1] \in 0..(Len(p.strings) - 1)

Refers(instr) == Len(instr.target) = 1
Calling(p, instr) == Refers(instr) /\ instr.target[1] \in DOMAIN p.code

\* The captured variables are as many as the operand says, of the four kinds.
Counted(instr) == Len(instr.operands) = 1 /\ instr.operands[1] = Len(instr.captured)
Captures(instr) == \A i \in DOMAIN instr.captured : instr.captured[i][1] \in 0..3

Complete(instr) == Whole(instr) /\ instr.captured = <<>>

\* The code and the operands a kind of instruction has.  Only the last one may
\* be cut: what it misses is less than the 12 bytes code_end is beyond the file.
IsOfKind(p, k) ==
  LET instr == p.code[k]
      op == instr.op
      last == k = Len(p.code) /\ instr.captured = <<>>
  IN  \/ /\ instr.kind = "plain" /\ op \in Valid \ (Jumping \cup Failing)
         /\ Complete(instr) /\ instr.target = <<>> /\ Named(p, instr)
      \/ instr.kind = "jump" /\ op = \h15 /\ Complete(instr) /\ Refers(instr)
      \/ instr.kind = "branch" /\ op \in {\h50, \h51} /\ Complete(instr) /\ Refers(instr)
      \/ instr.kind = "call" /\ op = \h56 /\ Complete(instr) /\ Calling(p, instr)
      \/ instr.kind = "callc" /\ op = \h55 /\ Complete(instr)
      \/ /\ instr.kind = "closure" /\ op = \h54
         /\ Calling(p, instr) /\ Counted(instr) /\ Captures(instr)
      \/ instr.kind = "return" /\ op = \h16 /\ Complete(instr)
      \/ instr.kind = "stop" /\ op \in \hf0..\hff /\ Complete(instr)
      \/ /\ instr.kind = "failure"
         /\ \/ op \notin Valid
            \/ op \in Failing /\ Whole(instr)
            \/ Complete(instr) /\ instr.target = <<>> /\ ~ Named(p, instr)
            \/ op = \h54 /\ Refers(instr) /\ Counted(instr) /\ ~ Captures(instr)
            \/ op = \h54 /\ Refers(instr) /\ Whole(instr) /\ last /\ 5 * instr.operands[1] > 12
      \/ /\ instr.kind = "cut" /\ op \in Valid /\ last
         /\ \/ Numbers(instr) < OperandsOf(op)
            \/ op = \h54 /\ Refers(instr) /\ Whole(instr) /\ instr.operands[1] \in 1..2

IsCode(p) ==
  /\ p.code \in Seq([kind : STRING, op : Byte, target : Seq(0..(Len(p.code) + 1)),
                     operands : Seq(Int32), captured : Seq(Byte \X Int32)])
  /\ \A k \in DOMAIN p.code : IsOfKind(p, k)
  /\ OffsetIn(p.code, Len(p.code) + 1) \in Int32

\* The text that begins at a position of the string table.
IsText(p, pos, text) ==
  pos + Len(text) <= Len(p.strings) /\ \A i \in 1..Len(text) : p.strings[pos + i] = text[i]

\* "main" is the name at p.main.
IsTable(p) ==
  /\ p.strings \in Seq(Byte) /\ p.strings # <<>> /\ Last(p.strings) = 0
  /\ p.publics \in Seq([name : 0..(Len(p.strings) - 1), entry : DOMAIN p.code])
  /\ Len(p.strings) \in Int32 /\ Len(p.publics) \in Int32
  /\ \A i \in DOMAIN p.publics :
       IsText(p, p.publics[i].name, <<109, 97, 105, 110, 0>>) <=> p.publics[i].name = p.main

\* The sizes are those of the file.
Loads(p) == p.sizes[1] = Len(p.strings) /\ p.sizes[3] = Len(p.publics)

\* The sizes are right, or the file has no room for them.
IsFile(p) ==
  /\ p.sizes \in Seq(Int32) /\ Len(p.sizes) = 3
  /\ \/ Loads(p)
     \/ p.sizes[1] < 0
     \/ p.sizes[3] < 0
     \/ 8 * p.sizes[3] + p.sizes[1] > 3 * 4 + 8 * Len(p.publics) + Len(p.strings)
                                      + OffsetIn(p.code, Len(p.code) + 1)

ASSUME ProgramsAssumption == \A p \in Programs : IsCode(p) /\ IsTable(p) /\ IsFile(p)

-----------------------------------------------------------------------------
(* The mapping.                                                             *)

\* 0 where no instruction begins, nor the code ends.
InstrIn(code, offset) ==
  LET ks == {k \in 1..(Len(code) + 1) : OffsetIn(code, k) = offset}
  IN  IF ks = {} THEN 0 ELSE CHOOSE k \in ks : TRUE

\* An address is 0 before there is code, and in the frame of main.
InstrAt(address) == IF address = 0 THEN 0 ELSE InstrIn(program.code, address - code_ptr)

Publics(p) == {i \in DOMAIN p.publics : p.publics[i].name = p.main}

\* The last "main" is where it starts.
Main(p) ==
  IF Publics(p) = {} THEN 0
  ELSE p.publics[CHOOSE i \in Publics(p) : \A j \in Publics(p) : j <= i].entry

Abstract == INSTANCE Bytecode WITH
  Loads <- Loads,
  Main <- Main,
  pc <- InstrAt(ip),
  returns <- [i \in DOMAIN returns |-> InstrAt(returns[i])],
  closures <- {InstrIn(program.code, offset) : offset \in closures}

\* main.c:504-991 with 417-433: operands of every instruction are passed over
\* whole, jumps and calls go to where an instruction begins, and END returns
\* behind the call.
ImplementsBytecode == Abstract!Spec
=============================================================================
