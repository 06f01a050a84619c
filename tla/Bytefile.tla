------------------------------- MODULE Bytefile -------------------------------
(***************************************************************************)
(* A bytecode file, and read_file of main.c, which reads it into memory.   *)
(* Addresses count the bytes from the beginning of the struct bytefile.    *)
(*                                                                         *)
(* The file is what a compiler has made of a program: the sizes, the table *)
(* of public symbols, the string table and the code.  A program is a       *)
(* sequence of instructions; an instruction has the byte of its code, the  *)
(* number of the instruction it refers to (0 is no instruction, and so is  *)
(* one beyond the last), its other operands, and the variables a closure   *)
(* captures.                                                               *)
(***************************************************************************)
EXTENDS Integers, SequencesExt

CONSTANT Programs

VARIABLES
  program,
  allocated,        \* the size of the block malloc gave
  contents,         \* the bytes fread has written, from stringtab_size on
  string_ptr, code_ptr, code_end

bytefile == <<program, allocated, contents, string_ptr, code_ptr, code_end>>

-----------------------------------------------------------------------------
(* The file.                                                                *)

\* Four bytes, the lowest first.
Bytes(n) ==
  LET second == n \div 256
      third  == second \div 256
      fourth == third \div 256
  IN  <<n % 256, second % 256, third % 256, fourth % 256>>

SizeOf(instr) == 1 + 4 * (Len(instr.target) + Len(instr.operands)) + 5 * Len(instr.captured)

\* Where an instruction of the code begins.
OffsetIn(code, k) ==
  LET offset[n \in Nat] == IF n <= 1 THEN 0 ELSE offset[n - 1] + SizeOf(code[n - 1])
  IN  IF k = 0 THEN -1 ELSE offset[k]

Assembled(code, instr) ==
  <<instr.op>>
  \o FlattenSeq([i \in DOMAIN instr.target |-> Bytes(OffsetIn(code, instr.target[i]))])
  \o FlattenSeq([i \in DOMAIN instr.operands |-> Bytes(instr.operands[i])])
  \o FlattenSeq([i \in DOMAIN instr.captured |->
                   <<instr.captured[i][1]>> \o Bytes(instr.captured[i][2])])

PublicSymbol(p, symbol) == Bytes(symbol.name) \o Bytes(OffsetIn(p.code, symbol.entry))

File(p) ==
  FlattenSeq([i \in DOMAIN p.sizes |-> Bytes(p.sizes[i])])
  \o FlattenSeq([i \in DOMAIN p.publics |-> PublicSymbol(p, p.publics[i])])
  \o p.strings
  \o FlattenSeq([k \in DOMAIN p.code |-> Assembled(p.code, p.code[k])])

-----------------------------------------------------------------------------
(* Memory.                                                                  *)

\* Five pointers are before stringtab_size, three integers before buffer.
SizesAt == 5 * 8
BufferAt == SizesAt + 3 * 4

\* What is beyond the file is in the hands of malloc.
IsWritten(a) == a - SizesAt + 1 \in DOMAIN contents

ByteAt(a) == contents[a - SizesAt + 1]

\* An int of two's complement.
IntAt(a) ==
  LET low  == ByteAt(a) + 256 * ByteAt(a + 1)
      high == ByteAt(a + 3)
  IN  low + 256 * 256 * (ByteAt(a + 2) + 256 * (IF high < 128 THEN high ELSE high - 256))

stringtab_size == IntAt(SizesAt)
public_symbols_number == IntAt(SizesAt + 8)

\* f->public_ptr[i]
public_ptr(i) == IntAt(BufferAt + 4 * i)

-----------------------------------------------------------------------------
(* read_file.                                                               *)

InitFile ==
  /\ program \in Programs
  /\ allocated = 0 /\ contents = <<>>
  /\ string_ptr = 0 /\ code_ptr = 0 /\ code_end = 0

ReadFile ==
  /\ allocated' = 4 * 4 + Len(File(program))
  /\ contents' = File(program)
  /\ UNCHANGED program

SizesFit ==
  /\ public_symbols_number >= 0
  /\ stringtab_size >= 0
  /\ 8 * public_symbols_number + stringtab_size <= Len(contents)

\* All of them for the contents just read.
Unpack ==
  /\ string_ptr' = BufferAt + 8 * public_symbols_number'
  /\ code_ptr' = string_ptr' + stringtab_size'
  /\ code_end' = code_ptr' + Len(contents') - (stringtab_size' + 8 * public_symbols_number')

\* get_string: a position in the string table.
IsString(pos) == pos \in 0..(stringtab_size - 1)
get_string(pos) == string_ptr + pos

-----------------------------------------------------------------------------
\* main.c:396: the block is to hold "the unpacked representation of bytecode
\* file", which is the struct with all of the file in it.
FileFitsBlock == contents # <<>> => SizesAt + Len(contents) <= allocated
=============================================================================
