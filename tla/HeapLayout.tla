----------------------------- MODULE HeapLayout -----------------------------
(***************************************************************************)
(* How a Lama value looks to the garbage collector (runtime_common.h, and  *)
(* the size and field helpers at the end of gc.c).                         *)
(*                                                                         *)
(* An address is an integer that counts machine words.  A word of memory   *)
(* is an immediate, an element of Imm (a boxed integer: its low bit is 1), *)
(* or an integer: a heap address, or a raw word such as 0 or a code        *)
(* offset.                                                                 *)
(***************************************************************************)
EXTENDS Integers, Sequences

CONSTANT Imm      \* the boxed integers the program computes with

ASSUME ImmAssumption == \A v \in Imm : v \notin Int

Word == Imm \cup Int

\* The low bit of a value tells an immediate from a pointer.
UNBOXED(v) == v \in Imm

\* Sizes are computed in bytes and rounded up to words by the allocator.
WordBytes == 8                        \* sizeof (size_t)
BYTES_TO_WORDS(bytes) == (bytes - 1) \div WordBytes + 1
MEMBER_SIZE == WordBytes
DATA_HEADER_SZ == 2 * WordBytes       \* data_header and forward_address

\* An object is named by its header in the heap, by its contents elsewhere.
Content(h) == h + BYTES_TO_WORDS(DATA_HEADER_SZ)
Header(p)  == p - BYTES_TO_WORDS(DATA_HEADER_SZ)

Types == {"ARRAY", "CLOSURE", "STRING", "SEXP"}

\* array_size, closure_size, sexp_size (a tag before the members) and
\* string_size (a zero byte after the text).
obj_size(type, len) ==
  DATA_HEADER_SZ + CASE type \in {"ARRAY", "CLOSURE"} -> MEMBER_SIZE * len
                     [] type = "SEXP"                 -> MEMBER_SIZE * (len + 1)
                     [] type = "STRING"               -> len + 1

obj_words(type, len) == BYTES_TO_WORDS(obj_size(type, len))

\* An object of the heap.  "len" is the length in its header word; mark, enq
\* and fwd are the two low bits and the address in its forward_address word;
\* "contents" has its members, a character of a string each being one entry;
\* "id" is the allocation counter of the debug build.
NMembers(type, len) == IF type = "SEXP" THEN len + 1 ELSE len

Object == [id : Nat, type : Types, len : Nat, contents : Seq(Word),
           mark : BOOLEAN, enq : BOOLEAN, fwd : Int]

\* The header says how many members there are.
WellSized(o) == Len(o.contents) = NMembers(o.type, o.len)

Words(o) == obj_words(o.type, o.len)

\* The members the collector looks at: the code of a closure and the tag of a
\* sexp are raw words and are skipped, a string has none.
FirstField(type) == IF type = "ARRAY" THEN 1 ELSE 2

Fields(o) ==
  IF o.type = "STRING" THEN {} ELSE FirstField(o.type)..NMembers(o.type, o.len)

\* The pointer fields: obj_next_ptr_field_iterator steps over immediates.
PtrFields(o) == {i \in Fields(o) : ~ UNBOXED(o.contents[i])}
=============================================================================
