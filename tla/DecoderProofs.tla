----------------------------- MODULE DecoderProofs -----------------------------
(***************************************************************************)
(* Decoder implements Bytecode, whatever the programs: the bytes of a file *)
(* are where the offsets of its instructions say, and are read back as the *)
(* numbers they were made of.                                              *)
(***************************************************************************)
EXTENDS DecoderView, SequenceLemmas

-----------------------------------------------------------------------------
(* Sequences put together.                                                   *)

\* FlattenSeq puts the sequences together from the first one on.
FlatDomain(seqs) == 1..Len(seqs)
FlatStep(seqs, i, flatten) == IF i = 1 THEN seqs[i] ELSE flatten[i - 1] \o seqs[i]
Flat == INSTANCE Recursion WITH Dom <- FlatDomain, G <- FlatStep

LEMMA FlatUnfolds ==
  ASSUME NEW S, NEW s \in Seq(Seq(S))
  PROVE  /\ s = <<>> => FlattenSeq(s) = <<>>
         /\ s # <<>> => FlattenSeq(s) = Flat!Defined(s)[Len(s)]
         /\ \A i \in 1..Len(s) :
              /\ Flat!Defined(s)[i] = IF i = 1 THEN s[1] ELSE Flat!Defined(s)[i - 1] \o s[i]
              /\ Flat!Defined(s)[i] \in Seq(S)
<1> DEFINE f == Flat!Defined(s)
<1>1. Len(s) \in Nat /\ \A i \in 1..Len(s) : s[i] \in Seq(S)
  BY SequenceEntries
<1>2. Flat!Looks(s)
  <2>1. FlatDomain(s) \subseteq Nat
    BY DEF FlatDomain
  <2>2. ASSUME NEW n \in FlatDomain(s), NEW g, NEW h,
               \A i \in FlatDomain(s) : i < n => g[i] = h[i]
        PROVE  FlatStep(s, n, g) = FlatStep(s, n, h)
    <3>1. n # 1 => n - 1 \in FlatDomain(s) /\ n - 1 < n
      BY <1>1 DEF FlatDomain
    <3>2. QED
      BY <2>2, <3>1 DEF FlatStep
  <2>3. QED
    BY <2>1, <2>2 DEF Flat!Looks
<1>3. f = [i \in 1..Len(s) |-> IF i = 1 THEN s[i] ELSE f[i - 1] \o s[i]]
  <2>1. f = [i \in FlatDomain(s) |-> FlatStep(s, i, f)]
    BY <1>2, Flat!Unfolds
  <2> HIDE DEF f
  <2>2. QED
    BY <2>1 DEF FlatDomain, FlatStep
<1>4. Len(s) # 0 => FlattenSeq(s) = f[Len(s)]
  BY DEF FlattenSeq, Flat!Defined, FlatDomain, FlatStep
<1>5. s = <<>> => FlattenSeq(s) = <<>>
  BY DEF FlattenSeq
<1> HIDE DEF f
<1>6. \A i \in 1..Len(s) : f[i] = IF i = 1 THEN s[1] ELSE f[i - 1] \o s[i]
  BY <1>3
<1>7. \A n \in Nat : n \in 1..Len(s) => f[n] \in Seq(S)
  <2> DEFINE T == {n \in Nat : n \in 1..Len(s) => f[n] \in Seq(S)}
  <2>1. ASSUME NEW n \in Nat, \A i \in Nat : i < n => i \in T
        PROVE  n \in T
    <3>1. SUFFICES ASSUME n \in 1..Len(s) PROVE f[n] \in Seq(S)
      OBVIOUS
    <3>2. CASE n = 1
      BY <1>1, <1>6, <3>1, <3>2
    <3>3. CASE n # 1
      <4>1. n - 1 \in Nat /\ n - 1 < n /\ n - 1 \in 1..Len(s)
        BY <1>1, <3>1, <3>3
      <4>2. f[n - 1] \in Seq(S) /\ s[n] \in Seq(S) /\ f[n] = f[n - 1] \o s[n]
        BY <1>1, <1>6, <2>1, <3>1, <3>3, <4>1
      <4> DEFINE a == f[n - 1]
                 b == s[n]
      <4> HIDE DEF a, b
      <4>3. a \o b \in Seq(S)
        BY <4>2, ConcatProperties DEF a, b
      <4>4. QED
        BY <4>2, <4>3 DEF a, b
    <3>4. QED
      BY <3>2, <3>3
  <2> HIDE DEF T
  <2>2. \A n \in Nat : n \in T
    BY <2>1, AllNaturals
  <2>3. QED
    BY <2>2 DEF T
<1>8. \A i \in 1..Len(s) : f[i] \in Seq(S)
  BY <1>1, <1>7
<1>9. s # <<>> => Len(s) # 0
  BY EmptySeq
<1>10. QED
  BY <1>4, <1>5, <1>6, <1>8, <1>9 DEF f

\* The bytes from a position on are those of a sequence.
Holds(c, at, piece) ==
  \A j \in 1..Len(piece) : at + j \in DOMAIN c /\ c[at + j] = piece[j]

\* A sequence has what it is put together from in its parts.
LEMMA HoldsBoth ==
  ASSUME NEW S, NEW s \in Seq(S), NEW t \in Seq(S), NEW c, NEW at \in Int,
         Holds(c, at, s \o t)
  PROVE  Holds(c, at, s) /\ Holds(c, at + Len(s), t)
<1> DEFINE u == s \o t
<1>1. Len(s) \in Nat /\ Len(t) \in Nat
  BY SequenceEntries
<1>2. /\ Len(u) = Len(s) + Len(t)
      /\ \A i \in 1..(Len(s) + Len(t)) : u[i] = IF i <= Len(s) THEN s[i] ELSE t[i - Len(s)]
  BY ConcatProperties
<1>3. \A j \in 1..Len(u) : at + j \in DOMAIN c /\ c[at + j] = u[j]
  BY DEF Holds
<1> HIDE DEF u
<1>4. ASSUME NEW j \in 1..Len(s)
      PROVE  at + j \in DOMAIN c /\ c[at + j] = s[j]
  <2>1. j \in 1..Len(u) /\ j \in 1..(Len(s) + Len(t)) /\ j <= Len(s)
    BY <1>1, <1>2
  <2>2. QED
    BY <1>2, <1>3, <2>1
<1>5. ASSUME NEW j \in 1..Len(t)
      PROVE  at + Len(s) + j \in DOMAIN c /\ c[at + Len(s) + j] = t[j]
  <2> DEFINE i == Len(s) + j
  <2>1. i \in 1..Len(u) /\ i \in 1..(Len(s) + Len(t)) /\ ~ (i <= Len(s))
        /\ i - Len(s) = j /\ at + i = at + Len(s) + j
    BY <1>1, <1>2
  <2> HIDE DEF i
  <2>2. at + i \in DOMAIN c /\ c[at + i] = t[i - Len(s)]
    BY <1>2, <1>3, <2>1
  <2>3. QED
    BY <2>1, <2>2
<1>6. QED
  BY <1>4, <1>5 DEF Holds

\* The positions where the sequences begin in what FlattenSeq makes of them.
Begins(at, s) == at[1] = 0 /\ \A i \in 1..Len(s) : at[i + 1] = at[i] + Len(s[i])

LEMMA HoldsEach ==
  ASSUME NEW S, NEW s \in Seq(Seq(S)), NEW at \in [1..(Len(s) + 1) -> Int], Begins(at, s)
  PROVE  /\ FlattenSeq(s) \in Seq(S)
         /\ Len(FlattenSeq(s)) = at[Len(s) + 1]
         /\ \A c : \A from \in Int : Holds(c, from, FlattenSeq(s)) =>
              \A i \in 1..Len(s) : Holds(c, from + at[i], s[i])
<1> DEFINE n == Len(s)
           f == Flat!Defined(s)
<1>1. n \in Nat /\ \A i \in 1..n : s[i] \in Seq(S) /\ Len(s[i]) \in Nat
  BY SequenceEntries
<1>2. \A i \in 1..n : /\ f[i] = IF i = 1 THEN s[1] ELSE f[i - 1] \o s[i]
                      /\ f[i] \in Seq(S)
  BY FlatUnfolds
<1>3. /\ s = <<>> => FlattenSeq(s) = <<>>
      /\ s # <<>> => FlattenSeq(s) = f[n] /\ n # 0
  BY FlatUnfolds, EmptySeq
<1>4. \A i \in 1..(n + 1) : at[i] \in Int
  OBVIOUS
<1>5. at[1] = 0 /\ \A i \in 1..n : at[i + 1] = at[i] + Len(s[i])
  BY DEF Begins
<1> DEFINE Right(i) == /\ Len(f[i]) = at[i + 1]
                       /\ \A c : \A from \in Int : Holds(c, from, f[i]) =>
                            \A k \in 1..i : Holds(c, from + at[k], s[k])
           T == {i \in Nat : i \in 1..n => Right(i)}
<1> HIDE DEF f, n
<1>6. ASSUME NEW i \in Nat, \A k \in Nat : k < i => k \in T
      PROVE  i \in T
  <2>1. SUFFICES ASSUME i \in 1..n PROVE Right(i)
    OBVIOUS
  <2>2. CASE i = 1
    <3>1. f[1] = s[1] /\ at[1 + 1] = Len(s[1]) /\ 1 \in 1..n
      BY <1>1, <1>2, <1>5, <2>1, <2>2
    <3>2. ASSUME NEW c, NEW from \in Int, Holds(c, from, f[1]), NEW k \in 1..1
          PROVE  Holds(c, from + at[k], s[k])
      <4>1. k = 1 /\ from + at[k] = from
        BY <1>5
      <4>2. QED
        BY <3>1, <3>2, <4>1
    <3>3. QED
      BY <2>2, <3>1, <3>2
  <2>3. CASE i # 1
    <3> DEFINE j == i - 1
    <3>1. j \in Nat /\ j < i /\ j \in 1..n /\ j + 1 = i
      BY <1>1, <2>1, <2>3
    <3>2. Right(j)
      BY <1>6, <3>1
    <3>3. /\ f[i] = f[j] \o s[i] /\ f[j] \in Seq(S) /\ s[i] \in Seq(S)
          /\ at[i + 1] = at[i] + Len(s[i])
      BY <1>1, <1>2, <1>5, <2>1, <2>3, <3>1
    <3>4. Len(f[j]) = at[i]
      BY <3>1, <3>2
    <3> HIDE DEF j
    <3> DEFINE a == f[j]
               b == s[i]
    <3>5. a \in Seq(S) /\ b \in Seq(S) /\ f[i] = a \o b
      BY <3>3
    <3> HIDE DEF a, b
    <3>6. Len(f[i]) = Len(a) + Len(b)
      BY <3>5, ConcatProperties
    <3>7. Len(f[i]) = at[i + 1]
      BY <3>3, <3>4, <3>6 DEF a, b
    <3>8. ASSUME NEW c, NEW from \in Int, Holds(c, from, f[i]), NEW k \in 1..i
          PROVE  Holds(c, from + at[k], s[k])
      <4>1. Holds(c, from, a) /\ Holds(c, from + Len(a), b)
        BY <3>5, <3>8, HoldsBoth
      <4>2. CASE k = i
        BY <3>4, <4>1, <4>2 DEF a, b
      <4>3. CASE k # i
        <5>1. k \in 1..j
          BY <3>1, <4>3
        <5>2. QED
          BY <3>2, <4>1, <5>1 DEF a
      <4>4. QED
        BY <4>2, <4>3
    <3>9. QED
      BY <3>7, <3>8
  <2>4. QED
    BY <2>2, <2>3
<1> HIDE DEF T
<1>7. \A i \in Nat : i \in T
  BY <1>6, AllNaturals
<1>8. CASE s = <<>>
  <2>1. n = 0 /\ FlattenSeq(s) = <<>> /\ <<>> \in Seq(S)
    BY <1>3, <1>8, EmptySeq DEF n
  <2>2. Len(FlattenSeq(s)) = at[n + 1]
    BY <1>5, <2>1, EmptySeq
  <2>3. QED
    BY <2>1, <2>2 DEF n
<1>9. CASE s # <<>>
  <2>1. n \in 1..n /\ FlattenSeq(s) = f[n]
    BY <1>1, <1>3, <1>9
  <2>2. Right(n)
    BY <1>1, <1>7, <2>1 DEF T
  <2>3. QED
    BY <1>2, <2>1, <2>2 DEF n
<1>10. QED
  BY <1>8, <1>9

-----------------------------------------------------------------------------
(* Numbers.                                                                  *)

LEMMA Division ==
  ASSUME NEW n \in Int
  PROVE  n = 256 * (n \div 256) + (n % 256) /\ n \div 256 \in Int /\ n % 256 \in 0..255
BY SMT

LEMMA Int32Bounds ==
  ASSUME NEW n \in Int32
  PROVE  n \in Int /\ -2147483648 <= n /\ n <= 2147483647
<1>1. MaxInt \in Int
  BY SMT DEF MaxInt
<1>2. n \in Int /\ -MaxInt - 1 <= n /\ n <= MaxInt
  BY <1>1, SMT DEF Int32
<1>3. QED
  BY <1>2, SMT DEF MaxInt

\* The value of four bytes.
Signed(b) ==
  b[1] + 256 * b[2]
  + 256 * 256 * (b[3] + 256 * (IF b[4] < 128 THEN b[4] ELSE b[4] - 256))

LEMMA BytesOfInt ==
  ASSUME NEW n \in Int
  PROVE  Bytes(n) \in Seq(Byte) /\ Len(Bytes(n)) = 4
<1> DEFINE q == n \div 256
           r == q \div 256
           s == r \div 256
<1>1. q \in Int /\ n % 256 \in 0..255
  BY Division, SMT
<1> HIDE DEF q
<1>2. r \in Int /\ q % 256 \in 0..255
  BY <1>1, Division, SMT
<1> HIDE DEF r
<1>3. s \in Int /\ r % 256 \in 0..255
  BY <1>2, Division, SMT
<1> HIDE DEF s
<1>4. s % 256 \in 0..255
  BY <1>3, Division, SMT
<1>5. Bytes(n) = <<n % 256, q % 256, r % 256, s % 256>>
  BY SMT DEF Bytes, q, r, s
<1>6. QED
  BY <1>1, <1>2, <1>3, <1>4, <1>5, SMT DEF Byte

LEMMA IntOfBytes ==
  ASSUME NEW n \in Int32
  PROVE  Signed(Bytes(n)) = n
<1> DEFINE q == n \div 256
           r == q \div 256
           s == r \div 256
<1>1. n \in Int /\ -2147483648 <= n /\ n <= 2147483647
  BY Int32Bounds, SMT
<1>2. n = 256 * q + (n % 256) /\ q \in Int /\ n % 256 \in 0..255
  BY <1>1, Division, SMT
<1> HIDE DEF q
<1>3. q = 256 * r + (q % 256) /\ r \in Int /\ q % 256 \in 0..255
  BY <1>2, Division, SMT
<1> HIDE DEF r
<1>4. r = 256 * s + (r % 256) /\ s \in Int /\ r % 256 \in 0..255
  BY <1>3, Division, SMT
<1> HIDE DEF s
<1>5. -128 <= s /\ s <= 127
  BY <1>1, <1>2, <1>3, <1>4, SMT
<1>6. s % 256 = IF s < 0 THEN s + 256 ELSE s
  BY <1>4, <1>5, SMT
<1>7. Bytes(n) = <<n % 256, q % 256, r % 256, s % 256>>
  BY SMT DEF Bytes, q, r, s
<1>8. QED
  BY <1>2, <1>3, <1>4, <1>5, <1>6, <1>7, SMT DEF Signed

\* What get_int makes of the bytes of a number.
LEMMA IntRead ==
  ASSUME NEW a \in Int, NEW n \in Int32, Holds(contents, a - SizesAt, Bytes(n))
  PROVE  IntAt(a) = n
<1> DEFINE b == Bytes(n)
<1>1. n \in Int
  BY Int32Bounds, SMT
<1>2. Len(b) = 4 /\ Signed(b) = n
  BY <1>1, BytesOfInt, IntOfBytes, SMT
<1>3. SizesAt = 40
  BY SMT DEF SizesAt
<1> HIDE DEF b
<1>4. \A j \in 1..4 : contents[a - SizesAt + j] = b[j]
  BY <1>2, SMT DEF Holds, b
<1>5. /\ ByteAt(a) = b[1] /\ ByteAt(a + 1) = b[2]
      /\ ByteAt(a + 2) = b[3] /\ ByteAt(a + 3) = b[4]
  <2>1. a - SizesAt + 2 = a + 1 - SizesAt + 1 /\ a - SizesAt + 3 = a + 2 - SizesAt + 1
        /\ a - SizesAt + 4 = a + 3 - SizesAt + 1
    BY <1>3, SMT
  <2>2. contents[a - SizesAt + 1] = b[1] /\ contents[a - SizesAt + 2] = b[2]
        /\ contents[a - SizesAt + 3] = b[3] /\ contents[a - SizesAt + 4] = b[4]
    BY <1>4, SMT
  <2>3. QED
    BY <1>3, <2>1, <2>2, SMT DEF ByteAt
<1>6. IntAt(a) = Signed(b)
  BY <1>5, SMT DEF IntAt, Signed
<1>7. QED
  BY <1>2, <1>6

-----------------------------------------------------------------------------
(* Offsets.                                                                  *)

\* The instructions of a program.
LEMMA CodeTyped ==
  ASSUME NEW p, IsCode(p)
  PROVE  /\ Len(p.code) \in Nat /\ DOMAIN p.code = 1..Len(p.code)
         /\ \A k \in 1..Len(p.code) :
              /\ p.code[k].op \in Byte
              /\ p.code[k].target \in Seq(0..(Len(p.code) + 1))
              /\ p.code[k].operands \in Seq(Int32)
              /\ p.code[k].captured \in Seq(Byte \X Int32)
              /\ Len(p.code[k].target) \in Nat
              /\ Len(p.code[k].operands) \in Nat
              /\ Len(p.code[k].captured) \in Nat
              /\ SizeOf(p.code[k]) \in Nat \ {0}
              /\ IsOfKind(p, k)
<1> DEFINE n == Len(p.code)
           I == [kind : STRING, op : Byte, target : Seq(0..(n + 1)),
                 operands : Seq(Int32), captured : Seq(Byte \X Int32)]
<1>1. p.code \in Seq(I) /\ \A k \in DOMAIN p.code : IsOfKind(p, k)
  BY DEF IsCode
<1>2. n \in Nat /\ DOMAIN p.code = 1..n /\ \A k \in 1..n : p.code[k] \in I
  <2> HIDE DEF I
  <2>1. QED
    BY <1>1, SequenceEntries
<1>3. SUFFICES ASSUME NEW k \in 1..n
               PROVE  /\ p.code[k].op \in Byte
                      /\ p.code[k].target \in Seq(0..(n + 1))
                      /\ p.code[k].operands \in Seq(Int32)
                      /\ p.code[k].captured \in Seq(Byte \X Int32)
                      /\ Len(p.code[k].target) \in Nat
                      /\ Len(p.code[k].operands) \in Nat
                      /\ Len(p.code[k].captured) \in Nat
                      /\ SizeOf(p.code[k]) \in Nat \ {0}
  BY <1>1, <1>2
<1> DEFINE instr == p.code[k]
<1>4. /\ instr.op \in Byte /\ instr.target \in Seq(0..(n + 1))
      /\ instr.operands \in Seq(Int32) /\ instr.captured \in Seq(Byte \X Int32)
  <2>1. instr \in I
    BY <1>2
  <2> HIDE DEF instr
  <2>2. QED
    BY <2>1
<1> HIDE DEF instr
<1>5. Len(instr.target) \in Nat /\ Len(instr.operands) \in Nat /\ Len(instr.captured) \in Nat
  BY <1>4, SequenceEntries
<1>6. SizeOf(instr) \in Nat \ {0}
  <2>1. PICK a \in Nat, b \in Nat, c \in Nat :
          a = Len(instr.target) /\ b = Len(instr.operands) /\ c = Len(instr.captured)
    BY <1>5
  <2>2. SizeOf(instr) = 1 + 4 * (a + b) + 5 * c
    BY <2>1 DEF SizeOf
  <2>3. QED
    BY <2>2
<1>7. QED
  BY <1>4, <1>5, <1>6 DEF instr

OffsetDomain(code) == Nat
OffsetStep(code, n, offset) == IF n <= 1 THEN 0 ELSE offset[n - 1] + SizeOf(code[n - 1])
Offsets == INSTANCE Recursion WITH Dom <- OffsetDomain, G <- OffsetStep

LEMMA OffsetsUnfold ==
  ASSUME NEW code
  PROVE  /\ OffsetIn(code, 0) = -1
         /\ OffsetIn(code, 1) = 0
         /\ \A k \in Nat \ {0} : OffsetIn(code, k + 1) = OffsetIn(code, k) + SizeOf(code[k])
<1> DEFINE f == Offsets!Defined(code)
<1>1. Offsets!Looks(code)
  <2>1. ASSUME NEW n \in Nat, NEW g, NEW h, \A i \in Nat : i < n => g[i] = h[i]
        PROVE  OffsetStep(code, n, g) = OffsetStep(code, n, h)
    <3>1. CASE n <= 1
      BY <3>1 DEF OffsetStep
    <3>2. CASE ~ (n <= 1)
      <4>1. n - 1 \in Nat /\ n - 1 < n
        BY <3>2
      <4>2. g[n - 1] = h[n - 1]
        BY <2>1, <4>1
      <4>3. QED
        BY <3>2, <4>2 DEF OffsetStep
    <3>3. QED
      BY <3>1, <3>2
  <2>2. QED
    BY <2>1 DEF Offsets!Looks, OffsetDomain
<1>2. f = [n \in Nat |-> IF n <= 1 THEN 0 ELSE f[n - 1] + SizeOf(code[n - 1])]
  <2>1. f = [n \in OffsetDomain(code) |-> OffsetStep(code, n, f)]
    BY <1>1, Offsets!Unfolds
  <2> HIDE DEF f
  <2>2. QED
    BY <2>1 DEF OffsetDomain, OffsetStep
<1>3. \A k : OffsetIn(code, k) = IF k = 0 THEN -1 ELSE f[k]
  BY DEF OffsetIn, Offsets!Defined, OffsetDomain, OffsetStep
<1> HIDE DEF f
<1>4. \A n \in Nat : f[n] = IF n <= 1 THEN 0 ELSE f[n - 1] + SizeOf(code[n - 1])
  BY <1>2
<1>5. ASSUME NEW k \in Nat \ {0}
      PROVE  OffsetIn(code, k + 1) = OffsetIn(code, k) + SizeOf(code[k])
  <2> DEFINE n == k + 1
  <2>1. n \in Nat /\ ~ (n <= 1) /\ n - 1 = k /\ n # 0 /\ k # 0
    OBVIOUS
  <2> HIDE DEF n
  <2>2. f[n] = f[k] + SizeOf(code[k])
    BY <1>4, <2>1
  <2>3. QED
    BY <1>3, <2>1, <2>2 DEF n
<1>6. QED
  BY <1>3, <1>4, <1>5

\* An offset is less than that of any later instruction.
LEMMA OffsetsRise ==
  ASSUME NEW p, IsCode(p), NEW j \in 0..(Len(p.code) + 1), NEW k \in 0..(Len(p.code) + 1), j < k
  PROVE  /\ OffsetIn(p.code, j) \in Int /\ OffsetIn(p.code, k) \in Nat
         /\ OffsetIn(p.code, j) < OffsetIn(p.code, k)
<1> DEFINE n == Len(p.code)
           at(i) == OffsetIn(p.code, i)
           T == {i \in Nat : i \in 1..(n + 1) =>
                   /\ at(i) \in Nat
                   /\ \A l \in 0..(n + 1) : l < i => at(l) \in Int /\ at(l) < at(i)}
<1>1. n \in Nat /\ \A i \in 1..n : SizeOf(p.code[i]) \in Nat \ {0}
  BY CodeTyped
<1>2. at(0) = -1 /\ at(1) = 0 /\ \A i \in 1..n : at(i + 1) = at(i) + SizeOf(p.code[i])
  <2>1. \A i \in 1..n : i \in Nat \ {0}
    BY <1>1
  <2>2. QED
    BY <2>1, OffsetsUnfold
<1> HIDE DEF n, at
<1>3. ASSUME NEW i \in Nat, \A l \in Nat : l < i => l \in T
      PROVE  i \in T
  <2>1. SUFFICES ASSUME i \in 1..(n + 1)
                 PROVE  /\ at(i) \in Nat
                        /\ \A l \in 0..(n + 1) : l < i => at(l) \in Int /\ at(l) < at(i)
    OBVIOUS
  <2>2. CASE i = 1
    BY <1>1, <1>2, <2>2
  <2>3. CASE i # 1
    <3>1. PICK m \in Nat : m = i - 1 /\ m < i /\ m \in 1..n /\ m \in 1..(n + 1) /\ m + 1 = i
      BY <1>1, <2>1, <2>3
    <3>2. at(m) \in Nat /\ \A l \in 0..(n + 1) : l < m => at(l) \in Int /\ at(l) < at(m)
      BY <1>3, <3>1
    <3>3. at(i) = at(m) + SizeOf(p.code[m]) /\ SizeOf(p.code[m]) \in Nat \ {0}
      BY <1>1, <1>2, <3>1
    <3>4. \A l \in 0..(n + 1) : l < i => l = m \/ l < m
      BY <3>1
    <3>5. QED
      BY <3>2, <3>3, <3>4
  <2>4. QED
    BY <2>2, <2>3
<1> HIDE DEF T
<1>4. \A i \in Nat : i \in T
  BY <1>3, AllNaturals
<1>5. k \in Nat /\ k \in 1..(n + 1) /\ j \in 0..(n + 1) /\ k \in T
  BY <1>1, <1>4 DEF n
<1>6. at(k) \in Nat /\ at(j) \in Int /\ at(j) < at(k)
  BY <1>5 DEF T
<1>7. QED
  BY <1>6 DEF at

\* Where an offset is, an instruction begins, or there is none at -1.
LEMMA OffsetsInstr ==
  ASSUME NEW p, IsCode(p), NEW k \in 0..(Len(p.code) + 1)
  PROVE  InstrIn(p.code, OffsetIn(p.code, k)) = k
<1> DEFINE n == Len(p.code)
           at(i) == OffsetIn(p.code, i)
           ks == {i \in 1..(n + 1) : at(i) = at(k)}
<1>1. n \in Nat
  BY CodeTyped
<1>2. \A i, l \in 0..(n + 1) : i < l => at(i) < at(l) /\ at(i) \in Int /\ at(l) \in Int
  BY OffsetsRise
<1>3. InstrIn(p.code, at(k)) = IF ks = {} THEN 0 ELSE CHOOSE i \in ks : TRUE
  BY DEF InstrIn
<1> HIDE DEF n, at
<1>4. \A i \in 1..(n + 1) : at(i) = at(k) => i = k
  <2>1. k \in 0..(n + 1)
    BY DEF n
  <2>2. SUFFICES ASSUME NEW i \in 1..(n + 1), at(i) = at(k), i # k PROVE FALSE
    OBVIOUS
  <2>3. i \in 0..(n + 1) /\ (i < k \/ k < i)
    BY <1>1, <2>1, <2>2
  <2>4. QED
    BY <1>2, <2>1, <2>2, <2>3
<1>5. CASE k = 0
  <2>1. ks = {}
    BY <1>4, <1>5
  <2>2. QED
    BY <1>3, <1>5, <2>1 DEF at
<1>6. CASE k # 0
  <2>1. k \in 1..(n + 1)
    BY <1>1, <1>6 DEF n
  <2>2. ks = {k}
    BY <1>4, <2>1
  <2> HIDE DEF ks
  <2>3. QED
    BY <1>3, <2>2 DEF at
<1>7. QED
  BY <1>5, <1>6

\* Offsets of a program are numbers of four bytes.
LEMMA OffsetsFit ==
  ASSUME NEW p, IsCode(p), NEW k \in 0..(Len(p.code) + 1)
  PROVE  /\ OffsetIn(p.code, k) \in Int32 /\ OffsetIn(p.code, k) \in Int
         /\ -1 <= OffsetIn(p.code, k)
         /\ k # 0 => OffsetIn(p.code, k) \in Nat
         /\ OffsetIn(p.code, k) <= OffsetIn(p.code, Len(p.code) + 1)
         /\ k \in 1..Len(p.code) =>
              OffsetIn(p.code, k + 1) = OffsetIn(p.code, k) + SizeOf(p.code[k])
<1> DEFINE n == Len(p.code)
           last == OffsetIn(p.code, n + 1)
           at == OffsetIn(p.code, k)
<1>1. n \in Nat
  BY CodeTyped
<1>2. OffsetIn(p.code, 0) = -1 /\ (k \in 1..n => OffsetIn(p.code, k + 1) = at + SizeOf(p.code[k]))
  <2>1. k \in 1..n => k \in Nat \ {0}
    BY <1>1
  <2>2. QED
    BY <2>1, OffsetsUnfold
<1>3. 0 \in 0..(n + 1) /\ n + 1 \in 0..(n + 1) /\ k \in 0..(n + 1)
  BY <1>1
<1>4. k # 0 => at \in Nat /\ -1 < at
  <2>1. SUFFICES ASSUME k # 0 PROVE at \in Nat /\ -1 < at
    OBVIOUS
  <2>2. 0 < k
    BY <2>1
  <2>3. QED
    BY <1>2, <1>3, <2>2, OffsetsRise
<1>5. last \in Nat /\ at <= last
  <2>1. 0 < n + 1
    BY <1>1
  <2>2. last \in Nat
    BY <1>3, <2>1, OffsetsRise
  <2>3. CASE k = n + 1
    BY <2>2, <2>3
  <2>4. CASE k # n + 1
    <3>1. k < n + 1
      BY <1>1, <2>4
    <3>2. at \in Int /\ at < last
      BY <1>3, <3>1, OffsetsRise
    <3>3. QED
      BY <2>2, <3>2
  <2>5. QED
    BY <2>3, <2>4
<1>6. last \in Int32
  BY DEF IsCode
<1> HIDE DEF at, last
<1>7. at \in Int /\ -1 <= at
  BY <1>2, <1>4 DEF at
<1>8. at \in Int32
  <2>1. MaxInt \in Int /\ 0 <= MaxInt
    BY SMT DEF MaxInt
  <2>2. QED
    BY <1>5, <1>6, <1>7, <2>1, SMT DEF Int32
<1>9. QED
  BY <1>2, <1>4, <1>5, <1>7, <1>8 DEF at, last

-----------------------------------------------------------------------------
(* The file.                                                                 *)

\* Pieces of the same length.
LEMMA HoldsPieces ==
  ASSUME NEW m \in Nat, NEW s, s = [i \in 1..m |-> s[i]], NEW w \in {4, 5, 8},
         \A i \in 1..m : s[i] \in Seq(Byte) /\ Len(s[i]) = w
  PROVE  /\ FlattenSeq(s) \in Seq(Byte) /\ Len(FlattenSeq(s)) = w * m
         /\ \A c : \A from \in Int : Holds(c, from, FlattenSeq(s)) =>
              \A i \in 1..m : Holds(c, from + w * (i - 1), s[i])
<1> DEFINE at == [i \in 1..(m + 1) |-> w * (i - 1)]
<1>1. s \in [1..m -> Seq(Byte)]
  BY Zenon
<1>2. s \in Seq(Seq(Byte)) /\ Len(s) = m
  BY <1>1, FunctionIsSeq
<1>3. \A i \in 1..m : /\ w * ((i + 1) - 1) = w * (i - 1) + w
                      /\ i \in 1..(m + 1) /\ i + 1 \in 1..(m + 1)
  <2>1. SUFFICES ASSUME NEW i \in 1..m
                 PROVE  w * ((i + 1) - 1) = w * (i - 1) + w
    OBVIOUS
  <2>2. w = 4 \/ w = 5 \/ w = 8
    OBVIOUS
  <2>3. QED
    BY <2>2
<1>4. at \in [1..(Len(s) + 1) -> Int]
  <2>1. \A i \in 1..(m + 1) : w * (i - 1) \in Int
    BY SMT
  <2>2. QED
    BY <1>2, <2>1
<1>5. Begins(at, s)
  <2>1. at[1] = 0
    <3>1. 1 \in 1..(m + 1) /\ w * (1 - 1) = 0
      BY SMT
    <3>2. QED
      BY <3>1, Zenon
  <2>2. ASSUME NEW i \in 1..m PROVE at[i + 1] = at[i] + Len(s[i])
    <3>1. at[i + 1] = w * ((i + 1) - 1) /\ at[i] = w * (i - 1)
      BY <1>3
    <3>2. QED
      BY <1>3, <3>1
  <2> HIDE DEF at
  <2>3. QED
    BY <1>2, <2>1, <2>2 DEF Begins
<1>6. at[m + 1] = w * m
  <2>1. m + 1 \in 1..(m + 1) /\ (m + 1) - 1 = m
    BY SMT
  <2>2. QED
    BY <2>1
<1>7. \A i \in 1..m : at[i] = w * (i - 1)
  BY <1>3
<1> HIDE DEF at
<1>8. QED
  BY <1>2, <1>4, <1>5, <1>6, <1>7, HoldsEach

\* The bytes of an instruction.
Part(p, instr, c, from) ==
  /\ from + 1 \in DOMAIN c /\ c[from + 1] = instr.op
  /\ \A i \in 1..Len(instr.target) :
       Holds(c, from + 1 + 4 * (i - 1), Bytes(OffsetIn(p.code, instr.target[i])))
  /\ \A i \in 1..Len(instr.operands) :
       Holds(c, from + 1 + 4 * Len(instr.target) + 4 * (i - 1), Bytes(instr.operands[i]))
  /\ \A i \in 1..Len(instr.captured) :
       c[from + 1 + 4 * Len(instr.target) + 4 * Len(instr.operands) + 5 * (i - 1) + 1]
         = instr.captured[i][1]

LEMMA AssembledParts ==
  ASSUME NEW p, IsCode(p), NEW k \in 1..Len(p.code)
  PROVE  LET a == Assembled(p.code, p.code[k])
         IN  /\ a \in Seq(Byte) /\ Len(a) = SizeOf(p.code[k])
             /\ \A c : \A from \in Int : Holds(c, from, a) => Part(p, p.code[k], c, from)
<1> DEFINE instr == p.code[k]
           t == instr.target
           o == instr.operands
           v == instr.captured
           op == <<instr.op>>
           ts == [i \in DOMAIN t |-> Bytes(OffsetIn(p.code, t[i]))]
           os == [i \in DOMAIN o |-> Bytes(o[i])]
           vs == [i \in DOMAIN v |-> <<v[i][1]>> \o Bytes(v[i][2])]
           tf == FlattenSeq(ts)
           of == FlattenSeq(os)
           vf == FlattenSeq(vs)
<1>1. /\ instr.op \in Byte /\ t \in Seq(0..(Len(p.code) + 1)) /\ o \in Seq(Int32)
      /\ v \in Seq(Byte \X Int32)
      /\ Len(t) \in Nat /\ Len(o) \in Nat /\ Len(v) \in Nat
  BY CodeTyped
<1>2. Assembled(p.code, instr) = ((op \o tf) \o of) \o vf
  BY DEF Assembled
<1>3. SizeOf(instr) = 1 + 4 * (Len(t) + Len(o)) + 5 * Len(v)
  BY DEF SizeOf
<1>4. op \in Seq(Byte) /\ Len(op) = 1 /\ op[1] = instr.op
  BY <1>1
<1> HIDE DEF instr, t, o, v, op
<1>5. /\ DOMAIN t = 1..Len(t) /\ DOMAIN o = 1..Len(o) /\ DOMAIN v = 1..Len(v)
      /\ \A i \in 1..Len(t) : t[i] \in 0..(Len(p.code) + 1)
      /\ \A i \in 1..Len(o) : o[i] \in Int32
      /\ \A i \in 1..Len(v) : v[i] \in Byte \X Int32
  BY <1>1, SequenceEntries
<1>6. /\ tf \in Seq(Byte) /\ Len(tf) = 4 * Len(t)
      /\ \A c : \A from \in Int : Holds(c, from, tf) =>
           \A i \in 1..Len(t) : Holds(c, from + 4 * (i - 1), ts[i])
  <2>1. \A i \in 1..Len(t) : ts[i] \in Seq(Byte) /\ Len(ts[i]) = 4
    <3>1. ASSUME NEW i \in 1..Len(t)
          PROVE  ts[i] \in Seq(Byte) /\ Len(ts[i]) = 4
      <4>1. OffsetIn(p.code, t[i]) \in Int
        BY <1>5, OffsetsFit
      <4>2. ts[i] = Bytes(OffsetIn(p.code, t[i]))
        BY <1>5
      <4>3. QED
        BY <4>1, <4>2, BytesOfInt
    <3>2. QED
      BY <3>1
  <2>2. ts = [i \in 1..Len(t) |-> ts[i]]
    BY <1>5
  <2> HIDE DEF ts
  <2>3. QED
    BY <1>1, <2>1, <2>2, HoldsPieces
<1>7. /\ of \in Seq(Byte) /\ Len(of) = 4 * Len(o)
      /\ \A c : \A from \in Int : Holds(c, from, of) =>
           \A i \in 1..Len(o) : Holds(c, from + 4 * (i - 1), os[i])
  <2>1. \A i \in 1..Len(o) : os[i] \in Seq(Byte) /\ Len(os[i]) = 4
    <3>1. ASSUME NEW i \in 1..Len(o)
          PROVE  os[i] \in Seq(Byte) /\ Len(os[i]) = 4
      <4>1. o[i] \in Int
        BY <1>5, Int32Bounds, SMT
      <4>2. os[i] = Bytes(o[i])
        BY <1>5
      <4>3. QED
        BY <4>1, <4>2, BytesOfInt
    <3>2. QED
      BY <3>1
  <2>2. os = [i \in 1..Len(o) |-> os[i]]
    BY <1>5
  <2> HIDE DEF os
  <2>3. QED
    BY <1>1, <2>1, <2>2, HoldsPieces
<1>8. /\ \A i \in 1..Len(v) : vs[i] \in Seq(Byte) /\ Len(vs[i]) = 5
      /\ \A i \in 1..Len(v) : vs[i][1] = v[i][1]
  <2>1. SUFFICES ASSUME NEW i \in 1..Len(v)
                 PROVE  vs[i] \in Seq(Byte) /\ Len(vs[i]) = 5 /\ vs[i][1] = v[i][1]
    OBVIOUS
  <2> DEFINE b == v[i][1]
             e == <<b>>
             n == Bytes(v[i][2])
  <2>2. b \in Byte /\ v[i][2] \in Int32
    BY <1>5
  <2>3. n \in Seq(Byte) /\ Len(n) = 4
    <3>1. v[i][2] \in Int
      BY <2>2, Int32Bounds, SMT
    <3>2. QED
      BY <3>1, BytesOfInt
  <2> HIDE DEF n, b
  <2>4. e \in Seq(Byte) /\ Len(e) = 1 /\ e[1] = b
    BY <2>2
  <2> HIDE DEF e
  <2>5. e \o n \in Seq(Byte) /\ Len(e \o n) = 5 /\ (e \o n)[1] = b
    <3>1. /\ e \o n \in Seq(Byte) /\ Len(e \o n) = Len(e) + Len(n)
          /\ \A j \in 1..(Len(e) + Len(n)) :
               (e \o n)[j] = IF j <= Len(e) THEN e[j] ELSE n[j - Len(e)]
      BY <2>3, <2>4, ConcatProperties
    <3>2. Len(e) + Len(n) = 5 /\ 1 \in 1..(Len(e) + Len(n)) /\ 1 <= Len(e)
      BY <2>3, <2>4
    <3>3. QED
      BY <2>4, <3>1, <3>2
  <2>6. vs[i] = e \o n
    BY <1>5 DEF e, n, b
  <2>7. QED
    BY <2>5, <2>6 DEF b
<1>9. /\ vf \in Seq(Byte) /\ Len(vf) = 5 * Len(v)
      /\ \A c : \A from \in Int : Holds(c, from, vf) =>
           \A i \in 1..Len(v) : Holds(c, from + 5 * (i - 1), vs[i])
  <2>1. vs = [i \in 1..Len(v) |-> vs[i]]
    BY <1>5
  <2> HIDE DEF vs
  <2>2. QED
    BY <1>1, <1>8, <2>1, HoldsPieces
<1>10. /\ \A i \in 1..Len(t) : ts[i] = Bytes(OffsetIn(p.code, t[i]))
       /\ \A i \in 1..Len(o) : os[i] = Bytes(o[i])
  BY <1>5
<1> HIDE DEF ts, os, vs, tf, of, vf
<1> DEFINE ot == op \o tf
           oto == ot \o of
           all == oto \o vf
<1>11. ot \in Seq(Byte) /\ Len(ot) = 1 + 4 * Len(t)
  <2>1. ot \in Seq(Byte) /\ Len(ot) = Len(op) + Len(tf)
    BY <1>4, <1>6, ConcatProperties
  <2> HIDE DEF ot
  <2>2. QED
    BY <1>1, <1>4, <1>6, <2>1
<1>12. oto \in Seq(Byte) /\ Len(oto) = 1 + 4 * Len(t) + 4 * Len(o)
  <2> HIDE DEF ot
  <2>1. QED
    BY <1>1, <1>7, <1>11, ConcatProperties
<1>13. all \in Seq(Byte) /\ Len(all) = SizeOf(instr)
  <2> HIDE DEF oto
  <2>1. all \in Seq(Byte) /\ Len(all) = Len(oto) + Len(vf)
    BY <1>9, <1>12, ConcatProperties
  <2>2. PICK i \in Nat, j \in Nat, l \in Nat : i = Len(t) /\ j = Len(o) /\ l = Len(v)
    BY <1>1
  <2>3. QED
    BY <1>3, <1>9, <1>12, <2>1, <2>2
<1>14. ASSUME NEW c, NEW from \in Int, Holds(c, from, all)
       PROVE  Part(p, instr, c, from)
  <2>1. Holds(c, from, oto) /\ Holds(c, from + Len(oto), vf)
    <3> HIDE DEF oto
    <3>1. QED
      BY <1>9, <1>12, <1>14, HoldsBoth
  <2>2. Holds(c, from, ot) /\ Holds(c, from + Len(ot), of)
    <3> HIDE DEF ot
    <3>1. QED
      BY <1>7, <1>11, <2>1, HoldsBoth
  <2>3. Holds(c, from, op) /\ Holds(c, from + Len(op), tf)
    BY <1>4, <1>6, <2>2, HoldsBoth
  <2> HIDE DEF oto, ot
  <2>4. from + 1 \in DOMAIN c /\ c[from + 1] = instr.op
    <3>1. 1 \in 1..Len(op)
      BY <1>4
    <3>2. QED
      BY <1>4, <2>3, <3>1 DEF Holds
  <2>5. \A i \in 1..Len(t) : Holds(c, from + 1 + 4 * (i - 1), Bytes(OffsetIn(p.code, t[i])))
    <3>1. Holds(c, from + 1, tf) /\ from + 1 \in Int
      BY <1>4, <2>3
    <3>2. QED
      BY <1>6, <1>10, <3>1
  <2>6. \A i \in 1..Len(o) : Holds(c, from + 1 + 4 * Len(t) + 4 * (i - 1), Bytes(o[i]))
    <3> DEFINE g == from + 1 + 4 * Len(t)
    <3>1. g = from + Len(ot) /\ g \in Int
      BY <1>1, <1>11
    <3>2. Holds(c, g, of)
      BY <2>2, <3>1
    <3> HIDE DEF g
    <3>3. \A i \in 1..Len(o) : Holds(c, g + 4 * (i - 1), Bytes(o[i]))
      BY <1>7, <1>10, <3>1, <3>2
    <3>4. QED
      BY <3>3 DEF g
  <2>7. \A i \in 1..Len(v) :
          c[from + 1 + 4 * Len(t) + 4 * Len(o) + 5 * (i - 1) + 1] = v[i][1]
    <3> DEFINE g == from + 1 + 4 * Len(t) + 4 * Len(o)
    <3>1. g = from + Len(oto) /\ g \in Int
      BY <1>1, <1>12
    <3>2. Holds(c, g, vf)
      BY <2>1, <3>1
    <3> HIDE DEF g
    <3>3. ASSUME NEW i \in 1..Len(v)
          PROVE  c[g + 5 * (i - 1) + 1] = v[i][1]
      <4>1. Holds(c, g + 5 * (i - 1), vs[i]) /\ 1 \in 1..Len(vs[i]) /\ vs[i][1] = v[i][1]
        BY <1>8, <1>9, <3>1, <3>2
      <4>2. QED
        BY <4>1 DEF Holds
    <3>4. QED
      BY <3>3 DEF g
  <2>8. QED
    BY <2>4, <2>5, <2>6, <2>7 DEF Part, t, o, v
<1>15. QED
  BY <1>2, <1>13, <1>14 DEF instr

\* Where the string table and the code are in the file.
StringsAt(p) == 12 + 8 * Len(p.publics)
CodeAt(p) == StringsAt(p) + Len(p.strings)

LEMMA TableTyped ==
  ASSUME NEW p, IsTable(p)
  PROVE  /\ p.strings \in Seq(Byte) /\ Len(p.strings) \in Nat \ {0}
         /\ Len(p.strings) \in Int32 /\ Len(p.publics) \in Int32
         /\ p.strings[Len(p.strings)] = 0
         /\ Len(p.publics) \in Nat /\ DOMAIN p.publics = 1..Len(p.publics)
         /\ \A i \in 1..Len(p.publics) :
              p.publics[i].name \in 0..(Len(p.strings) - 1) /\ p.publics[i].entry \in DOMAIN p.code
<1> DEFINE E == [name : 0..(Len(p.strings) - 1), entry : DOMAIN p.code]
<1>1. /\ p.strings \in Seq(Byte) /\ p.strings # <<>> /\ Last(p.strings) = 0
      /\ p.publics \in Seq(E) /\ Len(p.strings) \in Int32 /\ Len(p.publics) \in Int32
  BY DEF IsTable
<1>2. Len(p.strings) \in Nat /\ Len(p.strings) # 0
  BY <1>1, SequenceEntries, EmptySeq
<1>3. p.strings[Len(p.strings)] = 0
  BY <1>1 DEF Last
<1>4. Len(p.publics) \in Nat /\ DOMAIN p.publics = 1..Len(p.publics)
      /\ \A i \in 1..Len(p.publics) : p.publics[i] \in E
  <2> HIDE DEF E
  <2>1. QED
    BY <1>1, SequenceEntries
<1>5. QED
  BY <1>1, <1>2, <1>3, <1>4

LEMMA FileParts ==
  ASSUME NEW p, IsCode(p), IsTable(p), IsFile(p)
  PROVE  LET f == File(p)
             n == Len(p.code)
         IN  /\ Len(f) = CodeAt(p) + OffsetIn(p.code, n + 1) /\ DOMAIN f = 1..Len(f)
             /\ Holds(f, 0, Bytes(p.sizes[1])) /\ Holds(f, 8, Bytes(p.sizes[3]))
             /\ \A i \in 1..Len(p.publics) :
                  /\ Holds(f, 12 + 8 * (i - 1), Bytes(p.publics[i].name))
                  /\ Holds(f, 16 + 8 * (i - 1), Bytes(OffsetIn(p.code, p.publics[i].entry)))
             /\ Holds(f, StringsAt(p), p.strings)
             /\ \A k \in 1..n : Part(p, p.code[k], f, CodeAt(p) + OffsetIn(p.code, k))
<1> DEFINE n == Len(p.code)
           np == Len(p.publics)
           text == p.strings
           zs == [i \in DOMAIN p.sizes |-> Bytes(p.sizes[i])]
           es == [i \in DOMAIN p.publics |-> PublicSymbol(p, p.publics[i])]
           is == [k \in DOMAIN p.code |-> Assembled(p.code, p.code[k])]
           zf == FlattenSeq(zs)
           ef == FlattenSeq(es)
           if == FlattenSeq(is)
           at == [k \in 1..(n + 1) |-> OffsetIn(p.code, k)]
<1>1. n \in Nat /\ DOMAIN p.code = 1..n
  BY CodeTyped
<1>2. /\ text \in Seq(Byte) /\ Len(text) \in Nat
      /\ np \in Nat /\ DOMAIN p.publics = 1..np
      /\ \A i \in 1..np : p.publics[i].name \in 0..(Len(text) - 1) /\ p.publics[i].entry \in 1..n
  BY <1>1, TableTyped
<1>3. DOMAIN p.sizes = 1..3 /\ \A i \in 1..3 : p.sizes[i] \in Int32
  <2>1. p.sizes \in Seq(Int32) /\ Len(p.sizes) = 3
    BY DEF IsFile
  <2>2. QED
    BY <2>1, SequenceEntries
<1>4. File(p) = ((zf \o ef) \o text) \o if
  BY DEF File
<1>5. /\ zf \in Seq(Byte) /\ Len(zf) = 12
      /\ \A c : \A from \in Int : Holds(c, from, zf) =>
           \A i \in 1..3 : Holds(c, from + 4 * (i - 1), zs[i])
  <2>1. \A i \in 1..3 : zs[i] \in Seq(Byte) /\ Len(zs[i]) = 4
    <3>1. ASSUME NEW i \in 1..3
          PROVE  zs[i] \in Seq(Byte) /\ Len(zs[i]) = 4
      <4>1. p.sizes[i] \in Int
        BY <1>3, Int32Bounds, SMT
      <4>2. zs[i] = Bytes(p.sizes[i])
        BY <1>3
      <4>3. QED
        BY <4>1, <4>2, BytesOfInt
    <3>2. QED
      BY <3>1
  <2>2. zs = [i \in 1..3 |-> zs[i]]
    BY <1>3
  <2> HIDE DEF zs
  <2>3. /\ zf \in Seq(Byte) /\ Len(zf) = 4 * 3
        /\ \A c : \A from \in Int : Holds(c, from, zf) =>
             \A i \in 1..3 : Holds(c, from + 4 * (i - 1), zs[i])
    BY <2>1, <2>2, HoldsPieces
  <2>4. QED
    BY <2>3
<1>6. \A i \in 1..np :
        LET a == Bytes(p.publics[i].name)
            b == Bytes(OffsetIn(p.code, p.publics[i].entry))
        IN  /\ a \in Seq(Byte) /\ Len(a) = 4 /\ b \in Seq(Byte) /\ Len(b) = 4
            /\ es[i] = a \o b /\ es[i] \in Seq(Byte) /\ Len(es[i]) = 8
  <2>1. SUFFICES ASSUME NEW i \in 1..np
                 PROVE  LET a == Bytes(p.publics[i].name)
                            b == Bytes(OffsetIn(p.code, p.publics[i].entry))
                        IN  /\ a \in Seq(Byte) /\ Len(a) = 4 /\ b \in Seq(Byte) /\ Len(b) = 4
                            /\ es[i] = a \o b /\ es[i] \in Seq(Byte) /\ Len(es[i]) = 8
    OBVIOUS
  <2> DEFINE a == Bytes(p.publics[i].name)
             b == Bytes(OffsetIn(p.code, p.publics[i].entry))
  <2>2. a \in Seq(Byte) /\ Len(a) = 4
    <3>1. p.publics[i].name \in Int
      BY <1>2
    <3>2. QED
      BY <3>1, BytesOfInt
  <2>3. b \in Seq(Byte) /\ Len(b) = 4
    <3>1. p.publics[i].entry \in 0..(n + 1)
      BY <1>1, <1>2
    <3>2. OffsetIn(p.code, p.publics[i].entry) \in Int
      BY <3>1, OffsetsFit
    <3>3. QED
      BY <3>2, BytesOfInt
  <2>4. es[i] = a \o b
    BY <1>2 DEF PublicSymbol
  <2> HIDE DEF a, b
  <2>5. a \o b \in Seq(Byte) /\ Len(a \o b) = Len(a) + Len(b)
    BY <2>2, <2>3, ConcatProperties
  <2>6. Len(a \o b) = 8
    BY <2>2, <2>3, <2>5
  <2> HIDE DEF es
  <2>7. QED
    BY <2>2, <2>3, <2>4, <2>5, <2>6 DEF a, b
<1>7. /\ ef \in Seq(Byte) /\ Len(ef) = 8 * np
      /\ \A c : \A from \in Int : Holds(c, from, ef) =>
           \A i \in 1..np : Holds(c, from + 8 * (i - 1), es[i])
  <2>1. es = [i \in 1..np |-> es[i]]
    BY <1>2
  <2>2. \A i \in 1..np : es[i] \in Seq(Byte) /\ Len(es[i]) = 8
    <3> HIDE DEF es
    <3>1. QED
      BY <1>6
  <2> HIDE DEF es
  <2>3. QED
    BY <1>2, <2>1, <2>2, HoldsPieces
<1>8. /\ if \in Seq(Byte) /\ Len(if) = OffsetIn(p.code, n + 1)
      /\ \A c : \A from \in Int : Holds(c, from, if) =>
           \A k \in 1..n : Holds(c, from + OffsetIn(p.code, k), is[k])
  <2>1. \A k \in 1..n : is[k] \in Seq(Byte) /\ Len(is[k]) = SizeOf(p.code[k])
    <3>1. ASSUME NEW k \in 1..n
          PROVE  is[k] \in Seq(Byte) /\ Len(is[k]) = SizeOf(p.code[k])
      <4>1. is[k] = Assembled(p.code, p.code[k])
        BY <1>1
      <4>2. QED
        BY <4>1, AssembledParts
    <3>2. QED
      BY <3>1
  <2>2. is = [k \in 1..n |-> is[k]]
    BY <1>1
  <2> HIDE DEF is
  <2>3. is \in [1..n -> Seq(Byte)]
    <3>1. \A k \in 1..n : is[k] \in Seq(Byte)
      BY <2>1
    <3>2. QED
      BY <2>2, <3>1, Zenon
  <2>4. is \in Seq(Seq(Byte)) /\ Len(is) = n
    BY <1>1, <2>3, FunctionIsSeq
  <2>5. /\ \A k \in 1..(n + 1) : OffsetIn(p.code, k) \in Int
        /\ \A k \in 1..n : OffsetIn(p.code, k + 1) = OffsetIn(p.code, k) + SizeOf(p.code[k])
        /\ OffsetIn(p.code, 1) = 0
    <3>1. \A k \in 1..(n + 1) : k \in 0..(n + 1)
      BY <1>1
    <3>2. \A k \in 1..n : k \in 0..(n + 1) /\ k \in Nat \ {0}
      BY <1>1
    <3>3. QED
      BY <3>1, <3>2, OffsetsFit, OffsetsUnfold
  <2>6. at \in [1..(Len(is) + 1) -> Int]
    BY <2>4, <2>5
  <2>7. \A k \in 1..(n + 1) : at[k] = OffsetIn(p.code, k)
    OBVIOUS
  <2>8. 1 \in 1..(n + 1) /\ n + 1 \in 1..(n + 1)
        /\ \A k \in 1..n : k \in 1..(n + 1) /\ k + 1 \in 1..(n + 1)
    BY <1>1
  <2> HIDE DEF at
  <2>9. Begins(at, is)
    <3>1. at[1] = 0
      BY <2>5, <2>7, <2>8
    <3>2. ASSUME NEW k \in 1..n PROVE at[k + 1] = at[k] + Len(is[k])
      BY <2>1, <2>5, <2>7, <2>8
    <3>3. QED
      BY <2>4, <3>1, <3>2 DEF Begins
  <2>10. /\ if \in Seq(Byte) /\ Len(if) = at[n + 1]
         /\ \A c : \A from \in Int : Holds(c, from, if) =>
              \A k \in 1..n : Holds(c, from + at[k], is[k])
    BY <2>4, <2>6, <2>9, HoldsEach
  <2>11. \A k \in 1..n : at[k] = OffsetIn(p.code, k)
    BY <2>7, <2>8
  <2>12. QED
    BY <2>7, <2>8, <2>10, <2>11
<1>9. /\ \A i \in 1..3 : zs[i] = Bytes(p.sizes[i])
      /\ \A k \in 1..n : is[k] = Assembled(p.code, p.code[k])
  BY <1>1, <1>3
<1> HIDE DEF n, np, text, zs, es, is, zf, ef, if, at
<1> DEFINE ze == zf \o ef
           zet == ze \o text
           all == zet \o if
<1>10. ze \in Seq(Byte) /\ Len(ze) = 12 + 8 * np
  <2>1. ze \in Seq(Byte) /\ Len(ze) = Len(zf) + Len(ef)
    BY <1>5, <1>7, ConcatProperties
  <2> HIDE DEF ze
  <2>2. QED
    BY <1>5, <1>7, <2>1
<1>11. zet \in Seq(Byte) /\ Len(zet) = 12 + 8 * np + Len(text)
  <2> HIDE DEF ze
  <2>1. zet \in Seq(Byte) /\ Len(zet) = Len(ze) + Len(text)
    BY <1>2, <1>10, ConcatProperties
  <2> HIDE DEF zet
  <2>2. QED
    BY <1>10, <2>1
<1>12. all \in Seq(Byte) /\ Len(all) = 12 + 8 * np + Len(text) + OffsetIn(p.code, n + 1)
  <2> HIDE DEF zet
  <2>1. all \in Seq(Byte) /\ Len(all) = Len(zet) + Len(if)
    BY <1>8, <1>11, ConcatProperties
  <2> HIDE DEF all
  <2>2. QED
    BY <1>8, <1>11, <2>1
<1>13. StringsAt(p) = 12 + 8 * np /\ CodeAt(p) = 12 + 8 * np + Len(text)
       /\ StringsAt(p) \in Int /\ CodeAt(p) \in Int
  BY <1>2 DEF StringsAt, CodeAt, np, text
<1>14. Holds(all, 0, all) /\ DOMAIN all = 1..Len(all)
  <2> HIDE DEF all
  <2>1. DOMAIN all = 1..Len(all) /\ \A j \in 1..Len(all) : 0 + j = j
    BY <1>12, SequenceEntries
  <2>2. QED
    BY <2>1 DEF Holds
<1>15. Holds(all, 0, zet) /\ Holds(all, CodeAt(p), if)
  <2> HIDE DEF zet
  <2>1. Holds(all, 0, zet) /\ Holds(all, 0 + Len(zet), if)
    BY <1>8, <1>11, <1>14, HoldsBoth
  <2> HIDE DEF all
  <2>2. 0 + Len(zet) = CodeAt(p)
    BY <1>2, <1>11, <1>13
  <2>3. QED
    BY <2>1, <2>2
<1> HIDE DEF all
<1>16. Holds(all, 0, ze) /\ Holds(all, StringsAt(p), text)
  <2> HIDE DEF ze
  <2>1. Holds(all, 0, ze) /\ Holds(all, 0 + Len(ze), text)
    BY <1>2, <1>10, <1>15, HoldsBoth
  <2>2. 0 + Len(ze) = StringsAt(p)
    BY <1>2, <1>10, <1>13
  <2>3. QED
    BY <2>1, <2>2
<1>17. Holds(all, 0, zf) /\ Holds(all, 12, ef)
  <2>1. Holds(all, 0, zf) /\ Holds(all, 0 + Len(zf), ef)
    <3>1. \A from \in Int : Holds(all, from, zf \o ef) =>
            Holds(all, from, zf) /\ Holds(all, from + Len(zf), ef)
      BY <1>5, <1>7, HoldsBoth
    <3>2. Holds(all, 0, zf \o ef) /\ 0 \in Int
      BY <1>16
    <3>3. QED
      BY <3>1, <3>2
  <2>2. 0 + Len(zf) = 12
    BY <1>5
  <2>3. QED
    BY <2>1, <2>2
<1>18. Holds(all, 0, Bytes(p.sizes[1])) /\ Holds(all, 8, Bytes(p.sizes[3]))
  <2>1. 1 \in 1..3 /\ 3 \in 1..3 /\ 0 + 4 * (1 - 1) = 0 /\ 0 + 4 * (3 - 1) = 8
    BY SMT
  <2>2. Holds(all, 0 + 4 * (1 - 1), zs[1]) /\ Holds(all, 0 + 4 * (3 - 1), zs[3])
    BY <1>5, <1>17, <2>1
  <2>3. QED
    BY <1>9, <2>1, <2>2
<1>19. ASSUME NEW i \in 1..np
       PROVE  /\ Holds(all, 12 + 8 * (i - 1), Bytes(p.publics[i].name))
              /\ Holds(all, 16 + 8 * (i - 1), Bytes(OffsetIn(p.code, p.publics[i].entry)))
  <2> DEFINE a == Bytes(p.publics[i].name)
             b == Bytes(OffsetIn(p.code, p.publics[i].entry))
             from == 12 + 8 * (i - 1)
  <2>1. a \in Seq(Byte) /\ Len(a) = 4 /\ b \in Seq(Byte) /\ es[i] = a \o b
    BY <1>6
  <2>2. from \in Int /\ from + 4 = 16 + 8 * (i - 1)
    BY <1>2
  <2>3. Holds(all, from, es[i])
    BY <1>7, <1>17
  <2> HIDE DEF a, b, from
  <2>4. Holds(all, from, a) /\ Holds(all, from + Len(a), b)
    BY <2>1, <2>2, <2>3, HoldsBoth
  <2>5. QED
    BY <2>1, <2>2, <2>4 DEF a, b, from
<1>20. ASSUME NEW k \in 1..n
       PROVE  Part(p, p.code[k], all, CodeAt(p) + OffsetIn(p.code, k))
  <2>1. k \in 0..(n + 1) /\ k \in 1..Len(p.code)
    BY <1>1 DEF n
  <2>2. OffsetIn(p.code, k) \in Int
    BY <2>1, OffsetsFit DEF n
  <2>3. CodeAt(p) + OffsetIn(p.code, k) \in Int
    BY <1>13, <2>2
  <2>4. Holds(all, CodeAt(p) + OffsetIn(p.code, k), Assembled(p.code, p.code[k]))
    BY <1>8, <1>9, <1>13, <1>15
  <2>5. QED
    BY <2>1, <2>3, <2>4, AssembledParts
<1>21. File(p) = all
  BY <1>4 DEF all, text
<1>22. Len(all) = CodeAt(p) + OffsetIn(p.code, n + 1)
  BY <1>12, <1>13
<1> HIDE DEF ze, zet
<1>23. QED
  BY <1>14, <1>16, <1>18, <1>19, <1>20, <1>21, <1>22 DEF n, np, text

-----------------------------------------------------------------------------
(* The file in memory.                                                       *)

\* Every program has the file of one.
LEMMA ProgramsFit ==
  ASSUME NEW p \in Programs
  PROVE  IsCode(p) /\ IsTable(p) /\ IsFile(p)
BY ProgramsAssumption

\* The struct begins with five pointers and three integers.
LEMMA Header ==
  SizesAt = 40 /\ BufferAt = 52
BY SMT DEF SizesAt, BufferAt

LEMMA SizesRead ==
  program \in Programs /\ contents = File(program) =>
    /\ stringtab_size = program.sizes[1] /\ stringtab_size \in Int
    /\ public_symbols_number = program.sizes[3] /\ public_symbols_number \in Int
    /\ Len(contents) = CodeAt(program) + OffsetIn(program.code, Len(program.code) + 1)
    /\ Len(contents) \in Nat
    /\ SizesFit <=> Loads(program)
<1> DEFINE p == program
           np == Len(p.publics)
           ns == Len(p.strings)
           last == OffsetIn(p.code, Len(p.code) + 1)
<1> SUFFICES ASSUME p \in Programs, contents = File(p)
             PROVE  /\ stringtab_size = p.sizes[1] /\ stringtab_size \in Int
                    /\ public_symbols_number = p.sizes[3] /\ public_symbols_number \in Int
                    /\ Len(contents) = CodeAt(p) + last
                    /\ Len(contents) \in Nat
                    /\ SizesFit <=> Loads(p)
  OBVIOUS
<1>1. IsCode(p) /\ IsTable(p) /\ IsFile(p)
  BY ProgramsFit
<1>2. /\ Holds(contents, 0, Bytes(p.sizes[1])) /\ Holds(contents, 8, Bytes(p.sizes[3]))
      /\ Len(contents) = CodeAt(p) + last
  BY <1>1, FileParts
<1>3. p.sizes[1] \in Int32 /\ p.sizes[3] \in Int32
  <2>1. p.sizes \in Seq(Int32) /\ Len(p.sizes) = 3
    BY <1>1 DEF IsFile
  <2>2. QED
    BY <2>1, SequenceEntries
<1>4. p.sizes[1] \in Int /\ p.sizes[3] \in Int
  BY <1>3, Int32Bounds, SMT
<1>5. stringtab_size = p.sizes[1]
  <2>1. SizesAt \in Int /\ SizesAt - SizesAt = 0
    BY Header
  <2>2. IntAt(SizesAt) = p.sizes[1]
    BY <1>2, <1>3, <2>1, IntRead
  <2>3. QED
    BY <2>2 DEF stringtab_size
<1>6. public_symbols_number = p.sizes[3]
  <2>1. PICK a \in Int : a = SizesAt + 8 /\ a - SizesAt = 8
    BY Header
  <2>2. Holds(contents, a - SizesAt, Bytes(p.sizes[3]))
    BY <1>2, <2>1
  <2>3. IntAt(a) = p.sizes[3]
    BY <1>3, <2>2, IntRead
  <2>4. QED
    BY <2>1, <2>3 DEF public_symbols_number
<1>7. np \in Nat /\ ns \in Nat
  BY <1>1, TableTyped
<1>8. last \in Nat
  <2>1. Len(p.code) \in Nat
    BY <1>1, CodeTyped
  <2>2. Len(p.code) + 1 \in 0..(Len(p.code) + 1) /\ Len(p.code) + 1 # 0
    BY <2>1
  <2>3. QED
    BY <1>1, <2>2, OffsetsFit
<1>9. CodeAt(p) = 12 + 8 * np + ns
  BY DEF CodeAt, StringsAt
<1>10. \/ p.sizes[1] = ns /\ p.sizes[3] = np
       \/ p.sizes[1] < 0
       \/ p.sizes[3] < 0
       \/ 8 * p.sizes[3] + p.sizes[1] > 12 + 8 * np + ns + last
  <2>1. \/ Loads(p)
        \/ p.sizes[1] < 0
        \/ p.sizes[3] < 0
        \/ 8 * p.sizes[3] + p.sizes[1] > 3 * 4 + 8 * np + ns + last
    BY <1>1 DEF IsFile
  <2>2. 3 * 4 = 12
    OBVIOUS
  <2>3. QED
    BY <2>1, <2>2 DEF Loads
<1>11. Loads(p) <=> p.sizes[1] = ns /\ p.sizes[3] = np
  BY DEF Loads
<1>12. SizesFit <=> /\ p.sizes[3] >= 0
                    /\ p.sizes[1] >= 0
                    /\ 8 * p.sizes[3] + p.sizes[1] <= CodeAt(p) + last
  BY <1>2, <1>5, <1>6 DEF SizesFit
<1> HIDE DEF p, np, ns, last
<1>13. SizesFit <=> Loads(p)
  BY <1>4, <1>7, <1>8, <1>9, <1>10, <1>11, <1>12
<1>14. Len(contents) \in Nat
  BY <1>2, <1>7, <1>8, <1>9
<1>15. QED
  BY <1>2, <1>4, <1>5, <1>6, <1>13, <1>14 DEF p, last

Total == OffsetIn(program.code, Len(program.code) + 1)
Pos(k) == code_ptr + OffsetIn(program.code, k)

\* A program with a fit file has been read.
Loaded ==
  /\ program \in Programs
  /\ contents = File(program)
  /\ Loads(program)
  /\ string_ptr = SizesAt + StringsAt(program)
  /\ code_ptr = SizesAt + CodeAt(program)
  /\ code_end = code_ptr + Total + 12

\* What the areas of the file are.
LEMMA Areas ==
  ASSUME Loaded
  PROVE  /\ IsCode(program) /\ IsTable(program) /\ IsFile(program)
         /\ code_ptr \in Nat /\ code_ptr >= 52 /\ Total \in Nat
         /\ string_ptr \in Nat
         /\ stringtab_size = Len(program.strings) /\ Len(program.strings) \in Nat
         /\ public_symbols_number = Len(program.publics) /\ Len(program.publics) \in Nat
         /\ \A a \in Int : a >= SizesAt => (IsWritten(a) <=> a < code_ptr + Total)
         /\ \A a, m \in Int : InBounds(a, m) <=> code_ptr <= a /\ a + m <= code_ptr + Total + 12
<1> DEFINE p == program
           np == Len(p.publics)
           ns == Len(p.strings)
<1>1. /\ p \in Programs /\ contents = File(p) /\ Loads(p)
      /\ string_ptr = SizesAt + StringsAt(p)
      /\ code_ptr = SizesAt + CodeAt(p) /\ code_end = code_ptr + Total + 12
  BY DEF Loaded
<1>2. IsCode(p) /\ IsTable(p) /\ IsFile(p)
  BY <1>1, ProgramsFit
<1>3. np \in Nat /\ ns \in Nat
  BY <1>2, TableTyped
<1>4. Total \in Nat
  <2>1. Len(p.code) \in Nat
    BY <1>2, CodeTyped
  <2>2. Len(p.code) + 1 \in 0..(Len(p.code) + 1) /\ Len(p.code) + 1 # 0
    BY <2>1
  <2>3. QED
    BY <1>2, <2>2, OffsetsFit DEF Total
<1>5. stringtab_size = ns /\ public_symbols_number = np
  BY <1>1, SizesRead DEF Loads
<1>6. Len(contents) = CodeAt(p) + Total /\ DOMAIN contents = 1..Len(contents)
  BY <1>1, <1>2, FileParts DEF Total
<1>7. StringsAt(p) \in Nat /\ CodeAt(p) \in Nat /\ CodeAt(p) >= 12
  <2>1. StringsAt(p) = 12 + 8 * np /\ CodeAt(p) = 12 + 8 * np + ns
    BY DEF CodeAt, StringsAt
  <2> HIDE DEF np, ns
  <2>2. QED
    BY <1>3, <2>1
<1>8. SizesAt = 40
  BY Header
<1>9. /\ code_ptr \in Nat /\ code_ptr >= 52 /\ code_ptr = 40 + CodeAt(p)
      /\ string_ptr \in Nat /\ Len(contents) \in Nat
  BY <1>1, <1>4, <1>6, <1>7, <1>8
<1>10. ASSUME NEW a \in Int, a >= SizesAt
       PROVE  IsWritten(a) <=> a < code_ptr + Total
  <2>1. IsWritten(a) <=> a - 40 + 1 \in 1..Len(contents)
    BY <1>6, <1>8 DEF IsWritten
  <2>2. QED
    BY <1>4, <1>6, <1>7, <1>8, <1>9, <1>10, <2>1
<1>11. ASSUME NEW a \in Int, NEW m \in Int
       PROVE  InBounds(a, m) <=> code_ptr <= a /\ a + m <= code_ptr + Total + 12
  BY <1>1 DEF InBounds
<1>12. QED
  BY <1>2, <1>3, <1>4, <1>5, <1>9, <1>10, <1>11

\* Positions of the code.
LEMMA Positions ==
  ASSUME Loaded, NEW k \in 0..(Len(program.code) + 1)
  PROVE  /\ Pos(k) \in Int /\ Pos(k) >= code_ptr - 1 /\ Pos(k) <= code_ptr + Total
         /\ k # 0 => Pos(k) >= code_ptr
         /\ Pos(0) = code_ptr - 1
         /\ Pos(Len(program.code) + 1) = code_ptr + Total
         /\ k \in 1..Len(program.code) =>
              /\ SizeOf(program.code[k]) \in Nat \ {0}
              /\ Pos(k + 1) = Pos(k) + SizeOf(program.code[k])
              /\ Pos(k + 1) <= code_ptr + Total
         /\ InstrAt(Pos(k)) = k
<1> DEFINE n == Len(program.code)
           at == OffsetIn(program.code, k)
<1>1. IsCode(program) /\ code_ptr \in Nat /\ code_ptr >= 52 /\ Total \in Nat
  BY Areas
<1>2. n \in Nat /\ (k \in 1..n => SizeOf(program.code[k]) \in Nat \ {0})
  BY <1>1, CodeTyped
<1>3. /\ at \in Int /\ -1 <= at /\ (k # 0 => at \in Nat) /\ at <= Total
      /\ k \in 1..n => OffsetIn(program.code, k + 1) = at + SizeOf(program.code[k])
  BY <1>1, OffsetsFit DEF Total
<1>4. OffsetIn(program.code, 0) = -1
  BY OffsetsUnfold
<1>5. Pos(k) = code_ptr + at /\ Pos(0) = code_ptr - 1 /\ Pos(n + 1) = code_ptr + Total
  BY <1>1, <1>4 DEF Pos, Total
<1>6. k \in 1..n => /\ Pos(k + 1) = Pos(k) + SizeOf(program.code[k])
                    /\ Pos(k + 1) <= code_ptr + Total
  <2>1. SUFFICES ASSUME k \in 1..n
                 PROVE  /\ Pos(k + 1) = Pos(k) + SizeOf(program.code[k])
                        /\ Pos(k + 1) <= code_ptr + Total
    OBVIOUS
  <2>2. k + 1 \in 0..(n + 1)
    BY <1>2, <2>1
  <2>3. OffsetIn(program.code, k + 1) \in Int /\ OffsetIn(program.code, k + 1) <= Total
    BY <1>1, <2>2, OffsetsFit DEF Total
  <2>4. Pos(k + 1) = code_ptr + OffsetIn(program.code, k + 1)
    BY DEF Pos
  <2>5. QED
    BY <1>1, <1>2, <1>3, <1>5, <2>1, <2>3, <2>4
<1>7. InstrAt(Pos(k)) = k
  <2>1. Pos(k) # 0 /\ Pos(k) - code_ptr = at
    BY <1>1, <1>3, <1>5
  <2>2. InstrIn(program.code, at) = k
    BY <1>1, OffsetsInstr
  <2>3. QED
    BY <2>1, <2>2 DEF InstrAt
<1> HIDE DEF at
<1>8. QED
  BY <1>1, <1>2, <1>3, <1>5, <1>6, <1>7

\* An instruction is fetched with what it was assembled of.
Fetches(k) ==
  LET instr == program.code[k]
  IN  /\ ip \in Int /\ Code = instr.op /\ IsWritten(ip)
      /\ \A i \in 1..Len(instr.target) : Arg(i) = OffsetIn(program.code, instr.target[i])
      /\ \A i \in 1..Len(instr.operands) : Arg(Len(instr.target) + i) = instr.operands[i]
      /\ \A i \in 1..Len(instr.captured) :
           ByteAt(ip + 1 + 4 * Numbers(instr) + 5 * (i - 1)) = instr.captured[i][1]
      /\ InBounds(ip, 1)
      /\ ip + 1 + 4 * Numbers(instr) + 5 * Len(instr.captured) = Pos(k + 1)
      /\ Numbers(instr) \in Nat /\ Len(instr.captured) \in Nat

LEMMA Fetching ==
  ASSUME Loaded, NEW k \in 1..Len(program.code), ip = Pos(k)
  PROVE  Fetches(k)
<1> DEFINE n == Len(program.code)
           instr == program.code[k]
           t == Len(instr.target)
           o == Len(instr.operands)
           v == Len(instr.captured)
           from == CodeAt(program) + OffsetIn(program.code, k)
<1>1. /\ IsCode(program) /\ IsTable(program) /\ IsFile(program)
      /\ code_ptr \in Nat /\ code_ptr >= 52 /\ Total \in Nat
      /\ \A a \in Int : a >= SizesAt => (IsWritten(a) <=> a < code_ptr + Total)
      /\ \A a, m \in Int : InBounds(a, m) <=> code_ptr <= a /\ a + m <= code_ptr + Total + 12
  BY Areas
<1>2. /\ instr.target \in Seq(0..(n + 1)) /\ instr.operands \in Seq(Int32)
      /\ t \in Nat /\ o \in Nat /\ v \in Nat /\ n \in Nat /\ k \in 0..(n + 1)
  BY <1>1, CodeTyped
<1>3. /\ \A i \in 1..t : instr.target[i] \in 0..(n + 1)
      /\ \A i \in 1..o : instr.operands[i] \in Int32
  BY <1>2, SequenceEntries
<1>4. /\ ip \in Int /\ ip >= code_ptr
      /\ Pos(k + 1) = ip + SizeOf(instr) /\ Pos(k + 1) <= code_ptr + Total
      /\ SizeOf(instr) \in Nat \ {0}
  BY <1>2, Positions
<1>5. SizesAt = 40
  BY Header
<1>6. ip = 40 + from /\ from \in Int /\ code_ptr = 40 + CodeAt(program)
  <2>1. OffsetIn(program.code, k) \in Int
    BY <1>1, <1>2, OffsetsFit
  <2>2. CodeAt(program) \in Int
    <3>1. PICK i \in Int, j \in Int : i = Len(program.publics) /\ j = Len(program.strings)
      BY <1>1, TableTyped
    <3>2. QED
      BY <3>1 DEF CodeAt, StringsAt
  <2>3. code_ptr = 40 + CodeAt(program) /\ ip = code_ptr + OffsetIn(program.code, k)
    BY <1>5 DEF Loaded, Pos
  <2>4. QED
    BY <2>1, <2>2, <2>3
<1>7. Part(program, instr, contents, from)
  BY <1>1, FileParts DEF Loaded
<1>8. Numbers(instr) = t + o /\ SizeOf(instr) = 1 + 4 * (t + o) + 5 * v
  BY DEF Numbers, SizeOf
<1> HIDE DEF from, instr, t, o, v
<1>9. Code = instr.op
  <2>1. ip - SizesAt + 1 = from + 1
    BY <1>5, <1>6
  <2>2. QED
    BY <1>7, <2>1 DEF Part, Code, ByteAt
<1>10. IsWritten(ip) /\ InBounds(ip, 1)
  <2>1. ip >= SizesAt /\ ip < code_ptr + Total /\ code_ptr <= ip /\ ip + 1 <= code_ptr + Total + 12
    BY <1>1, <1>4, <1>5
  <2>2. QED
    BY <1>1, <1>4, <2>1
<1>11. \A i \in 1..t : Arg(i) = OffsetIn(program.code, instr.target[i])
  <2>1. SUFFICES ASSUME NEW i \in 1..t
                 PROVE  Arg(i) = OffsetIn(program.code, instr.target[i])
    OBVIOUS
  <2> DEFINE b == OffsetIn(program.code, instr.target[i])
  <2>2. b \in Int32
    BY <1>1, <1>3, OffsetsFit
  <2>3. Holds(contents, from + 1 + 4 * (i - 1), Bytes(b))
    BY <1>7 DEF Part, t
  <2> HIDE DEF b
  <2>4. PICK a \in Int : a = ip + 1 + 4 * (i - 1) /\ a - SizesAt = from + 1 + 4 * (i - 1)
    BY <1>2, <1>4, <1>5, <1>6
  <2>5. IntAt(a) = b
    BY <2>2, <2>3, <2>4, IntRead
  <2>6. QED
    BY <2>4, <2>5 DEF Arg, b
<1>12. \A i \in 1..o : Arg(t + i) = instr.operands[i]
  <2>1. SUFFICES ASSUME NEW i \in 1..o
                 PROVE  Arg(t + i) = instr.operands[i]
    OBVIOUS
  <2> DEFINE b == instr.operands[i]
  <2>2. b \in Int32
    BY <1>3
  <2>3. Holds(contents, from + 1 + 4 * t + 4 * (i - 1), Bytes(b))
    BY <1>7 DEF Part, t, o
  <2> HIDE DEF b
  <2>4. PICK a \in Int : a = ip + 1 + 4 * ((t + i) - 1)
                         /\ a - SizesAt = from + 1 + 4 * t + 4 * (i - 1)
    BY <1>2, <1>4, <1>5, <1>6
  <2>5. IntAt(a) = b
    BY <2>2, <2>3, <2>4, IntRead
  <2>6. Arg(t + i) = IntAt(a)
    BY <2>4, Zenon DEF Arg
  <2>7. QED
    BY <2>5, <2>6 DEF b
<1>13. \A i \in 1..v : ByteAt(ip + 1 + 4 * (t + o) + 5 * (i - 1)) = instr.captured[i][1]
  <2>1. SUFFICES ASSUME NEW i \in 1..v
                 PROVE  ByteAt(ip + 1 + 4 * (t + o) + 5 * (i - 1)) = instr.captured[i][1]
    OBVIOUS
  <2>2. contents[from + 1 + 4 * t + 4 * o + 5 * (i - 1) + 1] = instr.captured[i][1]
    BY <1>7 DEF Part, t, o, v
  <2>3. PICK a \in Int :
          /\ a = ip + 1 + 4 * (t + o) + 5 * (i - 1)
          /\ a - SizesAt + 1 = from + 1 + 4 * t + 4 * o + 5 * (i - 1) + 1
    BY <1>2, <1>4, <1>5, <1>6
  <2>4. ByteAt(a) = instr.captured[i][1]
    BY <2>2, <2>3, Zenon DEF ByteAt
  <2>5. QED
    BY <2>3, <2>4
<1>14. ip + 1 + 4 * (t + o) + 5 * v = Pos(k + 1)
  BY <1>2, <1>4, <1>8
<1>15. t + o \in Nat
  BY <1>2
<1>16. QED
  BY <1>2, <1>4, <1>8, <1>9, <1>10, <1>11, <1>12, <1>13, <1>14, <1>15
     DEF Fetches, instr, t, o, v

\* All the operands are in the file.
LEMMA WholeFetched ==
  ASSUME Loaded, NEW k \in 1..Len(program.code), ip = Pos(k),
         Whole(program.code[k]), program.code[k].op \in Valid
  PROVE  /\ AfterOperands = ip + 1 + 4 * Numbers(program.code[k])
         /\ ~ Unwritten
         /\ Fits <=> /\ Code \notin Failing
                     /\ Code \in WithString => IsString(Arg(1))
         /\ program.code[k].captured = <<>> => AfterOperands = Pos(k + 1)
<1> DEFINE instr == program.code[k]
           w == Numbers(instr)
           v == Len(instr.captured)
<1>1. /\ ip \in Int /\ Code = instr.op /\ IsWritten(ip) /\ InBounds(ip, 1)
      /\ ip + 1 + 4 * w + 5 * v = Pos(k + 1) /\ w \in Nat /\ v \in Nat
  BY Fetching DEF Fetches
<1>2. /\ code_ptr \in Nat /\ Total \in Nat
      /\ \A a \in Int : a >= SizesAt => (IsWritten(a) <=> a < code_ptr + Total)
      /\ \A a, m \in Int : InBounds(a, m) <=> code_ptr <= a /\ a + m <= code_ptr + Total + 12
      /\ IsCode(program) /\ code_ptr >= 52
  BY Areas
<1>3. NOperands = w
  BY <1>1 DEF NOperands, Whole
<1>4. Len(program.code) \in Nat
  BY <1>2, CodeTyped
<1>5. k \in 0..(Len(program.code) + 1) /\ k # 0
  BY <1>4
<1>6. Pos(k + 1) <= code_ptr + Total /\ ip >= code_ptr
  BY <1>5, Positions
<1>7. AfterOperands = ip + 1 + 4 * w
  BY <1>3 DEF AfterOperands
<1>8. instr.captured = <<>> => v = 0
  BY EmptySeq
<1>9. Code \in Valid
  BY <1>1
<1> HIDE DEF instr, w, v
<1>10. IsWritten(AfterOperands - 1) /\ InBounds(ip, AfterOperands - ip)
  <2>1. /\ AfterOperands - 1 \in Int /\ AfterOperands - ip \in Int
        /\ AfterOperands - 1 >= SizesAt /\ AfterOperands - 1 < code_ptr + Total
        /\ code_ptr <= ip /\ ip + (AfterOperands - ip) <= code_ptr + Total + 12
    <3>1. PICK b \in Int, c \in Int, d \in Int :
            /\ b = AfterOperands /\ b = ip + 1 + 4 * w
            /\ c = Pos(k + 1) /\ c = b + 5 * v
            /\ d = code_ptr + Total
      BY <1>1, <1>2, <1>7
    <3>2. b >= ip + 1 /\ b <= c /\ c <= d
      <4>1. b >= ip + 1
        BY <1>1, <3>1
      <4>2. b <= c
        BY <1>1, <3>1
      <4>3. c <= d
        BY <1>6, <3>1
      <4>4. QED
        BY <4>1, <4>2, <4>3
    <3>3. SizesAt = 40 /\ ip >= 52
      BY <1>1, <1>2, <1>6, Header
    <3>4. b - 1 \in Int /\ b - ip \in Int /\ b - 1 >= SizesAt /\ b - 1 < d
          /\ ip + (b - ip) <= d + 12
      BY <1>1, <3>2, <3>3
    <3>5. QED
      BY <1>6, <3>1, <3>4
  <2>2. QED
    BY <1>1, <1>2, <2>1
<1>11. ~ Unwritten
  BY <1>1, <1>10 DEF Unwritten
<1>12. Fits <=> Code \notin Failing /\ (Code \in WithString => IsString(Arg(1)))
  BY <1>1, <1>9, <1>10 DEF Fits
<1>13. instr.captured = <<>> => AfterOperands = Pos(k + 1)
  BY <1>1, <1>7, <1>8
<1>14. QED
  BY <1>7, <1>11, <1>12, <1>13 DEF instr, w

-----------------------------------------------------------------------------
(* The invariant.                                                            *)

\* Return addresses are of instructions after the first one.
Returning == {0} \cup {Pos(k) : k \in 2..(Len(program.code) + 1)}
CodeEntries == {OffsetIn(program.code, k) : k \in 1..Len(program.code)}

\* The machine is at an instruction, at the end of the code, or before it.
InCode ==
  /\ \E k \in 0..(Len(program.code) + 1) : ip = Pos(k)
  /\ returns \in Seq(Returning) /\ returns # <<>> /\ returns[1] = 0
  /\ closures \subseteq CodeEntries

Unstarted == ip = 0 /\ returns = <<>> /\ closures = {}

\* What is so between the steps.
IInv ==
  /\ program \in Programs
  /\ state = "reading" => Unstarted
  /\ state = "read" => Loaded /\ Unstarted
  /\ state = "running" => Loaded /\ InCode

Ended == {"stopped", "failed", "strayed"}

\* The end of the program.
LEMMA EndsStep ==
  ASSUME IInv, NEW how \in Ended, Ends(how)
  PROVE  IInv' /\ Abstract!Ends(how)
<1>1. UNCHANGED <<program, code_ptr, ip, returns, closures>> /\ state' = how
  BY DEF Ends, bytefile
<1>2. program \in Programs
  BY DEF IInv
<1>3. state' # "reading" /\ state' # "read" /\ state' # "running"
  BY <1>1 DEF Ended
<1>4. IInv'
  BY <1>1, <1>2, <1>3 DEF IInv
<1>5. Abstract!Ends(how)
  BY <1>1 DEF Abstract!Ends, InstrAt
<1>6. QED
  BY <1>4, <1>5

\* What the steps of the running machine leave alone.
LEMMA LoadedStays ==
  ASSUME Loaded, UNCHANGED bytefile
  PROVE  /\ Loaded' /\ program' = program /\ code_ptr' = code_ptr
         /\ Returning' = Returning /\ CodeEntries' = CodeEntries
         /\ \A k : Pos(k)' = Pos(k)
         /\ \A a : InstrAt(a)' = InstrAt(a)
<1>1. UNCHANGED <<program, contents, string_ptr, code_ptr, code_end>>
  BY DEF bytefile
<1>2. \A k : Pos(k)' = Pos(k)
  BY <1>1 DEF Pos
<1>3. Total' = Total
  BY <1>1 DEF Total
<1>4. Loaded'
  BY <1>1, <1>3 DEF Loaded
<1>5. Returning' = Returning /\ CodeEntries' = CodeEntries
  BY <1>1 DEF Returning, CodeEntries, Pos
<1>6. \A a : InstrAt(a)' = InstrAt(a)
  BY <1>1 DEF InstrAt
<1>7. QED
  BY <1>1, <1>2, <1>4, <1>5, <1>6

\* The machine goes on at another instruction.
LEMMA GoesStep ==
  ASSUME IInv, state = "running", NEW k \in 0..(Len(program.code) + 1), Goes(Pos(k))
  PROVE  IInv' /\ Abstract!Goes(k)
<1>1. Loaded /\ InCode /\ program \in Programs
  BY DEF IInv
<1>2. /\ UNCHANGED bytefile /\ ip' = Pos(k)
      /\ UNCHANGED <<returns, closures, state>>
  BY DEF Goes
<1>3. /\ Loaded' /\ program' = program
      /\ Returning' = Returning /\ CodeEntries' = CodeEntries
      /\ \A j : Pos(j)' = Pos(j)
      /\ \A a : InstrAt(a)' = InstrAt(a)
      /\ code_ptr' = code_ptr
  BY <1>1, <1>2, LoadedStays
<1>4. ip' = Pos(k)'
  BY <1>2, <1>3
<1>5. InCode'
  BY <1>1, <1>2, <1>3, <1>4 DEF InCode
<1>6. IInv'
  BY <1>1, <1>2, <1>3, <1>5 DEF IInv
<1>7. InstrAt(ip)' = k
  <2>1. InstrAt(Pos(k)) = k
    BY <1>1, Positions
  <2>2. InstrAt(ip)' = IF ip' = 0 THEN 0 ELSE InstrIn(program'.code, ip' - code_ptr')
    BY DEF InstrAt
  <2>3. QED
    BY <1>2, <1>3, <2>1, <2>2 DEF InstrAt
<1>8. Abstract!Goes(k)
  BY <1>2, <1>3, <1>7 DEF Abstract!Goes, InstrAt
<1>9. QED
  BY <1>6, <1>8

\* A frame is entered, for the return behind the instruction.
LEMMA CallsStep ==
  ASSUME IInv, state = "running", NEW j \in 1..Len(program.code), ip = Pos(j),
         AfterOperands = Pos(j + 1),
         NEW k \in 1..Len(program.code), Calls(OffsetIn(program.code, k))
  PROVE  IInv' /\ Abstract!Calls(k)
<1>1. Loaded /\ InCode /\ program \in Programs
  BY DEF IInv
<1>2. /\ UNCHANGED bytefile /\ ip' = Pos(k) /\ returns' = Append(returns, Pos(j + 1))
      /\ UNCHANGED <<closures, state>>
  BY DEF Calls, Pos
<1>3. /\ Loaded' /\ program' = program
      /\ Returning' = Returning /\ CodeEntries' = CodeEntries
      /\ \A i : Pos(i)' = Pos(i)
      /\ code_ptr' = code_ptr
  BY <1>1, <1>2, LoadedStays
<1>4. Len(program.code) \in Nat
  BY <1>1, Areas, CodeTyped
<1>5. j \in 0..(Len(program.code) + 1) /\ j + 1 \in 0..(Len(program.code) + 1)
      /\ k \in 0..(Len(program.code) + 1) /\ j + 1 \in 2..(Len(program.code) + 1)
  BY <1>4
<1>6. Pos(j + 1) \in Returning
  BY <1>5 DEF Returning
<1>7. returns \in Seq(Returning) /\ returns # <<>> /\ returns[1] = 0
  BY <1>1 DEF InCode
<1>8. Len(returns) \in Nat \ {0}
  BY <1>7, SequenceEntries, EmptySeq
<1> DEFINE x == Pos(j + 1)
           n == Len(returns)
           new == Append(returns, x)
<1>9. /\ new \in Seq(Returning) /\ Len(new) = n + 1 /\ new[n + 1] = x
      /\ \A i \in 1..n : new[i] = returns[i]
  <2> HIDE DEF x
  <2>1. x \in Returning
    BY <1>6 DEF x
  <2>2. QED
    BY <1>7, <2>1, AppendProperties
<1>10. DOMAIN returns = 1..n /\ DOMAIN new = 1..(n + 1)
  <2> HIDE DEF new
  <2>1. QED
    BY <1>7, <1>9, SequenceEntries
<1>11. returns' = new
  BY <1>2
<1> HIDE DEF x, n, new
<1>12. n \in Nat \ {0} /\ 1 \in 1..n /\ n + 1 \in 1..(n + 1)
       /\ \A i \in 1..(n + 1) : i = n + 1 \/ i \in 1..n
  BY <1>8 DEF n
<1>13. InCode'
  <2>1. ip' = Pos(k)'
    BY <1>2, <1>3
  <2>2. new[1] = 0
    BY <1>7, <1>9, <1>12
  <2>3. new # <<>>
    <3>1. Len(new) # 0
      BY <1>9, <1>12
    <3>2. QED
      BY <3>1, EmptySeq
  <2>4. QED
    BY <1>1, <1>2, <1>3, <1>5, <1>9, <1>11, <2>1, <2>2, <2>3 DEF InCode
<1>14. IInv'
  BY <1>1, <1>2, <1>3, <1>13 DEF IInv
<1>15. InstrAt(ip)' = k /\ InstrAt(ip) = j /\ InstrAt(x) = j + 1
  <2>1. InstrAt(Pos(k)) = k /\ InstrAt(Pos(j)) = j /\ InstrAt(Pos(j + 1)) = j + 1
    BY <1>1, <1>5, Positions
  <2>2. InstrAt(ip)' = InstrAt(Pos(k))
    BY <1>2, <1>3 DEF InstrAt
  <2>3. QED
    BY <2>1, <2>2 DEF x
<1>16. [i \in DOMAIN returns |-> InstrAt(returns[i])]'
         = Append([i \in DOMAIN returns |-> InstrAt(returns[i])], j + 1)
  <2> DEFINE old == [i \in DOMAIN returns |-> InstrAt(returns[i])]
  <2>1. old = [i \in 1..n |-> old[i]] /\ \A i \in 1..n : old[i] = InstrAt(returns[i])
    BY <1>10
  <2>2. [i \in DOMAIN returns |-> InstrAt(returns[i])]'
          = [i \in 1..(n + 1) |-> InstrAt(new[i])]
    BY <1>3, <1>10, <1>11 DEF InstrAt
  <2> HIDE DEF old
  <2>3. Append(old, j + 1) = [i \in 1..(n + 1) |-> IF i = n + 1 THEN j + 1 ELSE old[i]]
    BY <1>12, <2>1, EntryAppended
  <2>4. \A i \in 1..(n + 1) : InstrAt(new[i]) = IF i = n + 1 THEN j + 1 ELSE old[i]
    BY <1>9, <1>12, <1>15, <2>1
  <2>5. [i \in 1..(n + 1) |-> InstrAt(new[i])]
          = [i \in 1..(n + 1) |-> IF i = n + 1 THEN j + 1 ELSE old[i]]
    BY <2>4
  <2>6. QED
    BY <2>2, <2>3, <2>5 DEF old
<1>17. UNCHANGED {InstrIn(program.code, offset) : offset \in closures}
  BY <1>2, <1>3
<1>18. Abstract!Calls(k)
  BY <1>2, <1>3, <1>15, <1>16, <1>17 DEF Abstract!Calls
<1>19. QED
  BY <1>14, <1>18

\* A file is fit if its sizes are those of the program.
LEMMA ReadStep ==
  ASSUME IInv, read_file
  PROVE  IInv' /\ Abstract!Load
<1>1. /\ state = "reading" /\ contents' = File(program) /\ program' = program
      /\ UNCHANGED <<ip, returns, closures>>
      /\ IF SizesFit' THEN Unpack /\ state' = "read" ELSE state' = "failed"
  BY DEF read_file, ReadFile
<1>2. program \in Programs /\ ip = 0 /\ returns = <<>> /\ closures = {}
  BY <1>1 DEF IInv, Unstarted
<1>3. (/\ stringtab_size = program.sizes[1] /\ stringtab_size \in Int
       /\ public_symbols_number = program.sizes[3] /\ public_symbols_number \in Int
       /\ Len(contents) = CodeAt(program) + OffsetIn(program.code, Len(program.code) + 1)
       /\ Len(contents) \in Nat
       /\ SizesFit <=> Loads(program))'
  <2>1. (program \in Programs /\ contents = File(program))'
    BY <1>1, <1>2
  <2>2. QED
    BY <2>1, SizesRead, PTL
<1>4. SizesFit' <=> Loads(program)
  BY <1>1, <1>3
<1>5. SizesFit' => Loaded'
  <2>1. SUFFICES ASSUME SizesFit' PROVE Loaded'
    OBVIOUS
  <2> DEFINE np == Len(program.publics)
             ns == Len(program.strings)
             end == OffsetIn(program.code, Len(program.code) + 1)
  <2>2. Unpack /\ Loads(program)
    BY <1>1, <1>4, <2>1
  <2>3. stringtab_size' = ns /\ public_symbols_number' = np
        /\ Len(contents') = CodeAt(program) + end
    BY <1>1, <1>3, <2>2 DEF Loads
  <2>4. np \in Nat /\ ns \in Nat
    BY <1>2, ProgramsFit, TableTyped
  <2>5. end \in Nat
    <3>1. IsCode(program)
      BY <1>2, ProgramsFit
    <3>2. Len(program.code) \in Nat
      BY <3>1, CodeTyped
    <3>3. Len(program.code) + 1 \in 0..(Len(program.code) + 1) /\ Len(program.code) + 1 # 0
      BY <3>2
    <3>4. QED
      BY <3>1, <3>3, OffsetsFit
  <2>6. StringsAt(program) = 12 + 8 * np /\ CodeAt(program) = 12 + 8 * np + ns
    BY DEF StringsAt, CodeAt
  <2>7. /\ string_ptr' = BufferAt + 8 * np
        /\ code_ptr' = string_ptr' + ns
        /\ code_end' = code_ptr' + Len(contents') - (ns + 8 * np)
    BY <2>2, <2>3 DEF Unpack
  <2> HIDE DEF np, ns, end
  <2>8. /\ string_ptr' = SizesAt + StringsAt(program)
        /\ code_ptr' = SizesAt + CodeAt(program)
        /\ code_end' = code_ptr' + end + 12
    BY <2>3, <2>4, <2>5, <2>6, <2>7, Header
  <2>9. QED
    BY <1>1, <1>2, <2>2, <2>8 DEF Loaded, Total, end
<1>6. IInv'
  BY <1>1, <1>2, <1>5 DEF IInv, Unstarted
<1>7. Abstract!Load
  <2>1. InstrAt(ip) = 0 /\ InstrAt(ip)' = 0
    BY <1>1, <1>2 DEF InstrAt
  <2>2. /\ [i \in DOMAIN returns |-> InstrAt(returns[i])] = <<>>
        /\ [i \in DOMAIN returns |-> InstrAt(returns[i])]' = <<>>
    BY <1>1, <1>2
  <2>3. /\ {InstrIn(program.code, offset) : offset \in closures} = {}
        /\ {InstrIn(program.code, offset) : offset \in closures}' = {}
    BY <1>1, <1>2
  <2>4. state' = IF Loads(program) THEN "read" ELSE "failed"
    BY <1>1, <1>4
  <2>5. QED
    BY <1>1, <2>1, <2>2, <2>3, <2>4 DEF Abstract!Load, Abstract!Ends
<1>8. QED
  BY <1>6, <1>7

\* The last of the public symbols named main is the one of the program.
MainText == <<109, 97, 105, 110, 0>>

LEMMA MainsFound ==
  ASSUME Loaded
  PROVE  /\ NamesFit
         /\ \A i \in 0..(public_symbols_number - 1) :
              /\ i \in Mains <=> i + 1 \in Publics(program)
              /\ public_ptr(2 * i + 1) = OffsetIn(program.code, program.publics[i + 1].entry)
         /\ Publics(program) \subseteq 1..public_symbols_number
<1> DEFINE p == program
           np == Len(p.publics)
           ns == Len(p.strings)
<1>1. /\ IsCode(p) /\ IsTable(p) /\ IsFile(p)
      /\ code_ptr \in Nat /\ Total \in Nat /\ string_ptr \in Nat
      /\ stringtab_size = ns /\ ns \in Nat /\ public_symbols_number = np /\ np \in Nat
      /\ \A a \in Int : a >= SizesAt => (IsWritten(a) <=> a < code_ptr + Total)
  BY Areas
<1>2. /\ contents = File(p) /\ string_ptr = SizesAt + StringsAt(p)
      /\ code_ptr = SizesAt + CodeAt(p)
  BY DEF Loaded
<1>3. /\ \A i \in 1..np :
           /\ Holds(contents, 12 + 8 * (i - 1), Bytes(p.publics[i].name))
           /\ Holds(contents, 16 + 8 * (i - 1), Bytes(OffsetIn(p.code, p.publics[i].entry)))
      /\ Holds(contents, StringsAt(p), p.strings)
  BY <1>1, <1>2, FileParts
<1>4. /\ p.strings[ns] = 0 /\ ns # 0 /\ ns \in Int32
      /\ DOMAIN p.publics = 1..np
      /\ \A i \in 1..np : p.publics[i].name \in 0..(ns - 1) /\ p.publics[i].entry \in DOMAIN p.code
  BY <1>1, TableTyped
<1>5. CodeAt(p) = StringsAt(p) + ns /\ StringsAt(p) \in Nat /\ StringsAt(p) >= 12
  <2>1. StringsAt(p) = 12 + 8 * np /\ CodeAt(p) = StringsAt(p) + ns
    BY DEF StringsAt, CodeAt
  <2> HIDE DEF np, ns
  <2>2. QED
    BY <1>1, <2>1
<1>6. SizesAt = 40 /\ BufferAt = 52
  BY Header
<1>7. \A i \in 0..(np - 1) :
        /\ i + 1 \in 1..np
        /\ public_ptr(2 * i) = p.publics[i + 1].name
        /\ public_ptr(2 * i + 1) = OffsetIn(p.code, p.publics[i + 1].entry)
  <2>1. SUFFICES ASSUME NEW i \in 0..(np - 1)
                 PROVE  /\ i + 1 \in 1..np
                        /\ public_ptr(2 * i) = p.publics[i + 1].name
                        /\ public_ptr(2 * i + 1) = OffsetIn(p.code, p.publics[i + 1].entry)
    OBVIOUS
  <2> DEFINE j == i + 1
             name == p.publics[j].name
             entry == OffsetIn(p.code, p.publics[j].entry)
  <2>2. j \in 1..np /\ i \in Nat /\ j - 1 = i
    BY <1>1, <2>1
  <2> HIDE DEF j
  <2>3. name \in 0..(ns - 1) /\ p.publics[j].entry \in DOMAIN p.code
    BY <1>4, <2>2
  <2>4. entry \in Int32
    <3>1. p.publics[j].entry \in 0..(Len(p.code) + 1)
      BY <1>1, <2>3, CodeTyped
    <3>2. QED
      BY <1>1, <3>1, OffsetsFit
  <2>5. name \in Int32
    <3>1. MaxInt \in Int /\ 0 <= MaxInt
      BY SMT DEF MaxInt
    <3>2. name \in Int /\ 0 <= name /\ name <= ns
      BY <1>1, <2>3
    <3>3. QED
      BY <1>1, <1>4, <3>1, <3>2, SMT DEF Int32
  <2>6. /\ Holds(contents, 12 + 8 * i, Bytes(name))
        /\ Holds(contents, 16 + 8 * i, Bytes(entry))
    BY <1>3, <2>2
  <2> HIDE DEF name, entry
  <2>7. public_ptr(2 * i) = name
    <3>1. PICK a \in Int : a = BufferAt + 4 * (2 * i) /\ a - SizesAt = 12 + 8 * i
      BY <1>6, <2>2
    <3>2. IntAt(a) = name
      BY <2>5, <2>6, <3>1, IntRead
    <3>3. public_ptr(2 * i) = IntAt(a)
      BY <3>1, Zenon DEF public_ptr
    <3>4. QED
      BY <3>2, <3>3
  <2>8. public_ptr(2 * i + 1) = entry
    <3>1. PICK a \in Int : a = BufferAt + 4 * (2 * i + 1) /\ a - SizesAt = 16 + 8 * i
      BY <1>6, <2>2
    <3>2. IntAt(a) = entry
      BY <2>4, <2>6, <3>1, IntRead
    <3>3. public_ptr(2 * i + 1) = IntAt(a)
      BY <3>1, Zenon DEF public_ptr
    <3>4. QED
      BY <3>2, <3>3
  <2>9. QED
    BY <2>2, <2>7, <2>8 DEF name, entry, j
<1>8. \A pos \in 0..(ns - 1) : IsMain(pos) <=> IsText(p, pos, MainText)
  <2>1. SUFFICES ASSUME NEW pos \in 0..(ns - 1)
                 PROVE  IsMain(pos) <=> IsText(p, pos, MainText)
    OBVIOUS
  <2>2. /\ IsMain(pos) <=> /\ IsWritten(string_ptr + pos + 4)
                           /\ \A i \in 1..5 : ByteAt(string_ptr + pos + i - 1) = MainText[i]
        /\ IsText(p, pos, MainText) <=> /\ pos + 5 <= ns
                                        /\ \A i \in 1..5 : p.strings[pos + i] = MainText[i]
    <3>1. Len(MainText) = 5
      BY DEF MainText
    <3>2. \A a : (string_ptr + pos) + a = string_ptr + pos + a
      OBVIOUS
    <3>3. IsText(p, pos, MainText) <=> /\ pos + 5 <= ns
                                       /\ \A i \in 1..5 : p.strings[pos + i] = MainText[i]
      BY <3>1 DEF IsText
    <3>4. QED
      BY <3>3 DEF IsMain, get_string, MainText
  <2>3. /\ MainText[1] # 0 /\ MainText[2] # 0 /\ MainText[3] # 0
        /\ MainText[4] # 0 /\ MainText[5] = 0
    BY DEF MainText
  <2>4. \A i \in 1..5 : pos + i <= ns => ByteAt(string_ptr + pos + i - 1) = p.strings[pos + i]
    <3>1. SUFFICES ASSUME NEW i \in 1..5, pos + i <= ns
                   PROVE  ByteAt(string_ptr + pos + i - 1) = p.strings[pos + i]
      OBVIOUS
    <3>2. PICK j \in 1..ns : j = pos + i
      BY <1>1, <3>1
    <3>3. contents[StringsAt(p) + j] = p.strings[j]
      BY <1>3 DEF Holds
    <3>4. PICK a \in Int : a = string_ptr + pos + i - 1 /\ a - SizesAt + 1 = StringsAt(p) + j
      <4>1. PICK b \in Int : b = StringsAt(p) /\ string_ptr = 40 + b
        BY <1>2, <1>5, <1>6
      <4>2. pos \in Int
        BY <1>1
      <4>3. ((40 + b) + pos + i - 1) - 40 + 1 = b + (pos + i) /\ (40 + b) + pos + i - 1 \in Int
        BY <4>2
      <4>4. QED
        BY <1>6, <3>2, <4>1, <4>3
    <3>5. ByteAt(a) = p.strings[j]
      BY <3>3, <3>4, Zenon DEF ByteAt
    <3>6. QED
      BY <3>2, <3>4, <3>5
  <2>5. ASSUME IsMain(pos) PROVE IsText(p, pos, MainText)
    <3>1. pos + 5 <= ns
      <4>1. SUFFICES ASSUME ~ (pos + 5 <= ns) PROVE FALSE
        OBVIOUS
      <4>2. PICK i \in 1..4 : pos + i = ns
        <5>1. ns - pos \in 1..4 /\ pos + (ns - pos) = ns
          BY <1>1, <4>1
        <5>2. QED
          BY <5>1
      <4>3. i \in 1..5 /\ pos + i <= ns
        BY <1>1, <4>2
      <4>4. MainText[i] = p.strings[pos + i]
        BY <2>2, <2>4, <2>5, <4>3
      <4>5. MainText[i] # 0
        <5>1. i = 1 \/ i = 2 \/ i = 3 \/ i = 4
          OBVIOUS
        <5>2. QED
          BY <2>3, <5>1
      <4>6. QED
        BY <1>4, <4>2, <4>4, <4>5
    <3>2. \A i \in 1..5 : pos + i <= ns
      BY <1>1, <3>1
    <3>3. QED
      BY <2>2, <2>4, <2>5, <3>1, <3>2
  <2>6. ASSUME IsText(p, pos, MainText) PROVE IsMain(pos)
    <3>1. pos + 5 <= ns
      BY <2>2, <2>6
    <3>2. \A i \in 1..5 : pos + i <= ns
      BY <1>1, <3>1
    <3>3. PICK a \in Int : a = string_ptr + pos + 4
      BY <1>1
    <3>4. a >= SizesAt /\ a < code_ptr + Total
      <4>1. PICK b \in Nat : b = StringsAt(p) /\ string_ptr = 40 + b /\ code_ptr = 40 + (b + ns)
        BY <1>2, <1>5, <1>6
      <4>2. pos \in Nat
        BY <1>1
      <4>3. 40 + b + pos + 4 >= 40 /\ 40 + b + pos + 4 < 40 + (b + ns) + Total
        BY <1>1, <3>1, <4>2
      <4>4. QED
        BY <1>6, <3>3, <4>1, <4>3
    <3>5. QED
      BY <1>1, <2>2, <2>4, <2>6, <3>2, <3>3, <3>4
  <2>7. QED
    BY <2>5, <2>6
<1>9. \A i \in DOMAIN p.publics :
        IsText(p, p.publics[i].name, MainText) <=> p.publics[i].name = p.main
  BY <1>1 DEF IsTable, MainText
<1>10. \A i \in 1..np : i \in Publics(p) <=> IsMain(p.publics[i].name)
  <2>1. \A i \in 1..np : i \in Publics(p) <=> p.publics[i].name = p.main
    BY <1>4 DEF Publics
  <2>2. QED
    BY <1>4, <1>8, <1>9, <2>1
<1>11. \A i \in 0..(np - 1) : i \in Mains <=> IsMain(p.publics[i + 1].name)
  BY <1>1, <1>7 DEF Mains
<1>12. NamesFit
  <2>1. \A i \in 0..(np - 1) : p.publics[i + 1].name \in 0..(ns - 1)
    BY <1>4, <1>7
  <2>2. QED
    BY <1>1, <1>7, <2>1 DEF NamesFit, IsString
<1>13. Publics(p) \subseteq 1..np
  BY <1>4 DEF Publics
<1> HIDE DEF p, np
<1>14. \A i \in 0..(np - 1) : i \in Mains <=> i + 1 \in Publics(p)
  BY <1>7, <1>10, <1>11
<1>15. QED
  BY <1>1, <1>7, <1>12, <1>13, <1>14 DEF p, np

\* main is found, or there is none.
LEMMA StartStep ==
  ASSUME IInv, dump_file
  PROVE  IInv' /\ Abstract!Start
<1> DEFINE p == program
           ms == Mains
           ps == Publics(p)
<1>1. state = "read" /\ Loaded /\ ip = 0 /\ returns = <<>> /\ closures = {} /\ p \in Programs
  BY DEF dump_file, IInv, Unstarted
<1>2. /\ NamesFit
      /\ \A i \in 0..(public_symbols_number - 1) :
           /\ i \in ms <=> i + 1 \in ps
           /\ public_ptr(2 * i + 1) = OffsetIn(p.code, p.publics[i + 1].entry)
      /\ ps \subseteq 1..public_symbols_number
  BY <1>1, MainsFound
<1>3. public_symbols_number \in Nat /\ public_symbols_number = Len(p.publics)
  BY <1>1, Areas
<1>4. ms \subseteq 0..(public_symbols_number - 1)
  BY DEF Mains
<1>5. Main(p) = IF ps = {} THEN 0
                ELSE p.publics[CHOOSE i \in ps : \A j \in ps : j <= i].entry
  BY DEF Main
<1>6. IsCode(p) /\ IsTable(p)
  BY <1>1, ProgramsFit
<1>7. \A i \in 1..public_symbols_number : p.publics[i].entry \in 1..Len(p.code)
  BY <1>3, <1>6, TableTyped, CodeTyped
<1> DEFINE main  == CHOOSE i \in ms : \A j \in ms : j <= i
           entry == code_ptr + public_ptr(2 * main + 1)
<1>8. IF ms = {} THEN Ends("failed")
      ELSE IF entry > code_end THEN Ends("failed")
      ELSE /\ ip' = entry
           /\ returns' = <<0>>
           /\ state' = "running"
           /\ UNCHANGED <<bytefile, closures>>
  <2> HIDE DEF ms
  <2>1. IF ms = {} THEN Ends("failed")
        ELSE IF entry > code_end THEN Ends("failed")
        ELSE /\ ip' = entry
             /\ returns' = <<0>>
             /\ state' = "running"
             /\ UNCHANGED <<bytefile, closures>>
    BY <1>2 DEF dump_file, ms
  <2>2. QED
    BY <2>1
<1> HIDE DEF ms, ps, p
<1>9. CASE ms = {}
  <2>1. ps = {}
    <3>1. \A k \in 1..public_symbols_number : k - 1 \in 0..(public_symbols_number - 1) /\ k - 1 + 1 = k
      BY <1>3
    <3>2. ASSUME NEW k \in ps PROVE FALSE
      <4>1. PICK i \in 0..(public_symbols_number - 1) : i + 1 = k
        <5>1. k \in 1..public_symbols_number
          BY <1>2
        <5>2. k - 1 \in 0..(public_symbols_number - 1) /\ (k - 1) + 1 = k
          BY <1>3, <5>1
        <5>3. QED
          BY <5>2
      <4>2. i \in ms
        BY <1>2, <3>2, <4>1
      <4>3. QED
        BY <1>9, <4>2
    <3>3. QED
      BY <3>2
  <2>2. Main(p) = 0
    BY <1>5, <2>1
  <2>3. Ends("failed")
    BY <1>8, <1>9
  <2>4. IInv' /\ Abstract!Ends("failed")
    BY <2>3, EndsStep DEF Ended
  <2>5. QED
    BY <1>1, <2>2, <2>4 DEF Abstract!Start, p
<1>10. CASE ms # {}
  <2>1. PICK m \in ms : \A j \in ms : j <= m
    <3> DEFINE R == {public_symbols_number - i : i \in ms}
    <3>1. R \subseteq Nat /\ R # {}
      <4>1. \A i \in ms : i \in 0..(public_symbols_number - 1)
        BY <1>4
      <4>2. \A i \in ms : public_symbols_number - i \in Nat
        BY <1>3, <4>1
      <4>3. QED
        BY <1>10, <4>2
    <3> HIDE DEF R
    <3>2. PICK x \in R : \A y \in R : x <= y
      BY <3>1, LeastNatural
    <3>3. PICK m \in ms : x = public_symbols_number - m
      BY DEF R
    <3>4. ASSUME NEW j \in ms PROVE j <= m
      <4>1. public_symbols_number - j \in R
        BY DEF R
      <4>2. x <= public_symbols_number - j /\ j \in Int /\ m \in Int
        BY <1>4, <3>2, <4>1
      <4>3. QED
        BY <1>3, <3>3, <4>2
    <3>5. QED
      BY <3>4
  <2>2. main \in ms /\ \A j \in ms : j <= main
    BY <2>1
  <2> HIDE DEF main
  <2>3. main \in 0..(public_symbols_number - 1) /\ main + 1 \in 1..public_symbols_number
    BY <1>3, <1>4, <2>2
  <2>4. main + 1 \in ps /\ \A k \in ps : k <= main + 1
    <3>1. main + 1 \in ps
      BY <1>2, <2>2, <2>3
    <3>2. ASSUME NEW k \in ps PROVE k <= main + 1
      <4>1. PICK i \in 0..(public_symbols_number - 1) : i + 1 = k
        <5>1. k \in 1..public_symbols_number
          BY <1>2
        <5>2. k - 1 \in 0..(public_symbols_number - 1) /\ (k - 1) + 1 = k
          BY <1>3, <5>1
        <5>3. QED
          BY <5>2
      <4>2. i \in ms
        BY <1>2, <3>2, <4>1
      <4>3. QED
        BY <2>2, <2>3, <4>1, <4>2
    <3>3. QED
      BY <3>1, <3>2
  <2>5. (CHOOSE i \in ps : \A j \in ps : j <= i) = main + 1
    <3> DEFINE c == CHOOSE i \in ps : \A j \in ps : j <= i
    <3>1. c \in ps /\ \A j \in ps : j <= c
      BY <2>4
    <3> HIDE DEF c
    <3>2. c <= main + 1 /\ main + 1 <= c
      BY <2>4, <3>1
    <3>3. c = main + 1
      <4>1. c \in 1..public_symbols_number
        BY <1>2, <3>1
      <4>2. c \in Int /\ main + 1 \in Int
        BY <1>3, <2>3, <4>1
      <4>3. QED
        BY <3>2, <4>2
    <3>4. QED
      BY <3>3 DEF c
  <2>6. PICK k \in 1..Len(p.code) : k = p.publics[main + 1].entry /\ k = Main(p)
    BY <1>5, <1>7, <2>3, <2>4, <2>5
  <2>7. entry = Pos(k)
    BY <1>2, <2>3, <2>6 DEF Pos, p
  <2> HIDE DEF entry
  <2>8. k \in 0..(Len(program.code) + 1) /\ k # 0 /\ Len(program.code) \in Nat
    BY <1>6, <2>6, CodeTyped DEF p
  <2>9. entry \in Int /\ ~ (entry > code_end) /\ InstrAt(entry) = k
    <3>1. Pos(k) \in Int /\ Pos(k) <= code_ptr + Total /\ InstrAt(Pos(k)) = k
      BY <1>1, <2>8, Positions
    <3>2. code_ptr \in Nat /\ Total \in Nat /\ code_end = code_ptr + Total + 12
      BY <1>1, Areas DEF Loaded
    <3>3. QED
      BY <2>7, <3>1, <3>2
  <2>10. /\ ip' = entry /\ returns' = <<0>> /\ state' = "running"
         /\ UNCHANGED <<bytefile, closures>>
    BY <1>8, <1>10, <2>9
  <2>11. /\ Loaded' /\ program' = program /\ code_ptr' = code_ptr
         /\ Returning' = Returning /\ CodeEntries' = CodeEntries
         /\ \A j : Pos(j)' = Pos(j)
         /\ \A a : InstrAt(a)' = InstrAt(a)
    BY <1>1, <2>10, LoadedStays
  <2>12. InCode'
    <3>1. ip' = Pos(k)'
      BY <2>7, <2>10, <2>11
    <3>2. returns' \in Seq(Returning) /\ returns' # <<>> /\ returns'[1] = 0
      <4>1. 0 \in Returning
        BY DEF Returning
      <4>2. QED
        BY <2>10, <4>1
    <3>3. closures' = {}
      BY <1>1, <2>10
    <3>4. QED
      BY <2>8, <2>11, <3>1, <3>2, <3>3 DEF InCode
  <2>13. IInv'
    BY <1>1, <2>10, <2>11, <2>12 DEF IInv, p
  <2>14. InstrAt(ip)' = k
    BY <2>9, <2>10, <2>11 DEF InstrAt
  <2>15. [i \in DOMAIN returns |-> InstrAt(returns[i])]' = <<0>>
    <3>1. returns' = [i \in 1..1 |-> 0]
      BY <2>10
    <3>2. [i \in DOMAIN returns |-> InstrAt(returns[i])]' = [i \in 1..1 |-> 0]
      BY <3>1 DEF InstrAt
    <3>3. QED
      BY <3>2
  <2>16. UNCHANGED {InstrIn(program.code, offset) : offset \in closures}
    BY <2>10, <2>11
  <2>17. Abstract!Start
    BY <1>1, <2>6, <2>8, <2>10, <2>11, <2>14, <2>15, <2>16 DEF Abstract!Start, p
  <2>18. QED
    BY <2>13, <2>17
<1>11. QED
  BY <1>9, <1>10

\* A frame is left.
LEMMA ReturnStep ==
  ASSUME IInv, state = "running", NEW j \in 1..Len(program.code), ip = Pos(j),
         program.code[j].kind = "return", MI_END
  PROVE  IInv' /\ Abstract!Return
<1> DEFINE n == Len(returns)
           x == returns[n]
           old == [i \in DOMAIN returns |-> InstrAt(returns[i])]
<1>1. Loaded /\ InCode /\ program \in Programs
  BY DEF IInv
<1>2. returns \in Seq(Returning) /\ returns # <<>> /\ returns[1] = 0
  BY <1>1 DEF InCode
<1>3. n \in Nat \ {0} /\ DOMAIN returns = 1..n /\ \A i \in 1..n : returns[i] \in Returning
  BY <1>2, SequenceEntries, EmptySeq
<1>4. /\ x = 0 => Ends("stopped")
      /\ x # 0 /\ (x < code_ptr \/ x > code_end) => Ends("failed")
      /\ x # 0 /\ ~ (x < code_ptr \/ x > code_end) =>
           /\ ip' = x /\ returns' = SubSeq(returns, 1, n - 1)
           /\ UNCHANGED <<bytefile, closures, state>>
  BY DEF MI_END, Last, Front
<1>5. Len(program.code) \in Nat
  BY <1>1, Areas, CodeTyped
<1>6. InstrAt(ip) = j /\ j \in DOMAIN program.code
  <2>1. j \in 0..(Len(program.code) + 1)
    BY <1>5
  <2>2. QED
    BY <1>1, <2>1, Positions, Areas, CodeTyped
<1>7. n \in 1..n /\ x \in Returning
  BY <1>3
<1>8. old = [i \in 1..n |-> old[i]] /\ \A i \in 1..n : old[i] = InstrAt(returns[i])
  BY <1>3
<1> HIDE DEF old
<1>9. Len(old) = n
  BY <1>3, <1>8, Entries
<1>10. old[n] = InstrAt(x)
  BY <1>7, <1>8
<1> HIDE DEF n, x
<1>11. CASE x = 0
  <2>1. IInv' /\ Abstract!Ends("stopped")
    BY <1>4, <1>11, EndsStep DEF Ended
  <2>2. old[Len(old)] = 0
    BY <1>9, <1>10, <1>11 DEF InstrAt
  <2>3. QED
    BY <1>6, <2>1, <2>2 DEF Abstract!Return, Abstract!Kind, Abstract!Instr, old
<1>12. CASE x # 0
  <2>1. PICK k \in 2..(Len(program.code) + 1) : x = Pos(k)
    BY <1>7, <1>12 DEF Returning
  <2>2. k \in 0..(Len(program.code) + 1) /\ k # 0
    BY <1>5, <2>1
  <2>3. x \in Int /\ x >= code_ptr /\ x <= code_ptr + Total /\ InstrAt(x) = k
    BY <1>1, <2>1, <2>2, Positions
  <2>4. code_ptr \in Nat /\ Total \in Nat /\ code_end = code_ptr + Total + 12
    BY <1>1, Areas DEF Loaded
  <2>5. ~ (x < code_ptr \/ x > code_end)
    BY <2>3, <2>4
  <2> DEFINE new == SubSeq(returns, 1, n - 1)
  <2>6. /\ ip' = x /\ returns' = new
        /\ UNCHANGED <<bytefile, closures, state>>
    BY <1>4, <1>12, <2>5
  <2>7. /\ Loaded' /\ program' = program /\ code_ptr' = code_ptr
        /\ Returning' = Returning /\ CodeEntries' = CodeEntries
        /\ \A i : Pos(i)' = Pos(i)
        /\ \A a : InstrAt(a)' = InstrAt(a)
    BY <1>1, <2>6, LoadedStays
  <2>8. n - 1 \in Nat \ {0} /\ n \in Nat
    <3>1. n # 1
      BY <1>2, <1>12 DEF x
    <3>2. n \in Nat \ {0}
      BY <1>3 DEF n
    <3>3. QED
      BY <3>1, <3>2
  <2>9. new = [i \in 1..(n - 1) |-> returns[i]]
    <3>1. returns = [i \in 1..n |-> returns[i]]
      BY <1>2, SequenceEntries DEF n
    <3>2. n \in Nat /\ 1 \in 1..(n + 1) /\ n - 1 \in 0..n /\ 1 <= (n - 1) + 1
          /\ ((n - 1) + 1) - 1 = n - 1
      BY <2>8
    <3> DEFINE m == n - 1
    <3>3. m \in 0..n /\ 1 <= m + 1 /\ (m + 1) - 1 = m
      BY <3>2
    <3> HIDE DEF m
    <3>4. SubSeq(returns, 1, m) = [i \in 1..((m + 1) - 1) |-> returns[1 - 1 + i]]
      BY <3>1, <3>2, <3>3, PartOfEntries
    <3>5. m \in Nat /\ \A i \in 1..m : (1 - 1) + i = i
      BY <2>8 DEF m
    <3>6. SubSeq(returns, 1, m) = [i \in 1..m |-> returns[i]]
      BY <3>3, <3>4, <3>5
    <3>7. QED
      BY <3>6 DEF m
  <2> HIDE DEF new
  <2>10. new \in Seq(Returning) /\ Len(new) = n - 1 /\ DOMAIN new = 1..(n - 1)
         /\ \A i \in 1..(n - 1) : new[i] = returns[i]
    <3>1. new \in [1..(n - 1) -> Returning]
      <4>1. \A i \in 1..(n - 1) : returns[i] \in Returning
        BY <1>3, <2>8 DEF n
      <4>2. QED
        BY <2>9, <4>1
    <3>2. QED
      BY <2>8, <2>9, <3>1, FunctionIsSeq
  <2>11. InCode'
    <3>1. ip' = Pos(k)'
      BY <2>1, <2>6, <2>7
    <3>2. new # <<>> /\ new[1] = 0
      <4>1. Len(new) # 0 /\ 1 \in 1..(n - 1)
        BY <2>8, <2>10
      <4>2. QED
        BY <1>2, <2>10, <4>1, EmptySeq
    <3>3. QED
      BY <1>1, <2>2, <2>6, <2>7, <2>10, <3>1, <3>2 DEF InCode
  <2>12. IInv'
    BY <1>1, <2>6, <2>7, <2>11 DEF IInv
  <2>13. InstrAt(ip)' = k
    BY <2>3, <2>6, <2>7 DEF InstrAt
  <2>14. [i \in DOMAIN returns |-> InstrAt(returns[i])]' = SubSeq(old, 1, Len(old) - 1)
    <3> DEFINE m == n - 1
    <3>1. n \in Nat /\ m \in Nat /\ 1 \in 1..(n + 1) /\ m \in 0..n /\ 1 <= m + 1 /\ (m + 1) - 1 = m
          /\ \A i \in 1..m : (1 - 1) + i = i /\ i \in 1..n
      BY <2>8
    <3>2. [i \in DOMAIN returns |-> InstrAt(returns[i])]' = [i \in 1..m |-> InstrAt(new[i])]
      BY <2>6, <2>7, <2>10 DEF InstrAt
    <3>3. \A i \in 1..m : new[i] = returns[i]
      BY <2>10
    <3>4. Len(old) - 1 = m
      BY <1>9
    <3> HIDE DEF m
    <3>5. SubSeq(old, 1, m) = [i \in 1..((m + 1) - 1) |-> old[1 - 1 + i]]
      BY <1>8, <3>1, PartOfEntries
    <3>6. SubSeq(old, 1, m) = [i \in 1..m |-> old[i]]
      BY <3>1, <3>5
    <3>7. \A i \in 1..m : InstrAt(new[i]) = old[i]
      BY <1>8, <3>1, <3>3
    <3>8. QED
      BY <3>2, <3>4, <3>6, <3>7
  <2>15. UNCHANGED {InstrIn(program.code, offset) : offset \in closures}
    BY <2>6, <2>7
  <2>16. old[Len(old)] = k /\ k # 0
    BY <1>9, <1>10, <2>2, <2>3
  <2>17. Abstract!Return
    BY <1>6, <2>6, <2>7, <2>13, <2>14, <2>15, <2>16
       DEF Abstract!Return, Abstract!Kind, Abstract!Instr, old
  <2>18. QED
    BY <2>12, <2>17
<1>13. QED
  BY <1>11, <1>12

-----------------------------------------------------------------------------
(* One lemma for each kind of instruction.                                   *)

\* What the machine may do is decided by the fetch.
LEMMA FetchDecides ==
  ASSUME state = "running", Next
  PROVE  /\ Unwritten => Ends("strayed")
         /\ ~ Unwritten /\ ~ Fits => Ends("failed")
         /\ ~ Unwritten /\ Fits =>
              \/ Plain \/ MI_JMP \/ CTRL_CJMP \/ CTRL_CLOSURE
              \/ CTRL_CALL \/ CTRL_CALLC \/ MI_END \/ OP_END
BY DEF Next, read_file, dump_file, Fails, Strays, Fetched,
       Plain, MI_JMP, CTRL_CJMP, CTRL_CLOSURE, CTRL_CALL, CTRL_CALLC, MI_END, OP_END

\* The instruction the abstract machine is at.
LEMMA AtInstruction ==
  ASSUME Loaded, state = "running", NEW k \in 1..Len(program.code), ip = Pos(k)
  PROVE  /\ InstrAt(ip) = k /\ k \in DOMAIN program.code
         /\ Abstract!Instr = program.code[k]
         /\ Abstract!Target = program.code[k].target[1]
         /\ \A kind : Abstract!Kind(kind) <=> program.code[k].kind = kind
         /\ DOMAIN program.code = 1..Len(program.code) /\ Len(program.code) \in Nat
         /\ k \in 0..(Len(program.code) + 1) /\ k + 1 \in 0..(Len(program.code) + 1)
<1>1. DOMAIN program.code = 1..Len(program.code) /\ Len(program.code) \in Nat
  BY Areas, CodeTyped
<1>2. k \in 0..(Len(program.code) + 1) /\ k + 1 \in 0..(Len(program.code) + 1)
  BY <1>1
<1>3. InstrAt(ip) = k
  BY <1>2, Positions
<1>4. QED
  BY <1>1, <1>2, <1>3 DEF Abstract!Instr, Abstract!Target, Abstract!Kind

\* Before the code and behind it.
LEMMA OutsideStep ==
  ASSUME IInv, state = "running", Next, NEW k \in {0, Len(program.code) + 1}, ip = Pos(k)
  PROVE  IInv' /\ Abstract!Next
<1>1. Loaded
  BY DEF IInv
<1>2. /\ code_ptr \in Nat /\ code_ptr >= 52 /\ Total \in Nat
      /\ \A a \in Int : a >= SizesAt => (IsWritten(a) <=> a < code_ptr + Total)
      /\ \A a, m \in Int : InBounds(a, m) <=> code_ptr <= a /\ a + m <= code_ptr + Total + 12
      /\ IsCode(program)
  BY <1>1, Areas
<1>3. Len(program.code) \in Nat /\ DOMAIN program.code = 1..Len(program.code)
  BY <1>2, CodeTyped
<1>4. k \in 0..(Len(program.code) + 1) /\ k \notin DOMAIN program.code
  BY <1>3
<1>5. InstrAt(ip) = k /\ ip \in Int
  BY <1>1, <1>4, Positions
<1>6. Ends("failed") \/ Ends("strayed")
  <2>1. CASE k = 0
    <3>1. ip = code_ptr - 1
      BY <1>1, <1>4, <2>1, Positions
    <3>2. ~ InBounds(ip, 1)
      BY <1>2, <1>5, <3>1
    <3>3. ~ Unwritten /\ ~ Fits
      BY <3>2 DEF Unwritten, Fits
    <3>4. QED
      BY <3>3, FetchDecides
  <2>2. CASE k = Len(program.code) + 1
    <3>1. ip = code_ptr + Total
      BY <1>1, <1>4, <2>2, Positions
    <3>2. InBounds(ip, 1)
      BY <1>2, <1>5, <3>1
    <3>3. ~ IsWritten(ip)
      <4>1. ip >= SizesAt /\ ~ (ip < code_ptr + Total)
        BY <1>2, <1>5, <3>1, Header
      <4>2. QED
        BY <1>2, <1>5, <4>1
    <3>4. Unwritten
      BY <3>2, <3>3 DEF Unwritten
    <3>5. QED
      BY <3>4, FetchDecides
  <2>3. QED
    BY <2>1, <2>2
<1>7. IInv' /\ (Abstract!Ends("failed") \/ Abstract!Ends("strayed"))
  BY <1>6, EndsStep DEF Ended
<1>8. Abstract!Astray
  BY <1>4, <1>5, <1>7 DEF Abstract!Astray
<1>9. QED
  BY <1>7, <1>8 DEF Abstract!Next

LEMMA PlainStep ==
  ASSUME IInv, state = "running", Next, NEW k \in 1..Len(program.code), ip = Pos(k),
         program.code[k].kind = "plain",
         program.code[k].op \in Valid \ (Jumping \cup Failing),
         Complete(program.code[k]), program.code[k].target = <<>>,
         Named(program, program.code[k])
  PROVE  IInv' /\ Abstract!Next
<1> DEFINE instr == program.code[k]
<1>1. Loaded
  BY DEF IInv
<1>2. /\ Code = instr.op
      /\ \A i \in 1..Len(instr.operands) : Arg(Len(instr.target) + i) = instr.operands[i]
  BY <1>1, Fetching DEF Fetches
<1>3. Whole(instr) /\ instr.captured = <<>> /\ instr.op \in Valid /\ instr.op \notin Failing
  BY DEF Complete
<1>4. /\ ~ Unwritten /\ AfterOperands = Pos(k + 1)
      /\ Fits <=> Code \notin Failing /\ (Code \in WithString => IsString(Arg(1)))
  BY <1>1, <1>3, WholeFetched
<1>5. stringtab_size = Len(program.strings) /\ IsCode(program)
  BY <1>1, Areas
<1>6. Code \in WithString => IsString(Arg(1))
  <2>1. SUFFICES ASSUME Code \in WithString PROVE IsString(Arg(1))
    OBVIOUS
  <2>2. OperandsOf(Code) \in {1, 2}
    BY <2>1 DEF OperandsOf, WithString, OneOperand, TwoOperands
  <2>3. Len(instr.target) = 0 /\ Len(instr.operands) \in Nat
    BY <1>5, CodeTyped, EmptySeq
  <2>4. Len(instr.operands) = OperandsOf(Code)
    BY <1>2, <1>3, <2>3 DEF Whole, Numbers
  <2> HIDE DEF instr
  <2>5. 1 \in 1..Len(instr.operands) /\ Len(instr.target) + 1 = 1
    BY <2>2, <2>3, <2>4
  <2>6. Arg(1) = instr.operands[1]
    BY <1>2, <2>5
  <2>7. instr.operands[1] \in 0..(Len(program.strings) - 1)
    BY <1>2, <2>1 DEF Named, instr
  <2>8. QED
    BY <1>5, <2>6, <2>7 DEF IsString
<1>7. Fits
  BY <1>2, <1>3, <1>4, <1>6
<1>8. Goes(Pos(k + 1))
  <2>1. Code \notin Jumping
    BY <1>2
  <2>2. Plain
    BY <1>4, <1>7, <2>1, FetchDecides
       DEF Jumping, MI_JMP, CTRL_CJMP, CTRL_CLOSURE, CTRL_CALL, CTRL_CALLC, MI_END, OP_END
  <2>3. QED
    BY <1>4, <2>2 DEF Plain
<1>9. /\ InstrAt(ip) = k /\ Abstract!Kind("plain") /\ k + 1 \in 0..(Len(program.code) + 1)
  BY <1>1, AtInstruction
<1>10. IInv' /\ Abstract!Goes(k + 1)
  BY <1>8, <1>9, GoesStep
<1>11. Abstract!Plain
  BY <1>9, <1>10 DEF Abstract!Plain
<1>12. QED
  BY <1>10, <1>11 DEF Abstract!Next

\* The operands of an instruction that refers to another one.
LEMMA Referring ==
  ASSUME Loaded, NEW k \in 1..Len(program.code), ip = Pos(k), Refers(program.code[k])
  PROVE  /\ program.code[k].target[1] \in 0..(Len(program.code) + 1)
         /\ Arg(1) = OffsetIn(program.code, program.code[k].target[1])
         /\ code_ptr + Arg(1) = Pos(program.code[k].target[1])
<1> DEFINE instr == program.code[k]
<1>1. \A i \in 1..Len(instr.target) : Arg(i) = OffsetIn(program.code, instr.target[i])
  BY Fetching DEF Fetches
<1>2. 1 \in 1..Len(instr.target)
  BY DEF Refers
<1>3. instr.target \in Seq(0..(Len(program.code) + 1))
  BY Areas, CodeTyped
<1>4. instr.target[1] \in 0..(Len(program.code) + 1)
  BY <1>2, <1>3, SequenceEntries
<1>5. QED
  BY <1>1, <1>2, <1>4 DEF Pos

LEMMA JumpStep ==
  ASSUME IInv, state = "running", Next, NEW k \in 1..Len(program.code), ip = Pos(k),
         program.code[k].kind = "jump", program.code[k].op = \h15,
         Complete(program.code[k]), Refers(program.code[k])
  PROVE  IInv' /\ Abstract!Next
<1> DEFINE instr == program.code[k]
           t == instr.target[1]
<1>1. Loaded
  BY DEF IInv
<1>2. Code = \h15
  BY <1>1, Fetching DEF Fetches
<1>3. Whole(instr) /\ instr.op \in Valid
  BY DEF Complete, Valid, OneOperand
<1>4. ~ Unwritten /\ Fits
  <2>1. Code \notin Failing /\ Code \notin WithString
    BY <1>2 DEF Failing, WithString
  <2>2. QED
    BY <1>1, <1>3, <2>1, WholeFetched
<1>5. MI_JMP
  BY <1>2, <1>4, FetchDecides
     DEF Jumping, Plain, CTRL_CJMP, CTRL_CLOSURE, CTRL_CALL, CTRL_CALLC, MI_END, OP_END
<1>6. t \in 0..(Len(program.code) + 1) /\ code_ptr + Arg(1) = Pos(t)
  BY <1>1, Referring
<1>7. ~ (Pos(t) > code_end)
  <2>1. Pos(t) \in Int /\ Pos(t) <= code_ptr + Total
    BY <1>1, <1>6, Positions
  <2>2. code_ptr \in Nat /\ Total \in Nat /\ code_end = code_ptr + Total + 12
    BY <1>1, Areas DEF Loaded
  <2>3. QED
    BY <2>1, <2>2
<1>8. Goes(Pos(t))
  BY <1>5, <1>6, <1>7 DEF MI_JMP
<1>9. IInv' /\ Abstract!Goes(t)
  BY <1>6, <1>8, GoesStep
<1>10. Abstract!Kind("jump") /\ Abstract!Target = t
  BY <1>1, AtInstruction
<1>11. Abstract!Jump
  BY <1>9, <1>10 DEF Abstract!Jump, Abstract!GoesTo
<1>12. QED
  BY <1>9, <1>11 DEF Abstract!Next

LEMMA BranchStep ==
  ASSUME IInv, state = "running", Next, NEW k \in 1..Len(program.code), ip = Pos(k),
         program.code[k].kind = "branch", program.code[k].op \in {\h50, \h51},
         Complete(program.code[k]), Refers(program.code[k])
  PROVE  IInv' /\ Abstract!Next
<1> DEFINE instr == program.code[k]
           t == instr.target[1]
<1>1. Loaded
  BY DEF IInv
<1>2. Code = instr.op /\ Code \in {\h50, \h51}
  BY <1>1, Fetching DEF Fetches
<1>3. Whole(instr) /\ instr.op \in Valid /\ instr.captured = <<>>
  BY DEF Complete, Valid, OneOperand
<1>4. ~ Unwritten /\ Fits /\ AfterOperands = Pos(k + 1)
  <2>1. Code \notin Failing /\ Code \notin WithString
    BY <1>2 DEF Failing, WithString
  <2>2. QED
    BY <1>1, <1>3, <2>1, WholeFetched
<1>5. CTRL_CJMP
  <2>1. /\ Code \in Jumping /\ Code # \h15 /\ Code # \h54 /\ Code # \h55 /\ Code # \h56
        /\ Code # \h16 /\ Code \notin \hf0..\hff
    <3>1. Code = \h50 \/ Code = \h51
      BY <1>2
    <3>2. QED
      BY <3>1, SMTT(30) DEF Jumping
  <2>2. QED
    BY <1>4, <2>1, FetchDecides
       DEF Plain, MI_JMP, CTRL_CLOSURE, CTRL_CALL, CTRL_CALLC, MI_END, OP_END
<1>6. /\ t \in 0..(Len(program.code) + 1) /\ code_ptr + Arg(1) = Pos(t)
      /\ Arg(1) = OffsetIn(program.code, t)
  BY <1>1, Referring
<1>7. ~ (Pos(t) > code_end)
  <2>1. Pos(t) \in Int /\ Pos(t) <= code_ptr + Total
    BY <1>1, <1>6, Positions
  <2>2. code_ptr \in Nat /\ Total \in Nat /\ code_end = code_ptr + Total + 12
    BY <1>1, Areas DEF Loaded
  <2>3. QED
    BY <2>1, <2>2
<1>8. Goes(Pos(k + 1)) \/ Goes(Pos(t)) \/ (Arg(1) < 0 /\ Ends("failed"))
  BY <1>4, <1>5, <1>6, <1>7 DEF CTRL_CJMP
<1>9. /\ Abstract!Kind("branch") /\ Abstract!Target = t /\ InstrAt(ip) = k
      /\ k + 1 \in 0..(Len(program.code) + 1) /\ DOMAIN program.code = 1..Len(program.code)
  BY <1>1, AtInstruction
<1>10. Arg(1) < 0 => t \notin DOMAIN program.code
  <2>1. SUFFICES ASSUME t \in 1..Len(program.code) PROVE ~ (Arg(1) < 0)
    BY <1>9
  <2>2. OffsetIn(program.code, t) \in Nat
    BY <1>1, <1>6, <2>1, Areas, OffsetsFit
  <2>3. QED
    BY <1>6, <2>2
<1>11. CASE Goes(Pos(k + 1))
  <2>1. IInv' /\ Abstract!Goes(k + 1)
    BY <1>9, <1>11, GoesStep
  <2>2. Abstract!Branch
    BY <1>9, <2>1 DEF Abstract!Branch
  <2>3. QED
    BY <2>1, <2>2 DEF Abstract!Next
<1>12. CASE Goes(Pos(t))
  <2>1. IInv' /\ Abstract!Goes(t)
    BY <1>6, <1>12, GoesStep
  <2>2. Abstract!Branch
    BY <1>9, <2>1 DEF Abstract!Branch, Abstract!GoesTo
  <2>3. QED
    BY <2>1, <2>2 DEF Abstract!Next
<1>13. CASE Arg(1) < 0 /\ Ends("failed")
  <2>1. IInv' /\ Abstract!Ends("failed")
    BY <1>13, EndsStep DEF Ended
  <2>2. Abstract!Branch
    BY <1>9, <1>10, <1>13, <2>1 DEF Abstract!Branch, Abstract!GoesTo
  <2>3. QED
    BY <2>1, <2>2 DEF Abstract!Next
<1>14. QED
  BY <1>8, <1>11, <1>12, <1>13

LEMMA CallStep ==
  ASSUME IInv, state = "running", Next, NEW k \in 1..Len(program.code), ip = Pos(k),
         program.code[k].kind = "call", program.code[k].op = \h56,
         Complete(program.code[k]), Calling(program, program.code[k])
  PROVE  IInv' /\ Abstract!Next
<1> DEFINE instr == program.code[k]
           t == instr.target[1]
<1>1. Loaded
  BY DEF IInv
<1>2. Code = \h56
  BY <1>1, Fetching DEF Fetches
<1>3. Whole(instr) /\ instr.op \in Valid /\ instr.captured = <<>>
  BY DEF Complete, Valid, TwoOperands
<1>4. ~ Unwritten /\ Fits /\ AfterOperands = Pos(k + 1)
  <2>1. Code \notin Failing /\ Code \notin WithString
    BY <1>2 DEF Failing, WithString
  <2>2. QED
    BY <1>1, <1>3, <2>1, WholeFetched
<1>5. CTRL_CALL
  <2>1. /\ Code \in Jumping /\ Code # \h15 /\ Code # \h50 /\ Code # \h51 /\ Code # \h54
        /\ Code # \h55 /\ Code # \h16 /\ Code \notin \hf0..\hff
    BY <1>2 DEF Jumping
  <2>2. QED
    BY <1>4, <2>1, FetchDecides
       DEF Plain, MI_JMP, CTRL_CJMP, CTRL_CLOSURE, CTRL_CALLC, MI_END, OP_END
<1>6. Arg(1) = OffsetIn(program.code, t)
  BY <1>1, Referring DEF Calling
<1>7. /\ Abstract!Kind("call") /\ Abstract!Target = t /\ InstrAt(ip) = k
      /\ DOMAIN program.code = 1..Len(program.code)
  BY <1>1, AtInstruction
<1>8. t \in 1..Len(program.code)
  BY <1>7 DEF Calling
<1>9. Calls(OffsetIn(program.code, t))
  BY <1>5, <1>6 DEF CTRL_CALL
<1>10. IInv' /\ Abstract!Calls(t)
  BY <1>4, <1>8, <1>9, CallsStep
<1>11. Abstract!Call
  BY <1>7, <1>10 DEF Abstract!Call
<1>12. QED
  BY <1>10, <1>11 DEF Abstract!Next

LEMMA CallClosureStep ==
  ASSUME IInv, state = "running", Next, NEW k \in 1..Len(program.code), ip = Pos(k),
         program.code[k].kind = "callc", program.code[k].op = \h55,
         Complete(program.code[k])
  PROVE  IInv' /\ Abstract!Next
<1> DEFINE instr == program.code[k]
           Closures == {InstrIn(program.code, offset) : offset \in closures}
<1>1. Loaded /\ closures \subseteq CodeEntries
  BY DEF IInv, InCode
<1>2. Code = \h55
  BY <1>1, Fetching DEF Fetches
<1>3. Whole(instr) /\ instr.op \in Valid /\ instr.captured = <<>>
  BY DEF Complete, Valid, OneOperand
<1>4. ~ Unwritten /\ Fits /\ AfterOperands = Pos(k + 1)
  <2>1. Code \notin Failing /\ Code \notin WithString
    BY <1>2 DEF Failing, WithString
  <2>2. QED
    BY <1>1, <1>3, <2>1, WholeFetched
<1>5. CTRL_CALLC
  <2>1. /\ Code \in Jumping /\ Code # \h15 /\ Code # \h50 /\ Code # \h51 /\ Code # \h54
        /\ Code # \h56 /\ Code # \h16 /\ Code \notin \hf0..\hff
    BY <1>2 DEF Jumping
  <2>2. QED
    BY <1>4, <2>1, FetchDecides
       DEF Plain, MI_JMP, CTRL_CJMP, CTRL_CLOSURE, CTRL_CALL, MI_END, OP_END
<1>6. Abstract!Kind("callc") /\ InstrAt(ip) = k /\ IsCode(program)
      /\ Len(program.code) \in Nat
  BY <1>1, AtInstruction, Areas
<1>7. CASE Ends("failed")
  <2>1. IInv' /\ Abstract!Ends("failed")
    BY <1>7, EndsStep DEF Ended
  <2>2. Abstract!CallClosure
    BY <1>6, <2>1 DEF Abstract!CallClosure
  <2>3. QED
    BY <2>1, <2>2 DEF Abstract!Next
<1>8. ASSUME NEW offset \in closures, Calls(offset)
      PROVE  IInv' /\ Abstract!Next
  <2>1. PICK t \in 1..Len(program.code) : offset = OffsetIn(program.code, t)
    BY <1>1 DEF CodeEntries
  <2>2. IInv' /\ Abstract!Calls(t)
    BY <1>4, <1>8, <2>1, CallsStep
  <2>3. InstrIn(program.code, offset) = t
    <3>1. t \in 0..(Len(program.code) + 1)
      BY <1>6, SMTT(30)
    <3>2. QED
      BY <1>6, <2>1, <3>1, OffsetsInstr
  <2>4. t \in Closures
    BY <2>3
  <2>5. Abstract!CallClosure
    BY <1>6, <2>2, <2>4 DEF Abstract!CallClosure
  <2>6. QED
    BY <2>2, <2>5 DEF Abstract!Next
<1>9. QED
  BY <1>5, <1>7, <1>8 DEF CTRL_CALLC

LEMMA EndStep ==
  ASSUME IInv, state = "running", Next, NEW k \in 1..Len(program.code), ip = Pos(k),
         program.code[k].kind = "return", program.code[k].op = \h16,
         Complete(program.code[k])
  PROVE  IInv' /\ Abstract!Next
<1> DEFINE instr == program.code[k]
<1>1. Loaded
  BY DEF IInv
<1>2. Code = \h16
  BY <1>1, Fetching DEF Fetches
<1>3. Whole(instr) /\ instr.op \in Valid
  BY DEF Complete, Valid, NoOperand
<1>4. ~ Unwritten /\ Fits
  <2>1. Code \notin Failing /\ Code \notin WithString
    BY <1>2 DEF Failing, WithString
  <2>2. QED
    BY <1>1, <1>3, <2>1, WholeFetched
<1>5. MI_END
  <2>1. /\ Code \in Jumping /\ Code # \h15 /\ Code # \h50 /\ Code # \h51 /\ Code # \h54
        /\ Code # \h56 /\ Code # \h55 /\ Code \notin \hf0..\hff
    BY <1>2 DEF Jumping
  <2>2. QED
    BY <1>4, <2>1, FetchDecides
       DEF Plain, MI_JMP, CTRL_CJMP, CTRL_CLOSURE, CTRL_CALL, CTRL_CALLC, OP_END
<1>6. IInv' /\ Abstract!Return
  BY <1>5, ReturnStep
<1>7. QED
  BY <1>6 DEF Abstract!Next

LEMMA StopStep ==
  ASSUME IInv, state = "running", Next, NEW k \in 1..Len(program.code), ip = Pos(k),
         program.code[k].kind = "stop", program.code[k].op \in \hf0..\hff,
         Complete(program.code[k])
  PROVE  IInv' /\ Abstract!Next
<1> DEFINE instr == program.code[k]
<1>1. Loaded
  BY DEF IInv
<1>2. Code \in \hf0..\hff /\ Code = instr.op
  BY <1>1, Fetching DEF Fetches
<1>3. Whole(instr) /\ instr.op \in Valid
  BY DEF Complete, Valid, NoOperand
<1>4. ~ Unwritten /\ Fits
  <2>1. \A c \in \hf0..\hff : c \notin Failing /\ c \notin WithString
    BY DEF Failing, WithString
  <2>2. Code \notin Failing /\ Code \notin WithString
    BY <1>2, <2>1
  <2>3. QED
    BY <1>1, <1>3, <2>2, WholeFetched
<1>5. Ends("stopped")
  <2>1. /\ Code \in Jumping /\ Code # \h15 /\ Code # \h50 /\ Code # \h51 /\ Code # \h54
        /\ Code # \h56 /\ Code # \h55 /\ Code # \h16
    <3>1. \A c \in \hf0..\hff :
            /\ c \in Jumping /\ c # \h15 /\ c # \h50 /\ c # \h51 /\ c # \h54
            /\ c # \h56 /\ c # \h55 /\ c # \h16
      BY DEF Jumping
    <3>2. PICK c \in \hf0..\hff : c = Code
      BY <1>2
    <3>3. /\ c \in Jumping /\ c # \h15 /\ c # \h50 /\ c # \h51 /\ c # \h54
          /\ c # \h56 /\ c # \h55 /\ c # \h16
      BY <3>1
    <3>4. QED
      BY <3>2, <3>3
  <2>2. OP_END
    BY <1>4, <2>1, FetchDecides
       DEF Plain, MI_JMP, CTRL_CJMP, CTRL_CLOSURE, CTRL_CALL, CTRL_CALLC, MI_END
  <2>3. QED
    BY <2>2 DEF OP_END
<1>6. IInv' /\ Abstract!Ends("stopped")
  BY <1>5, EndsStep DEF Ended
<1>7. Abstract!Kind("stop")
  BY <1>1, AtInstruction
<1>8. Abstract!Stop
  BY <1>6, <1>7 DEF Abstract!Stop
<1>9. QED
  BY <1>6, <1>8 DEF Abstract!Next

\* A CLOSURE with its two operands, and what it captures behind them.
LEMMA ClosureFetched ==
  ASSUME IInv, state = "running", Next, NEW k \in 1..Len(program.code), ip = Pos(k),
         program.code[k].op = \h54, Refers(program.code[k]),
         Len(program.code[k].operands) = 1
  PROVE  /\ CTRL_CLOSURE
         /\ Arg(2) = program.code[k].operands[1] /\ Arg(2) \in Int
         /\ AfterOperands \in Int
         /\ AfterOperands + 5 * Len(program.code[k].captured) = Pos(k + 1)
         /\ \A i \in 1..Len(program.code[k].captured) :
              ByteAt(AfterOperands + 5 * (i - 1)) = program.code[k].captured[i][1]
<1> DEFINE instr == program.code[k]
<1>1. Loaded
  BY DEF IInv
<1>2. /\ Code = \h54 /\ ip \in Int /\ Numbers(instr) \in Nat
      /\ ip + 1 + 4 * Numbers(instr) + 5 * Len(instr.captured) = Pos(k + 1)
      /\ \A i \in 1..Len(instr.operands) : Arg(Len(instr.target) + i) = instr.operands[i]
      /\ \A i \in 1..Len(instr.captured) :
           ByteAt(ip + 1 + 4 * Numbers(instr) + 5 * (i - 1)) = instr.captured[i][1]
  BY <1>1, Fetching DEF Fetches
<1>3. Len(instr.target) = 1 /\ Len(instr.operands) = 1
  BY DEF Refers
<1>4. Whole(instr) /\ instr.op \in Valid
  <2>1. instr.op \in TwoOperands /\ instr.op \notin OneOperand
    BY DEF TwoOperands, OneOperand
  <2>2. QED
    BY <1>3, <2>1 DEF Whole, Numbers, OperandsOf, Valid
<1>5. ~ Unwritten /\ Fits /\ AfterOperands = ip + 1 + 4 * Numbers(instr)
  <2>1. Code \notin Failing /\ Code \notin WithString
    BY <1>2 DEF Failing, WithString
  <2>2. QED
    BY <1>1, <1>4, <2>1, WholeFetched
<1>6. CTRL_CLOSURE
  <2>1. /\ Code \in Jumping /\ Code # \h15 /\ Code # \h50 /\ Code # \h51 /\ Code # \h16
        /\ Code # \h56 /\ Code # \h55 /\ Code \notin \hf0..\hff
    BY <1>2 DEF Jumping
  <2>2. QED
    BY <1>5, <2>1, FetchDecides
       DEF Plain, MI_JMP, CTRL_CJMP, CTRL_CALL, CTRL_CALLC, MI_END, OP_END
<1>7. Arg(2) = instr.operands[1]
  <2> HIDE DEF instr
  <2>1. 1 \in 1..Len(instr.operands) /\ Len(instr.target) + 1 = 2
    BY <1>3
  <2>2. QED
    BY <1>2, <2>1
<1>8. instr.operands[1] \in Int
  <2>1. instr.operands \in Seq(Int32)
    BY <1>1, Areas, CodeTyped
  <2>2. instr.operands[1] \in Int32
    <3>1. 1 \in 1..Len(instr.operands)
      BY <1>3
    <3>2. QED
      BY <2>1, <3>1, SequenceEntries
  <2>3. QED
    BY <2>2, Int32Bounds, SMT
<1>9. AfterOperands \in Int
  BY <1>2, <1>5
<1>10. QED
  BY <1>2, <1>5, <1>6, <1>7, <1>8, <1>9

\* Addresses in the file, and behind it as far as code_end.
LEMMA Within ==
  ASSUME NEW i \in Int, NEW a \in Int, NEW d \in Int, i >= 52, i < a, a <= d
  PROVE  i + (a - i) <= d + 12 /\ a - 1 < d /\ a - 1 >= 40 /\ a - i \in Int /\ a - 1 \in Int
OBVIOUS

LEMMA Beyond ==
  ASSUME NEW i \in Int, NEW a \in Int, NEW d \in Int, d >= 52, a = d + 5 \/ a = d + 10
  PROVE  /\ a - i \in Int /\ a - 1 \in Int /\ i + (a - i) <= d + 12
         /\ ~ (a - 1 < d) /\ a - 1 >= 40
OBVIOUS

LEMMA OneMore ==
  ASSUME NEW i \in Nat, 1 + i = 2
  PROVE  i = 1
OBVIOUS

\* What a CLOSURE does once its operands are read, in the bounds of the code.
LEMMA ClosureDecides ==
  ASSUME Loaded, CTRL_CLOSURE, NEW n \in Int, n = Arg(2),
         NEW next \in Int, next = AfterOperands + 5 * n, ip \in Int
  PROVE  /\ InBounds(ip, next - ip) /\ ~ IsWritten(next - 1) => Ends("strayed")
         /\ ~ InBounds(ip, next - ip) => Ends("failed")
         /\ InBounds(ip, next - ip) /\ IsWritten(next - 1) =>
              /\ (\E i \in 1..n : ByteAt(AfterOperands + 5 * (i - 1)) \notin 0..3) => Ends("failed")
              /\ (\A i \in 1..n : ByteAt(AfterOperands + 5 * (i - 1)) \in 0..3) =>
                   /\ ip' = next
                   /\ closures' = closures \cup {Arg(1)}
                   /\ UNCHANGED <<bytefile, returns, state>>
<1>1. IF InBounds(ip, next - ip) /\ ~ IsWritten(next - 1) THEN Ends("strayed")
      ELSE IF \/ ~ InBounds(ip, next - ip)
              \/ \E i \in 1..n : ByteAt(AfterOperands + 5 * (i - 1)) \notin 0..3
      THEN Ends("failed")
      ELSE /\ ip' = next
           /\ closures' = closures \cup {Arg(1)}
           /\ UNCHANGED <<bytefile, returns, state>>
  BY Zenon DEF CTRL_CLOSURE, AfterCaptures
<1>2. QED
  BY <1>1

LEMMA ClosureStep ==
  ASSUME IInv, state = "running", Next, NEW k \in 1..Len(program.code), ip = Pos(k),
         program.code[k].kind = "closure", program.code[k].op = \h54,
         Calling(program, program.code[k]), Counted(program.code[k]),
         Captures(program.code[k])
  PROVE  IInv' /\ Abstract!Next
<1> DEFINE instr == program.code[k]
           t == instr.target[1]
           v == Len(instr.captured)
           offset == OffsetIn(program.code, t)
<1>1. Loaded /\ InCode /\ program \in Programs
  BY DEF IInv
<1>2. Refers(instr) /\ Len(instr.operands) = 1 /\ instr.operands[1] = v
  BY DEF Calling, Counted
<1>3. /\ CTRL_CLOSURE /\ Arg(2) = v /\ AfterOperands \in Int
      /\ AfterOperands + 5 * v = Pos(k + 1)
      /\ \A i \in 1..v : ByteAt(AfterOperands + 5 * (i - 1)) = instr.captured[i][1]
  BY <1>2, ClosureFetched
<1>4. /\ Abstract!Kind("closure") /\ Abstract!Target = t /\ InstrAt(ip) = k
      /\ DOMAIN program.code = 1..Len(program.code) /\ Len(program.code) \in Nat
      /\ k \in 0..(Len(program.code) + 1) /\ k + 1 \in 0..(Len(program.code) + 1)
  BY <1>1, AtInstruction
<1>5. t \in 1..Len(program.code) /\ Arg(1) = offset
  BY <1>1, <1>2, <1>4, Referring DEF Calling
<1>6. /\ IsCode(program) /\ code_ptr \in Nat /\ code_ptr >= 52 /\ Total \in Nat
      /\ \A a \in Int : a >= SizesAt => (IsWritten(a) <=> a < code_ptr + Total)
      /\ \A a, m \in Int : InBounds(a, m) <=> code_ptr <= a /\ a + m <= code_ptr + Total + 12
  BY <1>1, Areas
<1>7. v \in Nat /\ instr.captured \in Seq(Byte \X Int32)
  BY <1>6, CodeTyped
<1>8. /\ ip \in Int /\ ip >= code_ptr /\ Pos(k + 1) \in Int
      /\ Pos(k + 1) = ip + SizeOf(instr) /\ SizeOf(instr) \in Nat \ {0}
      /\ Pos(k + 1) <= code_ptr + Total /\ InstrAt(Pos(k + 1)) = k + 1
  <2>1. k # 0
    OBVIOUS
  <2>2. QED
    BY <1>1, <1>4, <2>1, Positions
<1> DEFINE next == Pos(k + 1)
<1>9. InBounds(ip, next - ip) /\ IsWritten(next - 1)
  <2>1. PICK a \in Int, d \in Int, s \in Nat \ {0} :
          a = next /\ d = code_ptr + Total /\ s = SizeOf(instr) /\ a = ip + s /\ a <= d
    BY <1>6, <1>8
  <2>2. ip + (a - ip) <= d + 12 /\ a - 1 < d /\ a - 1 >= 40 /\ a - ip \in Int /\ a - 1 \in Int
    <3>1. ip >= 52
      BY <1>6, <1>8
    <3>2. ip < a
      BY <1>8, <2>1
    <3>3. QED
      BY <1>8, <2>1, <3>1, <3>2, Within
  <2>3. QED
    BY <1>6, <1>8, <2>1, <2>2, Header
<1>10. \A i \in 1..v : ByteAt(AfterOperands + 5 * (i - 1)) \in 0..3
  <2>1. DOMAIN instr.captured = 1..v
    BY <1>7, SequenceEntries
  <2>2. ASSUME NEW i \in 1..v
        PROVE  ByteAt(AfterOperands + 5 * (i - 1)) \in 0..3
    <3>1. instr.captured[i][1] \in 0..3
      BY <2>1 DEF Captures
    <3>2. QED
      BY <1>3, <3>1
  <2>3. QED
    BY <2>2
<1>11. /\ ip' = next /\ closures' = closures \cup {offset}
       /\ UNCHANGED <<bytefile, returns, state>>
  <2>1. v \in Int /\ next \in Int /\ next = AfterOperands + 5 * v
    BY <1>3, <1>7, <1>8
  <2> HIDE DEF v, next, offset
  <2>2. QED
    BY <1>1, <1>3, <1>5, <1>8, <1>9, <1>10, <2>1, ClosureDecides
<1>12. /\ Loaded' /\ program' = program /\ code_ptr' = code_ptr
       /\ Returning' = Returning /\ CodeEntries' = CodeEntries
       /\ \A j : Pos(j)' = Pos(j)
       /\ \A a : InstrAt(a)' = InstrAt(a)
  BY <1>1, <1>11, LoadedStays
<1>13. InCode'
  <2>1. ip' = Pos(k + 1)'
    BY <1>11, <1>12
  <2>2. \E j \in 0..(Len(program'.code) + 1) : ip' = Pos(j)'
    BY <1>4, <1>12, <2>1
  <2>3. offset \in CodeEntries
    BY <1>5 DEF CodeEntries
  <2>4. closures' \subseteq CodeEntries'
    BY <1>1, <1>11, <1>12, <2>3 DEF InCode
  <2>5. QED
    BY <1>1, <1>11, <1>12, <2>2, <2>4 DEF InCode
<1>14. IInv'
  BY <1>1, <1>11, <1>12, <1>13 DEF IInv
<1>15. InstrAt(ip)' = k + 1
  BY <1>8, <1>11, <1>12 DEF InstrAt
<1>16. {InstrIn(program.code, o) : o \in closures}'
         = {InstrIn(program.code, o) : o \in closures} \cup {t}
  <2>1. InstrIn(program.code, offset) = t
    <3>1. t \in 0..(Len(program.code) + 1)
      BY <1>4, <1>5
    <3>2. QED
      BY <1>6, <3>1, OffsetsInstr
  <2>2. {InstrIn(program.code, o) : o \in closures}'
          = {InstrIn(program.code, o) : o \in closures \cup {offset}}
    BY <1>11, <1>12
  <2> DEFINE F(o) == InstrIn(program.code, o)
  <2>3. F(offset) = t
    BY <2>1
  <2> HIDE DEF offset, t, F
  <2>4. {F(o) : o \in closures \cup {offset}} = {F(o) : o \in closures} \cup {t}
    BY <2>3
  <2>5. QED
    BY <2>2, <2>4 DEF F
<1>17. UNCHANGED [i \in DOMAIN returns |-> InstrAt(returns[i])]
  BY <1>11, <1>12 DEF InstrAt
<1>18. Abstract!Closure
  BY <1>4, <1>11, <1>12, <1>15, <1>16, <1>17 DEF Abstract!Closure
<1>19. QED
  BY <1>14, <1>18 DEF Abstract!Next

\* An instruction that fails, by its code, its operands, or what it captures.
LEMMA FailureStep ==
  ASSUME IInv, state = "running", Next, NEW k \in 1..Len(program.code), ip = Pos(k),
         program.code[k].kind = "failure", Ends("failed")
  PROVE  IInv' /\ Abstract!Next
<1>1. IInv' /\ Abstract!Ends("failed")
  BY EndsStep DEF Ended
<1>2. Abstract!Kind("failure")
  BY AtInstruction DEF IInv
<1>3. Abstract!Failure
  BY <1>1, <1>2 DEF Abstract!Failure
<1>4. QED
  BY <1>1, <1>3 DEF Abstract!Next

LEMMA FailureEnds ==
  ASSUME IInv, state = "running", Next, NEW k \in 1..Len(program.code), ip = Pos(k),
         LET instr == program.code[k]
             op == instr.op
             last == k = Len(program.code) /\ instr.captured = <<>>
         IN  \/ op \notin Valid
             \/ op \in Failing /\ Whole(instr)
             \/ Complete(instr) /\ instr.target = <<>> /\ ~ Named(program, instr)
             \/ op = \h54 /\ Refers(instr) /\ Counted(instr) /\ ~ Captures(instr)
             \/ op = \h54 /\ Refers(instr) /\ Whole(instr) /\ last /\ 5 * instr.operands[1] > 12
  PROVE  Ends("failed")
<1> DEFINE instr == program.code[k]
           op == instr.op
           v == Len(instr.captured)
<1>1. Loaded
  BY DEF IInv
<1>2. /\ Code = op /\ IsWritten(ip) /\ InBounds(ip, 1) /\ ip \in Int
      /\ \A i \in 1..Len(instr.operands) : Arg(Len(instr.target) + i) = instr.operands[i]
  BY <1>1, Fetching DEF Fetches
<1>3. /\ IsCode(program) /\ code_ptr \in Nat /\ code_ptr >= 52 /\ Total \in Nat
      /\ stringtab_size = Len(program.strings)
      /\ \A a \in Int : a >= SizesAt => (IsWritten(a) <=> a < code_ptr + Total)
      /\ \A a, m \in Int : InBounds(a, m) <=> code_ptr <= a /\ a + m <= code_ptr + Total + 12
  BY <1>1, Areas
<1>4. /\ Len(instr.target) \in Nat /\ Len(instr.operands) \in Nat /\ v \in Nat
      /\ instr.captured \in Seq(Byte \X Int32)
  BY <1>3, CodeTyped
<1>5. /\ ip >= code_ptr /\ Pos(k + 1) \in Int
      /\ Pos(k + 1) = ip + SizeOf(instr) /\ SizeOf(instr) \in Nat \ {0}
      /\ Pos(k + 1) <= code_ptr + Total
  <2>1. /\ k \in 0..(Len(program.code) + 1) /\ k + 1 \in 0..(Len(program.code) + 1) /\ k # 0
    BY <1>1, AtInstruction
  <2>2. QED
    BY <1>1, <2>1, Positions
<1>6. CASE op \notin Valid
  <2>1. ~ Unwritten /\ ~ Fits
    BY <1>2, <1>6 DEF Unwritten, Fits
  <2>2. QED
    BY <2>1, FetchDecides
<1>7. CASE op \in Failing /\ Whole(instr)
  <2>1. op \in Valid
    BY <1>7 DEF Failing, Valid, OneOperand, TwoOperands
  <2>2. ~ Unwritten /\ ~ Fits
    BY <1>1, <1>2, <1>7, <2>1, WholeFetched
  <2>3. QED
    BY <2>2, FetchDecides
<1>8. CASE Complete(instr) /\ instr.target = <<>> /\ ~ Named(program, instr)
  <2>1. op \in WithString /\ instr.operands[1] \notin 0..(Len(program.strings) - 1)
    BY <1>8 DEF Named
  <2>2. op \in Valid /\ OperandsOf(op) \in {1, 2}
    BY <2>1 DEF OperandsOf, WithString, Valid, OneOperand, TwoOperands
  <2>3. Whole(instr)
    BY <1>8 DEF Complete
  <2>4. Len(instr.target) = 0
    BY <1>8, EmptySeq
  <2>5. Len(instr.operands) = OperandsOf(op)
    BY <1>4, <2>3, <2>4 DEF Whole, Numbers
  <2>6. ~ Unwritten /\ (Fits => IsString(Arg(1)))
    BY <1>1, <1>2, <2>1, <2>2, <2>3, WholeFetched
  <2>7. Arg(1) = instr.operands[1]
    <3> HIDE DEF instr
    <3>1. 1 \in 1..Len(instr.operands) /\ Len(instr.target) + 1 = 1
      BY <2>2, <2>4, <2>5
    <3>2. QED
      BY <1>2, <3>1
  <2>8. ~ IsString(Arg(1))
    BY <1>3, <2>1, <2>7 DEF IsString
  <2>9. QED
    BY <2>6, <2>8, FetchDecides
<1>9. CASE op = \h54 /\ Refers(instr) /\ Counted(instr) /\ ~ Captures(instr)
  <2>1. Len(instr.operands) = 1 /\ instr.operands[1] = v
    BY <1>9 DEF Counted
  <2>2. /\ CTRL_CLOSURE /\ Arg(2) = v /\ AfterOperands \in Int
        /\ AfterOperands + 5 * v = Pos(k + 1)
        /\ \A i \in 1..v : ByteAt(AfterOperands + 5 * (i - 1)) = instr.captured[i][1]
    BY <1>9, <2>1, ClosureFetched
  <2> DEFINE next == Pos(k + 1)
  <2>3. InBounds(ip, next - ip) /\ IsWritten(next - 1)
    <3>1. PICK a \in Int, d \in Int, s \in Nat \ {0} :
            a = next /\ d = code_ptr + Total /\ s = SizeOf(instr) /\ a = ip + s /\ a <= d
      BY <1>3, <1>5
    <3>2. ip + (a - ip) <= d + 12 /\ a - 1 < d /\ a - 1 >= 40 /\ a - ip \in Int /\ a - 1 \in Int
      <4>1. ip >= 52 /\ ip < a
        BY <1>2, <1>3, <1>5, <3>1
      <4>2. QED
        BY <1>2, <3>1, <4>1, Within
    <3>3. QED
      BY <1>2, <1>3, <1>5, <3>1, <3>2, Header
  <2>4. \E i \in 1..v : ByteAt(AfterOperands + 5 * (i - 1)) \notin 0..3
    <3>1. DOMAIN instr.captured = 1..v
      BY <1>4, SequenceEntries
    <3>2. PICK i \in 1..v : instr.captured[i][1] \notin 0..3
      BY <1>9, <3>1 DEF Captures
    <3>3. ByteAt(AfterOperands + 5 * (i - 1)) = instr.captured[i][1]
      BY <2>2
    <3>4. QED
      BY <3>2, <3>3
  <2>5. v \in Int /\ next \in Int /\ next = AfterOperands + 5 * v
    BY <1>4, <1>5, <2>2
  <2> HIDE DEF v, next
  <2>6. QED
    BY <1>1, <1>2, <2>2, <2>3, <2>4, <2>5, ClosureDecides
<1>10. CASE /\ op = \h54 /\ Refers(instr) /\ Whole(instr)
            /\ k = Len(program.code) /\ instr.captured = <<>>
            /\ 5 * instr.operands[1] > 12
  <2> DEFINE n == instr.operands[1]
  <2>1. Len(instr.operands) = 1
    <3>1. OperandsOf(op) = 2
      BY <1>10 DEF OperandsOf, OneOperand, TwoOperands
    <3>2. Len(instr.target) + Len(instr.operands) = OperandsOf(op) /\ Len(instr.target) = 1
      BY <1>10 DEF Whole, Numbers, Refers
    <3>3. PICK i \in Nat : i = Len(instr.operands)
      BY <1>4
    <3>4. i = 1
      <4>1. 1 + i = 2
        BY <3>1, <3>2, <3>3
      <4>2. QED
        BY <4>1, OneMore
    <3>5. QED
      BY <3>3, <3>4
  <2>2. /\ CTRL_CLOSURE /\ Arg(2) = n /\ n \in Int /\ AfterOperands \in Int
        /\ AfterOperands + 5 * v = Pos(k + 1)
    BY <1>10, <2>1, ClosureFetched
  <2>3. v = 0
    BY <1>10, EmptySeq
  <2>4. Pos(k + 1) = code_ptr + Total
    <3>1. 0 \in 0..(Len(program.code) + 1)
      BY <1>1, AtInstruction
    <3>2. QED
      BY <1>1, <1>10, <3>1, Positions
  <2>5. PICK next \in Int : next = AfterOperands + 5 * n
    BY <2>2
  <2>6. AfterOperands = code_ptr + Total
    BY <2>2, <2>3, <2>4
  <2>7. ~ InBounds(ip, next - ip)
    <3>1. PICK d \in Int : d = code_ptr + Total /\ d = AfterOperands
      BY <2>2, <2>6
    <3>2. next > d + 12 /\ next - ip \in Int /\ ip + (next - ip) = next
      <4>1. 5 * n > 12 /\ n \in Int
        BY <1>10, <2>2
      <4> HIDE DEF n
      <4>2. next = d + 5 * n
        BY <2>5, <3>1
      <4>3. next > d + 12
        BY <4>1, <4>2
      <4>4. QED
        BY <1>2, <4>3
    <3>3. ~ (ip + (next - ip) <= code_ptr + Total + 12)
      BY <1>3, <3>1, <3>2
    <3>4. QED
      BY <1>2, <1>3, <3>2, <3>3
  <2> HIDE DEF n
  <2>8. QED
    BY <1>1, <1>2, <2>2, <2>5, <2>7, ClosureDecides
<1>11. QED
  BY <1>6, <1>7, <1>8, <1>9, <1>10

\* The file ends within the instruction.
LEMMA CutStep ==
  ASSUME IInv, state = "running", Next, NEW k \in 1..Len(program.code), ip = Pos(k),
         program.code[k].kind = "cut", program.code[k].op \in Valid,
         k = Len(program.code), program.code[k].captured = <<>>,
         LET instr == program.code[k]
         IN  \/ Numbers(instr) < OperandsOf(instr.op)
             \/ instr.op = \h54 /\ Refers(instr) /\ Whole(instr) /\ instr.operands[1] \in 1..2
  PROVE  IInv' /\ Abstract!Next
<1> DEFINE instr == program.code[k]
           w == Numbers(instr)
           v == Len(instr.captured)
<1>1. Loaded
  BY DEF IInv
<1>2. /\ Code = instr.op /\ IsWritten(ip) /\ InBounds(ip, 1) /\ ip \in Int
      /\ ip + 1 + 4 * w + 5 * v = Pos(k + 1) /\ w \in Nat
  BY <1>1, Fetching DEF Fetches
<1>3. /\ IsCode(program) /\ code_ptr \in Nat /\ code_ptr >= 52 /\ Total \in Nat
      /\ \A a \in Int : a >= SizesAt => (IsWritten(a) <=> a < code_ptr + Total)
      /\ \A a, m \in Int : InBounds(a, m) <=> code_ptr <= a /\ a + m <= code_ptr + Total + 12
  BY <1>1, Areas
<1>4. v = 0
  BY EmptySeq
<1>5. Pos(k + 1) = code_ptr + Total /\ ip >= code_ptr
  <2>1. k \in 0..(Len(program.code) + 1) /\ k # 0
    BY <1>1, AtInstruction
  <2>2. QED
    BY <1>1, <2>1, Positions
<1>6. ip + 1 + 4 * w = code_ptr + Total
  BY <1>2, <1>4, <1>5
<1>7. Len(instr.target) \in Nat /\ Len(instr.operands) \in Nat
  BY <1>3, CodeTyped
<1>8. Ends("strayed")
  <2>1. CASE w < OperandsOf(instr.op)
    <3>1. OperandsOf(instr.op) \in 0..2
      BY DEF OperandsOf
    <3>2. PICK c \in 1..2 : OperandsOf(instr.op) = w + c
      <4>1. PICK m \in 0..2 : m = OperandsOf(instr.op)
        BY <3>1
      <4>2. m - w \in 1..2 /\ m = w + (m - w)
        BY <1>2, <2>1, <4>1
      <4>3. QED
        BY <4>1, <4>2
    <3> HIDE DEF w
    <3>3. AfterOperands = ip + 1 + 4 * (w + c)
      BY <1>2, <3>2 DEF AfterOperands, NOperands
    <3>4. PICK a \in Int, d \in Int : a = AfterOperands /\ d = code_ptr + Total /\ a = d + 4 * c
      <4>1. w \in Nat /\ ip \in Int /\ ip + 1 + 4 * w = code_ptr + Total
        BY <1>2, <1>6 DEF w
      <4>2. ip + 1 + 4 * (w + c) \in Int /\ ip + 1 + 4 * w \in Int
            /\ ip + 1 + 4 * (w + c) = (ip + 1 + 4 * w) + 4 * c
        <5>1. PICK x \in Int, y \in Nat : x = ip /\ y = w
          BY <4>1
        <5>2. x + 1 + 4 * (y + c) \in Int /\ x + 1 + 4 * y \in Int
              /\ x + 1 + 4 * (y + c) = (x + 1 + 4 * y) + 4 * c
          OBVIOUS
        <5>3. QED
          BY <5>1, <5>2
      <4>3. QED
        BY <3>3, <4>1, <4>2
    <3>5. InBounds(ip, a - ip) /\ ~ IsWritten(a - 1)
      <4>1. /\ a - ip \in Int /\ a - 1 \in Int /\ ip + (a - ip) <= d + 12
            /\ ~ (a - 1 < d) /\ a - 1 >= 40
        BY <1>2, <1>3, <3>4
      <4>2. QED
        BY <1>2, <1>3, <1>5, <3>4, <4>1, Header
    <3>6. Unwritten
      BY <1>2, <3>4, <3>5 DEF Unwritten
    <3>7. QED
      BY <3>6, FetchDecides
  <2>2. CASE instr.op = \h54 /\ Refers(instr) /\ Whole(instr) /\ instr.operands[1] \in 1..2
    <3> DEFINE n == instr.operands[1]
    <3>1. Len(instr.operands) = 1
      <4>1. OperandsOf(instr.op) = 2
        BY <2>2 DEF OperandsOf, OneOperand, TwoOperands
      <4>2. Len(instr.target) + Len(instr.operands) = OperandsOf(instr.op)
            /\ Len(instr.target) = 1
        BY <2>2 DEF Whole, Numbers, Refers
      <4>3. PICK i \in Nat : i = Len(instr.operands)
        BY <1>7
      <4>4. i = 1
        <5>1. 1 + i = 2
          BY <4>1, <4>2, <4>3
        <5>2. QED
          BY <5>1, OneMore
      <4>5. QED
        BY <4>3, <4>4
    <3>2. /\ CTRL_CLOSURE /\ Arg(2) = n /\ n \in Int /\ AfterOperands \in Int
          /\ AfterOperands + 5 * v = Pos(k + 1)
      BY <2>2, <3>1, ClosureFetched
    <3>3. AfterOperands = code_ptr + Total
      BY <1>4, <1>5, <3>2
    <3>4. n \in 1..2
      BY <2>2
    <3> HIDE DEF n
    <3>5. PICK next \in Int, d \in Int :
            next = AfterOperands + 5 * n /\ d = code_ptr + Total /\ next = d + 5 * n
      BY <3>2, <3>3
    <3>6. InBounds(ip, next - ip) /\ ~ IsWritten(next - 1)
      <4>1. d >= 52
        <5>1. d >= ip /\ ip >= 52
          <6>1. PICK x \in Int, y \in Nat : x = ip /\ x + 1 + 4 * y = d
            BY <1>2, <1>6, <3>5
          <6>2. x >= 52
            BY <1>3, <1>5, <6>1
          <6>3. QED
            BY <6>1, <6>2
        <5>2. QED
          BY <1>2, <5>1
      <4>2. /\ next - ip \in Int /\ next - 1 \in Int /\ ip + (next - ip) <= d + 12
            /\ ~ (next - 1 < d) /\ next - 1 >= 40
        <5>1. n = 1 \/ n = 2
          BY <3>4
        <5>2. next = d + 5 \/ next = d + 10
          BY <3>5, <5>1
        <5>3. QED
          BY <1>2, <4>1, <5>2, Beyond
      <4>3. QED
        BY <1>2, <1>3, <1>5, <3>5, <4>2, Header
    <3>7. QED
      BY <1>1, <1>2, <3>2, <3>5, <3>6, ClosureDecides
  <2>3. QED
    BY <2>1, <2>2
<1>9. IInv' /\ Abstract!Ends("strayed")
  BY <1>8, EndsStep DEF Ended
<1>10. Abstract!Kind("cut")
  BY <1>1, AtInstruction
<1>11. Abstract!Cut
  BY <1>9, <1>10 DEF Abstract!Cut
<1>12. QED
  BY <1>9, <1>11 DEF Abstract!Next

-----------------------------------------------------------------------------
(* Every step.                                                               *)

LEMMA InstructionStep ==
  ASSUME IInv, state = "running", Next, NEW k \in 1..Len(program.code), ip = Pos(k)
  PROVE  IInv' /\ Abstract!Next
<1> DEFINE instr == program.code[k]
           op == instr.op
           last == k = Len(program.code) /\ instr.captured = <<>>
<1>1. IsOfKind(program, k)
  BY Areas, CodeTyped DEF IInv
<1>2. \/ /\ instr.kind = "plain" /\ op \in Valid \ (Jumping \cup Failing)
         /\ Complete(instr) /\ instr.target = <<>> /\ Named(program, instr)
      \/ instr.kind = "jump" /\ op = \h15 /\ Complete(instr) /\ Refers(instr)
      \/ instr.kind = "branch" /\ op \in {\h50, \h51} /\ Complete(instr) /\ Refers(instr)
      \/ instr.kind = "call" /\ op = \h56 /\ Complete(instr) /\ Calling(program, instr)
      \/ instr.kind = "callc" /\ op = \h55 /\ Complete(instr)
      \/ /\ instr.kind = "closure" /\ op = \h54
         /\ Calling(program, instr) /\ Counted(instr) /\ Captures(instr)
      \/ instr.kind = "return" /\ op = \h16 /\ Complete(instr)
      \/ instr.kind = "stop" /\ op \in \hf0..\hff /\ Complete(instr)
      \/ /\ instr.kind = "failure"
         /\ \/ op \notin Valid
            \/ op \in Failing /\ Whole(instr)
            \/ Complete(instr) /\ instr.target = <<>> /\ ~ Named(program, instr)
            \/ op = \h54 /\ Refers(instr) /\ Counted(instr) /\ ~ Captures(instr)
            \/ op = \h54 /\ Refers(instr) /\ Whole(instr) /\ last /\ 5 * instr.operands[1] > 12
      \/ /\ instr.kind = "cut" /\ op \in Valid /\ last
         /\ \/ Numbers(instr) < OperandsOf(op)
            \/ op = \h54 /\ Refers(instr) /\ Whole(instr) /\ instr.operands[1] \in 1..2
  BY <1>1, Zenon DEF IsOfKind
<1>3. CASE /\ instr.kind = "plain" /\ op \in Valid \ (Jumping \cup Failing)
           /\ Complete(instr) /\ instr.target = <<>> /\ Named(program, instr)
  BY <1>3, PlainStep
<1>4. CASE instr.kind = "jump" /\ op = \h15 /\ Complete(instr) /\ Refers(instr)
  BY <1>4, JumpStep
<1>5. CASE instr.kind = "branch" /\ op \in {\h50, \h51} /\ Complete(instr) /\ Refers(instr)
  BY <1>5, BranchStep
<1>6. CASE instr.kind = "call" /\ op = \h56 /\ Complete(instr) /\ Calling(program, instr)
  BY <1>6, CallStep
<1>7. CASE instr.kind = "callc" /\ op = \h55 /\ Complete(instr)
  BY <1>7, CallClosureStep
<1>8. CASE /\ instr.kind = "closure" /\ op = \h54
           /\ Calling(program, instr) /\ Counted(instr) /\ Captures(instr)
  BY <1>8, ClosureStep
<1>9. CASE instr.kind = "return" /\ op = \h16 /\ Complete(instr)
  BY <1>9, EndStep
<1>10. CASE instr.kind = "stop" /\ op \in \hf0..\hff /\ Complete(instr)
  BY <1>10, StopStep
<1>11. CASE /\ instr.kind = "failure"
            /\ \/ op \notin Valid
               \/ op \in Failing /\ Whole(instr)
               \/ Complete(instr) /\ instr.target = <<>> /\ ~ Named(program, instr)
               \/ op = \h54 /\ Refers(instr) /\ Counted(instr) /\ ~ Captures(instr)
               \/ op = \h54 /\ Refers(instr) /\ Whole(instr) /\ last /\ 5 * instr.operands[1] > 12
  <2>1. Ends("failed")
    BY <1>11, FailureEnds
  <2>2. QED
    BY <1>11, <2>1, FailureStep
<1>12. CASE /\ instr.kind = "cut" /\ op \in Valid /\ last
            /\ \/ Numbers(instr) < OperandsOf(op)
               \/ op = \h54 /\ Refers(instr) /\ Whole(instr) /\ instr.operands[1] \in 1..2
  BY <1>12, CutStep
<1> HIDE DEF instr, op, last
<1>13. QED
  BY <1>2, <1>3, <1>4, <1>5, <1>6, <1>7, <1>8, <1>9, <1>10, <1>11, <1>12

LEMMA Step ==
  ASSUME IInv, [Next]_vars
  PROVE  IInv' /\ [Abstract!Next]_(Abstract!vars)
<1>1. CASE UNCHANGED vars
  <2>1. /\ UNCHANGED <<program, contents, string_ptr, code_ptr, code_end>>
        /\ UNCHANGED <<ip, returns, closures, state>>
    BY <1>1 DEF vars, bytefile
  <2>2. Loaded' <=> Loaded
    BY <2>1 DEF Loaded, Total
  <2>3. InCode' <=> InCode
    BY <2>1 DEF InCode, Pos, Returning, CodeEntries
  <2>4. IInv'
    BY <2>1, <2>2, <2>3 DEF IInv, Unstarted
  <2>5. UNCHANGED Abstract!vars
    BY <2>1 DEF Abstract!vars, InstrAt
  <2>6. QED
    BY <2>4, <2>5
<1>2. CASE Next
  <2>1. CASE state = "running"
    <3>1. PICK k \in 0..(Len(program.code) + 1) : ip = Pos(k)
      BY <2>1 DEF IInv, InCode
    <3>2. Len(program.code) \in Nat
      BY <2>1, Areas, CodeTyped DEF IInv
    <3>3. CASE k \in 1..Len(program.code)
      BY <1>2, <2>1, <3>1, <3>3, InstructionStep
    <3>4. CASE k \in {0, Len(program.code) + 1}
      BY <1>2, <2>1, <3>1, <3>4, OutsideStep
    <3>5. k \in 1..Len(program.code) \/ k \in {0, Len(program.code) + 1}
      BY <3>2
    <3>6. QED
      BY <3>3, <3>4, <3>5
  <2>2. CASE state # "running"
    <3>1. read_file \/ dump_file
      BY <1>2, <2>2 DEF Next, Fails, Strays, Fetched, Plain, MI_JMP, CTRL_CJMP,
                        CTRL_CLOSURE, CTRL_CALL, CTRL_CALLC, MI_END, OP_END
    <3>2. CASE read_file
      <4>1. IInv' /\ Abstract!Load
        BY <3>2, ReadStep
      <4>2. QED
        BY <4>1 DEF Abstract!Next
    <3>3. CASE dump_file
      <4>1. IInv' /\ Abstract!Start
        BY <3>3, StartStep
      <4>2. QED
        BY <4>1 DEF Abstract!Next
    <3>4. QED
      BY <3>1, <3>2, <3>3
  <2>3. QED
    BY <2>1, <2>2
<1>3. QED
  BY <1>1, <1>2

LEMMA Starts ==
  Init => IInv /\ Abstract!Init
<1>1. SUFFICES ASSUME Init PROVE IInv /\ Abstract!Init
  OBVIOUS
<1>2. /\ program \in Programs /\ ip = 0 /\ returns = <<>> /\ closures = {}
      /\ state = "reading"
  BY <1>1 DEF Init, InitFile
<1>3. IInv
  BY <1>2 DEF IInv, Unstarted
<1>4. IsCode(program) /\ IsTable(program)
  BY <1>2, ProgramsFit
<1>5. Abstract!IsProgram(program)
  <2> DEFINE ps == Publics(program)
  <2>1. DOMAIN program.publics = 1..Len(program.publics) /\ Len(program.publics) \in Nat
        /\ \A i \in 1..Len(program.publics) : program.publics[i].entry \in DOMAIN program.code
    BY <1>4, TableTyped
  <2>2. Main(program) \in DOMAIN program.code \cup {0}
    <3>1. CASE ps = {}
      BY <3>1 DEF Main
    <3>2. CASE ps # {}
      <4> DEFINE R == {Len(program.publics) - i : i \in ps}
      <4>1. \A i \in ps : i \in 1..Len(program.publics)
        BY <2>1 DEF Publics
      <4>2. R \subseteq Nat /\ R # {}
        <5>1. \A i \in ps : Len(program.publics) - i \in Nat
          BY <2>1, <4>1
        <5>2. QED
          BY <3>2, <5>1
      <4> HIDE DEF R, ps
      <4>3. PICK x \in R : \A y \in R : x <= y
        BY <4>2, LeastNatural
      <4>4. PICK m \in ps : x = Len(program.publics) - m
        BY DEF R
      <4>5. \A j \in ps : j <= m
        <5>1. SUFFICES ASSUME NEW j \in ps PROVE j <= m
          OBVIOUS
        <5>2. x <= Len(program.publics) - j
          BY <4>3 DEF R
        <5>3. j \in Int /\ m \in Int
          BY <4>1
        <5>4. QED
          BY <2>1, <4>4, <5>2, <5>3
      <4> DEFINE c == CHOOSE i \in ps : \A j \in ps : j <= i
      <4>6. c \in ps
        BY <4>5
      <4>7. Main(program) = program.publics[c].entry
        BY <3>2 DEF Main, ps
      <4> HIDE DEF c
      <4>8. QED
        BY <2>1, <4>1, <4>6, <4>7
    <3>3. QED
      BY <3>1, <3>2
  <2>3. ASSUME NEW k \in DOMAIN program.code, program.code[k].kind \in {"call", "closure"}
        PROVE  program.code[k].target[1] \in DOMAIN program.code
    <3>1. IsOfKind(program, k)
      BY <1>4, CodeTyped
    <3>2. Calling(program, program.code[k])
      BY <2>3, <3>1 DEF IsOfKind
    <3>3. QED
      BY <3>2 DEF Calling
  <2>4. QED
    BY <2>2, <2>3 DEF Abstract!IsProgram
<1>6. InstrAt(ip) = 0 /\ [i \in DOMAIN returns |-> InstrAt(returns[i])] = <<>>
      /\ {InstrIn(program.code, offset) : offset \in closures} = {}
  BY <1>2 DEF InstrAt
<1>7. Abstract!Init
  BY <1>2, <1>5, <1>6 DEF Abstract!Init
<1>8. QED
  BY <1>3, <1>7

\* main.c:504-991 with 417-433: whatever the program, its instructions are run
\* one after the other as they are in the file, operands passed over whole, from
\* the last public main; a jump goes to the beginning of an instruction, or to
\* where it ends the run, and END goes back behind the call.
THEOREM BytecodeImplemented == Spec => ImplementsBytecode
<1>1. Init => IInv /\ Abstract!Init
  BY Starts
<1>2. IInv /\ [Next]_vars => IInv' /\ [Abstract!Next]_(Abstract!vars)
  BY Step
<1>3. QED
  BY <1>1, <1>2, PTL DEF Spec, ImplementsBytecode, Abstract!Spec
===============================================================================
