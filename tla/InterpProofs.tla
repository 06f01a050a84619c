----------------------------- MODULE InterpProofs -----------------------------
(***************************************************************************)
(* Interp keeps its words and objects in order, and implements LamaMachine. *)
(***************************************************************************)
EXTENDS InterpView, SequenceLemmas

-----------------------------------------------------------------------------
(* Words and integers.                                                      *)

\* A quotient and a rest that fit are the quotient and the rest.
LEMMA RestUnique ==
  ASSUME NEW m \in Nat, m > 0, NEW q \in Int, NEW r \in 0..(m - 1)
  PROVE  (m * q + r) % m = r
<1> DEFINE x == m * q + r
           p == x \div m
           t == x % m
<1>1. x \in Int
  OBVIOUS
<1>2. p \in Int /\ t \in 0..(m - 1) /\ x = m * p + t
  BY <1>1
<1> DEFINE d == q - p
<1>3. m * d = t - r /\ d \in Int
  BY <1>2
<1> HIDE DEF p, t, x, d
<1>4. t - r < m /\ t - r > -m
  BY <1>2
<1>5. ~ d >= 1
  BY <1>3, <1>4
<1>6. ~ d <= -1
  BY <1>3, <1>4
<1>7. d = 0
  BY <1>3, <1>5, <1>6
<1>8. QED
  BY <1>2, <1>3, <1>7 DEF t, x

\* Boxing: the word is odd, and what comes out is the integer that is left.
LEMMA Boxed ==
  ASSUME NEW x \in Int
  PROVE  /\ BOX(x) \in AllWords /\ UNBOXED(BOX(x)) /\ UNBOX(BOX(x)) = AsInt(x)
         /\ AsInt(x) \in Ints
<1>1. Half \in Nat /\ Half >= 128
  BY HalfAssumption
<1> DEFINE m == 2 * Half
           y == x + Half
           q == y \div m
           r == y % m
<1>2. m \in Nat /\ m > 0 /\ y \in Int /\ y = x + Half /\ m = 2 * Half
  BY <1>1
<1> HIDE DEF m, y
<1>3. q \in Int /\ r \in 0..(m - 1) /\ y = m * q + r
  BY <1>2
<1> HIDE DEF q, r
<1>4. (2 * m) * q = 2 * (m * q) /\ m * q \in Int
  BY <1>2, <1>3
<1>5. 2 * x + 1 + 2 * Half = (2 * m) * q + (2 * r + 1)
  BY <1>2, <1>3, <1>4, <1>1
<1>6. 2 * r + 1 \in 0..(2 * m - 1) /\ 2 * m \in Nat /\ 2 * m > 0
  BY <1>2, <1>3
<1>7. ((2 * m) * q + (2 * r + 1)) % (2 * m) = 2 * r + 1
  BY <1>3, <1>6, RestUnique
<1>8. 4 * Half = 2 * m
  BY <1>1, <1>2
<1>9. BOX(x) = 2 * r + 1 - m
  <2> DEFINE big == 2 * x + 1 + 2 * Half
             words == 4 * Half
  <2>1. BOX(x) = (big % words) - m
    BY <1>2 DEF BOX, Wrapped
  <2>2. big = (2 * m) * q + (2 * r + 1) /\ words = 2 * m
    BY <1>5, <1>8
  <2> HIDE DEF big, words
  <2>3. big % words = 2 * r + 1
    BY <1>7, <2>2
  <2>4. QED
    BY <1>2, <1>3, <2>1, <2>3
<1>10. AsInt(x) = r - Half
  BY <1>2 DEF AsInt, r, y, m
<1>11. 2 * r + 1 - m = 2 * (r - Half) + 1 /\ r - Half \in Int
  BY <1>1, <1>2, <1>3
<1>12. (2 * (r - Half) + 1) % 2 = 1 /\ (2 * (r - Half) + 1) \div 2 = r - Half
  BY <1>11
<1>13. r - Half \in (-Half)..(Half - 1)
  BY <1>1, <1>2, <1>3
<1>14. 2 * r + 1 - m \in (-(2 * Half))..(2 * Half - 1)
  BY <1>1, <1>2, <1>3
<1>15. QED
  BY <1>9, <1>10, <1>11, <1>12, <1>13, <1>14 DEF UNBOXED, UNBOX, AllWords, Ints

\* An integer that fits is left as it is.
LEMMA IntStays ==
  ASSUME NEW x \in Ints
  PROVE  AsInt(x) = x
<1>1. Half \in Nat /\ Half >= 128 /\ x \in Int /\ x >= -Half /\ x < Half
  BY HalfAssumption DEF Ints
<1>2. 2 * Half \in Nat /\ 2 * Half > 0 /\ x + Half \in 0..(2 * Half - 1)
  BY <1>1
<1>3. ((2 * Half) * 0 + (x + Half)) % (2 * Half) = x + Half
  BY <1>2, RestUnique
<1>4. (2 * Half) * 0 + (x + Half) = x + Half
  BY <1>1
<1>5. QED
  BY <1>1, <1>3, <1>4 DEF AsInt

\* The two kinds of words.
LEMMA WordParts ==
  ASSUME NEW w \in AllWords
  PROVE  /\ w \in Int /\ w \div 2 \in Int /\ UNBOX(w) = w \div 2
         /\ UNBOXED(w) => UNBOX(w) \in Ints /\ w = 2 * UNBOX(w) + 1
         /\ ~ UNBOXED(w) => w = 2 * (w \div 2)
<1>1. Half \in Nat /\ w \in Int /\ w >= -(2 * Half) /\ w < 2 * Half
  BY HalfAssumption DEF AllWords
<1> DEFINE q == w \div 2
           r == w % 2
<1>2. q \in Int /\ r \in {0, 1} /\ w = 2 * q + r
  BY <1>1
<1>3. UNBOX(w) = q /\ (UNBOXED(w) <=> r = 1)
  BY DEF UNBOX, UNBOXED
<1> HIDE DEF q, r
<1>4. q >= -Half /\ q < Half
  BY <1>1, <1>2
<1>5. QED
  BY <1>1, <1>2, <1>3, <1>4 DEF Ints, q

-----------------------------------------------------------------------------
(* The view of a stack and of a heap.                                       *)

\* Each word is seen as a value.
LEMMA ValuesSeen ==
  ASSUME NEW s \in Seq(Int)
  PROVE  /\ ValuesOf(s) = [i \in 1..Len(s) |-> ValueOf(s[i])] /\ Len(s) \in Nat
         /\ Len(ValuesOf(s)) = Len(s) /\ DOMAIN ValuesOf(s) = 1..Len(s)
         /\ \A i \in 1..Len(s) : ValuesOf(s)[i] = ValueOf(s[i])
         /\ ValuesOf(s) = [i \in 1..Len(s) |-> ValuesOf(s)[i]]
<1>1. DOMAIN s = 1..Len(s) /\ Len(s) \in Nat
  BY SequenceEntries
<1>2. ValuesOf(s) = [i \in 1..Len(s) |-> ValueOf(s[i])]
  BY <1>1 DEF ValuesOf
<1>3. ValuesOf(s) = [i \in 1..Len(s) |-> ValuesOf(s)[i]]
  BY <1>2
<1>4. Len(ValuesOf(s)) = Len(s)
  BY <1>1, <1>3, Entries
<1>5. QED
  BY <1>1, <1>2, <1>3, <1>4

\* A word that is pushed is a value that is pushed.
LEMMA ValuesAppended ==
  ASSUME NEW s \in Seq(Int), NEW w \in Int
  PROVE  ValuesOf(Append(s, w)) = Append(ValuesOf(s), ValueOf(w)) /\ Append(s, w) \in Seq(Int)
<1> DEFINE a == Append(s, w)
           v == ValuesOf(s)
           n == Len(s)
<1>1. /\ a \in Seq(Int) /\ Len(a) = n + 1 /\ a[n + 1] = w /\ n \in Nat
      /\ \A i \in 1..n : a[i] = s[i]
  BY AppendProperties, SequenceEntries
<1>2. v = [i \in 1..n |-> v[i]] /\ \A i \in 1..n : v[i] = ValueOf(s[i])
  BY ValuesSeen
<1>3. Append(v, ValueOf(w)) = [i \in 1..(n + 1) |-> IF i = n + 1 THEN ValueOf(w) ELSE v[i]]
  BY <1>1, <1>2, EntryAppended
<1>4. ValuesOf(a) = [i \in 1..Len(a) |-> ValueOf(a[i])]
  BY <1>1, ValuesSeen
<1> HIDE DEF a, v, n
<1>5. ASSUME NEW i \in 1..(n + 1)
      PROVE  ValueOf(a[i]) = IF i = n + 1 THEN ValueOf(w) ELSE v[i]
  BY <1>1, <1>2
<1>6. ValuesOf(a) = Append(v, ValueOf(w))
  BY <1>1, <1>3, <1>4, <1>5
<1>7. QED
  BY <1>1, <1>6 DEF a, v

\* The operands below the last ones.
LEMMA ValuesDropped ==
  ASSUME NEW s \in Seq(Int), NEW n \in 0..Len(s)
  PROVE  /\ ValuesOf(SubSeq(s, 1, Len(s) - n)) = SubSeq(ValuesOf(s), 1, Len(s) - n)
         /\ SubSeq(s, 1, Len(s) - n) \in Seq(Int)
         /\ Len(SubSeq(s, 1, Len(s) - n)) = Len(s) - n
         /\ \A i \in 1..(Len(s) - n) : SubSeq(s, 1, Len(s) - n)[i] = s[i]
<1> DEFINE k == Len(s) - n
           v == ValuesOf(s)
           a == SubSeq(s, 1, k)
<1>1. /\ Len(s) \in Nat /\ k \in 0..Len(s) /\ 1 \in 1..(Len(s) + 1) /\ 1 <= k + 1
      /\ k + 1 - 1 = k /\ \A i \in 1..k : 1 - 1 + i = i /\ i \in 1..Len(s)
  BY SequenceEntries
<1>2. s = [i \in 1..Len(s) |-> s[i]] /\ \A i \in 1..Len(s) : s[i] \in Int
  BY SequenceEntries
<1>3. v = [i \in 1..Len(s) |-> v[i]] /\ \A i \in 1..Len(s) : v[i] = ValueOf(s[i])
  BY ValuesSeen
<1>4. a = [i \in 1..(k + 1 - 1) |-> s[1 - 1 + i]]
  BY <1>1, <1>2, PartOfEntries
<1>5. SubSeq(v, 1, k) = [i \in 1..(k + 1 - 1) |-> v[1 - 1 + i]]
  BY <1>1, <1>3, PartOfEntries
<1> HIDE DEF a, v, k
<1>6. a = [i \in 1..k |-> s[i]] /\ SubSeq(v, 1, k) = [i \in 1..k |-> v[i]] /\ k \in Nat
  BY <1>1, <1>4, <1>5
<1>7. a \in [1..k -> Int]
  BY <1>1, <1>2, <1>6
<1>8. a \in Seq(Int) /\ Len(a) = k
  BY <1>6, <1>7, FunctionIsSeq
<1>9. ValuesOf(a) = [i \in 1..k |-> ValueOf(a[i])]
  BY <1>8, ValuesSeen
<1>10. \A i \in 1..k : ValueOf(a[i]) = v[i]
  BY <1>1, <1>3, <1>6
<1>11. ValuesOf(a) = SubSeq(v, 1, k)
  BY <1>6, <1>9, <1>10
<1>12. QED
  BY <1>6, <1>8, <1>11 DEF a, v, k

\* Each object is seen as a cell.
LEMMA CellsSeen ==
  ASSUME NEW h \in Seq(Objects)
  PROVE  /\ CellsOf(h) = [k \in 1..Len(h) |-> CellOf(h[k])] /\ Len(h) \in Nat
         /\ Len(CellsOf(h)) = Len(h) /\ DOMAIN CellsOf(h) = 1..Len(h) /\ DOMAIN h = 1..Len(h)
         /\ \A k \in 1..Len(h) : CellsOf(h)[k] = CellOf(h[k])
         /\ CellsOf(h) = [k \in 1..Len(h) |-> CellsOf(h)[k]]
<1>1. DOMAIN h = 1..Len(h) /\ Len(h) \in Nat
  BY SequenceEntries
<1>2. CellsOf(h) = [k \in 1..Len(h) |-> CellOf(h[k])]
  BY <1>1 DEF CellsOf
<1>3. CellsOf(h) = [k \in 1..Len(h) |-> CellsOf(h)[k]]
  BY <1>2
<1>4. Len(CellsOf(h)) = Len(h)
  BY <1>1, <1>3, Entries
<1>5. QED
  BY <1>1, <1>2, <1>3, <1>4

\* A new object is a new cell.
LEMMA CellsAppended ==
  ASSUME NEW h \in Seq(Objects), NEW o \in Objects
  PROVE  CellsOf(Append(h, o)) = Append(CellsOf(h), CellOf(o)) /\ Append(h, o) \in Seq(Objects)
<1> DEFINE a == Append(h, o)
           v == CellsOf(h)
           n == Len(h)
<1>1. /\ a \in Seq(Objects) /\ Len(a) = n + 1 /\ a[n + 1] = o /\ n \in Nat
      /\ \A i \in 1..n : a[i] = h[i]
  BY AppendProperties, SequenceEntries
<1>2. v = [i \in 1..n |-> v[i]] /\ \A i \in 1..n : v[i] = CellOf(h[i])
  BY CellsSeen
<1>3. Append(v, CellOf(o)) = [i \in 1..(n + 1) |-> IF i = n + 1 THEN CellOf(o) ELSE v[i]]
  BY <1>1, <1>2, EntryAppended
<1>4. CellsOf(a) = [i \in 1..Len(a) |-> CellOf(a[i])]
  BY <1>1, CellsSeen
<1> HIDE DEF a, v, n
<1>5. ASSUME NEW i \in 1..(n + 1)
      PROVE  CellOf(a[i]) = IF i = n + 1 THEN CellOf(o) ELSE v[i]
  BY <1>1, <1>2
<1>6. CellsOf(a) = Append(v, CellOf(o))
  BY <1>1, <1>3, <1>4, <1>5
<1>7. QED
  BY <1>1, <1>6 DEF a, v

-----------------------------------------------------------------------------
(* What a program can have made.                                            *)

\* With more objects a word is still one.
LEMMA WordsStay ==
  ASSUME NEW n \in Nat, NEW w, IsWord(w, n)
  PROVE  IsWord(w, n + 1) /\ w \in AllWords /\ w \in Int
BY WordParts DEF IsWord

\* The address of a new object is a word that no other object has.
LEMMA NewWord ==
  ASSUME NEW n \in Nat, n < MaxObjects
  PROVE  /\ IsWord(Address(n + 1), n + 1) /\ ValueOf(Address(n + 1)) = Abstract!ref(n + 1)
<1>1. Half \in Nat /\ MaxObjects \in Nat /\ MaxObjects < Half
  BY HalfAssumption, BoundsAssumption
<1>2. Address(n + 1) = 2 * (n + 1) /\ n + 1 \in Nat
  BY DEF Address
<1>3. (2 * (n + 1)) % 2 = 0 /\ (2 * (n + 1)) \div 2 = n + 1
  BY <1>2
<1>4. 2 * (n + 1) \in (-(2 * Half))..(2 * Half - 1)
  BY <1>1
<1>5. QED
  BY <1>2, <1>3, <1>4 DEF IsWord, AllWords, UNBOXED, ValueOf, Abstract!ref

\* An integer is a word.
LEMMA IntIsWord ==
  ASSUME NEW x \in Int, NEW n
  PROVE  IsWord(BOX(x), n) /\ BOX(x) \in Int /\ ValueOf(BOX(x)) = Abstract!int(AsInt(x))
BY Boxed, WordParts DEF IsWord, ValueOf, Abstract!int

\* With more objects an object is still well made.
LEMMA ObjectsStay ==
  ASSUME NEW n \in Nat, NEW o, IsObject(o, n)
  PROVE  IsObject(o, n + 1)
BY WordsStay DEF IsObject

\* A word is pushed.
LEMMA MadeAppended ==
  ASSUME NEW s, NEW h, Made(s, h), NEW w, IsWord(w, Len(h))
  PROVE  Made(Append(s, w), h)
<1>1. s \in Seq(Int) /\ w \in Int
  BY WordParts DEF Made, IsWord
<1>2. /\ Append(s, w) \in Seq(Int) /\ Len(Append(s, w)) = Len(s) + 1 /\ Len(s) \in Nat
      /\ Append(s, w)[Len(s) + 1] = w /\ \A i \in 1..Len(s) : Append(s, w)[i] = s[i]
  BY <1>1, AppendProperties, SequenceEntries
<1>3. DOMAIN s = 1..Len(s) /\ DOMAIN Append(s, w) = 1..(Len(s) + 1)
  BY <1>1, <1>2, SequenceEntries
<1>4. ASSUME NEW i \in DOMAIN Append(s, w)
      PROVE  IsWord(Append(s, w)[i], Len(h))
  <2>1. CASE i = Len(s) + 1
    BY <1>2, <2>1
  <2>2. CASE i # Len(s) + 1
    <3>1. i \in DOMAIN s /\ Append(s, w)[i] = s[i]
      BY <1>2, <1>3, <2>2
    <3>2. QED
      BY <3>1 DEF Made
  <2>3. QED
    BY <2>1, <2>2
<1>5. QED
  BY <1>2, <1>4 DEF Made

\* Words are popped.
LEMMA MadeDropped ==
  ASSUME NEW s, NEW h, Made(s, h), NEW n \in 0..Len(s)
  PROVE  Made(SubSeq(s, 1, Len(s) - n), h)
<1> DEFINE a == SubSeq(s, 1, Len(s) - n)
<1>1. s \in Seq(Int)
  BY DEF Made
<1>2. /\ a \in Seq(Int) /\ Len(a) = Len(s) - n /\ \A i \in 1..(Len(s) - n) : a[i] = s[i]
      /\ Len(s) \in Nat /\ DOMAIN s = 1..Len(s) /\ DOMAIN a = 1..Len(a)
  <2>1. a \in Seq(Int) /\ Len(a) = Len(s) - n /\ \A i \in 1..(Len(s) - n) : a[i] = s[i]
    BY <1>1, ValuesDropped
  <2>2. QED
    BY <1>1, <2>1, SequenceEntries
<1> HIDE DEF a
<1>3. ASSUME NEW i \in DOMAIN a
      PROVE  IsWord(a[i], Len(h))
  <2>1. i \in DOMAIN s /\ a[i] = s[i]
    BY <1>2
  <2>2. QED
    BY <2>1 DEF Made
<1>4. QED
  BY <1>2, <1>3 DEF Made, a

\* An object is made and its address pushed.
LEMMA MadeWithObject ==
  ASSUME NEW s, NEW h, Made(s, h), Len(h) < MaxObjects, NEW o, IsObject(o, Len(h))
  PROVE  Made(Append(s, Address(Len(h) + 1)), Append(h, o))
<1> DEFINE n == Len(h)
           a == Append(h, o)
<1>1. h \in Seq(Objects) /\ o \in Objects /\ s \in Seq(Int) /\ MaxObjects \in Nat
  BY BoundsAssumption DEF Made, IsObject
<1>2. /\ a \in Seq(Objects) /\ Len(a) = n + 1 /\ a[n + 1] = o /\ n \in Nat
      /\ DOMAIN h = 1..n /\ DOMAIN a = 1..(n + 1) /\ \A k \in 1..n : a[k] = h[k]
  <2>1. /\ a \in Seq(Objects) /\ Len(a) = n + 1 /\ a[n + 1] = o /\ n \in Nat
        /\ DOMAIN h = 1..n /\ \A k \in 1..n : a[k] = h[k]
    BY <1>1, AppendProperties, SequenceEntries
  <2>2. DOMAIN a = 1..Len(a)
    BY <2>1, SequenceEntries
  <2>3. QED
    BY <2>1, <2>2
<1> HIDE DEF a, n
<1>3. ASSUME NEW k \in DOMAIN a
      PROVE  IsObject(a[k], n + 1)
  <2>1. CASE k = n + 1
    BY <1>2, <2>1, ObjectsStay DEF n
  <2>2. CASE k # n + 1
    <3>1. k \in DOMAIN h /\ a[k] = h[k]
      BY <1>2, <2>2
    <3>2. IsObject(h[k], n)
      BY <3>1 DEF Made, n
    <3>3. QED
      BY <1>2, <3>1, <3>2, ObjectsStay
  <2>3. QED
    BY <2>1, <2>2
<1>4. Made(s, a)
  <2>1. ASSUME NEW i \in DOMAIN s
        PROVE  IsWord(s[i], n + 1)
    BY <1>2, WordsStay DEF Made, n
  <2>2. n + 1 <= MaxObjects
    BY <1>1, <1>2 DEF n
  <2>3. QED
    BY <1>1, <1>2, <1>3, <2>1, <2>2 DEF Made
<1>5. IsWord(Address(n + 1), Len(a))
  BY <1>2, NewWord DEF n
<1>6. QED
  BY <1>4, <1>5, MadeAppended DEF a, n

-----------------------------------------------------------------------------
(* Steps of the program.                                                    *)

\* What a program sees of a step that goes on.
LEMMA BecomesStep ==
  ASSUME WellMade, state = "running", NEW s, NEW h, NEW e, Becomes(s, h, e), Made(s, h)
  PROVE  WellMade' /\ Abstract!Becomes(ValuesOf(s), CellsOf(h), e)
<1>1. stack' = s /\ heap' = h /\ effect' = e /\ state' = state
  BY DEF Becomes
<1>2. WellMade'
  BY <1>1 DEF WellMade
<1>3. QED
  BY <1>1, <1>2 DEF Abstract!Becomes

\* ... that pushes a word,
LEMMA PushesStep ==
  ASSUME WellMade, state = "running", NEW s, NEW w, Pushes(s, w), Made(s, heap),
         IsWord(w, Len(heap))
  PROVE  WellMade' /\ Abstract!Pushes(ValuesOf(s), ValueOf(w))
<1>1. Becomes(Append(s, w), heap, NoEffect)
  BY DEF Pushes
<1>2. s \in Seq(Int) /\ w \in Int
  BY WordParts DEF Made, IsWord
<1>3. Made(Append(s, w), heap)
  BY MadeAppended
<1>4. WellMade' /\ Abstract!Becomes(ValuesOf(Append(s, w)), CellsOf(heap), NoEffect)
  BY <1>1, <1>3, BecomesStep
<1>5. ValuesOf(Append(s, w)) = Append(ValuesOf(s), ValueOf(w))
  BY <1>2, ValuesAppended
<1>6. QED
  BY <1>4, <1>5 DEF Abstract!Pushes, NoEffect

\* ... an integer,
LEMMA PushesInt ==
  ASSUME WellMade, state = "running", NEW s, NEW x \in Int, Pushes(s, BOX(x)), Made(s, heap)
  PROVE  WellMade' /\ Abstract!Pushes(ValuesOf(s), Abstract!int(AsInt(x)))
<1>1. IsWord(BOX(x), Len(heap)) /\ ValueOf(BOX(x)) = Abstract!int(AsInt(x))
  BY IntIsWord
<1>2. WellMade' /\ Abstract!Pushes(ValuesOf(s), ValueOf(BOX(x)))
  BY <1>1, PushesStep
<1>3. QED
  BY <1>1, <1>2

\* ... or a truth value.
LEMMA PushesTruth ==
  ASSUME WellMade, state = "running", NEW s, NEW b \in BOOLEAN, Pushes(s, Val(Bool(b))),
         Made(s, heap)
  PROVE  WellMade' /\ Abstract!Pushes(ValuesOf(s), Abstract!Truth(b))
<1>1. Bool(b) \in Int /\ AsInt(Bool(b)) = Bool(b)
  BY IntStays, HalfAssumption DEF Bool, Ints
<1>2. WellMade' /\ Abstract!Pushes(ValuesOf(s), Abstract!int(Bool(b)))
  BY <1>1, PushesInt DEF Val
<1>3. Abstract!int(Bool(b)) = Abstract!Truth(b)
  BY DEF Bool, Abstract!Truth
<1>4. QED
  BY <1>2, <1>3

\* A step that makes an object.
LEMMA MakesStep ==
  ASSUME WellMade, state = "running", NEW s, NEW o, Makes(s, o), Made(s, heap),
         IsObject(o, Len(heap)), NEW name, NEW members,
         CellOf(o) = [type |-> o.type, name |-> name, members |-> members]
  PROVE  WellMade' /\ Abstract!Makes(ValuesOf(s), o.type, name, members)
<1>1. /\ Len(heap) < MaxObjects
      /\ Becomes(Append(s, Address(Len(heap) + 1)), Append(heap, o), NoEffect)
  BY DEF Makes, NewAddress
<1>2. s \in Seq(Int) /\ heap \in Seq(Objects) /\ o \in Objects /\ Len(heap) \in Nat
  BY SequenceEntries DEF Made, IsObject
<1>3. /\ Address(Len(heap) + 1) \in Int
      /\ ValueOf(Address(Len(heap) + 1)) = Abstract!ref(Len(heap) + 1)
  BY <1>1, <1>2, NewWord DEF Address
<1>4. /\ WellMade'
      /\ Abstract!Becomes(ValuesOf(Append(s, Address(Len(heap) + 1))),
                          CellsOf(Append(heap, o)), NoEffect)
  BY <1>1, MadeWithObject, BecomesStep
<1>5. ValuesOf(Append(s, Address(Len(heap) + 1)))
        = Append(ValuesOf(s), Abstract!ref(Len(heap) + 1))
  BY <1>2, <1>3, ValuesAppended
<1>6. CellsOf(Append(heap, o)) = Append(CellsOf(heap), CellOf(o))
      /\ Len(CellsOf(heap)) = Len(heap)
  BY <1>2, CellsAppended, CellsSeen
<1>7. QED
  BY <1>4, <1>5, <1>6 DEF Abstract!Makes, NoEffect

\* A step that ends the program.
LEMMA EndsStep ==
  ASSUME WellMade, state = "running", NEW how \in {"failed", "strayed"}, Ends(how)
  PROVE  WellMade' /\ Abstract!Stops(how)
<1>1. stack' = stack /\ heap' = heap /\ effect' = <<>> /\ state' = how
  BY DEF Ends, NoEffect
<1>2. WellMade'
  BY <1>1 DEF WellMade
<1>3. ValuesOf(stack)' = ValuesOf(stack) /\ CellsOf(heap)' = CellsOf(heap)
  BY <1>1
<1>4. QED
  BY <1>1, <1>2, <1>3 DEF Abstract!Stops

\* What an instruction finds on the stack.
LEMMA OperandsSeen ==
  ASSUME WellMade, NEW n \in Nat, Ready(n)
  PROVE  /\ Abstract!Has(n) /\ state = "running" /\ Made(stack, heap)
         /\ stack \in Seq(Int) /\ SP \in Nat /\ SP >= n /\ Len(ValuesOf(stack)) = SP
         /\ \A i \in 0..(n - 1) : /\ Abstract!Top(i) = ValueOf(Arg(i))
                                  /\ IsWord(Arg(i), Len(heap))
         /\ Abstract!Dropped(n) = ValuesOf(Dropped(n)) /\ Made(Dropped(n), heap)
<1>1. Made(stack, heap) /\ stack \in Seq(Int) /\ state = "running" /\ Len(stack) >= n
  BY DEF WellMade, Made, Ready, SP
<1>2. /\ Len(stack) \in Nat /\ DOMAIN stack = 1..Len(stack) /\ Len(ValuesOf(stack)) = Len(stack)
      /\ \A i \in 1..Len(stack) : ValuesOf(stack)[i] = ValueOf(stack[i])
  BY <1>1, SequenceEntries, ValuesSeen
<1>3. Abstract!Has(n)
  BY <1>1, <1>2 DEF Abstract!Has
<1>4. ASSUME NEW i \in 0..(n - 1)
      PROVE  Abstract!Top(i) = ValueOf(Arg(i)) /\ IsWord(Arg(i), Len(heap))
  <2>1. Len(stack) - i \in 1..Len(stack)
    BY <1>1, <1>2
  <2>2. Abstract!Top(i) = ValuesOf(stack)[Len(stack) - i] /\ Arg(i) = stack[Len(stack) - i]
    BY <1>2 DEF Abstract!Top, Arg, SP
  <2>3. IsWord(stack[Len(stack) - i], Len(heap))
    BY <1>1, <1>2, <2>1 DEF Made
  <2>4. QED
    BY <1>2, <2>1, <2>2, <2>3
<1>5. n \in 0..Len(stack)
  BY <1>1, <1>2
<1>6. Abstract!Dropped(n) = ValuesOf(Dropped(n))
  BY <1>1, <1>2, <1>5, ValuesDropped DEF Abstract!Dropped, Dropped, SP
<1>7. Made(Dropped(n), heap)
  BY <1>1, <1>5, MadeDropped DEF Dropped, SP
<1>8. QED
  BY <1>1, <1>2, <1>3, <1>4, <1>6, <1>7 DEF SP

\* What a word means.
LEMMA WordSeen ==
  ASSUME WellMade, NEW w, IsWord(w, Len(heap))
  PROVE  /\ w \in Int /\ w \in AllWords /\ w \div 2 \in Int
         /\ Abstract!IsInt(ValueOf(w)) <=> UNBOXED(w)
         /\ Abstract!IsRef(ValueOf(w)) <=> ~ UNBOXED(w)
         /\ UNBOXED(w) => /\ ValueOf(w) = Abstract!int(UNBOX(w)) /\ ValueOf(w)[2] = UNBOX(w)
                          /\ UNBOX(w) \in Ints /\ w = 2 * UNBOX(w) + 1
         /\ ~ UNBOXED(w) => /\ ValueOf(w) = Abstract!ref(w \div 2) /\ ValueOf(w)[2] = w \div 2
                            /\ w \div 2 \in 1..Len(heap) /\ w = 2 * (w \div 2)
                            /\ IsObject(At(w), Len(heap)) /\ At(w) \in Objects
                            /\ CellsOf(heap)[w \div 2] = CellOf(At(w))
<1>1. /\ w \in AllWords /\ w \in Int /\ w \div 2 \in Int /\ UNBOX(w) = w \div 2
      /\ UNBOXED(w) => UNBOX(w) \in Ints /\ w = 2 * UNBOX(w) + 1
      /\ ~ UNBOXED(w) => w = 2 * (w \div 2) /\ w \div 2 \in 1..Len(heap)
  BY WordParts DEF IsWord
<1>2. heap \in Seq(Objects)
  BY DEF WellMade, Made
<1>3. ~ UNBOXED(w) => /\ IsObject(At(w), Len(heap)) /\ At(w) \in Objects
                      /\ CellsOf(heap)[w \div 2] = CellOf(At(w))
  <2>1. /\ DOMAIN heap = 1..Len(heap)
        /\ \A k \in 1..Len(heap) : CellsOf(heap)[k] = CellOf(heap[k]) /\ heap[k] \in Objects
    BY <1>2, CellsSeen, SequenceEntries
  <2>2. \A k \in 1..Len(heap) : IsObject(heap[k], Len(heap))
    BY <2>1 DEF WellMade, Made
  <2>3. QED
    BY <1>1, <2>1, <2>2 DEF At
<1>4. /\ UNBOXED(w) => ValueOf(w) = <<"int", UNBOX(w)>>
      /\ ~ UNBOXED(w) => ValueOf(w) = <<"ref", w \div 2>>
  BY DEF ValueOf
<1>5. QED
  BY <1>1, <1>3, <1>4 DEF Abstract!IsInt, Abstract!IsRef, Abstract!int, Abstract!ref

\* The cell an object means.
LEMMA CellSeen ==
  ASSUME NEW o \in Objects
  PROVE  /\ CellOf(o).type = o.type
         /\ CellOf(o) = [type |-> o.type, name |-> CellOf(o).name, members |-> CellOf(o).members]
         /\ o.type = "STRING" => CellOf(o).members
                                   = [i \in DOMAIN o.members |-> Abstract!char(o.members[i])]
         /\ o.type # "STRING" => CellOf(o).members = ValuesOf(ValuesIn(o))
         /\ o.type = "SEXP" => CellOf(o).name = de_hash(o.tag)
<1>1. o.type \in {"STRING", "ARRAY", "SEXP", "CLOSURE"}
  BY DEF Objects
<1>2. CASE o.type = "STRING"
  BY <1>2 DEF CellOf, Abstract!char
<1>3. CASE o.type = "ARRAY"
  BY <1>3 DEF CellOf, ValuesIn
<1>4. CASE o.type = "SEXP"
  BY <1>4 DEF CellOf, ValuesIn
<1>5. CASE o.type = "CLOSURE"
  BY <1>5 DEF CellOf, ValuesIn
<1>6. QED
  BY <1>1, <1>2, <1>3, <1>4, <1>5

\* The kind of a value.
LEMMA KindSeen ==
  ASSUME WellMade, NEW w, IsWord(w, Len(heap)), NEW type
  PROVE  /\ Abstract!Is(ValueOf(w), type) <=> IsA(w, type)
         /\ IsA(w, type) => ~ UNBOXED(w) /\ At(w).type = type
         /\ ~ UNBOXED(w) => Abstract!Members(ValueOf(w)) = CellOf(At(w)).members
<1>1. ~ UNBOXED(w) => /\ ValueOf(w)[2] = w \div 2 /\ At(w) \in Objects
                      /\ CellsOf(heap)[w \div 2] = CellOf(At(w))
  BY WordSeen
<1>2. ~ UNBOXED(w) => CellsOf(heap)[ValueOf(w)[2]].type = At(w).type
  BY <1>1, CellSeen
<1>3. Abstract!IsRef(ValueOf(w)) <=> ~ UNBOXED(w)
  BY WordSeen
<1>4. QED
  BY <1>1, <1>2, <1>3 DEF Abstract!Is, IsA, Abstract!Members

-----------------------------------------------------------------------------
(* BINOP and MISC.                                                          *)

LEMMA ConstImplements ==
  ASSUME WellMade, MI_CONST
  PROVE  WellMade' /\ Abstract!Next
<1>1. Ready(0)
  BY DEF MI_CONST
<1>2. Abstract!Has(0) /\ state = "running" /\ Made(stack, heap)
  BY <1>1, OperandsSeen
<1>3. PICK n \in Consts : Pushes(stack, BOX(n))
  BY DEF MI_CONST, Val
<1>4. n \in Int /\ AsInt(n) = n
  BY OperandsAssumption, IntStays, HalfAssumption DEF Ints
<1>5. WellMade' /\ Abstract!Pushes(ValuesOf(stack), Abstract!int(n))
  BY <1>2, <1>3, <1>4, PushesInt
<1>6. QED
  BY <1>2, <1>5 DEF Abstract!Next, Abstract!Const

LEMMA DropImplements ==
  ASSUME WellMade, MI_DROP
  PROVE  WellMade' /\ Abstract!Next
<1>1. Ready(1) /\ Becomes(Dropped(1), heap, NoEffect)
  BY DEF MI_DROP
<1>2. /\ Abstract!Has(1) /\ state = "running"
      /\ Abstract!Dropped(1) = ValuesOf(Dropped(1)) /\ Made(Dropped(1), heap)
  BY <1>1, OperandsSeen
<1>3. WellMade' /\ Abstract!Becomes(ValuesOf(Dropped(1)), CellsOf(heap), NoEffect)
  BY <1>1, <1>2, BecomesStep
<1>4. QED
  BY <1>2, <1>3 DEF Abstract!Next, Abstract!Drop, NoEffect

LEMMA DupImplements ==
  ASSUME WellMade, MI_DUP
  PROVE  WellMade' /\ Abstract!Next
<1>1. Ready(1) /\ Pushes(stack, Arg(0))
  BY DEF MI_DUP
<1>2. /\ Abstract!Has(1) /\ state = "running" /\ Made(stack, heap) /\ 0 \in 0..(1 - 1)
      /\ \A i \in 0..(1 - 1) : Abstract!Top(i) = ValueOf(Arg(i)) /\ IsWord(Arg(i), Len(heap))
  BY <1>1, OperandsSeen
<1>3. WellMade' /\ Abstract!Pushes(ValuesOf(stack), ValueOf(Arg(0)))
  BY <1>1, <1>2, PushesStep
<1>4. QED
  BY <1>2, <1>3 DEF Abstract!Next, Abstract!Dup

LEMMA SwapImplements ==
  ASSUME WellMade, MI_SWAP
  PROVE  WellMade' /\ Abstract!Next
<1> DEFINE s == Dropped(2)
           x == Arg(0)
           y == Arg(1)
<1>1. Ready(2) /\ Becomes(s \o <<x, y>>, heap, NoEffect)
  BY DEF MI_SWAP
<1>2. /\ Abstract!Has(2) /\ state = "running" /\ 0 \in 0..(2 - 1) /\ 1 \in 0..(2 - 1)
      /\ \A i \in 0..(2 - 1) : Abstract!Top(i) = ValueOf(Arg(i)) /\ IsWord(Arg(i), Len(heap))
      /\ Abstract!Dropped(2) = ValuesOf(Dropped(2)) /\ Made(Dropped(2), heap)
  BY <1>1, OperandsSeen
<1>3. /\ Abstract!Top(0) = ValueOf(x) /\ Abstract!Top(1) = ValueOf(y)
      /\ IsWord(x, Len(heap)) /\ IsWord(y, Len(heap)) /\ s \in Seq(Int) /\ x \in Int /\ y \in Int
  BY <1>2, WordParts DEF Made, IsWord
<1> HIDE DEF s, x, y
<1>4. s \o <<x, y>> = Append(Append(s, x), y)
  BY <1>3
<1>5. Made(Append(s, x), heap) /\ Append(s, x) \in Seq(Int)
  BY <1>2, <1>3, MadeAppended, ValuesAppended DEF s
<1>6. Made(s \o <<x, y>>, heap)
  BY <1>3, <1>4, <1>5, MadeAppended
<1>7. ValuesOf(s \o <<x, y>>) = Append(Append(ValuesOf(s), ValueOf(x)), ValueOf(y))
  BY <1>3, <1>4, <1>5, ValuesAppended
<1>8. Append(Append(ValuesOf(s), ValueOf(x)), ValueOf(y)) = ValuesOf(s) \o <<ValueOf(x), ValueOf(y)>>
  <2> DEFINE V == {ValueOf(w) : w \in Int}
  <2>1. ValuesOf(s) \in [1..Len(s) -> V]
    BY <1>3, ValuesSeen, SequenceEntries
  <2>2. ValuesOf(s) \in Seq(V) /\ ValueOf(x) \in V /\ ValueOf(y) \in V
    BY <1>3, <2>1, FunctionIsSeq, SequenceEntries
  <2> HIDE DEF V
  <2>3. QED
    BY <2>2
<1>9. WellMade' /\ Abstract!Becomes(ValuesOf(s \o <<x, y>>), CellsOf(heap), NoEffect)
  BY <1>1, <1>2, <1>6, BecomesStep
<1>10. ValuesOf(s) = Abstract!Dropped(2)
  BY <1>2 DEF s
<1>11. QED
  BY <1>2, <1>3, <1>7, <1>8, <1>9, <1>10 DEF Abstract!Next, Abstract!Swap, NoEffect

\* The operators of C on integers give integers.
LEMMA ResultIsInt ==
  ASSUME NEW op \in Ops, NEW a \in Int, NEW b \in Int, ~ (Divides(op) /\ b = 0)
  PROVE  Result(op, a, b) \in Int
<1>1. \A c \in BOOLEAN : Bool(c) \in Int
  BY DEF Bool
<1>2. ASSUME b # 0
      PROVE  Quotient(a, b) \in Int
  <2>1. Abs(a) \in Int /\ Abs(b) \in Int /\ Abs(b) > 0
    BY <1>2 DEF Abs
  <2>2. Abs(a) \div Abs(b) \in Int
    BY <2>1
  <2> DEFINE q == Abs(a) \div Abs(b)
  <2> HIDE DEF q
  <2>3. (IF (a < 0) = (b < 0) THEN q ELSE -q) \in Int
    BY <2>2 DEF q
  <2>4. QED
    BY <2>3 DEF Quotient, q
<1>3. ASSUME b # 0
      PROVE  Rest(a, b) \in Int
  <2>1. Quotient(a, b) \in Int
    BY <1>2, <1>3
  <2>2. QED
    BY <2>1 DEF Rest
<1>4. CASE op \in {"+", "-", "*"}
  BY <1>4 DEF Result
<1>5. CASE op = "/"
  BY <1>2, <1>5 DEF Result, Divides
<1>6. CASE op = "%"
  BY <1>3, <1>6 DEF Result, Divides
<1>7. CASE op \in {"<", "<=", ">", ">=", "==", "!=", "&&", "!!"}
  <2>1. CASE op = "<"
    <3>1. Result(op, a, b) = Bool(a < b)
      BY <2>1 DEF Result
    <3>2. QED
      BY <3>1 DEF Bool
  <2>2. CASE op = "<="
    <3>1. Result(op, a, b) = Bool(a <= b)
      BY <2>2 DEF Result
    <3>2. QED
      BY <3>1 DEF Bool
  <2>3. CASE op = ">"
    <3>1. Result(op, a, b) = Bool(a > b)
      BY <2>3 DEF Result
    <3>2. QED
      BY <3>1 DEF Bool
  <2>4. CASE op = ">="
    <3>1. Result(op, a, b) = Bool(a >= b)
      BY <2>4 DEF Result
    <3>2. QED
      BY <3>1 DEF Bool
  <2>5. CASE op = "=="
    <3>1. Result(op, a, b) = Bool(a = b)
      BY <2>5 DEF Result
    <3>2. QED
      BY <3>1 DEF Bool
  <2>6. CASE op = "!="
    <3>1. Result(op, a, b) = Bool(a # b)
      BY <2>6 DEF Result
    <3>2. QED
      BY <3>1 DEF Bool
  <2>7. CASE op \in {"&&", "!!"}
    BY <1>1, <2>7 DEF Result
  <2>8. QED
    BY <1>7, <2>1, <2>2, <2>3, <2>4, <2>5, <2>6, <2>7
<1>8. QED
  BY <1>4, <1>5, <1>6, <1>7 DEF Ops

\* Pushing an integer is pushing some integer.
LEMMA SomePushed ==
  ASSUME NEW s \in Seq(Int), NEW k, Abstract!Pushes(ValuesOf(s), Abstract!int(k))
  PROVE  Abstract!PushesSome(ValuesOf(s))
<1> DEFINE v == ValuesOf(s)
           x == Abstract!int(k)
           t == ValuesOf(stack)'
<1>1. t = Append(v, x) /\ Abstract!Becomes(Append(v, x), CellsOf(heap), <<>>)
  BY DEF Abstract!Pushes, Abstract!Becomes
<1>2. v = [i \in 1..Len(v) |-> v[i]] /\ Len(v) \in Nat
  BY ValuesSeen
<1>3. Append(v, x) = [i \in 1..(Len(v) + 1) |-> IF i = Len(v) + 1 THEN x ELSE v[i]]
  BY <1>2, EntryAppended
<1>4. t = [i \in 1..(Len(v) + 1) |-> t[i]] /\ t[Len(v) + 1] = x
  BY <1>1, <1>2, <1>3
<1>5. Len(t) = Len(v) + 1
  BY <1>2, <1>4, Entries
<1>6. Abstract!IsInt(x)
  BY DEF Abstract!IsInt, Abstract!int
<1> HIDE DEF x, v, t
<1>7. Abstract!Becomes(Append(v, t[Len(v) + 1]), CellsOf(heap), <<>>)
  BY <1>1, <1>4
<1>8. QED
  BY <1>4, <1>5, <1>6, <1>7 DEF Abstract!PushesSome, v, t

LEMMA BinopImplements ==
  ASSUME WellMade, BINOP
  PROVE  WellMade' /\ Abstract!Next
<1> DEFINE x == Arg(1)
           y == Arg(0)
           a == Abstract!Top(1)
           b == Abstract!Top(0)
           s == Dropped(2)
<1>1. Ready(2)
  BY DEF BINOP
<1>2. /\ Abstract!Has(2) /\ state = "running" /\ 0 \in 0..(2 - 1) /\ 1 \in 0..(2 - 1)
      /\ \A i \in 0..(2 - 1) : Abstract!Top(i) = ValueOf(Arg(i)) /\ IsWord(Arg(i), Len(heap))
      /\ Abstract!Dropped(2) = ValuesOf(s) /\ Made(s, heap)
  BY <1>1, OperandsSeen
<1>3. PICK op \in Ops :
        IF Divides(op) /\ AsVal(y) = 0 THEN Ends("failed")
        ELSE Pushes(s, BOX(Result(op, AsVal(x), AsVal(y))))
  BY DEF BINOP, Val
<1>4. a = ValueOf(x) /\ b = ValueOf(y) /\ IsWord(x, Len(heap)) /\ IsWord(y, Len(heap))
  BY <1>2
<1>2a. Len(heap) \in Nat
  BY SequenceEntries DEF WellMade, Made
<1> HIDE DEF x, y, a, b, s
<1>5. /\ x \in Int /\ (Abstract!IsInt(a) <=> UNBOXED(x)) /\ (Abstract!IsRef(a) <=> ~ UNBOXED(x))
      /\ UNBOXED(x) => a = Abstract!int(AsVal(x)) /\ a[2] = AsVal(x)
      /\ ~ UNBOXED(x) => a = Abstract!ref(AsVal(x)) /\ AsVal(x) >= 1
      /\ AsVal(x) \in Int
  <2>1. x \in AllWords
    BY <1>4 DEF IsWord
  <2>2. UNBOX(x) = x \div 2 /\ x \div 2 \in Int
    BY <2>1, WordParts
  <2>3. /\ x \in Int /\ (Abstract!IsInt(a) <=> UNBOXED(x)) /\ (Abstract!IsRef(a) <=> ~ UNBOXED(x))
        /\ UNBOXED(x) => a = Abstract!int(UNBOX(x)) /\ a[2] = UNBOX(x)
        /\ ~ UNBOXED(x) => a = Abstract!ref(x \div 2) /\ x \div 2 \in 1..Len(heap)
    BY <1>4, WordSeen
  <2>4. x \div 2 \in 1..Len(heap) => x \div 2 >= 1
    BY <2>2, <1>2a
  <2>5. QED
    BY <2>2, <2>3, <2>4 DEF AsVal
<1>6. /\ y \in Int /\ (Abstract!IsInt(b) <=> UNBOXED(y)) /\ (Abstract!IsRef(b) <=> ~ UNBOXED(y))
      /\ UNBOXED(y) => b = Abstract!int(AsVal(y)) /\ b[2] = AsVal(y)
      /\ ~ UNBOXED(y) => b = Abstract!ref(AsVal(y)) /\ AsVal(y) >= 1
      /\ AsVal(y) \in Int
  <2>1. y \in AllWords
    BY <1>4 DEF IsWord
  <2>2. UNBOX(y) = y \div 2 /\ y \div 2 \in Int
    BY <2>1, WordParts
  <2>3. /\ y \in Int /\ (Abstract!IsInt(b) <=> UNBOXED(y)) /\ (Abstract!IsRef(b) <=> ~ UNBOXED(y))
        /\ UNBOXED(y) => b = Abstract!int(UNBOX(y)) /\ b[2] = UNBOX(y)
        /\ ~ UNBOXED(y) => b = Abstract!ref(y \div 2) /\ y \div 2 \in 1..Len(heap)
    BY <1>4, WordSeen
  <2>4. y \div 2 \in 1..Len(heap) => y \div 2 >= 1
    BY <2>2, <1>2a
  <2>5. QED
    BY <2>2, <2>3, <2>4 DEF AsVal
<1>7. s \in Seq(Int)
  BY <1>2 DEF Made
<1>8. CASE Divides(op) /\ AsVal(y) = 0
  <2>1. WellMade' /\ Abstract!Stops("failed")
    BY <1>2, <1>3, <1>8, EndsStep
  <2>2. UNBOXED(y) /\ b = Abstract!int(0) /\ b[2] = 0
    BY <1>6, <1>8
  <2>3. CellsOf(heap)' = CellsOf(heap)
    BY <2>1 DEF Abstract!Stops
  <2>4. op \notin {"==", "!="}
    BY <1>8 DEF Divides
  <2>5. Abstract!Binop
    BY <1>2, <1>6, <1>8, <2>1, <2>2, <2>3, <2>4 DEF Abstract!Binop, a, b, s
  <2>6. QED
    BY <2>1, <2>5 DEF Abstract!Next
<1>9. CASE ~ (Divides(op) /\ AsVal(y) = 0)
  <2> DEFINE z == Result(op, AsVal(x), AsVal(y))
  <2>1. z \in Int
    BY <1>5, <1>6, <1>9, ResultIsInt
  <2>2. Pushes(s, BOX(z))
    BY <1>3, <1>9
  <2> HIDE DEF z
  <2>3. WellMade' /\ Abstract!Pushes(ValuesOf(s), Abstract!int(AsInt(z)))
    BY <1>2, <2>1, <2>2, PushesInt
  <2>4. CellsOf(heap)' = CellsOf(heap)
    BY <2>3 DEF Abstract!Pushes, Abstract!Becomes
  <2>5. CASE UNBOXED(x) /\ UNBOXED(y)
    <3>1. z = Result(op, a[2], b[2]) /\ b[2] = AsVal(y) /\ Abstract!IsInt(a) /\ Abstract!IsInt(b)
      BY <1>5, <1>6, <2>5 DEF z
    <3>2. Abstract!Pushes(Abstract!Dropped(2), Abstract!int(AsInt(Result(op, a[2], b[2]))))
      BY <1>2, <2>3, <3>1
    <3>3. Abstract!Binop
      BY <1>2, <1>9, <2>4, <3>1, <3>2 DEF Abstract!Binop, a, b
    <3>4. QED
      BY <2>3, <3>3 DEF Abstract!Next
  <2>6. CASE ~ (UNBOXED(x) /\ UNBOXED(y))
    <3>0. ~ (Abstract!IsInt(a) /\ Abstract!IsInt(b))
      BY <1>5, <1>6, <2>6
    <3>1. CASE op \in {"==", "!="} /\ ~ UNBOXED(x) /\ ~ UNBOXED(y)
      <4> DEFINE same == (a = b) = (op = "==")
      <4>1. (a = b) <=> (AsVal(x) = AsVal(y))
        BY <1>5, <1>6, <3>1 DEF Abstract!ref
      <4>2. z = Bool(same)
        BY <3>1, <4>1 DEF Result, z
      <4>3. same \in BOOLEAN
        OBVIOUS
      <4> HIDE DEF same
      <4>4. Pushes(s, Val(Bool(same)))
        BY <2>2, <4>2 DEF Val
      <4>5. WellMade' /\ Abstract!Pushes(ValuesOf(s), Abstract!Truth(same))
        BY <1>2, <4>3, <4>4, PushesTruth
      <4>6. Abstract!IsRef(a) /\ Abstract!IsRef(b)
        BY <1>5, <1>6, <3>1
      <4>7. Abstract!Binop
        BY <1>2, <2>4, <3>0, <3>1, <4>5, <4>6 DEF Abstract!Binop, a, b, same
      <4>8. QED
        BY <4>5, <4>7 DEF Abstract!Next
    <3>2. CASE ~ (op \in {"==", "!="} /\ ~ UNBOXED(x) /\ ~ UNBOXED(y))
      <4>1. ~ (op \in {"==", "!="} /\ Abstract!IsRef(a) /\ Abstract!IsRef(b))
        BY <1>5, <1>6, <3>2
      <4>2. Abstract!PushesSome(Abstract!Dropped(2))
        BY <1>2, <1>7, <2>3, SomePushed
      <4>3. Abstract!Binop
        BY <1>2, <2>4, <3>0, <4>1, <4>2 DEF Abstract!Binop, a, b
      <4>4. QED
        BY <2>3, <4>3 DEF Abstract!Next
    <3>3. QED
      BY <3>1, <3>2
  <2>7. QED
    BY <2>5, <2>6
<1>10. QED
  BY <1>8, <1>9

-----------------------------------------------------------------------------
(* The text a C function sees.                                              *)

\* CText goes up to the first zero, or to the end.
LEMMA TextUpToZero ==
  ASSUME NEW t \in Seq(Int)
  PROVE  \E n \in 0..Len(t) : /\ CText(t) = SubSeq(t, 1, n)
                              /\ \A i \in 1..n : t[i] # 0
                              /\ n < Len(t) => t[n + 1] = 0
<1> DEFINE zeros == {i \in DOMAIN t : t[i] = 0}
           first == CHOOSE i \in zeros : \A j \in zeros : i <= j
<1>1. DOMAIN t = 1..Len(t) /\ Len(t) \in Nat /\ t = [i \in 1..Len(t) |-> t[i]]
  BY SequenceEntries
<1>2. CText(t) = IF zeros = {} THEN t ELSE SubSeq(t, 1, first - 1)
  BY DEF CText
<1>3. zeros \subseteq 1..Len(t) /\ \A i \in 1..Len(t) : i \in zeros <=> t[i] = 0
  BY <1>1
<1>4. CASE zeros = {}
  <2>1. SubSeq(t, 1, Len(t)) = [i \in 1..(Len(t) + 1 - 1) |-> t[1 - 1 + i]]
    BY <1>1, PartOfEntries
  <2>2. SubSeq(t, 1, Len(t)) = [i \in 1..Len(t) |-> t[i]]
    BY <1>1, <2>1
  <2>3. CText(t) = SubSeq(t, 1, Len(t)) /\ \A i \in 1..Len(t) : t[i] # 0
    BY <1>1, <1>2, <1>3, <1>4, <2>2
  <2>4. Len(t) \in 0..Len(t) /\ ~ Len(t) < Len(t)
    BY <1>1
  <2>5. QED
    BY <2>3, <2>4
<1>5. CASE zeros # {}
  <2>0. zeros \subseteq Nat
    BY <1>1
  <2>1. \E i \in zeros : \A j \in zeros : i <= j
    <3> HIDE DEF zeros
    <3>1. QED
      BY <1>5, <2>0, LeastNatural
  <2>2. first \in zeros /\ \A j \in zeros : first <= j
    BY <2>1
  <2> HIDE DEF first, zeros
  <2>3. first \in 1..Len(t) /\ t[first] = 0
    BY <1>3, <2>2
  <2>4. first - 1 \in 0..Len(t) /\ first - 1 + 1 = first
    BY <1>1, <2>3
  <2>5. ASSUME NEW i \in 1..(first - 1)
        PROVE  t[i] # 0
    <3>1. i \in 1..Len(t) /\ ~ first <= i
      BY <1>1, <2>3
    <3>2. QED
      BY <1>3, <2>2, <3>1
  <2>6. CText(t) = SubSeq(t, 1, first - 1)
    BY <1>2, <1>5
  <2>7. QED
    BY <2>3, <2>4, <2>5, <2>6
<1>6. QED
  BY <1>4, <1>5

\* The characters of a text as the program sees them.
LEMMA CharsSeen ==
  ASSUME NEW t \in Seq(Int)
  PROVE  /\ Abstract!Chars(t) = [i \in 1..Len(t) |-> Abstract!Chars(t)[i]] /\ Len(t) \in Nat
         /\ \A i \in 1..Len(t) : Abstract!Chars(t)[i] = Abstract!char(t[i])
         /\ \A i \in 1..Len(t) : Abstract!Chars(t)[i] = Abstract!char(0) <=> t[i] = 0
         /\ Len(Abstract!Chars(t)) = Len(t)
<1>1. DOMAIN t = 1..Len(t) /\ Len(t) \in Nat
  BY SequenceEntries
<1>2. Abstract!Chars(t) = [i \in 1..Len(t) |-> Abstract!char(t[i])]
  BY <1>1 DEF Abstract!Chars
<1>3. Abstract!Chars(t) = [i \in 1..Len(t) |-> Abstract!Chars(t)[i]]
  BY <1>2
<1>4. Len(Abstract!Chars(t)) = Len(t)
  BY <1>1, <1>3, Entries
<1>5. \A i \in 1..Len(t) : Abstract!char(t[i]) = Abstract!char(0) <=> t[i] = 0
  BY DEF Abstract!char
<1>6. QED
  BY <1>1, <1>2, <1>3, <1>4, <1>5

\* Texts are the same when their characters are.
LEMMA CharsTell ==
  ASSUME NEW s \in Seq(Int), NEW t \in Seq(Int)
  PROVE  Abstract!Chars(s) = Abstract!Chars(t) <=> s = t
<1>1. SUFFICES ASSUME Abstract!Chars(s) = Abstract!Chars(t)
               PROVE  s = t
  OBVIOUS
<1>2. Len(s) = Len(t)
  BY <1>1, CharsSeen
<1>3. ASSUME NEW i \in 1..Len(s)
      PROVE  s[i] = t[i]
  <2>1. Abstract!char(s[i]) = Abstract!char(t[i])
    BY <1>1, <1>2, CharsSeen
  <2>2. QED
    BY <2>1 DEF Abstract!char
<1>4. s = [i \in 1..Len(s) |-> s[i]] /\ t = [i \in 1..Len(t) |-> t[i]]
  BY SequenceEntries
<1>5. QED
  BY <1>2, <1>3, <1>4

\* Both specifications mean the same text.
LEMMA TextSeen ==
  ASSUME NEW t \in Seq(Int)
  PROVE  /\ Abstract!UpToZero(Abstract!Chars(t)) = Abstract!Chars(CText(t))
         /\ CText(t) \in Seq(Int)
         /\ t \in Seq(Characters) => CText(t) \in Seq(Characters)
<1> DEFINE c == Abstract!Chars(t)
           Up(m) == /\ \A i \in 1..m : c[i] # Abstract!char(0)
                    /\ m < Len(c) => c[m + 1] = Abstract!char(0)
<1>1. PICK n \in 0..Len(t) : /\ CText(t) = SubSeq(t, 1, n)
                             /\ \A i \in 1..n : t[i] # 0
                             /\ n < Len(t) => t[n + 1] = 0
  BY TextUpToZero
<1>2. /\ c = [i \in 1..Len(t) |-> c[i]] /\ Len(t) \in Nat /\ Len(c) = Len(t)
      /\ \A i \in 1..Len(t) : c[i] = Abstract!char(t[i])
      /\ \A i \in 1..Len(t) : c[i] = Abstract!char(0) <=> t[i] = 0
  BY CharsSeen
<1>3. Abstract!UpToZero(c) = SubSeq(c, 1, CHOOSE m \in 0..Len(c) : Up(m))
  BY DEF Abstract!UpToZero
<1> HIDE DEF c
<1>4. Up(n)
  BY <1>1, <1>2
<1>5. ASSUME NEW m \in 0..Len(c), Up(m)
      PROVE  m = n
  <2>1. ~ m < n
    <3>1. SUFFICES ASSUME m < n PROVE FALSE
      OBVIOUS
    <3>2. m < Len(c) /\ m + 1 \in 1..n
      BY <1>2, <3>1
    <3>3. QED
      BY <1>4, <1>5, <3>2
  <2>2. ~ n < m
    <3>1. SUFFICES ASSUME n < m PROVE FALSE
      OBVIOUS
    <3>2. n < Len(c) /\ n + 1 \in 1..m
      BY <1>2, <3>1
    <3>3. QED
      BY <1>4, <1>5, <3>2
  <2>3. QED
    BY <1>2, <2>1, <2>2
<1>6. (CHOOSE m \in 0..Len(c) : Up(m)) = n
  BY <1>2, <1>4, <1>5
<1> HIDE DEF Up
<1>7. /\ t = [i \in 1..Len(t) |-> t[i]] /\ \A i \in 1..Len(t) : t[i] \in Int
      /\ 1 \in 1..(Len(t) + 1) /\ 1 <= n + 1 /\ n \in Nat
  BY <1>2, SequenceEntries
<1>8. SubSeq(t, 1, n) = [i \in 1..(n + 1 - 1) |-> t[1 - 1 + i]]
      /\ SubSeq(c, 1, n) = [i \in 1..(n + 1 - 1) |-> c[1 - 1 + i]]
  BY <1>2, <1>7, PartOfEntries
<1>9. SubSeq(t, 1, n) = [i \in 1..n |-> t[i]] /\ SubSeq(c, 1, n) = [i \in 1..n |-> c[i]]
  BY <1>7, <1>8
<1>10. CText(t) \in [1..n -> Int] /\ CText(t) = [i \in 1..n |-> t[i]]
  <2>1. CText(t) = [i \in 1..n |-> t[i]]
    BY <1>1, <1>9
  <2>2. \A i \in 1..n : t[i] \in Int
    BY <1>2, <1>7
  <2>3. QED
    BY <2>1, <2>2
<1>11. CText(t) \in Seq(Int) /\ Len(CText(t)) = n
  BY <1>7, <1>10, FunctionIsSeq
<1>12. Abstract!Chars(CText(t)) = [i \in 1..n |-> Abstract!Chars(CText(t))[i]]
       /\ \A i \in 1..n : Abstract!Chars(CText(t))[i] = Abstract!char(t[i])
  <2>1. /\ Abstract!Chars(CText(t)) = [i \in 1..n |-> Abstract!Chars(CText(t))[i]]
        /\ \A i \in 1..n : Abstract!Chars(CText(t))[i] = Abstract!char(CText(t)[i])
    BY <1>11, CharsSeen
  <2>2. \A i \in 1..n : CText(t)[i] = t[i]
    BY <1>10
  <2>3. QED
    BY <2>1, <2>2
<1>13. \A i \in 1..n : c[i] = Abstract!char(t[i])
  BY <1>2, <1>7
<1>14. Abstract!UpToZero(c) = Abstract!Chars(CText(t))
  <2> DEFINE u == Abstract!Chars(CText(t))
  <2>1. u = [i \in 1..n |-> u[i]] /\ \A i \in 1..n : u[i] = c[i]
    BY <1>12, <1>13
  <2>2. Abstract!UpToZero(c) = [i \in 1..n |-> c[i]]
    BY <1>3, <1>6, <1>9
  <2> HIDE DEF u
  <2>3. Abstract!UpToZero(c) = u
    BY <2>1, <2>2
  <2>4. QED
    BY <2>3 DEF u
<1>15. ASSUME t \in Seq(Characters)
       PROVE  CText(t) \in Seq(Characters)
  <2>1. \A i \in 1..Len(t) : t[i] \in Characters
    BY <1>15, SequenceEntries
  <2>2. CText(t) \in [1..n -> Characters]
    BY <1>2, <1>7, <1>10, <2>1
  <2>3. QED
    BY <1>7, <2>2, FunctionIsSeq
<1>16. QED
  BY <1>11, <1>14, <1>15 DEF c

\* Characters are integers.
LEMMA CharactersAreInts ==
  ASSUME NEW t \in Seq(Characters)
  PROVE  t \in Seq(Int)
<1>1. Characters \subseteq Int
  BY DEF Characters
<1>2. t \in [1..Len(t) -> Int] /\ Len(t) \in Nat
  BY <1>1, SequenceEntries
<1>3. QED
  BY <1>2, FunctionIsSeq

\* A string is well made.
LEMMA StringIsObject ==
  ASSUME NEW t \in Seq(Characters), NEW n
  PROVE  /\ IsObject(StringOf(t), n) /\ StringOf(t).type = "STRING"
         /\ CellOf(StringOf(t)) = [type |-> "STRING", name |-> <<>>,
                                   members |-> Abstract!Chars(CText(t))]
<1> DEFINE o == StringOf(t)
           m == CText(t)
<1>1. m \in Seq(Characters)
  BY TextSeen, CharactersAreInts
<1>2. m \in Seq(Int) /\ \A i \in DOMAIN m : m[i] \in Characters
  BY <1>1, CharactersAreInts, SequenceEntries
<1>3. o = [type |-> "STRING", tag |-> 0, members |-> m]
  BY DEF StringOf, Object
<1> HIDE DEF m, o
<1>4. o.type = "STRING" /\ o.tag = 0 /\ o.members = m
  BY <1>3
<1>5. o \in Objects
  BY <1>2, <1>3 DEF Objects
<1>6. IsObject(o, n)
  BY <1>2, <1>4, <1>5 DEF IsObject, ValuesIn
<1>7. CellOf(o) = [type |-> "STRING", name |-> <<>>,
                   members |-> [i \in DOMAIN m |-> <<"char", m[i]>>]]
  BY <1>4 DEF CellOf
<1>8. Abstract!Chars(m) = [i \in DOMAIN m |-> <<"char", m[i]>>]
  BY DEF Abstract!Chars, Abstract!char
<1>9. QED
  BY <1>4, <1>6, <1>7, <1>8 DEF o, m

LEMMA StringImplements ==
  ASSUME WellMade, MI_STRING
  PROVE  WellMade' /\ Abstract!Next
<1>1. Ready(0)
  BY DEF MI_STRING
<1>2. Abstract!Has(0) /\ state = "running" /\ Made(stack, heap)
  BY <1>1, OperandsSeen
<1>3. PICK t \in Texts : Makes(stack, StringOf(t))
  BY DEF MI_STRING
<1>4. t \in Seq(Characters) /\ CText(t) = t
  <2>1. t \in Seq(Characters \ {0})
    BY OperandsAssumption
  <2>2. \A i \in DOMAIN t : t[i] # 0
    BY <2>1, SequenceEntries
  <2>3. CText(t) = t
    BY <2>2 DEF CText
  <2>4. t \in [1..Len(t) -> Characters] /\ Len(t) \in Nat
    BY <2>1, SequenceEntries
  <2>5. QED
    BY <2>3, <2>4, FunctionIsSeq
<1>5. /\ IsObject(StringOf(t), Len(heap)) /\ StringOf(t).type = "STRING"
      /\ CellOf(StringOf(t)) = [type |-> "STRING", name |-> <<>>, members |-> Abstract!Chars(t)]
  BY <1>4, StringIsObject
<1>6. CellOf(StringOf(t)) = [type |-> StringOf(t).type, name |-> <<>>, members |-> Abstract!Chars(t)]
  BY <1>5
<1>7. WellMade' /\ Abstract!Makes(ValuesOf(stack), StringOf(t).type, <<>>, Abstract!Chars(t))
  BY <1>2, <1>3, <1>5, <1>6, MakesStep
<1>8. Abstract!Makes(ValuesOf(stack), "STRING", <<>>, Abstract!Chars(t))
  BY <1>5, <1>7
<1>9. QED
  BY <1>2, <1>7, <1>8 DEF Abstract!Next, Abstract!String

-----------------------------------------------------------------------------
(* Objects made of operands.                                                *)

\* The last operands, the deepest first.
LEMMA TakenSeen ==
  ASSUME WellMade, NEW n \in 0..Len(stack), NEW m,
         m = [i \in 1..n |-> stack[Len(stack) - n + i]]
  PROVE  /\ m \in Seq(Int) /\ Len(m) = n /\ DOMAIN m = 1..n
         /\ \A i \in 1..n : IsWord(m[i], Len(heap))
         /\ ValuesOf(m) = Abstract!LastOf(n)
<1> DEFINE v == ValuesOf(stack)
           k == Len(stack)
<1>1. stack \in Seq(Int) /\ \A i \in DOMAIN stack : IsWord(stack[i], Len(heap))
  BY DEF WellMade, Made
<1>2. /\ k \in Nat /\ DOMAIN stack = 1..k /\ \A i \in 1..k : stack[i] \in Int
      /\ v = [i \in 1..k |-> v[i]] /\ Len(v) = k /\ \A i \in 1..k : v[i] = ValueOf(stack[i])
  BY <1>1, SequenceEntries, ValuesSeen
<1>3. n \in Nat /\ \A i \in 1..n : k - n + i \in 1..k
  BY <1>2
<1> HIDE DEF v, k
<1>4. \A i \in 1..n : m[i] = stack[k - n + i] /\ m[i] \in Int /\ IsWord(m[i], Len(heap))
  BY <1>1, <1>2, <1>3 DEF k
<1>5. m \in [1..n -> Int] /\ DOMAIN m = 1..n
  BY <1>4
<1>6. m \in Seq(Int) /\ Len(m) = n
  BY <1>3, <1>5, FunctionIsSeq
<1>7. ValuesOf(m) = [i \in 1..n |-> ValueOf(m[i])]
  BY <1>6, ValuesSeen
<1> DEFINE first == k - n + 1
<1>8. /\ first \in 1..(k + 1) /\ k \in 0..k /\ first <= k + 1
      /\ k + 1 - first = n /\ \A i \in 1..n : first - 1 + i = k - n + i
  BY <1>2
<1>11. Abstract!LastOf(n) = SubSeq(v, first, k)
  BY <1>2 DEF Abstract!LastOf, v
<1> HIDE DEF first
<1>9. SubSeq(v, first, k) = [i \in 1..(k + 1 - first) |-> v[first - 1 + i]]
  <2>1. k \in Nat /\ first \in 1..(k + 1) /\ k \in 0..k /\ first <= k + 1
    BY <1>2, <1>8
  <2>2. v = [i \in 1..k |-> v[i]]
    BY <1>2
  <2>3. QED
    BY <2>1, <2>2, PartOfEntries
<1>10. SubSeq(v, first, k) = [i \in 1..n |-> v[k - n + i]]
  BY <1>8, <1>9
<1>12. \A i \in 1..n : ValueOf(m[i]) = v[k - n + i]
  BY <1>2, <1>3, <1>4
<1>13. ValuesOf(m) = Abstract!LastOf(n)
  BY <1>7, <1>10, <1>11, <1>12
<1>14. QED
  BY <1>4, <1>5, <1>6, <1>13

\* An array or a sexp of words is well made.
LEMMA WordsMakeObject ==
  ASSUME NEW m \in Seq(Int), Len(m) < Half, NEW n, \A i \in DOMAIN m : IsWord(m[i], n), NEW tag \in Int
  PROVE  /\ IsObject(Object("ARRAY", tag, m), n)
         /\ CellOf(Object("ARRAY", tag, m))
              = [type |-> "ARRAY", name |-> <<>>, members |-> ValuesOf(m)]
         /\ (\E t \in Tags : ~ TagFails(t) /\ tag = LtagHash(t))
              => /\ IsObject(Object("SEXP", tag, m), n)
                 /\ CellOf(Object("SEXP", tag, m))
                      = [type |-> "SEXP", name |-> de_hash(tag), members |-> ValuesOf(m)]
<1>1. ASSUME NEW type \in {"ARRAY", "SEXP"},
             type = "SEXP" => \E t \in Tags : ~ TagFails(t) /\ tag = LtagHash(t)
      PROVE  IsObject(Object(type, tag, m), n)
  <2> DEFINE o == Object(type, tag, m)
  <2>1. o = [type |-> type, tag |-> tag, members |-> m]
    BY DEF Object
  <2>2. o \in Objects /\ o.type = type /\ o.tag = tag /\ o.members = m
    BY <2>1 DEF Objects
  <2> HIDE DEF o
  <2>3. ValuesIn(o) = m
    BY <2>2 DEF ValuesIn
  <2>4. IsObject(o, n)
    BY <1>1, <2>2, <2>3 DEF IsObject
  <2>5. QED
    BY <2>4 DEF o
<1>2. /\ CellOf(Object("ARRAY", tag, m))
           = [type |-> "ARRAY", name |-> <<>>, members |-> ValuesOf(m)]
      /\ CellOf(Object("SEXP", tag, m))
           = [type |-> "SEXP", name |-> de_hash(tag), members |-> ValuesOf(m)]
  BY DEF CellOf, Object
<1>3. QED
  BY <1>1, <1>2

\* A tag that has a hash is the name of the hash.
LEMMA NamesKept ==
  ASSUME NEW t \in Tags, ~ TagFails(t)
  PROVE  LtagHash(t) \in Int /\ AsInt(LtagHash(t)) = LtagHash(t) /\ de_hash(LtagHash(t)) = Shortened(t)
<1>1. LtagHash(t) \in Ints
  BY TagsAssumption, HalfAssumption DEF Ints
<1>2. LtagHash(t) \in Int
  BY <1>1, HalfAssumption DEF Ints
<1>3. de_hash(LtagHash(t)) = Shortened(t)
  BY DEF TagFails
<1>4. QED
  BY <1>1, <1>2, <1>3, IntStays

\* Hashes agree when the names do.
LEMMA NamesTell ==
  ASSUME NEW s \in Tags, ~ TagFails(s), NEW t \in Tags, ~ TagFails(t)
  PROVE  LtagHash(s) = LtagHash(t) <=> de_hash(LtagHash(s)) = Shortened(t)
BY NamesKept DEF LtagHash

LEMMA SexpImplements ==
  ASSUME WellMade, MI_SEXP
  PROVE  WellMade' /\ Abstract!Next
<1>1. Ready(0)
  BY DEF MI_SEXP
<1>2. Abstract!Has(0) /\ state = "running" /\ SP \in Nat /\ stack \in Seq(Int) /\ Len(ValuesOf(stack)) = SP
  BY <1>1, OperandsSeen
<1> DEFINE args(t) == Append(stack, Val(LtagHash(t)))
           arg(t, i) == args(t)[Len(args(t)) - i]
           o(t, n) == Object("SEXP", UNBOX(arg(t, 0)), [i \in 1..n |-> arg(t, n - i + 1)])
<1>3. PICK t \in Tags, n \in Sizes :
        IF TagFails(t) THEN Ends("failed") ELSE n <= SP /\ Makes(Dropped(n), o(t, n))
  BY DEF MI_SEXP
<1>4. CASE TagFails(t)
  <2>1. WellMade' /\ Abstract!Stops("failed")
    BY <1>2, <1>3, <1>4, EndsStep
  <2>2. QED
    BY <1>2, <1>4, <2>1 DEF Abstract!Next, Abstract!NoName
<1>5. CASE ~ TagFails(t)
  <2>1. n \in Nat /\ n \in 0..Len(stack) /\ n <= SP
    BY <1>2, <1>3, <1>5, OperandsAssumption DEF SP
  <2>2. Ready(n)
    BY <1>1, <1>2, <2>1 DEF Ready
  <2>3. Abstract!Dropped(n) = ValuesOf(Dropped(n)) /\ Made(Dropped(n), heap)
    BY <2>1, <2>2, OperandsSeen
  <2> DEFINE a == args(t)
             h == LtagHash(t)
             m == [i \in 1..n |-> stack[Len(stack) - n + i]]
  <2>4. h \in Int /\ AsInt(h) = h /\ de_hash(h) = Shortened(t)
    BY <1>5, NamesKept
  <2>5. BOX(h) \in Int /\ UNBOX(BOX(h)) = h
    BY <2>4, Boxed, IntIsWord
  <2>6. /\ Len(a) = SP + 1 /\ a[SP + 1] = BOX(h) /\ \A i \in 1..SP : a[i] = stack[i]
    BY <1>2, <2>5, AppendProperties DEF SP, Val
  <2>7. UNBOX(arg(t, 0)) = h
    BY <1>2, <2>5, <2>6
  <2>8. ASSUME NEW i \in 1..n
        PROVE  arg(t, n - i + 1) = stack[Len(stack) - n + i]
    <3>1. /\ SP + 1 - (n - i + 1) = SP - n + i /\ SP - n + i \in 1..SP
          /\ SP - n + i = Len(stack) - n + i
      BY <1>2, <2>1 DEF SP
    <3> HIDE DEF args, a
    <3>2. arg(t, n - i + 1) = a[Len(a) - (n - i + 1)]
      BY DEF a
    <3> HIDE DEF arg
    <3>2a. arg(t, n - i + 1) = a[SP + 1 - (n - i + 1)]
      BY <1>2, <2>1, <2>6, <3>2
    <3>3. arg(t, n - i + 1) = a[SP - n + i] /\ a[SP - n + i] = stack[SP - n + i]
      BY <2>6, <3>1, <3>2a
    <3>4. QED
      BY <3>1, <3>3
  <2> HIDE DEF arg, args, a
  <2>9. [i \in 1..n |-> arg(t, n - i + 1)] = m
    BY <2>8
  <2>10. o(t, n) = Object("SEXP", h, m)
    BY <2>7, <2>9
  <2>11. /\ m \in Seq(Int) /\ DOMAIN m = 1..n /\ \A i \in 1..n : IsWord(m[i], Len(heap))
         /\ ValuesOf(m) = Abstract!LastOf(n)
    BY <2>1, TakenSeen
  <2>11a. Len(m) < Half
    <3> HIDE DEF m
    <3>1. n < Half /\ n \in Nat /\ 1..Len(m) = 1..n /\ Len(m) \in Nat
      BY <2>1, <2>11, OperandsAssumption, HalfAssumption, LenProperties
    <3>2. QED
      BY <3>1
  <2> HIDE DEF o, m, h
  <2>12. \E u \in Tags : ~ TagFails(u) /\ h = LtagHash(u)
    BY <1>5 DEF h
  <2> DEFINE x == Object("SEXP", h, m)
  <2>13. /\ IsObject(x, Len(heap)) /\ x.type = "SEXP"
         /\ CellOf(x) = [type |-> "SEXP", name |-> Shortened(t), members |-> Abstract!LastOf(n)]
    <3>1. /\ IsObject(x, Len(heap))
          /\ CellOf(x) = [type |-> "SEXP", name |-> de_hash(h), members |-> ValuesOf(m)]
      BY <2>4, <2>11, <2>11a, <2>12, WordsMakeObject
    <3>2. x.type = "SEXP"
      BY DEF Object
    <3>3. QED
      BY <2>4, <2>11, <3>1, <3>2
  <2>14. Makes(Dropped(n), x)
    BY <1>3, <1>5, <2>10
  <2> HIDE DEF x
  <2>15. CellOf(x) = [type |-> x.type, name |-> Shortened(t), members |-> Abstract!LastOf(n)]
    BY <2>13
  <2>16. WellMade' /\ Abstract!Makes(ValuesOf(Dropped(n)), x.type, Shortened(t), Abstract!LastOf(n))
    BY <1>2, <2>3, <2>13, <2>14, <2>15, MakesStep
  <2>17. Abstract!Makes(Abstract!Dropped(n), "SEXP", Shortened(t), Abstract!LastOf(n))
    BY <2>3, <2>13, <2>16
  <2>18. Abstract!Sexp
    BY <1>2, <1>5, <2>1, <2>17 DEF Abstract!Sexp
  <2>19. QED
    BY <2>16, <2>18 DEF Abstract!Next
<1>6. QED
  BY <1>4, <1>5

LEMMA BarrayImplements ==
  ASSUME WellMade, RT_BARRAY
  PROVE  WellMade' /\ Abstract!Next
<1>1. Ready(0)
  BY DEF RT_BARRAY
<1>2. Abstract!Has(0) /\ state = "running" /\ SP \in Nat /\ stack \in Seq(Int) /\ Len(ValuesOf(stack)) = SP
  BY <1>1, OperandsSeen
<1>3. PICK n \in Sizes \cup {-1} :
        IF n < 0 THEN Ends("failed")
        ELSE n <= SP /\ Makes(Dropped(n), Object("ARRAY", 0, [j \in 1..n |-> Arg(n - j)]))
  BY DEF RT_BARRAY
<1>4. CASE n < 0
  <2>1. WellMade' /\ Abstract!Stops("failed")
    BY <1>2, <1>3, <1>4, EndsStep
  <2>2. QED
    BY <1>2, <2>1 DEF Abstract!Next, Abstract!NegativeArray
<1>5. CASE ~ n < 0
  <2>1. n \in Sizes /\ n \in Nat /\ n \in 0..Len(stack) /\ n <= SP
    BY <1>2, <1>3, <1>5, OperandsAssumption DEF SP
  <2>2. Ready(n)
    BY <1>1, <1>2, <2>1 DEF Ready
  <2>3. Abstract!Dropped(n) = ValuesOf(Dropped(n)) /\ Made(Dropped(n), heap)
    BY <2>1, <2>2, OperandsSeen
  <2> DEFINE m == [i \in 1..n |-> stack[Len(stack) - n + i]]
             x == Object("ARRAY", 0, m)
  <2>4. ASSUME NEW i \in 1..n
        PROVE  Arg(n - i) = stack[Len(stack) - n + i]
    <3>1. SP - (n - i) = Len(stack) - n + i
      BY <1>2, <2>1 DEF SP
    <3>2. QED
      BY <3>1 DEF Arg
  <2>5. [j \in 1..n |-> Arg(n - j)] = m
    BY <2>4
  <2>6. Makes(Dropped(n), x)
    BY <1>3, <1>5, <2>5
  <2>7. /\ m \in Seq(Int) /\ DOMAIN m = 1..n /\ \A i \in 1..n : IsWord(m[i], Len(heap))
        /\ ValuesOf(m) = Abstract!LastOf(n)
    BY <2>1, TakenSeen
  <2> HIDE DEF m
  <2>7a. Len(m) < Half
    <3>1. n < Half /\ n \in Nat /\ 1..Len(m) = 1..n /\ Len(m) \in Nat
      BY <2>1, <2>7, OperandsAssumption, HalfAssumption, LenProperties
    <3>2. QED
      BY <3>1
  <2>8. /\ IsObject(x, Len(heap)) /\ x.type = "ARRAY"
        /\ CellOf(x) = [type |-> "ARRAY", name |-> <<>>, members |-> Abstract!LastOf(n)]
    <3>1. /\ IsObject(x, Len(heap))
          /\ CellOf(x) = [type |-> "ARRAY", name |-> <<>>, members |-> ValuesOf(m)]
      <4>1. 0 \in Int /\ \A i \in DOMAIN m : IsWord(m[i], Len(heap))
        BY <2>7
      <4>2. QED
        BY <2>7, <2>7a, <4>1, WordsMakeObject
    <3>2. x.type = "ARRAY"
      BY DEF Object
    <3>3. QED
      BY <2>7, <3>1, <3>2
  <2> HIDE DEF x
  <2>9. CellOf(x) = [type |-> x.type, name |-> <<>>, members |-> Abstract!LastOf(n)]
    BY <2>8
  <2>10. WellMade' /\ Abstract!Makes(ValuesOf(Dropped(n)), x.type, <<>>, Abstract!LastOf(n))
    BY <1>2, <2>3, <2>6, <2>8, <2>9, MakesStep
  <2>11. Abstract!Makes(Abstract!Dropped(n), "ARRAY", <<>>, Abstract!LastOf(n))
    BY <2>3, <2>8, <2>10
  <2>12. Abstract!Array
    BY <1>2, <2>1, <2>11 DEF Abstract!Array
  <2>13. QED
    BY <2>10, <2>12 DEF Abstract!Next
<1>6. QED
  BY <1>4, <1>5

-----------------------------------------------------------------------------
(* Members of objects and of cells.                                         *)

\* The captured values follow the code.
LEMMA ValuesPart ==
  ASSUME NEW o \in Objects, o.type = "CLOSURE" => o.members # <<>>
  PROVE  /\ o \in Objects /\ ValuesIn(o) \in Seq(Int) /\ Len(ValuesIn(o)) \in Nat
         /\ o.members \in Seq(Int)
         /\ o.type # "CLOSURE" => ValuesIn(o) = o.members
         /\ o.type = "CLOSURE" =>
              /\ Len(o.members) = Len(ValuesIn(o)) + 1
              /\ \A j \in 1..Len(ValuesIn(o)) : ValuesIn(o)[j] = o.members[j + 1]
<1>1. o \in Objects /\ o.members \in Seq(Int) /\ (o.type = "CLOSURE" => o.members # <<>>)
  BY DEF Objects
<1>2. CASE o.type # "CLOSURE"
  <2>1. ValuesIn(o) = o.members
    BY <1>2 DEF ValuesIn
  <2>2. Len(o.members) \in Nat
    BY <1>1, SequenceEntries
  <2>3. QED
    BY <1>1, <1>2, <2>1, <2>2
<1>3. CASE o.type = "CLOSURE"
  <2>1. ValuesIn(o) = Tail(o.members)
    BY <1>3 DEF ValuesIn
  <2>2. /\ Tail(o.members) \in Seq(Int) /\ Len(Tail(o.members)) = Len(o.members) - 1
        /\ \A i \in 1..Len(Tail(o.members)) : Tail(o.members)[i] = o.members[i + 1]
    BY <1>1, <1>3, HeadTailProperties
  <2>3. Len(o.members) \in Nat /\ Len(Tail(o.members)) \in Nat
    BY <1>1, <2>2, SequenceEntries
  <2>4. QED
    BY <1>1, <1>3, <2>1, <2>2, <2>3
<1>4. QED
  BY <1>2, <1>3

LEMMA ValuesSeq ==
  ASSUME NEW n, NEW o, IsObject(o, n)
  PROVE  /\ o \in Objects /\ ValuesIn(o) \in Seq(Int) /\ Len(ValuesIn(o)) \in Nat
         /\ o.members \in Seq(Int)
         /\ o.type # "CLOSURE" => ValuesIn(o) = o.members
         /\ o.type = "CLOSURE" =>
              /\ Len(o.members) = Len(ValuesIn(o)) + 1
              /\ \A j \in 1..Len(ValuesIn(o)) : ValuesIn(o)[j] = o.members[j + 1]
BY ValuesPart DEF IsObject

\* Each member of a cell is what a member of the object means.
LEMMA MembersSeen ==
  ASSUME NEW n, NEW o, IsObject(o, n)
  PROVE  /\ Len(CellOf(o).members) = Len(ValuesIn(o))
         /\ CellOf(o).members = [j \in 1..Len(ValuesIn(o)) |-> CellOf(o).members[j]]
         /\ DOMAIN CellOf(o).members = 1..Len(ValuesIn(o))
         /\ \A j \in 1..Len(ValuesIn(o)) :
              /\ o.type = "STRING" => /\ ValuesIn(o)[j] \in Characters
                                      /\ CellOf(o).members[j] = Abstract!char(ValuesIn(o)[j])
              /\ o.type # "STRING" => /\ IsWord(ValuesIn(o)[j], n)
                                      /\ CellOf(o).members[j] = ValueOf(ValuesIn(o)[j])
<1> DEFINE v == ValuesIn(o)
           m == CellOf(o).members
<1>1. /\ o \in Objects /\ v \in Seq(Int) /\ Len(v) \in Nat
      /\ o.type # "CLOSURE" => v = o.members
  BY ValuesSeq
<1>2. DOMAIN v = 1..Len(v)
  BY <1>1, SequenceEntries
<1>3. \A j \in 1..Len(v) : IF o.type = "STRING" THEN v[j] \in Characters ELSE IsWord(v[j], n)
  BY <1>2 DEF IsObject
<1> HIDE DEF v, m
<1>4. CASE o.type = "STRING"
  <2>1. m = [i \in 1..Len(v) |-> Abstract!char(v[i])]
    BY <1>1, <1>2, <1>4, CellSeen DEF m
  <2>2. m = [i \in 1..Len(v) |-> m[i]] /\ \A j \in 1..Len(v) : m[j] = Abstract!char(v[j])
    BY <2>1
  <2>3. Len(m) = Len(v) /\ DOMAIN m = 1..Len(v)
    BY <1>1, <2>2, Entries
  <2>4. QED
    BY <1>3, <1>4, <2>2, <2>3 DEF m, v
<1>5. CASE o.type # "STRING"
  <2>1. m = ValuesOf(v)
    BY <1>1, <1>5, CellSeen DEF m, v
  <2>2. /\ m = [i \in 1..Len(v) |-> m[i]] /\ \A j \in 1..Len(v) : m[j] = ValueOf(v[j])
        /\ Len(m) = Len(v) /\ DOMAIN m = 1..Len(v)
    BY <1>1, <2>1, ValuesSeen
  <2>3. QED
    BY <1>3, <1>5, <2>2 DEF m, v
<1>6. QED
  BY <1>4, <1>5

\* How many members a cell has.
LEMMA LengthSeen ==
  ASSUME NEW n, NEW o, IsObject(o, n)
  PROVE  /\ Len(o.members) \in Nat
         /\ o.type = "CLOSURE" => Len(o.members) = Len(CellOf(o).members) + 1
         /\ o.type # "CLOSURE" => Len(o.members) = Len(CellOf(o).members)
<1>1. Len(CellOf(o).members) = Len(ValuesIn(o))
  BY MembersSeen
<1>2. Len(o.members) \in Nat
  BY ValuesSeq, SequenceEntries
<1>3. QED
  BY <1>1, <1>2, ValuesSeq

\* The member an index names.
LEMMA IndexSeen ==
  ASSUME NEW n, NEW o, IsObject(o, n), NEW i \in Int,
         NEW j, j = i + (IF o.type = "CLOSURE" THEN 0 ELSE 1)
  PROVE  /\ i \in Indices(o) <=> j \in DOMAIN CellOf(o).members
         /\ i \in Indices(o) => /\ j \in 1..Len(ValuesIn(o)) /\ o.members[i + 1] = ValuesIn(o)[j]
                                /\ i + 1 \in 1..Len(o.members)
<1>1. Len(ValuesIn(o)) \in Nat /\ DOMAIN CellOf(o).members = 1..Len(ValuesIn(o))
  BY ValuesSeq, MembersSeen
<1>2. CASE o.type = "CLOSURE"
  <2>1. /\ j = i /\ Len(o.members) = Len(ValuesIn(o)) + 1 /\ Indices(o) = 1..(Len(o.members) - 1)
        /\ \A k \in 1..Len(ValuesIn(o)) : ValuesIn(o)[k] = o.members[k + 1]
    BY <1>2, ValuesSeq DEF Indices
  <2>2. QED
    BY <1>1, <2>1
<1>3. CASE o.type # "CLOSURE"
  <2>1. j = i + 1 /\ ValuesIn(o) = o.members /\ Indices(o) = 0..(Len(o.members) - 1)
    BY <1>3, ValuesSeq DEF Indices
  <2>2. QED
    BY <1>1, <2>1
<1>4. QED
  BY <1>2, <1>3

-----------------------------------------------------------------------------
(* Closures.                                                                *)

\* The captured values are words, and what they mean is on the stack.
LEMMA ClosureIsObject ==
  ASSUME WellMade, NEW code \in 0..(Half - 1), NEW n \in 0..(Half - 2), NEW vs \in [1..n -> ToSet(stack)]
  PROVE  /\ IsObject(Object("CLOSURE", 0, <<code>> \o vs), Len(heap))
         /\ CellOf(Object("CLOSURE", 0, <<code>> \o vs))
              = [type |-> "CLOSURE", name |-> <<code>>, members |-> ValuesOf(vs)]
         /\ ValuesOf(vs) \in [1..n -> {ValuesOf(stack)[i] : i \in DOMAIN ValuesOf(stack)}]
<1> DEFINE m == <<code>> \o vs
           o == Object("CLOSURE", 0, m)
<1>1. stack \in Seq(Int) /\ \A i \in DOMAIN stack : IsWord(stack[i], Len(heap))
  BY DEF WellMade, Made
<1>2. /\ DOMAIN stack = 1..Len(stack) /\ DOMAIN ValuesOf(stack) = 1..Len(stack)
      /\ \A i \in 1..Len(stack) : stack[i] \in Int /\ ValuesOf(stack)[i] = ValueOf(stack[i])
  BY <1>1, SequenceEntries, ValuesSeen
<1>3. ASSUME NEW i \in 1..n
      PROVE  /\ vs[i] \in Int /\ IsWord(vs[i], Len(heap))
             /\ ValueOf(vs[i]) \in {ValuesOf(stack)[j] : j \in DOMAIN ValuesOf(stack)}
  <2>1. PICK j \in DOMAIN stack : vs[i] = stack[j]
    BY DEF ToSet
  <2>2. QED
    BY <1>1, <1>2, <2>1
<1>4. vs \in [1..n -> Int] /\ vs = [i \in 1..n |-> vs[i]]
  BY <1>3
<1>5. vs \in Seq(Int) /\ Len(vs) = n /\ DOMAIN vs = 1..n
  BY <1>4, FunctionIsSeq
<1>6. ValuesOf(vs) = [i \in 1..n |-> ValueOf(vs[i])]
  BY <1>5, ValuesSeen
<1>7. <<code>> = [i \in 1..1 |-> <<code>>[i]] /\ <<code>>[1] = code
  OBVIOUS
<1>8. m = [i \in 1..(1 + n) |-> IF i <= 1 THEN <<code>>[i] ELSE vs[i - 1]]
  BY <1>4, <1>7, EntriesJoined
<1> HIDE DEF m
<1>9. ASSUME NEW i \in 1..(1 + n)
      PROVE  m[i] = (IF i = 1 THEN code ELSE vs[i - 1]) /\ m[i] \in Int
  <2>1. m[i] = IF i <= 1 THEN <<code>>[i] ELSE vs[i - 1]
    BY <1>8
  <2>2. CASE i = 1
    BY <1>7, <2>1, <2>2
  <2>3. CASE i # 1
    <3>1. ~ i <= 1 /\ i - 1 \in 1..n
      BY <2>3
    <3>2. QED
      BY <1>3, <2>1, <2>3, <3>1
  <2>4. QED
    BY <2>2, <2>3
<1>10. m \in [1..(1 + n) -> Int]
  BY <1>8, <1>9
<1>11. m \in Seq(Int) /\ Len(m) = 1 + n
  BY <1>10, FunctionIsSeq
<1>12. m # <<>> /\ m[1] = code
  <2>1. 1 \in 1..(1 + n) /\ Len(m) # 0
    BY <1>11
  <2>2. QED
    BY <1>9, <2>1, EmptySeq
<1>13. /\ Tail(m) \in Seq(Int) /\ Len(Tail(m)) = n
       /\ \A i \in 1..n : Tail(m)[i] = m[i + 1]
  <2>1. /\ Tail(m) \in Seq(Int) /\ Len(Tail(m)) = Len(m) - 1
        /\ \A i \in 1..Len(Tail(m)) : Tail(m)[i] = m[i + 1]
    BY <1>11, <1>12, HeadTailProperties
  <2>2. QED
    BY <1>11, <2>1
<1>14. Tail(m) = vs
  <2>1. Tail(m) = [i \in 1..n |-> Tail(m)[i]]
    BY <1>13, SequenceEntries
  <2>2. ASSUME NEW i \in 1..n
        PROVE  Tail(m)[i] = vs[i]
    <3>1. i + 1 \in 1..(1 + n) /\ i + 1 # 1 /\ i + 1 - 1 = i
      OBVIOUS
    <3>2. QED
      BY <1>9, <1>13, <3>1
  <2>3. QED
    BY <1>4, <2>1, <2>2
<1>15. o = [type |-> "CLOSURE", tag |-> 0, members |-> m]
  BY DEF Object
<1>16. o.type = "CLOSURE" /\ o.members = m /\ ValuesIn(o) = vs /\ o \in Objects
  BY <1>11, <1>14, <1>15 DEF ValuesIn, Objects
<1> HIDE DEF o
<1>17. IsObject(o, Len(heap))
  BY <1>3, <1>5, <1>11, <1>12, <1>16, HalfAssumption DEF IsObject
<1>18. CellOf(o) = [type |-> "CLOSURE", name |-> <<code>>, members |-> ValuesOf(vs)]
  BY <1>12, <1>14, <1>16 DEF CellOf
<1>19. ValuesOf(vs) \in [1..n -> {ValuesOf(stack)[i] : i \in DOMAIN ValuesOf(stack)}]
  BY <1>3, <1>6
<1>20. QED
  BY <1>17, <1>18, <1>19 DEF o, m

\* One value more.
LEMMA OneMore ==
  ASSUME NEW s \in Seq(Int), NEW c, NEW e, NEW x, Abstract!Becomes(Append(ValuesOf(s), x), c, e)
  PROVE  /\ Len(ValuesOf(stack)') = Len(ValuesOf(s)) + 1
         /\ ValuesOf(stack)'[Len(ValuesOf(s)) + 1] = x
<1> DEFINE v == ValuesOf(s)
           t == ValuesOf(stack)'
<1>1. t = Append(v, x)
  BY DEF Abstract!Becomes
<1>2. v = [i \in 1..Len(v) |-> v[i]] /\ Len(v) \in Nat
  BY ValuesSeen
<1>3. Append(v, x) = [i \in 1..(Len(v) + 1) |-> IF i = Len(v) + 1 THEN x ELSE v[i]]
  BY <1>2, EntryAppended
<1>4. t = [i \in 1..(Len(v) + 1) |-> t[i]] /\ t[Len(v) + 1] = x
  BY <1>1, <1>2, <1>3
<1>5. Len(t) = Len(v) + 1
  BY <1>2, <1>4, Entries
<1>6. QED
  BY <1>4, <1>5

LEMMA ClosureImplements ==
  ASSUME WellMade, CTRL_CLOSURE
  PROVE  WellMade' /\ Abstract!Next
<1>1. Ready(0)
  BY DEF CTRL_CLOSURE
<1>2. /\ Abstract!Has(0) /\ state = "running" /\ Made(stack, heap) /\ stack \in Seq(Int)
  BY <1>1, OperandsSeen
<1>3. PICK code \in Codes, n \in Sizes :
        \E vs \in [1..n -> ToSet(stack)] : Makes(stack, Object("CLOSURE", 0, <<code>> \o vs))
  BY DEF CTRL_CLOSURE
<1>4. PICK vs \in [1..n -> ToSet(stack)] : Makes(stack, Object("CLOSURE", 0, <<code>> \o vs))
  BY <1>3
<1> DEFINE o == Object("CLOSURE", 0, <<code>> \o vs)
<1>5. code \in 0..(Half - 1) /\ n \in 0..(Half - 2)
  BY OperandsAssumption
<1>6. /\ IsObject(o, Len(heap)) /\ o.type = "CLOSURE"
      /\ CellOf(o) = [type |-> "CLOSURE", name |-> <<code>>, members |-> ValuesOf(vs)]
      /\ ValuesOf(vs) \in [1..n -> {ValuesOf(stack)[i] : i \in DOMAIN ValuesOf(stack)}]
  <2>1. o.type = "CLOSURE"
    BY DEF Object
  <2>2. QED
    BY <1>5, <2>1, ClosureIsObject
<1>7. Makes(stack, o)
  BY <1>4
<1> HIDE DEF o
<1>8. CellOf(o) = [type |-> o.type, name |-> <<code>>, members |-> ValuesOf(vs)]
  BY <1>6
<1>9. WellMade' /\ Abstract!Makes(ValuesOf(stack), o.type, <<code>>, ValuesOf(vs))
  BY <1>2, <1>6, <1>7, <1>8, MakesStep
<1>10. Abstract!Makes(ValuesOf(stack), "CLOSURE", <<code>>, ValuesOf(vs))
  BY <1>6, <1>9
<1>11. Len(ValuesOf(stack)') = Len(ValuesOf(stack)) + 1
  BY <1>2, <1>10, OneMore DEF Abstract!Makes
<1>12. Abstract!Closure
  BY <1>2, <1>6, <1>10, <1>11 DEF Abstract!Closure
<1>13. QED
  BY <1>9, <1>12 DEF Abstract!Next

-----------------------------------------------------------------------------
(* CTRL.                                                                    *)

LEMMA JumpImplements ==
  ASSUME WellMade, CTRL_CJMP
  PROVE  WellMade' /\ Abstract!Next
<1> DEFINE w == Arg(0)
           zero == IsZero(w)
<1>1. Ready(1)
  BY DEF CTRL_CJMP
<1>2. /\ Abstract!Has(1) /\ state = "running" /\ Made(Dropped(1), heap)
      /\ Abstract!Dropped(1) = ValuesOf(Dropped(1))
      /\ Abstract!Top(0) = ValueOf(w) /\ IsWord(w, Len(heap))
  <2>1. 0 \in 0..(1 - 1)
    OBVIOUS
  <2>2. QED
    BY <1>1, <2>1, OperandsSeen
<1>3. \/ Becomes(Dropped(1), heap, Jumped("CJMPz", zero))
      \/ Becomes(Dropped(1), heap, Jumped("CJMPnz", ~ zero))
  BY DEF CTRL_CJMP
<1>4. zero <=> Abstract!Top(0) = Abstract!int(0)
  <2>1. UNBOX(w) = w \div 2
    BY DEF UNBOX
  <2>2. zero <=> UNBOX(w) = 0
    BY DEF IsZero, AsVal
  <2>3. CASE UNBOXED(w)
    <3>1. ValueOf(w) = Abstract!int(UNBOX(w))
      BY <1>2, <2>3, WordSeen
    <3>2. QED
      BY <1>2, <2>2, <3>1 DEF Abstract!int
  <2>4. CASE ~ UNBOXED(w)
    <3>1. ValueOf(w) = Abstract!ref(w \div 2) /\ w \div 2 \in 1..Len(heap)
      BY <1>2, <2>4, WordSeen
    <3>2. ~ zero
      BY <2>1, <2>2, <3>1
    <3>3. ValueOf(w) # Abstract!int(0)
      BY <3>1 DEF Abstract!int, Abstract!ref
    <3>4. QED
      BY <1>2, <3>2, <3>3
  <2>5. QED
    BY <2>3, <2>4
<1> DEFINE top == Abstract!Top(0) = Abstract!int(0)
<1>5. zero = top
  BY <1>4 DEF IsZero
<1> HIDE DEF w, zero, top
<1>6. \/ Becomes(Dropped(1), heap, <<"CJMPz", top>>)
      \/ Becomes(Dropped(1), heap, <<"CJMPnz", ~ top>>)
  BY <1>3, <1>5 DEF Jumped
<1>7. CASE Becomes(Dropped(1), heap, <<"CJMPz", top>>)
  <2>1. WellMade' /\ Abstract!Becomes(Abstract!Dropped(1), CellsOf(heap), <<"CJMPz", top>>)
    BY <1>2, <1>7, BecomesStep
  <2>2. Abstract!Jump
    BY <1>2, <2>1 DEF Abstract!Jump, top
  <2>3. QED
    BY <2>1, <2>2 DEF Abstract!Next
<1>8. CASE Becomes(Dropped(1), heap, <<"CJMPnz", ~ top>>)
  <2>1. WellMade' /\ Abstract!Becomes(Abstract!Dropped(1), CellsOf(heap), <<"CJMPnz", ~ top>>)
    BY <1>2, <1>8, BecomesStep
  <2>2. Abstract!Jump
    BY <1>2, <2>1 DEF Abstract!Jump, top
  <2>3. QED
    BY <2>1, <2>2 DEF Abstract!Next
<1>9. QED
  BY <1>6, <1>7, <1>8

LEMMA TagImplements ==
  ASSUME WellMade, CTRL_TAG
  PROVE  WellMade' /\ Abstract!Next
<1> DEFINE d == Arg(0)
           v == Abstract!Top(0)
<1>1. Ready(1)
  BY DEF CTRL_TAG
<1>2. /\ Abstract!Has(1) /\ state = "running" /\ Made(Dropped(1), heap)
      /\ Abstract!Dropped(1) = ValuesOf(Dropped(1))
      /\ v = ValueOf(d) /\ IsWord(d, Len(heap))
  <2>1. 0 \in 0..(1 - 1)
    OBVIOUS
  <2>2. QED
    BY <1>1, <2>1, OperandsSeen
<1> DEFINE found(t, n) == IsA(d, "SEXP") /\ At(d).tag = LtagHash(t) /\ Len(At(d).members) = n
<1>3. PICK t \in Tags, n \in Sizes :
        IF TagFails(t) THEN Ends("failed") ELSE Pushes(Dropped(1), Val(Bool(found(t, n))))
  BY DEF CTRL_TAG
<1>4. CASE TagFails(t)
  <2>1. WellMade' /\ Abstract!Stops("failed")
    BY <1>2, <1>3, <1>4, EndsStep
  <2>2. Abstract!Has(0)
    BY <1>2 DEF Abstract!Has
  <2>3. QED
    BY <1>4, <2>1, <2>2 DEF Abstract!Next, Abstract!NoName
<1>5. CASE ~ TagFails(t)
  <2> DEFINE seen == /\ Abstract!Is(v, "SEXP") /\ CellsOf(heap)[v[2]].name = Shortened(t)
                     /\ Len(Abstract!Members(v)) = n
  <2> HIDE DEF d, v
  <2>1. Abstract!Is(v, "SEXP") <=> IsA(d, "SEXP")
    BY <1>2, KindSeen
  <2>2. ASSUME IsA(d, "SEXP")
        PROVE  /\ At(d).tag = LtagHash(t) <=> CellsOf(heap)[v[2]].name = Shortened(t)
               /\ Len(Abstract!Members(v)) = Len(At(d).members)
    <3>1. ~ UNBOXED(d) /\ At(d).type = "SEXP" /\ Abstract!Members(v) = CellOf(At(d)).members
      BY <1>2, <2>2, KindSeen
    <3>2. /\ v[2] = d \div 2 /\ CellsOf(heap)[d \div 2] = CellOf(At(d))
          /\ IsObject(At(d), Len(heap)) /\ At(d) \in Objects
      BY <1>2, <3>1, WordSeen
    <3>3. PICK u \in Tags : ~ TagFails(u) /\ At(d).tag = LtagHash(u)
      BY <3>1, <3>2 DEF IsObject
    <3>4. CellOf(At(d)).name = de_hash(LtagHash(u))
      BY <3>1, <3>2, <3>3, CellSeen
    <3>5. LtagHash(u) = LtagHash(t) <=> de_hash(LtagHash(u)) = Shortened(t)
      BY <1>5, <3>3, NamesTell
    <3>6. Len(At(d).members) = Len(CellOf(At(d)).members)
      BY <3>1, <3>2, LengthSeen
    <3>7. QED
      BY <3>1, <3>2, <3>3, <3>4, <3>5, <3>6
  <2>3. found(t, n) = seen
    BY <2>1, <2>2
  <2>4. seen \in BOOLEAN
    BY DEF Abstract!Is
  <2> HIDE DEF seen, found
  <2>5. Pushes(Dropped(1), Val(Bool(seen)))
    BY <1>3, <1>5, <2>3
  <2>6. WellMade' /\ Abstract!Pushes(Abstract!Dropped(1), Abstract!Truth(seen))
    BY <1>2, <2>4, <2>5, PushesTruth
  <2>7. CellsOf(heap)' = CellsOf(heap)
    BY <2>6 DEF Abstract!Pushes, Abstract!Becomes
  <2>8. Abstract!TestTag
    BY <1>2, <1>5, <2>6, <2>7 DEF Abstract!TestTag, seen, v
  <2>9. QED
    BY <2>6, <2>8 DEF Abstract!Next
<1>6. QED
  BY <1>4, <1>5

LEMMA ArrayImplements ==
  ASSUME WellMade, CTRL_ARRAY
  PROVE  WellMade' /\ Abstract!Next
<1> DEFINE d == Arg(0)
           v == Abstract!Top(0)
           found(n) == IsA(d, "ARRAY") /\ Len(At(d).members) = n
           seen(n) == Abstract!Is(v, "ARRAY") /\ Len(Abstract!Members(v)) = n
<1>1. Ready(1)
  BY DEF CTRL_ARRAY
<1>2. /\ Abstract!Has(1) /\ state = "running" /\ Made(stack, heap)
      /\ v = ValueOf(d) /\ IsWord(d, Len(heap))
  <2>1. 0 \in 0..(1 - 1)
    OBVIOUS
  <2>2. QED
    BY <1>1, <2>1, OperandsSeen
<1>3. PICK n \in Sizes : Pushes(stack, Val(Bool(found(n))))
  BY DEF CTRL_ARRAY
<1> HIDE DEF d, v
<1>4. Abstract!Is(v, "ARRAY") <=> IsA(d, "ARRAY")
  BY <1>2, KindSeen
<1>5. ASSUME IsA(d, "ARRAY")
      PROVE  Len(Abstract!Members(v)) = Len(At(d).members)
  <2>1. ~ UNBOXED(d) /\ At(d).type = "ARRAY" /\ Abstract!Members(v) = CellOf(At(d)).members
    BY <1>2, <1>5, KindSeen
  <2>2. IsObject(At(d), Len(heap))
    BY <1>2, <2>1, WordSeen
  <2>3. QED
    BY <2>1, <2>2, LengthSeen
<1>6. found(n) = seen(n) /\ seen(n) \in BOOLEAN
  BY <1>4, <1>5 DEF Abstract!Is
<1> HIDE DEF found, seen
<1>7. Pushes(stack, Val(Bool(seen(n))))
  BY <1>3, <1>6
<1>8. WellMade' /\ Abstract!Pushes(ValuesOf(stack), Abstract!Truth(seen(n)))
  BY <1>2, <1>6, <1>7, PushesTruth
<1>9. Abstract!TestArray
  BY <1>2, <1>8 DEF Abstract!TestArray, seen, v
<1>10. QED
  BY <1>8, <1>9 DEF Abstract!Next

LEMMA FailImplements ==
  ASSUME WellMade, CTRL_FAIL
  PROVE  WellMade' /\ Abstract!Next
<1>1. Ready(0) /\ Ends("failed")
  BY DEF CTRL_FAIL
<1>2. Abstract!Has(0) /\ state = "running"
  BY <1>1, OperandsSeen
<1>3. WellMade' /\ Abstract!Stops("failed")
  BY <1>1, <1>2, EndsStep
<1>4. QED
  BY <1>2, <1>3 DEF Abstract!Next, Abstract!Fail

-----------------------------------------------------------------------------
(* PATT and RT.                                                             *)

LEMMA StringPattImplements ==
  ASSUME WellMade, PATT_STRING
  PROVE  WellMade' /\ Abstract!Next
<1> DEFINE x == Arg(0)
           y == Arg(1)
           p == Abstract!Top(0)
           v == Abstract!Top(1)
           s == Dropped(2)
<1>1. Ready(2)
  BY DEF PATT_STRING
<1>2. /\ Abstract!Has(2) /\ state = "running" /\ Made(s, heap) /\ Abstract!Dropped(2) = ValuesOf(s)
      /\ p = ValueOf(x) /\ IsWord(x, Len(heap)) /\ v = ValueOf(y) /\ IsWord(y, Len(heap))
  <2>1. 0 \in 0..(2 - 1) /\ 1 \in 0..(2 - 1)
    OBVIOUS
  <2>2. QED
    BY <1>1, <2>1, OperandsSeen
<1> DEFINE same == CText(At(x).members) = CText(At(y).members)
<1>3. IF ~ UNBOXED(y) /\ At(y).type # "STRING" THEN Ends("failed")
      ELSE IF UNBOXED(x) \/ At(x).type # "STRING" THEN Pushes(s, Val(0))
      ELSE IF UNBOXED(y) THEN Ends("strayed")
      ELSE Pushes(s, Val(Bool(same)))
  BY DEF PATT_STRING
<1> HIDE DEF x, y, p, v, s
<1>4. /\ Abstract!Is(v, "STRING") <=> ~ UNBOXED(y) /\ At(y).type = "STRING"
      /\ Abstract!IsRef(v) <=> ~ UNBOXED(y)
      /\ Abstract!IsInt(v) <=> UNBOXED(y)
      /\ Abstract!Is(p, "STRING") <=> ~ UNBOXED(x) /\ At(x).type = "STRING"
  <2>1. Abstract!Is(v, "STRING") <=> IsA(y, "STRING")
    BY <1>2, KindSeen
  <2>2. Abstract!Is(p, "STRING") <=> IsA(x, "STRING")
    BY <1>2, KindSeen
  <2>3. (Abstract!IsRef(v) <=> ~ UNBOXED(y)) /\ (Abstract!IsInt(v) <=> UNBOXED(y))
    BY <1>2, WordSeen
  <2>4. QED
    BY <2>1, <2>2, <2>3 DEF IsA
<1>5. CASE ~ UNBOXED(y) /\ At(y).type # "STRING"
  <2>1. WellMade' /\ Abstract!Stops("failed")
    BY <1>2, <1>3, <1>5, EndsStep
  <2>2. Abstract!TestString
    BY <1>2, <1>4, <1>5, <2>1 DEF Abstract!TestString, p, v
  <2>3. QED
    BY <2>1, <2>2 DEF Abstract!Next
<1>6. CASE ~ (~ UNBOXED(y) /\ At(y).type # "STRING") /\ (UNBOXED(x) \/ At(x).type # "STRING")
  <2>1. Pushes(s, Val(Bool(FALSE)))
    BY <1>3, <1>6 DEF Bool
  <2>2. WellMade' /\ Abstract!Pushes(Abstract!Dropped(2), Abstract!Truth(FALSE))
    BY <1>2, <2>1, PushesTruth
  <2>3. Abstract!TestString
    BY <1>2, <1>4, <1>6, <2>2 DEF Abstract!TestString, p, v
  <2>4. QED
    BY <2>2, <2>3 DEF Abstract!Next
<1>7. CASE UNBOXED(y) /\ ~ (UNBOXED(x) \/ At(x).type # "STRING")
  <2>1. Ends("strayed")
    BY <1>3, <1>7
  <2>2. WellMade' /\ Abstract!Stops("strayed")
    BY <1>2, <2>1, EndsStep
  <2>3. Abstract!TestString
    BY <1>2, <1>4, <1>7, <2>2 DEF Abstract!TestString, p, v
  <2>4. QED
    BY <2>2, <2>3 DEF Abstract!Next
<1>8. CASE ~ UNBOXED(y) /\ At(y).type = "STRING" /\ ~ UNBOXED(x) /\ At(x).type = "STRING"
  <2> DEFINE seen == Abstract!UpToZero(Abstract!Members(p)) = Abstract!UpToZero(Abstract!Members(v))
  <2>1. /\ At(x).members \in Seq(Int) /\ Abstract!Members(p) = Abstract!Chars(At(x).members)
        /\ At(y).members \in Seq(Int) /\ Abstract!Members(v) = Abstract!Chars(At(y).members)
    <3>1. ASSUME NEW w, IsWord(w, Len(heap)), ~ UNBOXED(w), At(w).type = "STRING"
          PROVE  /\ At(w).members \in Seq(Int)
                 /\ Abstract!Members(ValueOf(w)) = Abstract!Chars(At(w).members)
      <4>1. IsObject(At(w), Len(heap)) /\ At(w) \in Objects
        BY <3>1, WordSeen
      <4>2. Abstract!Members(ValueOf(w)) = CellOf(At(w)).members
        BY <3>1, KindSeen
      <4>3. CellOf(At(w)).members = [i \in DOMAIN At(w).members |-> Abstract!char(At(w).members[i])]
        BY <3>1, <4>1, CellSeen
      <4>4. QED
        BY <4>1, <4>2, <4>3, ValuesSeq DEF Abstract!Chars
    <3>2. QED
      BY <1>2, <1>8, <3>1
  <2>2. seen <=> Abstract!Chars(CText(At(x).members)) = Abstract!Chars(CText(At(y).members))
    BY <2>1, TextSeen
  <2>3. seen = same
    BY <2>1, <2>2, TextSeen, CharsTell
  <2>4. seen \in BOOLEAN
    OBVIOUS
  <2> HIDE DEF seen, same
  <2>5. Pushes(s, Val(Bool(seen)))
    BY <1>3, <1>8, <2>3
  <2>6. WellMade' /\ Abstract!Pushes(Abstract!Dropped(2), Abstract!Truth(seen))
    BY <1>2, <2>4, <2>5, PushesTruth
  <2>7. Abstract!TestString
    BY <1>2, <1>4, <1>8, <2>6 DEF Abstract!TestString, p, v, seen
  <2>8. QED
    BY <2>6, <2>7 DEF Abstract!Next
<1>9. QED
  BY <1>5, <1>6, <1>7, <1>8

LEMMA PattImplements ==
  ASSUME WellMade, PATT
  PROVE  WellMade' /\ Abstract!Next
<1> DEFINE w == Arg(0)
           v == Abstract!Top(0)
           kinds == {"STRING", "ARRAY", "SEXP", "CLOSURE"}
<1>1. Ready(1)
  BY DEF PATT
<1>2. /\ Abstract!Has(1) /\ state = "running" /\ Made(Dropped(1), heap)
      /\ Abstract!Dropped(1) = ValuesOf(Dropped(1)) /\ v = ValueOf(w) /\ IsWord(w, Len(heap))
  <2>1. 0 \in 0..(1 - 1)
    OBVIOUS
  <2>2. QED
    BY <1>1, <2>1, OperandsSeen
<1>3. PICK test \in {"#string", "#array", "#sexp", "#fun", "#ref", "#val"} :
        Pushes(Dropped(1), Val(Bool(PattResult(test, w))))
  BY DEF PATT
<1> HIDE DEF w, v
<1>4. /\ \A type : Abstract!Is(v, type) <=> IsA(w, type)
      /\ Abstract!IsRef(v) <=> ~ UNBOXED(w)
      /\ Abstract!IsInt(v) <=> UNBOXED(w)
  <2>1. ASSUME NEW type
        PROVE  Abstract!Is(v, type) <=> IsA(w, type)
    BY <1>2, KindSeen
  <2>2. QED
    BY <1>2, <2>1, WordSeen
<1>5. \/ \E type \in kinds : PattResult(test, w) = Abstract!Is(v, type)
      \/ PattResult(test, w) = Abstract!IsRef(v)
      \/ PattResult(test, w) = Abstract!IsInt(v)
  <2>1. /\ \A type : Abstract!Is(v, type) \in BOOLEAN /\ IsA(w, type) \in BOOLEAN
        /\ Abstract!IsRef(v) \in BOOLEAN /\ Abstract!IsInt(v) \in BOOLEAN
        /\ UNBOXED(w) \in BOOLEAN
    BY DEF Abstract!Is, IsA, Abstract!IsRef, Abstract!IsInt, UNBOXED
  <2>2. CASE test = "#string"
    BY <1>4, <2>1, <2>2 DEF PattResult
  <2>3. CASE test = "#array"
    BY <1>4, <2>1, <2>3 DEF PattResult
  <2>4. CASE test = "#sexp"
    BY <1>4, <2>1, <2>4 DEF PattResult
  <2>5. CASE test = "#fun"
    BY <1>4, <2>1, <2>5 DEF PattResult
  <2>6. CASE test = "#ref"
    BY <1>4, <2>1, <2>6 DEF PattResult
  <2>7. CASE test = "#val"
    BY <1>4, <2>1, <2>7 DEF PattResult
  <2>8. QED
    BY <2>2, <2>3, <2>4, <2>5, <2>6, <2>7
<1>6. ASSUME NEW b \in BOOLEAN, PattResult(test, w) = b
      PROVE  WellMade' /\ Abstract!Pushes(Abstract!Dropped(1), Abstract!Truth(b))
  BY <1>2, <1>3, <1>6, PushesTruth
<1>7. CASE \E type \in kinds : PattResult(test, w) = Abstract!Is(v, type)
  <2>1. PICK type \in kinds : PattResult(test, w) = Abstract!Is(v, type)
    BY <1>7
  <2>2. Abstract!Is(v, type) \in BOOLEAN
    BY DEF Abstract!Is
  <2>3. WellMade' /\ Abstract!Pushes(Abstract!Dropped(1), Abstract!Truth(Abstract!Is(v, type)))
    BY <1>6, <2>1, <2>2
  <2>4. Abstract!TestKind
    BY <1>2, <2>3 DEF Abstract!TestKind, v
  <2>5. QED
    BY <2>3, <2>4 DEF Abstract!Next
<1>8. CASE PattResult(test, w) = Abstract!IsRef(v)
  <2>1. Abstract!IsRef(v) \in BOOLEAN
    BY DEF Abstract!IsRef
  <2>2. WellMade' /\ Abstract!Pushes(Abstract!Dropped(1), Abstract!Truth(Abstract!IsRef(v)))
    BY <1>6, <1>8, <2>1
  <2>3. Abstract!TestKind
    BY <1>2, <2>2 DEF Abstract!TestKind, v
  <2>4. QED
    BY <2>2, <2>3 DEF Abstract!Next
<1>9. CASE PattResult(test, w) = Abstract!IsInt(v)
  <2>1. Abstract!IsInt(v) \in BOOLEAN
    BY DEF Abstract!IsInt
  <2>2. WellMade' /\ Abstract!Pushes(Abstract!Dropped(1), Abstract!Truth(Abstract!IsInt(v)))
    BY <1>6, <1>9, <2>1
  <2>3. Abstract!TestKind
    BY <1>2, <2>2 DEF Abstract!TestKind, v
  <2>4. QED
    BY <2>2, <2>3 DEF Abstract!Next
<1>10. QED
  BY <1>5, <1>7, <1>8, <1>9

LEMMA ReadImplements ==
  ASSUME WellMade, RT_READ
  PROVE  WellMade' /\ Abstract!Next
<1>1. Ready(0)
  BY DEF RT_READ
<1>2. Abstract!Has(0) /\ state = "running" /\ Made(stack, heap)
  BY <1>1, OperandsSeen
<1>3. PICK in \in Inputs : Pushes(stack, Val(UNBOX(BOX(in))))
  BY DEF RT_READ
<1>4. in \in Int
  BY OperandsAssumption, HalfAssumption DEF AllWords
<1>5. UNBOX(BOX(in)) = AsInt(in) /\ AsInt(in) \in Ints
  BY <1>4, Boxed
<1>6. AsInt(in) \in Int /\ AsInt(AsInt(in)) = AsInt(in)
  BY <1>5, IntStays, HalfAssumption DEF Ints
<1>7. Pushes(stack, BOX(AsInt(in)))
  BY <1>3, <1>5 DEF Val
<1>8. WellMade' /\ Abstract!Pushes(ValuesOf(stack), Abstract!int(AsInt(in)))
  BY <1>2, <1>6, <1>7, PushesInt
<1>9. Abstract!Read
  BY <1>2, <1>8 DEF Abstract!Read
<1>10. QED
  BY <1>8, <1>9 DEF Abstract!Next

LEMMA WriteImplements ==
  ASSUME WellMade, RT_WRITE
  PROVE  WellMade' /\ Abstract!Next
<1> DEFINE w == Arg(0)
           v == Abstract!Top(0)
           e == <<"write", UNBOX(BOX(UNBOX(w)))>>
<1>1. Ready(1) /\ Becomes(stack, heap, e)
  BY DEF RT_WRITE, Wrote, AsVal
<1>2. /\ Abstract!Has(1) /\ state = "running" /\ Made(stack, heap)
      /\ v = ValueOf(w) /\ IsWord(w, Len(heap))
  <2>1. 0 \in 0..(1 - 1)
    OBVIOUS
  <2>2. QED
    BY <1>1, <2>1, OperandsSeen
<1>3. WellMade' /\ Abstract!Becomes(ValuesOf(stack), CellsOf(heap), e)
  BY <1>1, <1>2, BecomesStep
<1> HIDE DEF w, v
<1>4. Abstract!IsInt(v) => UNBOX(BOX(UNBOX(w))) = v[2]
  <2>1. SUFFICES ASSUME UNBOXED(w) PROVE UNBOX(BOX(UNBOX(w))) = v[2]
    BY <1>2, WordSeen
  <2>2. v[2] = UNBOX(w) /\ UNBOX(w) \in Ints
    BY <1>2, <2>1, WordSeen
  <2>3. UNBOX(w) \in Int
    BY <2>2, HalfAssumption DEF Ints
  <2>4. QED
    BY <2>2, <2>3, Boxed, IntStays
<1>5. effect' = e /\ e # <<>> /\ e[1] = "write"
  BY <1>3 DEF Abstract!Becomes
<1>6. Abstract!Write
  <2>1. CASE Abstract!IsInt(v)
    <3>1. e = <<"write", v[2]>>
      BY <1>4, <2>1
    <3>2. QED
      BY <1>2, <1>3, <2>1, <3>1 DEF Abstract!Write, v
  <2>2. CASE ~ Abstract!IsInt(v)
    BY <1>2, <1>3, <1>5, <2>2 DEF Abstract!Write, v
  <2>3. QED
    BY <2>1, <2>2
<1>7. QED
  BY <1>3, <1>6 DEF Abstract!Next

LEMMA LengthImplements ==
  ASSUME WellMade, RT_LENGTH
  PROVE  WellMade' /\ Abstract!Next
<1> DEFINE w == Arg(0)
           v == Abstract!Top(0)
<1>1. Ready(1)
  BY DEF RT_LENGTH
<1>2. /\ Abstract!Has(1) /\ state = "running" /\ Made(Dropped(1), heap)
      /\ Abstract!Dropped(1) = ValuesOf(Dropped(1)) /\ v = ValueOf(w) /\ IsWord(w, Len(heap))
  <2>1. 0 \in 0..(1 - 1)
    OBVIOUS
  <2>2. QED
    BY <1>1, <2>1, OperandsSeen
<1>3. IF UNBOXED(w) THEN Ends("failed") ELSE Pushes(Dropped(1), BOX(Len(At(w).members)))
  BY DEF RT_LENGTH
<1> HIDE DEF w, v
<1>4. Abstract!IsInt(v) <=> UNBOXED(w)
  BY <1>2, WordSeen
<1>5. CASE UNBOXED(w)
  <2>1. WellMade' /\ Abstract!Stops("failed")
    BY <1>2, <1>3, <1>5, EndsStep
  <2>2. Abstract!Length
    BY <1>2, <1>4, <1>5, <2>1 DEF Abstract!Length, v
  <2>3. QED
    BY <2>1, <2>2 DEF Abstract!Next
<1>6. CASE ~ UNBOXED(w)
  <2> DEFINE n == Len(At(w).members)
  <2>1. IsObject(At(w), Len(heap)) /\ Abstract!Members(v) = CellOf(At(w)).members
    BY <1>2, <1>6, WordSeen, KindSeen
  <2>2. Abstract!Is(v, "CLOSURE") <=> At(w).type = "CLOSURE"
    BY <1>2, <1>6, KindSeen DEF IsA
  <2>3. n \in Int /\ n = Len(Abstract!Members(v)) + (IF Abstract!Is(v, "CLOSURE") THEN 1 ELSE 0)
    <3>1. n \in Nat /\ Len(CellOf(At(w)).members) \in Nat
      BY <2>1, LengthSeen, MembersSeen, ValuesSeq
    <3>2. CASE At(w).type = "CLOSURE"
      <4>1. n = Len(CellOf(At(w)).members) + 1 /\ Abstract!Is(v, "CLOSURE")
        BY <2>1, <2>2, <3>2, LengthSeen
      <4>2. QED
        BY <2>1, <3>1, <4>1
    <3>3. CASE At(w).type # "CLOSURE"
      <4>1. n = Len(CellOf(At(w)).members) /\ ~ Abstract!Is(v, "CLOSURE")
        BY <2>1, <2>2, <3>3, LengthSeen
      <4>2. QED
        BY <2>1, <3>1, <4>1
    <3>4. QED
      BY <3>2, <3>3
  <2>4. Pushes(Dropped(1), BOX(n))
    BY <1>3, <1>6
  <2> HIDE DEF n
  <2>5. WellMade' /\ Abstract!Pushes(Abstract!Dropped(1), Abstract!int(AsInt(n)))
    BY <1>2, <2>3, <2>4, PushesInt
  <2>6. Abstract!Length
    BY <1>2, <1>4, <1>6, <2>3, <2>5 DEF Abstract!Length, v
  <2>7. QED
    BY <2>5, <2>6 DEF Abstract!Next
<1>7. QED
  BY <1>5, <1>6

-----------------------------------------------------------------------------
(* STA and ELEM.                                                            *)

\* The member an index on the stack names.
LEMMA MemberSeen ==
  ASSUME WellMade, NEW x, IsWord(x, Len(heap)), ~ UNBOXED(x), NEW w, IsWord(w, Len(heap))
  PROVE  /\ ~ UNBOXED(w) => Abstract!Member(ValueOf(x), ValueOf(w)) = 0
         /\ UNBOXED(w) /\ UNBOX(w) \notin Indices(At(x))
              => Abstract!Member(ValueOf(x), ValueOf(w)) = 0
         /\ UNBOXED(w) /\ UNBOX(w) \in Indices(At(x))
              => /\ Abstract!Member(ValueOf(x), ValueOf(w))
                      = UNBOX(w) + (IF At(x).type = "CLOSURE" THEN 0 ELSE 1)
                 /\ Abstract!Member(ValueOf(x), ValueOf(w)) \in 1..Len(ValuesIn(At(x)))
<1> DEFINE r == ValueOf(x)
           v == ValueOf(w)
           o == At(x)
           i == UNBOX(w)
           j == i + (IF o.type = "CLOSURE" THEN 0 ELSE 1)
<1>1. IsObject(o, Len(heap)) /\ Abstract!Members(r) = CellOf(o).members
  BY WordSeen, KindSeen
<1>2. Abstract!Is(r, "CLOSURE") <=> o.type = "CLOSURE"
  BY KindSeen DEF IsA
<1>3. (Abstract!IsInt(v) <=> UNBOXED(w)) /\ (UNBOXED(w) => v[2] = i /\ i \in Ints)
  BY WordSeen
<1>4. i \in Ints => i \in Int
  BY HalfAssumption DEF Ints
<1> HIDE DEF r, v, o, i
<1>5. CASE ~ UNBOXED(w)
  <2>1. Abstract!Member(r, v) = 0
    BY <1>3, <1>5 DEF Abstract!Member
  <2>2. QED
    BY <1>5, <2>1 DEF r, v
<1>6. CASE UNBOXED(w)
  <2>1. i \in Int /\ j \in Int
    BY <1>3, <1>4, <1>6
  <2>2. v[2] + (IF Abstract!Is(r, "CLOSURE") THEN 0 ELSE 1) = j
    BY <1>2, <1>3, <1>6
  <2> HIDE DEF j
  <2>3. Abstract!Member(r, v) = IF j \in DOMAIN CellOf(o).members THEN j ELSE 0
    BY <1>1, <1>3, <1>6, <2>2 DEF Abstract!Member
  <2>4. /\ i \in Indices(o) <=> j \in DOMAIN CellOf(o).members
        /\ i \in Indices(o) => j \in 1..Len(ValuesIn(o))
    BY <1>1, <2>1, IndexSeen DEF j
  <2>5. QED
    BY <1>6, <2>3, <2>4 DEF r, v, o, i, j
<1>7. QED
  BY <1>5, <1>6

LEMMA ElemImplements ==
  ASSUME WellMade, MI_ELEM
  PROVE  WellMade' /\ Abstract!Next
<1> DEFINE w == Arg(0)
           a == Arg(1)
           s == Dropped(2)
           v == Abstract!Top(0)
           r == Abstract!Top(1)
<1>1. Ready(2)
  BY DEF MI_ELEM
<1>2. /\ Abstract!Has(2) /\ state = "running" /\ Made(s, heap) /\ Abstract!Dropped(2) = ValuesOf(s)
      /\ v = ValueOf(w) /\ IsWord(w, Len(heap)) /\ r = ValueOf(a) /\ IsWord(a, Len(heap))
  <2>1. 0 \in 0..(2 - 1) /\ 1 \in 0..(2 - 1)
    OBVIOUS
  <2>2. QED
    BY <1>1, <2>1, OperandsSeen
<1>3. IF UNBOXED(a) THEN Ends("failed")
      ELSE IF ~ UNBOXED(w) \/ UNBOX(w) \notin Indices(At(a)) THEN Ends("strayed")
      ELSE Pushes(s, Belem(At(a), UNBOX(w)))
  BY DEF MI_ELEM, AsVal
<1> HIDE DEF w, a, s, v, r
<1>4. Abstract!IsInt(r) <=> UNBOXED(a)
  BY <1>2, WordSeen
<1>5. CASE UNBOXED(a)
  <2>1. WellMade' /\ Abstract!Stops("failed")
    BY <1>2, <1>3, <1>5, EndsStep
  <2>2. Abstract!Elem
    BY <1>2, <1>4, <1>5, <2>1 DEF Abstract!Elem, r
  <2>3. QED
    BY <2>1, <2>2 DEF Abstract!Next
<1>6. CASE ~ UNBOXED(a) /\ (~ UNBOXED(w) \/ UNBOX(w) \notin Indices(At(a)))
  <2>1. WellMade' /\ Abstract!Stops("strayed")
    BY <1>2, <1>3, <1>6, EndsStep
  <2>2. Abstract!Member(r, v) = 0
    BY <1>2, <1>6, MemberSeen
  <2>3. Abstract!Elem
    BY <1>2, <1>4, <1>6, <2>1, <2>2 DEF Abstract!Elem, r, v
  <2>4. QED
    BY <2>1, <2>3 DEF Abstract!Next
<1>7. CASE ~ UNBOXED(a) /\ UNBOXED(w) /\ UNBOX(w) \in Indices(At(a))
  <2> DEFINE o == At(a)
             i == UNBOX(w)
             j == Abstract!Member(r, v)
             m == Abstract!Members(r)
             found == IF Abstract!Is(r, "STRING") THEN Abstract!int(m[j][2]) ELSE m[j]
  <2>1. j = i + (IF o.type = "CLOSURE" THEN 0 ELSE 1) /\ j \in 1..Len(ValuesIn(o))
    BY <1>2, <1>7, MemberSeen
  <2>2. i \in Int
    BY <1>2, <1>7, WordSeen, HalfAssumption DEF Ints
  <2>3. IsObject(o, Len(heap)) /\ m = CellOf(o).members
    BY <1>2, <1>7, WordSeen, KindSeen
  <2>4. Abstract!Is(r, "STRING") <=> o.type = "STRING"
    BY <1>2, <1>7, KindSeen DEF IsA
  <2>5. o.members[i + 1] = ValuesIn(o)[j]
    BY <1>7, <2>1, <2>2, <2>3, IndexSeen
  <2>6. /\ o.type = "STRING" => /\ ValuesIn(o)[j] \in Characters
                                /\ m[j] = Abstract!char(ValuesIn(o)[j])
        /\ o.type # "STRING" => /\ IsWord(ValuesIn(o)[j], Len(heap))
                                /\ m[j] = ValueOf(ValuesIn(o)[j])
    <3> HIDE DEF o, i, j, m
    <3>1. \A k \in 1..Len(ValuesIn(o)) :
            /\ o.type = "STRING" => /\ ValuesIn(o)[k] \in Characters
                                    /\ CellOf(o).members[k] = Abstract!char(ValuesIn(o)[k])
            /\ o.type # "STRING" => /\ IsWord(ValuesIn(o)[k], Len(heap))
                                    /\ CellOf(o).members[k] = ValueOf(ValuesIn(o)[k])
      BY <2>3, MembersSeen
    <3>2. QED
      BY <2>1, <2>3, <3>1
  <2>7. j # 0
    BY <2>1, <2>3, ValuesSeq
  <2>8. Pushes(s, Belem(o, i))
    BY <1>3, <1>7
  <2> HIDE DEF o, i, j, m
  <2>9. WellMade' /\ Abstract!Pushes(ValuesOf(s), found)
    <3>1. CASE o.type = "STRING"
      <4> DEFINE c == ValuesIn(o)[j]
      <4>1. c \in Int /\ AsInt(c) = c /\ m[j][2] = c
        <5>1. c \in Ints /\ c \in Int
          BY <2>6, <3>1, HalfAssumption DEF Characters, Ints
        <5>2. m[j][2] = c
          BY <2>6, <3>1 DEF Abstract!char
        <5>3. QED
          BY <5>1, <5>2, IntStays
      <4>2. Pushes(s, BOX(c))
        BY <2>5, <2>8, <3>1 DEF Belem
      <4> HIDE DEF c
      <4>3. WellMade' /\ Abstract!Pushes(ValuesOf(s), Abstract!int(c))
        BY <1>2, <4>1, <4>2, PushesInt
      <4>4. found = Abstract!int(c)
        BY <2>4, <3>1, <4>1
      <4>5. QED
        BY <4>3, <4>4
    <3>2. CASE o.type # "STRING"
      <4>1. Pushes(s, ValuesIn(o)[j])
        BY <2>5, <2>8, <3>2 DEF Belem
      <4>2. WellMade' /\ Abstract!Pushes(ValuesOf(s), ValueOf(ValuesIn(o)[j]))
        BY <1>2, <2>6, <3>2, <4>1, PushesStep
      <4>3. found = ValueOf(ValuesIn(o)[j])
        BY <2>4, <2>6, <3>2
      <4>4. QED
        BY <4>2, <4>3
    <3>3. QED
      BY <3>1, <3>2
  <2>10. Abstract!Elem
    BY <1>2, <1>4, <1>7, <2>7, <2>9 DEF Abstract!Elem, m, j, v, r
  <2>11. QED
    BY <2>9, <2>10 DEF Abstract!Next
<1>8. QED
  BY <1>5, <1>6, <1>7

\* An object is replaced.
LEMMA CellsStored ==
  ASSUME NEW h \in Seq(Objects), NEW k \in 1..Len(h), NEW o \in Objects
  PROVE  /\ CellsOf([h EXCEPT ![k] = o]) = [CellsOf(h) EXCEPT ![k] = CellOf(o)]
         /\ [h EXCEPT ![k] = o] \in Seq(Objects) /\ Len([h EXCEPT ![k] = o]) = Len(h)
<1> DEFINE g == [h EXCEPT ![k] = o]
           c == CellsOf(h)
<1>1. /\ g \in Seq(Objects) /\ Len(g) = Len(h)
      /\ \A i \in 1..Len(h) : g[i] = IF i = k THEN o ELSE h[i]
  BY ExceptSeq
<1>2. CellsOf(g) = [i \in 1..Len(h) |-> CellOf(g[i])]
  BY <1>1, CellsSeen
<1>3. c = [i \in 1..Len(h) |-> c[i]] /\ \A i \in 1..Len(h) : c[i] = CellOf(h[i])
  BY CellsSeen
<1> HIDE DEF g, c
<1>4. [c EXCEPT ![k] = CellOf(o)] = [i \in 1..Len(h) |-> IF i = k THEN CellOf(o) ELSE c[i]]
  BY <1>3
<1>5. \A i \in 1..Len(h) : CellOf(g[i]) = IF i = k THEN CellOf(o) ELSE c[i]
  BY <1>1, <1>3
<1>6. CellsOf(g) = [c EXCEPT ![k] = CellOf(o)]
  BY <1>2, <1>4, <1>5
<1>7. QED
  BY <1>1, <1>6 DEF g, c

LEMMA MadeStored ==
  ASSUME NEW s, NEW h, Made(s, h), NEW k \in 1..Len(h), NEW o, IsObject(o, Len(h))
  PROVE  Made(s, [h EXCEPT ![k] = o])
<1> DEFINE g == [h EXCEPT ![k] = o]
<1>1. h \in Seq(Objects) /\ o \in Objects
  BY DEF Made, IsObject
<1>2. /\ g \in Seq(Objects) /\ Len(g) = Len(h) /\ DOMAIN h = 1..Len(h)
      /\ \A i \in 1..Len(h) : g[i] = IF i = k THEN o ELSE h[i]
  BY <1>1, ExceptSeq, SequenceEntries
<1>3. DOMAIN g = 1..Len(h)
  BY <1>2, SequenceEntries
<1> HIDE DEF g
<1>4. ASSUME NEW i \in DOMAIN g
      PROVE  IsObject(g[i], Len(g))
  <2>1. i \in DOMAIN h /\ (i # k => g[i] = h[i]) /\ (i = k => g[i] = o)
    BY <1>2, <1>3
  <2>2. IsObject(h[i], Len(h))
    BY <2>1 DEF Made
  <2>3. QED
    BY <1>2, <2>1, <2>2
<1>5. QED
  BY <1>2, <1>4 DEF Made, g

\* An integer becomes a character.
LEMMA CharStored ==
  ASSUME NEW x \in Int
  PROVE  AsChar(x) \in Characters /\ AsChar(x) \in Int
BY DEF AsChar, Characters

\* Bsta leaves an object well made, and a cell with one member replaced.
LEMMA StoredSeen ==
  ASSUME NEW n, NEW o, IsObject(o, n), NEW i \in Int, i \in Indices(o), NEW w, IsWord(w, n),
         NEW j, j = i + (IF o.type = "CLOSURE" THEN 0 ELSE 1),
         NEW kept, kept = IF o.type = "STRING" THEN Abstract!char(AsChar(UNBOX(w))) ELSE ValueOf(w)
  PROVE  /\ IsObject(Stored(o, i, w), n)
         /\ CellOf(Stored(o, i, w)) = [CellOf(o) EXCEPT !.members[j] = kept]
<1> DEFINE c == IF o.type = "STRING" THEN AsChar(UNBOX(w)) ELSE w
           p == Stored(o, i, w)
           v == ValuesIn(o)
           u == ValuesIn(p)
<1>1. /\ o \in Objects /\ v \in Seq(Int) /\ Len(v) \in Nat /\ o.members \in Seq(Int)
      /\ o.type # "CLOSURE" => v = o.members
      /\ o.type = "CLOSURE" => /\ Len(o.members) = Len(v) + 1
                               /\ \A k \in 1..Len(v) : v[k] = o.members[k + 1]
  BY ValuesSeq
<1>2. j \in 1..Len(v) /\ i + 1 \in 1..Len(o.members)
  BY IndexSeen
<1>3. /\ c \in Int /\ w \in AllWords /\ AsChar(UNBOX(w)) \in Characters
  <2>1. w \in AllWords /\ w \in Int /\ UNBOX(w) \in Int
    BY WordParts DEF IsWord
  <2>2. QED
    BY <2>1, CharStored
<1>4. p = [type |-> o.type, tag |-> o.tag, members |-> [o.members EXCEPT ![i + 1] = c]]
  <2>1. o = [type |-> o.type, tag |-> o.tag, members |-> o.members]
    BY <1>1 DEF Objects
  <2>2. p = [o EXCEPT !.members = [o.members EXCEPT ![i + 1] = c]]
    BY <2>1 DEF Stored
  <2> HIDE DEF c, p
  <2>3. QED
    BY <2>1, <2>2
<1> HIDE DEF c
<1>5. p.type = o.type /\ p.tag = o.tag /\ p.members = [o.members EXCEPT ![i + 1] = c]
  BY <1>4
<1>6. /\ p.members \in Seq(Int) /\ Len(p.members) = Len(o.members)
      /\ \A k \in 1..Len(o.members) : p.members[k] = IF k = i + 1 THEN c ELSE o.members[k]
  BY <1>1, <1>2, <1>3, <1>5, ExceptSeq
<1>7. p \in Objects
  BY <1>1, <1>4, <1>5, <1>6 DEF Objects
<1> HIDE DEF p
<1>8. Len(o.members) \in Nat /\ Len(p.members) # 0
  BY <1>1, <1>2, <1>6, SequenceEntries
<1>9. p.members # <<>>
  BY <1>8, EmptySeq
<1>10. /\ u \in Seq(Int) /\ Len(u) \in Nat
       /\ p.type # "CLOSURE" => u = p.members
       /\ p.type = "CLOSURE" => /\ Len(p.members) = Len(u) + 1
                                /\ \A k \in 1..Len(u) : u[k] = p.members[k + 1]
  BY <1>7, <1>9, ValuesPart
<1> HIDE DEF u, v
<1>11. Len(u) = Len(v) /\ DOMAIN u = 1..Len(v) /\ \A k \in 1..Len(v) : u[k] = IF k = j THEN c ELSE v[k]
  <2>1. DOMAIN u = 1..Len(u)
    BY <1>10, SequenceEntries
  <2>2. CASE o.type = "CLOSURE"
    <3>1. Len(u) = Len(v) /\ j = i
      BY <1>1, <1>5, <1>6, <1>10, <2>2
    <3>2. ASSUME NEW k \in 1..Len(v)
          PROVE  u[k] = IF k = j THEN c ELSE v[k]
      <4>1. u[k] = p.members[k + 1] /\ v[k] = o.members[k + 1] /\ k + 1 \in 1..Len(o.members)
        BY <1>1, <1>5, <1>10, <2>2, <3>1
      <4>2. k + 1 = i + 1 <=> k = j
        BY <3>1
      <4>3. QED
        BY <1>6, <4>1, <4>2
    <3>3. QED
      BY <2>1, <3>1, <3>2
  <2>3. CASE o.type # "CLOSURE"
    <3>1. u = p.members /\ v = o.members /\ j = i + 1
      BY <1>1, <1>5, <1>10, <2>3
    <3>2. QED
      BY <1>6, <2>1, <3>1
  <2>4. QED
    BY <2>2, <2>3
<1>12. \A k \in 1..Len(v) : IF o.type = "STRING" THEN v[k] \in Characters ELSE IsWord(v[k], n)
  BY MembersSeen DEF v
<1>13. IF o.type = "STRING" THEN c \in Characters ELSE IsWord(c, n)
  BY <1>3 DEF c
<1>14. IsObject(p, n)
  <2>1. ASSUME NEW k \in DOMAIN u
        PROVE  IF p.type = "STRING" THEN u[k] \in Characters ELSE IsWord(u[k], n)
    BY <1>5, <1>11, <1>12, <1>13
  <2>2. p.type = "SEXP" => \E t \in Tags : ~ TagFails(t) /\ p.tag = LtagHash(t)
    BY <1>5 DEF IsObject
  <2>3. p.type = "CLOSURE" => p.members[1] \in 0..(Half - 1)
    <3>1. SUFFICES ASSUME o.type = "CLOSURE" PROVE p.members[1] \in 0..(Half - 1)
      BY <1>5
    <3>2. 1 # i + 1 /\ 1 \in 1..Len(o.members)
      BY <1>2, <3>1 DEF Indices
    <3>3. p.members[1] = o.members[1]
      BY <1>6, <3>2
    <3>4. QED
      BY <3>1, <3>3 DEF IsObject
  <2>4. p.type # "STRING" => Len(p.members) < Half
    BY <1>5, <1>6 DEF IsObject
  <2>5. QED
    BY <1>7, <1>9, <2>1, <2>2, <2>3, <2>4 DEF IsObject, u
<1> DEFINE a == CellOf(o)
           b == CellOf(p)
<1>15. /\ a = [type |-> o.type, name |-> a.name, members |-> a.members]
       /\ b = [type |-> p.type, name |-> b.name, members |-> b.members]
  BY <1>1, <1>7, CellSeen
<1>16. b.name = a.name
  <2>1. o.type \in {"STRING", "ARRAY", "SEXP", "CLOSURE"}
    BY <1>1 DEF Objects
  <2>2. CASE o.type = "CLOSURE"
    <3>1. 1 \in 1..Len(o.members) /\ 1 # i + 1
      BY <1>1, <1>2, <2>2
    <3>2. p.members[1] = o.members[1]
      BY <1>6, <3>1
    <3>3. QED
      BY <1>5, <2>2, <3>2 DEF CellOf
  <2>3. CASE o.type # "CLOSURE"
    BY <1>5, <2>1, <2>3 DEF CellOf
  <2>4. QED
    BY <2>2, <2>3
<1>17. /\ a.members = [k \in 1..Len(v) |-> a.members[k]]
       /\ b.members = [k \in 1..Len(v) |-> b.members[k]]
       /\ \A k \in 1..Len(v) : /\ o.type = "STRING" => a.members[k] = Abstract!char(v[k])
                               /\ o.type # "STRING" => a.members[k] = ValueOf(v[k])
       /\ \A k \in 1..Len(v) : /\ o.type = "STRING" => b.members[k] = Abstract!char(u[k])
                               /\ o.type # "STRING" => b.members[k] = ValueOf(u[k])
  <2>1. /\ a.members = [k \in 1..Len(v) |-> a.members[k]]
        /\ \A k \in 1..Len(v) : /\ o.type = "STRING" => a.members[k] = Abstract!char(v[k])
                                /\ o.type # "STRING" => a.members[k] = ValueOf(v[k])
    BY MembersSeen DEF v
  <2>2. /\ b.members = [k \in 1..Len(u) |-> b.members[k]]
        /\ \A k \in 1..Len(u) : /\ p.type = "STRING" => b.members[k] = Abstract!char(u[k])
                                /\ p.type # "STRING" => b.members[k] = ValueOf(u[k])
    BY <1>14, MembersSeen DEF u
  <2>3. QED
    BY <1>5, <1>11, <2>1, <2>2
<1>18. kept = IF o.type = "STRING" THEN Abstract!char(c) ELSE ValueOf(c)
  BY DEF c
<1> HIDE DEF a, b
<1>19. ASSUME NEW k \in 1..Len(v)
       PROVE  b.members[k] = IF k = j THEN kept ELSE a.members[k]
  <2>1. CASE k = j
    BY <1>11, <1>17, <1>18, <2>1
  <2>2. CASE k # j
    BY <1>11, <1>17, <2>2
  <2>3. QED
    BY <2>1, <2>2
<1>20. b.members = [a.members EXCEPT ![j] = kept]
  <2>1. [a.members EXCEPT ![j] = kept] = [k \in 1..Len(v) |-> IF k = j THEN kept ELSE a.members[k]]
    BY <1>17
  <2>2. QED
    BY <1>17, <1>19, <2>1
<1>21. [a EXCEPT !.members[j] = kept]
         = [type |-> o.type, name |-> a.name, members |-> [a.members EXCEPT ![j] = kept]]
  BY <1>15
<1>22. b = [a EXCEPT !.members[j] = kept]
  BY <1>5, <1>15, <1>16, <1>20, <1>21
<1>23. QED
  BY <1>14, <1>22 DEF a, b, p

\* A cell without members.
LEMMA NoMembers ==
  ASSUME NEW n, NEW o, IsObject(o, n)
  PROVE  CellOf(o).members # <<>> <=> Len(ValuesIn(o)) # 0
<1> DEFINE m == CellOf(o).members
           k == Len(ValuesIn(o))
<1>1. k \in Nat /\ Len(m) = k /\ m = [j \in 1..k |-> m[j]]
  BY ValuesSeq, MembersSeen
<1> HIDE DEF m, k
<1>2. m \in Seq({m[j] : j \in 1..k})
  BY <1>1, Entries
<1>3. m # <<>> => Len(m) \in Nat \ {0}
  BY <1>2, EmptySeq
<1>4. m = <<>> => Len(m) = 0
  BY EmptySeq
<1>5. QED
  BY <1>1, <1>3, <1>4 DEF m, k

\* STA on an object that has the member.
LEMMA StoreStep ==
  ASSUME WellMade, Ready(3), NEW x, IsWord(x, Len(heap)), ~ UNBOXED(x),
         NEW w, IsWord(w, Len(heap)), NEW i \in Int, i \in Indices(At(x)),
         NEW j, j = i + (IF At(x).type = "CLOSURE" THEN 0 ELSE 1),
         NEW s, Made(s, heap),
         Becomes(Append(s, BOX(w)), [heap EXCEPT ![x \div 2] = Stored(@, i, w)], NoEffect)
  PROVE  /\ WellMade'
         /\ CellsOf(heap)' = [CellsOf(heap) EXCEPT ![x \div 2].members[j]
                                = CellsOf(heap)'[x \div 2].members[j]]
         /\ CellsOf(heap)'[x \div 2].members[j]
              = IF At(x).type = "STRING" THEN Abstract!char(AsChar(UNBOX(w))) ELSE ValueOf(w)
         /\ Abstract!Becomes(Append(ValuesOf(s), Abstract!int(AsInt(w))), CellsOf(heap)', <<>>)
         /\ Len(ValuesOf(stack)') = Len(ValuesOf(s)) + 1
         /\ ValuesOf(stack)'[Len(ValuesOf(s)) + 1] = Abstract!int(AsInt(w))
<1> DEFINE k == x \div 2
           o == At(x)
           p == Stored(o, i, w)
           h == [heap EXCEPT ![k] = p]
           c == CellsOf(heap)
           kept == IF o.type = "STRING" THEN Abstract!char(AsChar(UNBOX(w))) ELSE ValueOf(w)
<1>1. /\ k \in 1..Len(heap) /\ IsObject(o, Len(heap)) /\ c[k] = CellOf(o) /\ o \in Objects
      /\ heap[k] = o
  BY WordSeen DEF At
<1>2. state = "running" /\ heap \in Seq(Objects) /\ s \in Seq(Int) /\ w \in Int
  BY WordSeen DEF WellMade, Made, Ready
<1>3. Becomes(Append(s, BOX(w)), h, NoEffect)
  BY <1>1
<1>4. IsObject(p, Len(heap)) /\ CellOf(p) = [CellOf(o) EXCEPT !.members[j] = kept] /\ p \in Objects
  <2>1. IsObject(p, Len(heap)) /\ CellOf(p) = [CellOf(o) EXCEPT !.members[j] = kept]
    BY <1>1, StoredSeen
  <2>2. QED
    BY <2>1 DEF IsObject
<1>5. j \in DOMAIN CellOf(o).members
  BY <1>1, IndexSeen
<1> HIDE DEF k, o, p, c, kept
<1>6. CellsOf(h) = [c EXCEPT ![k] = CellOf(p)] /\ Len(h) = Len(heap)
  <2>1. heap \in Seq(Objects) /\ k \in 1..Len(heap) /\ p \in Objects
    BY <1>1, <1>2, <1>4
  <2>2. QED
    BY <2>1, CellsStored DEF c
<1>7. DOMAIN c = 1..Len(heap)
  BY <1>2, CellsSeen DEF c
<1>8. CellOf(o) = [type |-> o.type, name |-> CellOf(o).name, members |-> CellOf(o).members]
  BY <1>1, CellSeen
<1>9. CellOf(p).members = [CellOf(o).members EXCEPT ![j] = kept]
  BY <1>4, <1>8
<1>10. CellsOf(h)[k] = CellOf(p) /\ CellOf(p).members[j] = kept
  <2>1. CellsOf(h)[k] = CellOf(p)
    BY <1>1, <1>6, <1>7
  <2>2. CellOf(p).members[j] = kept
    BY <1>5, <1>9
  <2>3. QED
    BY <2>1, <2>2
<1>11. CellsOf(h) = [c EXCEPT ![k].members[j] = kept]
  <2>1. [c EXCEPT ![k].members[j] = kept] = [c EXCEPT ![k] = [c[k] EXCEPT !.members[j] = kept]]
    OBVIOUS
  <2>2. QED
    BY <1>1, <1>4, <1>6, <2>1
<1>12. Made(Append(s, BOX(w)), h)
  <2>1. Made(s, h)
    BY <1>1, <1>4, MadeStored
  <2>2. IsWord(BOX(w), Len(h))
    BY <1>2, IntIsWord
  <2> HIDE DEF h
  <2>3. QED
    BY <2>1, <2>2, MadeAppended
<1> HIDE DEF h
<1>13. WellMade' /\ Abstract!Becomes(ValuesOf(Append(s, BOX(w))), CellsOf(h), NoEffect)
  BY <1>2, <1>3, <1>12, BecomesStep
<1>14. ValuesOf(Append(s, BOX(w))) = Append(ValuesOf(s), Abstract!int(AsInt(w)))
  BY <1>2, IntIsWord, ValuesAppended
<1>15. CellsOf(heap)' = CellsOf(h)
  BY <1>13 DEF Abstract!Becomes
<1>16. Abstract!Becomes(Append(ValuesOf(s), Abstract!int(AsInt(w))), CellsOf(heap)', <<>>)
  BY <1>13, <1>14, <1>15 DEF NoEffect
<1>17. /\ Len(ValuesOf(stack)') = Len(ValuesOf(s)) + 1
       /\ ValuesOf(stack)'[Len(ValuesOf(s)) + 1] = Abstract!int(AsInt(w))
  BY <1>2, <1>16, OneMore
<1>18. CellsOf(heap)'[k].members[j] = kept
  BY <1>10, <1>15
<1>19. CellsOf(heap)' = [c EXCEPT ![k].members[j] = CellsOf(heap)'[k].members[j]]
  BY <1>11, <1>15, <1>18
<1>20. QED
  BY <1>13, <1>16, <1>17, <1>18, <1>19 DEF k, o, c, kept

LEMMA StaImplements ==
  ASSUME WellMade, MI_STA
  PROVE  WellMade' /\ Abstract!Next
<1> DEFINE w == Arg(0)
           y == Arg(1)
           x == Arg(2)
           s == Dropped(3)
           v == Abstract!Top(0)
           q == Abstract!Top(1)
           r == Abstract!Top(2)
           i == IF UNBOXED(y) THEN UNBOX(y) ELSE 0
           away == i \notin Indices(At(x)) \/ (~ UNBOXED(y) /\ At(x).type # "ARRAY")
<1>1. Ready(3)
  BY DEF MI_STA
<1>2. /\ Abstract!Has(3) /\ state = "running" /\ Made(s, heap) /\ Abstract!Dropped(3) = ValuesOf(s)
      /\ v = ValueOf(w) /\ IsWord(w, Len(heap)) /\ q = ValueOf(y) /\ IsWord(y, Len(heap))
      /\ r = ValueOf(x) /\ IsWord(x, Len(heap))
  <2>1. 0 \in 0..(3 - 1) /\ 1 \in 0..(3 - 1) /\ 2 \in 0..(3 - 1)
    OBVIOUS
  <2>2. QED
    BY <1>1, <2>1, OperandsSeen
<1>3. IF UNBOXED(x) THEN Ends(IF UNBOXED(y) THEN "failed" ELSE "strayed")
      ELSE IF away THEN Ends("strayed")
      ELSE Becomes(Append(s, BOX(w)), [heap EXCEPT ![x \div 2] = Stored(@, i, w)], NoEffect)
  BY DEF MI_STA, Val
<1> HIDE DEF w, y, x, s, v, q, r
<1>4. /\ Abstract!IsInt(r) <=> UNBOXED(x)
      /\ Abstract!IsInt(q) <=> UNBOXED(y)
      /\ Abstract!IsRef(q) <=> ~ UNBOXED(y)
      /\ Abstract!IsInt(v) <=> UNBOXED(w)
  BY <1>2, WordSeen
<1>5. CASE UNBOXED(x)
  <2> DEFINE how == IF UNBOXED(y) THEN "failed" ELSE "strayed"
  <2>1. how \in {"failed", "strayed"} /\ Ends(how)
    BY <1>3, <1>5
  <2>2. how = IF Abstract!IsInt(q) THEN "failed" ELSE "strayed"
    BY <1>4
  <2> HIDE DEF how
  <2>3. WellMade' /\ Abstract!Stops(how)
    BY <1>2, <2>1, EndsStep
  <2>4. Abstract!Store
    BY <1>2, <1>4, <1>5, <2>2, <2>3 DEF Abstract!Store, q, r
  <2>5. QED
    BY <2>3, <2>4 DEF Abstract!Next
<1>6. CASE ~ UNBOXED(x)
  <2> DEFINE o == At(x)
             member == Abstract!Member(r, q)
             d == IF o.type = "CLOSURE" THEN 0 ELSE 1
             j == i + d
             first == ~ UNBOXED(y) /\ o.type = "ARRAY" /\ Len(ValuesIn(o)) # 0
  <2>1. /\ ~ UNBOXED(y) => member = 0
        /\ UNBOXED(y) /\ UNBOX(y) \notin Indices(o) => member = 0
        /\ UNBOXED(y) /\ UNBOX(y) \in Indices(o)
             => member = UNBOX(y) + d /\ member \in 1..Len(ValuesIn(o))
    BY <1>2, <1>6, MemberSeen
  <2>2. IsObject(o, Len(heap)) /\ Abstract!Members(r) = CellOf(o).members /\ Len(ValuesIn(o)) \in Nat
    <3>1. IsObject(o, Len(heap)) /\ Abstract!Members(r) = CellOf(o).members
      BY <1>2, <1>6, WordSeen, KindSeen
    <3>2. QED
      BY <3>1, ValuesSeq
  <2>3. Abstract!FirstIsMeant <=> first
    <3>1. Abstract!Is(r, "ARRAY") <=> o.type = "ARRAY"
      BY <1>2, <1>6, KindSeen DEF IsA
    <3>2. CellOf(o).members # <<>> <=> Len(ValuesIn(o)) # 0
      BY <2>2, NoMembers
    <3>3. Abstract!FirstIsMeant
            <=> Abstract!IsRef(q) /\ Abstract!Is(r, "ARRAY") /\ Abstract!Members(r) # <<>>
      BY DEF Abstract!FirstIsMeant, q, r
    <3>4. QED
      BY <1>4, <2>2, <3>1, <3>2, <3>3
  <2>4. i \in Int
    <3>1. UNBOXED(y) => UNBOX(y) \in Ints
      BY <1>2, WordSeen
    <3>2. QED
      BY <3>1, HalfAssumption DEF Ints
  <2>5. o.type = "ARRAY" => (0 \in Indices(o) <=> Len(ValuesIn(o)) # 0)
    <3>1. o.type = "ARRAY" => Indices(o) = 0..(Len(ValuesIn(o)) - 1)
      BY <2>2, ValuesSeq DEF Indices
    <3>2. QED
      BY <2>2, <3>1
  <2>6. away <=> member = 0 /\ ~ first
    <3>1. CASE UNBOXED(y)
      <4>1. i = UNBOX(y) /\ ~ first
        BY <3>1
      <4>2. member = 0 <=> UNBOX(y) \notin Indices(o)
        BY <2>1, <2>2, <3>1
      <4>3. QED
        BY <3>1, <4>1, <4>2
    <3>2. CASE ~ UNBOXED(y)
      <4>1. i = 0 /\ member = 0
        BY <2>1, <3>2
      <4>2. QED
        BY <2>5, <3>2, <4>1
    <3>3. QED
      BY <3>1, <3>2
  <2>7. CASE away
    <3>1. WellMade' /\ Abstract!Stops("strayed")
      BY <1>2, <1>3, <1>6, <2>7, EndsStep
    <3>2. Abstract!Member(r, q) = 0 /\ ~ Abstract!FirstIsMeant
      BY <2>3, <2>6, <2>7
    <3>3. Abstract!Store
      BY <1>2, <1>4, <1>6, <3>1, <3>2 DEF Abstract!Store, q, r
    <3>4. QED
      BY <3>1, <3>3 DEF Abstract!Next
  <2>8. CASE ~ away
    <3> DEFINE c == CellsOf(heap)
               new == CellsOf(heap)'
               k == x \div 2
               box == Abstract!int(AsInt(w))
    <3>1. i \in Indices(o)
      BY <2>8
    <3>2. Becomes(Append(s, BOX(w)), [heap EXCEPT ![k] = Stored(@, i, w)], NoEffect)
      BY <1>3, <1>6, <2>8
    <3>3. /\ WellMade'
          /\ new = [c EXCEPT ![k].members[j] = new[k].members[j]]
          /\ new[k].members[j]
               = IF o.type = "STRING" THEN Abstract!char(AsChar(UNBOX(w))) ELSE ValueOf(w)
          /\ Abstract!Becomes(Append(ValuesOf(s), box), new, <<>>)
          /\ Len(ValuesOf(stack)') = Len(ValuesOf(s)) + 1
          /\ ValuesOf(stack)'[Len(ValuesOf(s)) + 1] = box
      <4>1. j = i + (IF At(x).type = "CLOSURE" THEN 0 ELSE 1)
        OBVIOUS
      <4> HIDE DEF i, j
      <4>2. QED
        BY <1>1, <1>2, <1>6, <2>4, <3>1, <3>2, <4>1, StoreStep
    <3>4. r[2] = k
      BY <1>2, <1>6, WordSeen
    <3>5. j = IF Abstract!FirstIsMeant THEN 1 ELSE member
      <4>1. CASE UNBOXED(y)
        BY <2>1, <2>3, <3>1, <4>1
      <4>2. CASE ~ UNBOXED(y)
        <5>1. first /\ i = 0 /\ d = 1
          BY <2>1, <2>6, <2>8, <4>2
        <5>2. QED
          BY <2>3, <5>1
      <4>3. QED
        BY <4>1, <4>2
    <3>6. Abstract!Is(r, "STRING") <=> o.type = "STRING"
      BY <1>2, <1>6, KindSeen DEF IsA
    <3>7. ~ (Abstract!Member(r, q) = 0 /\ ~ Abstract!FirstIsMeant)
      BY <2>3, <2>6, <2>8
    <3> DEFINE string == Abstract!Is(r, "STRING")
               kept == IF string THEN new[k].members[j] ELSE v
    <3>8. kept = new[k].members[j]
      BY <1>2, <3>3, <3>6
    <3>9. UNBOXED(w) => v[2] = UNBOX(w) /\ w = 2 * v[2] + 1
      BY <1>2, WordSeen
    <3>10. string /\ Abstract!IsInt(v) => kept = Abstract!char(AsChar(v[2]))
      BY <1>4, <3>3, <3>6, <3>9
    <3>11. box = IF Abstract!IsInt(v) THEN Abstract!int(AsInt(2 * v[2] + 1))
                 ELSE Abstract!int(ValuesOf(stack)'[Len(ValuesOf(s)) + 1][2])
      <4>1. box[2] = AsInt(w)
        BY DEF Abstract!int
      <4>2. QED
        BY <1>4, <3>3, <3>9, <4>1
    <3> HIDE DEF j, member, box, new, kept, k
    <3>12. new = [c EXCEPT ![k].members[j] = kept]
      BY <3>3, <3>8
    <3>13. /\ ValuesOf(stack)' = Append(ValuesOf(s), box) /\ effect' = <<>>
           /\ (IF state = "printing" THEN "running" ELSE state)'
                = IF state = "printing" THEN "running" ELSE state
      BY <3>3 DEF Abstract!Becomes
    <3>14. Abstract!Store
      BY <1>2, <1>4, <1>6, <3>3, <3>4, <3>5, <3>7, <3>10, <3>11, <3>12, <3>13
         DEF Abstract!Store, q, r, v, member, new, kept
    <3>15. QED
      BY <3>3, <3>14 DEF Abstract!Next
  <2>9. QED
    BY <2>7, <2>8
<1>7. QED
  BY <1>5, <1>6

-----------------------------------------------------------------------------
(* Sequences put together.                                                   *)

\* FlattenSeq puts the sequences together from the first one on.
FlatDomain(seqs) == 1..Len(seqs)
FlatStep(seqs, i, flatten) == IF i = 1 THEN seqs[i] ELSE flatten[i - 1] \o seqs[i]
Flat == INSTANCE Recursion WITH Dom <- FlatDomain, G <- FlatStep

LEMMA FlatUnfolds ==
  ASSUME NEW S, NEW s \in Seq(Seq(S))
  PROVE  /\ s = <<>> => FlattenSeq(s) = <<>>
         /\ s # <<>> => FlattenSeq(s) = Flat!Defined(s)[Len(s)]
         /\ \A i \in 1..Len(s) :
              /\ Flat!Defined(s)[i] = IF i = 1 THEN s[1] ELSE Flat!Defined(s)[i - 1] \o s[i]
              /\ Flat!Defined(s)[i] \in Seq(S)
<1> DEFINE f == Flat!Defined(s)
<1>1. Len(s) \in Nat /\ \A i \in 1..Len(s) : s[i] \in Seq(S)
  BY SequenceEntries
<1>2. Flat!Looks(s)
  <2>1. FlatDomain(s) \subseteq Nat
    BY DEF FlatDomain
  <2>2. ASSUME NEW n \in FlatDomain(s), NEW g, NEW h,
               \A i \in FlatDomain(s) : i < n => g[i] = h[i]
        PROVE  FlatStep(s, n, g) = FlatStep(s, n, h)
    <3>1. n # 1 => n - 1 \in FlatDomain(s) /\ n - 1 < n
      BY <1>1 DEF FlatDomain
    <3>2. QED
      BY <2>2, <3>1 DEF FlatStep
  <2>3. QED
    BY <2>1, <2>2 DEF Flat!Looks
<1>3. f = [i \in 1..Len(s) |-> IF i = 1 THEN s[i] ELSE f[i - 1] \o s[i]]
  <2>1. f = [i \in FlatDomain(s) |-> FlatStep(s, i, f)]
    BY <1>2, Flat!Unfolds
  <2> HIDE DEF f
  <2>2. QED
    BY <2>1 DEF FlatDomain, FlatStep
<1>4. Len(s) # 0 => FlattenSeq(s) = f[Len(s)]
  BY DEF FlattenSeq, Flat!Defined, FlatDomain, FlatStep
<1>5. s = <<>> => FlattenSeq(s) = <<>>
  BY DEF FlattenSeq
<1> HIDE DEF f
<1>6. \A i \in 1..Len(s) : f[i] = IF i = 1 THEN s[1] ELSE f[i - 1] \o s[i]
  BY <1>3
<1>7. \A n \in Nat : n \in 1..Len(s) => f[n] \in Seq(S)
  <2> DEFINE T == {n \in Nat : n \in 1..Len(s) => f[n] \in Seq(S)}
  <2>1. ASSUME NEW n \in Nat, \A i \in Nat : i < n => i \in T
        PROVE  n \in T
    <3>1. SUFFICES ASSUME n \in 1..Len(s) PROVE f[n] \in Seq(S)
      OBVIOUS
    <3>2. CASE n = 1
      BY <1>1, <1>6, <3>1, <3>2
    <3>3. CASE n # 1
      <4>1. n - 1 \in Nat /\ n - 1 < n /\ n - 1 \in 1..Len(s)
        BY <1>1, <3>1, <3>3
      <4>2. f[n - 1] \in Seq(S) /\ s[n] \in Seq(S) /\ f[n] = f[n - 1] \o s[n]
        BY <1>1, <1>6, <2>1, <3>1, <3>3, <4>1
      <4> DEFINE a == f[n - 1]
                 b == s[n]
      <4> HIDE DEF a, b
      <4>3. a \o b \in Seq(S)
        BY <4>2, ConcatProperties DEF a, b
      <4>4. QED
        BY <4>2, <4>3 DEF a, b
    <3>4. QED
      BY <3>2, <3>3
  <2> HIDE DEF T
  <2>2. \A n \in Nat : n \in T
    BY <2>1, AllNaturals
  <2>3. QED
    BY <2>2 DEF T
<1>8. \A i \in 1..Len(s) : f[i] \in Seq(S)
  BY <1>1, <1>7
<1>9. s # <<>> => Len(s) # 0
  BY EmptySeq
<1>10. QED
  BY <1>4, <1>5, <1>6, <1>8, <1>9 DEF f

\* What is in the sequences is in what FlattenSeq puts together.
LEMMA FlatIsSeq ==
  ASSUME NEW S, NEW s \in Seq(Seq(S))
  PROVE  FlattenSeq(s) \in Seq(S)
<1>1. Len(s) \in Nat /\ (s # <<>> => Len(s) # 0)
  BY SequenceEntries, EmptySeq
<1>2. s # <<>> => Len(s) \in 1..Len(s)
  BY <1>1
<1>3. <<>> \in Seq(S)
  BY EmptySeq
<1>4. QED
  BY <1>2, <1>3, FlatUnfolds

\* The first sequence and what the others make.
LEMMA FlatHead ==
  ASSUME NEW S, NEW s \in Seq(Seq(S)), s # <<>>
  PROVE  FlattenSeq(s) = Head(s) \o FlattenSeq(Tail(s))
<1> DEFINE t == Tail(s)
           f == Flat!Defined(s)
           g == Flat!Defined(t)
<1>1. /\ Head(s) \in Seq(S) /\ t \in Seq(Seq(S)) /\ Len(t) = Len(s) - 1
      /\ \A i \in 1..Len(t) : t[i] = s[i + 1]
  BY HeadTailProperties
<1>2. Head(s) = s[1] /\ Len(s) \in Nat /\ Len(s) # 0
  BY EmptySeq, SequenceEntries
<1> HIDE DEF t
<1>3. \A i \in 1..Len(s) : f[i] = IF i = 1 THEN s[1] ELSE f[i - 1] \o s[i]
  BY FlatUnfolds
<1>4. \A i \in 1..Len(t) : g[i] \in Seq(S) /\ t[i] \in Seq(S)
                           /\ g[i] = IF i = 1 THEN t[1] ELSE g[i - 1] \o t[i]
  BY <1>1, FlatUnfolds, SequenceEntries
<1>5. /\ FlattenSeq(s) = f[Len(s)]
      /\ t # <<>> => FlattenSeq(t) = g[Len(t)]
      /\ t = <<>> => FlattenSeq(t) = <<>>
  BY <1>1, FlatUnfolds
<1> HIDE DEF f, g
<1>6. \A n \in Nat : n \in 1..Len(t) => f[n + 1] = s[1] \o g[n]
  <2> DEFINE T == {n \in Nat : n \in 1..Len(t) => f[n + 1] = s[1] \o g[n]}
  <2>1. ASSUME NEW n \in Nat, \A i \in Nat : i < n => i \in T
        PROVE  n \in T
    <3>1. SUFFICES ASSUME n \in 1..Len(t) PROVE f[n + 1] = s[1] \o g[n]
      OBVIOUS
    <3>2. n + 1 \in 1..Len(s) /\ n + 1 # 1 /\ n + 1 - 1 = n
      BY <1>1, <1>2, <3>1
    <3>3. f[n + 1] = f[n] \o s[n + 1] /\ t[n] = s[n + 1]
      <4> DEFINE k == n + 1
      <4>1. k \in 1..Len(s) /\ k # 1 /\ k - 1 = n
        BY <3>2
      <4> HIDE DEF k
      <4>2. f[k] = f[n] \o s[k]
        BY <1>3, <4>1
      <4>3. t[n] = s[n + 1]
        BY <1>1, <3>1
      <4>4. QED
        BY <4>2, <4>3 DEF k
    <3>4. CASE n = 1
      <4>1. 1 \in 1..Len(s)
        BY <1>2
      <4>2. f[1] = s[1] /\ g[1] = t[1]
        BY <1>3, <1>4, <3>1, <3>4, <4>1
      <4>3. QED
        BY <3>3, <3>4, <4>2
    <3>5. CASE n # 1
      <4>1. n - 1 \in Nat /\ n - 1 < n /\ n - 1 \in 1..Len(t) /\ n - 1 + 1 = n
        BY <1>1, <1>2, <3>1, <3>5
      <4>2. f[n] = s[1] \o g[n - 1]
        BY <2>1, <4>1
      <4>3. g[n] = g[n - 1] \o t[n] /\ g[n - 1] \in Seq(S) /\ t[n] \in Seq(S)
        BY <1>4, <3>1, <3>5, <4>1
      <4> DEFINE a == s[1]
                 b == g[n - 1]
                 c == t[n]
      <4>4. a \in Seq(S) /\ b \in Seq(S) /\ c \in Seq(S)
        BY <1>1, <1>2, <4>3
      <4>5. f[n + 1] = (a \o b) \o c /\ s[1] \o g[n] = a \o (b \o c)
        BY <3>3, <4>2, <4>3
      <4> HIDE DEF a, b, c
      <4>6. (a \o b) \o c = a \o (b \o c)
        BY <4>4, ConcatAssociative
      <4>7. QED
        BY <4>5, <4>6
    <3>6. QED
      BY <3>4, <3>5
  <2> HIDE DEF T
  <2>2. \A n \in Nat : n \in T
    BY <2>1, AllNaturals
  <2>3. QED
    BY <2>2 DEF T
<1>7. CASE t = <<>>
  <2>1. Len(s) = 1
    <3>1. Len(t) = 0
      BY <1>7
    <3>2. QED
      BY <1>1, <1>2, <3>1
  <2>2. FlattenSeq(s) = s[1]
    BY <1>3, <1>5, <2>1
  <2>3. s[1] \o <<>> = s[1]
    BY <1>1, <1>2, ConcatEmptySeq
  <2>4. QED
    BY <1>2, <1>5, <1>7, <2>2, <2>3 DEF t
<1>8. CASE t # <<>>
  <2>1. Len(t) # 0
    BY <1>1, <1>8, EmptySeq
  <2>2. Len(t) \in Nat /\ Len(t) \in 1..Len(t) /\ Len(t) + 1 = Len(s)
    BY <1>1, <1>2, <2>1
  <2>3. QED
    BY <1>2, <1>5, <1>6, <1>8, <2>2 DEF t
<1>9. QED
  BY <1>7, <1>8

-----------------------------------------------------------------------------
(* Pieces of text.                                                          *)

\* %ld and %x print digits.
AllNumbers(base) == Nat
DigitCode(k) == k + (IF k < 10 THEN 48 ELSE 87)
DigitsStep(base, k, digits) ==
  IF k < base THEN <<DigitCode(k)>> ELSE Append(digits[k \div base], DigitCode(k % base))
Digits == INSTANCE Recursion WITH Dom <- AllNumbers, G <- DigitsStep

LEMMA DigitsUnfold ==
  ASSUME NEW base \in {10, 16}
  PROVE  \A k \in Nat : Digits!Defined(base)[k] = DigitsStep(base, k, Digits!Defined(base))
<1> DEFINE d == Digits!Defined(base)
<1>1. Digits!Looks(base)
  <2>1. AllNumbers(base) \subseteq Nat
    BY DEF AllNumbers
  <2>2. ASSUME NEW n \in AllNumbers(base), NEW g, NEW h,
               \A i \in AllNumbers(base) : i < n => g[i] = h[i]
        PROVE  DigitsStep(base, n, g) = DigitsStep(base, n, h)
    <3>1. ~ n < base => n \div base \in AllNumbers(base) /\ n \div base < n
      <4>1. n \in Nat
        BY DEF AllNumbers
      <4>2. CASE base = 10
        BY <4>1, <4>2 DEF AllNumbers
      <4>3. CASE base = 16
        BY <4>1, <4>3 DEF AllNumbers
      <4>4. QED
        BY <4>2, <4>3
    <3>2. QED
      BY <2>2, <3>1 DEF DigitsStep
  <2>3. QED
    BY <2>1, <2>2 DEF Digits!Looks
<1>2. d = [k \in AllNumbers(base) |-> DigitsStep(base, k, d)]
  BY <1>1, Digits!Unfolds
<1> HIDE DEF d
<1>3. \A k \in Nat : d[k] = DigitsStep(base, k, d)
  BY <1>2 DEF AllNumbers
<1>4. QED
  BY <1>3 DEF d

LEMMA DigitsText ==
  ASSUME NEW base \in {10, 16}, NEW n \in Nat
  PROVE  Digits!Defined(base)[n] \in Seq(Characters \ {0})
<1> DEFINE d == Digits!Defined(base)
           S == Characters \ {0}
           T == {k \in Nat : d[k] \in Seq(S)}
<1>1. \A k \in Nat : d[k] = DigitsStep(base, k, d)
  BY DigitsUnfold
<1>2. \A k \in 0..15 : DigitCode(k) \in S
  BY DEF DigitCode, Characters
<1> HIDE DEF d, S
<1>3. ASSUME NEW k \in Nat, \A i \in Nat : i < k => i \in T
      PROVE  k \in T
  <2>1. CASE k < base
    <3>1. k \in 0..15
      BY <2>1
    <3>2. d[k] = <<DigitCode(k)>>
      BY <1>1, <2>1 DEF DigitsStep
    <3> DEFINE b == DigitCode(k)
    <3>3. b \in S
      BY <1>2, <3>1
    <3> HIDE DEF b
    <3>4. <<b>> \in Seq(S)
      BY <3>3
    <3>5. QED
      BY <3>2, <3>4 DEF b
  <2>2. CASE ~ k < base
    <3>1. k \div base \in Nat /\ k \div base < k /\ k % base \in 0..15
      <4>1. CASE base = 10
        BY <2>2, <4>1
      <4>2. CASE base = 16
        BY <2>2, <4>2
      <4>3. QED
        BY <4>1, <4>2
    <3>2. d[k] = Append(d[k \div base], DigitCode(k % base))
      BY <1>1, <2>2 DEF DigitsStep
    <3>3. d[k \div base] \in Seq(S)
      BY <1>3, <3>1
    <3> DEFINE a == d[k \div base]
               b == DigitCode(k % base)
    <3>4. a \in Seq(S) /\ b \in S
      BY <1>2, <3>1, <3>3
    <3> HIDE DEF a, b
    <3>5. Append(a, b) \in Seq(S)
      BY <3>4, AppendProperties
    <3>6. QED
      BY <3>2, <3>5 DEF a, b
  <2>3. QED
    BY <2>1, <2>2
<1> HIDE DEF T
<1>4. n \in T
  BY <1>3, AllNaturals
<1>5. QED
  BY <1>4 DEF T, S, d

LEMMA NumeralText ==
  ASSUME NEW base \in {10, 16}, NEW n \in Int
  PROVE  Numeral(base, n) \in Seq(Characters \ {0})
<1> DEFINE d == Digits!Defined(base)
           S == Characters \ {0}
<1>1. Numeral(base, n) = IF n < 0 THEN <<45>> \o d[-n] ELSE d[n]
  BY DEF Numeral, Digits!Defined, AllNumbers, DigitsStep, DigitCode
<1>2. \A k \in Nat : d[k] \in Seq(S)
  BY DigitsText
<1>3. <<45>> \in Seq(S)
  BY DEF Characters
<1> HIDE DEF d, S
<1>4. CASE n < 0
  <2>1. d[-n] \in Seq(S)
    BY <1>2, <1>4
  <2> DEFINE a == d[-n]
  <2> HIDE DEF a
  <2>2. <<45>> \o a \in Seq(S)
    BY <1>3, <2>1, ConcatProperties DEF a
  <2>3. QED
    BY <1>1, <1>4, <2>2 DEF a, S
<1>5. CASE ~ n < 0
  BY <1>1, <1>2, <1>5 DEF S
<1>6. QED
  BY <1>4, <1>5

\* Pieces are put between brackets, and with ", " between them.
LEMMA EnclosedPieces ==
  ASSUME NEW S, NEW open \in Seq(S), NEW close \in Seq(S), NEW pieces \in Seq(Seq(S))
  PROVE  Enclosed(open, pieces, close) \in Seq(Seq(S))
<1>1. <<open>> \in Seq(Seq(S)) /\ <<close>> \in Seq(Seq(S))
  OBVIOUS
<1> DEFINE a == <<open>>
           c == <<close>>
<1> HIDE DEF a, c
<1>2. a \o pieces \in Seq(Seq(S))
  BY <1>1, ConcatProperties DEF a
<1> DEFINE b == a \o pieces
<1> HIDE DEF b
<1>3. b \o c \in Seq(Seq(S))
  BY <1>1, <1>2, ConcatProperties DEF b, c
<1>4. QED
  BY <1>3 DEF Enclosed, a, b, c

LEMMA ListedPieces ==
  ASSUME NEW members \in Seq(Seq(Seq(Characters \ {0})))
  PROVE  Listed(members) \in Seq(Seq(Characters \ {0}))
<1> DEFINE S == Characters \ {0}
           f == [i \in DOMAIN members |-> IF i = 1 THEN members[1] ELSE <<<<44, 32>>>> \o members[i]]
           n == Len(members)
           comma == <<44, 32>>
<1>1. n \in Nat /\ DOMAIN members = 1..n /\ \A i \in 1..n : members[i] \in Seq(Seq(S))
  BY SequenceEntries
<1>2. comma \in Seq(S)
  <2>1. 44 \in S /\ 32 \in S
    BY DEF Characters
  <2> HIDE DEF S
  <2>2. QED
    BY <2>1
<1> HIDE DEF n, S
<1>3. ASSUME NEW i \in 1..n
      PROVE  <<comma>> \o members[i] \in Seq(Seq(S))
  <2> DEFINE a == <<comma>>
             b == members[i]
  <2> HIDE DEF comma
  <2>1. a \in Seq(Seq(S)) /\ b \in Seq(Seq(S))
    BY <1>1, <1>2
  <2> HIDE DEF a, b
  <2>2. a \o b \in Seq(Seq(S))
    BY <2>1, ConcatProperties
  <2>3. QED
    BY <2>2 DEF a, b
<1>4. f \in [1..n -> Seq(Seq(S))]
  <2>1. \A i \in 1..n : (IF i = 1 THEN members[1] ELSE <<comma>> \o members[i]) \in Seq(Seq(S))
    BY <1>1, <1>3
  <2>2. QED
    BY <1>1, <2>1
<1> HIDE DEF f
<1>5. f \in Seq(Seq(Seq(S)))
  BY <1>1, <1>4, FunctionIsSeq
<1>6. FlattenSeq(f) \in Seq(Seq(S))
  BY <1>5, FlatIsSeq
<1>7. QED
  BY <1>6 DEF Listed, f, S

-----------------------------------------------------------------------------
(* Words that can be printed.                                               *)

\* Printable follows the members, as often as there are objects.
Depths(objects) == Nat
DeepBody(objects, n, below) ==
  [v \in AllWords |->
     ~ UNBOXED(v) =>
       /\ n > 0
       /\ LET o == objects[v \div 2]
          IN  /\ o.type # "STRING" => \A u \in ToSet(ValuesIn(o)) : below[u]
              /\ IsCons(o) => /\ Len(o.members) = 2
                              /\ ~ UNBOXED(o.members[2]) => IsCons(objects[o.members[2] \div 2])]
DeepStep(objects, n, deep) == DeepBody(objects, n, deep[n - 1])
Deep == INSTANCE Recursion WITH Dom <- Depths, G <- DeepStep

LEMMA DeepUnfolds ==
  ASSUME NEW objects
  PROVE  \A n \in Nat : Deep!Defined(objects)[n]
                          = DeepBody(objects, n, Deep!Defined(objects)[n - 1])
<1> DEFINE d == Deep!Defined(objects)
<1>1. Deep!Looks(objects)
  <2>1. Depths(objects) \subseteq Nat
    BY DEF Depths
  <2>2. ASSUME NEW n \in Depths(objects), NEW g, NEW h,
               \A i \in Depths(objects) : i < n => g[i] = h[i]
        PROVE  DeepStep(objects, n, g) = DeepStep(objects, n, h)
    <3>1. CASE n = 0
      <4>1. \A below : DeepBody(objects, 0, below) = [v \in AllWords |-> UNBOXED(v)]
        BY DEF DeepBody, UNBOXED
      <4>2. QED
        BY <3>1, <4>1 DEF DeepStep
    <3>2. CASE n # 0
      <4>1. n - 1 \in Depths(objects) /\ n - 1 < n
        BY <3>2 DEF Depths
      <4>2. g[n - 1] = h[n - 1]
        BY <2>2, <4>1
      <4>3. QED
        BY <4>2 DEF DeepStep
    <3>3. QED
      BY <3>1, <3>2
  <2>3. QED
    BY <2>1, <2>2 DEF Deep!Looks
<1>2. d = [n \in Depths(objects) |-> DeepStep(objects, n, d)]
  BY <1>1, Deep!Unfolds
<1> HIDE DEF d
<1>3. \A n \in Nat : d[n] = DeepStep(objects, n, d)
  BY <1>2 DEF Depths
<1>4. QED
  BY <1>3 DEF d, DeepStep

Sound(objects) ==
  objects \in Seq(Objects) /\ \A k \in DOMAIN objects : IsObject(objects[k], Len(objects))

\* The words from which there is a way down to the end.
Grounded(objects) == {w \in AllWords : /\ IsWord(w, Len(objects))
                                    /\ \E n \in Nat : Deep!Defined(objects)[n][w]}

LEMMA MembersEnd ==
  ASSUME NEW objects, Sound(objects), NEW w \in Grounded(objects), ~ UNBOXED(w),
         NEW o, o = objects[w \div 2]
  PROVE  /\ o \in Objects /\ IsObject(o, Len(objects)) /\ ValuesIn(o) \in Seq(Int)
         /\ o.type # "STRING" =>
              \A i \in 1..Len(ValuesIn(o)) : ValuesIn(o)[i] \in Grounded(objects)
         /\ IsCons(o) =>
              /\ Len(o.members) = 2 /\ ValuesIn(o) = o.members
              /\ ~ UNBOXED(o.members[2]) => IsCons(objects[o.members[2] \div 2])
<1>1. w \in AllWords /\ w \div 2 \in 1..Len(objects)
  BY DEF Grounded, IsWord
<1>2. PICK n \in Nat : Deep!Defined(objects)[n][w]
  BY DEF Grounded
<1>3. IsObject(o, Len(objects))
  BY <1>1, SequenceEntries DEF Sound
<1>4. o \in Objects /\ ValuesIn(o) \in Seq(Int) /\ (o.type # "CLOSURE" => ValuesIn(o) = o.members)
  BY <1>3, ValuesPart DEF IsObject
<1> DEFINE below == Deep!Defined(objects)[n - 1]
           d == Deep!Defined(objects)[n]
<1>5. d[w] /\ d = DeepBody(objects, n, below)
  BY <1>2, DeepUnfolds
<1> HIDE DEF below, d
<1>6. DeepBody(objects, n, below)[w]
  BY <1>5
<1>7. /\ n > 0
      /\ o.type # "STRING" => \A u \in ToSet(ValuesIn(o)) : below[u]
      /\ IsCons(o) => /\ Len(o.members) = 2
                      /\ ~ UNBOXED(o.members[2]) => IsCons(objects[o.members[2] \div 2])
  BY <1>1, <1>6 DEF DeepBody
<1>8. ASSUME o.type # "STRING", NEW i \in 1..Len(ValuesIn(o))
      PROVE  ValuesIn(o)[i] \in Grounded(objects)
  <2>1. DOMAIN ValuesIn(o) = 1..Len(ValuesIn(o))
    BY <1>4, SequenceEntries
  <2>2. IsWord(ValuesIn(o)[i], Len(objects))
    BY <1>3, <1>8, <2>1 DEF IsObject
  <2>3. ValuesIn(o)[i] \in ToSet(ValuesIn(o))
    BY <2>1 DEF ToSet
  <2>4. Deep!Defined(objects)[n - 1][ValuesIn(o)[i]] /\ n - 1 \in Nat
    BY <1>7, <1>8, <2>3 DEF below
  <2>5. QED
    BY <2>2, <2>4 DEF Grounded, IsWord
<1>9. IsCons(o) => ValuesIn(o) = o.members
  BY <1>4 DEF IsCons
<1>10. QED
  BY <1>3, <1>4, <1>7, <1>8, <1>9

LEMMA PrintableEnds ==
  ASSUME NEW w, IsWord(w, Len(heap)), Printable(w), Len(heap) \in Nat
  PROVE  w \in Grounded(heap)
<1>1. Printable(w) = Deep!Defined(heap)[Len(heap)][w]
  BY DEF Printable, At, Deep!Defined, Depths, DeepStep, DeepBody
<1>2. QED
  BY <1>1 DEF Grounded, IsWord

\* Elements follows the second members, as often as there are objects.
ElementsBody(objects, n, tails) ==
  [w \in AllWords |->
     IF n = 0 \/ UNBOXED(w) THEN <<>>
     ELSE <<objects[w \div 2].members[1]>> \o tails[objects[w \div 2].members[2]]]
ElementsStep(objects, n, from) == ElementsBody(objects, n, from[n - 1])
From == INSTANCE Recursion WITH Dom <- Depths, G <- ElementsStep

ElementsOf(objects, o) ==
  <<o.members[1]>> \o From!Defined(objects)[Len(objects)][o.members[2]]

LEMMA ElementsUnfold ==
  ASSUME NEW objects
  PROVE  \A n \in Nat : From!Defined(objects)[n]
                          = ElementsBody(objects, n, From!Defined(objects)[n - 1])
<1> DEFINE d == From!Defined(objects)
<1>1. From!Looks(objects)
  <2>1. Depths(objects) \subseteq Nat
    BY DEF Depths
  <2>2. ASSUME NEW n \in Depths(objects), NEW g, NEW h,
               \A i \in Depths(objects) : i < n => g[i] = h[i]
        PROVE  ElementsStep(objects, n, g) = ElementsStep(objects, n, h)
    <3>1. CASE n = 0
      <4>1. \A tails : ElementsBody(objects, 0, tails) = [w \in AllWords |-> <<>>]
        BY DEF ElementsBody
      <4>2. QED
        BY <3>1, <4>1 DEF ElementsStep
    <3>2. CASE n # 0
      <4>1. n - 1 \in Depths(objects) /\ n - 1 < n
        BY <3>2 DEF Depths
      <4>2. g[n - 1] = h[n - 1]
        BY <2>2, <4>1
      <4>3. QED
        BY <4>2 DEF ElementsStep
    <3>3. QED
      BY <3>1, <3>2
  <2>3. QED
    BY <2>1, <2>2 DEF From!Looks
<1>2. d = [n \in Depths(objects) |-> ElementsStep(objects, n, d)]
  BY <1>1, From!Unfolds
<1> HIDE DEF d
<1>3. \A n \in Nat : d[n] = ElementsStep(objects, n, d)
  BY <1>2 DEF Depths
<1>4. QED
  BY <1>3 DEF d, ElementsStep

\* The elements of a list can be printed when the list can.
LEMMA TailsGrounded ==
  ASSUME NEW objects, Sound(objects), NEW n \in Nat,
         NEW w \in Grounded(objects), ~ UNBOXED(w) => IsCons(objects[w \div 2])
  PROVE  From!Defined(objects)[n][w] \in Seq(Grounded(objects))
<1> DEFINE D == Grounded(objects)
           d == From!Defined(objects)
           Lists == {v \in D : ~ UNBOXED(v) => IsCons(objects[v \div 2])}
           T == {k \in Nat : \A v \in Lists : d[k][v] \in Seq(D)}
<1>1. \A k \in Nat : d[k] = ElementsBody(objects, k, d[k - 1])
  BY ElementsUnfold
<1>2. \A v \in D : v \in AllWords
  BY DEF Grounded
<1>3. \A v \in Lists : ~ UNBOXED(v) =>
        /\ Len(objects[v \div 2].members) = 2
        /\ objects[v \div 2].members[1] \in D /\ objects[v \div 2].members[2] \in Lists
  <2>1. SUFFICES ASSUME NEW v \in Lists, ~ UNBOXED(v)
                 PROVE  /\ Len(objects[v \div 2].members) = 2
                        /\ objects[v \div 2].members[1] \in D
                        /\ objects[v \div 2].members[2] \in Lists
    OBVIOUS
  <2> DEFINE o == objects[v \div 2]
  <2>2. v \in D /\ IsCons(o)
    BY <2>1
  <2>3. /\ o.type # "STRING" => \A i \in 1..Len(ValuesIn(o)) : ValuesIn(o)[i] \in D
        /\ Len(o.members) = 2 /\ ValuesIn(o) = o.members
        /\ ~ UNBOXED(o.members[2]) => IsCons(objects[o.members[2] \div 2])
    <3> DEFINE q == o
    <3>1. q = objects[v \div 2] /\ IsCons(q)
      BY <2>2
    <3> HIDE DEF q, o
    <3>2. /\ q.type # "STRING" => \A i \in 1..Len(ValuesIn(q)) : ValuesIn(q)[i] \in D
          /\ Len(q.members) = 2 /\ ValuesIn(q) = q.members
          /\ ~ UNBOXED(q.members[2]) => IsCons(objects[q.members[2] \div 2])
      BY <2>1, <2>2, <3>1, MembersEnd
    <3>3. QED
      BY <3>2 DEF q
  <2>4. o.type # "STRING"
    BY <2>2 DEF IsCons
  <2> HIDE DEF o, D
  <2>5. 1 \in 1..2 /\ 2 \in 1..2
    OBVIOUS
  <2>6. o.members[1] \in D /\ o.members[2] \in D
    BY <2>3, <2>4, <2>5
  <2>7. QED
    BY <2>3, <2>6 DEF o
<1>4. \A v \in Lists : v \in AllWords
  BY <1>2
<1> HIDE DEF d, D, Lists
<1>5. ASSUME NEW k \in Nat, \A i \in Nat : i < k => i \in T
      PROVE  k \in T
  <2>1. SUFFICES ASSUME NEW v \in Lists PROVE d[k][v] \in Seq(D)
    OBVIOUS
  <2>2. d[k][v] = IF k = 0 \/ UNBOXED(v) THEN <<>>
                  ELSE <<objects[v \div 2].members[1]>> \o d[k - 1][objects[v \div 2].members[2]]
    <3> DEFINE e == d[k]
               tails == d[k - 1]
    <3>1. e = ElementsBody(objects, k, tails) /\ v \in AllWords
      BY <1>1, <1>4
    <3> HIDE DEF e, tails
    <3>2. e[v] = IF k = 0 \/ UNBOXED(v) THEN <<>>
                 ELSE <<objects[v \div 2].members[1]>> \o tails[objects[v \div 2].members[2]]
      BY <3>1 DEF ElementsBody
    <3>3. QED
      BY <3>2 DEF e, tails
  <2>3. CASE k = 0 \/ UNBOXED(v)
    BY <2>2, <2>3, EmptySeq
  <2>4. CASE ~ (k = 0 \/ UNBOXED(v))
    <3> DEFINE x == objects[v \div 2].members[1]
               y == objects[v \div 2].members[2]
    <3>1. x \in D /\ y \in Lists
      BY <1>3, <2>4
    <3>2. d[k][v] = <<x>> \o d[k - 1][y]
      BY <2>2, <2>4
    <3>3. k - 1 \in Nat /\ k - 1 < k
      BY <2>4
    <3> HIDE DEF x, y
    <3>4. d[k - 1][y] \in Seq(D)
      BY <1>5, <3>1, <3>3
    <3> DEFINE a == <<x>>
               b == d[k - 1][y]
    <3>5. a \in Seq(D) /\ b \in Seq(D)
      BY <3>1, <3>4
    <3> HIDE DEF a, b
    <3>6. a \o b \in Seq(D)
      BY <3>5, ConcatProperties
    <3>7. QED
      BY <3>2, <3>6 DEF a, b
  <2>5. QED
    BY <2>3, <2>4
<1> HIDE DEF T
<1>6. \A k \in Nat : k \in T
  BY <1>5, AllNaturals
<1>7. w \in Lists
  BY DEF Lists, D
<1>8. QED
  BY <1>6, <1>7 DEF T, d, D

LEMMA ElementsGrounded ==
  ASSUME NEW objects, Sound(objects), NEW w \in Grounded(objects), ~ UNBOXED(w),
         NEW o, o = objects[w \div 2], IsCons(o)
  PROVE  ElementsOf(objects, o) \in Seq(Grounded(objects))
<1> DEFINE D == Grounded(objects)
           x == o.members[1]
           y == o.members[2]
<1>1. o.type # "STRING" /\ Len(objects) \in Nat
  BY SequenceEntries DEF IsCons, Sound
<1>2. /\ o.type # "STRING" => \A i \in 1..Len(ValuesIn(o)) : ValuesIn(o)[i] \in D
      /\ Len(o.members) = 2 /\ ValuesIn(o) = o.members
      /\ ~ UNBOXED(y) => IsCons(objects[y \div 2])
  BY MembersEnd
<1> HIDE DEF D
<1>3. 1 \in 1..2 /\ 2 \in 1..2
  OBVIOUS
<1>4. x \in D /\ y \in D
  BY <1>1, <1>2, <1>3
<1> DEFINE a == <<x>>
           b == From!Defined(objects)[Len(objects)][y]
<1> HIDE DEF x, y
<1>5. b \in Seq(D)
  BY <1>1, <1>2, <1>4, TailsGrounded DEF D
<1>6. a \in Seq(D)
  BY <1>4
<1> HIDE DEF a, b
<1>7. a \o b \in Seq(D)
  BY <1>5, <1>6, ConcatProperties
<1>8. QED
  BY <1>7 DEF ElementsOf, a, b, x, y, D

-----------------------------------------------------------------------------
(* What printValue prints.                                                  *)

PiecesBody(objects, n, below) ==
  [v \in AllWords |->
     IF n = 0 \/ UNBOXED(v) THEN <<Numeral(10, UNBOX(v))>>
     ELSE LET o == objects[v \div 2]
              code == <<48, 120>> \o Numeral(16, o.members[1])
              Of(words) == [i \in DOMAIN words |-> below[words[i]]]
              values == Of(ValuesIn(o))
              tag == de_hash(o.tag)
          IN  CASE o.type = "STRING"  -> <<<<34>> \o CText(o.members) \o <<34>>>>
                [] o.type = "CLOSURE" ->
                     Enclosed(<<60, 99, 108, 111, 115, 117, 114, 101, 32>>,
                              Listed(<<<<code>>>> \o values), <<62>>)
                [] o.type = "ARRAY"   -> Enclosed(<<91>>, Listed(values), <<93>>)
                [] IsCons(o)          -> Enclosed(<<123>>, Listed(Of(ElementsOf(objects, o))), <<125>>)
                [] OTHER -> IF values = <<>> THEN <<tag>>
                            ELSE <<tag>> \o Enclosed(<<32, 40>>, Listed(values), <<41>>)]
PiecesStep(objects, n, pieces) == PiecesBody(objects, n, pieces[n - 1])
Pieces == INSTANCE Recursion WITH Dom <- Depths, G <- PiecesStep

LEMMA PiecesUnfold ==
  ASSUME NEW objects
  PROVE  \A n \in Nat : Pieces!Defined(objects)[n]
                          = PiecesBody(objects, n, Pieces!Defined(objects)[n - 1])
<1> DEFINE d == Pieces!Defined(objects)
<1>1. Pieces!Looks(objects)
  <2>1. Depths(objects) \subseteq Nat
    BY DEF Depths
  <2>2. ASSUME NEW n \in Depths(objects), NEW g, NEW h,
               \A i \in Depths(objects) : i < n => g[i] = h[i]
        PROVE  PiecesStep(objects, n, g) = PiecesStep(objects, n, h)
    <3>1. CASE n = 0
      <4>1. \A below : PiecesBody(objects, 0, below) = [v \in AllWords |-> <<Numeral(10, UNBOX(v))>>]
        BY DEF PiecesBody
      <4>2. QED
        BY <3>1, <4>1 DEF PiecesStep
    <3>2. CASE n # 0
      <4>1. n - 1 \in Depths(objects) /\ n - 1 < n
        BY <3>2 DEF Depths
      <4>2. g[n - 1] = h[n - 1]
        BY <2>2, <4>1
      <4>3. QED
        BY <4>2 DEF PiecesStep
    <3>3. QED
      BY <3>1, <3>2
  <2>3. QED
    BY <2>1, <2>2 DEF Pieces!Looks
<1>2. d = [n \in Depths(objects) |-> PiecesStep(objects, n, d)]
  BY <1>1, Pieces!Unfolds
<1> HIDE DEF d
<1>3. \A n \in Nat : d[n] = PiecesStep(objects, n, d)
  BY <1>2 DEF Depths
<1>4. QED
  BY <1>3 DEF d, PiecesStep

\* The text of a string has no zero.
LEMMA TextOfString ==
  ASSUME NEW o \in Objects, o.type = "STRING", NEW n \in Nat, IsObject(o, n)
  PROVE  CText(o.members) \in Seq(Characters \ {0})
<1> DEFINE S == Characters \ {0}
           t == o.members
           c == CText(t)
<1>1. t \in Seq(Int) /\ ValuesIn(o) = t /\ DOMAIN t = 1..Len(t)
  BY SequenceEntries, ValuesPart DEF IsObject
<1>2. \A i \in 1..Len(t) : t[i] \in Characters
  BY <1>1 DEF IsObject
<1>3. PICK k \in 0..Len(t) : c = SubSeq(t, 1, k) /\ \A i \in 1..k : t[i] # 0
  BY <1>1, TextUpToZero
<1>4. Len(t) \in Nat /\ t = [i \in 1..Len(t) |-> t[i]]
  BY <1>1, SequenceEntries
<1>5. \A i \in 1..k : t[i] \in S
  BY <1>2, <1>3, <1>4
<1> HIDE DEF c, t, S
<1>6. c = [i \in 1..(k + 1 - 1) |-> t[1 - 1 + i]]
  BY <1>3, <1>4, PartOfEntries
<1>7. k \in Nat /\ c = [i \in 1..k |-> t[i]]
  BY <1>3, <1>4, <1>6
<1>8. c \in [1..k -> S]
  BY <1>5, <1>7
<1>9. QED
  BY <1>7, <1>8, FunctionIsSeq DEF c, S, t

\* Texts in quotes, tags and codes.
LEMMA QuotedText ==
  ASSUME NEW o \in Objects, o.type = "STRING", NEW n \in Nat, IsObject(o, n)
  PROVE  <<<<34>> \o CText(o.members) \o <<34>>>> \in Seq(Seq(Characters \ {0}))
<1> DEFINE S == Characters \ {0}
           c == CText(o.members)
           quote == <<34>>
<1>1. c \in Seq(S)
  BY TextOfString
<1> HIDE DEF c, S
<1>2. quote \in Seq(S)
  <2>1. 34 \in S
    BY DEF S, Characters
  <2>2. QED
    BY <2>1
<1> HIDE DEF quote
<1> DEFINE begun == quote \o c
<1>3. begun \in Seq(S)
  BY <1>1, <1>2, ConcatProperties
<1> HIDE DEF begun
<1> DEFINE whole == begun \o quote
<1>4. whole \in Seq(S)
  BY <1>2, <1>3, ConcatProperties
<1> HIDE DEF whole
<1>5. <<whole>> \in Seq(Seq(S))
  BY <1>4
<1>6. QED
  BY <1>5 DEF whole, begun, quote, c, S

LEMMA TagText ==
  ASSUME NEW o, NEW n, IsObject(o, n), o.type = "SEXP"
  PROVE  de_hash(o.tag) \in Seq(Characters \ {0})
<1> DEFINE S == Characters \ {0}
<1>1. PICK t \in Tags : ~ TagFails(t) /\ o.tag = LtagHash(t)
  BY DEF IsObject
<1>2. de_hash(o.tag) = Shortened(t) /\ t \in Seq(S)
  BY <1>1, NamesKept, OperandsAssumption
<1>3. \A i \in 1..Len(t) : t[i] \in S
  BY <1>2, SequenceEntries
<1> DEFINE m == Min({Len(t), MAX_SEXP_TAGLEN})
<1>4. m \in Int /\ m <= Len(t)
  <2>1. Len(t) \in Nat /\ MAX_SEXP_TAGLEN \in Nat
    BY <1>2, SequenceEntries, TagLenAssumption
  <2>2. \E x \in {Len(t), MAX_SEXP_TAGLEN} : \A y \in {Len(t), MAX_SEXP_TAGLEN} : x <= y
    BY <2>1
  <2>3. m \in {Len(t), MAX_SEXP_TAGLEN} /\ \A y \in {Len(t), MAX_SEXP_TAGLEN} : m <= y
    BY <2>2 DEF Min
  <2>4. QED
    BY <2>1, <2>3
<1> HIDE DEF m, S
<1>5. Len(t) \in Nat
  BY <1>2, SequenceEntries
<1>6. \A i \in 1..m : t[i] \in S
  BY <1>3, <1>4, <1>5
<1>7. SubSeq(t, 1, m) \in Seq(S)
  BY <1>4, <1>6, SubSeqProperties
<1>8. QED
  BY <1>2, <1>7 DEF Shortened, m, S

\* One line of each kind of object, from what its members print.
LEMMA WordsPieces ==
  ASSUME NEW D, NEW S, NEW below, \A u \in D : below[u] \in Seq(Seq(S)), NEW words \in Seq(D)
  PROVE  [i \in DOMAIN words |-> below[words[i]]] \in Seq(Seq(Seq(S)))
<1>1. Len(words) \in Nat /\ DOMAIN words = 1..Len(words) /\ \A i \in 1..Len(words) : words[i] \in D
  BY SequenceEntries
<1>2. [i \in DOMAIN words |-> below[words[i]]] \in [1..Len(words) -> Seq(Seq(S))]
  BY <1>1
<1>3. QED
  BY <1>1, <1>2, FunctionIsSeq

LEMMA ClosurePieces ==
  ASSUME NEW n \in Int, NEW values \in Seq(Seq(Seq(Characters \ {0})))
  PROVE  Enclosed(<<60, 99, 108, 111, 115, 117, 114, 101, 32>>,
                  Listed(<<<<<<48, 120>> \o Numeral(16, n)>>>> \o values), <<62>>)
           \in Seq(Seq(Characters \ {0}))
<1> DEFINE S == Characters \ {0}
           hex == <<48, 120>>
           number == Numeral(16, n)
           open == <<60, 99, 108, 111, 115, 117, 114, 101, 32>>
           close == <<62>>
<1>1. number \in Seq(S)
  BY NumeralText
<1>2. {60, 99, 108, 111, 115, 117, 114, 101, 32, 62, 48, 120} \subseteq S
  BY DEF Characters
<1> HIDE DEF S
<1>3. hex \in Seq(S)
  BY <1>2
<1>4. open \in Seq(S)
  BY <1>2
<1>5. close \in Seq(S)
  BY <1>2
<1> HIDE DEF hex, number, open, close
<1> DEFINE code == hex \o number
<1>6. code \in Seq(S)
  BY <1>1, <1>3, ConcatProperties
<1> HIDE DEF code
<1> DEFINE first == <<<<code>>>>
<1>7. first \in Seq(Seq(Seq(S)))
  BY <1>6
<1>8. values \in Seq(Seq(Seq(S)))
  BY DEF S
<1> HIDE DEF first
<1> DEFINE all == first \o values
<1>9. all \in Seq(Seq(Seq(S)))
  BY <1>7, <1>8, ConcatProperties
<1> HIDE DEF all
<1>10. Listed(all) \in Seq(Seq(S))
  BY <1>9, ListedPieces DEF S
<1>11. Enclosed(open, Listed(all), close) \in Seq(Seq(S))
  BY <1>4, <1>5, <1>10, EnclosedPieces
<1>12. QED
  BY <1>11 DEF all, first, code, hex, number, open, close, S

LEMMA BracketPieces ==
  ASSUME NEW open \in Seq(Characters \ {0}), NEW close \in Seq(Characters \ {0}),
         NEW values \in Seq(Seq(Seq(Characters \ {0})))
  PROVE  Enclosed(open, Listed(values), close) \in Seq(Seq(Characters \ {0}))
BY ListedPieces, EnclosedPieces

LEMMA SexpPieces ==
  ASSUME NEW tag \in Seq(Characters \ {0}), NEW values \in Seq(Seq(Seq(Characters \ {0})))
  PROVE  /\ <<tag>> \in Seq(Seq(Characters \ {0}))
         /\ <<tag>> \o Enclosed(<<32, 40>>, Listed(values), <<41>>) \in Seq(Seq(Characters \ {0}))
<1> DEFINE S == Characters \ {0}
           open == <<32, 40>>
           close == <<41>>
           text == Enclosed(open, Listed(values), close)
<1>1. 32 \in S /\ 40 \in S /\ 41 \in S
  BY DEF Characters
<1>2. open \in Seq(S)
  <2> HIDE DEF S
  <2>1. QED
    BY <1>1
<1>3. close \in Seq(S)
  <2> HIDE DEF S
  <2>1. QED
    BY <1>1
<1> HIDE DEF open, close
<1>4. text \in Seq(Seq(S))
  BY <1>2, <1>3, BracketPieces
<1> HIDE DEF text
<1> DEFINE first == <<tag>>
<1>5. first \in Seq(Seq(S))
  OBVIOUS
<1> HIDE DEF first
<1>6. first \o text \in Seq(Seq(S))
  BY <1>4, <1>5, ConcatProperties
<1>7. QED
  BY <1>5, <1>6 DEF first, text, open, close

\* Whatever can be printed is printed as texts.
LEMMA PrintedTexts ==
  ASSUME NEW objects, Sound(objects), NEW n \in Nat, NEW w \in Grounded(objects)
  PROVE  Pieces!Defined(objects)[n][w] \in Seq(Seq(Characters \ {0}))
<1> DEFINE D == Grounded(objects)
           S == Characters \ {0}
           d == Pieces!Defined(objects)
           T == {k \in Nat : \A v \in D : d[k][v] \in Seq(Seq(S))}
<1>1. \A k \in Nat : d[k] = PiecesBody(objects, k, d[k - 1])
  BY PiecesUnfold
<1>2. \A v \in D : v \in AllWords /\ IsWord(v, Len(objects))
  BY DEF Grounded
<1> HIDE DEF d
<1>3. ASSUME NEW k \in Nat, \A i \in Nat : i < k => i \in T
      PROVE  k \in T
  <2>1. SUFFICES ASSUME NEW v \in D PROVE d[k][v] \in Seq(Seq(S))
    OBVIOUS
  <2> DEFINE below == d[k - 1]
             e == d[k]
  <2>2. e = PiecesBody(objects, k, below) /\ v \in AllWords
    BY <1>1, <1>2
  <2> HIDE DEF e
  <2>3. CASE k = 0 \/ UNBOXED(v)
    <3>1. UNBOX(v) \in Int
      BY <2>2, WordParts
    <3> DEFINE number == Numeral(10, UNBOX(v))
    <3>2. number \in Seq(S)
      BY <3>1, NumeralText
    <3>3. e[v] = <<number>>
      BY <2>2, <2>3 DEF PiecesBody
    <3> HIDE DEF number
    <3>4. <<number>> \in Seq(Seq(S))
      BY <3>2
    <3>5. QED
      BY <3>3, <3>4 DEF e
  <2>4. CASE ~ (k = 0 \/ UNBOXED(v))
    <3> DEFINE o == objects[v \div 2]
    <3>1. /\ o \in Objects /\ IsObject(o, Len(objects)) /\ ValuesIn(o) \in Seq(Int)
          /\ o.type # "STRING" => \A i \in 1..Len(ValuesIn(o)) : ValuesIn(o)[i] \in D
      <4> DEFINE q == o
      <4>1. q = objects[v \div 2]
        OBVIOUS
      <4> HIDE DEF q, o
      <4>2. /\ q \in Objects /\ IsObject(q, Len(objects)) /\ ValuesIn(q) \in Seq(Int)
            /\ q.type # "STRING" => \A i \in 1..Len(ValuesIn(q)) : ValuesIn(q)[i] \in D
        BY <2>4, <4>1, MembersEnd
      <4>3. QED
        BY <4>2 DEF q
    <3>2. Len(objects) \in Nat
      BY SequenceEntries DEF Sound
    <3>3. IsCons(o) => ElementsOf(objects, o) \in Seq(D)
      BY <2>4, ElementsGrounded
    <3>4. \A u \in D : below[u] \in Seq(Seq(S))
      <4>1. k - 1 \in Nat /\ k - 1 < k
        BY <2>4
      <4>2. k - 1 \in T
        BY <1>3, <4>1
      <4>3. QED
        BY <4>2
    <3> DEFINE code == <<48, 120>> \o Numeral(16, o.members[1])
               Of(words) == [i \in DOMAIN words |-> below[words[i]]]
               values == Of(ValuesIn(o))
               tag == de_hash(o.tag)
    <3>5. e[v] = CASE o.type = "STRING"  -> <<<<34>> \o CText(o.members) \o <<34>>>>
                   [] o.type = "CLOSURE" ->
                        Enclosed(<<60, 99, 108, 111, 115, 117, 114, 101, 32>>,
                                 Listed(<<<<code>>>> \o values), <<62>>)
                   [] o.type = "ARRAY"   -> Enclosed(<<91>>, Listed(values), <<93>>)
                   [] IsCons(o)          -> Enclosed(<<123>>, Listed(Of(ElementsOf(objects, o))), <<125>>)
                   [] OTHER -> IF values = <<>> THEN <<tag>>
                               ELSE <<tag>> \o Enclosed(<<32, 40>>, Listed(values), <<41>>)
      BY <2>2, <2>4 DEF PiecesBody
    <3> HIDE DEF below, o, D, S, T
    <3>6. o.type # "STRING" => values \in Seq(Seq(Seq(S)))
      <4>1. SUFFICES ASSUME o.type # "STRING" PROVE values \in Seq(Seq(Seq(S)))
        OBVIOUS
      <4>2. ValuesIn(o) \in [1..Len(ValuesIn(o)) -> D] /\ Len(ValuesIn(o)) \in Nat
        BY <3>1, <4>1, SequenceEntries
      <4>3. ValuesIn(o) \in Seq(D)
        BY <4>2, FunctionIsSeq
      <4>4. QED
        BY <3>4, <4>3, WordsPieces
    <3>7. IsCons(o) => Of(ElementsOf(objects, o)) \in Seq(Seq(Seq(S)))
      BY <3>3, <3>4, WordsPieces
    <3>8. {91, 93, 123, 125} \subseteq S
      BY DEF S, Characters
    <3>9. <<91>> \in Seq(S) /\ <<93>> \in Seq(S) /\ <<123>> \in Seq(S) /\ <<125>> \in Seq(S)
      BY <3>8
    <3>9a. IsCons(o) => o.type = "SEXP"
      BY DEF IsCons
    <3> HIDE DEF values, Of, code, tag
    <3>10. CASE o.type = "STRING"
      <4>1. e[v] = <<<<34>> \o CText(o.members) \o <<34>>>>
        BY <3>5, <3>9a, <3>10
      <4>2. QED
        BY <3>1, <3>2, <3>10, <4>1, QuotedText DEF e, S
    <3>11. CASE o.type = "CLOSURE"
      <4>1. e[v] = Enclosed(<<60, 99, 108, 111, 115, 117, 114, 101, 32>>,
                            Listed(<<<<<<48, 120>> \o Numeral(16, o.members[1])>>>> \o values), <<62>>)
        BY <3>5, <3>9a, <3>11 DEF code
      <4>2. o.members[1] \in Int
        <5>1. o.members \in Seq(Int) /\ o.members # <<>>
          BY <3>1, <3>11, ValuesPart DEF IsObject
        <5>2. Len(o.members) \in Nat /\ Len(o.members) # 0
          BY <5>1, EmptySeq
        <5>3. 1 \in 1..Len(o.members)
          BY <5>2
        <5>4. QED
          BY <5>1, <5>3, ElementOfSeq
      <4>3. Enclosed(<<60, 99, 108, 111, 115, 117, 114, 101, 32>>,
                     Listed(<<<<<<48, 120>> \o Numeral(16, o.members[1])>>>> \o values), <<62>>)
              \in Seq(Seq(S))
        <5> DEFINE m == o.members[1]
        <5>1. m \in Int /\ values \in Seq(Seq(Seq(Characters \ {0})))
          BY <3>6, <3>11, <4>2 DEF S
        <5> HIDE DEF m
        <5>2. QED
          BY <5>1, ClosurePieces DEF m, S
      <4>4. QED
        BY <4>1, <4>3 DEF e
    <3>12. CASE o.type = "ARRAY"
      <4>1. e[v] = Enclosed(<<91>>, Listed(values), <<93>>)
        BY <3>5, <3>9a, <3>12
      <4>2. values \in Seq(Seq(Seq(Characters \ {0})))
        BY <3>6, <3>12 DEF S
      <4>3. <<91>> \in Seq(Characters \ {0}) /\ <<93>> \in Seq(Characters \ {0})
        BY <3>9 DEF S
      <4> DEFINE open == <<91>>
                 close == <<93>>
      <4> HIDE DEF open, close
      <4>4. Enclosed(open, Listed(values), close) \in Seq(Seq(Characters \ {0}))
        BY <4>2, <4>3, BracketPieces DEF open, close
      <4>5. QED
        BY <4>1, <4>4 DEF e, open, close, S
    <3>13. CASE o.type = "SEXP" /\ IsCons(o)
      <4>1. e[v] = Enclosed(<<123>>, Listed(Of(ElementsOf(objects, o))), <<125>>)
        BY <3>5, <3>13
      <4> DEFINE open == <<123>>
                 close == <<125>>
                 elements == Of(ElementsOf(objects, o))
      <4>2. elements \in Seq(Seq(Seq(Characters \ {0})))
        BY <3>7, <3>13 DEF S
      <4>3. open \in Seq(Characters \ {0}) /\ close \in Seq(Characters \ {0})
        BY <3>9 DEF S
      <4> HIDE DEF open, close, elements
      <4>4. Enclosed(open, Listed(elements), close) \in Seq(Seq(Characters \ {0}))
        BY <4>2, <4>3, BracketPieces
      <4>5. QED
        BY <4>1, <4>4 DEF e, open, close, elements, S
    <3>14. CASE o.type = "SEXP" /\ ~ IsCons(o)
      <4>1. e[v] = IF values = <<>> THEN <<tag>>
                   ELSE <<tag>> \o Enclosed(<<32, 40>>, Listed(values), <<41>>)
        BY <3>5, <3>14
      <4>2. tag \in Seq(S)
        BY <3>1, <3>14, TagText DEF tag, S
      <4>3. /\ <<tag>> \in Seq(Seq(S))
            /\ <<tag>> \o Enclosed(<<32, 40>>, Listed(values), <<41>>) \in Seq(Seq(S))
        BY <3>6, <3>14, <4>2, SexpPieces DEF S
      <4>4. QED
        BY <4>1, <4>3 DEF e
    <3>15. o.type \in {"STRING", "ARRAY", "SEXP", "CLOSURE"}
      BY <3>1 DEF Objects
    <3>16. QED
      BY <3>10, <3>11, <3>12, <3>13, <3>14, <3>15
  <2>5. QED
    BY <2>3, <2>4
<1> HIDE DEF T
<1>4. \A k \in Nat : k \in T
  BY <1>3, AllNaturals
<1>5. QED
  BY <1>4 DEF T, d

\* printValue, of the heap a state has.
LEMMA PrintedNow ==
  ASSUME NEW w
  PROVE  printValue(w) = Pieces!Defined(heap)[Len(heap) + 1][w]
BY DEF printValue, At, Elements, ElementsOf, From!Defined, ElementsStep, ElementsBody,
       Pieces!Defined, Depths, PiecesStep, PiecesBody

\* ... when the program prints the word on the top.
LEMMA PrintingTexts ==
  ASSUME Made(stack, heap), stack # <<>>, Printable(Arg(0))
  PROVE  printValue(Arg(0)) \in Seq(Seq(Characters \ {0}))
<1> DEFINE w == Arg(0)
<1>1. Sound(heap) /\ Len(heap) \in Nat
  BY SequenceEntries DEF Made, Sound
<1>2. IsWord(w, Len(heap))
  <2>1. Len(stack) \in Nat /\ Len(stack) # 0 /\ DOMAIN stack = 1..Len(stack)
    BY SequenceEntries, EmptySeq DEF Made
  <2>2. Len(stack) - 0 \in DOMAIN stack
    BY <2>1
  <2>3. QED
    BY <2>2 DEF Arg, SP, Made
<1> HIDE DEF w
<1>3. w \in Grounded(heap)
  BY <1>1, <1>2, PrintableEnds DEF w
<1>4. printValue(w) = Pieces!Defined(heap)[Len(heap) + 1][w]
  BY PrintedNow
<1>5. QED
  BY <1>1, <1>3, <1>4, PrintedTexts DEF w

\* Texts without a zero are texts.
LEMMA TextIsCharacters ==
  ASSUME NEW t \in Seq(Characters \ {0})
  PROVE  t \in Seq(Characters)
<1>1. Len(t) \in Nat /\ t \in [1..Len(t) -> Characters]
  BY SequenceEntries
<1>2. QED
  BY <1>1, FunctionIsSeq

-----------------------------------------------------------------------------
(* Printing.                                                                *)

\* The buffer is empty.
LEMMA CreatedBuf ==
  ASSUME createStringBuf
  PROVE  contents' \in Seq(Characters) /\ len' = Len(contents') /\ ptr' \in 0..(len' - 1)
<1>1. STRINGBUF_INIT \in Nat /\ STRINGBUF_INIT > 0
  BY BufAssumption
<1>2. contents' = [i \in 1..STRINGBUF_INIT |-> 0] /\ ptr' = 0 /\ len' = STRINGBUF_INIT
  BY DEF createStringBuf
<1>3. contents' \in [1..STRINGBUF_INIT -> Characters]
  BY <1>2 DEF Characters
<1>4. contents' \in Seq(Characters) /\ Len(contents') = STRINGBUF_INIT
  BY <1>1, <1>3, FunctionIsSeq
<1>5. QED
  BY <1>1, <1>2, <1>4

\* A piece, or its beginning, with a zero.
LEMMA PrintedBuf ==
  ASSUME contents \in Seq(Characters), len = Len(contents), ptr \in 0..(len - 1),
         NEW piece \in Seq(Characters)
  PROVE  Printed(piece) \in [1..len -> Characters] /\ len \in Nat
<1> DEFINE k == IF Len(piece) < rest THEN Len(piece) ELSE rest - 1
<1>1. /\ len \in Nat /\ Len(piece) \in Nat /\ ptr \in Int /\ rest = len - ptr
      /\ \A i \in 1..len : contents[i] \in Characters
      /\ \A i \in 1..Len(piece) : piece[i] \in Characters
  BY SequenceEntries DEF rest
<1>2. k \in 0..Len(piece)
  BY <1>1
<1> HIDE DEF k
<1>3. Printed(piece) = [i \in 1..len |-> IF i <= ptr \/ i > ptr + k + 1 THEN contents[i]
                                         ELSE IF i = ptr + k + 1 THEN 0
                                         ELSE piece[i - ptr]]
  BY DEF Printed, k
<1>4. 0 \in Characters
  BY DEF Characters
<1>5. ASSUME NEW i \in 1..len
      PROVE  (IF i <= ptr \/ i > ptr + k + 1 THEN contents[i]
              ELSE IF i = ptr + k + 1 THEN 0 ELSE piece[i - ptr]) \in Characters
  <2>1. ~ (i <= ptr \/ i > ptr + k + 1) /\ i # ptr + k + 1 => i - ptr \in 1..Len(piece)
    BY <1>1, <1>2
  <2>2. QED
    BY <1>1, <1>4, <2>1
<1>6. QED
  BY <1>1, <1>3, <1>5

\* The buffer keeps its room for a zero, whether it grows or not.
LEMMA PrintedOn ==
  ASSUME contents \in Seq(Characters), len = Len(contents), ptr \in 0..(len - 1),
         NEW piece \in Seq(Characters), Fits(piece) \/ Again(piece)
  PROVE  contents' \in Seq(Characters) /\ len' = Len(contents') /\ ptr' \in 0..(len' - 1)
<1>1. Printed(piece) \in [1..len -> Characters] /\ len \in Nat
  BY PrintedBuf
<1>2. Printed(piece) \in Seq(Characters) /\ Len(Printed(piece)) = len
  BY <1>1, FunctionIsSeq
<1>3. Len(piece) \in Nat /\ ptr \in Nat
  BY <1>1, SequenceEntries
<1>4. CASE Fits(piece)
  <2>1. contents' = Printed(piece) /\ ptr' = ptr + Len(piece) /\ len' = len /\ ~ Len(piece) >= len - ptr
    BY <1>4 DEF Fits, Truncated, rest
  <2>2. ptr' \in 0..(len' - 1)
    BY <1>1, <1>3, <2>1
  <2>3. QED
    BY <1>2, <2>1, <2>2
<1>5. CASE Again(piece)
  <2> DEFINE more == [i \in 1..len |-> Rubbish]
  <2>1. contents' = Printed(piece) \o more /\ len' = 2 * len /\ ptr' = ptr
    BY <1>5 DEF Again, extendStringBuf
  <2>2. Rubbish \in Characters
    BY BufAssumption DEF Characters
  <2>3. more \in Seq(Characters) /\ Len(more) = len
    <3>1. more \in [1..len -> Characters]
      BY <2>2
    <3>2. QED
      BY <1>1, <3>1, FunctionIsSeq
  <2> HIDE DEF more
  <2> DEFINE begun == Printed(piece)
  <2>4. contents' \in Seq(Characters) /\ Len(contents') = len + len
    <3>1. begun \in Seq(Characters) /\ Len(begun) = len /\ contents' = begun \o more
      BY <1>2, <2>1
    <3> HIDE DEF begun
    <3>2. begun \o more \in Seq(Characters) /\ Len(begun \o more) = Len(begun) + Len(more)
      BY <2>3, <3>1, ConcatProperties
    <3>3. QED
      BY <2>3, <3>1, <3>2
  <2>5. ptr' \in 0..(len' - 1) /\ len' = len + len
    BY <1>1, <1>3, <2>1
  <2>6. QED
    BY <2>4, <2>5
<1>6. QED
  BY <1>4, <1>5

\* Nothing of this is seen before the string is there.
LEMMA StringBegins ==
  ASSUME WellMade, RT_STRING
  PROVE  WellMade' /\ UNCHANGED Abstract!vars
<1>1. /\ state = "running" /\ state' = "printing" /\ Len(heap) < MaxObjects
      /\ createStringBuf /\ todo' = printValue(Arg(0)) /\ SP \in PrintAt /\ Printable(Arg(0))
      /\ stack' = stack /\ heap' = heap /\ effect' = effect
  BY DEF RT_STRING
<1>2. contents' \in Seq(Characters) /\ len' = Len(contents') /\ ptr' \in 0..(len' - 1)
  BY <1>1, CreatedBuf
<1>3. stack # <<>>
  <2>1. Len(stack) # 0
    BY <1>1, OperandsAssumption DEF SP
  <2>2. QED
    BY <2>1, EmptySeq
<1>4. printValue(Arg(0)) \in Seq(Seq(Characters \ {0}))
  BY <1>1, <1>3, PrintingTexts DEF WellMade
<1>5. WellMade'
  <2> DEFINE text == printValue(Arg(0))
  <2>1. text \in Seq(Seq(Characters \ {0})) /\ todo' = text
    BY <1>1, <1>4
  <2> HIDE DEF text
  <2>2. QED
    BY <1>1, <1>2, <1>3, <2>1 DEF WellMade
<1>6. QED
  BY <1>1, <1>5 DEF Abstract!vars

LEMMA PieceSeen ==
  ASSUME WellMade, PrintPiece
  PROVE  WellMade' /\ UNCHANGED Abstract!vars
<1>1. /\ state = "printing" /\ todo # <<>> /\ stack' = stack /\ heap' = heap
      /\ effect' = effect /\ state' = state
      /\ \/ Again(Head(todo)) /\ todo' = todo
         \/ Fits(Head(todo)) /\ todo' = Tail(todo)
  BY DEF PrintPiece
<1>2. /\ stack # <<>> /\ Len(heap) < MaxObjects /\ todo \in Seq(Seq(Characters \ {0}))
      /\ contents \in Seq(Characters) /\ len = Len(contents) /\ ptr \in 0..(len - 1)
  BY <1>1 DEF WellMade
<1>3. Head(todo) \in Seq(Characters) /\ Tail(todo) \in Seq(Seq(Characters \ {0}))
  BY <1>1, <1>2, HeadTailProperties, TextIsCharacters
<1>4. contents' \in Seq(Characters) /\ len' = Len(contents') /\ ptr' \in 0..(len' - 1)
  BY <1>1, <1>2, <1>3, PrintedOn
<1>5. todo' \in Seq(Seq(Characters \ {0}))
  BY <1>1, <1>2, <1>3
<1>6. WellMade'
  BY <1>1, <1>2, <1>4, <1>5 DEF WellMade
<1>7. QED
  BY <1>1, <1>6 DEF Abstract!vars

LEMMA PrintsImplements ==
  ASSUME WellMade, Prints
  PROVE  WellMade' /\ Abstract!Next
<1> DEFINE o == StringOf(contents)
           n == Len(heap)
           members == Abstract!Chars(CText(contents))
<1>1. /\ state = "printing" /\ state' = "running" /\ effect' = <<>>
      /\ stack' = Append(stack, Address(n + 1)) /\ heap' = Append(heap, o)
  BY DEF Prints, NewAddress, NoEffect
<1>2. /\ Made(stack, heap) /\ stack # <<>> /\ n < MaxObjects /\ contents \in Seq(Characters)
  BY <1>1 DEF WellMade
<1>3. stack \in Seq(Int) /\ heap \in Seq(Objects) /\ n \in Nat
  BY <1>2, SequenceEntries DEF Made
<1>4. /\ IsObject(o, n) /\ o \in Objects
      /\ CellOf(o) = [type |-> "STRING", name |-> <<>>, members |-> members]
  <2>1. /\ IsObject(o, n)
        /\ CellOf(o) = [type |-> "STRING", name |-> <<>>, members |-> members]
    BY <1>2, StringIsObject
  <2>2. QED
    BY <2>1 DEF IsObject
<1> HIDE DEF o, members
<1>5. WellMade'
  <2>1. Made(stack', heap')
    BY <1>1, <1>2, <1>4, MadeWithObject
  <2>2. QED
    BY <1>1, <2>1 DEF WellMade
<1>6. Address(n + 1) \in Int /\ ValueOf(Address(n + 1)) = Abstract!ref(n + 1)
  BY <1>2, <1>3, NewWord DEF Address
<1>7. ValuesOf(stack)' = Append(ValuesOf(stack), Abstract!ref(n + 1))
  BY <1>1, <1>3, <1>6, ValuesAppended
<1> DEFINE c == CellsOf(heap)
           new == CellsOf(heap)'
           x == [type |-> "STRING", name |-> <<>>, members |-> members]
<1>8. new = Append(c, x) /\ Len(c) = n /\ c = [k \in 1..n |-> c[k]]
  BY <1>1, <1>3, <1>4, CellsAppended, CellsSeen
<1> HIDE DEF c, new
<1>9. Len(new) = n + 1 /\ new[n + 1] = x
  <2>1. new = [k \in 1..(n + 1) |-> IF k = n + 1 THEN x ELSE c[k]]
    BY <1>3, <1>8, EntryAppended
  <2>2. new = [k \in 1..(n + 1) |-> new[k]] /\ n + 1 \in 1..(n + 1)
    BY <1>3, <2>1
  <2>3. Len(new) = n + 1
    BY <1>3, <2>2, Entries
  <2>4. QED
    BY <2>1, <2>2, <2>3
<1>10. new[Len(new)].members = members
  BY <1>9
<1>11. Len(ValuesOf(stack)) >= 1
  <2>1. Len(stack) \in Nat /\ Len(stack) # 0 /\ Len(ValuesOf(stack)) = Len(stack)
    BY <1>2, <1>3, EmptySeq, ValuesSeen
  <2>2. QED
    BY <2>1
<1>12. Abstract!Has(1)
  BY <1>1, <1>11 DEF Abstract!Has
<1>13. Abstract!Makes(ValuesOf(stack), "STRING", <<>>, new[Len(new)].members)
  <2>1. Abstract!Becomes(Append(ValuesOf(stack), Abstract!ref(n + 1)), Append(c, x), <<>>)
    BY <1>1, <1>7, <1>8 DEF Abstract!Becomes, new
  <2>2. QED
    BY <1>8, <1>10, <2>1 DEF Abstract!Makes, c
<1>14. Abstract!ToText
  BY <1>8, <1>9, <1>12, <1>13 DEF Abstract!ToText, c, new
<1>15. QED
  BY <1>5, <1>14 DEF Abstract!Next

-----------------------------------------------------------------------------
(* The buffer has what is printed.                                          *)

\* The beginning of a sequence.
LEMMA BeginningOf ==
  ASSUME NEW n \in Nat, NEW s, s = [i \in 1..n |-> s[i]], NEW k \in 0..n
  PROVE  SubSeq(s, 1, k) = [i \in 1..k |-> s[i]]
<1>1. 1 \in 1..(n + 1) /\ k \in 0..n /\ 1 <= k + 1 /\ k + 1 - 1 = k
  OBVIOUS
<1>2. SubSeq(s, 1, k) = [i \in 1..(k + 1 - 1) |-> s[1 - 1 + i]]
  BY <1>1, PartOfEntries
<1>3. QED
  BY <1>1, <1>2

\* A piece that fits follows what is there, and a zero follows it.
LEMMA PieceFits ==
  ASSUME contents \in Seq(Characters), len = Len(contents), ptr \in 0..(len - 1),
         NEW piece \in Seq(Characters \ {0}), Fits(piece)
  PROVE  /\ SubSeq(contents', 1, ptr') = SubSeq(contents, 1, ptr) \o piece
         /\ (\A i \in 1..ptr : contents[i] # 0) => \A i \in 1..(ptr') : (contents')[i] # 0
         /\ (contents')[ptr' + 1] = 0
<1> DEFINE k == Len(piece)
           n == ptr + k
           c == contents'
<1>1. /\ len \in Nat /\ k \in Nat /\ ptr \in Nat
      /\ contents = [i \in 1..len |-> contents[i]] /\ piece = [i \in 1..k |-> piece[i]]
      /\ \A i \in 1..k : piece[i] # 0
  BY SequenceEntries
<1>2. contents' = Printed(piece) /\ ptr' = n /\ ~ k >= len - ptr
  BY DEF Fits, Truncated, rest
<1>3. Printed(piece) = [i \in 1..len |-> IF i <= ptr \/ i > ptr + k + 1 THEN contents[i]
                                         ELSE IF i = ptr + k + 1 THEN 0
                                         ELSE piece[i - ptr]]
  BY <1>2 DEF Printed, rest
<1> HIDE DEF k
<1>4. n \in 0..len /\ n + 1 \in 1..len /\ n \in Nat
  BY <1>1, <1>2
<1>5. c = [i \in 1..len |-> IF i <= ptr \/ i > n + 1 THEN contents[i]
                            ELSE IF i = n + 1 THEN 0
                            ELSE piece[i - ptr]]
  BY <1>2, <1>3
<1> HIDE DEF c
<1>6. /\ c = [i \in 1..len |-> c[i]]
      /\ c[n + 1] = 0
      /\ \A i \in 1..n : c[i] = IF i <= ptr THEN contents[i] ELSE piece[i - ptr]
  <2>1. c = [i \in 1..len |-> c[i]]
    BY <1>5
  <2>2. c[n + 1] = 0
    BY <1>1, <1>4, <1>5
  <2>3. \A i \in 1..n : i \in 1..len /\ ~ i > n + 1 /\ i # n + 1
    BY <1>4
  <2>4. QED
    BY <1>5, <2>1, <2>2, <2>3
<1>7. SubSeq(c, 1, n) = [i \in 1..n |-> c[i]]
  BY <1>1, <1>4, <1>6, BeginningOf
<1> DEFINE a == SubSeq(contents, 1, ptr)
<1>8. a = [i \in 1..ptr |-> contents[i]]
  BY <1>1, BeginningOf
<1> HIDE DEF a
<1>9. a \o piece = [i \in 1..(ptr + k) |-> IF i <= ptr THEN a[i] ELSE piece[i - ptr]]
  <2>1. a = [i \in 1..ptr |-> a[i]]
    BY <1>8
  <2>2. QED
    BY <1>1, <2>1, EntriesJoined
<1>10. \A i \in 1..n : c[i] = IF i <= ptr THEN a[i] ELSE piece[i - ptr]
  <2>1. \A i \in 1..n : i <= ptr => i \in 1..ptr
    BY <1>1, <1>4
  <2>2. QED
    BY <1>6, <1>8, <2>1
<1>11. SubSeq(c, 1, n) = a \o piece
  BY <1>7, <1>9, <1>10
<1>12. (\A i \in 1..ptr : contents[i] # 0) => \A i \in 1..n : c[i] # 0
  <2>1. \A i \in 1..n : /\ i <= ptr => i \in 1..ptr
                        /\ ~ i <= ptr => i - ptr \in 1..k
    BY <1>1, <1>4
  <2>2. QED
    BY <1>1, <1>6, <2>1
<1>13. QED
  BY <1>2, <1>6, <1>11, <1>12 DEF a, c

\* A longer buffer begins as the shorter one did.
LEMMA BufferGrows ==
  ASSUME contents \in Seq(Characters), len = Len(contents), ptr \in 0..(len - 1),
         NEW piece \in Seq(Characters \ {0}), Again(piece)
  PROVE  /\ SubSeq(contents', 1, ptr') = SubSeq(contents, 1, ptr)
         /\ (\A i \in 1..ptr : contents[i] # 0) => \A i \in 1..(ptr') : (contents')[i] # 0
<1> DEFINE more == [i \in 1..len |-> Rubbish]
           c == contents'
           begun == Printed(piece)
           k == IF Len(piece) < rest THEN Len(piece) ELSE rest - 1
<1>1. /\ len \in Nat /\ ptr \in Nat /\ contents = [i \in 1..len |-> contents[i]]
  BY SequenceEntries
<1>2. c = begun \o more /\ ptr' = ptr
  BY DEF Again, extendStringBuf
<1>3. begun = [i \in 1..len |-> IF i <= ptr \/ i > ptr + k + 1 THEN contents[i]
                                ELSE IF i = ptr + k + 1 THEN 0
                                ELSE piece[i - ptr]]
  BY DEF Printed
<1> HIDE DEF k, c, begun
<1>4. begun = [i \in 1..len |-> begun[i]] /\ \A i \in 1..ptr : begun[i] = contents[i]
  <2>1. begun = [i \in 1..len |-> begun[i]]
    BY <1>3
  <2>2. \A i \in 1..ptr : i \in 1..len /\ i <= ptr
    BY <1>1
  <2>3. \A i \in 1..ptr : begun[i] = contents[i]
    BY <1>3, <2>2
  <2>4. QED
    BY <2>1, <2>3
<1>5. more = [i \in 1..len |-> more[i]]
  OBVIOUS
<1> HIDE DEF more
<1>6. c = [i \in 1..(len + len) |-> IF i <= len THEN begun[i] ELSE more[i - len]]
  BY <1>1, <1>2, <1>4, <1>5, EntriesJoined
<1>7. /\ c = [i \in 1..(len + len) |-> c[i]]
      /\ \A i \in 1..ptr : c[i] = contents[i]
  <2>1. \A i \in 1..ptr : i \in 1..(len + len) /\ i <= len
    BY <1>1
  <2>2. QED
    BY <1>4, <1>6, <2>1
<1>8. SubSeq(c, 1, ptr) = [i \in 1..ptr |-> c[i]]
  BY <1>1, <1>7, BeginningOf
<1>9. SubSeq(contents, 1, ptr) = [i \in 1..ptr |-> contents[i]]
  BY <1>1, BeginningOf
<1>10. SubSeq(c, 1, ptr) = SubSeq(contents, 1, ptr)
  BY <1>7, <1>8, <1>9
<1>11. QED
  BY <1>2, <1>7, <1>10 DEF c

\* A text that ends at the first zero.
LEMMA TextUpTo ==
  ASSUME contents \in Seq(Characters), len = Len(contents), ptr \in 0..(len - 1),
         \A i \in 1..ptr : contents[i] # 0, contents[ptr + 1] = 0
  PROVE  CText(contents) = SubSeq(contents, 1, ptr)
<1>1. contents \in Seq(Int) /\ len \in Nat /\ ptr \in Nat
  <2>1. len \in Nat /\ ptr \in Nat
    BY SequenceEntries
  <2>2. QED
    BY <2>1, CharactersAreInts
<1>2. PICK n \in 0..len : /\ CText(contents) = SubSeq(contents, 1, n)
                          /\ \A i \in 1..n : contents[i] # 0
                          /\ n < len => contents[n + 1] = 0
  BY <1>1, TextUpToZero
<1>3. ~ n < ptr
  <2>1. n < ptr => n + 1 \in 1..ptr /\ n < len
    BY <1>1, <1>2
  <2>2. QED
    BY <1>2, <2>1
<1>4. ~ n > ptr
  <2>1. n > ptr => ptr + 1 \in 1..n
    BY <1>1, <1>2
  <2>2. QED
    BY <1>2, <2>1
<1>5. n = ptr
  BY <1>1, <1>2, <1>3, <1>4
<1>6. QED
  BY <1>2, <1>5

LEMMA PrintedSame ==
  ASSUME heap' = heap, stack' = stack
  PROVE  (printValue(Arg(0)))' = printValue(Arg(0))
<1>1. Arg(0)' = Arg(0)
  BY DEF Arg, SP
<1>2. (printValue(Arg(0)))' = Pieces!Defined(heap')[Len(heap') + 1][Arg(0)']
  BY DEF printValue, At, Elements, ElementsOf, From!Defined, ElementsStep, ElementsBody,
         Pieces!Defined, Depths, PiecesStep, PiecesBody
<1>3. printValue(Arg(0)) = Pieces!Defined(heap)[Len(heap) + 1][Arg(0)]
  BY PrintedNow
<1>4. QED
  BY <1>1, <1>2, <1>3

\* No other action prints.
LEMMA OthersRun ==
  ASSUME Next, ~ RT_STRING, ~ PrintPiece, ~ Prints
  PROVE  state = "running" /\ state' \in {"running", "failed", "strayed"}
<1> DEFINE Runs == state = "running" /\ state' \in {"running", "failed", "strayed"}
<1> SUFFICES Runs
  OBVIOUS
<1>1. ASSUME NEW s, NEW h, NEW e, Ready(0) \/ Ready(1) \/ Ready(2) \/ Ready(3), Becomes(s, h, e)
      PROVE  Runs
  BY <1>1 DEF Ready, Becomes
<1>2. ASSUME NEW how \in {"failed", "strayed"},
             Ready(0) \/ Ready(1) \/ Ready(2) \/ Ready(3), Ends(how)
      PROVE  Runs
  BY <1>2 DEF Ready, Ends
<1>3. ASSUME NEW s, NEW w, Ready(0) \/ Ready(1) \/ Ready(2) \/ Ready(3), Pushes(s, w)
      PROVE  Runs
  BY <1>1, <1>3 DEF Pushes
<1>4. ASSUME NEW s, NEW o, Ready(0) \/ Ready(1) \/ Ready(2) \/ Ready(3), Makes(s, o)
      PROVE  Runs
  BY <1>1, <1>4 DEF Makes
<1> HIDE DEF Runs
<1>5. CASE BINOP
  BY <1>2, <1>3, <1>5 DEF BINOP
<1>6. CASE MI_CONST
  BY <1>3, <1>6 DEF MI_CONST
<1>7. CASE MI_STRING
  BY <1>4, <1>7 DEF MI_STRING
<1>8. CASE MI_SEXP
  BY <1>2, <1>4, <1>8 DEF MI_SEXP
<1>9. CASE MI_STA
  BY <1>1, <1>2, <1>9 DEF MI_STA
<1>10. CASE MI_DROP
  BY <1>1, <1>10 DEF MI_DROP
<1>11. CASE MI_DUP
  BY <1>3, <1>11 DEF MI_DUP
<1>12. CASE MI_SWAP
  BY <1>1, <1>12 DEF MI_SWAP
<1>13. CASE MI_ELEM
  BY <1>2, <1>3, <1>13 DEF MI_ELEM
<1>14. CASE CTRL_CJMP
  BY <1>1, <1>14 DEF CTRL_CJMP
<1>15. CASE CTRL_CLOSURE
  BY <1>4, <1>15 DEF CTRL_CLOSURE
<1>16. CASE CTRL_TAG
  BY <1>2, <1>3, <1>16 DEF CTRL_TAG
<1>17. CASE CTRL_ARRAY
  BY <1>3, <1>17 DEF CTRL_ARRAY
<1>18. CASE CTRL_FAIL
  BY <1>2, <1>18 DEF CTRL_FAIL
<1>19. CASE PATT_STRING
  BY <1>2, <1>3, <1>19 DEF PATT_STRING
<1>20. CASE PATT
  BY <1>3, <1>20 DEF PATT
<1>21. CASE RT_READ
  BY <1>3, <1>21 DEF RT_READ
<1>22. CASE RT_WRITE
  BY <1>1, <1>22 DEF RT_WRITE
<1>23. CASE RT_LENGTH
  BY <1>2, <1>3, <1>23 DEF RT_LENGTH
<1>24. CASE RT_BARRAY
  BY <1>2, <1>4, <1>24 DEF RT_BARRAY
<1>25. QED
  BY <1>5, <1>6, <1>7, <1>8, <1>9, <1>10, <1>11, <1>12, <1>13, <1>14, <1>15, <1>16, <1>17,
     <1>18, <1>19, <1>20, <1>21, <1>22, <1>23, <1>24 DEF Next, PrintStep

\* Everything is still to print.
LEMMA PrintingBegins ==
  ASSUME WellMade, RT_STRING
  PROVE  PrintedSoFar'
<1> DEFINE S == Characters \ {0}
           text == FlattenSeq(printValue(Arg(0)))
           c == contents'
<1>1. /\ heap' = heap /\ stack' = stack /\ createStringBuf /\ Printable(Arg(0))
      /\ todo' = printValue(Arg(0)) /\ SP \in PrintAt
  BY DEF RT_STRING
<1>2. (printValue(Arg(0)))' = printValue(Arg(0))
  BY <1>1, PrintedSame
<1>3. stack # <<>> /\ Made(stack, heap)
  <2>1. Len(stack) # 0
    BY <1>1, OperandsAssumption DEF SP
  <2>2. QED
    BY <2>1, EmptySeq DEF WellMade
<1>4. printValue(Arg(0)) \in Seq(Seq(S))
  BY <1>1, <1>3, PrintingTexts
<1>5. text \in Seq(S)
  BY <1>4, FlatIsSeq
<1>6. /\ STRINGBUF_INIT \in Nat \ {0} /\ ptr' = 0
      /\ c = [i \in 1..STRINGBUF_INIT |-> 0]
  BY <1>1, BufAssumption DEF createStringBuf
<1> HIDE DEF S, text, c
<1>7. c = [i \in 1..STRINGBUF_INIT |-> c[i]] /\ c[0 + 1] = 0
  BY <1>6
<1>8. SubSeq(c, 1, 0) = <<>>
  <2>1. SubSeq(c, 1, 0) = [i \in 1..0 |-> c[i]]
    BY <1>6, <1>7, BeginningOf
  <2>2. Len(SubSeq(c, 1, 0)) = 0 /\ SubSeq(c, 1, 0) \in Seq(Nat)
    <3> DEFINE a == SubSeq(c, 1, 0)
    <3>1. a \in [1..0 -> Nat]
      BY <2>1
    <3> HIDE DEF a
    <3>2. a \in Seq(Nat) /\ Len(a) = 0
      BY <3>1, FunctionIsSeq
    <3>3. QED
      BY <3>2 DEF a
  <2>3. QED
    BY <2>2, EmptySeq
<1>9. <<>> \o text = text
  BY <1>5, ConcatEmptySeq
<1>10. SubSeq(c, 1, ptr') \o FlattenSeq(todo') = text
  BY <1>1, <1>6, <1>8, <1>9 DEF text
<1>11. \A i \in 1..(ptr') : c[i] # 0
  BY <1>6
<1>12. c[ptr' + 1] = 0
  BY <1>6, <1>7
<1>13. QED
  BY <1>2, <1>10, <1>11, <1>12 DEF PrintedSoFar, text, c

\* A piece goes from what is to print to what is printed, or stays.
LEMMA PiecePrinted ==
  ASSUME WellMade, PrintedSoFar, PrintPiece
  PROVE  PrintedSoFar'
<1> DEFINE S == Characters \ {0}
           text == FlattenSeq(printValue(Arg(0)))
           piece == Head(todo)
           a == SubSeq(contents, 1, ptr)
           left == FlattenSeq(Tail(todo))
<1>1. /\ state = "printing" /\ todo # <<>> /\ heap' = heap /\ stack' = stack
      /\ \/ Again(piece) /\ todo' = todo
         \/ Fits(piece) /\ todo' = Tail(todo)
  BY DEF PrintPiece
<1>2. (printValue(Arg(0)))' = printValue(Arg(0))
  BY <1>1, PrintedSame
<1>3. /\ contents \in Seq(Characters) /\ len = Len(contents) /\ ptr \in 0..(len - 1)
      /\ todo \in Seq(Seq(S))
  BY <1>1 DEF WellMade
<1>4. piece \in Seq(S) /\ Tail(todo) \in Seq(Seq(S))
  BY <1>1, <1>3, HeadTailProperties
<1>5. /\ a \o FlattenSeq(todo) = text
      /\ \A i \in 1..ptr : contents[i] # 0
  BY <1>1 DEF PrintedSoFar
<1>6. CASE Again(piece) /\ todo' = todo
  <2>1. /\ SubSeq(contents', 1, ptr') = a
        /\ \A i \in 1..(ptr') : (contents')[i] # 0
    BY <1>3, <1>4, <1>5, <1>6, BufferGrows
  <2>2. QED
    BY <1>1, <1>2, <1>5, <1>6, <2>1 DEF PrintedSoFar
<1>7. CASE Fits(piece) /\ todo' = Tail(todo)
  <2>1. /\ SubSeq(contents', 1, ptr') = a \o piece
        /\ \A i \in 1..(ptr') : (contents')[i] # 0
        /\ (contents')[ptr' + 1] = 0
    BY <1>3, <1>4, <1>5, <1>7, PieceFits
  <2>2. FlattenSeq(todo) = piece \o left
    BY <1>1, <1>3, FlatHead
  <2>3. left \in Seq(S) /\ piece \in Seq(Characters)
    <3>1. left \in Seq(S)
      BY <1>4, FlatIsSeq
    <3>2. QED
      BY <1>4, <3>1, TextIsCharacters
  <2>4. a \in Seq(Characters) /\ left \in Seq(Characters)
    <3>1. \A i \in 1..ptr : contents[i] \in Characters
      <4>1. len \in Nat /\ \A i \in 1..len : contents[i] \in Characters
        BY <1>3, SequenceEntries
      <4>2. QED
        BY <1>3, <4>1
    <3>2. a \in Seq(Characters)
      BY <1>3, <3>1, SubSeqProperties
    <3>3. QED
      BY <2>3, <3>2, TextIsCharacters
  <2> HIDE DEF a, piece, left
  <2>5. (a \o piece) \o left = a \o (piece \o left)
    BY <2>3, <2>4, ConcatAssociative
  <2>6. SubSeq(contents', 1, ptr') \o FlattenSeq(todo') = text
    BY <1>5, <1>7, <2>1, <2>2, <2>5 DEF left
  <2>7. QED
    BY <1>2, <2>1, <2>6 DEF PrintedSoFar
<1>8. QED
  BY <1>1, <1>6, <1>7

\* The string is the text.
LEMMA StringPrinted ==
  ASSUME WellMade, PrintedSoFar, Prints
  PROVE  heap'[Len(heap')].members = FlattenSeq(printValue(Arg(0)))
<1> DEFINE o == StringOf(contents)
           a == SubSeq(contents, 1, ptr)
<1>1. state = "printing" /\ todo = <<>> /\ heap' = Append(heap, o)
  BY DEF Prints
<1>2. /\ contents \in Seq(Characters) /\ len = Len(contents) /\ ptr \in 0..(len - 1)
      /\ heap \in Seq(Objects)
  BY <1>1 DEF WellMade, Made
<1>3. /\ a \o FlattenSeq(todo) = FlattenSeq(printValue(Arg(0)))
      /\ \A i \in 1..ptr : contents[i] # 0
      /\ contents[ptr + 1] = 0
  BY <1>1 DEF PrintedSoFar
<1>4. CText(contents) = a
  BY <1>2, <1>3, TextUpTo
<1>5. a \o <<>> = a
  <2>1. \A i \in 1..ptr : contents[i] \in Characters
    <3>1. len \in Nat /\ \A i \in 1..len : contents[i] \in Characters
      BY <1>2, SequenceEntries
    <3>2. QED
      BY <1>2, <3>1
  <2>2. a \in Seq(Characters)
    BY <1>2, <2>1, SubSeqProperties
  <2>3. QED
    BY <2>2, ConcatEmptySeq
<1>6. FlattenSeq(todo) = <<>>
  BY <1>1 DEF FlattenSeq
<1>7. o.members = CText(contents)
  BY DEF StringOf, Object
<1> HIDE DEF o
<1>8. heap'[Len(heap')] = o
  <2> DEFINE n == Len(heap)
             h == Append(heap, o)
  <2>1. n \in Nat /\ heap = [k \in 1..n |-> heap[k]]
    BY <1>2, SequenceEntries
  <2> HIDE DEF n
  <2>2. h = [k \in 1..(n + 1) |-> IF k = n + 1 THEN o ELSE heap[k]]
    BY <2>1, EntryAppended
  <2> HIDE DEF h
  <2>3. h = [k \in 1..(n + 1) |-> h[k]] /\ h[n + 1] = o
    BY <2>1, <2>2
  <2>4. Len(h) = n + 1
    BY <2>1, <2>3, Entries
  <2>5. QED
    BY <1>1, <2>3, <2>4 DEF h
<1>9. QED
  BY <1>3, <1>4, <1>5, <1>6, <1>7, <1>8

-----------------------------------------------------------------------------
(* The program.                                                             *)

LEMMA InitImplements ==
  ASSUME Init
  PROVE  WellMade /\ Abstract!Init
<1>1. PICK start \in Starts : stack = start.stack /\ heap = start.heap
  BY DEF Init
<1>2. Made(stack, heap)
  BY <1>1, StartsAssumption
<1>3. state = "running" /\ effect = <<>>
  BY DEF Init, NoEffect
<1>4. WellMade
  BY <1>2, <1>3 DEF WellMade
<1>5. [stack |-> ValuesOf(stack), cells |-> CellsOf(heap)]
        \in {[stack |-> ValuesOf(s.stack), cells |-> CellsOf(s.heap)] : s \in Starts}
  BY <1>1
<1>6. QED
  BY <1>3, <1>4, <1>5 DEF Abstract!Init

\* Every step keeps the words and objects in order, and is one of LamaMachine
\* or is not seen.
LEMMA NextImplements ==
  ASSUME WellMade, [Next]_vars
  PROVE  WellMade' /\ [Abstract!Next]_(Abstract!vars)
<1>1. CASE BINOP
  BY <1>1, BinopImplements
<1>2. CASE MI_CONST
  BY <1>2, ConstImplements
<1>3. CASE MI_STRING
  BY <1>3, StringImplements
<1>4. CASE MI_SEXP
  BY <1>4, SexpImplements
<1>5. CASE MI_STA
  BY <1>5, StaImplements
<1>6. CASE MI_DROP
  BY <1>6, DropImplements
<1>7. CASE MI_DUP
  BY <1>7, DupImplements
<1>8. CASE MI_SWAP
  BY <1>8, SwapImplements
<1>9. CASE MI_ELEM
  BY <1>9, ElemImplements
<1>10. CASE CTRL_CJMP
  BY <1>10, JumpImplements
<1>11. CASE CTRL_CLOSURE
  BY <1>11, ClosureImplements
<1>12. CASE CTRL_TAG
  BY <1>12, TagImplements
<1>13. CASE CTRL_ARRAY
  BY <1>13, ArrayImplements
<1>14. CASE CTRL_FAIL
  BY <1>14, FailImplements
<1>15. CASE PATT_STRING
  BY <1>15, StringPattImplements
<1>16. CASE PATT
  BY <1>16, PattImplements
<1>17. CASE RT_READ
  BY <1>17, ReadImplements
<1>18. CASE RT_WRITE
  BY <1>18, WriteImplements
<1>19. CASE RT_LENGTH
  BY <1>19, LengthImplements
<1>20. CASE RT_BARRAY
  BY <1>20, BarrayImplements
<1>21. CASE RT_STRING
  BY <1>21, StringBegins
<1>22. CASE PrintPiece
  BY <1>22, PieceSeen
<1>23. CASE Prints
  BY <1>23, PrintsImplements
<1>24. CASE UNCHANGED vars
  <2>1. WellMade'
    BY <1>24 DEF vars, sbuf, WellMade
  <2>2. UNCHANGED Abstract!vars
    BY <1>24 DEF vars, Abstract!vars
  <2>3. QED
    BY <2>1, <2>2
<1>25. QED
  BY <1>1, <1>2, <1>3, <1>4, <1>5, <1>6, <1>7, <1>8, <1>9, <1>10, <1>11, <1>12, <1>13, <1>14,
     <1>15, <1>16, <1>17, <1>18, <1>19, <1>20, <1>21, <1>22, <1>23, <1>24 DEF Next, PrintStep

\* Whatever the instructions are applied to, the stack and the objects hold
\* words, characters and hashes of names where they should.
THEOREM ProgramsMakeWords == Spec => []WellMade
<1>1. Init => WellMade
  BY InitImplements
<1>2. WellMade /\ [Next]_vars => WellMade'
  BY NextImplements
<1>3. QED
  BY <1>1, <1>2, PTL DEF Spec

\* What a program holds, on its stack and in its objects, are words.
LEMMA HeldWords ==
  ASSUME WellMade, NEW w \in ValuesHeld
  PROVE  IsWord(w, Len(heap))
<1>1. CASE w \in ToSet(stack)
  BY <1>1 DEF ToSet, WellMade, Made
<1>2. CASE w \notin ToSet(stack)
  <2>1. PICK k \in DOMAIN heap : heap[k].type # "STRING" /\ w \in ToSet(ValuesIn(heap[k]))
    BY <1>2 DEF ValuesHeld
  <2>2. IsObject(heap[k], Len(heap))
    BY DEF WellMade, Made
  <2>3. PICK i \in DOMAIN ValuesIn(heap[k]) : w = ValuesIn(heap[k])[i]
    BY <2>1 DEF ToSet
  <2>4. QED
    BY <2>1, <2>2, <2>3 DEF IsObject
<1>3. QED
  BY <1>1, <1>2

\* No word is ever anything but an integer or the address of an object.
THEOREM WordsAlwaysResolve == Spec => []WordsResolve
<1>1. ASSUME WellMade
      PROVE  WordsResolve
  <2>1. ASSUME NEW w, IsWord(w, Len(heap))
        PROVE  w \in AllWords /\ (UNBOXED(w) \/ w \in {Address(k) : k \in DOMAIN heap})
    <3>1. w \in AllWords /\ (~ UNBOXED(w) => w = 2 * (w \div 2))
      BY <2>1, WordParts DEF IsWord
    <3>2. heap \in Seq(Objects) /\ DOMAIN heap = 1..Len(heap)
      BY <1>1, SequenceEntries DEF WellMade, Made
    <3>3. CASE ~ UNBOXED(w)
      <4>1. w \div 2 \in DOMAIN heap /\ w = Address(w \div 2)
        BY <2>1, <3>1, <3>2, <3>3 DEF IsWord, Address
      <4>2. QED
        BY <3>1, <4>1
    <3>4. QED
      BY <3>1, <3>3
  <2>2. QED
    BY <1>1, <2>1, HeldWords DEF WordsResolve
<1>2. QED
  BY <1>1, ProgramsMakeWords, PTL

\* The instructions do on words what LamaMachine says they do on integers and
\* references: the refinement the run checks on its instance.
THEOREM MachineImplemented == Spec => ImplementsMachine
<1>1. Init => WellMade /\ Abstract!Init
  BY InitImplements
<1>2. WellMade /\ [Next]_vars => WellMade' /\ [Abstract!Next]_(Abstract!vars)
  BY NextImplements
<1>3. QED
  BY <1>1, <1>2, PTL DEF Spec, ImplementsMachine, Abstract!Spec
\* Lstring: the buffer has the text of the value so far at every step, and the
\* string that is made has all of it, whatever the sizes of the buffer and of
\* the pieces, and whatever realloc leaves in the new bytes.
THEOREM BufferInOrder == Spec => []PrintedSoFar
<1>1. Init => PrintedSoFar
  BY DEF Init, PrintedSoFar
<1>2. ASSUME WellMade, PrintedSoFar, [Next]_vars
      PROVE  PrintedSoFar'
  <2>1. CASE RT_STRING
    BY <1>2, <2>1, PrintingBegins
  <2>2. CASE PrintPiece
    BY <1>2, <2>2, PiecePrinted
  <2>3. CASE Prints
    BY <2>3 DEF Prints, PrintedSoFar
  <2>4. CASE Next /\ ~ RT_STRING /\ ~ PrintPiece /\ ~ Prints
    <3>1. state' # "printing"
      BY <2>4, OthersRun
    <3>2. QED
      BY <3>1 DEF PrintedSoFar
  <2>5. CASE UNCHANGED vars
    <3>1. (printValue(Arg(0)))' = printValue(Arg(0))
      BY <2>5, PrintedSame DEF vars
    <3>2. QED
      BY <1>2, <2>5, <3>1 DEF vars, sbuf, PrintedSoFar
  <2>6. QED
    BY <1>2, <2>1, <2>2, <2>3, <2>4, <2>5
<1>3. QED
  BY <1>1, <1>2, ProgramsMakeWords, PTL DEF Spec

THEOREM EverythingPrinted == Spec => PrintsWhole
<1>1. ASSUME WellMade, PrintedSoFar, [Next]_vars, state = "printing" /\ state' = "running"
      PROVE  heap'[Len(heap')].members = FlattenSeq(printValue(Arg(0)))
  <2>1. CASE RT_STRING
    BY <1>1, <2>1 DEF RT_STRING
  <2>2. CASE PrintPiece
    BY <1>1, <2>2 DEF PrintPiece
  <2>3. CASE Prints
    BY <1>1, <2>3, StringPrinted
  <2>4. CASE Next /\ ~ RT_STRING /\ ~ PrintPiece /\ ~ Prints
    BY <1>1, <2>4, OthersRun
  <2>5. CASE UNCHANGED vars
    BY <1>1, <2>5 DEF vars
  <2>6. QED
    BY <1>1, <2>1, <2>2, <2>3, <2>4, <2>5
<1>2. QED
  BY <1>1, BufferInOrder, ProgramsMakeWords, PTL DEF Spec, PrintsWhole
=============================================================================
