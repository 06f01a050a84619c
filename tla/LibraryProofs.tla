----------------------------- MODULE LibraryProofs -----------------------------
(***************************************************************************)
(* What Lcompare and Lhash compute, for every value a program can hold     *)
(* that has no cycle.  Both go down an object level by level, and so do    *)
(* the proofs: what holds of the members holds of the object.              *)
(***************************************************************************)
EXTENDS Library, InterpProofs

-----------------------------------------------------------------------------
(* The first difference.                                                    *)

\* Two comparisons of the same things the other way round.
Opposed(x, y) == (x = 0 <=> y = 0) /\ (x < 0 <=> y > 0)

\* The comparisons of a first thing with a second one, of the second with a
\* third and of the first with the third.
Chained(x, y, z) == x <= 0 /\ y <= 0 => z <= 0 /\ (z = 0 <=> x = 0 /\ y = 0)

LEMMA FirstIsThere ==
  ASSUME NEW n \in Nat, NEW s \in [1..n -> Int]
  PROVE  \/ FirstNonzero(s) = 0 /\ \A i \in 1..n : s[i] = 0
         \/ \E k \in 1..n : /\ FirstNonzero(s) = s[k] /\ s[k] # 0
                            /\ \A i \in 1..n : i < k => s[i] = 0
<1> DEFINE found == {i \in 1..n : s[i] # 0}
           k == CHOOSE i \in found : \A j \in found : i <= j
<1>1. DOMAIN s = 1..n
  OBVIOUS
<1>2. FirstNonzero(s) = IF found = {} THEN 0 ELSE s[k]
  BY <1>1 DEF FirstNonzero
<1>3. CASE found = {}
  BY <1>2, <1>3
<1>4. CASE found # {}
  <2>1. found \subseteq Nat
    OBVIOUS
  <2> HIDE DEF found
  <2>2. \E i \in found : \A j \in found : i <= j
    BY <1>4, <2>1, LeastNatural
  <2>3. k \in found /\ \A j \in found : k <= j
    BY <2>2
  <2> HIDE DEF k
  <2>4. k \in 1..n /\ s[k] # 0 /\ \A i \in 1..n : s[i] # 0 => k <= i
    BY <2>3 DEF found
  <2>5. \A i \in 1..n : i < k => s[i] = 0
    BY <2>4
  <2>6. QED
    BY <1>2, <1>4, <2>4, <2>5
<1>5. QED
  BY <1>3, <1>4

LEMMA FirstIsInt ==
  ASSUME NEW n \in Nat, NEW s \in [1..n -> Int]
  PROVE  FirstNonzero(s) \in Int /\ (FirstNonzero(s) = 0 <=> \A i \in 1..n : s[i] = 0)
BY FirstIsThere

LEMMA FirstOpposed ==
  ASSUME NEW n \in Nat, NEW s \in [1..n -> Int], NEW t \in [1..n -> Int],
         \A i \in 1..n : Opposed(s[i], t[i])
  PROVE  Opposed(FirstNonzero(s), FirstNonzero(t))
<1>1. CASE \A i \in 1..n : s[i] = 0
  <2>1. \A i \in 1..n : t[i] = 0
    BY <1>1 DEF Opposed
  <2>2. FirstNonzero(s) = 0 /\ FirstNonzero(t) = 0
    BY <1>1, <2>1, FirstIsInt
  <2>3. QED
    BY <2>2 DEF Opposed
<1>2. CASE ~ \A i \in 1..n : s[i] = 0
  <2>1. PICK k \in 1..n : /\ FirstNonzero(s) = s[k] /\ s[k] # 0
                          /\ \A i \in 1..n : i < k => s[i] = 0
    BY <1>2, FirstIsThere
  <2>2. t[k] # 0 /\ \A i \in 1..n : i < k => t[i] = 0
    BY <2>1 DEF Opposed
  <2>3. PICK l \in 1..n : /\ FirstNonzero(t) = t[l] /\ t[l] # 0
                          /\ \A i \in 1..n : i < l => t[i] = 0
    BY <2>2, FirstIsThere
  <2>4. k = l
    BY <2>1, <2>2, <2>3
  <2>5. QED
    BY <2>1, <2>3, <2>4
<1>3. QED
  BY <1>1, <1>2

LEMMA FirstChained ==
  ASSUME NEW n \in Nat, NEW r \in [1..n -> Int], NEW s \in [1..n -> Int], NEW t \in [1..n -> Int],
         \A i \in 1..n : Chained(r[i], s[i], t[i])
  PROVE  Chained(FirstNonzero(r), FirstNonzero(s), FirstNonzero(t))
<1>1. SUFFICES ASSUME FirstNonzero(r) <= 0, FirstNonzero(s) <= 0
               PROVE  /\ FirstNonzero(t) <= 0
                      /\ FirstNonzero(t) = 0 <=> FirstNonzero(r) = 0 /\ FirstNonzero(s) = 0
  BY DEF Chained
<1> DEFINE bad == {i \in 1..n : r[i] # 0 \/ s[i] # 0}
<1>2. CASE bad = {}
  <2>1. \A i \in 1..n : r[i] = 0 /\ s[i] = 0
    BY <1>2
  <2>2. \A i \in 1..n : t[i] = 0
    BY <2>1 DEF Chained
  <2>3. QED
    BY <2>1, <2>2, FirstIsInt
<1>3. CASE bad # {}
  <2>1. bad \subseteq Nat
    OBVIOUS
  <2>2. PICK k \in bad : \A i \in bad : k <= i
    <3> HIDE DEF bad
    <3>1. QED
      BY <1>3, <2>1, LeastNatural
  <2>3. /\ k \in 1..n /\ (r[k] # 0 \/ s[k] # 0)
        /\ \A i \in 1..n : i < k => r[i] = 0 /\ s[i] = 0
    BY <2>2
  <2>4. \A i \in 1..n : i < k => t[i] = 0
    BY <2>3 DEF Chained
  <2>5. ASSUME NEW a \in [1..n -> Int], \A i \in 1..n : i < k => a[i] = 0, a[k] # 0
        PROVE  FirstNonzero(a) = a[k]
    <3>1. PICK l \in 1..n : /\ FirstNonzero(a) = a[l] /\ a[l] # 0
                            /\ \A i \in 1..n : i < l => a[i] = 0
      BY <2>3, <2>5, FirstIsThere
    <3>2. k = l
      BY <2>3, <2>5, <3>1
    <3>3. QED
      BY <3>1, <3>2
  <2>6. (r[k] # 0 => FirstNonzero(r) = r[k]) /\ (s[k] # 0 => FirstNonzero(s) = s[k])
    BY <2>3, <2>5
  <2>7. r[k] <= 0 /\ s[k] <= 0 /\ r[k] \in Int /\ s[k] \in Int /\ t[k] \in Int
    BY <1>1, <2>3, <2>6
  <2>8. t[k] <= 0 /\ t[k] # 0
    BY <2>3, <2>7 DEF Chained
  <2>9. FirstNonzero(t) = t[k] /\ (FirstNonzero(r) # 0 \/ FirstNonzero(s) # 0)
    BY <2>3, <2>4, <2>5, <2>6, <2>8
  <2>10. QED
    BY <2>8, <2>9
<1>4. QED
  BY <1>2, <1>3

\* Zeros at the end make no difference, nor does what comes after the first.
Begins(m, s, n, t) ==
  /\ \A i \in 1..m : s[i] = t[i]
  /\ (\A i \in 1..n : i > m => t[i] = 0) \/ (m # 0 /\ s[1] # 0)

LEMMA FirstSame ==
  ASSUME NEW n \in Nat, NEW m \in 0..n, NEW s \in [1..m -> Int], NEW t \in [1..n -> Int],
         Begins(m, s, n, t)
  PROVE  FirstNonzero(s) = FirstNonzero(t)
<1>1. /\ m \in Nat /\ 1..m \subseteq 1..n
      /\ \A i \in 1..m : s[i] = t[i]
      /\ (\A i \in 1..n : i > m => t[i] = 0) \/ (m # 0 /\ s[1] # 0)
  BY DEF Begins
<1>2. CASE \A i \in 1..m : s[i] = 0
  <2>1. \A i \in 1..n : t[i] = 0
    <3>1. SUFFICES ASSUME NEW i \in 1..n PROVE t[i] = 0
      OBVIOUS
    <3>2. m # 0 => 1 \in 1..m
      BY <1>1
    <3>3. \A l \in 1..n : l > m => t[l] = 0
      BY <1>1, <1>2, <3>2
    <3>4. i > m \/ i \in 1..m
      BY <1>1, <3>1
    <3>5. QED
      BY <1>1, <1>2, <3>3, <3>4
  <2>2. QED
    BY <1>1, <1>2, <2>1, FirstIsInt
<1>3. CASE ~ \A i \in 1..m : s[i] = 0
  <2>1. PICK k \in 1..m : /\ FirstNonzero(s) = s[k] /\ s[k] # 0
                          /\ \A i \in 1..m : i < k => s[i] = 0
    BY <1>1, <1>3, FirstIsThere
  <2>2. k \in 1..n /\ t[k] = s[k]
    BY <1>1, <2>1
  <2>3. PICK l \in 1..n : /\ FirstNonzero(t) = t[l] /\ t[l] # 0
                          /\ \A i \in 1..n : i < l => t[i] = 0
    BY <2>1, <2>2, FirstIsThere
  <2>4. l <= k
    BY <2>1, <2>2, <2>3
  <2>5. l \in 1..m
    BY <1>1, <2>1, <2>3, <2>4
  <2>6. k = l
    <3>1. s[l] # 0
      BY <1>1, <2>3, <2>5
    <3>2. ~ l < k
      BY <2>1, <2>5, <3>1
    <3>3. QED
      BY <2>4, <2>2, <3>2
  <2>7. QED
    BY <2>1, <2>2, <2>3, <2>6
<1>4. QED
  BY <1>2, <1>3

\* Numbers are ordered by their first difference.
Difference(n, x, y) == FirstNonzero([i \in 1..n |-> x[i] - y[i]])

LEMMA DifferencesOrder ==
  ASSUME NEW n \in Nat, NEW x \in [1..n -> Int], NEW y \in [1..n -> Int], NEW z \in [1..n -> Int]
  PROVE  /\ Difference(n, x, y) \in Int
         /\ Difference(n, x, y) = 0 <=> x = y
         /\ Opposed(Difference(n, x, y), Difference(n, y, x))
         /\ Chained(Difference(n, x, y), Difference(n, y, z), Difference(n, x, z))
<1> DEFINE xy == [i \in 1..n |-> x[i] - y[i]]
           yx == [i \in 1..n |-> y[i] - x[i]]
           yz == [i \in 1..n |-> y[i] - z[i]]
           xz == [i \in 1..n |-> x[i] - z[i]]
<1>1. /\ xy \in [1..n -> Int] /\ yx \in [1..n -> Int]
      /\ yz \in [1..n -> Int] /\ xz \in [1..n -> Int]
  OBVIOUS
<1>2. ASSUME NEW i \in 1..n
      PROVE  /\ x[i] \in Int /\ y[i] \in Int /\ z[i] \in Int
             /\ xy[i] = x[i] - y[i] /\ yx[i] = y[i] - x[i]
             /\ yz[i] = y[i] - z[i] /\ xz[i] = x[i] - z[i]
  OBVIOUS
<1> HIDE DEF xy, yx, yz, xz
<1>3. ASSUME NEW i \in 1..n
      PROVE  Opposed(xy[i], yx[i]) /\ Chained(xy[i], yz[i], xz[i]) /\ (xy[i] = 0 <=> x[i] = y[i])
  <2>1. /\ x[i] \in Int /\ y[i] \in Int /\ z[i] \in Int
        /\ xy[i] = x[i] - y[i] /\ yx[i] = y[i] - x[i]
        /\ yz[i] = y[i] - z[i] /\ xz[i] = x[i] - z[i]
    BY <1>2
  <2>2. QED
    BY <2>1 DEF Opposed, Chained
<1>4. x = y <=> \A i \in 1..n : xy[i] = 0
  BY <1>3
<1>5. FirstNonzero(xy) \in Int /\ (FirstNonzero(xy) = 0 <=> x = y)
  BY <1>1, <1>4, FirstIsInt
<1>6. Opposed(FirstNonzero(xy), FirstNonzero(yx))
  BY <1>1, <1>3, FirstOpposed
<1>7. Chained(FirstNonzero(xy), FirstNonzero(yz), FirstNonzero(xz))
  BY <1>1, <1>3, FirstChained
<1>8. QED
  BY <1>5, <1>6, <1>7 DEF Difference, xy, yx, yz, xz

-----------------------------------------------------------------------------
(* What is compared before the members.                                     *)

\* The head of an object, with zeros after it.
Fields(o) == [i \in 1..3 |-> IF i <= Len(HeadOf(o)) THEN HeadOf(o)[i] ELSE 0]

\* The numbers of a head are no more than half of the integers, so that none of
\* their differences wraps.
LEMMA HeadSeen ==
  ASSUME NEW n, NEW o, IsObject(o, n)
  PROVE  /\ o.type \in {"STRING", "ARRAY", "SEXP", "CLOSURE"}
         /\ TypeTag(o) \in {1, 3, 5, 7} /\ HeadOf(o)[1] = TypeTag(o)
         /\ Len(HeadOf(o)) = CASE o.type = "STRING" -> 1 [] o.type = "ARRAY" -> 2
                               [] o.type = "SEXP" -> 3 [] o.type = "CLOSURE" -> 3
         /\ o.type # "STRING" => Len(o.members) \in 0..(Half - 1)
         /\ o.type = "ARRAY" => HeadOf(o)[2] = Len(o.members)
         /\ o.type = "SEXP" => /\ HeadOf(o)[2] = o.tag /\ HeadOf(o)[3] = Len(o.members)
                               /\ o.tag \in 0..(Half - 1)
         /\ o.type = "CLOSURE" => /\ HeadOf(o)[2] = o.members[1] /\ HeadOf(o)[3] = Len(o.members)
                                  /\ o.members[1] \in 0..(Half - 1)
<1>1. o.type \in {"STRING", "ARRAY", "SEXP", "CLOSURE"}
  BY DEF IsObject, Objects
<1>2. TypeTag(o) = CASE o.type = "STRING" -> 1 [] o.type = "ARRAY" -> 3
                     [] o.type = "SEXP" -> 5 [] o.type = "CLOSURE" -> 7
  BY DEF TypeTag
<1>3. o.type # "STRING" => Len(o.members) \in 0..(Half - 1)
  <2>1. Len(o.members) \in Nat
    BY LengthSeen
  <2>2. o.type # "STRING" => Len(o.members) < Half
    BY DEF IsObject
  <2>3. QED
    BY <2>1, <2>2, HalfAssumption
<1>4. o.type = "SEXP" => o.tag \in 0..(Half - 1)
  BY TagsAssumption DEF IsObject
<1>5. o.type = "CLOSURE" => o.members[1] \in 0..(Half - 1)
  BY DEF IsObject
<1>6. CASE o.type = "STRING"
  <2>1. HeadOf(o) = <<TypeTag(o)>>
    BY <1>6 DEF HeadOf
  <2>2. QED
    BY <1>2, <1>6, <2>1
<1>7. CASE o.type = "ARRAY"
  <2>1. HeadOf(o) = <<TypeTag(o), Len(o.members)>>
    BY <1>7 DEF HeadOf
  <2>2. QED
    BY <1>2, <1>3, <1>7, <2>1
<1>8. CASE o.type = "SEXP"
  <2>1. HeadOf(o) = <<TypeTag(o), o.tag, Len(o.members)>>
    BY <1>8 DEF HeadOf
  <2>2. QED
    BY <1>2, <1>3, <1>4, <1>8, <2>1
<1>9. CASE o.type = "CLOSURE"
  <2>1. HeadOf(o) = <<TypeTag(o), o.members[1], Len(o.members)>>
    BY <1>9 DEF HeadOf
  <2>2. QED
    BY <1>2, <1>3, <1>5, <1>9, <2>1
<1>10. QED
  BY <1>1, <1>6, <1>7, <1>8, <1>9

LEMMA FieldsSeen ==
  ASSUME NEW n, NEW o, IsObject(o, n)
  PROVE  /\ Fields(o) \in [1..3 -> Int] /\ \A i \in 1..3 : Fields(o)[i] \in 0..(Half - 1)
         /\ Fields(o)[1] = TypeTag(o)
         /\ Fields(o)[2] = CASE o.type = "STRING" -> 0 [] o.type = "ARRAY" -> Len(o.members)
                             [] o.type = "SEXP" -> o.tag [] o.type = "CLOSURE" -> o.members[1]
         /\ Fields(o)[3] = CASE o.type = "STRING" -> 0 [] o.type = "ARRAY" -> 0
                             [] o.type = "SEXP" -> Len(o.members)
                             [] o.type = "CLOSURE" -> Len(o.members)
         /\ Len(HeadOf(o)) \in 1..3
         /\ \A i \in 1..3 : Fields(o)[i] = IF i <= Len(HeadOf(o)) THEN HeadOf(o)[i] ELSE 0
<1> DEFINE f == Fields(o)
<1>1. f = [i \in 1..3 |-> f[i]] /\ \A i \in 1..3 : f[i] = IF i <= Len(HeadOf(o)) THEN HeadOf(o)[i] ELSE 0
  BY DEF Fields
<1>2. 1 \in 1..3 /\ 2 \in 1..3 /\ 3 \in 1..3 /\ \A i \in 1..3 : i = 1 \/ i = 2 \/ i = 3
  OBVIOUS
<1> HIDE DEF f
<1>3. /\ Len(HeadOf(o)) \in 1..3 /\ f[1] = TypeTag(o)
      /\ f[2] = CASE o.type = "STRING" -> 0 [] o.type = "ARRAY" -> Len(o.members)
                  [] o.type = "SEXP" -> o.tag [] o.type = "CLOSURE" -> o.members[1]
      /\ f[3] = CASE o.type = "STRING" -> 0 [] o.type = "ARRAY" -> 0
                  [] o.type = "SEXP" -> Len(o.members)
                  [] o.type = "CLOSURE" -> Len(o.members)
  <2>1. CASE o.type = "STRING"
    BY <1>1, <1>2, <2>1, HeadSeen
  <2>2. CASE o.type = "ARRAY"
    BY <1>1, <1>2, <2>2, HeadSeen
  <2>3. CASE o.type = "SEXP"
    BY <1>1, <1>2, <2>3, HeadSeen
  <2>4. CASE o.type = "CLOSURE"
    BY <1>1, <1>2, <2>4, HeadSeen
  <2>5. QED
    BY <2>1, <2>2, <2>3, <2>4, HeadSeen
<1>4. f[1] \in 0..(Half - 1) /\ f[2] \in 0..(Half - 1) /\ f[3] \in 0..(Half - 1)
  <2>1. 0 \in 0..(Half - 1) /\ TypeTag(o) \in 0..(Half - 1)
    BY HeadSeen, HalfAssumption
  <2>2. QED
    BY <1>3, <2>1, HeadSeen
<1>5. \A i \in 1..3 : f[i] \in 0..(Half - 1) /\ f[i] \in Int
  BY <1>2, <1>4, HalfAssumption
<1>6. f \in [1..3 -> Int]
  BY <1>1, <1>5
<1>7. QED
  BY <1>1, <1>3, <1>5, <1>6 DEF f

\* Objects have one head when they have one type, one length and one tag or
\* code.
LEMMA FieldsTell ==
  ASSUME NEW n, NEW a, IsObject(a, n), NEW b, IsObject(b, n)
  PROVE  Fields(a) = Fields(b) <=>
           /\ a.type = b.type
           /\ a.type # "STRING" => Len(a.members) = Len(b.members)
           /\ a.type = "SEXP" => a.tag = b.tag
           /\ a.type = "CLOSURE" => a.members[1] = b.members[1]
<1>1. Fields(a) = Fields(b) <=> /\ Fields(a)[1] = Fields(b)[1]
                                /\ Fields(a)[2] = Fields(b)[2] /\ Fields(a)[3] = Fields(b)[3]
  <2>1. \A i \in 1..3 : i = 1 \/ i = 2 \/ i = 3
    OBVIOUS
  <2>2. Fields(a) \in [1..3 -> Int] /\ Fields(b) \in [1..3 -> Int]
    BY FieldsSeen
  <2>3. QED
    BY <2>1, <2>2
<1>2. a.type = b.type <=> TypeTag(a) = TypeTag(b)
  BY HeadSeen DEF TypeTag
<1>3. Fields(a)[1] = TypeTag(a) /\ Fields(b)[1] = TypeTag(b)
  BY FieldsSeen
<1>4. ASSUME a.type = b.type
      PROVE  Fields(a)[2] = Fields(b)[2] /\ Fields(a)[3] = Fields(b)[3] <=>
               /\ a.type # "STRING" => Len(a.members) = Len(b.members)
               /\ a.type = "SEXP" => a.tag = b.tag
               /\ a.type = "CLOSURE" => a.members[1] = b.members[1]
  <2> DEFINE Second(o) == CASE o.type = "STRING" -> 0 [] o.type = "ARRAY" -> Len(o.members)
                             [] o.type = "SEXP" -> o.tag [] o.type = "CLOSURE" -> o.members[1]
             Third(o) == CASE o.type = "STRING" -> 0 [] o.type = "ARRAY" -> 0
                           [] o.type = "SEXP" -> Len(o.members)
                           [] o.type = "CLOSURE" -> Len(o.members)
  <2>1. Fields(a)[2] = Second(a) /\ Fields(a)[3] = Third(a)
    BY FieldsSeen
  <2>2. Fields(b)[2] = Second(b) /\ Fields(b)[3] = Third(b)
    BY FieldsSeen
  <2>3. a.type \in {"STRING", "ARRAY", "SEXP", "CLOSURE"}
    BY HeadSeen
  <2>4. QED
    BY <1>4, <2>1, <2>2, <2>3
<1>5. QED
  BY <1>1, <1>2, <1>3, <1>4

\* The least of two numbers, and the greatest.
LEMMA MinOfTwo ==
  ASSUME NEW x \in Int, NEW y \in Int
  PROVE  /\ Min({x, y}) \in {x, y} /\ Min({x, y}) <= x /\ Min({x, y}) <= y
         /\ Max({x, y}) \in {x, y} /\ Max({x, y}) >= x /\ Max({x, y}) >= y
<1>1. \E a \in {x, y} : \A b \in {x, y} : a <= b
  OBVIOUS
<1>2. \E a \in {x, y} : \A b \in {x, y} : a >= b
  OBVIOUS
<1>3. Min({x, y}) \in {x, y} /\ \A b \in {x, y} : Min({x, y}) <= b
  BY <1>1 DEF Min
<1>4. Max({x, y}) \in {x, y} /\ \A b \in {x, y} : Max({x, y}) >= b
  BY <1>2 DEF Max
<1>5. QED
  BY <1>3, <1>4

\* Heads of different lengths have different types, and no number after the
\* first is looked at.
LEMMA HeadsSeen ==
  ASSUME NEW n, NEW a, IsObject(a, n), NEW b, IsObject(b, n)
  PROVE  HeadsCompared(a, b) = Difference(3, Fields(a), Fields(b))
<1> DEFINE m == Min({Len(HeadOf(a)), Len(HeadOf(b))})
           s == [i \in 1..m |-> AsInt(HeadOf(a)[i] - HeadOf(b)[i])]
           t == [i \in 1..3 |-> Fields(a)[i] - Fields(b)[i]]
<1>0. Len(HeadOf(a)) \in 1..3 /\ Len(HeadOf(b)) \in 1..3
  BY FieldsSeen
<1>1. /\ m \in 1..3 /\ m <= Len(HeadOf(a)) /\ m <= Len(HeadOf(b))
      /\ m = Len(HeadOf(a)) \/ m = Len(HeadOf(b))
  <2>1. Len(HeadOf(a)) \in Int /\ Len(HeadOf(b)) \in Int
    BY <1>0
  <2>2. /\ m \in {Len(HeadOf(a)), Len(HeadOf(b))}
        /\ m <= Len(HeadOf(a)) /\ m <= Len(HeadOf(b))
    BY <2>1, MinOfTwo
  <2> HIDE DEF m
  <2>3. QED
    BY <1>0, <2>2
<1>2. HeadsCompared(a, b) = FirstNonzero(s)
  BY DEF HeadsCompared
<1>3. Difference(3, Fields(a), Fields(b)) = FirstNonzero(t)
  BY DEF Difference
<1> HIDE DEF m
<1>4. ASSUME NEW i \in 1..3
      PROVE  /\ t[i] \in Int /\ t[i] \in Ints
             /\ t[i] = Fields(a)[i] - Fields(b)[i]
  <2>1. Fields(a)[i] \in 0..(Half - 1) /\ Fields(b)[i] \in 0..(Half - 1)
    BY FieldsSeen
  <2>2. QED
    BY <2>1, HalfAssumption DEF Ints
<1>5. ASSUME NEW i \in 1..m
      PROVE  s[i] = t[i]
  <2>1. i \in 1..3 /\ i <= Len(HeadOf(a)) /\ i <= Len(HeadOf(b))
    BY <1>1, FieldsSeen
  <2>2. HeadOf(a)[i] = Fields(a)[i] /\ HeadOf(b)[i] = Fields(b)[i]
    BY <2>1, FieldsSeen
  <2>3. AsInt(t[i]) = t[i]
    BY <1>4, <2>1, IntStays
  <2>4. QED
    BY <1>4, <2>1, <2>2, <2>3
<1>6. t \in [1..3 -> Int] /\ s \in [1..m -> Int]
  <2>1. t \in [1..3 -> Int]
    BY <1>4
  <2>2. \A i \in 1..m : i \in 1..3
    BY <1>1
  <2> HIDE DEF t
  <2>3. \A i \in 1..m : s[i] \in Int
    BY <1>4, <1>5, <2>2
  <2>4. s = [i \in 1..m |-> s[i]]
    OBVIOUS
  <2> HIDE DEF s
  <2>5. QED
    BY <2>1, <2>3, <2>4
<1> HIDE DEF s, t
<1>7. (\A i \in 1..3 : i > m => t[i] = 0) \/ (m # 0 /\ s[1] # 0)
  <2>1. CASE TypeTag(a) = TypeTag(b)
    <3>1. a.type = b.type
      BY <2>1, HeadSeen DEF TypeTag
    <3>2. Len(HeadOf(a)) = Len(HeadOf(b))
      BY <3>1, HeadSeen
    <3>3. m = Len(HeadOf(a)) /\ m = Len(HeadOf(b))
      BY <1>1, <3>2
    <3>4. ASSUME NEW i \in 1..3, i > m
          PROVE  t[i] = 0
      <4>1. ~ i <= Len(HeadOf(a)) /\ ~ i <= Len(HeadOf(b))
        BY <1>0, <3>3, <3>4
      <4>1a. Fields(a)[i] = 0 /\ Fields(b)[i] = 0
        BY <4>1, FieldsSeen
      <4>2. QED
        BY <1>4, <4>1a
    <3>5. QED
      BY <3>4
  <2>2. CASE TypeTag(a) # TypeTag(b)
    <3>1. 1 \in 1..m /\ m # 0 /\ 1 \in 1..3
      BY <1>1
    <3>2. s[1] = TypeTag(a) - TypeTag(b)
      BY <1>4, <1>5, <3>1, FieldsSeen
    <3>3. QED
      BY <2>2, <3>1, <3>2, HeadSeen
  <2>3. QED
    BY <2>1, <2>2
<1>8. FirstNonzero(s) = FirstNonzero(t)
  <2>1. m \in 0..3 /\ 3 \in Nat
    BY <1>1
  <2>2. Begins(m, s, 3, t)
    BY <1>5, <1>7 DEF Begins
  <2>3. QED
    BY <1>6, <2>1, <2>2, FirstSame
<1>9. QED
  BY <1>2, <1>3, <1>8 DEF s, t

-----------------------------------------------------------------------------
(* Texts.                                                                   *)

Bytes(s, n) == [i \in 1..n |-> IF i <= Len(s) THEN s[i] % 256 ELSE 0]

LEMMA BytesSeen ==
  ASSUME NEW s \in Seq(Characters \ {0}), NEW n \in Nat
  PROVE  /\ Bytes(s, n) \in [1..n -> Int] /\ Len(s) \in Nat
         /\ \A i \in 1..Len(s) : s[i] \in Characters /\ s[i] # 0 /\ s[i] % 256 # 0 /\ s[i] % 256 \in Int
<1>1. Len(s) \in Nat /\ \A i \in 1..Len(s) : s[i] \in Characters \ {0}
  BY SequenceEntries
<1>2. \A c \in Characters \ {0} : c % 256 # 0 /\ c % 256 \in Int
  BY DEF Characters
<1>3. \A i \in 1..Len(s) : s[i] % 256 \in Int
  BY <1>1, <1>2
<1>4. \A i \in 1..n : (IF i <= Len(s) THEN s[i] % 256 ELSE 0) \in Int
  BY <1>1, <1>3
<1>5. QED
  BY <1>1, <1>2, <1>4 DEF Bytes

\* As many zeros may follow as one likes.
LEMMA TextsSeen ==
  ASSUME NEW s \in Seq(Characters \ {0}), NEW t \in Seq(Characters \ {0}), NEW n \in Nat,
         Len(s) <= n, Len(t) <= n
  PROVE  strcmp(s, t) = Difference(n, Bytes(s, n), Bytes(t, n))
<1> DEFINE m == Max({Len(s), Len(t)})
           byte(text, i) == IF i <= Len(text) THEN text[i] % 256 ELSE 0
           c == [i \in 1..m |-> byte(s, i) - byte(t, i)]
           d == [i \in 1..n |-> Bytes(s, n)[i] - Bytes(t, n)[i]]
<1>0. Len(s) \in Nat /\ Len(t) \in Nat
  BY BytesSeen
<1>1. m \in 0..n /\ m >= Len(s) /\ m >= Len(t)
  <2>1. Len(s) \in Int /\ Len(t) \in Int
    BY <1>0
  <2>2. m \in {Len(s), Len(t)} /\ m >= Len(s) /\ m >= Len(t)
    BY <2>1, MinOfTwo
  <2> HIDE DEF m
  <2>3. QED
    BY <1>0, <2>2
<1>2. strcmp(s, t) = FirstNonzero(c)
  BY DEF strcmp
<1>3. Difference(n, Bytes(s, n), Bytes(t, n)) = FirstNonzero(d)
  BY DEF Difference
<1> HIDE DEF m
<1>4. \A i \in 1..n : d[i] = byte(s, i) - byte(t, i)
  BY DEF Bytes
<1>5. \A i \in 1..n : byte(s, i) \in Int /\ byte(t, i) \in Int
  <2>1. \A i \in 1..Len(s) : s[i] % 256 \in Int
    BY BytesSeen
  <2>2. \A i \in 1..Len(t) : t[i] % 256 \in Int
    BY BytesSeen
  <2>3. QED
    BY <1>0, <2>1, <2>2
<1>6. \A i \in 1..n : i > m => d[i] = 0
  BY <1>0, <1>1, <1>4
<1>7. 1..m \subseteq 1..n
  BY <1>1
<1>8. c \in [1..m -> Int] /\ d \in [1..n -> Int] /\ \A i \in 1..m : c[i] = d[i]
  <2> HIDE DEF byte
  <2>1. d \in [1..n -> Int]
    BY <1>4, <1>5
  <2>2. QED
    BY <1>4, <1>5, <1>7, <2>1
<1> HIDE DEF c, d, byte
<1>9. FirstNonzero(c) = FirstNonzero(d)
  <2>1. Begins(m, c, n, d)
    BY <1>6, <1>8 DEF Begins
  <2>2. QED
    BY <1>1, <1>8, <2>1, FirstSame
<1>10. QED
  BY <1>2, <1>3, <1>9 DEF c, d, byte

\* No character of a text is a zero, and each is one byte.
LEMMA BytesTell ==
  ASSUME NEW s \in Seq(Characters \ {0}), NEW t \in Seq(Characters \ {0}), NEW n \in Nat,
         Len(s) <= n, Len(t) <= n
  PROVE  Bytes(s, n) = Bytes(t, n) <=> s = t
<1>1. SUFFICES ASSUME Bytes(s, n) = Bytes(t, n) PROVE s = t
  OBVIOUS
<1>2. ASSUME NEW u \in Seq(Characters \ {0}), Len(u) <= n, NEW i \in 1..n
      PROVE  Bytes(u, n)[i] = IF i <= Len(u) THEN u[i] % 256 ELSE 0
  BY DEF Bytes
<1>3. \A i \in 1..n : i <= Len(s) <=> i <= Len(t)
  <2>1. ASSUME NEW u \in Seq(Characters \ {0}), Len(u) <= n, NEW i \in 1..n
        PROVE  i <= Len(u) <=> Bytes(u, n)[i] # 0
    <3>1. Bytes(u, n)[i] = IF i <= Len(u) THEN u[i] % 256 ELSE 0
      BY <1>2, <2>1
    <3>2. Len(u) \in Nat /\ \A l \in 1..Len(u) : u[l] % 256 # 0
      BY BytesSeen
    <3>3. i <= Len(u) => i \in 1..Len(u)
      BY <3>2
    <3>4. QED
      BY <3>1, <3>2, <3>3
  <2>2. QED
    BY <1>1, <2>1
<1>4. Len(s) = Len(t)
  <2>1. Len(s) \in Nat /\ Len(t) \in Nat
    BY BytesSeen
  <2>2. CASE Len(s) < Len(t)
    <3>1. Len(t) \in 1..n
      BY <2>1, <2>2
    <3>2. QED
      BY <1>3, <2>1, <2>2, <3>1
  <2>3. CASE Len(t) < Len(s)
    <3>1. Len(s) \in 1..n
      BY <2>1, <2>3
    <3>2. QED
      BY <1>3, <2>1, <2>3, <3>1
  <2>4. QED
    BY <2>1, <2>2, <2>3
<1>5. ASSUME NEW x \in Characters, NEW y \in Characters, x % 256 = y % 256
      PROVE  x = y
  <2>1. ASSUME NEW c \in Characters
        PROVE  c % 256 = (IF c < 0 THEN c + 256 ELSE c) /\ c \in Int /\ -128 <= c /\ c <= 127
    <3>1. c \in Int /\ -128 <= c /\ c <= 127
      BY DEF Characters
    <3>2. CASE c < 0
      <4> DEFINE q == -1
                 r == c + 256
      <4>1. q \in Int /\ r \in 0..(256 - 1) /\ 256 * q + r = c /\ 256 \in Nat /\ 256 > 0
        BY <3>1, <3>2
      <4> HIDE DEF q, r
      <4>2. (256 * q + r) % 256 = r
        BY <4>1, RestUnique
      <4>3. c % 256 = r
        BY <4>1, <4>2
      <4>4. QED
        BY <3>1, <3>2, <4>3 DEF r
    <3>3. CASE ~ c < 0
      <4>1. c \in 0..(256 - 1) /\ 256 * 0 + c = c
        BY <3>1, <3>3
      <4>2. (256 * 0 + c) % 256 = c
        BY <4>1, RestUnique
      <4>3. QED
        BY <3>1, <3>3, <4>1, <4>2
    <3>4. QED
      BY <3>2, <3>3
  <2>2. /\ x % 256 = (IF x < 0 THEN x + 256 ELSE x) /\ x \in Int /\ -128 <= x /\ x <= 127
        /\ y % 256 = (IF y < 0 THEN y + 256 ELSE y) /\ y \in Int /\ -128 <= y /\ y <= 127
    BY <2>1
  <2>3. QED
    BY <1>5, <2>2
<1>6. ASSUME NEW i \in 1..Len(s)
      PROVE  s[i] = t[i]
  <2>1. i \in 1..n /\ i \in 1..Len(t) /\ i <= Len(s) /\ i <= Len(t)
    BY <1>4, BytesSeen
  <2>2. s[i] % 256 = t[i] % 256
    BY <1>1, <1>2, <2>1
  <2>3. QED
    BY <1>5, <2>1, <2>2, BytesSeen
<1>7. s = [i \in 1..Len(s) |-> s[i]] /\ t = [i \in 1..Len(t) |-> t[i]]
  BY SequenceEntries
<1>8. QED
  BY <1>4, <1>6, <1>7

-----------------------------------------------------------------------------
(* Levels.                                                                  *)

\* Acyclic, words, trees, comparisons and hashes go down the members as often as
\* there are objects, each of them a function of the level.
ShallowBody(objects, n, below) ==
  [v \in AllWords |->
     ~ UNBOXED(v) => /\ n > 0
                     /\ objects[v \div 2].type # "STRING" =>
                          \A u \in ToSet(ValuesIn(objects[v \div 2])) : below[u]]
ShallowStep(objects, n, f) == ShallowBody(objects, n, f[n - 1])
Shallow == INSTANCE Recursion WITH Dom <- Depths, G <- ShallowStep

LEMMA ShallowUnfold ==
  ASSUME NEW objects
  PROVE  \A n \in Nat : Shallow!Defined(objects)[n]
                          = ShallowBody(objects, n, Shallow!Defined(objects)[n - 1])
<1> DEFINE d == Shallow!Defined(objects)
<1>1. Shallow!Looks(objects)
  <2>1. Depths(objects) \subseteq Nat
    BY DEF Depths
  <2>2. ASSUME NEW n \in Depths(objects), NEW g, NEW h,
               \A i \in Depths(objects) : i < n => g[i] = h[i]
        PROVE  ShallowStep(objects, n, g) = ShallowStep(objects, n, h)
    <3>1. CASE n = 0
      <4>1. \A below : ShallowBody(objects, 0, below) = [v \in AllWords |-> UNBOXED(v)]
        BY DEF ShallowBody, UNBOXED
      <4>2. QED
        BY <3>1, <4>1 DEF ShallowStep
    <3>2. CASE n # 0
      <4>1. n - 1 \in Depths(objects) /\ n - 1 < n
        BY <3>2 DEF Depths
      <4>2. g[n - 1] = h[n - 1]
        BY <2>2, <4>1
      <4>3. QED
        BY <4>2 DEF ShallowStep
    <3>3. QED
      BY <3>1, <3>2
  <2>3. QED
    BY <2>1, <2>2 DEF Shallow!Looks
<1>2. d = [n \in Depths(objects) |-> ShallowStep(objects, n, d)]
  BY <1>1, Shallow!Unfolds
<1> HIDE DEF d
<1>3. \A n \in Nat : d[n] = ShallowStep(objects, n, d)
  BY <1>2 DEF Depths
<1>4. QED
  BY <1>3 DEF d, ShallowStep

WordsBody(objects, n, below) ==
  [v \in AllWords |->
     {v} \cup (IF n = 0 \/ UNBOXED(v) \/ objects[v \div 2].type = "STRING" THEN {}
              ELSE UNION {below[u] : u \in ToSet(ValuesIn(objects[v \div 2]))})]
WordsStep(objects, n, f) == WordsBody(objects, n, f[n - 1])
Words == INSTANCE Recursion WITH Dom <- Depths, G <- WordsStep

LEMMA WordsUnfold ==
  ASSUME NEW objects
  PROVE  \A n \in Nat : Words!Defined(objects)[n]
                          = WordsBody(objects, n, Words!Defined(objects)[n - 1])
<1> DEFINE d == Words!Defined(objects)
<1>1. Words!Looks(objects)
  <2>1. Depths(objects) \subseteq Nat
    BY DEF Depths
  <2>2. ASSUME NEW n \in Depths(objects), NEW g, NEW h,
               \A i \in Depths(objects) : i < n => g[i] = h[i]
        PROVE  WordsStep(objects, n, g) = WordsStep(objects, n, h)
    <3>1. CASE n = 0
      <4>1. \A below : WordsBody(objects, 0, below) = [v \in AllWords |-> {v}]
        BY DEF WordsBody
      <4>2. QED
        BY <3>1, <4>1 DEF WordsStep
    <3>2. CASE n # 0
      <4>1. n - 1 \in Depths(objects) /\ n - 1 < n
        BY <3>2 DEF Depths
      <4>2. g[n - 1] = h[n - 1]
        BY <2>2, <4>1
      <4>3. QED
        BY <4>2 DEF WordsStep
    <3>3. QED
      BY <3>1, <3>2
  <2>3. QED
    BY <2>1, <2>2 DEF Words!Looks
<1>2. d = [n \in Depths(objects) |-> WordsStep(objects, n, d)]
  BY <1>1, Words!Unfolds
<1> HIDE DEF d
<1>3. \A n \in Nat : d[n] = WordsStep(objects, n, d)
  BY <1>2 DEF Depths
<1>4. QED
  BY <1>3 DEF d, WordsStep

TreesBody(objects, n, below) ==
  [v \in AllWords |->
     IF n = 0 \/ UNBOXED(v) THEN <<"int", UNBOX(v)>>
     ELSE LET o == objects[v \div 2]
              children == [i \in DOMAIN ValuesIn(o) |-> below[ValuesIn(o)[i]]]
          IN  CASE o.type = "STRING"  -> <<"string", CText(o.members)>>
                [] o.type = "CLOSURE" -> <<"closure", o.members[1], children>>
                [] o.type = "ARRAY"   -> <<"array", children>>
                [] o.type = "SEXP"    -> <<"sexp", de_hash(o.tag), children>>]
TreesStep(objects, n, f) == TreesBody(objects, n, f[n - 1])
Trees == INSTANCE Recursion WITH Dom <- Depths, G <- TreesStep

LEMMA TreesUnfold ==
  ASSUME NEW objects
  PROVE  \A n \in Nat : Trees!Defined(objects)[n]
                          = TreesBody(objects, n, Trees!Defined(objects)[n - 1])
<1> DEFINE d == Trees!Defined(objects)
<1>1. Trees!Looks(objects)
  <2>1. Depths(objects) \subseteq Nat
    BY DEF Depths
  <2>2. ASSUME NEW n \in Depths(objects), NEW g, NEW h,
               \A i \in Depths(objects) : i < n => g[i] = h[i]
        PROVE  TreesStep(objects, n, g) = TreesStep(objects, n, h)
    <3>1. CASE n = 0
      <4>1. \A below : TreesBody(objects, 0, below) = [v \in AllWords |-> <<"int", UNBOX(v)>>]
        BY DEF TreesBody
      <4>2. QED
        BY <3>1, <4>1 DEF TreesStep
    <3>2. CASE n # 0
      <4>1. n - 1 \in Depths(objects) /\ n - 1 < n
        BY <3>2 DEF Depths
      <4>2. g[n - 1] = h[n - 1]
        BY <2>2, <4>1
      <4>3. QED
        BY <4>2 DEF TreesStep
    <3>3. QED
      BY <3>1, <3>2
  <2>3. QED
    BY <2>1, <2>2 DEF Trees!Looks
<1>2. d = [n \in Depths(objects) |-> TreesStep(objects, n, d)]
  BY <1>1, Trees!Unfolds
<1> HIDE DEF d
<1>3. \A n \in Nat : d[n] = TreesStep(objects, n, d)
  BY <1>2 DEF Depths
<1>4. QED
  BY <1>3 DEF d, TreesStep

ComparedBody(objects, n, below) ==
  [pair \in AllWords \X AllWords |->
     LET v == pair[1]
         w == pair[2]
         a == objects[v \div 2]
         b == objects[w \div 2]
     IN  IF v = w THEN 0
         ELSE IF UNBOXED(v) /\ UNBOXED(w) THEN AsInt(UNBOX(v) - UNBOX(w))
         ELSE IF UNBOXED(v) \/ UNBOXED(w) THEN KindsCompared(v, w)
         ELSE IF n = 0 THEN 0
         ELSE IF HeadsCompared(a, b) # 0 THEN HeadsCompared(a, b)
         ELSE IF a.type = "STRING" THEN strcmp(CText(a.members), CText(b.members))
         ELSE FirstNonzero([i \in DOMAIN ValuesIn(a) |->
                              below[<<ValuesIn(a)[i], ValuesIn(b)[i]>>]])]
ComparedStep(objects, n, f) == ComparedBody(objects, n, f[n - 1])
Compared == INSTANCE Recursion WITH Dom <- Depths, G <- ComparedStep

LEMMA ComparedUnfold ==
  ASSUME NEW objects
  PROVE  \A n \in Nat : Compared!Defined(objects)[n]
                          = ComparedBody(objects, n, Compared!Defined(objects)[n - 1])
<1> DEFINE d == Compared!Defined(objects)
<1>1. Compared!Looks(objects)
  <2>1. Depths(objects) \subseteq Nat
    BY DEF Depths
  <2>2. ASSUME NEW n \in Depths(objects), NEW g, NEW h,
               \A i \in Depths(objects) : i < n => g[i] = h[i]
        PROVE  ComparedStep(objects, n, g) = ComparedStep(objects, n, h)
    <3>1. CASE n = 0
      <4>1. \A below : ComparedBody(objects, 0, below) = [pair \in AllWords \X AllWords |->
              IF pair[1] = pair[2] THEN 0
              ELSE IF UNBOXED(pair[1]) /\ UNBOXED(pair[2])
              THEN AsInt(UNBOX(pair[1]) - UNBOX(pair[2]))
              ELSE IF UNBOXED(pair[1]) \/ UNBOXED(pair[2]) THEN KindsCompared(pair[1], pair[2])
              ELSE 0]
        BY DEF ComparedBody
      <4>2. QED
        BY <3>1, <4>1 DEF ComparedStep
    <3>2. CASE n # 0
      <4>1. n - 1 \in Depths(objects) /\ n - 1 < n
        BY <3>2 DEF Depths
      <4>2. g[n - 1] = h[n - 1]
        BY <2>2, <4>1
      <4>3. QED
        BY <4>2 DEF ComparedStep
    <3>3. QED
      BY <3>1, <3>2
  <2>3. QED
    BY <2>1, <2>2 DEF Compared!Looks
<1>2. d = [n \in Depths(objects) |-> ComparedStep(objects, n, d)]
  BY <1>1, Compared!Unfolds
<1> HIDE DEF d
<1>3. \A n \in Nat : d[n] = ComparedStep(objects, n, d)
  BY <1>2 DEF Depths
<1>4. QED
  BY <1>3 DEF d, ComparedStep

HashesBody(objects, n, below) ==
  [v \in AllWords |-> [acc \in Nat |->
     IF n = 0 THEN acc
     ELSE IF UNBOXED(v) THEN HASH_APPEND(acc, UNBOX(v))
     ELSE IF ~ (~ UNBOXED(v) /\ v <= Address(Len(objects))) THEN HASH_APPEND(acc, v)
     ELSE LET o == objects[v \div 2]
              head == HashedIn(acc, Hashed(o))
          IN  IF o.type = "STRING" THEN head
              ELSE HashedThrough(head, [i \in DOMAIN ValuesIn(o) |-> below[ValuesIn(o)[i]]])]]
HashesStep(objects, n, f) == HashesBody(objects, n, f[n - 1])
Hashes == INSTANCE Recursion WITH Dom <- Depths, G <- HashesStep

LEMMA HashesUnfold ==
  ASSUME NEW objects
  PROVE  \A n \in Nat : Hashes!Defined(objects)[n]
                          = HashesBody(objects, n, Hashes!Defined(objects)[n - 1])
<1> DEFINE d == Hashes!Defined(objects)
<1>1. Hashes!Looks(objects)
  <2>1. Depths(objects) \subseteq Nat
    BY DEF Depths
  <2>2. ASSUME NEW n \in Depths(objects), NEW g, NEW h,
               \A i \in Depths(objects) : i < n => g[i] = h[i]
        PROVE  HashesStep(objects, n, g) = HashesStep(objects, n, h)
    <3>1. CASE n = 0
      <4>1. \A below : HashesBody(objects, 0, below) = [v \in AllWords |-> [acc \in Nat |-> acc]]
        BY DEF HashesBody
      <4>2. QED
        BY <3>1, <4>1 DEF HashesStep
    <3>2. CASE n # 0
      <4>1. n - 1 \in Depths(objects) /\ n - 1 < n
        BY <3>2 DEF Depths
      <4>2. g[n - 1] = h[n - 1]
        BY <2>2, <4>1
      <4>3. QED
        BY <4>2 DEF HashesStep
    <3>3. QED
      BY <3>1, <3>2
  <2>3. QED
    BY <2>1, <2>2 DEF Hashes!Looks
<1>2. d = [n \in Depths(objects) |-> HashesStep(objects, n, d)]
  BY <1>1, Hashes!Unfolds
<1> HIDE DEF d
<1>3. \A n \in Nat : d[n] = HashesStep(objects, n, d)
  BY <1>2 DEF Depths
<1>4. QED
  BY <1>3 DEF d, HashesStep

\* They are what the operators of Library are made of.
LEMMA LibraryUnfolds ==
  ASSUME NEW w, NEW v
  PROVE  /\ Acyclic(w) = Shallow!Defined(heap)[Len(heap)][w]
         /\ WordsOf(w) = Words!Defined(heap)[Len(heap)][w]
         /\ Tree(w) = Trees!Defined(heap)[Len(heap)][w]
         /\ Lcompare(w, v) = Compared!Defined(heap)[Len(heap)][<<w, v>>]
         /\ \A levels : inner_hash(levels, w) = Hashes!Defined(heap)[levels][w]
<1>1. Acyclic(w) = Shallow!Defined(heap)[Len(heap)][w]
  BY DEF Acyclic, At, Shallow!Defined, Depths, ShallowStep, ShallowBody
<1>2. WordsOf(w) = Words!Defined(heap)[Len(heap)][w]
  BY DEF WordsOf, At, Words!Defined, Depths, WordsStep, WordsBody
<1>3. Tree(w) = Trees!Defined(heap)[Len(heap)][w]
  BY DEF Tree, At, Trees!Defined, Depths, TreesStep, TreesBody
<1>4. Lcompare(w, v) = Compared!Defined(heap)[Len(heap)][<<w, v>>]
  BY DEF Lcompare, At, Compared!Defined, Depths, ComparedStep, ComparedBody
<1>5. \A levels : inner_hash(levels, w) = Hashes!Defined(heap)[levels][w]
  BY DEF inner_hash, is_valid_heap_pointer, At, Hashes!Defined, Depths, HashesStep, HashesBody
<1>6. QED
  BY <1>1, <1>2, <1>3, <1>4, <1>5

-----------------------------------------------------------------------------
(* What is at a level.                                                      *)

\* The words from which there are at most n steps down.
Level(objects, n) ==
  {w \in AllWords : IsWord(w, Len(objects)) /\ Shallow!Defined(objects)[n][w]}

\* The members of an object are one level below it.
LEMMA LevelSeen ==
  ASSUME NEW objects, Sound(objects), NEW n \in Nat, NEW w \in Level(objects, n), ~ UNBOXED(w),
         NEW o, o = objects[w \div 2]
  PROVE  /\ n # 0 /\ n - 1 \in Nat /\ IsObject(o, Len(objects)) /\ o \in Objects
         /\ Len(ValuesIn(o)) \in Nat /\ DOMAIN ValuesIn(o) = 1..Len(ValuesIn(o))
         /\ o.type # "STRING" => \A i \in 1..Len(ValuesIn(o)) : /\ ValuesIn(o)[i] \in Level(objects, n - 1)
                                                           /\ ValuesIn(o)[i] \in AllWords
                                                           /\ ValuesIn(o)[i] \in ToSet(ValuesIn(o))
<1>1. w \in AllWords /\ w \div 2 \in 1..Len(objects) /\ Shallow!Defined(objects)[n][w]
  BY DEF Level, IsWord
<1>2. IsObject(o, Len(objects))
  BY <1>1, SequenceEntries DEF Sound
<1>3. o \in Objects /\ ValuesIn(o) \in Seq(Int)
  BY <1>2, ValuesPart DEF IsObject
<1>4. Len(ValuesIn(o)) \in Nat /\ DOMAIN ValuesIn(o) = 1..Len(ValuesIn(o))
  BY <1>3, SequenceEntries
<1> DEFINE below == Shallow!Defined(objects)[n - 1]
           s == Shallow!Defined(objects)[n]
<1>5. s[w] /\ s = ShallowBody(objects, n, below)
  BY <1>1, ShallowUnfold
<1> HIDE DEF below, s
<1>6. ShallowBody(objects, n, below)[w]
  BY <1>5
<1>7. n > 0 /\ (o.type # "STRING" => \A u \in ToSet(ValuesIn(o)) : below[u])
  BY <1>1, <1>6 DEF ShallowBody
<1>8. ASSUME o.type # "STRING", NEW i \in 1..Len(ValuesIn(o))
      PROVE  /\ ValuesIn(o)[i] \in Level(objects, n - 1)
             /\ ValuesIn(o)[i] \in AllWords
             /\ ValuesIn(o)[i] \in ToSet(ValuesIn(o))
  <2>1. IsWord(ValuesIn(o)[i], Len(objects))
    BY <1>2, <1>4, <1>8 DEF IsObject
  <2>2. ValuesIn(o)[i] \in ToSet(ValuesIn(o))
    BY <1>4 DEF ToSet
  <2>3. Shallow!Defined(objects)[n - 1][ValuesIn(o)[i]]
    BY <1>7, <1>8, <2>2 DEF below
  <2>4. QED
    BY <2>1, <2>2, <2>3 DEF Level, IsWord
<1>9. QED
  BY <1>2, <1>3, <1>4, <1>7, <1>8

LEMMA LevelWords ==
  ASSUME NEW objects, NEW n \in Nat, NEW w \in Level(objects, n)
  PROVE  /\ w \in AllWords /\ w \in Int /\ IsWord(w, Len(objects))
         /\ UNBOXED(w) => UNBOX(w) \in Ints /\ UNBOX(w) \in Int /\ w = 2 * UNBOX(w) + 1
         /\ ~ UNBOXED(w) => w = 2 * (w \div 2) /\ w \div 2 \in 1..Len(objects)
BY WordParts, HalfAssumption DEF Level, IsWord, Ints

\* What a program holds and has no cycle is at the level there are objects of.
LEMMA ComparableLevel ==
  ASSUME WellMade, NEW w \in Comparable
  PROVE  Sound(heap) /\ Len(heap) \in Nat /\ w \in Level(heap, Len(heap))
<1>1. w \in ValuesHeld /\ Acyclic(w)
  BY DEF Comparable
<1>2. IsWord(w, Len(heap))
  BY <1>1, HeldWords
<1>3. Shallow!Defined(heap)[Len(heap)][w]
  BY <1>1, LibraryUnfolds
<1>4. Sound(heap) /\ Len(heap) \in Nat
  BY LenProperties DEF WellMade, Made, Sound
<1>5. QED
  BY <1>2, <1>3, <1>4 DEF Level, IsWord

\* The entries of the functions, where they matter.
TreeAt(objects, n, w) == Trees!Defined(objects)[n][w]
ComparedAt(objects, n, v, w) == Compared!Defined(objects)[n][<<v, w>>]
HashAt(objects, n, w) == Hashes!Defined(objects)[n][w]
WordsAt(objects, n, w) == Words!Defined(objects)[n][w]

Children(objects, n, o) == [i \in 1..Len(ValuesIn(o)) |-> TreeAt(objects, n - 1, ValuesIn(o)[i])]

LEMMA TreeSeen ==
  ASSUME NEW objects, Sound(objects), NEW n \in Nat, NEW w \in Level(objects, n),
         NEW o, o = objects[w \div 2]
  PROVE  /\ UNBOXED(w) => TreeAt(objects, n, w) = <<"int", UNBOX(w)>>
         /\ ~ UNBOXED(w) =>
              /\ o.type = "STRING" => TreeAt(objects, n, w) = <<"string", CText(o.members)>>
              /\ o.type = "CLOSURE" =>
                   TreeAt(objects, n, w) = <<"closure", o.members[1], Children(objects, n, o)>>
              /\ o.type = "ARRAY" => TreeAt(objects, n, w) = <<"array", Children(objects, n, o)>>
              /\ o.type = "SEXP" =>
                   TreeAt(objects, n, w) = <<"sexp", de_hash(o.tag), Children(objects, n, o)>>
<1> DEFINE below == Trees!Defined(objects)[n - 1]
           t == Trees!Defined(objects)[n]
<1>1. t = TreesBody(objects, n, below)
  BY TreesUnfold
<1>2. w \in AllWords
  BY DEF Level
<1> DEFINE x == objects[w \div 2]
           children == [i \in DOMAIN ValuesIn(x) |-> below[ValuesIn(x)[i]]]
<1>3. ~ UNBOXED(w) => children = Children(objects, n, o) /\ n # 0
  <2>1. SUFFICES ASSUME ~ UNBOXED(w) PROVE children = Children(objects, n, o) /\ n # 0
    OBVIOUS
  <2>2. DOMAIN ValuesIn(o) = 1..Len(ValuesIn(o)) /\ n # 0
    BY <2>1, LevelSeen
  <2>2a. children = [i \in DOMAIN ValuesIn(o) |-> below[ValuesIn(o)[i]]]
    OBVIOUS
  <2>3. QED
    BY <2>2, <2>2a DEF Children, TreeAt
<1> HIDE DEF below, t
<1>4. TreesBody(objects, n, below)[w] =
        IF n = 0 \/ UNBOXED(w) THEN <<"int", UNBOX(w)>>
        ELSE CASE x.type = "STRING"  -> <<"string", CText(x.members)>>
               [] x.type = "CLOSURE" -> <<"closure", x.members[1], children>>
               [] x.type = "ARRAY"   -> <<"array", children>>
               [] x.type = "SEXP"    -> <<"sexp", de_hash(x.tag), children>>
  BY <1>2 DEF TreesBody
<1> HIDE DEF children
<1>5. t[w] = IF n = 0 \/ UNBOXED(w) THEN <<"int", UNBOX(w)>>
             ELSE CASE o.type = "STRING"  -> <<"string", CText(o.members)>>
                    [] o.type = "CLOSURE" -> <<"closure", o.members[1], children>>
                    [] o.type = "ARRAY"   -> <<"array", children>>
                    [] o.type = "SEXP"    -> <<"sexp", de_hash(o.tag), children>>
  BY <1>1, <1>4
<1>6. QED
  BY <1>3, <1>5 DEF t, TreeAt

\* The name of a tag tells the tag.
LEMMA TagsTell ==
  ASSUME NEW n, NEW a, IsObject(a, n), a.type = "SEXP", NEW b, IsObject(b, n), b.type = "SEXP"
  PROVE  a.tag = b.tag <=> de_hash(a.tag) = de_hash(b.tag)
<1>1. PICK s \in Tags : ~ TagFails(s) /\ a.tag = LtagHash(s)
  BY DEF IsObject
<1>2. PICK t \in Tags : ~ TagFails(t) /\ b.tag = LtagHash(t)
  BY DEF IsObject
<1>3. a.tag = b.tag <=> de_hash(a.tag) = Shortened(t)
  BY <1>1, <1>2, NamesTell
<1>4. de_hash(b.tag) = Shortened(t)
  BY <1>2, NamesKept
<1>5. QED
  BY <1>3, <1>4

LEMMA LengthsTell ==
  ASSUME NEW n, NEW a, IsObject(a, n), NEW b, IsObject(b, n), a.type = b.type
  PROVE  Len(a.members) = Len(b.members) <=> Len(ValuesIn(a)) = Len(ValuesIn(b))
<1>1. /\ Len(ValuesIn(a)) \in Nat /\ Len(a.members) = Len(ValuesIn(a)) + IF a.type = "CLOSURE" THEN 1 ELSE 0
  <2>1. Len(ValuesIn(a)) \in Nat
    BY ValuesSeq
  <2>2. a.type = "CLOSURE" => Len(a.members) = Len(ValuesIn(a)) + 1
    BY ValuesSeq
  <2>3. a.type # "CLOSURE" => Len(a.members) = Len(ValuesIn(a))
    BY ValuesSeq
  <2>4. QED
    BY <2>1, <2>2, <2>3
<1>2. /\ Len(ValuesIn(b)) \in Nat /\ Len(b.members) = Len(ValuesIn(b)) + IF b.type = "CLOSURE" THEN 1 ELSE 0
  <2>1. Len(ValuesIn(b)) \in Nat
    BY ValuesSeq
  <2>2. b.type = "CLOSURE" => Len(b.members) = Len(ValuesIn(b)) + 1
    BY ValuesSeq
  <2>3. b.type # "CLOSURE" => Len(b.members) = Len(ValuesIn(b))
    BY ValuesSeq
  <2>4. QED
    BY <2>1, <2>2, <2>3
<1>3. QED
  BY <1>1, <1>2

\* Trees are the same when heads, texts and the trees of the members are.
LEMMA TreesTell ==
  ASSUME NEW objects, Sound(objects), NEW n \in Nat,
         NEW v \in Level(objects, n), NEW w \in Level(objects, n),
         NEW a, a = objects[v \div 2], NEW b, b = objects[w \div 2]
  PROVE  /\ UNBOXED(v) /\ UNBOXED(w) =>
              (TreeAt(objects, n, v) = TreeAt(objects, n, w) <=> UNBOX(v) = UNBOX(w))
         /\ ~ (UNBOXED(v) <=> UNBOXED(w)) =>
              TreeAt(objects, n, v) # TreeAt(objects, n, w)
         /\ ~ UNBOXED(v) /\ ~ UNBOXED(w) =>
              (TreeAt(objects, n, v) = TreeAt(objects, n, w) <=>
                 /\ Fields(a) = Fields(b)
                 /\ a.type = "STRING" => CText(a.members) = CText(b.members)
                 /\ a.type # "STRING" =>
                      \A i \in 1..Len(ValuesIn(a)) :
                        TreeAt(objects, n - 1, ValuesIn(a)[i]) = TreeAt(objects, n - 1, ValuesIn(b)[i]))
<1> DEFINE Shape(o, t) ==
             /\ o.type = "STRING" => t = <<"string", CText(o.members)>>
             /\ o.type = "CLOSURE" => t = <<"closure", o.members[1], Children(objects, n, o)>>
             /\ o.type = "ARRAY" => t = <<"array", Children(objects, n, o)>>
             /\ o.type = "SEXP" => t = <<"sexp", de_hash(o.tag), Children(objects, n, o)>>
           types == {"STRING", "ARRAY", "SEXP", "CLOSURE"}
<1>1. ASSUME NEW u \in Level(objects, n), NEW o, o = objects[u \div 2]
      PROVE  /\ UNBOXED(u) => TreeAt(objects, n, u) = <<"int", UNBOX(u)>>
             /\ ~ UNBOXED(u) => /\ Shape(o, TreeAt(objects, n, u)) /\ o.type \in types
                                /\ IsObject(o, Len(objects)) /\ Len(ValuesIn(o)) \in Nat
  <2>1. UNBOXED(u) => TreeAt(objects, n, u) = <<"int", UNBOX(u)>>
    BY <1>1, TreeSeen
  <2>2. ~ UNBOXED(u) => Shape(o, TreeAt(objects, n, u))
    BY <1>1, TreeSeen
  <2>3. ~ UNBOXED(u) => IsObject(o, Len(objects)) /\ o \in Objects /\ Len(ValuesIn(o)) \in Nat
    BY <1>1, LevelSeen
  <2>4. QED
    BY <2>1, <2>2, <2>3 DEF Objects
<1> DEFINE x == TreeAt(objects, n, v)
           y == TreeAt(objects, n, w)
<1> HIDE DEF x, y
<1>2. /\ UNBOXED(v) => x = <<"int", UNBOX(v)>>
      /\ ~ UNBOXED(v) => /\ Shape(a, x) /\ a.type \in types
                         /\ IsObject(a, Len(objects)) /\ Len(ValuesIn(a)) \in Nat
  BY <1>1 DEF x
<1>3. /\ UNBOXED(w) => y = <<"int", UNBOX(w)>>
      /\ ~ UNBOXED(w) => /\ Shape(b, y) /\ b.type \in types
                         /\ IsObject(b, Len(objects)) /\ Len(ValuesIn(b)) \in Nat
  BY <1>1 DEF y
<1>4. UNBOXED(v) /\ UNBOXED(w) => (x = y <=> UNBOX(v) = UNBOX(w))
  BY <1>2, <1>3
<1>5. ASSUME NEW o, o.type \in types, NEW t, Shape(o, t), NEW k
      PROVE  t # <<"int", k>>
  BY <1>5
<1>6. ~ (UNBOXED(v) <=> UNBOXED(w)) => x # y
  <2> HIDE DEF Shape
  <2>1. QED
    BY <1>2, <1>3, <1>5
<1>7. ASSUME ~ UNBOXED(v), ~ UNBOXED(w)
      PROVE  x = y <=> /\ Fields(a) = Fields(b)
                       /\ a.type = "STRING" => CText(a.members) = CText(b.members)
                       /\ a.type # "STRING" =>
                            \A i \in 1..Len(ValuesIn(a)) :
                              TreeAt(objects, n - 1, ValuesIn(a)[i]) = TreeAt(objects, n - 1, ValuesIn(b)[i])
  <2> DEFINE c == Children(objects, n, a)
             d == Children(objects, n, b)
             alike == \A i \in 1..Len(ValuesIn(a)) :
                        TreeAt(objects, n - 1, ValuesIn(a)[i]) = TreeAt(objects, n - 1, ValuesIn(b)[i])
  <2>1. c = d <=> Len(ValuesIn(a)) = Len(ValuesIn(b)) /\ alike
    <3>1. /\ c = [i \in 1..Len(ValuesIn(a)) |-> c[i]]
          /\ \A i \in 1..Len(ValuesIn(a)) : c[i] = TreeAt(objects, n - 1, ValuesIn(a)[i])
      BY DEF Children
    <3>2. /\ d = [i \in 1..Len(ValuesIn(b)) |-> d[i]]
          /\ \A i \in 1..Len(ValuesIn(b)) : d[i] = TreeAt(objects, n - 1, ValuesIn(b)[i])
      BY DEF Children
    <3>3. Len(ValuesIn(a)) \in Nat /\ Len(ValuesIn(b)) \in Nat
      BY <1>2, <1>3, <1>7
    <3> HIDE DEF c, d
    <3>4. Len(c) = Len(ValuesIn(a)) /\ Len(d) = Len(ValuesIn(b))
      BY <3>1, <3>2, <3>3, Entries
    <3>5. ASSUME c = d
          PROVE  Len(ValuesIn(a)) = Len(ValuesIn(b)) /\ alike
      BY <3>1, <3>2, <3>4, <3>5
    <3>6. ASSUME Len(ValuesIn(a)) = Len(ValuesIn(b)), alike
          PROVE  c = d
      <4>1. \A i \in 1..Len(ValuesIn(a)) : c[i] = d[i]
        BY <3>1, <3>2, <3>6
      <4>2. QED
        BY <3>1, <3>2, <3>6, <4>1
    <3>7. QED
      BY <3>5, <3>6
  <2> HIDE DEF alike
  <2>2. Fields(a) = Fields(b) <=>
          /\ a.type = b.type
          /\ a.type # "STRING" => Len(a.members) = Len(b.members)
          /\ a.type = "SEXP" => a.tag = b.tag
          /\ a.type = "CLOSURE" => a.members[1] = b.members[1]
    <3>1. IsObject(a, Len(objects)) /\ IsObject(b, Len(objects))
      BY <1>2, <1>3, <1>7
    <3> HIDE DEF Shape, c, d
    <3>2. QED
      BY <3>1, FieldsTell
  <2>3. a.type = b.type => (Len(a.members) = Len(b.members) <=> Len(ValuesIn(a)) = Len(ValuesIn(b)))
    BY <1>2, <1>3, <1>7, LengthsTell
  <2>4. a.type = "SEXP" /\ b.type = "SEXP" => (a.tag = b.tag <=> de_hash(a.tag) = de_hash(b.tag))
    BY <1>2, <1>3, <1>7, TagsTell
  <2>5. Shape(a, x) /\ Shape(b, y) /\ a.type \in types /\ b.type \in types
    BY <1>2, <1>3, <1>7
  <2> HIDE DEF c, d
  <2>6. ASSUME a.type # b.type
        PROVE  x # y
    BY <2>5, <2>6 DEF c, d
  <2>7. ASSUME a.type = b.type
        PROVE  x = y <=> /\ a.type = "STRING" => CText(a.members) = CText(b.members)
                         /\ a.type # "STRING" => c = d
                         /\ a.type = "SEXP" => de_hash(a.tag) = de_hash(b.tag)
                         /\ a.type = "CLOSURE" => a.members[1] = b.members[1]
    BY <2>5, <2>7 DEF c, d
  <2>8. x = y <=> /\ Fields(a) = Fields(b)
                  /\ a.type = "STRING" => CText(a.members) = CText(b.members)
                  /\ a.type # "STRING" => alike
    BY <2>1, <2>2, <2>3, <2>4, <2>5, <2>6, <2>7
  <2>9. QED
    BY <2>8 DEF alike
<1>8. QED
  BY <1>4, <1>6, <1>7 DEF x, y

-----------------------------------------------------------------------------
(* Comparison.                                                              *)

Compares(objects, n, a, b) ==
  [i \in 1..Len(ValuesIn(a)) |-> ComparedAt(objects, n, ValuesIn(a)[i], ValuesIn(b)[i])]

\* How objects are compared, one after the other.
ByHead(a, b) == Difference(3, Fields(a), Fields(b))
ByMembers(objects, n, a, b) ==
  IF a.type = "STRING" THEN strcmp(CText(a.members), CText(b.members))
  ELSE FirstNonzero(Compares(objects, n - 1, a, b))
ByParts(objects, n, a, b) ==
  IF ByHead(a, b) # 0 THEN ByHead(a, b) ELSE ByMembers(objects, n, a, b)

LEMMA ComparedSeen ==
  ASSUME NEW objects, Sound(objects), NEW n \in Nat,
         NEW v \in Level(objects, n), NEW w \in Level(objects, n),
         NEW a, a = objects[v \div 2], NEW b, b = objects[w \div 2],
         NEW c, c = ComparedAt(objects, n, v, w)
  PROVE  /\ v = w => c = 0
         /\ v # w /\ UNBOXED(v) /\ UNBOXED(w) => c = AsInt(UNBOX(v) - UNBOX(w))
         /\ UNBOXED(v) /\ ~ UNBOXED(w) => c = -1
         /\ ~ UNBOXED(v) /\ UNBOXED(w) => c = 1
         /\ v # w /\ ~ UNBOXED(v) /\ ~ UNBOXED(w) => c = ByParts(objects, n, a, b)
<1> DEFINE below == Compared!Defined(objects)[n - 1]
           f == Compared!Defined(objects)[n]
           p == objects[v \div 2]
           q == objects[w \div 2]
           members == FirstNonzero([i \in DOMAIN ValuesIn(p) |->
                                      below[<<ValuesIn(p)[i], ValuesIn(q)[i]>>]])
<1>1. f = ComparedBody(objects, n, below)
  BY ComparedUnfold
<1>2. v \in AllWords /\ w \in AllWords /\ <<v, w>> \in AllWords \X AllWords
      /\ <<v, w>>[1] = v /\ <<v, w>>[2] = w
  BY DEF Level
<1> HIDE DEF f, below
<1>3. ComparedBody(objects, n, below)[<<v, w>>] =
        IF v = w THEN 0
        ELSE IF UNBOXED(v) /\ UNBOXED(w) THEN AsInt(UNBOX(v) - UNBOX(w))
        ELSE IF UNBOXED(v) \/ UNBOXED(w) THEN KindsCompared(v, w)
        ELSE IF n = 0 THEN 0
        ELSE IF HeadsCompared(p, q) # 0 THEN HeadsCompared(p, q)
        ELSE IF p.type = "STRING" THEN strcmp(CText(p.members), CText(q.members))
        ELSE members
  BY <1>2 DEF ComparedBody
<1>4. ~ UNBOXED(v) => members = FirstNonzero(Compares(objects, n - 1, a, b))
  <2>1. SUFFICES ASSUME ~ UNBOXED(v) PROVE members = FirstNonzero(Compares(objects, n - 1, a, b))
    OBVIOUS
  <2>2. DOMAIN ValuesIn(a) = 1..Len(ValuesIn(a))
    BY <2>1, LevelSeen
  <2>3. members = FirstNonzero([i \in DOMAIN ValuesIn(a) |->
                                  below[<<ValuesIn(a)[i], ValuesIn(b)[i]>>]])
    OBVIOUS
  <2> HIDE DEF members
  <2>4. QED
    BY <2>2, <2>3 DEF Compares, ComparedAt, below
<1>5. c = f[<<v, w>>]
  BY DEF ComparedAt, f
<1>6. ~ UNBOXED(v) /\ ~ UNBOXED(w) => n # 0 /\ HeadsCompared(p, q) = ByHead(a, b)
  <2>1. SUFFICES ASSUME ~ UNBOXED(v), ~ UNBOXED(w) PROVE n # 0 /\ HeadsCompared(p, q) = ByHead(a, b)
    OBVIOUS
  <2>2. n # 0 /\ IsObject(a, Len(objects))
    BY <2>1, LevelSeen
  <2>3. IsObject(b, Len(objects))
    BY <2>1, LevelSeen
  <2>4. HeadsCompared(a, b) = Difference(3, Fields(a), Fields(b))
    BY <2>2, <2>3, HeadsSeen
  <2>5. QED
    BY <2>2, <2>4 DEF ByHead
<1>7. c = ComparedBody(objects, n, below)[<<v, w>>]
  BY <1>1, <1>5
<1> HIDE DEF members
<1>8. QED
  <2>1. v = w => c = 0
    BY <1>3, <1>7
  <2>2. v # w /\ UNBOXED(v) /\ UNBOXED(w) => c = AsInt(UNBOX(v) - UNBOX(w))
    BY <1>3, <1>7
  <2>3. ~ (UNBOXED(v) <=> UNBOXED(w)) => c = KindsCompared(v, w)
    BY <1>3, <1>7
  <2>4. v # w /\ ~ UNBOXED(v) /\ ~ UNBOXED(w) => c = ByParts(objects, n, a, b)
    BY <1>3, <1>4, <1>6, <1>7 DEF ByParts, ByMembers
  <2>5. QED
    BY <2>1, <2>2, <2>3, <2>4 DEF KindsCompared

\* The difference of two integers is zero when they are the same.
LEMMA DifferenceWraps ==
  ASSUME NEW x \in Ints, NEW y \in Ints
  PROVE  AsInt(x - y) \in Int /\ (AsInt(x - y) = 0 <=> x = y)
<1>1. Half \in Nat /\ Half >= 128 /\ x \in Int /\ y \in Int
      /\ -Half <= x /\ x < Half /\ -Half <= y /\ y < Half
  BY HalfAssumption DEF Ints
<1>2. ASSUME NEW q \in Int, NEW r \in 0..(2 * Half - 1), x - y + Half = (2 * Half) * q + r
      PROVE  AsInt(x - y) = r - Half
  <2> DEFINE m == 2 * Half
  <2>1. m \in Nat /\ m > 0 /\ r \in 0..(m - 1) /\ x - y + Half = m * q + r
    BY <1>1, <1>2
  <2> HIDE DEF m
  <2>2. (m * q + r) % m = r
    BY <2>1, RestUnique
  <2>3. (x - y + Half) % m = r
    BY <2>1, <2>2
  <2>4. QED
    BY <2>3 DEF AsInt, m
<1>3. CASE x - y + Half < 0
  <2> DEFINE q == -1
             r == x - y + 3 * Half
  <2>1. q \in Int /\ r \in 0..(2 * Half - 1) /\ x - y + Half = (2 * Half) * q + r
    BY <1>1, <1>3
  <2>2. r # Half /\ x # y /\ r \in Int
    BY <1>1, <1>3
  <2> HIDE DEF q, r
  <2>3. AsInt(x - y) = r - Half
    BY <1>2, <2>1
  <2>4. QED
    BY <1>1, <2>2, <2>3
<1>4. CASE x - y + Half >= 2 * Half
  <2> DEFINE q == 1
             r == x - y - Half
  <2>1. q \in Int /\ r \in 0..(2 * Half - 1) /\ x - y + Half = (2 * Half) * q + r
    BY <1>1, <1>4
  <2>2. r # Half /\ x # y /\ r \in Int
    BY <1>1, <1>4
  <2> HIDE DEF q, r
  <2>3. AsInt(x - y) = r - Half
    BY <1>2, <2>1
  <2>4. QED
    BY <1>1, <2>2, <2>3
<1>5. CASE x - y + Half >= 0 /\ x - y + Half < 2 * Half
  <2>1. x - y \in Ints
    BY <1>1, <1>5 DEF Ints
  <2>2. AsInt(x - y) = x - y
    BY <2>1, IntStays
  <2>3. QED
    BY <1>1, <2>2
<1>6. QED
  BY <1>1, <1>3, <1>4, <1>5

\* Compared as equal and built alike, for what is at a level.
EqualAt(objects, n) ==
  \A v, w \in Level(objects, n) :
    /\ ComparedAt(objects, n, v, w) \in Int
    /\ ComparedAt(objects, n, v, w) = 0 <=> TreeAt(objects, n, v) = TreeAt(objects, n, w)

\* The texts of two strings.
LEMMA StringsSeen ==
  ASSUME NEW n \in Nat, NEW a, IsObject(a, n), a.type = "STRING", NEW b, IsObject(b, n), b.type = "STRING"
  PROVE  CText(a.members) \in Seq(Characters \ {0}) /\ CText(b.members) \in Seq(Characters \ {0})
<1>1. a \in Objects /\ b \in Objects
  BY DEF IsObject
<1>2. QED
  BY <1>1, TextOfString

LEMMA TextsOrder ==
  ASSUME NEW s \in Seq(Characters \ {0}), NEW t \in Seq(Characters \ {0}), NEW u \in Seq(Characters \ {0})
  PROVE  /\ strcmp(s, t) \in Int /\ (strcmp(s, t) = 0 <=> s = t)
         /\ Opposed(strcmp(s, t), strcmp(t, s))
         /\ Chained(strcmp(s, t), strcmp(t, u), strcmp(s, u))
<1>1. Len(s) \in Nat /\ Len(t) \in Nat /\ Len(u) \in Nat
  BY BytesSeen
<1> DEFINE n == Len(s) + Len(t) + Len(u)
           x == Bytes(s, n)
           y == Bytes(t, n)
           z == Bytes(u, n)
<1>2. n \in Nat /\ Len(s) <= n /\ Len(t) <= n /\ Len(u) <= n
  BY <1>1
<1> HIDE DEF n
<1>3. x \in [1..n -> Int] /\ y \in [1..n -> Int] /\ z \in [1..n -> Int]
  BY <1>2, BytesSeen
<1>4. x = y <=> s = t
  BY <1>2, BytesTell
<1>5. /\ strcmp(s, t) = Difference(n, x, y) /\ strcmp(t, s) = Difference(n, y, x)
      /\ strcmp(t, u) = Difference(n, y, z) /\ strcmp(s, u) = Difference(n, x, z)
  BY <1>2, TextsSeen
<1> HIDE DEF x, y, z
<1>6. /\ Difference(n, x, y) \in Int /\ (Difference(n, x, y) = 0 <=> x = y)
      /\ Opposed(Difference(n, x, y), Difference(n, y, x))
      /\ Chained(Difference(n, x, y), Difference(n, y, z), Difference(n, x, z))
  BY <1>2, <1>3, DifferencesOrder
<1>7. QED
  BY <1>4, <1>5, <1>6

LEMMA HeadsOrder ==
  ASSUME NEW n, NEW a, IsObject(a, n), NEW b, IsObject(b, n), NEW c, IsObject(c, n)
  PROVE  /\ ByHead(a, b) \in Int /\ (ByHead(a, b) = 0 <=> Fields(a) = Fields(b))
         /\ Opposed(ByHead(a, b), ByHead(b, a))
         /\ Chained(ByHead(a, b), ByHead(b, c), ByHead(a, c))
<1> DEFINE x == Fields(a)
           y == Fields(b)
           z == Fields(c)
<1>1. x \in [1..3 -> Int] /\ y \in [1..3 -> Int] /\ z \in [1..3 -> Int] /\ 3 \in Nat
  BY FieldsSeen
<1>2. /\ ByHead(a, b) = Difference(3, x, y) /\ ByHead(b, a) = Difference(3, y, x)
      /\ ByHead(b, c) = Difference(3, y, z) /\ ByHead(a, c) = Difference(3, x, z)
  BY DEF ByHead
<1> HIDE DEF x, y, z
<1>3. /\ Difference(3, x, y) \in Int /\ (Difference(3, x, y) = 0 <=> x = y)
      /\ Opposed(Difference(3, x, y), Difference(3, y, x))
      /\ Chained(Difference(3, x, y), Difference(3, y, z), Difference(3, x, z))
  BY <1>1, DifferencesOrder
<1>4. QED
  BY <1>2, <1>3 DEF x, y

\* Objects with one head have as many members.
LEMMA MembersCompared ==
  ASSUME NEW objects, Sound(objects), NEW n \in Nat, n # 0, EqualAt(objects, n - 1),
         NEW v \in Level(objects, n), ~ UNBOXED(v), NEW w \in Level(objects, n), ~ UNBOXED(w),
         NEW a, a = objects[v \div 2], NEW b, b = objects[w \div 2],
         Fields(a) = Fields(b), a.type # "STRING"
  PROVE  /\ b.type = a.type /\ Len(ValuesIn(b)) = Len(ValuesIn(a)) /\ Len(ValuesIn(a)) \in Nat
         /\ \A i \in 1..Len(ValuesIn(a)) : /\ ValuesIn(a)[i] \in Level(objects, n - 1)
                                           /\ ValuesIn(b)[i] \in Level(objects, n - 1)
         /\ Compares(objects, n - 1, a, b) \in [1..Len(ValuesIn(a)) -> Int]
         /\ \A i \in 1..Len(ValuesIn(a)) :
              Compares(objects, n - 1, a, b)[i]
                = ComparedAt(objects, n - 1, ValuesIn(a)[i], ValuesIn(b)[i])
<1>1. /\ IsObject(a, Len(objects)) /\ Len(ValuesIn(a)) \in Nat
      /\ \A i \in 1..Len(ValuesIn(a)) : ValuesIn(a)[i] \in Level(objects, n - 1)
  BY LevelSeen
<1>2. /\ IsObject(b, Len(objects)) /\ Len(ValuesIn(b)) \in Nat
      /\ b.type # "STRING" => \A i \in 1..Len(ValuesIn(b)) : ValuesIn(b)[i] \in Level(objects, n - 1)
  BY LevelSeen
<1>3. a.type = b.type /\ Len(a.members) = Len(b.members)
  BY <1>1, <1>2, FieldsTell
<1>4. Len(ValuesIn(a)) = Len(ValuesIn(b))
  BY <1>1, <1>2, <1>3, LengthsTell
<1>5. \A i \in 1..Len(ValuesIn(a)) : /\ ValuesIn(a)[i] \in Level(objects, n - 1)
                                     /\ ValuesIn(b)[i] \in Level(objects, n - 1)
  BY <1>1, <1>2, <1>3, <1>4
<1>6. \A i \in 1..Len(ValuesIn(a)) : ComparedAt(objects, n - 1, ValuesIn(a)[i], ValuesIn(b)[i]) \in Int
  BY <1>5 DEF EqualAt
<1>7. /\ Compares(objects, n - 1, a, b) \in [1..Len(ValuesIn(a)) -> Int]
      /\ \A i \in 1..Len(ValuesIn(a)) :
           Compares(objects, n - 1, a, b)[i]
             = ComparedAt(objects, n - 1, ValuesIn(a)[i], ValuesIn(b)[i])
  BY <1>6 DEF Compares
<1>8. QED
  BY <1>1, <1>3, <1>4, <1>5, <1>7

LEMMA EqualStep ==
  ASSUME NEW objects, Sound(objects), Len(objects) \in Nat, NEW n \in Nat, n # 0 => EqualAt(objects, n - 1)
  PROVE  EqualAt(objects, n)
<1>1. SUFFICES ASSUME NEW v \in Level(objects, n), NEW w \in Level(objects, n)
               PROVE  /\ ComparedAt(objects, n, v, w) \in Int
                      /\ ComparedAt(objects, n, v, w) = 0
                           <=> TreeAt(objects, n, v) = TreeAt(objects, n, w)
  BY DEF EqualAt
<1> DEFINE c == ComparedAt(objects, n, v, w)
           x == TreeAt(objects, n, v)
           y == TreeAt(objects, n, w)
           a == objects[v \div 2]
           b == objects[w \div 2]
<1> HIDE DEF c, x, y, a, b
<1>2. /\ v = w => c = 0
      /\ v # w /\ UNBOXED(v) /\ UNBOXED(w) => c = AsInt(UNBOX(v) - UNBOX(w))
      /\ UNBOXED(v) /\ ~ UNBOXED(w) => c = -1
      /\ ~ UNBOXED(v) /\ UNBOXED(w) => c = 1
      /\ v # w /\ ~ UNBOXED(v) /\ ~ UNBOXED(w) => c = ByParts(objects, n, a, b)
  BY ComparedSeen DEF a, b, c
<1>3. /\ UNBOXED(v) /\ UNBOXED(w) => (x = y <=> UNBOX(v) = UNBOX(w))
      /\ ~ (UNBOXED(v) <=> UNBOXED(w)) => x # y
      /\ ~ UNBOXED(v) /\ ~ UNBOXED(w) =>
           (x = y <=>
              /\ Fields(a) = Fields(b)
              /\ a.type = "STRING" => CText(a.members) = CText(b.members)
              /\ a.type # "STRING" =>
                   \A i \in 1..Len(ValuesIn(a)) :
                     TreeAt(objects, n - 1, ValuesIn(a)[i]) = TreeAt(objects, n - 1, ValuesIn(b)[i]))
  BY TreesTell DEF a, b, x, y
<1>4. CASE v = w
  BY <1>2, <1>4 DEF x, y, c
<1>5. CASE v # w /\ UNBOXED(v) /\ UNBOXED(w)
  <2>1. UNBOX(v) \in Ints /\ UNBOX(w) \in Ints
    BY <1>5, LevelWords
  <2>2. c \in Int /\ (c = 0 <=> UNBOX(v) = UNBOX(w))
    BY <1>2, <1>5, <2>1, DifferenceWraps
  <2>3. QED
    BY <1>3, <1>5, <2>2 DEF c, x, y
<1>6. CASE ~ (UNBOXED(v) <=> UNBOXED(w))
  BY <1>2, <1>3, <1>6 DEF c, x, y
<1>7. CASE v # w /\ ~ UNBOXED(v) /\ ~ UNBOXED(w)
  <2>1. c = ByParts(objects, n, a, b)
    BY <1>2, <1>7
  <2>2. n # 0 /\ IsObject(a, Len(objects))
    BY <1>7, LevelSeen DEF a
  <2>3. IsObject(b, Len(objects))
    BY <1>7, LevelSeen DEF b
  <2>4. ByHead(a, b) \in Int /\ (ByHead(a, b) = 0 <=> Fields(a) = Fields(b))
    BY <2>2, <2>3, HeadsOrder
  <2>5. CASE Fields(a) # Fields(b)
    <3>1. c = ByHead(a, b) /\ ByHead(a, b) # 0
      BY <2>1, <2>4, <2>5 DEF ByParts
    <3>2. QED
      BY <1>3, <1>7, <2>4, <2>5, <3>1 DEF c, x, y
  <2>6. CASE Fields(a) = Fields(b) /\ a.type = "STRING"
    <3>1. b.type = "STRING"
      BY <2>2, <2>3, <2>6, FieldsTell
    <3>2. CText(a.members) \in Seq(Characters \ {0}) /\ CText(b.members) \in Seq(Characters \ {0})
      BY <2>2, <2>3, <2>6, <3>1, StringsSeen
    <3>3. c = strcmp(CText(a.members), CText(b.members))
      BY <2>1, <2>4, <2>6 DEF ByParts, ByMembers
    <3>4. c \in Int /\ (c = 0 <=> CText(a.members) = CText(b.members))
      BY <3>2, <3>3, TextsOrder
    <3>5. QED
      BY <1>3, <1>7, <2>6, <3>4 DEF c, x, y
  <2>7. CASE Fields(a) = Fields(b) /\ a.type # "STRING"
    <3> DEFINE f == Compares(objects, n - 1, a, b)
               k == Len(ValuesIn(a))
    <3>1. EqualAt(objects, n - 1)
      BY <2>2
    <3>2. /\ k \in Nat /\ f \in [1..k -> Int]
          /\ \A i \in 1..k : /\ ValuesIn(a)[i] \in Level(objects, n - 1)
                             /\ ValuesIn(b)[i] \in Level(objects, n - 1)
                             /\ f[i] = ComparedAt(objects, n - 1, ValuesIn(a)[i], ValuesIn(b)[i])
      BY <1>7, <2>2, <2>7, <3>1, MembersCompared DEF a, b
    <3> HIDE DEF f, k
    <3>3. \A i \in 1..k : f[i] = 0 <=> TreeAt(objects, n - 1, ValuesIn(a)[i])
                                        = TreeAt(objects, n - 1, ValuesIn(b)[i])
      BY <3>1, <3>2 DEF EqualAt
    <3>4. c = FirstNonzero(f)
      BY <2>1, <2>4, <2>7 DEF ByParts, ByMembers, f
    <3>5. c \in Int /\ (c = 0 <=> \A i \in 1..k : f[i] = 0)
      BY <3>2, <3>4, FirstIsInt
    <3>6. QED
      BY <1>3, <1>7, <2>7, <3>3, <3>5 DEF c, x, y, k
  <2>8. QED
    BY <2>5, <2>6, <2>7
<1>8. QED
  BY <1>4, <1>5, <1>6, <1>7

LEMMA EqualEverywhere ==
  ASSUME NEW objects, Sound(objects), Len(objects) \in Nat
  PROVE  \A n \in Nat : EqualAt(objects, n)
<1> DEFINE T == {n \in Nat : EqualAt(objects, n)}
<1>1. ASSUME NEW n \in Nat, \A i \in Nat : i < n => i \in T
      PROVE  n \in T
  <2>1. n # 0 => n - 1 \in Nat /\ n - 1 < n
    OBVIOUS
  <2>2. n # 0 => EqualAt(objects, n - 1)
    BY <1>1, <2>1
  <2>3. QED
    BY <2>2, EqualStep
<1> HIDE DEF T
<1>2. \A n \in Nat : n \in T
  BY <1>1, AllNaturals
<1>3. QED
  BY <1>2 DEF T

-----------------------------------------------------------------------------
(* The order.                                                               *)

\* Values whose integers are less than half of the range apart.
SmallLevel(objects, n) ==
  {w \in Level(objects, n) :
     \A u \in WordsAt(objects, n, w) : UNBOXED(u) => 2 * UNBOX(u) \in Ints}

\* The words of a member are words of the object.
LEMMA WordsBelow ==
  ASSUME NEW objects, Sound(objects), NEW n \in Nat, NEW w \in Level(objects, n),
         NEW o, o = objects[w \div 2]
  PROVE  /\ w \in WordsAt(objects, n, w)
         /\ ~ UNBOXED(w) /\ o.type # "STRING" =>
              \A i \in 1..Len(ValuesIn(o)) :
                WordsAt(objects, n - 1, ValuesIn(o)[i]) \subseteq WordsAt(objects, n, w)
<1> DEFINE below == Words!Defined(objects)[n - 1]
           f == Words!Defined(objects)[n]
           x == objects[w \div 2]
           inner == UNION {below[u] : u \in ToSet(ValuesIn(x))}
<1>1. f = WordsBody(objects, n, below)
  BY WordsUnfold
<1>2. w \in AllWords
  BY DEF Level
<1> HIDE DEF f, below
<1>3. WordsBody(objects, n, below)[w]
        = {w} \cup (IF n = 0 \/ UNBOXED(w) \/ x.type = "STRING" THEN {} ELSE inner)
  BY <1>2 DEF WordsBody
<1>4. WordsAt(objects, n, w) = WordsBody(objects, n, below)[w]
  BY <1>1 DEF WordsAt, f
<1>5. ASSUME ~ UNBOXED(w), o.type # "STRING", NEW i \in 1..Len(ValuesIn(o))
      PROVE  WordsAt(objects, n - 1, ValuesIn(o)[i]) \subseteq WordsAt(objects, n, w)
  <2>1. n # 0 /\ ValuesIn(o)[i] \in ToSet(ValuesIn(o))
    BY <1>5, LevelSeen
  <2>2. below[ValuesIn(o)[i]] \subseteq inner
    BY <2>1
  <2> HIDE DEF inner
  <2>3. inner \subseteq WordsAt(objects, n, w)
    BY <1>3, <1>4, <1>5, <2>1
  <2>4. QED
    BY <2>2, <2>3 DEF WordsAt, below
<1>6. QED
  BY <1>3, <1>4, <1>5

LEMMA SmallBelow ==
  ASSUME NEW objects, Sound(objects), NEW n \in Nat, NEW w \in SmallLevel(objects, n),
         NEW o, o = objects[w \div 2]
  PROVE  /\ w \in Level(objects, n)
         /\ UNBOXED(w) => 2 * UNBOX(w) \in Ints
         /\ ~ UNBOXED(w) /\ o.type # "STRING" =>
              \A i \in 1..Len(ValuesIn(o)) : ValuesIn(o)[i] \in SmallLevel(objects, n - 1)
<1>1. w \in Level(objects, n) /\ \A u \in WordsAt(objects, n, w) : UNBOXED(u) => 2 * UNBOX(u) \in Ints
  BY DEF SmallLevel
<1>2. w \in WordsAt(objects, n, w)
  BY <1>1, WordsBelow
<1>3. ASSUME ~ UNBOXED(w), o.type # "STRING", NEW i \in 1..Len(ValuesIn(o))
      PROVE  ValuesIn(o)[i] \in SmallLevel(objects, n - 1)
  <2>1. ValuesIn(o)[i] \in Level(objects, n - 1)
    BY <1>1, <1>3, LevelSeen
  <2>2. WordsAt(objects, n - 1, ValuesIn(o)[i]) \subseteq WordsAt(objects, n, w)
    BY <1>1, <1>3, WordsBelow
  <2>3. QED
    BY <1>1, <2>1, <2>2 DEF SmallLevel
<1>4. QED
  BY <1>1, <1>2, <1>3

\* The differences of such integers do not wrap.
LEMMA SmallDifference ==
  ASSUME NEW x \in Ints, NEW y \in Ints, 2 * x \in Ints, 2 * y \in Ints
  PROVE  AsInt(x - y) = x - y /\ x \in Int /\ y \in Int
<1>1. x - y \in Ints /\ x \in Int /\ y \in Int
  BY HalfAssumption DEF Ints
<1>2. QED
  BY <1>1, IntStays

OpposedAt(objects, n) ==
  \A v, w \in SmallLevel(objects, n) :
    Opposed(ComparedAt(objects, n, v, w), ComparedAt(objects, n, w, v))

LEMMA OpposedStep ==
  ASSUME NEW objects, Sound(objects), Len(objects) \in Nat, NEW n \in Nat,
         n # 0 => EqualAt(objects, n - 1) /\ OpposedAt(objects, n - 1)
  PROVE  OpposedAt(objects, n)
<1>1. SUFFICES ASSUME NEW v \in SmallLevel(objects, n), NEW w \in SmallLevel(objects, n)
               PROVE  Opposed(ComparedAt(objects, n, v, w), ComparedAt(objects, n, w, v))
  BY DEF OpposedAt
<1> DEFINE c == ComparedAt(objects, n, v, w)
           d == ComparedAt(objects, n, w, v)
           a == objects[v \div 2]
           b == objects[w \div 2]
<1> HIDE DEF c, d, a, b
<1>2. /\ v \in Level(objects, n) /\ w \in Level(objects, n)
      /\ UNBOXED(v) => 2 * UNBOX(v) \in Ints /\ UNBOX(v) \in Ints
      /\ UNBOXED(w) => 2 * UNBOX(w) \in Ints /\ UNBOX(w) \in Ints
  <2>1. v \in Level(objects, n) /\ (UNBOXED(v) => 2 * UNBOX(v) \in Ints)
    BY SmallBelow
  <2>2. w \in Level(objects, n) /\ (UNBOXED(w) => 2 * UNBOX(w) \in Ints)
    BY SmallBelow
  <2>3. QED
    BY <2>1, <2>2, LevelWords
<1>3. /\ v = w => c = 0
      /\ v # w /\ UNBOXED(v) /\ UNBOXED(w) => c = AsInt(UNBOX(v) - UNBOX(w))
      /\ UNBOXED(v) /\ ~ UNBOXED(w) => c = -1
      /\ ~ UNBOXED(v) /\ UNBOXED(w) => c = 1
      /\ v # w /\ ~ UNBOXED(v) /\ ~ UNBOXED(w) => c = ByParts(objects, n, a, b)
  BY <1>2, ComparedSeen DEF a, b, c
<1>4. /\ v = w => d = 0
      /\ v # w /\ UNBOXED(v) /\ UNBOXED(w) => d = AsInt(UNBOX(w) - UNBOX(v))
      /\ UNBOXED(w) /\ ~ UNBOXED(v) => d = -1
      /\ ~ UNBOXED(w) /\ UNBOXED(v) => d = 1
      /\ v # w /\ ~ UNBOXED(v) /\ ~ UNBOXED(w) => d = ByParts(objects, n, b, a)
  BY <1>2, ComparedSeen DEF a, b, d
<1>5. CASE v = w
  BY <1>3, <1>4, <1>5 DEF Opposed, c, d
<1>6. CASE v # w /\ UNBOXED(v) /\ UNBOXED(w)
  <2>1. /\ c = UNBOX(v) - UNBOX(w) /\ d = UNBOX(w) - UNBOX(v)
        /\ UNBOX(v) \in Int /\ UNBOX(w) \in Int
    BY <1>2, <1>3, <1>4, <1>6, SmallDifference
  <2>2. Opposed(c, d)
    BY <2>1 DEF Opposed
  <2>3. QED
    BY <2>2 DEF c, d
<1>7. CASE ~ (UNBOXED(v) <=> UNBOXED(w))
  <2>1. Opposed(c, d)
    BY <1>3, <1>4, <1>7 DEF Opposed
  <2>2. QED
    BY <2>1 DEF c, d
<1>8. CASE v # w /\ ~ UNBOXED(v) /\ ~ UNBOXED(w)
  <2>1. n # 0 /\ IsObject(a, Len(objects))
    BY <1>2, <1>8, LevelSeen DEF a
  <2>2. IsObject(b, Len(objects))
    BY <1>2, <1>8, LevelSeen DEF b
  <2>3. /\ ByHead(a, b) \in Int /\ (ByHead(a, b) = 0 <=> Fields(a) = Fields(b))
        /\ Opposed(ByHead(a, b), ByHead(b, a))
    BY <2>1, <2>2, HeadsOrder
  <2>4. Fields(a) = Fields(b) => Opposed(ByMembers(objects, n, a, b), ByMembers(objects, n, b, a))
    <3>1. SUFFICES ASSUME Fields(a) = Fields(b)
                   PROVE  Opposed(ByMembers(objects, n, a, b), ByMembers(objects, n, b, a))
      OBVIOUS
    <3>2. a.type = b.type
      BY <2>1, <2>2, <3>1, FieldsTell
    <3>3. CASE a.type = "STRING"
      <4>1. CText(a.members) \in Seq(Characters \ {0}) /\ CText(b.members) \in Seq(Characters \ {0})
        BY <2>1, <2>2, <3>2, <3>3, StringsSeen
      <4>2. Opposed(strcmp(CText(a.members), CText(b.members)), strcmp(CText(b.members), CText(a.members)))
        BY <4>1, TextsOrder
      <4>3. QED
        BY <3>2, <3>3, <4>2 DEF ByMembers
    <3>4. CASE a.type # "STRING"
      <4> DEFINE f == Compares(objects, n - 1, a, b)
                 g == Compares(objects, n - 1, b, a)
                 k == Len(ValuesIn(a))
      <4>1. EqualAt(objects, n - 1) /\ OpposedAt(objects, n - 1)
        BY <2>1
      <4>2. /\ k \in Nat /\ f \in [1..k -> Int] /\ Len(ValuesIn(b)) = k
            /\ \A i \in 1..k : f[i] = ComparedAt(objects, n - 1, ValuesIn(a)[i], ValuesIn(b)[i])
        BY <1>2, <1>8, <2>1, <3>1, <3>4, <4>1, MembersCompared DEF a, b
      <4>3. /\ g \in [1..Len(ValuesIn(b)) -> Int]
            /\ \A i \in 1..Len(ValuesIn(b)) :
                  g[i] = ComparedAt(objects, n - 1, ValuesIn(b)[i], ValuesIn(a)[i])
        BY <1>2, <1>8, <2>1, <3>1, <3>2, <3>4, <4>1, MembersCompared DEF a, b
      <4>4. \A i \in 1..k : ValuesIn(a)[i] \in SmallLevel(objects, n - 1)
        BY <1>8, <3>4, SmallBelow DEF a
      <4>5. \A i \in 1..Len(ValuesIn(b)) : ValuesIn(b)[i] \in SmallLevel(objects, n - 1)
        BY <1>8, <3>2, <3>4, SmallBelow DEF b
      <4> HIDE DEF f, g, k
      <4>6. \A i \in 1..k : Opposed(f[i], g[i])
        BY <4>1, <4>2, <4>3, <4>4, <4>5 DEF OpposedAt
      <4>7. Opposed(FirstNonzero(f), FirstNonzero(g))
        BY <4>2, <4>3, <4>6, FirstOpposed
      <4>8. QED
        BY <3>2, <3>4, <4>7 DEF ByMembers, f, g
    <3>5. QED
      BY <3>3, <3>4
  <2>5. Opposed(ByParts(objects, n, a, b), ByParts(objects, n, b, a))
    <3>1. CASE ByHead(a, b) = 0
      <4>1. ByHead(b, a) = 0
        BY <2>3, <3>1 DEF Opposed
      <4>2. QED
        BY <2>3, <2>4, <3>1, <4>1 DEF ByParts
    <3>2. CASE ByHead(a, b) # 0
      <4>1. ByHead(b, a) # 0
        BY <2>3, <3>2 DEF Opposed
      <4>2. QED
        BY <2>3, <3>2, <4>1 DEF ByParts
    <3>3. QED
      BY <3>1, <3>2
  <2>6. QED
    BY <1>3, <1>4, <1>8, <2>5 DEF c, d
<1>9. QED
  BY <1>5, <1>6, <1>7, <1>8

ChainedAt(objects, n) ==
  \A v, w, u \in SmallLevel(objects, n) :
    Chained(ComparedAt(objects, n, v, w), ComparedAt(objects, n, w, u), ComparedAt(objects, n, v, u))

\* What is compared second matters when the first are all the same.
LEMMA PartsChained ==
  ASSUME NEW h1 \in Int, NEW h2 \in Int, NEW h3 \in Int, Chained(h1, h2, h3),
         NEW m1, NEW m2, NEW m3, h1 = 0 /\ h2 = 0 => Chained(m1, m2, m3)
  PROVE  Chained(IF h1 # 0 THEN h1 ELSE m1, IF h2 # 0 THEN h2 ELSE m2, IF h3 # 0 THEN h3 ELSE m3)
<1>1. CASE h1 = 0 /\ h2 = 0
  <2>1. h3 = 0
    BY <1>1 DEF Chained
  <2>2. QED
    BY <1>1, <2>1
<1>2. CASE ~ (h1 = 0 /\ h2 = 0)
  <2>1. ASSUME (IF h1 # 0 THEN h1 ELSE m1) <= 0, (IF h2 # 0 THEN h2 ELSE m2) <= 0
        PROVE  h3 <= 0 /\ h3 # 0
    <3>1. h1 <= 0 /\ h2 <= 0
      BY <2>1
    <3>2. QED
      BY <1>2, <3>1 DEF Chained
  <2>2. QED
    BY <1>2, <2>1 DEF Chained
<1>3. QED
  BY <1>1, <1>2

\* Three objects.
LEMMA ObjectsChained ==
  ASSUME NEW objects, Sound(objects), Len(objects) \in Nat, NEW n \in Nat,
         n # 0 => EqualAt(objects, n - 1) /\ ChainedAt(objects, n - 1),
         NEW v \in SmallLevel(objects, n), ~ UNBOXED(v),
         NEW w \in SmallLevel(objects, n), ~ UNBOXED(w),
         NEW u \in SmallLevel(objects, n), ~ UNBOXED(u),
         NEW a, a = objects[v \div 2], NEW b, b = objects[w \div 2], NEW c, c = objects[u \div 2]
  PROVE  Chained(ByParts(objects, n, a, b), ByParts(objects, n, b, c), ByParts(objects, n, a, c))
<1>1. /\ v \in Level(objects, n) /\ w \in Level(objects, n) /\ u \in Level(objects, n)
      /\ EqualAt(objects, n - 1) /\ ChainedAt(objects, n - 1) /\ n # 0
  <2>1. v \in Level(objects, n) /\ w \in Level(objects, n) /\ u \in Level(objects, n)
    BY DEF SmallLevel
  <2>2. n # 0
    BY <2>1, LevelSeen
  <2>3. QED
    BY <2>1, <2>2
<1>2. IsObject(a, Len(objects))
  BY <1>1, LevelSeen
<1>3. IsObject(b, Len(objects))
  BY <1>1, LevelSeen
<1>4. IsObject(c, Len(objects))
  BY <1>1, LevelSeen
<1>5. /\ ByHead(a, b) \in Int /\ (ByHead(a, b) = 0 <=> Fields(a) = Fields(b))
      /\ Chained(ByHead(a, b), ByHead(b, c), ByHead(a, c))
  BY <1>2, <1>3, <1>4, HeadsOrder
<1>6. ByHead(b, c) \in Int /\ (ByHead(b, c) = 0 <=> Fields(b) = Fields(c))
  BY <1>2, <1>3, <1>4, HeadsOrder
<1>7. ByHead(a, c) \in Int
  BY <1>2, <1>4, HeadsOrder
<1>8. ASSUME Fields(a) = Fields(b), Fields(b) = Fields(c)
      PROVE  Chained(ByMembers(objects, n, a, b), ByMembers(objects, n, b, c), ByMembers(objects, n, a, c))
  <2>1. a.type = b.type
    BY <1>2, <1>3, <1>8, FieldsTell
  <2>2. b.type = c.type
    BY <1>3, <1>4, <1>8, FieldsTell
  <2>3. CASE a.type = "STRING"
    <3>1. CText(a.members) \in Seq(Characters \ {0}) /\ CText(b.members) \in Seq(Characters \ {0})
      BY <1>2, <1>3, <2>1, <2>3, StringsSeen
    <3>2. CText(c.members) \in Seq(Characters \ {0})
      BY <1>3, <1>4, <2>1, <2>2, <2>3, StringsSeen
    <3>3. Chained(strcmp(CText(a.members), CText(b.members)), strcmp(CText(b.members), CText(c.members)),
                  strcmp(CText(a.members), CText(c.members)))
      BY <3>1, <3>2, TextsOrder
    <3>4. QED
      BY <2>1, <2>2, <2>3, <3>3 DEF ByMembers
  <2>4. CASE a.type # "STRING"
    <3> DEFINE f == Compares(objects, n - 1, a, b)
               g == Compares(objects, n - 1, b, c)
               h == Compares(objects, n - 1, a, c)
               k == Len(ValuesIn(a))
    <3>1. /\ k \in Nat /\ f \in [1..k -> Int] /\ Len(ValuesIn(b)) = k
          /\ \A i \in 1..k : f[i] = ComparedAt(objects, n - 1, ValuesIn(a)[i], ValuesIn(b)[i])
      BY <1>1, <1>8, <2>4, MembersCompared
    <3>2. /\ g \in [1..Len(ValuesIn(b)) -> Int] /\ Len(ValuesIn(c)) = Len(ValuesIn(b))
          /\ \A i \in 1..Len(ValuesIn(b)) :
                g[i] = ComparedAt(objects, n - 1, ValuesIn(b)[i], ValuesIn(c)[i])
      BY <1>1, <1>8, <2>1, <2>4, MembersCompared
    <3>3. /\ h \in [1..k -> Int]
          /\ \A i \in 1..k : h[i] = ComparedAt(objects, n - 1, ValuesIn(a)[i], ValuesIn(c)[i])
      BY <1>1, <1>8, <2>4, MembersCompared
    <3>4. \A i \in 1..k : ValuesIn(a)[i] \in SmallLevel(objects, n - 1)
      BY <2>4, SmallBelow
    <3>5. \A i \in 1..Len(ValuesIn(b)) : ValuesIn(b)[i] \in SmallLevel(objects, n - 1)
      BY <2>1, <2>4, SmallBelow
    <3>6. \A i \in 1..Len(ValuesIn(c)) : ValuesIn(c)[i] \in SmallLevel(objects, n - 1)
      BY <2>1, <2>2, <2>4, SmallBelow
    <3> HIDE DEF f, g, h, k
    <3>7. \A i \in 1..k : Chained(f[i], g[i], h[i])
      BY <1>1, <3>1, <3>2, <3>3, <3>4, <3>5, <3>6 DEF ChainedAt
    <3>8. Chained(FirstNonzero(f), FirstNonzero(g), FirstNonzero(h))
      BY <3>1, <3>2, <3>3, <3>7, FirstChained
    <3>9. QED
      BY <2>1, <2>2, <2>4, <3>8 DEF ByMembers, f, g, h
  <2>5. QED
    BY <2>3, <2>4
<1>9. ByHead(a, b) = 0 /\ ByHead(b, c) = 0 =>
        Chained(ByMembers(objects, n, a, b), ByMembers(objects, n, b, c), ByMembers(objects, n, a, c))
  BY <1>5, <1>6, <1>8
<1>10. QED
  BY <1>5, <1>6, <1>7, <1>9, PartsChained DEF ByParts

LEMMA ChainedStep ==
  ASSUME NEW objects, Sound(objects), Len(objects) \in Nat, NEW n \in Nat,
         OpposedAt(objects, n), n # 0 => EqualAt(objects, n - 1) /\ ChainedAt(objects, n - 1)
  PROVE  ChainedAt(objects, n)
<1>1. SUFFICES ASSUME NEW v \in SmallLevel(objects, n), NEW w \in SmallLevel(objects, n),
                      NEW u \in SmallLevel(objects, n)
               PROVE  Chained(ComparedAt(objects, n, v, w), ComparedAt(objects, n, w, u),
                              ComparedAt(objects, n, v, u))
  BY DEF ChainedAt
<1> DEFINE x == ComparedAt(objects, n, v, w)
           y == ComparedAt(objects, n, w, u)
           z == ComparedAt(objects, n, v, u)
           a == objects[v \div 2]
           b == objects[w \div 2]
           c == objects[u \div 2]
<1>2. /\ v \in Level(objects, n) /\ w \in Level(objects, n) /\ u \in Level(objects, n)
      /\ UNBOXED(v) => 2 * UNBOX(v) \in Ints /\ UNBOX(v) \in Ints
      /\ UNBOXED(w) => 2 * UNBOX(w) \in Ints /\ UNBOX(w) \in Ints
      /\ UNBOXED(u) => 2 * UNBOX(u) \in Ints /\ UNBOX(u) \in Ints
  <2>1. v \in Level(objects, n) /\ (UNBOXED(v) => 2 * UNBOX(v) \in Ints)
    BY SmallBelow
  <2>2. w \in Level(objects, n) /\ (UNBOXED(w) => 2 * UNBOX(w) \in Ints)
    BY SmallBelow
  <2>3. u \in Level(objects, n) /\ (UNBOXED(u) => 2 * UNBOX(u) \in Ints)
    BY SmallBelow
  <2>4. QED
    BY <2>1, <2>2, <2>3, LevelWords
<1> HIDE DEF x, y, z, a, b, c
<1>3. /\ v = w => x = 0
      /\ v # w /\ UNBOXED(v) /\ UNBOXED(w) => x = AsInt(UNBOX(v) - UNBOX(w))
      /\ UNBOXED(v) /\ ~ UNBOXED(w) => x = -1
      /\ ~ UNBOXED(v) /\ UNBOXED(w) => x = 1
      /\ v # w /\ ~ UNBOXED(v) /\ ~ UNBOXED(w) => x = ByParts(objects, n, a, b)
  BY <1>2, ComparedSeen DEF a, b, x
<1>4. /\ w = u => y = 0
      /\ w # u /\ UNBOXED(w) /\ UNBOXED(u) => y = AsInt(UNBOX(w) - UNBOX(u))
      /\ UNBOXED(w) /\ ~ UNBOXED(u) => y = -1
      /\ ~ UNBOXED(w) /\ UNBOXED(u) => y = 1
      /\ w # u /\ ~ UNBOXED(w) /\ ~ UNBOXED(u) => y = ByParts(objects, n, b, c)
  BY <1>2, ComparedSeen DEF b, c, y
<1>5. /\ v = u => z = 0
      /\ v # u /\ UNBOXED(v) /\ UNBOXED(u) => z = AsInt(UNBOX(v) - UNBOX(u))
      /\ UNBOXED(v) /\ ~ UNBOXED(u) => z = -1
      /\ ~ UNBOXED(v) /\ UNBOXED(u) => z = 1
      /\ v # u /\ ~ UNBOXED(v) /\ ~ UNBOXED(u) => z = ByParts(objects, n, a, c)
  BY <1>2, ComparedSeen DEF a, c, z
<1>6. CASE v = w
  <2>1. x = 0 /\ y = z
    BY <1>3, <1>6 DEF y, z
  <2>2. Chained(x, y, z)
    BY <2>1 DEF Chained
  <2>3. QED
    BY <2>2 DEF x, y, z
<1>7. CASE w = u
  <2>1. y = 0 /\ x = z
    BY <1>4, <1>7 DEF x, z
  <2>2. Chained(x, y, z)
    BY <2>1 DEF Chained
  <2>3. QED
    BY <2>2 DEF x, y, z
<1>8. CASE v = u
  <2>1. z = 0 /\ y = ComparedAt(objects, n, w, v)
    BY <1>5, <1>8 DEF y
  <2>2. Opposed(x, y)
    BY <2>1 DEF OpposedAt, x
  <2>3. Chained(x, y, z)
    <3>1. x \in Int /\ y \in Int
      BY <1>1, <1>2, EqualStep DEF EqualAt, x, y
    <3>2. QED
      BY <2>1, <2>2, <3>1 DEF Chained, Opposed
  <2>4. QED
    BY <2>3 DEF x, y, z
<1>9. ASSUME v # w, w # u, v # u
      PROVE  Chained(x, y, z)
  <2>1. ASSUME UNBOXED(v), UNBOXED(w), UNBOXED(u)
        PROVE  Chained(x, y, z)
    <3>1. x = UNBOX(v) - UNBOX(w) /\ UNBOX(v) \in Int /\ UNBOX(w) \in Int
      BY <1>2, <1>3, <1>9, <2>1, SmallDifference
    <3>2. y = UNBOX(w) - UNBOX(u) /\ UNBOX(u) \in Int
      BY <1>2, <1>4, <1>9, <2>1, SmallDifference
    <3>3. z = UNBOX(v) - UNBOX(u)
      BY <1>2, <1>5, <1>9, <2>1, SmallDifference
    <3>4. QED
      BY <3>1, <3>2, <3>3 DEF Chained
  <2>2. ASSUME ~ UNBOXED(v), ~ UNBOXED(w), ~ UNBOXED(u)
        PROVE  Chained(x, y, z)
    <3>1. /\ x = ByParts(objects, n, a, b) /\ y = ByParts(objects, n, b, c)
          /\ z = ByParts(objects, n, a, c)
      BY <1>3, <1>4, <1>5, <1>9, <2>2
    <3>2. Chained(ByParts(objects, n, a, b), ByParts(objects, n, b, c), ByParts(objects, n, a, c))
      BY <2>2, ObjectsChained DEF a, b, c
    <3>3. QED
      BY <3>1, <3>2
  <2>3. ASSUME UNBOXED(v), ~ UNBOXED(w), UNBOXED(u)
        PROVE  Chained(x, y, z)
    <3>1. y = 1
      BY <1>4, <2>3
    <3>2. QED
      BY <3>1 DEF Chained
  <2>4. ASSUME UNBOXED(v), ~ UNBOXED(u)
        PROVE  Chained(x, y, z)
    <3>1. z = -1 /\ (x = -1 \/ y = -1)
      BY <1>3, <1>4, <1>5, <2>4
    <3>2. QED
      BY <3>1 DEF Chained
  <2>5. ASSUME ~ UNBOXED(v), UNBOXED(w)
        PROVE  Chained(x, y, z)
    <3>1. x = 1
      BY <1>3, <2>5
    <3>2. QED
      BY <3>1 DEF Chained
  <2>6. ASSUME ~ UNBOXED(v), ~ UNBOXED(w), UNBOXED(u)
        PROVE  Chained(x, y, z)
    <3>1. y = 1
      BY <1>4, <2>6
    <3>2. QED
      BY <3>1 DEF Chained
  <2>7. QED
    BY <2>1, <2>2, <2>3, <2>4, <2>5, <2>6
<1>10. QED
  BY <1>6, <1>7, <1>8, <1>9 DEF x, y, z

LEMMA OrderedEverywhere ==
  ASSUME NEW objects, Sound(objects), Len(objects) \in Nat
  PROVE  \A n \in Nat : OpposedAt(objects, n) /\ ChainedAt(objects, n)
<1> DEFINE T == {n \in Nat : OpposedAt(objects, n) /\ ChainedAt(objects, n)}
<1>1. ASSUME NEW n \in Nat, \A i \in Nat : i < n => i \in T
      PROVE  n \in T
  <2>1. n # 0 => n - 1 \in Nat /\ n - 1 < n
    OBVIOUS
  <2>2. n # 0 => EqualAt(objects, n - 1) /\ OpposedAt(objects, n - 1) /\ ChainedAt(objects, n - 1)
    BY <1>1, <2>1, EqualEverywhere
  <2>3. OpposedAt(objects, n)
    BY <2>2, OpposedStep
  <2>4. ChainedAt(objects, n)
    BY <2>2, <2>3, ChainedStep
  <2>5. QED
    BY <2>3, <2>4
<1> HIDE DEF T
<1>2. \A n \in Nat : n \in T
  BY <1>1, AllNaturals
<1>3. QED
  BY <1>2 DEF T

-----------------------------------------------------------------------------
(* The hash.                                                                *)

\* Values whose strings are as long as their texts.
WholeLevel(objects, n) ==
  {w \in Level(objects, n) :
     \A u \in WordsAt(objects, n, w) :
       ~ UNBOXED(u) /\ objects[u \div 2].type = "STRING" => 0 \notin ToSet(objects[u \div 2].members)}

LEMMA WholeBelow ==
  ASSUME NEW objects, Sound(objects), NEW n \in Nat, NEW w \in WholeLevel(objects, n),
         NEW o, o = objects[w \div 2]
  PROVE  /\ w \in Level(objects, n)
         /\ ~ UNBOXED(w) /\ o.type = "STRING" => 0 \notin ToSet(o.members)
         /\ ~ UNBOXED(w) /\ o.type # "STRING" =>
              \A i \in 1..Len(ValuesIn(o)) : ValuesIn(o)[i] \in WholeLevel(objects, n - 1)
<1>1. /\ w \in Level(objects, n)
      /\ \A u \in WordsAt(objects, n, w) :
           ~ UNBOXED(u) /\ objects[u \div 2].type = "STRING" => 0 \notin ToSet(objects[u \div 2].members)
  BY DEF WholeLevel
<1>2. w \in WordsAt(objects, n, w)
  BY <1>1, WordsBelow
<1>3. ASSUME ~ UNBOXED(w), o.type # "STRING", NEW i \in 1..Len(ValuesIn(o))
      PROVE  ValuesIn(o)[i] \in WholeLevel(objects, n - 1)
  <2>1. ValuesIn(o)[i] \in Level(objects, n - 1)
    BY <1>1, <1>3, LevelSeen
  <2>2. WordsAt(objects, n - 1, ValuesIn(o)[i]) \subseteq WordsAt(objects, n, w)
    BY <1>1, <1>3, WordsBelow
  <2>3. QED
    BY <1>1, <2>1, <2>2 DEF WholeLevel
<1>4. QED
  BY <1>1, <1>2, <1>3

\* Such a string is its text.
LEMMA WholeString ==
  ASSUME NEW n \in Nat, NEW a, IsObject(a, n), a.type = "STRING", 0 \notin ToSet(a.members)
  PROVE  CText(a.members) = a.members
<1>1. a.members \in Seq(Int)
  BY DEF IsObject, Objects
<1>2. DOMAIN a.members = 1..Len(a.members)
  BY <1>1, SequenceEntries
<1>3. \A i \in 1..Len(a.members) : a.members[i] # 0
  BY <1>2 DEF ToSet
<1>4. {i \in 1..Len(a.members) : a.members[i] = 0} = {}
  BY <1>3
<1>5. QED
  BY <1>4 DEF CText

\* Objects with one head and one text add the same numbers.
LEMMA HashedAlike ==
  ASSUME NEW n \in Nat, NEW a, IsObject(a, n), NEW b, IsObject(b, n), Fields(a) = Fields(b),
         a.type = "STRING" => /\ CText(a.members) = CText(b.members)
                              /\ 0 \notin ToSet(a.members) /\ 0 \notin ToSet(b.members)
  PROVE  Hashed(a) = Hashed(b)
<1>1. /\ a.type = b.type
      /\ a.type # "STRING" => Len(a.members) = Len(b.members)
      /\ a.type = "SEXP" => a.tag = b.tag
      /\ a.type = "CLOSURE" => a.members[1] = b.members[1]
  BY FieldsTell
<1>2. a.type = "STRING" => CText(a.members) = a.members
  BY WholeString
<1>3. b.type = "STRING" => CText(b.members) = b.members
  BY <1>1, WholeString
<1>4. Len(a.members) = Len(b.members)
  BY <1>1, <1>2, <1>3
<1>5. a.type \in {"STRING", "ARRAY", "SEXP", "CLOSURE"}
  BY DEF IsObject, Objects
<1> DEFINE more(o) == CASE o.type = "STRING"  -> CText(o.members)
                        [] o.type = "CLOSURE" -> <<o.members[1]>>
                        [] o.type = "SEXP"    -> <<o.tag>>
                        [] o.type = "ARRAY"   -> <<>>
<1>6. more(a) = more(b)
  BY <1>1, <1>5
<1>7. TypeTag(a) = TypeTag(b)
  BY <1>1, <1>5 DEF TypeTag
<1>8. Hashed(a) = <<TypeTag(a), Len(a.members)>> \o more(a)
      /\ Hashed(b) = <<TypeTag(b), Len(b.members)>> \o more(b)
  BY DEF Hashed
<1> HIDE DEF more
<1>9. QED
  BY <1>4, <1>6, <1>7, <1>8

MemberHashes(objects, k, o) ==
  [i \in 1..Len(ValuesIn(o)) |-> HashAt(objects, k, ValuesIn(o)[i])]

LEMMA HashSeen ==
  ASSUME NEW objects, Sound(objects), Len(objects) \in Nat, NEW k \in Nat,
         NEW n \in Nat, NEW w \in Level(objects, n), NEW o, o = objects[w \div 2]
  PROVE  HashAt(objects, k, w) =
           IF k = 0 THEN [acc \in Nat |-> acc]
           ELSE IF UNBOXED(w) THEN [acc \in Nat |-> HASH_APPEND(acc, UNBOX(w))]
           ELSE IF o.type = "STRING" THEN [acc \in Nat |-> HashedIn(acc, Hashed(o))]
           ELSE [acc \in Nat |-> HashedThrough(HashedIn(acc, Hashed(o)), MemberHashes(objects, k - 1, o))]
<1> DEFINE below == Hashes!Defined(objects)[k - 1]
           f == Hashes!Defined(objects)[k]
           members == [i \in DOMAIN ValuesIn(o) |-> below[ValuesIn(o)[i]]]
<1>1. f = HashesBody(objects, k, below)
  BY HashesUnfold
<1>2. w \in AllWords /\ (~ UNBOXED(w) => w <= Address(Len(objects)))
  BY LevelWords DEF Address
<1> HIDE DEF f, below
<1>3. HashesBody(objects, k, below)[w] =
        [acc \in Nat |->
           IF k = 0 THEN acc
           ELSE IF UNBOXED(w) THEN HASH_APPEND(acc, UNBOX(w))
           ELSE IF ~ (~ UNBOXED(w) /\ w <= Address(Len(objects))) THEN HASH_APPEND(acc, w)
           ELSE IF o.type = "STRING" THEN HashedIn(acc, Hashed(o))
                ELSE HashedThrough(HashedIn(acc, Hashed(o)), members)]
  BY <1>2 DEF HashesBody
<1>4. ~ UNBOXED(w) => members = MemberHashes(objects, k - 1, o)
  <2>1. SUFFICES ASSUME ~ UNBOXED(w) PROVE members = MemberHashes(objects, k - 1, o)
    OBVIOUS
  <2>2. DOMAIN ValuesIn(o) = 1..Len(ValuesIn(o))
    BY <2>1, LevelSeen
  <2>3. QED
    BY <2>2 DEF MemberHashes, HashAt, below
<1>5. HashAt(objects, k, w) = HashesBody(objects, k, below)[w]
  BY <1>1 DEF HashAt, f
<1> HIDE DEF members
<1>6. QED
  BY <1>2, <1>3, <1>4, <1>5

\* Values built alike are hashed alike, to every depth.
HashedAt(objects, n) ==
  \A v, w \in WholeLevel(objects, n) :
    TreeAt(objects, n, v) = TreeAt(objects, n, w) =>
      \A k \in Nat : HashAt(objects, k, v) = HashAt(objects, k, w)

LEMMA HashedStep ==
  ASSUME NEW objects, Sound(objects), Len(objects) \in Nat, NEW n \in Nat,
         n # 0 => HashedAt(objects, n - 1)
  PROVE  HashedAt(objects, n)
<1>1. SUFFICES ASSUME NEW v \in WholeLevel(objects, n), NEW w \in WholeLevel(objects, n),
                      TreeAt(objects, n, v) = TreeAt(objects, n, w), NEW k \in Nat
               PROVE  HashAt(objects, k, v) = HashAt(objects, k, w)
  BY DEF HashedAt
<1> DEFINE a == objects[v \div 2]
           b == objects[w \div 2]
<1> HIDE DEF a, b
<1>2. /\ v \in Level(objects, n)
      /\ ~ UNBOXED(v) /\ a.type = "STRING" => 0 \notin ToSet(a.members)
      /\ ~ UNBOXED(v) /\ a.type # "STRING" =>
           \A i \in 1..Len(ValuesIn(a)) : ValuesIn(a)[i] \in WholeLevel(objects, n - 1)
  BY WholeBelow DEF a
<1>3. /\ w \in Level(objects, n)
      /\ ~ UNBOXED(w) /\ b.type = "STRING" => 0 \notin ToSet(b.members)
      /\ ~ UNBOXED(w) /\ b.type # "STRING" =>
           \A i \in 1..Len(ValuesIn(b)) : ValuesIn(b)[i] \in WholeLevel(objects, n - 1)
  BY WholeBelow DEF b
<1>4. HashAt(objects, k, v) =
        IF k = 0 THEN [acc \in Nat |-> acc]
        ELSE IF UNBOXED(v) THEN [acc \in Nat |-> HASH_APPEND(acc, UNBOX(v))]
        ELSE IF a.type = "STRING" THEN [acc \in Nat |-> HashedIn(acc, Hashed(a))]
        ELSE [acc \in Nat |-> HashedThrough(HashedIn(acc, Hashed(a)), MemberHashes(objects, k - 1, a))]
  BY <1>2, HashSeen DEF a
<1>5. HashAt(objects, k, w) =
        IF k = 0 THEN [acc \in Nat |-> acc]
        ELSE IF UNBOXED(w) THEN [acc \in Nat |-> HASH_APPEND(acc, UNBOX(w))]
        ELSE IF b.type = "STRING" THEN [acc \in Nat |-> HashedIn(acc, Hashed(b))]
        ELSE [acc \in Nat |-> HashedThrough(HashedIn(acc, Hashed(b)), MemberHashes(objects, k - 1, b))]
  BY <1>3, HashSeen DEF b
<1>6. /\ UNBOXED(v) /\ UNBOXED(w) => UNBOX(v) = UNBOX(w)
      /\ UNBOXED(v) <=> UNBOXED(w)
      /\ ~ UNBOXED(v) /\ ~ UNBOXED(w) =>
           /\ Fields(a) = Fields(b)
           /\ a.type = "STRING" => CText(a.members) = CText(b.members)
           /\ a.type # "STRING" =>
                \A i \in 1..Len(ValuesIn(a)) :
                  TreeAt(objects, n - 1, ValuesIn(a)[i]) = TreeAt(objects, n - 1, ValuesIn(b)[i])
  BY <1>1, <1>2, <1>3, TreesTell DEF a, b
<1>7. CASE k = 0
  BY <1>4, <1>5, <1>7
<1>8. CASE k # 0 /\ UNBOXED(v)
  <2>1. UNBOXED(w) /\ UNBOX(v) = UNBOX(w)
    BY <1>6, <1>8
  <2>2. QED
    BY <1>4, <1>5, <1>8, <2>1
<1>9. CASE k # 0 /\ ~ UNBOXED(v)
  <2>1. ~ UNBOXED(w) /\ Fields(a) = Fields(b)
    BY <1>6, <1>9
  <2>2. IsObject(a, Len(objects)) /\ Len(ValuesIn(a)) \in Nat /\ n # 0
    BY <1>2, <1>9, LevelSeen DEF a
  <2>3. IsObject(b, Len(objects)) /\ Len(ValuesIn(b)) \in Nat
    BY <1>3, <2>1, LevelSeen DEF b
  <2>4. a.type = b.type /\ (a.type # "STRING" => Len(a.members) = Len(b.members))
    BY <2>1, <2>2, <2>3, FieldsTell
  <2>5. Hashed(a) = Hashed(b)
    BY <1>2, <1>3, <1>6, <1>9, <2>1, <2>2, <2>3, <2>4, HashedAlike
  <2>6. CASE a.type = "STRING"
    BY <1>4, <1>5, <1>9, <2>1, <2>4, <2>5, <2>6
  <2>7. CASE a.type # "STRING"
    <3>1. Len(ValuesIn(a)) = Len(ValuesIn(b))
      BY <2>2, <2>3, <2>4, <2>7, LengthsTell
    <3>2. ASSUME NEW i \in 1..Len(ValuesIn(a))
          PROVE  HashAt(objects, k - 1, ValuesIn(a)[i]) = HashAt(objects, k - 1, ValuesIn(b)[i])
      <4>1. ValuesIn(a)[i] \in WholeLevel(objects, n - 1)
        BY <1>2, <1>9, <2>7
      <4>2. ValuesIn(b)[i] \in WholeLevel(objects, n - 1)
        BY <1>3, <2>1, <2>4, <2>7, <3>1
      <4>3. TreeAt(objects, n - 1, ValuesIn(a)[i]) = TreeAt(objects, n - 1, ValuesIn(b)[i])
        BY <1>6, <1>9, <2>1, <2>7
      <4>4. k - 1 \in Nat /\ HashedAt(objects, n - 1)
        BY <1>9, <2>2
      <4>5. QED
        BY <4>1, <4>2, <4>3, <4>4 DEF HashedAt
    <3>3. MemberHashes(objects, k - 1, a) = MemberHashes(objects, k - 1, b)
      BY <3>1, <3>2 DEF MemberHashes
    <3>4. QED
      BY <1>4, <1>5, <1>9, <2>1, <2>4, <2>5, <2>7, <3>3
  <2>8. QED
    BY <2>6, <2>7
<1>10. QED
  BY <1>7, <1>8, <1>9

LEMMA HashedEverywhere ==
  ASSUME NEW objects, Sound(objects), Len(objects) \in Nat
  PROVE  \A n \in Nat : HashedAt(objects, n)
<1> DEFINE T == {n \in Nat : HashedAt(objects, n)}
<1>1. ASSUME NEW n \in Nat, \A i \in Nat : i < n => i \in T
      PROVE  n \in T
  <2>1. n # 0 => n - 1 \in Nat /\ n - 1 < n
    OBVIOUS
  <2>2. n # 0 => HashedAt(objects, n - 1)
    BY <1>1, <2>1
  <2>3. QED
    BY <2>2, HashedStep
<1> HIDE DEF T
<1>2. \A n \in Nat : n \in T
  BY <1>1, AllNaturals
<1>3. QED
  BY <1>2 DEF T

-----------------------------------------------------------------------------
(* The theorems.                                                            *)

LEMMA EqualsFound == WellMade => CompareFindsEquals
<1>1. SUFFICES ASSUME WellMade, NEW p \in Comparable, NEW q \in Comparable
               PROVE  Lcompare(p, q) = 0 <=> Tree(p) = Tree(q)
  BY DEF CompareFindsEquals
<1>2. Sound(heap) /\ Len(heap) \in Nat /\ p \in Level(heap, Len(heap))
  BY <1>1, ComparableLevel
<1>3. q \in Level(heap, Len(heap))
  BY <1>1, ComparableLevel
<1>4. EqualAt(heap, Len(heap))
  BY <1>2, EqualEverywhere
<1>5. ComparedAt(heap, Len(heap), p, q) = 0 <=> TreeAt(heap, Len(heap), p) = TreeAt(heap, Len(heap), q)
  BY <1>2, <1>3, <1>4 DEF EqualAt
<1>6. Lcompare(p, q) = ComparedAt(heap, Len(heap), p, q)
  BY LibraryUnfolds DEF ComparedAt
<1>7. Tree(p) = TreeAt(heap, Len(heap), p)
  BY LibraryUnfolds DEF TreeAt
<1>8. Tree(q) = TreeAt(heap, Len(heap), q)
  BY LibraryUnfolds DEF TreeAt
<1>9. QED
  BY <1>5, <1>6, <1>7, <1>8

LEMMA OrderFound == WellMade => CompareOrders
<1>1. SUFFICES ASSUME WellMade PROVE CompareOrders
  OBVIOUS
<1> DEFINE n == Len(heap)
           S == {w \in Comparable : Small(w)}
           c(x, y) == Lcompare(x, y)
<1>2. ASSUME NEW w \in S
      PROVE  w \in SmallLevel(heap, n) /\ w \in Level(heap, n) /\ Sound(heap) /\ n \in Nat
  <2>1. Sound(heap) /\ n \in Nat /\ w \in Level(heap, n)
    BY <1>1, <1>2, ComparableLevel
  <2>2. WordsOf(w) = WordsAt(heap, n, w)
    BY LibraryUnfolds DEF WordsAt
  <2>3. \A u \in WordsAt(heap, n, w) : UNBOXED(u) => 2 * UNBOX(u) \in Ints
    BY <1>2, <2>2 DEF Small
  <2>4. QED
    BY <2>1, <2>3 DEF SmallLevel
<1>3. ASSUME NEW p \in S, NEW q \in S
      PROVE  Lcompare(p, q) = ComparedAt(heap, n, p, q)
  BY LibraryUnfolds DEF ComparedAt
<1>4. ASSUME NEW p \in S, NEW q \in S
      PROVE  /\ Lcompare(p, q) \in Int /\ Lcompare(q, p) \in Int
             /\ Opposed(Lcompare(p, q), Lcompare(q, p))
  <2>1. EqualAt(heap, n) /\ OpposedAt(heap, n)
    BY <1>2, EqualEverywhere, OrderedEverywhere
  <2>2. ComparedAt(heap, n, p, q) \in Int /\ ComparedAt(heap, n, q, p) \in Int
    BY <1>2, <2>1 DEF EqualAt
  <2>3. Opposed(ComparedAt(heap, n, p, q), ComparedAt(heap, n, q, p))
    BY <1>2, <2>1 DEF OpposedAt
  <2>4. QED
    BY <1>3, <2>2, <2>3
<1>5. ASSUME NEW p \in S, NEW q \in S, NEW r \in S
      PROVE  Chained(Lcompare(p, q), Lcompare(q, r), Lcompare(p, r))
  <2>1. ChainedAt(heap, n)
    BY <1>2, OrderedEverywhere
  <2>2. Chained(ComparedAt(heap, n, p, q), ComparedAt(heap, n, q, r), ComparedAt(heap, n, p, r))
    BY <1>2, <2>1 DEF ChainedAt
  <2>3. QED
    BY <1>3, <2>2
<1> HIDE DEF S
<1>6. ASSUME NEW p \in S, NEW q \in S
      PROVE  Sign(Lcompare(p, q)) = - Sign(Lcompare(q, p))
  BY <1>4 DEF Opposed, Sign
<1>7. ASSUME NEW p \in S, NEW q \in S, NEW r \in S, Lcompare(p, q) < 0, Lcompare(q, r) < 0
      PROVE  Lcompare(p, r) < 0
  <2>1. Lcompare(p, q) \in Int /\ Lcompare(q, r) \in Int /\ Lcompare(p, r) \in Int
    BY <1>4
  <2>2. QED
    BY <1>5, <1>7, <2>1 DEF Chained
<1>8. QED
  BY <1>6, <1>7 DEF CompareOrders, S

LEMMA HashFound == WellMade => HashRespectsEquality
<1>1. SUFFICES ASSUME WellMade PROVE HashRespectsEquality
  OBVIOUS
<1> DEFINE n == Len(heap)
           S == {w \in Comparable : WithoutZeros(w)}
<1>2. ASSUME NEW w \in S
      PROVE  /\ w \in WholeLevel(heap, n) /\ Sound(heap) /\ n \in Nat
             /\ Tree(w) = TreeAt(heap, n, w)
             /\ Lhash(w) = HashAt(heap, HASH_DEPTH + 1, w)[0] % HashRange
  <2>1. Sound(heap) /\ n \in Nat /\ w \in Level(heap, n)
    BY <1>1, <1>2, ComparableLevel
  <2>2. WordsOf(w) = WordsAt(heap, n, w)
    BY LibraryUnfolds DEF WordsAt
  <2>3. \A u \in WordsAt(heap, n, w) :
          ~ UNBOXED(u) /\ heap[u \div 2].type = "STRING" => 0 \notin ToSet(heap[u \div 2].members)
    BY <1>2, <2>2 DEF WithoutZeros, IsA, At
  <2>4. w \in WholeLevel(heap, n)
    BY <2>1, <2>3 DEF WholeLevel
  <2>5. Tree(w) = TreeAt(heap, n, w)
    BY LibraryUnfolds DEF TreeAt
  <2>6. Lhash(w) = HashAt(heap, HASH_DEPTH + 1, w)[0] % HashRange
    BY LibraryUnfolds DEF Lhash, HashAt
  <2>7. QED
    BY <2>1, <2>4, <2>5, <2>6
<1> HIDE DEF S
<1>3. ASSUME NEW p \in S, NEW q \in S, Tree(p) = Tree(q)
      PROVE  Lhash(p) = Lhash(q)
  <2>1. HashedAt(heap, n)
    BY <1>2, HashedEverywhere
  <2>2. HASH_DEPTH + 1 \in Nat
    BY HashAssumption
  <2>3. TreeAt(heap, n, p) = TreeAt(heap, n, q)
    BY <1>2, <1>3
  <2>4. HashAt(heap, HASH_DEPTH + 1, p) = HashAt(heap, HASH_DEPTH + 1, q)
    BY <1>2, <2>1, <2>2, <2>3 DEF HashedAt
  <2>5. QED
    BY <1>2, <2>4
<1>4. QED
  BY <1>3 DEF HashRespectsEquality, S

\* Lcompare finds two values without a cycle equal when they are built alike
\* and only then, in every state of every execution: integers, strings, arrays,
\* s-expressions and closures however deep they go.
THEOREM EqualsCompare == Spec => []CompareFindsEquals
<1>1. Spec => []WellMade
  BY ProgramsMakeWords
<1>2. QED
  BY <1>1, EqualsFound, PTL

\* Lcompare orders the values whose integers are less than half of the range
\* apart: what is asked the other way round has the other sign, and less than
\* is transitive.
THEOREM ComparisonOrders == Spec => []CompareOrders
<1>1. Spec => []WellMade
  BY ProgramsMakeWords
<1>2. QED
  BY <1>1, OrderFound, PTL

\* Lhash of values built alike is the same, wherever they are in the heap and
\* however far below HASH_DEPTH they go.
THEOREM EqualsHash == Spec => []HashRespectsEquality
<1>1. Spec => []WellMade
  BY ProgramsMakeWords
<1>2. QED
  BY <1>1, HashFound, PTL

=============================================================================
