------------------------------- MODULE Recursion -------------------------------
(***************************************************************************)
(* A definition f[n \in D] == e by recursion defines what it says, if e    *)
(* looks at f below n only. The step is an operator G, the domain may      *)
(* depend on a parameter p as the step does.                               *)
(***************************************************************************)
EXTENDS SequenceLemmas

CONSTANTS Dom(_), G(_, _, _)

Looks(p) ==
  /\ Dom(p) \subseteq Nat
  /\ \A n \in Dom(p) : \A f, g :
       (\A i \in Dom(p) : i < n => f[i] = g[i]) => G(p, n, f) = G(p, n, g)

Defined(p) == CHOOSE f : f = [n \in Dom(p) |-> G(p, n, f)]

\* The function is there. It is put together from functions that are right up
\* to a number, of which any two agree as far as both go.
LEMMA Unfolds ==
  ASSUME NEW p, Looks(p)
  PROVE  Defined(p) = [n \in Dom(p) |-> G(p, n, Defined(p))]
<1> DEFINE D == Dom(p)
           Right(m, h) == h = [i \in {j \in D : j <= m} |-> G(p, i, h)]
           Upto(m) == CHOOSE h : Right(m, h)
           f == [n \in D |-> Upto(n)[n]]
<1>0. D \subseteq Nat
  BY DEF Looks
<1>1. ASSUME NEW m \in D, NEW k \in D, NEW g, NEW h, Right(m, g), Right(k, h), m <= k
      PROVE  \A i \in D : i <= m => g[i] = h[i]
  <2> DEFINE bad == {i \in D : i <= m /\ g[i] # h[i]}
  <2>1. SUFFICES ASSUME bad # {} PROVE FALSE
    OBVIOUS
  <2>2. PICK x \in bad : \A y \in bad : x <= y
    <3>1. bad \subseteq Nat
      BY <1>0
    <3> HIDE DEF bad
    <3>2. QED
      BY <2>1, <3>1, LeastNatural
  <2>3. x \in D /\ x <= m /\ x <= k /\ x \in Nat
    BY <1>0, <1>1, <2>2
  <2>4. \A i \in D : i < x => g[i] = h[i]
    BY <1>0, <2>2, <2>3
  <2>5. G(p, x, g) = G(p, x, h)
    BY <2>3, <2>4 DEF Looks
  <2>6. g[x] = G(p, x, g) /\ h[x] = G(p, x, h)
    BY <1>1, <2>3
  <2>7. QED
    BY <2>2, <2>5, <2>6
<1>2. ASSUME NEW m \in D, \A j \in D : j < m => Right(j, Upto(j))
      PROVE  \A j \in D : j < m => f[j] = G(p, j, f)
  <2>1. SUFFICES ASSUME NEW j \in D, j < m PROVE f[j] = G(p, j, f)
    OBVIOUS
  <2>2. Right(j, Upto(j)) /\ j \in Nat /\ m \in Nat
    BY <1>0, <1>2, <2>1
  <2>3. ASSUME NEW i \in D, i < j
        PROVE  f[i] = Upto(j)[i]
    <3>1. i < m /\ i <= j /\ i <= i
      BY <1>0, <2>1, <2>2, <2>3
    <3>2. Right(i, Upto(i))
      BY <1>2, <3>1
    <3> HIDE DEF Right, Upto
    <3>3. Upto(i)[i] = Upto(j)[i]
      BY <1>1, <2>2, <3>1, <3>2
    <3>4. QED
      BY <3>3
  <2>4. Upto(j)[j] = G(p, j, Upto(j))
    <3>1. j \in {i \in D : i <= j}
      BY <2>2
    <3> HIDE DEF Upto
    <3>2. QED
      BY <2>2, <3>1
  <2> HIDE DEF Upto
  <2>5. f[j] = Upto(j)[j]
    OBVIOUS
  <2> HIDE DEF f
  <2>6. G(p, j, f) = G(p, j, Upto(j))
    BY <2>3 DEF Looks
  <2>7. QED
    BY <2>4, <2>5, <2>6
<1>3. ASSUME NEW m \in D, \A j \in D : j < m => Right(j, Upto(j))
      PROVE  Right(m, Upto(m))
  <2> DEFINE h == [i \in {j \in D : j <= m} |-> G(p, i, f)]
  <2>1. \A j \in D : j < m => f[j] = G(p, j, f)
    <3> HIDE DEF Right, Upto, f
    <3>1. QED
      BY <1>2, <1>3
  <2> HIDE DEF f
  <2>2. ASSUME NEW i \in {j \in D : j <= m}
        PROVE  G(p, i, h) = G(p, i, f)
    <3>1. \A j \in D : j < i => j < m /\ j \in {l \in D : l <= m}
      BY <1>0
    <3>2. \A j \in D : j < i => h[j] = f[j]
      BY <2>1, <3>1
    <3> HIDE DEF h
    <3>3. QED
      BY <3>2 DEF Looks
  <2>3. h = [i \in {j \in D : j <= m} |-> G(p, i, h)]
    <3> DEFINE e == h
    <3>1. \A i \in {j \in D : j <= m} : G(p, i, e) = G(p, i, f)
      BY <2>2
    <3>2. e = [i \in {j \in D : j <= m} |-> G(p, i, f)]
      OBVIOUS
    <3> HIDE DEF e
    <3>3. e = [i \in {j \in D : j <= m} |-> G(p, i, e)]
      BY <3>1, <3>2
    <3>4. QED
      BY <3>3 DEF e
  <2> HIDE DEF h
  <2>4. QED
    BY <2>3
<1>4. \A m \in D : Right(m, Upto(m))
  <2> DEFINE bad == {m \in D : ~ Right(m, Upto(m))}
  <2> HIDE DEF Right, Upto, f
  <2>1. SUFFICES ASSUME bad # {} PROVE FALSE
    OBVIOUS
  <2>2. PICK x \in bad : \A y \in bad : x <= y
    <3>1. bad \subseteq Nat
      BY <1>0
    <3> HIDE DEF bad
    <3>2. QED
      BY <2>1, <3>1, LeastNatural
  <2>3. \A j \in D : j < x => Right(j, Upto(j))
    BY <1>0, <2>2
  <2>4. QED
    BY <1>3, <2>2, <2>3
<1>5. \A n \in D : f[n] = G(p, n, f)
  <2>1. SUFFICES ASSUME NEW n \in D PROVE f[n] = G(p, n, f)
    OBVIOUS
  <2>2. n \in Nat /\ n \in {i \in D : i <= n}
    BY <1>0
  <2>3. Right(n, Upto(n))
    BY <1>4
  <2>4. f[n] = Upto(n)[n]
    OBVIOUS
  <2>5. Upto(n)[n] = G(p, n, Upto(n))
    <3> HIDE DEF Upto
    <3>1. QED
      BY <2>2, <2>3
  <2>6. \A i \in D : i < n => f[i] = Upto(n)[i]
    <3>1. SUFFICES ASSUME NEW i \in D, i < n PROVE f[i] = Upto(n)[i]
      OBVIOUS
    <3>2. i <= n /\ i <= i
      BY <1>0, <2>2, <3>1
    <3>3. f[i] = Upto(i)[i]
      OBVIOUS
    <3> HIDE DEF Right, Upto, f
    <3>4. Right(i, Upto(i))
      BY <1>4
    <3>5. QED
      BY <1>1, <2>3, <3>1, <3>2, <3>3, <3>4
  <2> HIDE DEF Upto, f
  <2>7. G(p, n, f) = G(p, n, Upto(n))
    BY <2>6 DEF Looks
  <2>8. QED
    BY <2>4, <2>5, <2>7
<1>6. f = [n \in D |-> G(p, n, f)]
  <2> DEFINE e == f
  <2>1. e = [n \in D |-> e[n]] /\ \A n \in D : e[n] = G(p, n, e)
    BY <1>5
  <2> HIDE DEF e
  <2>2. e = [n \in D |-> G(p, n, e)]
    BY <2>1
  <2>3. QED
    BY <2>2 DEF e
<1>7. QED
  <2> HIDE DEF f
  <2>1. \E e : e = [n \in Dom(p) |-> G(p, n, e)]
    BY <1>6
  <2>2. QED
    BY <2>1 DEF Defined
=============================================================================
