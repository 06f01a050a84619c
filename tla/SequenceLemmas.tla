---------------------------- MODULE SequenceLemmas ----------------------------
(***************************************************************************)
(* Sequences given by their entries: what the operators of Sequences do to *)
(* a function over 1..n of which only the entries are known. And the least *)
(* of some numbers, which is what there is of induction.                   *)
(***************************************************************************)
EXTENDS Integers, Sequences, SequenceTheorems, WellFoundedInduction, TLAPS

\* A function over 1..n is a sequence of length n.
LEMMA FunctionIsSeq ==
  ASSUME NEW n \in Nat, NEW S, NEW s \in [1..n -> S]
  PROVE  s \in Seq(S) /\ Len(s) = n
<1>1. s \in Seq(S)
  BY SeqDef
<1>2. DOMAIN s = 1..Len(s) /\ Len(s) \in Nat
  BY <1>1, LenProperties
<1>3. 1..n = 1..Len(s)
  BY <1>2
<1>4. QED
  BY <1>1, <1>2, <1>3

\* ... also when nothing is known of its entries.
LEMMA Entries ==
  ASSUME NEW n \in Nat, NEW s, s = [i \in 1..n |-> s[i]]
  PROVE  /\ Len(s) = n /\ DOMAIN s = 1..n
         /\ s \in Seq({s[i] : i \in 1..n})
<1>1. s \in [1..n -> {s[i] : i \in 1..n}]
  OBVIOUS
<1>2. QED
  BY <1>1, FunctionIsSeq

\* What Append adds.
LEMMA EntryAppended ==
  ASSUME NEW n \in Nat, NEW s, s = [i \in 1..n |-> s[i]], NEW x
  PROVE  Append(s, x) = [i \in 1..(n + 1) |-> IF i = n + 1 THEN x ELSE s[i]]
<1> DEFINE S == {s[i] : i \in 1..n} \cup {x}
           a == Append(s, x)
<1>1. s \in [1..n -> S] /\ x \in S
  OBVIOUS
<1>2. s \in Seq(S) /\ Len(s) = n
  BY <1>1, FunctionIsSeq
<1> HIDE DEF S
<1>3. /\ a \in Seq(S) /\ Len(a) = n + 1 /\ a[n + 1] = x
      /\ \A i \in 1..n : a[i] = s[i]
  BY <1>1, <1>2, AppendProperties
<1> HIDE DEF a
<1>4. a = [i \in 1..(n + 1) |-> a[i]]
  BY <1>3, LenProperties
<1>5. \A i \in 1..(n + 1) : a[i] = IF i = n + 1 THEN x ELSE s[i]
  BY <1>3
<1>6. a = [i \in 1..(n + 1) |-> IF i = n + 1 THEN x ELSE s[i]]
  BY <1>4, <1>5
<1>7. QED
  BY <1>6 DEF a

\* A part of a sequence.
LEMMA PartOfEntries ==
  ASSUME NEW n \in Nat, NEW s, s = [i \in 1..n |-> s[i]],
         NEW first \in 1..(n + 1), NEW last \in 0..n, first <= last + 1
  PROVE  SubSeq(s, first, last) = [i \in 1..(last + 1 - first) |-> s[first - 1 + i]]
<1> DEFINE S == {s[i] : i \in 1..n}
           t == SubSeq(s, first, last)
           k == last + 1 - first
<1>1. \A i \in first..last : s[i] \in S
  OBVIOUS
<1>2. k \in Nat /\ k = last - first + 1 /\ (first <= last \/ k = 0)
  OBVIOUS
<1>2a. first \in Int /\ last \in Int
  OBVIOUS
<1> HIDE DEF S, k
<1>3. /\ t \in Seq(S) /\ Len(t) = k
      /\ \A i \in 1..k : t[i] = s[first + i - 1]
  <2>1. t \in Seq(S)
    BY <1>1, <1>2a, SubSeqProperties
  <2>2. Len(t) = IF first <= last THEN last - first + 1 ELSE 0
    BY <1>1, <1>2a, SubSeqProperties
  <2>3. \A i \in 1..(last - first + 1) : t[i] = s[first + i - 1]
    BY <1>1, <1>2a, SubSeqProperties
  <2>4. QED
    BY <1>2, <1>2a, <2>1, <2>2, <2>3
<1> HIDE DEF t
<1>4. t = [i \in 1..k |-> t[i]]
  BY <1>3, LenProperties
<1>5. ASSUME NEW i \in 1..k
      PROVE  t[i] = s[first - 1 + i]
  <2>1. first + i - 1 = first - 1 + i
    BY <1>2, <1>2a
  <2>2. QED
    BY <1>3, <2>1
<1>6. t = [i \in 1..k |-> s[first - 1 + i]]
  BY <1>4, <1>5
<1>7. QED
  BY <1>6 DEF t, k

\* A sequence and one that follows it.
LEMMA EntriesJoined ==
  ASSUME NEW n \in Nat, NEW s, s = [i \in 1..n |-> s[i]],
         NEW k \in Nat, NEW t, t = [i \in 1..k |-> t[i]]
  PROVE  s \o t = [i \in 1..(n + k) |-> IF i <= n THEN s[i] ELSE t[i - n]]
<1> DEFINE S == {s[i] : i \in 1..n} \cup {t[i] : i \in 1..k}
           a == s \o t
<1>1. s \in [1..n -> S] /\ t \in [1..k -> S]
  OBVIOUS
<1>2. s \in Seq(S) /\ Len(s) = n /\ t \in Seq(S) /\ Len(t) = k
  BY <1>1, FunctionIsSeq
<1> HIDE DEF S
<1>3. /\ a \in Seq(S) /\ Len(a) = n + k
      /\ \A i \in 1..(n + k) : a[i] = IF i <= n THEN s[i] ELSE t[i - n]
  BY <1>2, ConcatProperties
<1> HIDE DEF a
<1>4. a = [i \in 1..(n + k) |-> a[i]]
  BY <1>3, LenProperties
<1>5. a = [i \in 1..(n + k) |-> IF i <= n THEN s[i] ELSE t[i - n]]
  BY <1>3, <1>4
<1>6. QED
  BY <1>5 DEF a
\* A sequence is the function of its entries.
LEMMA SequenceEntries ==
  ASSUME NEW S, NEW s \in Seq(S)
  PROVE  s = [i \in 1..Len(s) |-> s[i]] /\ Len(s) \in Nat /\ DOMAIN s = 1..Len(s)
         /\ \A i \in 1..Len(s) : s[i] \in S
BY LenProperties, ElementOfSeq

\* Numbers have a least one.
LEMMA LeastNatural ==
  ASSUME NEW T, T \subseteq Nat, T # {}
  PROVE  \E x \in T : \A y \in T : x <= y
<1> DEFINE R == {p \in Nat \X Nat : p[1] < p[2]}
<1>1. OpToRel(<, Nat) = R
  BY DEF OpToRel
<1>2. IsWellFoundedOn(R, Nat)
  BY <1>1, NatLessThanWellFounded
<1>3. PICK x \in T : \A y \in T : ~ (<<y, x>> \in R)
  BY <1>2, WFMin
<1>4. ASSUME NEW y \in T
      PROVE  x <= y
  <2>1. <<y, x>> \in Nat \X Nat /\ x \in Nat /\ y \in Nat
    OBVIOUS
  <2>2. ~ y < x
    BY <1>3, <2>1
  <2>3. QED
    BY <2>1, <2>2
<1>5. QED
  BY <1>4
\* Induction, where what is shown of every number is to be in a set.
LEMMA AllNaturals ==
  ASSUME NEW T, \A n \in Nat : (\A i \in Nat : i < n => i \in T) => n \in T
  PROVE  \A n \in Nat : n \in T
<1> DEFINE bad == {n \in Nat : n \notin T}
<1>1. SUFFICES ASSUME bad # {} PROVE FALSE
  OBVIOUS
<1>2. bad \subseteq Nat
  OBVIOUS
<1>3. PICK x \in bad : \A y \in bad : x <= y
  <2> HIDE DEF bad
  <2>1. QED
    BY <1>1, <1>2, LeastNatural
<1>4. ASSUME NEW i \in Nat, i < x
      PROVE  i \in T
  <2>1. ~ x <= i
    BY <1>2, <1>3, <1>4
  <2>2. QED
    BY <1>3, <2>1
<1>5. QED
  BY <1>3, <1>4
=============================================================================
