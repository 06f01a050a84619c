------------------------------- MODULE Library -------------------------------
(***************************************************************************)
(* Comparison and hashing of values in runtime.c, on the objects an        *)
(* execution of Interp has made.  Both walk an object and what it refers   *)
(* to, so only values without a cycle can be given to them.                *)
(***************************************************************************)
EXTENDS InterpView

CONSTANTS
  HASH_DEPTH,       \* 3
  HalfWord,         \* what a shift by WORD_SIZE / 2 multiplies by
  HashRange         \* the mask of Lhash and one

ASSUME HashAssumption == HASH_DEPTH \in Nat /\ HashRange \in Nat \ {0}
                         /\ HalfWord \in Nat /\ HalfWord * HalfWord = 4 * Half

\* TAG of a data header.
TypeTag(o) == CASE o.type = "STRING" -> 1 [] o.type = "ARRAY" -> 3
                [] o.type = "SEXP" -> 5 [] o.type = "CLOSURE" -> 7

-----------------------------------------------------------------------------
(* Lcompare, unboxed.                                                       *)

Sign(n) == IF n < 0 THEN -1 ELSE IF n > 0 THEN 1 ELSE 0

\* The first that is not zero.
FirstNonzero(ns) ==
  LET found == {i \in DOMAIN ns : ns[i] # 0}
  IN  IF found = {} THEN 0 ELSE ns[CHOOSE i \in found : \A j \in found : i <= j]

strcmp(s, t) ==
  LET byte(text, i) == IF i <= Len(text) THEN text[i] % 256 ELSE 0
  IN  FirstNonzero([i \in 1..Max({Len(s), Len(t)}) |-> byte(s, i) - byte(t, i)])

\* Mutant: the hashes of the tags are not compared.
HeadUntagged(o) == <<TypeTag(o), Len(o.members)>>

\* What COMPARE_AND_RETURN compares before the members.
HeadOf(o) ==
  CASE o.type = "STRING"  -> <<TypeTag(o)>>
    [] o.type = "CLOSURE" -> <<TypeTag(o), o.members[1], Len(o.members)>>
    [] o.type = "ARRAY"   -> <<TypeTag(o), Len(o.members)>>
    [] o.type = "SEXP"    -> <<TypeTag(o), o.tag, Len(o.members)>>

HeadsCompared(a, b) ==
  FirstNonzero([i \in 1..Min({Len(HeadOf(a)), Len(HeadOf(b))}) |->
                  AsInt(HeadOf(a)[i] - HeadOf(b)[i])])

\* Mutant: -1 whichever of the two is the integer.
KindsComparedOnce(p, q) == -1

\* One is an integer, the other is not.
KindsCompared(p, q) == IF UNBOXED(p) THEN -1 ELSE 1

\* It goes down as often as there are objects.
Lcompare(p, q) ==
  LET compared[n \in Nat] == [pair \in AllWords \X AllWords |->
        LET v == pair[1]
            w == pair[2]
            a == At(v)
            b == At(w)
        IN  IF v = w THEN 0
            ELSE IF UNBOXED(v) /\ UNBOXED(w) THEN AsInt(UNBOX(v) - UNBOX(w))
            ELSE IF UNBOXED(v) \/ UNBOXED(w) THEN KindsCompared(v, w)
            ELSE IF n = 0 THEN 0
            ELSE IF HeadsCompared(a, b) # 0 THEN HeadsCompared(a, b)
            ELSE IF a.type = "STRING" THEN strcmp(CText(a.members), CText(b.members))
            ELSE FirstNonzero([i \in DOMAIN ValuesIn(a) |->
                                 compared[n - 1][<<ValuesIn(a)[i], ValuesIn(b)[i]>>]])]
  IN  compared[Len(heap)][<<p, q>>]

-----------------------------------------------------------------------------
(* Lhash, unboxed.                                                          *)

HASH_APPEND(acc, x) ==
  LET sum == (acc + x) % (4 * Half)
  IN  ((sum * HalfWord) % (4 * Half)) + sum \div HalfWord

\* Mutant: the end of the heap is no part of it, where the newest object is.
is_valid_heap_pointerShort(w) == ~ UNBOXED(w) /\ w < Address(Len(heap))

is_valid_heap_pointer(w) == ~ UNBOXED(w) /\ w <= Address(Len(heap))

\* The numbers an object adds before its members are gone into.
Hashed(o) ==
  <<TypeTag(o), Len(o.members)>>
  \o (CASE o.type = "STRING"  -> CText(o.members)
        [] o.type = "CLOSURE" -> <<o.members[1]>>
        [] o.type = "SEXP"    -> <<o.tag>>
        [] o.type = "ARRAY"   -> <<>>)

HashedIn(acc, numbers) == FoldLeft(HASH_APPEND, acc, numbers)

\* The members' hashes, each of what the one before it has returned.
Through(acc, hash) == hash[acc]
HashedThrough(acc, hashes) == FoldLeft(Through, acc, hashes)

\* inner_hash of a word as a function of acc; HASH_DEPTH - depth levels are left
\* below it.
inner_hash(levels, w) ==
  LET hash[n \in Nat] == [v \in AllWords |-> [acc \in Nat |->
        IF n = 0 THEN acc
        ELSE IF UNBOXED(v) THEN HASH_APPEND(acc, UNBOX(v))
        ELSE IF ~ is_valid_heap_pointer(v) THEN HASH_APPEND(acc, v)
        ELSE LET o == At(v)
                 head == HashedIn(acc, Hashed(o))
             IN  IF o.type = "STRING" THEN head
                 ELSE HashedThrough(head,
                                    [i \in DOMAIN ValuesIn(o) |-> hash[n - 1][ValuesIn(o)[i]]])]]
  IN  hash[levels][w]

Lhash(w) == inner_hash(HASH_DEPTH + 1, w)[0] % HashRange

-----------------------------------------------------------------------------
(* Properties.                                                              *)

Acyclic(w) ==
  LET ends[n \in Nat] == [v \in AllWords |->
        ~ UNBOXED(v) => /\ n > 0
                        /\ At(v).type # "STRING" =>
                             \A u \in ToSet(ValuesIn(At(v))) : ends[n - 1][u]]
  IN  ends[Len(heap)][w]

\* The words there are in a value.
WordsOf(w) ==
  LET words[n \in Nat] == [v \in AllWords |->
        {v} \cup (IF n = 0 \/ UNBOXED(v) \/ At(v).type = "STRING" THEN {}
                 ELSE UNION {words[n - 1][u] : u \in ToSet(ValuesIn(At(v)))})]
  IN  words[Len(heap)][w]

\* What a value is, whatever the addresses.
Tree(w) ==
  LET tree[n \in Nat] == [v \in AllWords |->
        IF n = 0 \/ UNBOXED(v) THEN <<"int", UNBOX(v)>>
        ELSE LET o == At(v)
                 children == [i \in DOMAIN ValuesIn(o) |-> tree[n - 1][ValuesIn(o)[i]]]
             IN  CASE o.type = "STRING"  -> <<"string", CText(o.members)>>
                   [] o.type = "CLOSURE" -> <<"closure", o.members[1], children>>
                   [] o.type = "ARRAY"   -> <<"array", children>>
                   [] o.type = "SEXP"    -> <<"sexp", de_hash(o.tag), children>>]
  IN  tree[Len(heap)][w]

Comparable == {w \in ValuesHeld : Acyclic(w)}

\* runtime.c:634-686: two values compare as equal when they are built alike.
CompareFindsEquals ==
  \A p, q \in Comparable : Lcompare(p, q) = 0 <=> Tree(p) = Tree(q)

\* The difference of two integers wraps: the order holds for those that are
\* less than half of the range apart.
Small(w) == \A v \in WordsOf(w) : UNBOXED(v) => 2 * UNBOX(v) \in Ints

\* runtime.c:628-686: Lcompare orders values of every kind.
CompareOrders ==
  \A p, q \in {w \in Comparable : Small(w)} :
    /\ Sign(Lcompare(p, q)) = - Sign(Lcompare(q, p))
    /\ Lcompare(p, q) < 0 => \A r \in {w \in Comparable : Small(w)} :
                               Lcompare(q, r) < 0 => Lcompare(p, r) < 0

\* The length a string was made with counts, though its text ends at a zero.
WithoutZeros(w) == \A v \in WordsOf(w) : IsA(v, "STRING") => 0 \notin ToSet(At(v).members)

\* runtime.c:564-617: values built alike have one hash, wherever they are and
\* however deep.
HashRespectsEquality ==
  \A p, q \in {w \in Comparable : WithoutZeros(w)} :
    Tree(p) = Tree(q) => Lhash(p) = Lhash(q)
=============================================================================
