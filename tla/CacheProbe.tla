------------------------------ MODULE CacheProbe ------------------------------
(***************************************************************************)
(* get_associativity of HW1/main.cpp, which infers the ways and the size   *)
(* of a cache from the time it takes to go round S words H words apart.    *)
(*                                                                         *)
(* The machine it runs on is an LRU cache, whose ways, words of a way and  *)
(* words of a line are chosen at the start; now and then a measurement is  *)
(* slowed down by something else.  Times are integers, of which only       *)
(* ratios count.                                                           *)
(***************************************************************************)
EXTENDS Integers, Sequences, FiniteSets

CONSTANTS
  MAX_ASSOCIATIVITY,        \* 50
  MaxStride,                \* the last H for which the words fit MAX_MEMORY
  Caches,                   \* records of ways, words and line
  Jumps,                    \* ten times what calculate_jump can make of JUMP
  HitTime, MissTime, Delay,
  MaxDelays                 \* measurements that are slowed down

ASSUME ProbeAssumption ==
  /\ MAX_ASSOCIATIVITY \in Nat /\ Caches \subseteq [ways : Nat, words : Nat, line : Nat \ {0}]
  /\ HitTime > 0 /\ MissTime > HitTime /\ Delay >= 0 /\ MaxDelays \in Nat

VARIABLES
  cache, JUMP,
  H, S,
  measurements,     \* of the stride H, with S from 1 on
  prev_time,
  jumps_map,        \* for each H, the S at which time jumps
  delays,           \* measurements slowed down so far
  state,            \* "measuring", "searching", "moving", "looking back",
                    \* "done", "strayed" after looking for what is not there
  found             \* the ways and the words of a way

vars == <<cache, JUMP, H, S, measurements, prev_time, jumps_map, delays, state, found>>

Strides == {2^k : k \in 0..20} \cap 1..MaxStride
Nothing == [ways |-> 0, words |-> 0]

Init ==
  /\ cache \in Caches /\ JUMP \in Jumps
  /\ H = 1 /\ S = 1
  /\ measurements = <<>> /\ prev_time = 0
  /\ jumps_map = [stride \in Strides |-> <<>>]
  /\ delays = 0 /\ state = "measuring" /\ found = Nothing

-----------------------------------------------------------------------------
(* The cache.                                                               *)

\* The lines of the words 0, H, ..., (S - 1) * H.
Lines == {(i * H) \div cache.line : i \in 0..(S - 1)}

SetOf(line) == line % (cache.words \div cache.line)

\* Round and round, the least recently used line is the one needed next: all
\* lines of a set that has too many miss.
Misses == {line \in Lines :
             Cardinality({other \in Lines : SetOf(other) = SetOf(line)}) > cache.ways}

AccessTime ==
  (100 * (Cardinality(Misses) * MissTime + (S - Cardinality(Misses)) * HitTime)) \div S

\* measure_access_time gives the time t.
Measures(t) ==
  \/ t = AccessTime /\ UNCHANGED delays
  \/ t = AccessTime + 100 * Delay /\ delays < MaxDelays /\ delays' = delays + 1

-----------------------------------------------------------------------------
(* isJump and isMovement.                                                   *)

WINDOW_SIZE == 3

\* The middle one of some measurements, 0 if they are too few.
get_median(from, to) ==
  IF from < 0 \/ to > Len(measurements) THEN 0
  ELSE LET window == (from + 1)..to
           below(i) == {j \in window : \/ measurements[j] < measurements[i]
                                       \/ measurements[j] = measurements[i] /\ j < i}
       IN  measurements[CHOOSE i \in window : Cardinality(below(i)) = WINDOW_SIZE \div 2]

\* Mutant: only the medians are looked at.
isJumpOfMedians(current_time) ==
  LET before == get_median(S - 1 - WINDOW_SIZE, S - 1)
      after  == get_median(S - 1, S - 1 + WINDOW_SIZE)
  IN  before # 0 /\ 10 * after > JUMP * before

\* JUMP_CURRENT is 1.19.
isJump(current_time) ==
  LET before == get_median(S - 1 - WINDOW_SIZE, S - 1)
      after  == get_median(S - 1, S - 1 + WINDOW_SIZE)
  IN  before # 0 /\ 10 * after > JUMP * before /\ 100 * current_time > 119 * before

Jumping == {stride \in Strides : jumps_map[stride] # <<>>}
Has(stride, s) == \E i \in DOMAIN jumps_map[stride] : jumps_map[stride][i] = s

\* The first jump is not yet the one of half the stride.
isMovement ==
  \/ Cardinality(Jumping) < 2
  \/ H \notin Jumping
  \/ H \div 2 < 16
  \/ H \div 2 \notin Jumping
  \/ ~ Has(H \div 2, jumps_map[H][1])

-----------------------------------------------------------------------------
(* get_associativity.                                                       *)

measure ==
  /\ state = "measuring"
  /\ \E t \in {AccessTime, AccessTime + 100 * Delay} :
       Measures(t) /\ measurements' = Append(measurements, t)
  /\ IF S + 1 < MAX_ASSOCIATIVITY THEN S' = S + 1 /\ UNCHANGED state
     ELSE S' = 1 /\ state' = "searching"
  /\ UNCHANGED <<cache, JUMP, H, prev_time, jumps_map, found>>

search ==
  /\ state = "searching"
  /\ \E t \in {AccessTime, AccessTime + 100 * Delay} :
       /\ Measures(t)
       /\ jumps_map' = IF prev_time # 0 /\ isJump(t)
                       THEN [jumps_map EXCEPT ![H] = Append(@, S)] ELSE jumps_map
       /\ prev_time' = t
  /\ S' = S + 1
  /\ state' = IF S + 1 < MAX_ASSOCIATIVITY THEN state ELSE "moving"
  /\ UNCHANGED <<cache, JUMP, H, measurements, found>>

\* jumps_map.find(H)->second[0], whether or not it is there.
move ==
  /\ state = "moving"
  /\ S' = 1 /\ measurements' = <<>> /\ prev_time' = 0
  /\ IF isMovement
     THEN /\ H' = 2 * H
          /\ state' = IF 2 * H \in Strides THEN "measuring" ELSE "strayed"
          /\ UNCHANGED found
     ELSE /\ found' = [ways |-> jumps_map[H][1] - 1, words |-> H \div 2]
          /\ H' = H \div 2
          /\ state' = "looking back"
  /\ UNCHANGED <<cache, JUMP, jumps_map, delays>>

\* The smallest stride with that jump.
look_back ==
  /\ state = "looking back"
  /\ IF H >= 16
     THEN /\ found' = IF Has(H, found.ways + 1) THEN [found EXCEPT !.words = H] ELSE found
          /\ H' = H \div 2
          /\ UNCHANGED state
     ELSE state' = "done" /\ UNCHANGED <<H, found>>
  /\ UNCHANGED <<cache, JUMP, S, measurements, prev_time, jumps_map, delays>>

Next == measure \/ search \/ move \/ look_back

Spec == Init /\ [][Next]_vars

-----------------------------------------------------------------------------
(* Properties.                                                              *)

\* The window needs three times before a jump and three after it; a way has
\* at least 16 words, and strides of four ways are tried.
Detectable ==
  /\ cache.ways \in WINDOW_SIZE..(MAX_ASSOCIATIVITY - 1 - WINDOW_SIZE)
  /\ cache.words >= 16
  /\ 4 * cache.words <= MaxStride

\* main.cpp:138-200: the ways and the size of the cache are found, though a
\* measurement may be slow; and the stride it ends with has a jump.
FindsCache ==
  Detectable =>
    /\ state # "strayed"
    /\ state = "done" => found = [ways |-> cache.ways, words |-> cache.words]
=============================================================================
