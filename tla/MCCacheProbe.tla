----------------------------- MODULE MCCacheProbe -----------------------------
(***************************************************************************)
(* Small caches for TLC.                                                   *)
(***************************************************************************)
EXTENDS CacheProbe

MCCaches == {[ways |-> w, words |-> n, line |-> l] :
               w \in {1, 2, 3, 4, 6}, n \in {16, 32, 64}, l \in {1, 8}}
=============================================================================
