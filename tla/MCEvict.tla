------------------------------ MODULE MCEvict ------------------------------
(* The settings of the eviction run: every order once, some for all keys   *)
(* and some for the volatile ones, and no eviction; with and without limit. *)
EXTENDS Evict, TLC

Of(volatileOnly, order, limit) ==
  [policy |-> [volatileOnly |-> volatileOnly, order |-> order], maxmemory |-> limit]

Settings ==
  {Of(FALSE, "lru", 2), Of(TRUE, "lfu", 2), Of(TRUE, "ttl", 2),
   Of(FALSE, "random", 2), Of(FALSE, "none", 2), Of(FALSE, "none", 0)}

KeySymmetry == Permutations(Keys)
=============================================================================
