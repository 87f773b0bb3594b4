----------------------------- MODULE MCRedisPool -----------------------------
(* RedisPool on small instances. *)
EXTENDS RedisPool, TLC

(* Pooled tasks are interchangeable and so are permit users; used by the   *)
(* runs that check safety only.                                            *)
Symmetry == Permutations(PermitUsers) \cup Permutations(Pooled)
=============================================================================
