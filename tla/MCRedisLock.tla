----------------------------- MODULE MCRedisLock ------------------------------
(* Model checking of RedisLock: the clients are interchangeable.           *)
EXTENDS RedisLock, TLC

Symmetry == Permutations(Clients)
=============================================================================
