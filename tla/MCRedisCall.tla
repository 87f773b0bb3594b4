----------------------------- MODULE MCRedisCall ------------------------------
(* Model checking of RedisCall: the optional durations of a call.          *)
EXTENDS RedisCall

MCDeadlines == {{}, {0}, {2}, {5}}
MCTotals    == {{}, {0}, {1}, {3}}
NoOption    == {{}}
OneDeadline == {{5}}
=============================================================================
