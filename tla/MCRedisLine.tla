----------------------------- MODULE MCRedisLine ------------------------------
(* Model checking of RedisLine: who calls what. *)
EXTENDS RedisLine

CONSTANTS c1, c2, c3

Calls(p, q, r) == [c \in Callers |-> CASE c = c1 -> p [] c = c2 -> q [] OTHER -> r]

MCPlans ==
  { Calls(<<"Set", "Set">>, <<"Blpop">>, <<>>),
    Calls(<<"Get", "Blpop">>, <<"Set">>, <<>>),
    Calls(<<"EvalScript", "Set">>, <<"Blpop">>, <<>>),
    Calls(<<"ScriptLoadAndEval", "Set">>, <<"Get">>, <<>>),
    Calls(<<"EvalScript">>, <<"ScriptLoadAndEval">>, <<>>),
    Calls(<<"Blpop", "Blpop">>, <<"Set">>, <<>>),
    Calls(<<"Blpop">>, <<"Set">>, <<"Set">>) }
=============================================================================
