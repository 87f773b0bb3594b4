------------------------------ MODULE LaneGate ------------------------------
(***************************************************************************)
(* What a caller of redisx may rely on when it asks the pool for a command *)
(* lane, with none of the machinery that provides it: at most Lanes callers *)
(* are inside the gate, a closed gate lets nobody in, and it never reopens. *)
(* Whether somebody is still inside when close() returns is NOT promised   *)
(* here: RedisPool!CloseOkMeansDrained says what the documentation adds.   *)
(***************************************************************************)
EXTENDS Naturals, FiniteSets

CONSTANTS Tasks,  \* the concurrent callers of one pool
          Lanes   \* max_in_flight

VARIABLES inside, \* callers whose admission is decided and not yet undone
          closed  \* close() was called

gateVars == <<inside, closed>>

Init == inside = {} /\ closed = FALSE

(* A caller is let in: there is a free lane and the gate is open. *)
LetIn(t) ==
  /\ ~closed
  /\ t \notin inside
  /\ Cardinality(inside) < Lanes
  /\ inside' = inside \cup {t}
  /\ UNCHANGED closed

(* A caller leaves; it may do so whether or not the gate is closed. *)
LetOut(t) ==
  /\ t \in inside
  /\ inside' = inside \ {t}
  /\ UNCHANGED closed

(* The gate is closed for good; those inside stay until they leave. *)
Shut == closed' = TRUE /\ UNCHANGED inside

Next == \/ \E t \in Tasks : LetIn(t) \/ LetOut(t)
        \/ Shut

Spec == Init /\ [][Next]_gateVars
=============================================================================
