--------------------------- MODULE RedisLock_proofs ---------------------------
(***************************************************************************)
(* Safety of the lock for every number of clients, TTLs, calls and         *)
(* failures: what a caller may count on it has, fences are distinct, only  *)
(* expiry or the owner frees the key, and an orphaned key runs out.        *)
(*                                                                         *)
(* The argument follows a command from the call to the server.  A command  *)
(* left behind by a failed call is harmless to everyone but its own client *)
(* (Allows): a SET or an INCR is of an acquisition that failed, whose      *)
(* token nobody has, and an EXTEND or DEL is of a client that has counted  *)
(* on no more than that command leaves it ever since it failed (floor).    *)
(* So running any command takes nothing from a client that counts on the   *)
(* key (ExecuteCovers), and a positive reply on its way is still true when *)
(* it arrives (Replies).  SET NX runs once per token (SetOnce), and a      *)
(* number that INCR answered is on one way only (Numbers).                 *)
(***************************************************************************)
EXTENDS RedisLock, FiniteSetTheorems, TLAPS

(* The commands a client sends.                                            *)
CommandSet == [op : Commands, token : Tokens, ttl : 0..MaxTtl]

-----------------------------------------------------------------------------
(* The inductive invariant.                                                *)

(* A late command is of an acquisition that began and of a call that       *)
(* failed; only what lock_release was called for is released.              *)
Sound(q) ==
  /\ q.id < failures
  /\ q.command.token <= attempts
  /\ q.command.op \in {"set", "extend"} => q.command.ttl > 0
  /\ q.command.op = "release" =>
       q.command.ttl = 0 /\ q.command.token \in asked

(* A client with the token of a late command has owned the lock since that *)
(* call failed, and counts on no more than the command leaves it.          *)
Allows(q, c) ==
  token[c] = q.command.token =>
    /\ q.command.op \in {"extend", "release"}
    /\ pc[c] \in {"held", "extend", "release"}
    /\ floor[c] <= q.command.ttl /\ sure[c] <= q.command.ttl

LateCommands ==
  /\ IsFiniteSet(late)
  /\ \A q \in late : Sound(q)
  /\ \A q \in late, c \in Clients : Allows(q, c)

(* The call a client is in, and what it counts on meanwhile.               *)
InCall(c) ==
  /\ pc[c] \in {"set", "extend"} => ttl[c] > 0
  /\ pc[c] = "release" => ttl[c] = 0 /\ token[c] \in asked
  /\ pc[c] \in {"idle", "set", "release"} => sure[c] = 0
  /\ pc[c] = "extend" => sure[c] <= ttl[c]

ClientCommands == \A c \in Clients : InCall(c)

(* A token whose SET is still to come has not had the key.                 *)
SetOnce ==
  /\ \A t \in Tokens : t > attempts => rank[t] = 0
  /\ \A c \in Clients : pc[c] = "set" /\ c \notin answered =>
       rank[token[c]] = 0
  /\ \A q \in late : q.command.op = "set" => rank[q.command.token] = 0
  /\ \A p, q \in late :
       p.command.op = "set" /\ q.command.op = "set"
         /\ p.command.token = q.command.token
         => p = q

KeyHasTtl == lock # NoToken <=> left > 0

(* The key carries the client's token for at least n more ticks.           *)
Covered(c, n) == n > 0 => lock = token[c] /\ left >= n

(* A reply on its way says something about the present.                    *)
StillTrue(c) ==
  c \in answered /\ answer[c] = 1 =>
    /\ pc[c] = "set" => Covered(c, Minus(ttl[c], wait[c]))
    /\ pc[c] = "extend" => Covered(c, Minus(Less(floor[c], ttl[c]), wait[c]))

Replies == \A c \in Clients : StillTrue(c)

(* The numbers INCR answered are distinct, those on their way included.    *)
Numbers ==
  /\ \A t \in Tokens : fence[t] <= fences
  /\ \A c \in answered : pc[c] = "incr" =>
       /\ answer[c] \in 1..fences
       /\ \A t \in Tokens : fence[t] # answer[c]
       /\ \A d \in answered : pc[d] = "incr" /\ answer[c] = answer[d] => c = d

Leases == \A c \in Clients : Covered(c, sure[c])

IInv ==
  /\ TypeOK /\ LateCommands /\ ClientCommands /\ SetOnce /\ KeyHasTtl
  /\ Replies /\ Numbers /\ Leases /\ FencesDistinct

-----------------------------------------------------------------------------
(* What is known of the constants.                                         *)
LEMMA Bounds ==
  /\ MaxTtl \in Nat /\ Ttls \subseteq 1..MaxTtl
  /\ MaxAttempts \in Nat /\ MaxFailures \in Nat
BY LockAssumption DEF LockAssumption

(* A client that is not idle has the token of an acquisition that began.   *)
LEMMA OwnToken ==
  ASSUME TypeOK, NEW c \in Clients, pc[c] # "idle"
  PROVE  token[c] \in Tokens /\ token[c] # NoToken /\ token[c] <= attempts
<1>1. /\ token[c] \in 0..attempts /\ attempts \in 0..MaxAttempts
      /\ token[c] # NoToken
  BY DEF TypeOK
<1>2. MaxAttempts \in Nat
  BY Bounds
<1>3. QED  BY <1>1, <1>2 DEF Tokens, NoToken

LEMMA LateTypes ==
  ASSUME TypeOK, NEW q \in late
  PROVE  /\ q.id \in Nat /\ q.command \in CommandSet
         /\ q.command.token \in Tokens /\ q.command.ttl \in Nat
         /\ q.command.token \in Nat /\ q.command.token # NoToken
<1>1. late \subseteq [id : Nat, command : CommandSet]
  BY DEF TypeOK, CommandSet
<1>2. q.id \in Nat /\ q.command \in CommandSet
  BY <1>1
<1>3. q.command.token \in Tokens /\ q.command.ttl \in 0..MaxTtl
  BY <1>2 DEF CommandSet
<1>4. QED  BY <1>2, <1>3, Bounds DEF Tokens, NoToken

(* No late command has the token of a client that has none.                *)
LEMMA NoneAllows ==
  ASSUME TypeOK, NEW c \in Clients, token'[c] = NoToken, UNCHANGED late
  PROVE  \A q \in late : Allows(q, c)'
BY LateTypes DEF Allows

-----------------------------------------------------------------------------
(* The clients.                                                            *)

(* The types of what a call consists of, and of what callers count on.     *)
CallType ==
  /\ pc \in [Clients -> Pcs] /\ token \in [Clients -> 0..attempts]
  /\ ttl \in [Clients -> 0..MaxTtl]
  /\ answered \subseteq {c \in Clients : pc[c] \in Commands}
  /\ answer \in [Clients -> Nat] /\ wait \in [Clients -> 0..MaxTtl]
  /\ \A c \in Clients : token[c] = NoToken <=> pc[c] = "idle"
  /\ \A c, d \in Clients : token[c] = token[d] /\ token[c] # NoToken => c = d

BeliefType ==
  sure \in [Clients -> 0..MaxTtl] /\ floor \in [Clients -> 0..MaxTtl]

(* The call of client c, and nothing of another client.                    *)
Calling(c, op, t, d) ==
  /\ pc'[c] = op /\ token'[c] = t /\ ttl'[c] = d
  /\ answer'[c] = 0 /\ wait'[c] = 0 /\ answered' = answered \ {c}

SameCalls(c) ==
  \A e \in Clients : e # c =>
    /\ pc'[e] = pc[e] /\ token'[e] = token[e] /\ ttl'[e] = ttl[e]
    /\ answer'[e] = answer[e] /\ wait'[e] = wait[e]

SameBeliefs(c) ==
  \A e \in Clients : e # c => sure'[e] = sure[e] /\ floor'[e] = floor[e]

Others(c) == SameCalls(c) /\ SameBeliefs(c)

(* What Send does to the client and leaves of the others.                  *)
LEMMA SendDoes ==
  ASSUME TypeOK, NEW c \in Clients,
         NEW op \in Pcs, NEW t, NEW d \in 0..MaxTtl, Send(c, op, t, d),
         attempts' \in attempts..MaxAttempts, t \in 0..attempts',
         t = NoToken <=> op = "idle",
         \A e \in Clients : e # c /\ t # NoToken => token[e] # t
  PROVE  CallType' /\ Calling(c, op, t, d) /\ SameCalls(c)
<1>1. Calling(c, op, t, d)
  BY DEF TypeOK, Send, Calling
<1>2. SameCalls(c)
  BY DEF TypeOK, Send, SameCalls
<1>3. pc' \in [Clients -> Pcs] /\ ttl' \in [Clients -> 0..MaxTtl]
  BY Bounds DEF TypeOK, Send
<1>4. answer' \in [Clients -> Nat] /\ wait' \in [Clients -> 0..MaxTtl]
  BY Bounds DEF TypeOK, Send
<1>5. token' \in [Clients -> 0..attempts']
  <2>1. 0..attempts \subseteq 0..attempts'
    BY Bounds DEF TypeOK
  <2>2. token' = [token EXCEPT ![c] = t] /\ token \in [Clients -> 0..attempts]
    BY DEF TypeOK, Send
  <2>3. QED  BY <2>1, <2>2
<1>6. answered' \subseteq {e \in Clients : pc'[e] \in Commands}
  BY <1>1, <1>2 DEF TypeOK, Calling, SameCalls
<1>7. \A e \in Clients : token'[e] = NoToken <=> pc'[e] = "idle"
  BY <1>1, <1>2 DEF TypeOK, Calling, SameCalls
<1>8. \A e, f \in Clients :
        token'[e] = token'[f] /\ token'[e] # NoToken => e = f
  BY <1>1, <1>2 DEF TypeOK, Calling, SameCalls
<1>9. QED
  BY <1>1, <1>2, <1>3, <1>4, <1>5, <1>6, <1>7, <1>8 DEF CallType

(* GiveUp and Return are Sends.                                            *)
LEMMA EndsDo ==
  ASSUME TypeOK, NEW c \in Clients, UNCHANGED attempts, pc[c] # "idle"
  PROVE  /\ GiveUp(c) =>
              CallType' /\ Calling(c, "idle", NoToken, 0) /\ SameCalls(c)
         /\ Return(c) =>
              CallType' /\ Calling(c, "held", token[c], 0) /\ SameCalls(c)
<1>1. attempts' \in attempts..MaxAttempts /\ 0 \in 0..MaxTtl
  BY Bounds DEF TypeOK
<1>2. token[c] \in 0..attempts' /\ token[c] # NoToken
  BY DEF TypeOK
<1>3. \A e \in Clients : e # c => token[e] # token[c]
  BY <1>2 DEF TypeOK
<1>4. NoToken \in 0..attempts'
  BY Bounds DEF TypeOK, NoToken
<1>5. {"held", "idle"} \subseteq Pcs
  BY DEF Pcs
<1>6. GiveUp(c) => CallType' /\ Calling(c, "idle", NoToken, 0) /\ SameCalls(c)
  BY <1>1, <1>4, <1>5, SendDoes DEF GiveUp
<1>7. Return(c) => CallType' /\ Calling(c, "held", token[c], 0) /\ SameCalls(c)
  BY <1>1, <1>2, <1>3, <1>5, SendDoes DEF Return
<1>8. QED  BY <1>6, <1>7

(* What Believe does, and what no Believe does not.                        *)
LEMMA BelieveDoes ==
  ASSUME TypeOK, NEW c \in Clients, NEW s \in 0..MaxTtl, NEW f \in 0..MaxTtl,
         Believe(c, s, f)
  PROVE  BeliefType' /\ sure'[c] = s /\ floor'[c] = f /\ SameBeliefs(c)
BY Bounds DEF TypeOK, Believe, BeliefType, SameBeliefs

LEMMA BeliefSame ==
  ASSUME TypeOK, NEW c \in Clients, UNCHANGED belief
  PROVE  BeliefType' /\ sure'[c] = sure[c] /\ floor'[c] = floor[c]
           /\ SameBeliefs(c)
BY DEF TypeOK, belief, BeliefType, SameBeliefs

(* The rest of the types.                                                  *)
LEMMA TypesKept ==
  ASSUME TypeOK, UNCHANGED <<server, late>>, CallType', BeliefType',
         attempts' \in 0..MaxAttempts, failures' \in 0..MaxFailures,
         asked' \subseteq Tokens, fence' \in [Tokens -> Nat]
  PROVE  TypeOK'
BY DEF TypeOK, CallType, BeliefType, server

(* What a client does to itself alone keeps what is known of the others.   *)
LEMMA ClientMoves ==
  ASSUME IInv, NEW c \in Clients, Others(c), UNCHANGED server,
         asked \subseteq asked', answered' = answered \ {c},
         attempts \in Nat, attempts' \in Nat, attempts <= attempts',
         InCall(c)', pc'[c] = "set" => rank[token'[c]] = 0,
         Covered(c, sure[c])'
  PROVE  ClientCommands' /\ KeyHasTtl' /\ Replies' /\ Leases'
<1>1. UNCHANGED <<lock, left, fences, rank>>
  BY DEF server
<1>2. ClientCommands'
  BY DEF IInv, ClientCommands, InCall, Others, SameCalls, SameBeliefs
<1>3. KeyHasTtl'
  BY <1>1 DEF IInv, KeyHasTtl
<1>4. Replies'
  BY <1>1 DEF IInv, Replies, StillTrue, Covered, Others, SameCalls, SameBeliefs
<1>5. Leases'
  BY <1>1 DEF IInv, Leases, Covered, Others, SameCalls, SameBeliefs
<1>6. QED  BY <1>2, <1>3, <1>4, <1>5

(* The late commands are as harmless as before.                            *)
LEMMA LateStay ==
  ASSUME IInv, NEW c \in Clients, Others(c),
         UNCHANGED <<server, late, failures>>,
         asked \subseteq asked', answered' = answered \ {c},
         attempts' \in attempts..MaxAttempts,
         pc'[c] = "set" => rank[token'[c]] = 0,
         \A q \in late : Allows(q, c)'
  PROVE  LateCommands' /\ SetOnce'
<1>1. UNCHANGED <<lock, left, fences, rank>>
  BY DEF server
<1>2. attempts \in Nat /\ attempts' \in Nat /\ attempts <= attempts'
        /\ \A q \in late : q.command.token \in Nat
  <2>1. attempts \in Nat
    BY Bounds DEF IInv, TypeOK
  <2>2. \A q \in late : q.command.token \in Nat
    BY LateTypes DEF IInv
  <2>3. QED  BY <2>1, <2>2, Bounds
<1>3. \A q \in late : Sound(q)'
  BY <1>2 DEF IInv, LateCommands, Sound
<1>4. \A q \in late, e \in Clients : Allows(q, e)'
  BY DEF IInv, LateCommands, Allows, Others, SameCalls, SameBeliefs
<1>5. LateCommands'
  BY <1>3, <1>4 DEF IInv, LateCommands
<1>6. SetOnce'
  <2>1. \A t \in Tokens : t > attempts' => rank'[t] = 0
    BY <1>1, <1>2, Bounds DEF IInv, SetOnce, Tokens
  <2>2. \A e \in Clients : pc'[e] = "set" /\ e \notin answered' =>
          rank'[token'[e]] = 0
    BY <1>1 DEF IInv, SetOnce, Others, SameCalls
  <2>3. QED  BY <1>1, <2>1, <2>2 DEF IInv, SetOnce
<1>7. QED  BY <1>5, <1>6

(* No number is answered or returned.                                      *)
LEMMA NumbersStay ==
  ASSUME IInv, NEW c \in Clients, Others(c), UNCHANGED <<server, fence>>,
         answered' = answered \ {c}
  PROVE  Numbers' /\ FencesDistinct'
<1>1. UNCHANGED fences /\ answered \subseteq Clients
  BY DEF server, IInv, TypeOK
<1>2. Numbers'
  BY <1>1 DEF IInv, Numbers, Others, SameCalls
<1>3. FencesDistinct'
  BY DEF IInv, FencesDistinct
<1>4. QED  BY <1>2, <1>3

(* An owner that counts on no more than it may is allowed for.             *)
LEMMA StillAllows ==
  ASSUME IInv, NEW c \in Clients, NEW s, s \in Nat,
         token'[c] = token[c], pc'[c] \in {"held", "extend", "release"},
         floor'[c] = floor[c], sure'[c] = s, s <= sure[c] \/ s <= floor[c]
  PROVE  \A q \in late : Allows(q, c)'
<1>1. sure[c] \in Nat /\ floor[c] \in Nat
  BY Bounds DEF IInv, TypeOK
<1>2. SUFFICES ASSUME NEW q \in late
               PROVE  Allows(q, c)'
  OBVIOUS
<1>3. q.command.ttl \in Nat
  BY LateTypes DEF IInv
<1>4. Allows(q, c)
  BY DEF IInv, LateCommands
<1>5. QED
  BY <1>1, <1>3, <1>4 DEF Allows

(* Most actions of a client change nothing else.                           *)
LEMMA ClientKeeps ==
  ASSUME IInv, TypeOK', NEW c \in Clients, Others(c),
         UNCHANGED <<server, late, failures, fence>>,
         asked \subseteq asked', answered' = answered \ {c},
         attempts' \in attempts..MaxAttempts,
         InCall(c)', pc'[c] = "set" => rank[token'[c]] = 0,
         Covered(c, sure[c])', \A q \in late : Allows(q, c)'
  PROVE  IInv'
<1>1. attempts \in Nat /\ attempts' \in Nat /\ attempts <= attempts'
  BY Bounds DEF IInv, TypeOK
<1>2. ClientCommands' /\ KeyHasTtl' /\ Replies' /\ Leases'
  BY <1>1, ClientMoves
<1>3. LateCommands' /\ SetOnce'
  BY LateStay
<1>4. Numbers' /\ FencesDistinct'
  BY NumbersStay
<1>5. QED  BY <1>2, <1>3, <1>4 DEF IInv

(* A fresh token: nobody has it, no late command carries it, and it has    *)
(* never had the key.                                                      *)
LEMMA AcquireKeeps ==
  ASSUME IInv, NEW c \in Clients, NEW d \in Ttls, Acquire(c, d)
  PROVE  IInv'
<1>1. attempts \in Nat /\ attempts' = attempts + 1 /\ attempts' <= MaxAttempts
  BY Bounds DEF IInv, TypeOK, Acquire
<1>2. d \in 1..MaxTtl /\ d \in 0..MaxTtl /\ attempts' \in attempts..MaxAttempts
  BY <1>1, Bounds
<1>3. \A e \in Clients : token[e] # attempts + 1
  BY <1>1 DEF IInv, TypeOK
<1>4. /\ UNCHANGED <<server, late, failures, belief, asked, fence>>
      /\ pc[c] = "idle" /\ Send(c, "set", attempts', d)
  BY <1>1 DEF Acquire
<1>5. CallType' /\ Calling(c, "set", attempts', d) /\ SameCalls(c)
  BY <1>1, <1>2, <1>3, <1>4, SendDoes DEF IInv, NoToken, Pcs, Commands
<1>6. BeliefType' /\ sure'[c] = 0 /\ SameBeliefs(c)
  BY <1>4, BeliefSame DEF IInv, ClientCommands, InCall
<1>7. TypeOK'
  BY <1>1, <1>4, <1>5, <1>6, TypesKept DEF IInv, TypeOK
<1>8. InCall(c)' /\ rank[token'[c]] = 0
  BY <1>1, <1>2, <1>5, <1>6 DEF IInv, SetOnce, Tokens, InCall, Calling
<1>9. \A q \in late : Allows(q, c)'
  <2>1. token'[c] = attempts + 1 /\ attempts \in Nat
    BY <1>1, <1>5, Bounds DEF IInv, TypeOK, Calling
  <2>2. \A q \in late : q.command.token \in Nat /\ q.command.token <= attempts
    BY LateTypes DEF IInv, LateCommands, Sound
  <2>3. \A q \in late : q.command.token # attempts + 1
    BY <2>1, <2>2
  <2>4. QED  BY <2>1, <2>3 DEF Allows
<1>10. QED
  BY <1>2, <1>4, <1>5, <1>6, <1>7, <1>8, <1>9, ClientKeeps
     DEF Covered, Calling, Others

(* A refused SET leaves nothing to count on.                               *)
LEMMA ConflictKeeps ==
  ASSUME IInv, NEW c \in Clients, Conflict(c)
  PROVE  IInv'
<1>1. /\ UNCHANGED <<server, late, attempts, failures, belief, asked, fence>>
      /\ pc[c] = "set" /\ GiveUp(c)
  BY DEF Conflict
<1>2. CallType' /\ Calling(c, "idle", NoToken, 0) /\ SameCalls(c)
  BY <1>1, EndsDo DEF IInv
<1>3. BeliefType' /\ sure'[c] = 0 /\ SameBeliefs(c)
  BY <1>1, BeliefSame DEF IInv, ClientCommands, InCall
<1>4. TypeOK'
  BY <1>1, <1>2, <1>3, TypesKept DEF IInv, TypeOK
<1>5. \A q \in late : Allows(q, c)'
  BY <1>1, <1>2, NoneAllows DEF IInv, Calling
<1>6. attempts' \in attempts..MaxAttempts
  BY <1>1, Bounds DEF IInv, TypeOK
<1>7. QED
  BY <1>1, <1>2, <1>3, <1>4, <1>5, <1>6, ClientKeeps
     DEF InCall, Covered, Calling, Others

(* The reply to the SET is still true.                                     *)
LEMMA LockedKeeps ==
  ASSUME IInv, NEW c \in Clients, Locked(c)
  PROVE  IInv'
<1> DEFINE s == Minus(ttl[c], wait[c])
<1>1. /\ UNCHANGED <<server, late, attempts, failures, asked, fence>>
      /\ pc[c] = "set" /\ c \in answered /\ answer[c] = 1
      /\ Send(c, "incr", token[c], 0) /\ Believe(c, s, MaxTtl)
  BY DEF Locked
<1>2. attempts' \in attempts..MaxAttempts /\ 0 \in 0..MaxTtl
        /\ MaxTtl \in 0..MaxTtl
  BY <1>1, Bounds DEF IInv, TypeOK
<1>3. s \in 0..MaxTtl
  BY Bounds DEF IInv, TypeOK, Minus
<1>4. /\ token[c] \in 0..attempts' /\ token[c] # NoToken
      /\ \A e \in Clients : e # c => token[e] # token[c]
  BY <1>1 DEF IInv, TypeOK
<1>5. CallType' /\ Calling(c, "incr", token[c], 0) /\ SameCalls(c)
  BY <1>1, <1>2, <1>4, SendDoes DEF IInv, Pcs, Commands
<1>6. BeliefType' /\ sure'[c] = s /\ floor'[c] = MaxTtl /\ SameBeliefs(c)
  BY <1>1, <1>2, <1>3, BelieveDoes DEF IInv
<1>7. TypeOK'
  BY <1>1, <1>5, <1>6, TypesKept DEF IInv, TypeOK
<1>8. Covered(c, sure[c])'
  BY <1>1, <1>5, <1>6 DEF IInv, Replies, StillTrue, Covered, Calling, server
<1>9. \A q \in late : Allows(q, c)'
  BY <1>1, <1>5 DEF IInv, LateCommands, Allows, Calling
<1>10. QED
  BY <1>1, <1>2, <1>5, <1>6, <1>7, <1>8, <1>9, ClientKeeps
     DEF InCall, Calling, Others

(* The number returned is on no other way and was not returned before.     *)
LEMMA FencedKeeps ==
  ASSUME IInv, NEW c \in Clients, Fenced(c)
  PROVE  IInv'
<1>1. /\ UNCHANGED <<server, late, attempts, failures, belief, asked>>
      /\ pc[c] = "incr" /\ c \in answered
      /\ Return(c) /\ fence' = [fence EXCEPT ![token[c]] = answer[c]]
  BY DEF Fenced
<1>2. CallType' /\ Calling(c, "held", token[c], 0) /\ SameCalls(c)
  BY <1>1, EndsDo DEF IInv
<1>3. BeliefType' /\ sure'[c] = sure[c] /\ SameBeliefs(c)
  BY <1>1, BeliefSame DEF IInv
<1>4. token[c] \in Tokens
  BY <1>1, OwnToken DEF IInv
<1>5. /\ fence' \in [Tokens -> Nat] /\ fence'[token[c]] = answer[c]
      /\ \A t \in Tokens : t # token[c] => fence'[t] = fence[t]
  BY <1>1, <1>4 DEF IInv, TypeOK
<1>6. TypeOK'
  BY <1>1, <1>2, <1>3, <1>5, TypesKept DEF IInv, TypeOK
<1>7. ClientCommands' /\ KeyHasTtl' /\ Replies' /\ Leases'
  <2>1. attempts \in Nat /\ attempts' \in Nat /\ attempts <= attempts'
    BY <1>1, Bounds DEF IInv, TypeOK
  <2>2. Covered(c, sure[c])'
    BY <1>1, <1>2, <1>3 DEF IInv, Leases, Covered, Calling, server
  <2>3. QED
    BY <1>1, <1>2, <1>3, <2>1, <2>2, ClientMoves DEF InCall, Calling, Others
<1>8. LateCommands' /\ SetOnce'
  <2>1. \A q \in late : Allows(q, c)'
    BY <1>1, <1>2 DEF IInv, LateCommands, Allows, Calling
  <2>2. attempts' \in attempts..MaxAttempts
    BY <1>1, Bounds DEF IInv, TypeOK
  <2>3. QED  BY <1>1, <1>2, <1>3, <2>1, <2>2, LateStay DEF Calling, Others
<1>9. Numbers'
  <2>1. /\ answered' = answered \ {c} /\ UNCHANGED fences
        /\ answered \subseteq Clients /\ fences \in Nat
        /\ \A e \in Clients : e # c => pc'[e] = pc[e] /\ answer'[e] = answer[e]
    BY <1>1, <1>2 DEF Calling, SameCalls, server, IInv, TypeOK
  <2>2. \A t \in Tokens : fence'[t] <= fences'
    BY <1>1, <1>5, <2>1 DEF IInv, Numbers
  <2>3. ASSUME NEW e \in answered', pc'[e] = "incr"
        PROVE  /\ answer'[e] \in 1..fences'
               /\ \A t \in Tokens : fence'[t] # answer'[e]
               /\ \A f \in answered' : pc'[f] = "incr"
                    /\ answer'[e] = answer'[f] => e = f
    BY <1>1, <1>5, <2>1, <2>3 DEF IInv, Numbers
  <2>4. QED  BY <2>2, <2>3 DEF Numbers
<1>10. FencesDistinct'
  BY <1>1, <1>5 DEF IInv, Numbers, FencesDistinct
<1>11. QED  BY <1>6, <1>7, <1>8, <1>9, <1>10 DEF IInv

(* What is counted on shrinks to what either outcome leaves.               *)
LEMMA ExtendKeeps ==
  ASSUME IInv, NEW c \in Clients, NEW d \in Ttls, Extend(c, d)
  PROVE  IInv'
<1> DEFINE s == Less(sure[c], d)
<1>1. /\ UNCHANGED <<server, late, attempts, failures, asked, fence>>
      /\ pc[c] = "held"
      /\ Send(c, "extend", token[c], d) /\ Believe(c, s, floor[c])
  BY DEF Extend
<1>2. attempts' \in attempts..MaxAttempts /\ d \in 0..MaxTtl /\ d \in Nat
        /\ d > 0
  BY <1>1, Bounds DEF IInv, TypeOK
<1>3. s \in 0..MaxTtl /\ floor[c] \in 0..MaxTtl /\ s <= sure[c] /\ s <= d
        /\ sure[c] \in Nat
  BY <1>2, Bounds DEF IInv, TypeOK, Less
<1>4. /\ token[c] \in 0..attempts' /\ token[c] # NoToken
      /\ \A e \in Clients : e # c => token[e] # token[c]
  BY <1>1 DEF IInv, TypeOK
<1>5. CallType' /\ Calling(c, "extend", token[c], d) /\ SameCalls(c)
  BY <1>1, <1>2, <1>4, SendDoes DEF IInv, Pcs, Commands
<1>6. BeliefType' /\ sure'[c] = s /\ floor'[c] = floor[c] /\ SameBeliefs(c)
  BY <1>1, <1>2, <1>3, BelieveDoes DEF IInv
<1>7. TypeOK'
  BY <1>1, <1>5, <1>6, TypesKept DEF IInv, TypeOK
<1>8. Covered(c, sure[c])'
  BY <1>1, <1>3, <1>5, <1>6 DEF IInv, TypeOK, Leases, Covered, Calling, server
<1>9. \A q \in late : Allows(q, c)'
  BY <1>1, <1>3, <1>5, <1>6, StillAllows DEF Calling
<1>10. QED
  BY <1>1, <1>2, <1>3, <1>5, <1>6, <1>7, <1>8, <1>9, ClientKeeps
     DEF InCall, Calling, Others

(* The reply to EXTEND_LUA is still true.                                  *)
LEMMA ExtendedKeeps ==
  ASSUME IInv, NEW c \in Clients, Extended(c)
  PROVE  IInv'
<1> DEFINE s == More(sure[c], Minus(Less(floor[c], ttl[c]), wait[c]))
<1>1. /\ UNCHANGED <<server, late, attempts, failures, asked, fence>>
      /\ pc[c] = "extend" /\ c \in answered /\ Return(c)
      /\ \/ answer[c] = 1 /\ Believe(c, s, floor[c])
         \/ answer[c] = 0 /\ UNCHANGED belief
  BY DEF Extended
<1>2. CallType' /\ Calling(c, "held", token[c], 0) /\ SameCalls(c)
  BY <1>1, EndsDo DEF IInv
<1>3. /\ s \in 0..MaxTtl /\ floor[c] \in 0..MaxTtl
      /\ s = sure[c] \/ s <= floor[c]
      /\ s = sure[c] \/ s = Minus(Less(floor[c], ttl[c]), wait[c])
  BY Bounds DEF IInv, TypeOK, More, Minus, Less
<1>4. BeliefType' /\ floor'[c] = floor[c] /\ SameBeliefs(c)
  BY <1>1, <1>3, BelieveDoes, BeliefSame DEF IInv
<1>5. sure'[c] = sure[c] \/ (answer[c] = 1 /\ sure'[c] = s)
  BY <1>1, <1>3, BelieveDoes, BeliefSame DEF IInv
<1>6. TypeOK'
  BY <1>1, <1>2, <1>4, TypesKept DEF IInv, TypeOK
<1>7. Covered(c, sure[c])'
  BY <1>1, <1>2, <1>3, <1>5
     DEF IInv, Leases, Replies, StillTrue, Covered, Calling, server
<1>8. \A q \in late : Allows(q, c)'
  <2>1. sure'[c] \in Nat /\ sure[c] \in Nat
    BY <1>3, <1>5, Bounds DEF IInv, TypeOK
  <2>2. QED  BY <1>2, <1>3, <1>4, <1>5, <2>1, StillAllows DEF Calling
<1>9. attempts' \in attempts..MaxAttempts
  BY <1>1, Bounds DEF IInv, TypeOK
<1>10. QED
  BY <1>1, <1>2, <1>4, <1>6, <1>7, <1>8, <1>9, ClientKeeps
     DEF InCall, Calling, Others

(* The caller stops counting on the key before it asks to free it.         *)
LEMMA ReleaseKeeps ==
  ASSUME IInv, NEW c \in Clients, Release(c)
  PROVE  IInv'
<1>1. /\ UNCHANGED <<server, late, attempts, failures, fence>>
      /\ pc[c] = "held" /\ asked' = asked \cup {token[c]}
      /\ Send(c, "release", token[c], 0) /\ Believe(c, 0, floor[c])
  BY DEF Release
<1>2. attempts' \in attempts..MaxAttempts /\ 0 \in 0..MaxTtl
  BY <1>1, Bounds DEF IInv, TypeOK
<1>3. floor[c] \in 0..MaxTtl /\ sure[c] \in Nat
  BY Bounds DEF IInv, TypeOK
<1>4. /\ token[c] \in 0..attempts' /\ token[c] # NoToken
      /\ \A e \in Clients : e # c => token[e] # token[c]
  BY <1>1 DEF IInv, TypeOK
<1>5. CallType' /\ Calling(c, "release", token[c], 0) /\ SameCalls(c)
  BY <1>1, <1>2, <1>4, SendDoes DEF IInv, Pcs, Commands
<1>6. BeliefType' /\ sure'[c] = 0 /\ floor'[c] = floor[c] /\ SameBeliefs(c)
  BY <1>1, <1>2, <1>3, BelieveDoes DEF IInv
<1>7. token[c] \in Tokens
  BY <1>1, OwnToken DEF IInv
<1>8. TypeOK'
  BY <1>1, <1>5, <1>6, <1>7, TypesKept DEF IInv, TypeOK
<1>9. \A q \in late : Allows(q, c)'
  BY <1>1, <1>3, <1>5, <1>6, StillAllows DEF Calling
<1>10. QED
  BY <1>1, <1>2, <1>5, <1>6, <1>8, <1>9, ClientKeeps
     DEF InCall, Covered, Calling, Others

LEMMA ReleasedKeeps ==
  ASSUME IInv, NEW c \in Clients, Released(c)
  PROVE  IInv'
<1>1. /\ UNCHANGED <<server, late, attempts, failures, belief, asked, fence>>
      /\ pc[c] = "release" /\ Return(c)
  BY DEF Released
<1>2. CallType' /\ Calling(c, "held", token[c], 0) /\ SameCalls(c)
  BY <1>1, EndsDo DEF IInv
<1>3. BeliefType' /\ sure'[c] = sure[c] /\ floor'[c] = floor[c]
        /\ SameBeliefs(c)
  BY <1>1, BeliefSame DEF IInv
<1>4. TypeOK'
  BY <1>1, <1>2, <1>3, TypesKept DEF IInv, TypeOK
<1>5. Covered(c, sure[c])'
  BY <1>1, <1>2, <1>3 DEF IInv, Leases, Covered, Calling, server
<1>6. \A q \in late : Allows(q, c)'
  BY <1>1, <1>2, <1>3 DEF IInv, LateCommands, Allows, Calling
<1>7. attempts' \in attempts..MaxAttempts
  BY <1>1, Bounds DEF IInv, TypeOK
<1>8. QED
  BY <1>1, <1>2, <1>3, <1>4, <1>5, <1>6, <1>7, ClientKeeps
     DEF InCall, Calling, Others

LEMMA ForgetKeeps ==
  ASSUME IInv, NEW c \in Clients, Forget(c)
  PROVE  IInv'
<1>1. /\ UNCHANGED <<server, late, attempts, failures, asked, fence>>
      /\ pc[c] = "held" /\ GiveUp(c) /\ Believe(c, 0, 0)
  BY DEF Forget
<1>2. CallType' /\ Calling(c, "idle", NoToken, 0) /\ SameCalls(c)
  BY <1>1, EndsDo DEF IInv
<1>3. 0 \in 0..MaxTtl /\ attempts' \in attempts..MaxAttempts
  BY <1>1, Bounds DEF IInv, TypeOK
<1>4. BeliefType' /\ sure'[c] = 0 /\ SameBeliefs(c)
  BY <1>1, <1>3, BelieveDoes DEF IInv
<1>5. TypeOK'
  BY <1>1, <1>2, <1>4, TypesKept DEF IInv, TypeOK
<1>6. \A q \in late : Allows(q, c)'
  BY <1>1, <1>2, NoneAllows DEF IInv, Calling
<1>7. QED
  BY <1>1, <1>2, <1>3, <1>4, <1>5, <1>6, ClientKeeps
     DEF InCall, Covered, Calling, Others

(* A failing call may leave its command on the way: the only client with   *)
(* its token has no more to do with it, or counts on no more than it says. *)
LEMMA LeavesBehind ==
  ASSUME IInv, NEW c \in Clients, pc[c] \in Commands, c \notin answered,
         SameCalls(c), SameBeliefs(c), UNCHANGED <<server, attempts, asked>>,
         NEW n, n = [id |-> failures, command |-> Command(c)],
         late' = late \cup {n},
         failures' = failures + 1, answered' = answered \ {c},
         \/ token'[c] = NoToken
         \/ /\ pc[c] \in {"extend", "release"} /\ pc'[c] = "held"
            /\ sure'[c] = sure[c] /\ floor'[c] = Less(floor[c], ttl[c]),
         \A q \in late : Allows(q, c)', pc'[c] # "set"
  PROVE  LateCommands' /\ SetOnce'
<1>1. /\ token[c] \in Tokens /\ token[c] <= attempts /\ ttl[c] \in Nat
      /\ sure[c] \in Nat /\ floor[c] \in Nat /\ attempts \in Nat
           /\ failures \in Nat
  <2>1. pc[c] # "idle"
    BY DEF Commands
  <2>2. token[c] \in Tokens /\ token[c] <= attempts
    BY <2>1, OwnToken DEF IInv
  <2>3. /\ ttl[c] \in 0..MaxTtl /\ sure[c] \in 0..MaxTtl
        /\ floor[c] \in 0..MaxTtl /\ attempts \in 0..MaxAttempts
        /\ failures \in 0..MaxFailures
    BY DEF IInv, TypeOK
  <2>4. QED  BY <2>2, <2>3, Bounds
<1>2. /\ n.id = failures /\ n.command.op = pc[c]
      /\ n.command.token = token[c] /\ n.command.ttl = ttl[c]
  BY DEF Command
<1>3. InCall(c)
  BY DEF IInv, ClientCommands
<1>4. \A q \in late' : Sound(q)'
  <2>1. Sound(n)'
    BY <1>1, <1>2, <1>3 DEF Sound, InCall, NoToken, Tokens
  <2>2. \A q \in late : Sound(q)'
    BY <1>1, LateTypes DEF IInv, LateCommands, Sound
  <2>3. QED  BY <2>1, <2>2
<1>5. \A e \in Clients : Allows(n, e)'
  <2>1. Allows(n, c)'
    BY <1>1, <1>2, <1>3 DEF Allows, InCall, Less, NoToken, Tokens
  <2>2. \A e \in Clients : e # c => token'[e] # token[c]
    <3>1. token[c] # NoToken
      BY <1>1 DEF Tokens, NoToken
    <3>2. \A e \in Clients : e # c => token[e] # token[c]
      BY <3>1 DEF IInv, TypeOK
    <3>3. QED  BY <3>2 DEF SameCalls
  <2>3. QED  BY <1>2, <2>1, <2>2 DEF Allows
<1>6. \A q \in late, e \in Clients : Allows(q, e)'
  BY DEF IInv, LateCommands, Allows, SameCalls, SameBeliefs
<1>7. LateCommands'
  <2>1. IsFiniteSet(late')
    BY FS_AddElement DEF IInv, LateCommands
  <2>2. QED  BY <1>4, <1>5, <1>6, <2>1 DEF LateCommands
<1>8. SetOnce'
  <2>1. pc[c] = "set" => rank[token[c]] = 0
    BY DEF IInv, SetOnce
  <2>2. \A q \in late : q.command.token = token[c] => q.command.op # "set"
    BY DEF IInv, LateCommands, Allows
  <2>3. rank' = rank
    BY DEF server
  <2>4. \A e \in Clients : pc'[e] = "set" =>
          e # c /\ pc[e] = "set" /\ token'[e] = token[e]
    BY DEF SameCalls
  <2>5. QED  BY <1>2, <2>1, <2>2, <2>3, <2>4 DEF IInv, SetOnce
<1>9. QED  BY <1>7, <1>8

(* An error: the token is given up with the call, or the caller counts on  *)
(* no more than the command it lost sight of.                              *)
LEMMA FailKeeps ==
  ASSUME IInv, NEW c \in Clients, Fail(c)
  PROVE  IInv'
<1> DEFINE n == [id |-> failures, command |-> Command(c)]
           f == Less(floor[c], ttl[c])
<1>1. /\ UNCHANGED <<server, attempts, asked, fence>>
      /\ pc[c] \in Commands /\ failures' = failures + 1
           /\ failures < MaxFailures
      /\ late' = late \/ (c \notin answered /\ late' = late \cup {n})
      /\ \/ pc[c] \in {"set", "incr"} /\ GiveUp(c) /\ Believe(c, 0, 0)
         \/ pc[c] \in {"extend", "release"} /\ Return(c)
              /\ Believe(c, sure[c], f)
  BY DEF Fail
<1>2. /\ attempts \in Nat /\ attempts' \in attempts..MaxAttempts
      /\ failures \in Nat /\ failures' \in 0..MaxFailures
      /\ 0 \in 0..MaxTtl /\ sure[c] \in 0..MaxTtl /\ f \in 0..MaxTtl
  BY <1>1, Bounds DEF IInv, TypeOK, Less
<1>3. CallType' /\ SameCalls(c) /\ answered' = answered \ {c}
  BY <1>1, EndsDo DEF IInv, Commands, Calling
<1>4. BeliefType' /\ SameBeliefs(c)
  BY <1>1, <1>2, BelieveDoes DEF IInv
<1>5. \/ /\ pc'[c] = "idle" /\ token'[c] = NoToken /\ sure'[c] = 0
      \/ /\ pc[c] \in {"extend", "release"}
         /\ pc'[c] = "held" /\ token'[c] = token[c]
         /\ sure'[c] = sure[c] /\ floor'[c] = f
  <2>1. CASE pc[c] \in {"set", "incr"} /\ GiveUp(c) /\ Believe(c, 0, 0)
    BY <1>1, <1>2, <2>1, EndsDo, BelieveDoes DEF IInv, Commands, Calling
  <2>2. CASE pc[c] \in {"extend", "release"} /\ Return(c)
               /\ Believe(c, sure[c], f)
    BY <1>1, <1>2, <2>2, EndsDo, BelieveDoes DEF IInv, Commands, Calling
  <2>3. QED  BY <1>1, <2>1, <2>2
<1>6. TypeOK'
  <2>1. c \notin answered /\ late' = late \cup {n} => n.command \in CommandSet
    <3>1. pc[c] \in Commands /\ ttl[c] \in 0..MaxTtl
      BY <1>1 DEF IInv, TypeOK
    <3>2. token[c] \in Tokens
      BY <3>1, OwnToken DEF IInv, Commands
    <3>3. QED  BY <3>1, <3>2 DEF Command, CommandSet
  <2>2. late' \subseteq [id : Nat, command : CommandSet]
    BY <1>1, <1>2, <2>1 DEF IInv, TypeOK, CommandSet
  <2>3. QED
    BY <1>1, <1>2, <1>3, <1>4, <2>2
       DEF IInv, TypeOK, CallType, BeliefType, CommandSet, server
<1>7. ClientCommands' /\ KeyHasTtl' /\ Replies' /\ Leases'
  <2>1. Covered(c, sure[c])'
    BY <1>1, <1>5 DEF IInv, Leases, Covered, server
  <2>2. InCall(c)' /\ pc'[c] # "set"
    BY <1>5 DEF InCall
  <2>3. QED
    BY <1>1, <1>2, <1>3, <1>4, <2>1, <2>2, ClientMoves DEF Others
<1>8. \A q \in late : Allows(q, c)'
  <2>1. CASE token'[c] = NoToken
    BY <2>1, LateTypes, Bounds DEF IInv, Allows, Tokens, NoToken
  <2>2. CASE pc[c] \in {"extend", "release"} /\ pc'[c] = "held"
               /\ token'[c] = token[c]
             /\ sure'[c] = sure[c] /\ floor'[c] = f
    <3>1. f <= floor[c] /\ f \in Nat /\ floor[c] \in Nat
      BY Bounds DEF IInv, TypeOK, Less
    <3>2. SUFFICES ASSUME NEW q \in late
                   PROVE  Allows(q, c)'
      OBVIOUS
    <3>3. q.command.ttl \in Nat /\ Allows(q, c)
      BY LateTypes DEF IInv, LateCommands
    <3>4. QED  BY <2>2, <3>1, <3>3 DEF Allows
  <2>3. QED  BY <1>5, <2>1, <2>2
<1>9. LateCommands' /\ SetOnce'
  <2>1. CASE late' = late
    <3>1. LateCommands'
      <4>1. \A q \in late : Sound(q)'
        BY <1>1, <1>2, LateTypes DEF IInv, LateCommands, Sound
      <4>2. \A q \in late, e \in Clients : Allows(q, e)'
        BY <1>3, <1>4, <1>8
           DEF IInv, LateCommands, Allows, SameCalls, SameBeliefs
      <4>3. QED  BY <2>1, <4>1, <4>2 DEF IInv, LateCommands
    <3>2. SetOnce'
      <4>1. rank' = rank /\ attempts' = attempts
        BY <1>1 DEF server
      <4>2. \A e \in Clients : pc'[e] = "set" =>
              e # c /\ pc[e] = "set" /\ token'[e] = token[e]
        BY <1>3, <1>5 DEF SameCalls
      <4>3. QED  BY <1>3, <2>1, <4>1, <4>2 DEF IInv, SetOnce
    <3>3. QED  BY <3>1, <3>2
  <2>2. CASE c \notin answered /\ late' = late \cup {n}
    BY <1>1, <1>3, <1>4, <1>5, <1>8, <2>2, LeavesBehind
  <2>3. QED  BY <1>1, <2>1, <2>2
<1>10. Numbers' /\ FencesDistinct'
  BY <1>1, <1>3, <1>4, NumbersStay DEF Others
<1>11. QED  BY <1>6, <1>7, <1>9, <1>10 DEF IInv

-----------------------------------------------------------------------------
(* The server.                                                             *)

(* The command of a client that is in a call.                              *)
LEMMA CommandType ==
  ASSUME TypeOK, NEW c \in Clients, pc[c] \in Commands
  PROVE  /\ Command(c) \in CommandSet
         /\ Command(c).op = pc[c] /\ Command(c).token = token[c]
         /\ Command(c).ttl = ttl[c]
<1>1. token[c] \in Tokens
  BY OwnToken DEF Commands
<1>2. QED
  BY <1>1 DEF TypeOK, Command, CommandSet

(* There are enough ranks for the tokens.                                  *)
LEMMA RankRoom ==
  ASSUME TypeOK, NEW t \in Tokens, rank[t] = 0
  PROVE  NextRank \in 1..MaxAttempts
<1> DEFINE R == {u \in Tokens : rank[u] # 0}
<1>1. IsFiniteSet(Tokens) /\ Cardinality(Tokens) = MaxAttempts
  <2>1. MaxAttempts \in Nat /\ MaxAttempts \in Int /\ 1 \in Int
    BY Bounds
  <2>2. /\ IsFiniteSet(1..MaxAttempts)
        /\ Cardinality(1..MaxAttempts) =
             IF 1 > MaxAttempts THEN 0 ELSE MaxAttempts - 1 + 1
    BY <2>1, FS_Interval
  <2>3. QED  BY <2>1, <2>2 DEF Tokens
<1>2. IsFiniteSet(Tokens \ {t}) /\ Cardinality(Tokens \ {t}) = MaxAttempts - 1
  BY <1>1, FS_RemoveElement
<1>3. R \subseteq Tokens \ {t}
  OBVIOUS
<1>4. Cardinality(R) \in Nat /\ Cardinality(R) <= MaxAttempts - 1
  BY <1>2, <1>3, FS_Subset, FS_CardinalityType
<1>5. QED  BY <1>4, Bounds DEF NextRank

(* What the invariant says of every command the server may run.            *)
Runnable(q) ==
  /\ q \in CommandSet /\ q.token <= attempts
  /\ q.op = "set" => rank[q.token] = 0
  /\ q.op \in {"set", "extend"} => q.ttl > 0
  /\ q.op = "release" => q.ttl = 0 /\ q.token \in asked

LEMMA ClientRuns ==
  ASSUME IInv, NEW c \in Clients, pc[c] \in Commands, c \notin answered
  PROVE  Runnable(Command(c))
<1>1. token[c] <= attempts
  BY Bounds DEF IInv, TypeOK
<1>2. InCall(c)
  BY DEF IInv, ClientCommands
<1>3. pc[c] = "set" => rank[token[c]] = 0
  BY DEF IInv, SetOnce
<1>4. QED
  BY <1>1, <1>2, <1>3, CommandType DEF IInv, Runnable, InCall

LEMMA LateRuns ==
  ASSUME IInv, NEW q \in late
  PROVE  Runnable(q.command)
BY LateTypes DEF IInv, LateCommands, SetOnce, Sound, Runnable

(* A command keeps the TTL of the key and the order of fences and ranks.   *)
LEMMA ExecuteTypes ==
  ASSUME TypeOK, KeyHasTtl, NEW q, Runnable(q), Execute(q)
  PROVE  /\ lock' \in Tokens \cup {NoToken} /\ left' \in 0..MaxTtl
         /\ fences' \in Nat /\ rank' \in [Tokens -> 0..MaxAttempts]
         /\ KeyHasTtl' /\ fences <= fences'
         /\ \A u \in Tokens : rank'[u] # rank[u] => q.op = "set" /\ u = q.token
<1>1. /\ q.op \in Commands /\ q.token \in Tokens /\ q.ttl \in 0..MaxTtl
      /\ q.token # NoToken /\ NoToken \notin Tokens
  BY Bounds DEF Runnable, CommandSet, Tokens, NoToken
<1>2. CASE q.op = "set"
  <2>1. SetNxPx(q.token, q.ttl)
    BY <1>2 DEF Execute
  <2>2. CASE UNCHANGED server
    BY <2>2, <1>2 DEF TypeOK, KeyHasTtl, server
  <2>3. CASE /\ lock' = q.token /\ left' = q.ttl /\ UNCHANGED fences
             /\ rank' = [rank EXCEPT ![q.token] = NextRank]
    <3>1. NextRank \in 0..MaxAttempts
      BY <1>1, <1>2, RankRoom, Bounds DEF Runnable
    <3>2. rank' \in [Tokens -> 0..MaxAttempts]
      BY <2>3, <3>1 DEF TypeOK
    <3>3. \A u \in Tokens : rank'[u] # rank[u] => u = q.token
      BY <2>3 DEF TypeOK
    <3>4. left' > 0
      BY <1>2, <2>3 DEF Runnable
    <3>5. QED  BY <1>1, <1>2, <2>3, <3>2, <3>3, <3>4 DEF TypeOK, KeyHasTtl
  <2>4. QED  BY <2>1, <2>2, <2>3 DEF SetNxPx
<1>3. CASE q.op = "incr"
  BY <1>3 DEF TypeOK, KeyHasTtl, IncrFence, Execute
<1>4. CASE q.op = "extend"
  BY <1>1, <1>4, Bounds
     DEF TypeOK, KeyHasTtl, ExtendLua, server, Execute, Runnable
<1>5. CASE q.op = "release"
  BY <1>1, <1>5, Bounds DEF TypeOK, KeyHasTtl, ReleaseLua, server, Execute
<1>6. QED  BY <1>1, <1>2, <1>3, <1>4, <1>5 DEF Commands

(* A command takes nothing from a client it is not of, and from a client   *)
(* it is of no more than its TTL allows.                                   *)
LEMMA ExecuteCovers ==
  ASSUME TypeOK, KeyHasTtl, NEW q, Runnable(q), Execute(q),
         NEW t \in Tokens, NEW n \in Nat, lock = t, left >= n, n > 0,
         q.op \in {"extend", "release"} /\ q.token = t => n <= q.ttl
  PROVE  lock' = t /\ left' >= n
<1>1. /\ q.op \in Commands /\ q.token \in Tokens /\ q.ttl \in 0..MaxTtl
      /\ NoToken \notin Tokens
  BY Bounds DEF Runnable, CommandSet, Tokens, NoToken
<1>2. CASE q.op = "set"
  BY <1>1, <1>2 DEF TypeOK, KeyHasTtl, SetNxPx, server, Execute
<1>3. CASE q.op = "incr"
  BY <1>3 DEF TypeOK, KeyHasTtl, IncrFence, Execute
<1>4. CASE q.op = "extend"
  BY <1>1, <1>4, Bounds DEF TypeOK, KeyHasTtl, ExtendLua, server, Execute
<1>5. CASE q.op = "release"
  BY <1>1, <1>5, Bounds
     DEF TypeOK, KeyHasTtl, ReleaseLua, server, Execute, Runnable
<1>6. QED  BY <1>1, <1>2, <1>3, <1>4, <1>5 DEF Commands

(* The same, said of what a client counts on.                              *)
LEMMA CoveredKept ==
  ASSUME IInv, NEW q, Runnable(q), Execute(q), token' = token,
         NEW c \in Clients, NEW n \in Nat, Covered(c, n),
         q.op \in {"extend", "release"} /\ q.token = token[c] => n <= q.ttl
  PROVE  Covered(c, n)'
<1>1. CASE n > 0
  <2>1. lock = token[c] /\ left >= n /\ token[c] \in Tokens
    BY <1>1 DEF Covered, IInv, TypeOK, KeyHasTtl
  <2>2. lock' = token[c] /\ left' >= n
    BY <1>1, <2>1, ExecuteCovers DEF IInv
  <2>3. QED  BY <2>2 DEF Covered
<1>2. CASE ~(n > 0)
  BY <1>2 DEF Covered
<1>3. QED  BY <1>1, <1>2

(* What a command of another does to a client that is not served.          *)
LEMMA RepliesKept ==
  ASSUME IInv, NEW q, Runnable(q), Execute(q),
         UNCHANGED <<pc, token, ttl, wait, floor>>,
         NEW c \in Clients, c \in answered, answer'[c] = answer[c],
         q.op \in {"extend", "release"} /\ q.token = token[c] =>
           \/ pc[c] \notin {"set", "extend"}
           \/ pc[c] = "extend" /\ floor[c] <= q.ttl
  PROVE  StillTrue(c)'
<1>1. SUFFICES ASSUME answer[c] = 1
               PROVE  /\ pc[c] = "set" => Covered(c, Minus(ttl[c], wait[c]))'
                      /\ pc[c] = "extend" =>
                           Covered(c, Minus(Less(floor[c], ttl[c]), wait[c]))'
  BY DEF StillTrue
<1>2. StillTrue(c)
  BY DEF IInv, Replies
<1>3. ttl[c] \in Nat /\ wait[c] \in Nat /\ floor[c] \in Nat
  BY Bounds DEF IInv, TypeOK
<1>4. CASE pc[c] = "set"
  <2> DEFINE n == Minus(ttl[c], wait[c])
  <2>1. n \in Nat
    BY <1>3 DEF Minus
  <2>2. Covered(c, n)
    BY <1>1, <1>2, <1>4 DEF StillTrue
  <2>3. Covered(c, n)'
    BY <1>3, <1>4, <2>1, <2>2, CoveredKept
  <2>4. QED  BY <1>4, <2>3
<1>5. CASE pc[c] = "extend"
  <2> DEFINE n == Minus(Less(floor[c], ttl[c]), wait[c])
  <2>1. n \in Nat /\ n <= floor[c]
    BY <1>3 DEF Minus, Less
  <2>2. Covered(c, n)
    BY <1>1, <1>2, <1>5 DEF StillTrue
  <2>3. Covered(c, n)'
    BY <1>3, <1>5, <2>1, <2>2, CoveredKept DEF Runnable, CommandSet
  <2>4. QED  BY <1>5, <2>3
<1>6. QED  BY <1>4, <1>5

(* A command of a client that waits: no other client has its token.        *)
LEMMA ServeKeeps ==
  ASSUME IInv, NEW c \in Clients, Serve(c)
  PROVE  IInv'
<1> DEFINE q == Command(c)
<1>1. /\ pc[c] \in Commands /\ c \notin answered /\ Execute(q)
      /\ answer' = [answer EXCEPT ![c] = Answer(q)]
      /\ answered' = answered \cup {c}
      /\ UNCHANGED <<late, pc, token, ttl, wait, attempts, failures, sure,
                     floor, asked, fence>>
  BY DEF Serve, belief
<1>2. /\ Runnable(q) /\ q.op = pc[c] /\ q.token = token[c] /\ q.ttl = ttl[c]
      /\ token[c] \in Tokens
  BY <1>1, ClientRuns, CommandType DEF IInv, CommandSet
<1> HIDE DEF q
<1>3. /\ lock' \in Tokens \cup {NoToken} /\ left' \in 0..MaxTtl
      /\ fences' \in Nat /\ rank' \in [Tokens -> 0..MaxAttempts]
      /\ KeyHasTtl' /\ fences <= fences'
      /\ \A u \in Tokens : rank'[u] # rank[u] => q.op = "set" /\ u = q.token
  BY <1>1, <1>2, ExecuteTypes DEF IInv
<1>4. Answer(q) \in Nat
  BY DEF Answer, IInv, TypeOK
<1>5. /\ answer' \in [Clients -> Nat] /\ answer'[c] = Answer(q)
      /\ \A e \in Clients : e # c => answer'[e] = answer[e]
  BY <1>1, <1>4 DEF IInv, TypeOK
<1>6. TypeOK'
  BY <1>1, <1>3, <1>5 DEF IInv, TypeOK
<1>7. LateCommands'
  BY <1>1 DEF IInv, LateCommands, Sound, Allows
<1>8. ClientCommands'
  BY <1>1 DEF IInv, ClientCommands, InCall
<1>9. SetOnce'
  <2>1. \A t \in Tokens : t > attempts => t # q.token
    BY <1>2, Bounds DEF Runnable, IInv, TypeOK, Tokens
  <2>2. \A e \in Clients : token[e] = token[c] => e = c
    BY <1>1 DEF IInv, TypeOK, Commands
  <2>3. \A e \in Clients : pc[e] = "set" => token[e] \in Tokens
    BY OwnToken DEF IInv
  <2>4. q.op = "set" => \A p \in late : p.command.op = "set" =>
          p.command.token # q.token
    BY <1>2 DEF IInv, LateCommands, Allows
  <2>5. \A t \in Tokens : t > attempts' => rank'[t] = 0
    BY <1>1, <1>3, <2>1 DEF IInv, SetOnce
  <2>6. \A e \in Clients : pc'[e] = "set" /\ e \notin answered' =>
          rank'[token'[e]] = 0
    BY <1>1, <1>2, <1>3, <2>2, <2>3 DEF IInv, SetOnce
  <2>7. \A p \in late' : p.command.op = "set" => rank'[p.command.token] = 0
    BY <1>1, <1>3, <2>4, LateTypes DEF IInv, SetOnce
  <2>8. QED  BY <1>1, <2>5, <2>6, <2>7 DEF IInv, SetOnce
<1>10. Replies'
  <2>1. ASSUME NEW e \in Clients, e # c, e \in answered
        PROVE  StillTrue(e)'
    <3>1. token[e] # q.token
      BY <1>1, <1>2, <2>1 DEF IInv, TypeOK, Commands
    <3>2. QED  BY <1>1, <1>2, <1>5, <2>1, <3>1, RepliesKept
  <2>2. StillTrue(c)'
    <3>1. SUFFICES ASSUME Answer(q) = 1
                   PROVE  /\ pc[c] = "set" =>
                            Covered(c, Minus(ttl[c], wait[c]))'
                          /\ pc[c] = "extend" =>
                            Covered(c, Minus(Less(floor[c], ttl[c]), wait[c]))'
      BY <1>1, <1>5 DEF StillTrue
    <3>2. ttl[c] \in Nat /\ wait[c] \in Nat /\ floor[c] \in Nat
      BY Bounds DEF IInv, TypeOK
    <3>3. CASE pc[c] = "set"
      <4>1. lock = NoToken
        BY <1>2, <3>1, <3>3 DEF Answer
      <4>2. lock' = token[c] /\ left' = ttl[c]
        BY <1>1, <1>2, <3>3, <4>1 DEF Execute, SetNxPx
      <4>3. QED  BY <1>1, <3>2, <3>3, <4>2 DEF Covered, Minus
    <3>4. CASE pc[c] = "extend"
      <4>1. lock = token[c]
        BY <1>2, <3>1, <3>4 DEF Answer
      <4>2. lock' = token[c] /\ left' = ttl[c]
        BY <1>1, <1>2, <3>4, <4>1 DEF Execute, ExtendLua
      <4>3. QED  BY <1>1, <3>2, <3>4, <4>2 DEF Covered, Minus, Less
    <3>5. QED  BY <3>3, <3>4
  <2>3. QED  BY <1>1, <2>1, <2>2 DEF Replies, StillTrue
<1>11. Numbers'
  <2>1. answered \subseteq Clients /\ fences \in Nat
          /\ \A t \in Tokens : fence[t] \in Nat
    BY DEF IInv, TypeOK
  <2>2. pc[c] = "incr" => fences' = fences + 1 /\ Answer(q) = fences + 1
    BY <1>1, <1>2 DEF Execute, IncrFence, Answer
  <2>3. \A t \in Tokens : fence'[t] <= fences'
    BY <1>1, <1>3, <2>1 DEF IInv, Numbers
  <2>4. ASSUME NEW e \in answered', pc'[e] = "incr"
        PROVE  /\ answer'[e] \in 1..fences'
               /\ \A t \in Tokens : fence'[t] # answer'[e]
               /\ \A f \in answered' : pc'[f] = "incr"
                    /\ answer'[e] = answer'[f] => e = f
    BY <1>1, <1>3, <1>5, <2>1, <2>2, <2>4 DEF IInv, Numbers
  <2>5. QED  BY <2>3, <2>4 DEF Numbers
<1>12. Leases'
  <2>1. ASSUME NEW e \in Clients
        PROVE  Covered(e, sure[e])'
    <3>1. sure[e] \in Nat /\ Covered(e, sure[e])
      BY Bounds DEF IInv, TypeOK, Leases
    <3>2. q.op \in {"extend", "release"} /\ q.token = token[e] =>
            sure[e] <= q.ttl
      <4>1. q.token = token[e] => e = c
        BY <1>1, <1>2 DEF IInv, TypeOK, Commands
      <4>2. q.op \in {"extend", "release"} => sure[c] <= ttl[c]
        BY <1>2, Bounds DEF IInv, TypeOK, ClientCommands, InCall
      <4>3. QED  BY <1>2, <4>1, <4>2
    <3>3. \A n \in Nat : n = sure[e] => Covered(e, n)'
      BY <1>1, <1>2, <3>1, <3>2, CoveredKept
    <3>4. QED  BY <1>1, <3>1, <3>3 DEF Covered
  <2>2. QED  BY <2>1 DEF Leases
<1>13. FencesDistinct'
  BY <1>1 DEF IInv, FencesDistinct
<1>14. QED
  BY <1>3, <1>6, <1>7, <1>8, <1>9, <1>10, <1>11, <1>12, <1>13 DEF IInv

(* A late command: whoever has its token is allowed for.                   *)
LEMMA ServeLateKeeps ==
  ASSUME IInv, ServeLate
  PROVE  IInv'
<1>1. PICK r \in late :
        /\ Execute(r.command) /\ late' = late \ {r}
        /\ UNCHANGED <<call, attempts, failures, belief, asked, fence>>
  BY DEF ServeLate
<1> DEFINE q == r.command
<1>2. UNCHANGED <<pc, token, ttl, answered, answer, wait, attempts, failures,
                  sure, floor, asked, fence>>
  BY <1>1 DEF call, belief
<1>3. Runnable(q)
  BY LateRuns
<1>4. \A c \in Clients : Allows(r, c)
  BY DEF IInv, LateCommands
<1>5. /\ lock' \in Tokens \cup {NoToken} /\ left' \in 0..MaxTtl
      /\ fences' \in Nat /\ rank' \in [Tokens -> 0..MaxAttempts]
      /\ KeyHasTtl' /\ fences <= fences'
      /\ \A u \in Tokens : rank'[u] # rank[u] => q.op = "set" /\ u = q.token
  BY <1>1, <1>3, ExecuteTypes DEF IInv
<1>6. TypeOK'
  BY <1>1, <1>2, <1>5 DEF IInv, TypeOK
<1>7. LateCommands'
  <2>1. IsFiniteSet(late')
    BY <1>1, FS_RemoveElement DEF IInv, LateCommands
  <2>2. QED  BY <1>1, <1>2, <2>1 DEF IInv, LateCommands, Sound, Allows
<1>8. ClientCommands'
  BY <1>2 DEF IInv, ClientCommands, InCall
<1>9. SetOnce'
  <2>1. \A t \in Tokens : t > attempts => t # q.token
    BY <1>3, Bounds DEF Runnable, IInv, TypeOK, Tokens, CommandSet
  <2>2. \A c \in Clients : pc[c] = "set" => token[c] \in Tokens
    BY OwnToken DEF IInv
  <2>3. \A t \in Tokens : t > attempts' => rank'[t] = 0
    BY <1>2, <1>5, <2>1 DEF IInv, SetOnce
  <2>4. \A c \in Clients : pc'[c] = "set" /\ c \notin answered' =>
          rank'[token'[c]] = 0
    BY <1>2, <1>4, <1>5, <2>2 DEF IInv, SetOnce, Allows
  <2>5. \A p \in late' : p.command.op = "set" => rank'[p.command.token] = 0
    BY <1>1, <1>5, LateTypes DEF IInv, SetOnce
  <2>6. QED  BY <1>1, <2>3, <2>4, <2>5 DEF IInv, SetOnce
<1>10. Replies'
  BY <1>1, <1>2, <1>3, <1>4, RepliesKept DEF Replies, StillTrue, Allows
<1>11. Numbers'
  <2>1. answered \subseteq Clients /\ fences \in Nat /\ fences' \in Nat
        /\ (\A t \in Tokens : fence[t] \in Nat)
    BY <1>5 DEF IInv, TypeOK
  <2>2. QED  BY <1>2, <1>5, <2>1 DEF IInv, Numbers
<1>12. Leases'
  <2>1. ASSUME NEW c \in Clients
        PROVE  Covered(c, sure[c])'
    <3>1. sure[c] \in Nat /\ Covered(c, sure[c])
      BY Bounds DEF IInv, TypeOK, Leases
    <3>2. q.token = token[c] => sure[c] <= q.ttl
      BY <1>4 DEF Allows
    <3>3. \A n \in Nat : n = sure[c] => Covered(c, n)'
      BY <1>1, <1>2, <1>3, <3>1, <3>2, CoveredKept
    <3>4. QED  BY <1>2, <3>1, <3>3 DEF Covered
  <2>2. QED  BY <2>1 DEF Leases
<1>13. FencesDistinct'
  BY <1>2 DEF IInv, FencesDistinct
<1>14. QED
  BY <1>5, <1>6, <1>7, <1>8, <1>9, <1>10, <1>11, <1>12, <1>13 DEF IInv

(* Time takes as much from what is counted on as from the key.             *)
LEMMA TickKeeps ==
  ASSUME IInv, Tick
  PROVE  IInv'
<1>1. /\ left' = Minus(left, 1) /\ lock' = IF left = 1 THEN NoToken ELSE lock
      /\ UNCHANGED <<fences, rank, late, pc, token, ttl, answered, answer,
                     attempts, failures, floor, asked, fence>>
  BY DEF Tick
<1>2. \A c \in Clients :
        /\ wait'[c] =
             IF pc[c] \in Commands THEN Less(wait[c] + 1, MaxTtl) ELSE 0
        /\ sure'[c] = Minus(sure[c], 1)
  BY DEF Tick
<1>3. /\ left \in Nat /\ left' \in 0..MaxTtl
      /\ \A c \in Clients :
           sure[c] \in Nat /\ wait[c] \in 0..MaxTtl /\ ttl[c] \in 0..MaxTtl
             /\ floor[c] \in 0..MaxTtl
  BY <1>1, Bounds DEF IInv, TypeOK, Minus
<1>4. wait' \in [Clients -> 0..MaxTtl] /\ sure' \in [Clients -> 0..MaxTtl]
  BY Bounds DEF Tick, IInv, TypeOK, Minus, Less
<1>5. TypeOK'
  BY <1>1, <1>3, <1>4 DEF IInv, TypeOK
<1>6. LateCommands'
  BY <1>1, <1>2, <1>3, LateTypes DEF IInv, LateCommands, Sound, Allows, Minus
<1>7. ClientCommands'
  BY <1>1, <1>2, <1>3 DEF IInv, ClientCommands, InCall, Minus
<1>8. SetOnce'
  BY <1>1 DEF IInv, SetOnce
<1>9. KeyHasTtl'
  BY <1>1, <1>3 DEF IInv, KeyHasTtl, Minus
<1>10. ASSUME NEW c \in Clients, NEW n \in Nat, NEW m \in Nat,
              Covered(c, n), m = 0 \/ m < n
       PROVE  Covered(c, m)'
  BY <1>1, <1>3, <1>10 DEF Covered, Minus
<1>11. Leases'
  <2>1. ASSUME NEW c \in Clients
        PROVE  Covered(c, sure[c])'
    <3>1. sure'[c] \in Nat /\ (sure'[c] = 0 \/ sure'[c] < sure[c])
      BY <1>2, <1>3 DEF Minus
    <3>2. sure[c] = 0 \/ (lock = token[c] /\ left >= sure[c])
      BY <1>3 DEF IInv, Leases, Covered
    <3>3. QED  BY <1>1, <1>2, <1>3, <3>1, <3>2 DEF Covered, Minus
  <2>2. QED  BY <2>1 DEF Leases
<1>12. Replies'
  <2>1. ASSUME NEW c \in answered
        PROVE  StillTrue(c)'
    <3>1. wait'[c] = Less(wait[c] + 1, MaxTtl) /\ c \in Clients
      BY <1>2 DEF IInv, TypeOK
    <3>2. StillTrue(c)
      BY <3>1 DEF IInv, Replies
    <3>3. QED
      BY <1>1, <1>3, <3>1, <3>2, Bounds DEF StillTrue, Covered, Minus, Less
  <2>2. QED  BY <1>1, <2>1 DEF Replies, StillTrue
<1>13. Numbers' /\ FencesDistinct'
  BY <1>1 DEF IInv, Numbers, FencesDistinct
<1>14. QED
  BY <1>5, <1>6, <1>7, <1>8, <1>9, <1>11, <1>12, <1>13 DEF IInv

(* The invariant is inductive.                                             *)
LEMMA Initially == Init => IInv
<1> SUFFICES ASSUME Init
             PROVE  IInv
  OBVIOUS
<1> USE DEF Init
<1>1. TypeOK
  BY Bounds DEF TypeOK, Tokens, NoToken, Pcs
<1>2. LateCommands
  BY FS_EmptySet DEF LateCommands
<1>3. ClientCommands /\ SetOnce /\ KeyHasTtl /\ Replies /\ Leases
  BY DEF ClientCommands, InCall, SetOnce, KeyHasTtl, Replies, StillTrue,
     Leases, Covered
<1>4. Numbers /\ FencesDistinct
  BY DEF Numbers, FencesDistinct
<1>5. QED  BY <1>1, <1>2, <1>3, <1>4 DEF IInv

LEMMA Inductive == IInv /\ [Next]_vars => IInv'
<1> SUFFICES ASSUME IInv, [Next]_vars
             PROVE  IInv'
  OBVIOUS
<1>1. CASE ServeLate
  BY <1>1, ServeLateKeeps
<1>2. CASE Tick
  BY <1>2, TickKeeps
<1>3. ASSUME NEW c \in Clients, ClientStep(c)
      PROVE  IInv'
  BY <1>3, ServeKeeps, ConflictKeeps, LockedKeeps, FencedKeeps, ExtendedKeeps,
     ReleaseKeeps, ReleasedKeeps, ForgetKeeps, FailKeeps, AcquireKeeps,
     ExtendKeeps DEF ClientStep
<1>4. CASE UNCHANGED vars
  BY <1>4 DEF vars, server, call, belief, IInv, TypeOK, LateCommands, Sound,
     Allows, ClientCommands, InCall, SetOnce, KeyHasTtl, Replies, StillTrue,
     Covered, Numbers, Leases, FencesDistinct
<1>5. QED  BY <1>1, <1>2, <1>3, <1>4 DEF Next

LEMMA Invariance == Spec => []IInv
BY Initially, Inductive, PTL DEF Spec

(* Every variable has its type, and tokens are unique among the clients.   *)
THEOREM LockTypes == Spec => []TypeOK
<1>1. IInv => TypeOK
  BY DEF IInv
<1>2. QED  BY <1>1, Invariance, PTL

(* A caller that counts the TTL from before its last confirming call owns  *)
(* the key for at least that long (lock_acquire, lock_extend).             *)
THEOREM LockLeases == Spec => []LeaseCovers
<1>1. IInv => LeaseCovers
  BY DEF IInv, Leases, Covered, LeaseCovers
<1>2. QED  BY <1>1, Invariance, PTL

(* The key carries one token, and no two clients have the same.            *)
LEMMA Alone ==
  IInv => \A c, d \in Clients : sure[c] > 0 /\ sure[d] > 0 => c = d
BY DEF IInv, TypeOK, KeyHasTtl, Leases, Covered

(* Mutual exclusion: two callers never count on the lock at once, whatever *)
(* commands of failed calls are still on their way.                        *)
THEOREM LockExcludes ==
  Spec => [](\A c, d \in Clients : sure[c] > 0 /\ sure[d] > 0 => c = d)
<1>1. IInv => \A c, d \in Clients : sure[c] > 0 /\ sure[d] > 0 => c = d
  BY Alone
<1>2. QED  BY <1>1, Invariance, PTL

(* A client's own step changes at most what it counts on itself.           *)
LEMMA BelievesAlone ==
  ASSUME TypeOK, NEW c \in Clients, ClientStep(c)
  PROVE  UNCHANGED sure \/ \E s : sure' = [sure EXCEPT ![c] = s]
<1>1. CASE UNCHANGED belief
  BY <1>1 DEF belief
<1>2. CASE \E s, f : Believe(c, s, f)
  BY <1>2 DEF Believe
<1>3. Serve(c) \/ Conflict(c) \/ Fenced(c) \/ Released(c) => UNCHANGED belief
  BY DEF Serve, Conflict, Fenced, Released
<1>4. Locked(c) \/ Release(c) \/ Forget(c) \/ Fail(c)
        => \E s, f : Believe(c, s, f)
  BY DEF Locked, Release, Forget, Fail
<1>5. Extended(c) => UNCHANGED belief \/ \E s, f : Believe(c, s, f)
  BY DEF Extended
<1>6. ASSUME NEW d \in Ttls
      PROVE  /\ Acquire(c, d) => UNCHANGED belief
             /\ Extend(c, d) => \E s, f : Believe(c, s, f)
  BY DEF Acquire, Extend
<1>7. QED  BY <1>1, <1>2, <1>3, <1>4, <1>5, <1>6 DEF ClientStep

(* What a client comes to count on, it is granted while nobody counts on   *)
(* the lock, or it held the lock before: the invariant after the step lets *)
(* only one client count on it, and the others count on what they did.     *)
LEMMA ClientStepOfLease ==
  ASSUME IInv, IInv', NEW c \in Clients, ClientStep(c)
  PROVE  Leased!Next \/ UNCHANGED sure
<1>1. /\ sure \in [Clients -> 0..MaxTtl] /\ sure' \in [Clients -> 0..MaxTtl]
      /\ MaxTtl \in Nat
  BY Bounds DEF IInv, TypeOK
<1>2. CASE UNCHANGED sure
  BY <1>2
<1>3. ASSUME NEW s, sure' = [sure EXCEPT ![c] = s]
      PROVE  Leased!Next
  <2>1. sure'[c] = s /\ s \in 0..MaxTtl
    BY <1>1, <1>3
  <2>2. CASE s = 0
    <3>1. Leased!LetGo(c)
      BY <1>3, <2>2 DEF Leased!LetGo
    <3>2. QED  BY <3>1 DEF Leased!Next
  <2>3. CASE s > 0
    <3>1. s \in 1..MaxTtl
      BY <1>1, <2>1, <2>3
    <3>2. CASE sure[c] > 0
      <4>1. Leased!Renew(c, s)
        BY <1>3, <3>2 DEF Leased!Renew
      <4>2. QED  BY <3>1, <4>1 DEF Leased!Next
    <3>3. CASE sure[c] = 0
      <4>1. \A d \in Clients : sure'[c] > 0 /\ sure'[d] > 0 => c = d
        BY DEF IInv, TypeOK, KeyHasTtl, Leases, Covered
      <4>2. \A d \in Clients : d # c => sure'[d] = sure[d]
        BY <1>1, <1>3
      <4>3. \A d \in Clients : sure[d] = 0 \/ sure[d] > 0
        BY <1>1
      <4>4. Leased!Free
        BY <2>1, <2>3, <3>3, <4>1, <4>2, <4>3 DEF Leased!Free
      <4>5. Leased!Grant(c, s)
        BY <1>3, <4>4 DEF Leased!Grant
      <4>6. QED  BY <3>1, <4>5 DEF Leased!Next
    <3>4. QED  BY <1>1, <3>2, <3>3
  <2>4. QED  BY <2>1, <2>2, <2>3
<1>4. QED  BY <1>2, <1>3, BelievesAlone DEF IInv

LEMMA StepOfLease == IInv /\ IInv' /\ [Next]_vars => [Leased!Next]_sure
<1> SUFFICES ASSUME IInv, IInv', [Next]_vars
             PROVE  Leased!Next \/ UNCHANGED sure
  OBVIOUS
<1>1. CASE ServeLate
  BY <1>1 DEF ServeLate, belief
<1>2. CASE Tick
  <2>1. sure \in [Clients -> Nat]
    BY Bounds DEF IInv, TypeOK
  <2>2. \A c \in Clients :
          Minus(sure[c], 1) = IF sure[c] > 0 THEN sure[c] - 1 ELSE 0
    BY <2>1 DEF Minus
  <2>3. sure' = [c \in Clients |-> Minus(sure[c], 1)]
    BY <1>2 DEF Tick
  <2>4. Leased!Elapse
    BY <2>2, <2>3 DEF Leased!Elapse
  <2>5. QED  BY <2>4 DEF Leased!Next
<1>3. ASSUME NEW c \in Clients, ClientStep(c)
      PROVE  Leased!Next \/ UNCHANGED sure
  BY <1>3, ClientStepOfLease
<1>4. CASE UNCHANGED vars
  BY <1>4 DEF vars, belief
<1>5. QED  BY <1>1, <1>2, <1>3, <1>4 DEF Next

(* The lock is a lease: granted only while nobody counts on it, for at     *)
(* most the longest TTL, whatever commands of failed calls are on their    *)
(* way.                                                                    *)
THEOREM LockImplementsLease == Spec => ImplementsLease
<1>1. Init => Leased!Init
  BY DEF Init, Leased!Init
<1>2. QED
  BY <1>1, StepOfLease, Invariance, PTL DEF Spec, ImplementsLease, Leased!Spec

(* Two acquisitions never return the same fence (INCR fence:{key}).        *)
THEOREM LockFences == Spec => []FencesDistinct
<1>1. IInv => FencesDistinct
  BY DEF IInv
<1>2. QED  BY <1>1, Invariance, PTL

-----------------------------------------------------------------------------
(* Steps.                                                                  *)

(* Of all commands only a DEL of the very token takes the key away.        *)
LEMMA OnlyOwnerStep ==
  ASSUME IInv, [Next]_vars, lock # NoToken, lock' # lock
  PROVE  left = 1 \/ lock \in asked
<1>1. \A q : Runnable(q) /\ Execute(q) => lock \in asked
  <2>1. ASSUME NEW q, Runnable(q), Execute(q)
        PROVE  q.op = "release" /\ q.token = lock
    BY <2>1 DEF Execute, SetNxPx, IncrFence, ExtendLua, ReleaseLua, server
  <2>2. QED  BY <2>1 DEF Runnable
<1>2. CASE ServeLate
  BY <1>1, <1>2, LateRuns DEF ServeLate
<1>3. CASE Tick
  BY <1>3 DEF Tick
<1>4. ASSUME NEW c \in Clients, ClientStep(c)
      PROVE  lock \in asked
  <2>1. CASE Serve(c)
    BY <1>1, <2>1, ClientRuns DEF Serve
  <2>2. CASE ~Serve(c)
    BY <1>4, <2>2 DEF ClientStep, Conflict, Locked, Fenced, Extended, Release,
       Released, Forget, Fail, Acquire, Extend, server
  <2>3. QED  BY <2>1, <2>2
<1>5. CASE UNCHANGED vars
  BY <1>5 DEF vars, server
<1>6. QED  BY <1>2, <1>3, <1>4, <1>5 DEF Next

(* The key changes hands only by expiry, or after lock_release was called  *)
(* for the token it carries (RELEASE_LUA).                                 *)
THEOREM LockFreed == Spec => OnlyOwnerFrees
<1>1. IInv /\ [Next]_vars =>
        [lock # NoToken /\ lock' # lock => left = 1 \/ lock \in asked]_vars
  BY OnlyOwnerStep
<1>2. QED  BY <1>1, Invariance, PTL DEF Spec, OnlyOwnerFrees

(* Late commands that may still prolong the life of a token's key.         *)
Prolonging(t) == {q \in late : q.command.op = "extend" /\ q.command.token = t}

LEMMA RestValue ==
  ASSUME IInv, NEW t
  PROVE  /\ Rest(t) = left + MaxTtl * Cardinality(Prolonging(t))
         /\ IsFiniteSet(Prolonging(t)) /\ Cardinality(Prolonging(t)) \in Nat
         /\ Rest(t) \in Nat
<1>1. IsFiniteSet(Prolonging(t))
  BY FS_Subset DEF IInv, LateCommands, Prolonging
<1>2. Cardinality(Prolonging(t)) \in Nat
  BY <1>1, FS_CardinalityType
<1>3. Rest(t) = left + MaxTtl * Cardinality(Prolonging(t))
  BY DEF Rest, Prolonging
<1>4. left \in Nat /\ MaxTtl \in Nat
  BY Bounds DEF IInv, TypeOK
<1>5. QED  BY <1>1, <1>2, <1>3, <1>4

(* An extension on its way pays for the life it gives by being used up.    *)
LEMMA OrphanStep ==
  ASSUME IInv, IInv', [Next]_vars, NEW t \in Tokens, Orphaned(t), lock' = t
  PROVE  left > 0 /\ Rest(t)' <= Rest(t)
           /\ (left' # left => Rest(t)' < Rest(t))
<1>1. lock = t /\ t # NoToken /\ \A c \in Clients : token[c] # t
  BY DEF Orphaned, Tokens, NoToken
<1>2. left > 0 /\ left \in Nat /\ left' \in 0..MaxTtl /\ MaxTtl \in Nat
  BY <1>1, Bounds DEF IInv, TypeOK, KeyHasTtl
<1>3. /\ Rest(t) = left + MaxTtl * Cardinality(Prolonging(t))
      /\ Rest(t)' = left' + MaxTtl * Cardinality(Prolonging(t)')
      /\ Rest(t) \in Nat /\ Rest(t)' \in Nat
  <2>1. Rest(t)' = left' + MaxTtl * Cardinality(Prolonging(t)')
    BY DEF Rest, Prolonging
  <2>2. Cardinality(Prolonging(t)') \in Nat
    BY FS_Subset, FS_CardinalityType DEF IInv, LateCommands, Prolonging
  <2>3. QED  BY <1>2, <2>1, <2>2, RestValue
<1>4. ASSUME UNCHANGED left, Prolonging(t)' = Prolonging(t)
      PROVE  Rest(t)' = Rest(t)
  BY <1>3, <1>4
<1>5. CASE Tick
  <2>1. Prolonging(t)' = Prolonging(t) /\ left' = left - 1
    BY <1>1, <1>2, <1>5 DEF Tick, Prolonging, Minus
  <2>2. Cardinality(Prolonging(t)) \in Nat
    BY RestValue
  <2>3. QED  BY <1>2, <1>3, <2>1, <2>2
<1>6. CASE ServeLate
  <2>1. PICK r \in late : Execute(r.command) /\ late' = late \ {r}
    BY <1>6 DEF ServeLate
  <2>2. CASE r \in Prolonging(t)
    <3> DEFINE n == Cardinality(Prolonging(t))
    <3>1. Prolonging(t)' = Prolonging(t) \ {r}
      BY <2>1 DEF Prolonging
    <3>2. Cardinality(Prolonging(t)') = n - 1 /\ n \in Nat
      BY <2>2, <3>1, RestValue, FS_RemoveElement
    <3>3. MaxTtl * (n - 1) = MaxTtl * n - MaxTtl /\ MaxTtl * n \in Nat
      BY <1>2, <3>2
    <3>4. QED  BY <1>2, <1>3, <3>2, <3>3
  <2>3. CASE r \notin Prolonging(t)
    <3>1. Prolonging(t)' = Prolonging(t)
      BY <2>1, <2>3 DEF Prolonging
    <3>2. UNCHANGED left
      BY <1>1, <2>1, <2>3
         DEF Execute, SetNxPx, IncrFence, ExtendLua, ReleaseLua,
         server, Prolonging
    <3>3. QED  BY <1>2, <1>3, <1>4, <3>1, <3>2
  <2>4. QED  BY <2>2, <2>3
<1>7. ASSUME NEW c \in Clients, ClientStep(c)
      PROVE  UNCHANGED left /\ Prolonging(t)' = Prolonging(t)
  <2>1. CASE Serve(c)
    <3>1. Command(c).token # t
      BY <1>1 DEF Command
    <3>2. UNCHANGED left
      BY <1>1, <2>1, <3>1 DEF Serve, Execute, SetNxPx, IncrFence, ExtendLua,
         ReleaseLua, server
    <3>3. QED  BY <2>1, <3>2 DEF Serve, Prolonging
  <2>2. CASE Fail(c)
    <3>1. Command(c).token # t
      BY <1>1 DEF Command
    <3>2. UNCHANGED left
      BY <2>2 DEF Fail, server
    <3>3. late' = late
            \/ late' = late \cup {[id |-> failures, command |-> Command(c)]}
      BY <2>2 DEF Fail
    <3>4. QED  BY <3>1, <3>2, <3>3 DEF Prolonging
  <2>3. CASE ~Serve(c) /\ ~Fail(c)
    BY <1>7, <2>3 DEF ClientStep, Conflict, Locked, Fenced, Extended, Release,
       Released, Forget, Acquire, Extend, server, Prolonging
  <2>4. QED  BY <2>1, <2>2, <2>3
<1>8. CASE UNCHANGED vars
  BY <1>2, <1>3, <1>4, <1>8 DEF vars, server, Prolonging
<1>9. QED
  BY <1>2, <1>3, <1>4, <1>5, <1>6, <1>7, <1>8 DEF Next

(* A lock nobody has the token of has a TTL, and what is left of it and of *)
(* the extensions on their way only shrinks (SET NX PX, EXTEND_LUA).       *)
THEOREM LockOrphans == Spec => OrphanRunsOut
<1>1. IInv /\ IInv' /\ [Next]_vars =>
        [\A t \in Tokens : Orphaned(t) /\ lock' = t =>
           /\ left > 0 /\ Rest(t)' <= Rest(t)
           /\ left' # left => Rest(t)' < Rest(t)]_vars
  BY OrphanStep
<1>2. QED  BY <1>1, Invariance, PTL DEF Spec, OrphanRunsOut

=============================================================================
