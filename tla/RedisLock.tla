------------------------------ MODULE RedisLock -------------------------------
(***************************************************************************)
(* The distributed lock of redisx (src/src/ext.rs): lock_acquire,          *)
(* lock_extend and lock_release of several clients on one lock key, with   *)
(* the key's expiry, the fencing counter `fence:{key}', calls that fail    *)
(* while their command is still on its way, and the execution of such a    *)
(* command after the client has moved on.                                  *)
(*                                                                         *)
(* Every call of the code is one command and one awaited reply, except     *)
(* lock_acquire, which is two: SET NX PX, then INCR.  A command is sent,   *)
(* executed by the server and answered in separate steps.  Time is Tick;   *)
(* all clocks run at the server's pace.                                    *)
(***************************************************************************)
EXTENDS Naturals, FiniteSets

CONSTANTS
  Clients,      \* tasks that use the lock
  Ttls,         \* the TTLs they pass, in ticks
  MaxTtl,       \* the largest of them
  MaxAttempts,  \* bound: calls of lock_acquire
  MaxFailures   \* bound: calls that end in an error

ASSUME LockAssumption ==
  /\ MaxTtl \in Nat
  /\ Ttls \subseteq 1..MaxTtl   \* lock_acquire and lock_extend refuse a zero TTL
  /\ MaxAttempts \in Nat
  /\ MaxFailures \in Nat

VARIABLES
  lock,      \* server: the token in the lock key, or NoToken
  left,      \* server: remaining life of the lock key (0: none set)
  fences,    \* server: the fencing counter
  late,      \* commands of calls that gave up; the server may still run them
  pc,        \* what each client does
  token,     \* RedisLock.token of each client (from the start of lock_acquire)
  ttl,       \* TTL argument of the client's call
  answered,  \* clients whose command was executed and whose reply is under way
  answer,    \* that reply: 1 for done, 0 for not done; the number for INCR
  wait,      \* ticks since the client sent its command (up to MaxTtl)
  attempts,  \* calls of lock_acquire so far
  failures,  \* calls that ended in an error so far
  sure,      \* history: how long the client can still count on owning the key
  floor,     \* history: life a command it gave up may still cut the key down to
  asked,     \* history: tokens lock_release was called for
  rank,      \* history: the tokens in the order they got the key (0: never)
  fence      \* history: the fence lock_acquire returned for a token (0: none)

server  == <<lock, left, fences, rank>>
call    == <<pc, token, ttl, answered, answer, wait>>
belief  == <<sure, floor>>
vars    == <<server, late, call, attempts, failures, belief, asked, fence>>

(* generate_lock_token: counter, clock and process id make tokens unique.  *)
Tokens  == 1..MaxAttempts
NoToken == 0

Commands == {"set", "incr", "extend", "release"}
Pcs      == {"idle", "held"} \cup Commands  \* held: owns a RedisLock value

Less(a, b)  == IF a < b THEN a ELSE b
More(a, b)  == IF a < b THEN b ELSE a
Minus(a, b) == IF a < b THEN 0 ELSE a - b

Init ==
  /\ lock = NoToken /\ left = 0 /\ fences = 0
  /\ late = {}
  /\ pc = [c \in Clients |-> "idle"]
  /\ token = [c \in Clients |-> NoToken]
  /\ ttl = [c \in Clients |-> 0]
  /\ answered = {}
  /\ answer = [c \in Clients |-> 0]
  /\ wait = [c \in Clients |-> 0]
  /\ attempts = 0 /\ failures = 0
  /\ sure = [c \in Clients |-> 0]
  /\ floor = [c \in Clients |-> 0]
  /\ asked = {}
  /\ rank = [t \in Tokens |-> 0]
  /\ fence = [t \in Tokens |-> 0]

-----------------------------------------------------------------------------
(* The server.  An operator whose name has an underscore is a plausible    *)
(* bug in the operator it is named after; no action of this module uses it.*)

NextRank == Cardinality({t \in Tokens : rank[t] # 0}) + 1

(* Bug: SET without NX. *)
SetNxPx_NoNx(t, d) ==
  /\ lock' = t
  /\ left' = d
  /\ rank' = [rank EXCEPT ![t] = NextRank]
  /\ UNCHANGED fences

(* Bug: SET without PX. *)
SetNxPx_NoPx(t, d) ==
  /\ lock = NoToken
  /\ lock' = t
  /\ left' = 0
  /\ rank' = [rank EXCEPT ![t] = NextRank]
  /\ UNCHANGED fences

(* SET key token NX PX ttl *)
SetNxPx(t, d) ==
  \/ /\ lock = NoToken
     /\ lock' = t
     /\ left' = d
     /\ rank' = [rank EXCEPT ![t] = NextRank]
     /\ UNCHANGED fences
  \/ /\ lock # NoToken
     /\ UNCHANGED server

(* INCR fence:{key} *)
IncrFence ==
  /\ fences' = fences + 1
  /\ UNCHANGED <<lock, left, rank>>

(* Bug: DEL without comparing the token. *)
ReleaseLua_NoCompare(t) ==
  /\ lock' = NoToken
  /\ left' = 0
  /\ UNCHANGED <<fences, rank>>

(* Bug: the fencing counter goes with the lock. *)
ReleaseLua_DropsFence(t) ==
  \/ /\ lock = t
     /\ lock' = NoToken
     /\ left' = 0
     /\ fences' = 0
     /\ UNCHANGED rank
  \/ /\ lock # t
     /\ UNCHANGED server

(* RELEASE_LUA: compare and DEL *)
ReleaseLua(t) ==
  \/ /\ lock = t
     /\ lock' = NoToken
     /\ left' = 0
     /\ UNCHANGED <<fences, rank>>
  \/ /\ lock # t
     /\ UNCHANGED server

(* Bug: PEXPIRE without comparing the token. *)
ExtendLua_NoCompare(t, d) ==
  /\ lock # NoToken
  /\ left' = d
  /\ UNCHANGED <<lock, fences, rank>>

(* EXTEND_LUA: compare and PEXPIRE *)
ExtendLua(t, d) ==
  \/ /\ lock = t
     /\ left' = d
     /\ UNCHANGED <<lock, fences, rank>>
  \/ /\ lock # t
     /\ UNCHANGED server

Execute(q) ==
  \/ q.op = "set" /\ SetNxPx(q.token, q.ttl)
  \/ q.op = "incr" /\ IncrFence
  \/ q.op = "release" /\ ReleaseLua(q.token)
  \/ q.op = "extend" /\ ExtendLua(q.token, q.ttl)

Answer(q) ==
  CASE q.op = "set" -> IF lock = NoToken THEN 1 ELSE 0
    [] q.op = "incr" -> fences + 1
    [] OTHER -> IF lock = q.token THEN 1 ELSE 0

Command(c) == [op |-> pc[c], token |-> token[c], ttl |-> ttl[c]]

(* The command of a waiting client is executed. *)
Serve(c) ==
  /\ pc[c] \in Commands /\ c \notin answered
  /\ Execute(Command(c))
  /\ answer' = [answer EXCEPT ![c] = Answer(Command(c))]
  /\ answered' = answered \cup {c}
  /\ UNCHANGED <<late, pc, token, ttl, wait, attempts, failures, belief, asked,
                 fence>>

(* A command whose client gave up is executed after all; nobody reads the  *)
(* reply.  Reconnects let such commands run in any order.                  *)
ServeLate ==
  \E q \in late :
    /\ Execute(q.command)
    /\ late' = late \ {q}
    /\ UNCHANGED <<call, attempts, failures, belief, asked, fence>>

(* One unit of time.  A key with a TTL is gone when its life is over.      *)
Tick ==
  /\ left' = Minus(left, 1)
  /\ lock' = IF left = 1 THEN NoToken ELSE lock
  /\ wait' = [c \in Clients |->
                IF pc[c] \in Commands THEN Less(wait[c] + 1, MaxTtl) ELSE 0]
  /\ sure' = [c \in Clients |-> Minus(sure[c], 1)]
  /\ UNCHANGED <<fences, rank, late, pc, token, ttl, answered, answer,
                 attempts, failures, floor, asked, fence>>

-----------------------------------------------------------------------------
(* The clients. *)

Send(c, op, t, d) ==
  /\ pc' = [pc EXCEPT ![c] = op]
  /\ token' = [token EXCEPT ![c] = t]
  /\ ttl' = [ttl EXCEPT ![c] = d]
  /\ wait' = [wait EXCEPT ![c] = 0]
  /\ answered' = answered \ {c}
  /\ answer' = [answer EXCEPT ![c] = 0]

Return(c) == Send(c, "held", token[c], 0)
GiveUp(c) == Send(c, "idle", NoToken, 0)

Believe(c, s, f) ==
  /\ sure' = [sure EXCEPT ![c] = s]
  /\ floor' = [floor EXCEPT ![c] = f]

(* Bug: every call generates the same token. *)
Acquire_SameToken(c, d) ==
  /\ pc[c] = "idle" /\ attempts < MaxAttempts
  /\ attempts' = 1
  /\ Send(c, "set", 1, d)
  /\ UNCHANGED <<server, late, failures, belief, asked, fence>>

(* lock_acquire: a fresh token, then SET NX PX. *)
Acquire(c, d) ==
  /\ pc[c] = "idle" /\ attempts < MaxAttempts
  /\ attempts' = attempts + 1
  /\ Send(c, "set", attempts + 1, d)
  /\ UNCHANGED <<server, late, failures, belief, asked, fence>>

(* The SET was refused: lock_acquire returns Conflict. *)
Conflict(c) ==
  /\ pc[c] = "set" /\ c \in answered /\ answer[c] = 0
  /\ GiveUp(c)
  /\ UNCHANGED <<server, late, attempts, failures, belief, asked, fence>>

(* The SET succeeded: on to the INCR.  From the moment it called, the      *)
(* caller can count on the key for the TTL.                                *)
Locked(c) ==
  /\ pc[c] = "set" /\ c \in answered /\ answer[c] = 1
  /\ Send(c, "incr", token[c], 0)
  /\ Believe(c, Minus(ttl[c], wait[c]), MaxTtl)
  /\ UNCHANGED <<server, late, attempts, failures, asked, fence>>

(* The INCR is answered: lock_acquire returns the RedisLock. *)
Fenced(c) ==
  /\ pc[c] = "incr" /\ c \in answered
  /\ fence' = [fence EXCEPT ![token[c]] = answer[c]]
  /\ Return(c)
  /\ UNCHANGED <<server, late, attempts, failures, belief, asked>>

(* lock_extend.  Until it is answered the key may have the old life or the *)
(* new one, which may be the shorter.                                      *)
Extend(c, d) ==
  /\ pc[c] = "held"
  /\ Send(c, "extend", token[c], d)
  /\ Believe(c, Less(sure[c], d), floor[c])
  /\ UNCHANGED <<server, late, attempts, failures, asked, fence>>

Extended(c) ==
  /\ pc[c] = "extend" /\ c \in answered
  /\ Return(c)
  /\ \/ /\ answer[c] = 1
        /\ Believe(c, More(sure[c], Minus(Less(floor[c], ttl[c]), wait[c])),
                   floor[c])
     \/ /\ answer[c] = 0
        /\ UNCHANGED belief
  /\ UNCHANGED <<server, late, attempts, failures, asked, fence>>

(* lock_release, which borrows the RedisLock: the caller keeps the value   *)
(* whatever the answer, and may release or extend again.                   *)
Release(c) ==
  /\ pc[c] = "held"
  /\ Send(c, "release", token[c], 0)
  /\ Believe(c, 0, floor[c])
  /\ asked' = asked \cup {token[c]}
  /\ UNCHANGED <<server, late, attempts, failures, fence>>

Released(c) ==
  /\ pc[c] = "release" /\ c \in answered
  /\ Return(c)
  /\ UNCHANGED <<server, late, attempts, failures, belief, asked, fence>>

(* The caller drops the RedisLock; there is no Drop that would release it. *)
Forget(c) ==
  /\ pc[c] = "held"
  /\ GiveUp(c)
  /\ Believe(c, 0, 0)
  /\ UNCHANGED <<server, late, attempts, failures, asked, fence>>

(* A call ends in an error (no permit, timeout, connection lost, its       *)
(* future dropped).  Its command was never sent or is lost, was executed   *)
(* and the reply is lost, or is still on its way.  lock_acquire then       *)
(* returns no RedisLock, even when the key carries its token.              *)
Fail(c) ==
  /\ pc[c] \in Commands /\ failures < MaxFailures
  /\ failures' = failures + 1
  /\ \/ UNCHANGED late
     \/ /\ c \notin answered
        /\ late' = late \cup {[id |-> failures, command |-> Command(c)]}
  /\ \/ /\ pc[c] \in {"set", "incr"}
        /\ GiveUp(c)
        /\ Believe(c, 0, 0)
     \/ /\ pc[c] \in {"extend", "release"}
        /\ Return(c)
        /\ Believe(c, sure[c], Less(floor[c], ttl[c]))
  /\ UNCHANGED <<server, attempts, asked, fence>>

ClientStep(c) ==
  \/ Serve(c) \/ Conflict(c) \/ Locked(c) \/ Fenced(c) \/ Extended(c)
  \/ Release(c) \/ Released(c) \/ Forget(c) \/ Fail(c)
  \/ \E d \in Ttls : Acquire(c, d) \/ Extend(c, d)

Next == ServeLate \/ Tick \/ \E c \in Clients : ClientStep(c)

Spec == Init /\ [][Next]_vars

-----------------------------------------------------------------------------
(* Every variable has its type; a client has a token exactly while it is   *)
(* in lock_acquire or owns a RedisLock, and no two have the same one       *)
(* (generate_lock_token).                                                  *)
TypeOK ==
  /\ lock \in Tokens \cup {NoToken} /\ left \in 0..MaxTtl /\ fences \in Nat
  /\ late \subseteq [id : Nat, command : [op : Commands, token : Tokens,
                                          ttl : 0..MaxTtl]]
  /\ pc \in [Clients -> Pcs]
  /\ token \in [Clients -> 0..attempts]
  /\ ttl \in [Clients -> 0..MaxTtl]
  /\ answered \subseteq {c \in Clients : pc[c] \in Commands}
  /\ answer \in [Clients -> Nat]
  /\ wait \in [Clients -> 0..MaxTtl]
  /\ attempts \in 0..MaxAttempts /\ failures \in 0..MaxFailures
  /\ sure \in [Clients -> 0..MaxTtl] /\ floor \in [Clients -> 0..MaxTtl]
  /\ asked \subseteq Tokens
  /\ rank \in [Tokens -> 0..MaxAttempts] /\ fence \in [Tokens -> Nat]
  /\ \A c \in Clients : token[c] = NoToken <=> pc[c] = "idle"
  /\ \A c, d \in Clients : token[c] = token[d] /\ token[c] # NoToken => c = d

(* A caller that counts the TTL from before its last call that confirmed   *)
(* the lock (or the TTL of an extension it gave up, if that is shorter),   *)
(* and stops counting on it when it calls lock_release, owns the key for   *)
(* at least that long, whatever late commands of its own or of others run  *)
(* in between: SET NX never replaces, release and extend never touch, the  *)
(* lock of another.                                                        *)
LeaseCovers ==
  \A c \in Clients : sure[c] > 0 => lock = token[c] /\ left >= sure[c]

(* The key changes hands only by expiry, or after lock_release was called  *)
(* for the very token it carries, however late that command runs           *)
(* (RELEASE_LUA).                                                          *)
OnlyOwnerFrees ==
  [][lock # NoToken /\ lock' # lock => left = 1 \/ lock \in asked]_vars

(* What the lock promises its callers, seen from how long each can count   *)
(* on it: it is granted only while nobody else counts on it, although the  *)
(* grant is a SET executed earlier and commands of failed calls are still  *)
(* on their way.                                                           *)
Leased == INSTANCE Lease WITH remaining <- sure

ImplementsLease == Leased!Spec

(* No two successful acquisitions return the same fence (INCR is executed  *)
(* once per answer and never starts again).                                *)
FencesDistinct ==
  \A a, b \in Tokens : fence[a] = fence[b] /\ fence[a] # 0 => a = b

(* A lock nobody has the token of any more (lock_acquire failed after its  *)
(* SET was executed, or the RedisLock was dropped) runs out: its key always*)
(* has a TTL, and what can still lengthen that, an extension under way, is *)
(* used up by doing so.  With the clock running it is free eventually.     *)
Orphaned(t) == lock = t /\ \A c \in Clients : token[c] # t

Rest(t) ==
  left + MaxTtl * Cardinality({q \in late : q.command.op = "extend"
                                             /\ q.command.token = t})

OrphanRunsOut ==
  [][\A t \in Tokens : Orphaned(t) /\ lock' = t =>
       /\ left > 0 /\ Rest(t)' <= Rest(t)
       /\ left' # left => Rest(t)' < Rest(t)]_vars

(* What the header of ext.rs asks of callers, to have the resource accept  *)
(* writes with growing fences only, protects the lock owner: of two        *)
(* acquisitions that returned, the one that got the key later has the      *)
(* larger fence.  It does not hold.                                        *)
FenceFollowsLock ==
  \A a, b \in Tokens :
    0 < rank[a] /\ rank[a] < rank[b] /\ fence[a] # 0 /\ fence[b] # 0
      => fence[a] < fence[b]
=============================================================================
