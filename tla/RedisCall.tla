------------------------------ MODULE RedisCall -------------------------------
(***************************************************************************)
(* One command of a RedisClient against the clock (src/src/client.rs       *)
(* route and with_pool_conn, src/src/resilience.rs, src/src/pool.rs run    *)
(* and run_total, src/src/pool/permit.rs run_timed): classification of the *)
(* command, its argument checks, the retry loop with its backoff and       *)
(* deadline, and in each attempt the wait for a lane and the command, each *)
(* under its budget.  Key-value commands are routed; those of              *)
(* structures.rs, streams.rs, ext.rs and transaction.rs are attempted      *)
(* once, and two of them block at the server.                              *)
(*                                                                         *)
(* Other callers appear only as lanes that may or may not become free and  *)
(* as a pool that may be closed; RedisPool models them.  Time advances by  *)
(* Tick, and a timer that is due fires before it advances further.         *)
(***************************************************************************)
EXTENDS Naturals, FiniteSets, RedisErrors

CONSTANTS
  Operations,      \* commands called, of AllOperations
  Deadlines,       \* RetryConfig.deadline: sets of at most one duration
  Totals,          \* RedisClient.call_deadline: sets of at most one duration
  max_attempts,    \* RetryConfig
  initial_backoff,
  max_backoff,
  multiplier,      \* RetryConfig.multiplier, a whole number here
  acquire_timeout, \* RedisConfig
  command_timeout,
  Blocks,          \* durations callers of blocking commands ask for
  Second,          \* the ticks in a second
  Gap              \* bound: most time between two readings of the clock in
                   \* one pass of the retry loop

(* The commands, by the file they are in.                                  *)
RoutedOperations == {"Get", "Exists", "Ttl", "Mget", "Set", "SetEx", "Delete",
                     "Expire", "Mset", "Incr"}
HashAndListCommands == {"Hset", "Hget", "Hdel", "Hgetall", "Lpush", "Rpush",
                        "Lpop", "Lrange"}
SetCommands    == {"Sadd", "Sismember", "Srem", "Zadd", "Zscore", "Zrem"}
StreamCommands == {"Xadd", "Xlen", "Xrange", "Xread", "Xdel", "Xack"}
ScriptCommands == {"EvalScript", "EvalSha", "PipelineSet"}
Transactions   == {"MultiExec", "MultiSet"}
Blocking       == {"Blpop", "XreadBlock"}
Reads          == {"Get", "Exists", "Ttl", "Mget"}

(* Those of several keys, which a cluster serves only from one slot.       *)
ManyKeys == {"Mget", "Mset"} \cup {"EvalScript", "EvalSha"} \cup Transactions

AllOperations ==
  RoutedOperations \cup HashAndListCommands \cup SetCommands \cup StreamCommands
    \cup ScriptCommands \cup Transactions \cup Blocking

(* Those that return at once for an empty list, those that check their     *)
(* arguments before they ask for a lane, and those that do it inside the   *)
(* closure, on the lane.                                                   *)
TakesEmpty  == {"Mget", "Mset", "Hdel", "Xdel", "Xack", "PipelineSet",
                "MultiSet"}
ChecksEarly == {"Xadd", "Xack", "EvalScript", "EvalSha", "PipelineSet",
                "MultiExec"}
ChecksLate  == {"SetEx", "Expire"}

IsOption(o)  == o \subseteq Nat /\ \A a, b \in o : a = b
Value(o)     == CHOOSE v \in o : TRUE

ASSUME CallAssumption ==
  /\ Operations \subseteq AllOperations
  /\ \A o \in Deadlines \cup Totals : IsOption(o)
  /\ max_attempts \in Nat \ {0}      \* fixed and exponential take max(1)
  /\ initial_backoff \in Nat /\ max_backoff \in Nat /\ multiplier \in Nat \ {0}
  /\ acquire_timeout \in Nat \ {0}   \* RedisConfig::validate refuses 0
  /\ command_timeout \in Nat \ {0}
  /\ Blocks \subseteq Nat /\ Second \in Nat \ {0}
  /\ Gap \in Nat

VARIABLES
  call,     \* the call's arguments and its client's configuration
  closed,   \* PoolInner.closed
  now,      \* time since the call
  pc,       \* where the call is
  due,      \* when the wait the call is in ends at the latest
  attempt,  \* number of the attempt
  began,    \* when it began (started_at)
  sent,     \* when its closure was called on the lane
  error,    \* error of the last attempt, or the call's own
  verdict,  \* history: what the last answer really meant for another attempt
  pending,  \* attempts whose command was handed over and not executed
  done      \* attempts whose command the server executed

vars == <<call, closed, now, pc, due, attempt, began, sent, error, verdict,
          pending, done>>

wire    == <<pending, done>>
outcome == <<error, verdict>>

Pcs ==
  { "start",    \* about to call the attempt's closure
    "queued",   \* waiting for a lane
    "running",  \* waiting for the command
    "failed",   \* the attempt returned an error
    "pausing",  \* should_continue said yes; backoff not yet chosen
    "asleep",   \* in the backoff
    "ok", "err" }  \* returned

(* args: whether the arguments are sound, an empty list, or refused;       *)
(* block: what a blocking command was asked for; retry: a RetryConfig is   *)
(* set, and deadline and jitter are its fields; backend: the pool has a    *)
(* connection.                                                             *)
Calls ==
  {c \in [op : Operations, args : {"sound", "empty", "bad"},
          block : Blocks \cup {0}, retry : BOOLEAN, deadline : Deadlines,
          jitter : BOOLEAN, total : Totals, backend : BOOLEAN] :
     /\ ~c.retry => c.deadline = {} /\ ~c.jitter
     /\ c.args = "empty" => c.op \in TakesEmpty
     /\ c.args = "bad" => c.op \in ChecksEarly \cup ChecksLate
     /\ IF c.op \in Blocking THEN c.block \in Blocks ELSE c.block = 0}

Verdicts ==
  { "open",         \* it may do better
    "final",        \* none can: the same question has the same answer
    "disguised" }   \* none can, but the answer looks like one that passes

Init ==
  /\ call \in Calls
  /\ closed \in BOOLEAN
  /\ now = 0 /\ pc = "start" /\ due = 0 /\ attempt = 0 /\ began = 0 /\ sent = 0
  /\ error = "None" /\ verdict = "open"
  /\ pending = {} /\ done = {}

Less(a, b)  == IF a < b THEN a ELSE b
More(a, b)  == IF a < b THEN b ELSE a
Minus(a, b) == IF a < b THEN 0 ELSE a - b

-----------------------------------------------------------------------------
(* Classification.  An operator whose name has an underscore is a          *)
(* plausible bug in the operator it is named after.                        *)

(* Bug: SET without a TTL and MSET count as idempotent. *)
retry_safety_SetIdempotent(op) ==
  CASE op \in {"Get", "Exists", "Ttl", "Mget"} -> "ReadOnly"
    [] op \in {"Set", "Mset"} -> "Idempotent"
    [] op \in {"Delete", "Expire", "SetEx"} -> "AmbiguousWrite"
    [] OTHER -> "NeverAutomatic"

(* RedisOperation::retry_safety; set_ex names its class itself. *)
retry_safety(op) ==
  CASE op \in {"Get", "Exists", "Ttl", "Mget"} -> "ReadOnly"
    [] op \in {"Set", "Delete", "Expire", "Mset", "SetEx"} -> "AmbiguousWrite"
    [] OTHER -> "NeverAutomatic"

(* route_with_safety: is the closure run by with_retry? *)
Routed ==
  /\ call.op \in RoutedOperations
  /\ call.retry /\ retry_safety(call.op) \in {"ReadOnly", "Idempotent"}

(* Bug: the last attempt is not counted. *)
should_continue_OffByOne(n, elapsed) ==
  /\ n <= max_attempts
  /\ \A d \in call.deadline : elapsed < d

should_continue(n, elapsed) ==
  /\ n < max_attempts
  /\ \A d \in call.deadline : elapsed < d

(* backoff_for: initial * multiplier^(n - 1), up to max_backoff. *)
backoff_for[n \in Nat] ==
  IF n = 0 THEN 0
  ELSE IF n = 1 THEN Less(initial_backoff, max_backoff)
  ELSE Less(backoff_for[n - 1] * multiplier, max_backoff)

(* A factor between one half and one; none if jitter is off. *)
jittered(backoff) ==
  IF call.jitter THEN {b \in 0..backoff : 2 * b >= backoff} ELSE {backoff}

(* Bug: the backoff is not cut down to what is left of the deadline. *)
Pauses_Unclipped(n, elapsed) == jittered(backoff_for[n])

(* The waits with_retry may choose after attempt n. *)
Pauses(n, elapsed) ==
  {b \in 0..backoff_for[n] :
     \E j \in jittered(backoff_for[n]) :
       \/ call.deadline = {} /\ b = j
       \/ \E d \in call.deadline : b = Less(j, Minus(d, elapsed))}

(* with_pool_conn: the call_deadline, which blocking commands go around.   *)
Total == IF call.op \in Blocking THEN {} ELSE call.total

(* blpop and xread_block: the budget, and how long the server blocks.      *)
(* BLPOP is sent whole seconds, at least one.                              *)
BlockingBudget == More(command_timeout, call.block + Second)

ServerBlock ==
  IF call.op = "Blpop" THEN More((call.block \div Second) * Second, Second)
  ELSE More(call.block, 1)

OwnBudget ==
  IF call.op \in Blocking THEN BlockingBudget ELSE command_timeout

(* run and run_total: budget of the wait for a lane. *)
AcquireBudget ==
  IF Total = {} THEN acquire_timeout ELSE Less(Value(Total), acquire_timeout)

(* Bug: the time spent waiting for a lane is not deducted. *)
CommandBudget_FullTotal(spent) ==
  IF Total = {} THEN OwnBudget ELSE Less(Value(Total), OwnBudget)

(* execute_with_budget and execute_with_total_deadline: budget of the      *)
(* command, spent being the time since the attempt began.                  *)
CommandBudget(spent) ==
  IF Total = {} THEN OwnBudget ELSE Less(Minus(Value(Total), spent), OwnBudget)

(* connection_manager_config: the driver gives up any command then.        *)
response_timeout == command_timeout

-----------------------------------------------------------------------------
(* One attempt. *)

WaitIn(where, budget) ==
  /\ pc' = where
  /\ due' = now + budget

Fails(e, v) ==
  /\ error' = e
  /\ verdict' = v
  /\ WaitIn("failed", 0)

Errs(e) == Fails(e, "open")

CheckedEarly ==
  call.args = "empty" \/ (call.args = "bad" /\ call.op \in ChecksEarly)

(* The arguments settle the call: no lane is taken, whatever the pool's    *)
(* state.                                                                  *)
ReturnEarly ==
  /\ pc = "start" /\ CheckedEarly
  /\ \/ call.args = "empty" /\ WaitIn("ok", 0) /\ UNCHANGED outcome
     \/ /\ call.args = "bad"
        /\ error' = "Config" /\ verdict' = "final"
        /\ WaitIn("err", 0)
  /\ UNCHANGED <<call, closed, now, attempt, began, sent, wire>>

(* Bug: the attempt is not counted. *)
BeginAttempt_Uncounted ==
  /\ pc = "start" /\ ~CheckedEarly
  /\ began' = now
  /\ WaitIn("queued", AcquireBudget)
  /\ UNCHANGED <<call, closed, now, attempt, sent, outcome, wire>>

(* The closure is called.  A zero call_deadline fails at once, and so does *)
(* a closed pool or one without a connection (acquire_with_timeout).       *)
BeginAttempt ==
  /\ pc = "start" /\ ~CheckedEarly
  /\ attempt' = attempt + 1
  /\ began' = now
  /\ \/ Total = {0} /\ Errs("Timeout")
     \/ Total # {0} /\ (closed \/ ~call.backend) /\ Errs("Connection")
     \/ /\ Total # {0} /\ ~closed /\ call.backend
        /\ WaitIn("queued", AcquireBudget)
        /\ UNCHANGED outcome
  /\ UNCHANGED <<call, closed, now, sent, wire>>

(* The closure runs on its lane: it refuses a TTL, or the command is       *)
(* handed over, to be given up by the pool or before that by the driver.   *)
HandOver(budget) ==
  /\ sent' = now
  /\ \/ /\ call.args = "bad"
        /\ Fails("Config", "final")
        /\ UNCHANGED pending
     \/ /\ call.args # "bad"
        /\ WaitIn("running", Less(budget, response_timeout))
        /\ pending' = pending \cup {attempt}
        /\ UNCHANGED outcome

(* A lane is free.  The pool may be closed by now; otherwise the closure   *)
(* runs unless the wait used up the call_deadline.                         *)
GetLane ==
  /\ pc = "queued"
  /\ \/ closed /\ Errs("Connection") /\ UNCHANGED <<pending, sent>>
     \/ /\ ~closed /\ CommandBudget(now - began) = 0
        /\ Errs("Timeout")
        /\ UNCHANGED <<pending, sent>>
     \/ /\ ~closed /\ CommandBudget(now - began) > 0
        /\ HandOver(CommandBudget(now - began))
  /\ UNCHANGED <<call, closed, now, attempt, began, done>>

(* The driver's timer is the earlier one. *)
CutShort == call.op \in Blocking /\ BlockingBudget > response_timeout

(* The errors of a wait that is over, by whose timer it was.  When pool    *)
(* and driver have the same budget, either may be seen first.              *)
GivenUp ==
  IF pc = "queued" \/ due < sent + response_timeout THEN {"Timeout"}
  ELSE IF CutShort THEN {map_redis_error("IoError", {})}
  ELSE {"Timeout", map_redis_error("IoError", {})}

(* Bug: the wait for a lane has no timer. *)
TimeOut_CommandOnly ==
  /\ pc = "running" /\ now = due
  /\ Errs("Timeout")
  /\ UNCHANGED <<call, closed, now, attempt, began, sent, wire>>

(* The timer of acquire_with_timeout or of run_timed fires, or the         *)
(* driver's, an I/O error.  A command that was handed over is not taken    *)
(* back.                                                                   *)
TimeOut ==
  /\ pc \in {"queued", "running"} /\ now = due
  /\ \E e \in GivenUp : Errs(e)
  /\ UNCHANGED <<call, closed, now, attempt, began, sent, wire>>

(* The server has blocked for as long as it was asked to. *)
NothingCame ==
  /\ pc = "running" /\ call.op \in Blocking /\ attempt \in pending
  /\ now >= sent + ServerBlock
  /\ pending' = pending \ {attempt}
  /\ WaitIn("ok", 0)
  /\ UNCHANGED <<call, closed, now, attempt, began, sent, outcome, done>>

(* The server executes a command, be its caller waiting or not. *)
Execute ==
  \E a \in pending :
    /\ pending' = pending \ {a}
    /\ done' = done \cup {a}
    /\ UNCHANGED <<call, closed, now, pc, due, attempt, began, sent, outcome>>

Reply ==
  /\ pc = "running" /\ attempt \in done
  /\ WaitIn("ok", 0)
  /\ UNCHANGED <<call, closed, now, attempt, began, sent, outcome, wire>>

(* Errors a server answers with instead of executing the command: those    *)
(* that pass, and those that do not.  Either may come as an error code the *)
(* driver has no kind for; what is wrong for good may be told in any text: *)
(* a missing permission names the user and the key, whatever their names.  *)
Coded(words) == {"ResponseError", "ExtensionError"} \X words

Kinds(kinds) == kinds \X {{}}

Passing ==
  Kinds({"BusyLoadingError", "TryAgain", "Moved", "Ask", "ClusterDown", "MasterDown"})
    \cup Coded({{"LOADING"}, {"TRYAGAIN"}})
    \cup IF call.op \in Reads THEN {}
         ELSE Kinds({"ReadOnly"}) \cup Coded({{"READONLY"}})

Lasting ==
  Coded(SUBSET Words) \cup Kinds({"AuthenticationFailed"})
    \cup (IF call.op \in ManyKeys THEN Kinds({"CrossSlot"}) ELSE {})
    \cup (IF call.op \in Transactions THEN Kinds({"ExecAbortError"}) ELSE {})
    \cup IF call.op \in {"EvalScript", "EvalSha"} THEN Kinds({"NoScriptError"}) ELSE {}

(* Answers that pass for a node that is not ready, has moved or is a       *)
(* replica: CROSSSLOT, which the table counts among the redirections, and  *)
(* texts that speak of such a node and not, before that, of a password.    *)
LooksPassing(kind, words) ==
  \/ kind = "CrossSlot"
  \/ Has(words, {"LOADING", "TRYAGAIN"})
  \/ "READONLY" \in words /\ ~Has(words, {"NOAUTH", "WRONGPASS"})

Refused ==
  /\ pc = "running" /\ attempt \in pending
  /\ pending' = pending \ {attempt}
  /\ \/ \E a \in Passing : Errs(map_redis_error(a[1], a[2]))
     \/ \E a \in Lasting :
          Fails(map_redis_error(a[1], a[2]),
                IF LooksPassing(a[1], a[2]) THEN "disguised" ELSE "final")
  /\ UNCHANGED <<call, closed, now, attempt, began, sent, done>>

(* Some other task closes the pool. *)
Close ==
  /\ closed' = TRUE
  /\ UNCHANGED <<call, now, pc, due, attempt, began, sent, outcome, wire>>

(* The command was executed, and its reply is no value: TTL of a key that  *)
(* does not exist, or a reply that cannot be read.                         *)
BadReply ==
  /\ pc = "running" /\ attempt \in done
  /\ \/ Fails(map_redis_error("TypeError", {}), "final")
     \/ call.op = "Ttl" /\ Fails("Missing", "final")
  /\ UNCHANGED <<call, closed, now, attempt, began, sent, wire>>

(* The connection breaks, before or after the command was executed. *)
Broken ==
  /\ pc = "running"
  /\ Errs(map_redis_error("IoError", {}))
  /\ UNCHANGED <<call, closed, now, attempt, began, sent, wire>>

-----------------------------------------------------------------------------
(* The retry loop. *)

Return(e) ==
  /\ error' = e
  /\ UNCHANGED verdict
  /\ WaitIn("err", 0)

(* Return the error, or go on. *)
Decide ==
  /\ pc = "failed"
  /\ \/ /\ ~Routed \/ ~is_retryable(error) \/ ~should_continue(attempt, now)
        /\ Return(error)
     \/ /\ Routed /\ is_retryable(error) /\ should_continue(attempt, now)
        /\ WaitIn("pausing", Gap)
        /\ UNCHANGED outcome
  /\ UNCHANGED <<call, closed, now, attempt, began, sent, wire>>

(* The clock is read again: the deadline may be over by now. *)
Pause ==
  /\ pc = "pausing"
  /\ \/ /\ \E d \in call.deadline : now >= d
        /\ Return("Timeout")
     \/ /\ \A d \in call.deadline : now < d
        /\ \E b \in Pauses(attempt, now) : WaitIn("asleep", b)
        /\ UNCHANGED outcome
  /\ UNCHANGED <<call, closed, now, attempt, began, sent, wire>>

Wake ==
  /\ pc = "asleep" /\ now = due
  /\ WaitIn("start", 0)
  /\ UNCHANGED <<call, closed, now, attempt, began, sent, outcome, wire>>

Tick ==
  /\ now < due
  /\ now' = now + 1
  /\ UNCHANGED <<call, closed, pc, due, attempt, began, sent, outcome, wire>>

Advance ==
  ReturnEarly \/ BeginAttempt \/ GetLane \/ TimeOut \/ NothingCame \/ Reply \/ Refused
  \/ BadReply \/ Broken \/ Decide \/ Pause \/ Wake

Next == Advance \/ Execute \/ Close \/ Tick

Spec == Init /\ [][Next]_vars

(* Time passes, and the task is polled when a timer of its own is due; no  *)
(* lane need become free and no server need answer.                        *)
FairSpec ==
  Spec /\ WF_vars(Tick) /\ WF_vars(ReturnEarly) /\ WF_vars(BeginAttempt) 
       /\ WF_vars(TimeOut) /\ WF_vars(Decide) /\ WF_vars(Pause) /\ WF_vars(Wake)

-----------------------------------------------------------------------------
(* The longest an attempt takes, and how many there may be. *)
AttemptBudget ==
  IF Total = {} THEN acquire_timeout + OwnBudget ELSE Value(Total)

Attempts == IF Routed THEN max_attempts ELSE 1

(* Every variable has its type, and no wait is overdue. *)
TypeOK ==
  /\ call \in Calls /\ closed \in BOOLEAN
  /\ now \in Nat /\ pc \in Pcs /\ due \in Nat /\ now <= due
  /\ attempt \in Nat /\ began \in 0..now /\ sent \in 0..now
  /\ error \in Errors \cup {"None"} /\ verdict \in Verdicts
  /\ pending \subseteq 1..attempt /\ done \subseteq 1..attempt
  /\ pending \cap done = {}

(* A write is handed to the server at most once per call, so a lost reply  *)
(* never leads to a second execution, whatever the retry configuration     *)
(* (the AmbiguousWrite and NeverAutomatic classes of resilience.rs).       *)
WritesOnce == call.op \notin Reads => Cardinality(pending \cup done) <= 1

(* Waiting for a lane and the command together never outlast the           *)
(* call_deadline in one attempt, however long the wait for the lane was    *)
(* (execute_with_total_deadline).                                          *)
AttemptWithinTotal ==
  \A t \in Total :
    pc \in {"queued", "running"} => due <= began + t

(* How long a call takes: its attempts, each under its own budgets or the  *)
(* call_deadline, and the pauses between them (with_retry, run_timed).     *)
EndsWithinAttempts ==
  now <= Attempts * AttemptBudget + (Attempts - 1) * (max_backoff + Gap)

(* With a retry deadline a call takes at most one attempt longer than it,  *)
(* since no pause leads past it (the clipping of the backoff in            *)
(* with_retry).                                                            *)
EndsNearDeadline ==
  Routed => \A d \in call.deadline : now <= d + More(AttemptBudget, Gap)

(* Both bounds on the length of a call.                                    *)
EndsInTime == EndsWithinAttempts /\ EndsNearDeadline

(* A retried call gives up before its attempts and its deadline are spent  *)
(* only for an error no other attempt can cure: a server that is loading,  *)
(* moving or gone is asked again.  For such an error - bad arguments, a    *)
(* missing permission, a missing key, a reply that makes no sense - it     *)
(* gives up at once, unless the error looks like one that passes: MGET of  *)
(* keys in several slots, and a refusal with LOADING, TRYAGAIN or READONLY *)
(* somewhere in its text, is asked again in vain.  Nothing is asked more   *)
(* than max_attempts times (with_retry, map_redis_error, map_textual).     *)
BudgetSpent ==
  /\ attempt <= Attempts
  /\ (pc = "err" /\ Routed /\ verdict # "final") =>
       attempt = max_attempts \/ \E d \in call.deadline : now >= d
  /\ verdict = "final" => pc \in {"failed", "err"}

(* Every call returns, even if no lane is ever free and no server answers. *)
Returns == <>(pc \in {"ok", "err"})

-----------------------------------------------------------------------------
(* Statements of the documentation that the code does not keep. *)

(* resilience.rs on with_retry: when the deadline is used up, the call     *)
(* returns Timeout.                                                        *)
DeadlineYieldsTimeout ==
  pc = "err" /\ Routed /\ is_retryable(error) /\ attempt < max_attempts
    => error = "Timeout"

(* structures.rs on blpop, streams.rs on xread_block: the budget of        *)
(* max(command_timeout, block + 1s) keeps the command timeout out of the   *)
(* way, so no timer ends a blocking command before the server does.        *)
BlockFits ==
  pc = "running" /\ call.op \in Blocking => due >= sent + ServerBlock
=============================================================================
