------------------------------ MODULE RedisPool ------------------------------
(***************************************************************************)
(* The lane pool of redisx (src/src/pool.rs, pool/lifecycle.rs,            *)
(* pool/permit.rs): a semaphore of max_in_flight permits in front of one   *)
(* multiplexed connection, the `closed' flag, the `in_flight' and          *)
(* `waiters' counters and the metrics, as seen by concurrent tasks.        *)
(*                                                                         *)
(* One action is one atomic access of the shared state together with the   *)
(* task-local code around it, so the places where the code reads a value   *)
(* and acts on it later (the second closed check and the increment of      *)
(* in_flight, the decrement of in_flight and the release of the permit)    *)
(* are separate steps.  Atomics are taken to be sequentially consistent.   *)
(* Timers are nondeterministic: any wait with a timeout may end by it.     *)
(***************************************************************************)
EXTENDS Naturals, FiniteSets

CONSTANTS
  Tasks,        \* concurrent callers
  PermitUsers,  \* those that call acquire() and keep the RedisPoolPermit;
                \* the others use calls that take and drop a permit themselves
  Closers,      \* tasks that call close(deadline)
  Lanes,        \* max_in_flight
  MaxCalls,     \* bound: acquisitions started, over all tasks
  MaxCommands   \* bound: a permit user begins no command beyond this many

ASSUME PoolAssumption ==
  /\ IsFiniteSet(Tasks)
  /\ PermitUsers \subseteq Tasks
  /\ Lanes \in Nat \ {0}        \* RedisConfig::validate refuses 0
  /\ MaxCalls \in Nat
  /\ MaxCommands \in Nat

VARIABLES
  backend,    \* PoolInner.backend.is_some(): connect() rather than new()
  closed,     \* PoolInner.closed
  available,  \* free permits of PoolInner.sem
  queue,      \* tasks whose Acquire future is linked in the semaphore's queue
  granted,    \* queued tasks that were handed a permit and have not polled yet
  in_flight,  \* PoolInner.in_flight
  waiters,    \* PoolInner.waiters
  metrics,    \* the counters of metrics_snapshot()
  pc,         \* where each task is in acquire / run_timed / drop
  closer,     \* where each closer is in close()
  hist        \* history: what happened, to compare the counters with

vars == <<backend, closed, available, queue, granted, in_flight, waiters,
          metrics, pc, closer, hist>>

semaphore == <<available, queue, granted>>

Pooled == Tasks \ PermitUsers

Pcs ==
  { "idle",       \* in no call of the pool
    "entered",    \* passed the first closed check
    "waiting",    \* suspended in timeout(budget, acquire_owned())
    "expired",    \* the timer won the poll; the Acquire future still exists
    "got",        \* owns a semaphore permit, still counted as a waiter
    "refused",    \* second closed check failed; permit not yet dropped
    "admitted",   \* second closed check passed; in_flight not yet incremented
    "holding",    \* owns a RedisPoolPermit, no command running
    "running",    \* suspended in timeout(budget, command)
    "served",     \* its RedisPoolPermit is about to be dropped
    "releasing" } \* in_flight decremented; semaphore permit not yet returned

Acquiring == {"entered", "waiting", "expired", "got", "refused", "admitted"}

(* Program points at which a call is counted in waiters, at which the task *)
(* itself owns a semaphore permit, and at which it is counted in in_flight.*)
WaiterPcs  == {"waiting", "expired", "got"}
OwnerPcs   == {"got", "refused", "admitted", "holding", "running", "served",
               "releasing"}
CountedPcs == {"holding", "running", "served"}

At(where)  == {t \in Tasks : pc[t] \in where}
Owners     == At(OwnerPcs) \cup granted

Metrics == [commands_ok : Nat, commands_err : Nat, commands_timeout : Nat,
            acquire_timeout : Nat, rejected_closed : Nat]

History == [calls : Nat,        \* acquisitions started
            unconnected : Nat,  \* of them, failed for want of a backend
            abandoned : Nat,    \* of them, whose future was dropped in the queue
            issued : Nat,       \* of them, that returned a permit
            late : Nat,         \* of the issued, after closed was stored
            begun : Nat,        \* commands started
            dropped : Nat]      \* of them, whose future was dropped

Goto(t, where) == pc' = [pc EXCEPT ![t] = where]

Init ==
  /\ backend \in BOOLEAN
  /\ closed = FALSE
  /\ available = Lanes
  /\ queue = {}
  /\ granted = {}
  /\ in_flight = 0
  /\ waiters = 0
  /\ metrics = [commands_ok |-> 0, commands_err |-> 0, commands_timeout |-> 0,
                acquire_timeout |-> 0, rejected_closed |-> 0]
  /\ pc = [t \in Tasks |-> "idle"]
  /\ closer = [c \in Closers |-> "idle"]
  /\ hist = [calls |-> 0, unconnected |-> 0, abandoned |-> 0, issued |-> 0,
             late |-> 0, begun |-> 0, dropped |-> 0]

-----------------------------------------------------------------------------
(* An operator whose name has an underscore is a plausible bug in the      *)
(* operator it is named after: PROJECT.json swaps them to show that the    *)
(* properties notice.  No action of this module uses one.                  *)

(* tokio's Semaphore, as far as the pool depends on it.  A returned permit *)
(* goes straight to a queued Acquire future when there is one.  tokio      *)
(* picks the oldest; here any may be picked, which allows strictly more.   *)
GiveBack(q, g) ==
  \/ \E u \in q : /\ queue' = q \ {u}
                  /\ granted' = g \cup {u}
                  /\ UNCHANGED available
  \/ /\ q = {}
     /\ queue' = q
     /\ granted' = g
     /\ available' = available + 1

(* Dropping an Acquire future unlinks it, or returns the permit it was     *)
(* handed before it could be polled again.                                 *)
DropAcquire(t) ==
  \/ /\ t \in queue
     /\ queue' = queue \ {t}
     /\ UNCHANGED <<available, granted>>
  \/ /\ t \in granted
     /\ GiveBack(queue, granted \ {t})

(* First poll of acquire_owned(): take a free permit or join the queue.    *)
PollAcquire(t) ==
  \/ /\ available > 0
     /\ available' = available - 1
     /\ Goto(t, "got")
     /\ UNCHANGED <<queue, granted>>
  \/ /\ available = 0
     /\ queue' = queue \cup {t}
     /\ Goto(t, "waiting")
     /\ UNCHANGED <<available, granted>>
-----------------------------------------------------------------------------
(* acquire_with_timeout up to the waiters counter.  The zero-budget branch *)
(* is dead: validate() refuses a zero acquire_timeout and                  *)
(* with_conn_total_deadline a zero total.                                  *)
Enter(t) ==
  /\ pc[t] = "idle"
  /\ hist.calls < MaxCalls
  /\ \/ /\ closed
        /\ metrics' = [metrics EXCEPT !.rejected_closed = @ + 1]
        /\ hist' = [hist EXCEPT !.calls = @ + 1]
        /\ UNCHANGED pc
     \/ /\ ~closed
        /\ ~backend
        /\ hist' = [hist EXCEPT !.calls = @ + 1, !.unconnected = @ + 1]
        /\ UNCHANGED <<metrics, pc>>
     \/ /\ ~closed
        /\ backend
        /\ hist' = [hist EXCEPT !.calls = @ + 1]
        /\ Goto(t, "entered")
        /\ UNCHANGED metrics
  /\ UNCHANGED <<backend, closed, semaphore, in_flight, waiters, closer>>

(* waiters.fetch_add, then the first poll of timeout(budget, acquire).     *)
Register(t) ==
  /\ pc[t] = "entered"
  /\ waiters' = waiters + 1
  /\ PollAcquire(t)
  /\ UNCHANGED <<backend, closed, in_flight, metrics, closer, hist>>

(* The task is woken by its grant.  timeout() polls the future before the  *)
(* timer, so a grant wins even when the budget has run out as well.        *)
Wake(t) ==
  /\ pc[t] = "waiting"
  /\ t \in granted
  /\ granted' = granted \ {t}
  /\ Goto(t, "got")
  /\ UNCHANGED <<backend, closed, available, queue, in_flight, waiters,
                 metrics, closer, hist>>

(* Bug: acquire_owned() is awaited without a timeout.                      *)
Expire_Never(t) == FALSE

(* Bug: the waiters gauge is already decremented when the timer fires.     *)
Expire_Decrements(t) ==
  /\ pc[t] = "waiting"
  /\ t \in queue
  /\ waiters' = waiters - 1
  /\ Goto(t, "expired")
  /\ UNCHANGED <<backend, closed, semaphore, in_flight, metrics, closer, hist>>

(* The task is woken by the timer and finds no permit.                     *)
Expire(t) ==
  /\ pc[t] = "waiting"
  /\ t \in queue
  /\ Goto(t, "expired")
  /\ UNCHANGED <<backend, closed, semaphore, in_flight, waiters, metrics,
                 closer, hist>>

(* Bug: the error is returned before waiters is decremented.               *)
Lapse_KeepsWaiter(t) ==
  /\ pc[t] = "expired"
  /\ DropAcquire(t)
  /\ metrics' = [metrics EXCEPT !.acquire_timeout = @ + 1]
  /\ Goto(t, "idle")
  /\ UNCHANGED <<backend, closed, in_flight, waiters, closer, hist>>

(* The Timeout future is dropped at the end of the statement, possibly     *)
(* after a permit was handed to it; then waiters and the metric.           *)
Lapse(t) ==
  /\ pc[t] = "expired"
  /\ DropAcquire(t)
  /\ waiters' = waiters - 1
  /\ metrics' = [metrics EXCEPT !.acquire_timeout = @ + 1]
  /\ Goto(t, "idle")
  /\ UNCHANGED <<backend, closed, in_flight, closer, hist>>

(* Bug: there is no second closed check.                                   *)
Recheck_Skipped(t) ==
  /\ pc[t] = "got"
  /\ waiters' = waiters - 1
  /\ Goto(t, "admitted")
  /\ UNCHANGED <<backend, closed, semaphore, in_flight, metrics, closer, hist>>

(* waiters.fetch_sub and the second closed check.                          *)
Recheck(t) ==
  /\ pc[t] = "got"
  /\ waiters' = waiters - 1
  /\ Goto(t, IF closed THEN "refused" ELSE "admitted")
  /\ UNCHANGED <<backend, closed, semaphore, in_flight, metrics, closer, hist>>

(* Bug: the second rejection is not counted.                               *)
Refuse_Uncounted(t) ==
  /\ pc[t] = "refused"
  /\ GiveBack(queue, granted)
  /\ Goto(t, "idle")
  /\ UNCHANGED <<backend, closed, in_flight, waiters, metrics, closer, hist>>

(* Bug: the rejected call does not return its semaphore permit.            *)
Refuse_Forgets(t) ==
  /\ pc[t] = "refused"
  /\ metrics' = [metrics EXCEPT !.rejected_closed = @ + 1]
  /\ Goto(t, "idle")
  /\ UNCHANGED <<backend, closed, semaphore, in_flight, waiters, closer, hist>>

(* drop(permit) and the rejection.                                         *)
Refuse(t) ==
  /\ pc[t] = "refused"
  /\ GiveBack(queue, granted)
  /\ metrics' = [metrics EXCEPT !.rejected_closed = @ + 1]
  /\ Goto(t, "idle")
  /\ UNCHANGED <<backend, closed, in_flight, waiters, closer, hist>>

(* in_flight.fetch_add; the caller has its RedisPoolPermit.                *)
Admit(t) ==
  /\ pc[t] = "admitted"
  /\ in_flight' = in_flight + 1
  /\ hist' = [hist EXCEPT !.issued = @ + 1,
                          !.late = @ + IF closed THEN 1 ELSE 0]
  /\ Goto(t, "holding")
  /\ UNCHANGED <<backend, closed, semaphore, waiters, metrics, closer>>

(* The caller drops the acquire future while it is suspended: no code      *)
(* after the await runs, so waiters keeps its increment.                   *)
CancelAcquire(t) ==
  /\ pc[t] = "waiting"
  /\ DropAcquire(t)
  /\ hist' = [hist EXCEPT !.abandoned = @ + 1]
  /\ Goto(t, "idle")
  /\ UNCHANGED <<backend, closed, in_flight, waiters, metrics, closer>>
-----------------------------------------------------------------------------
(* run_timed: a command starts on the lane.  It does not look at closed.   *)
(* Only permit users need the bound: a pooled call begins one command.     *)
Begin(t) ==
  /\ pc[t] = "holding"
  /\ t \in PermitUsers => hist.begun < MaxCommands
  /\ hist' = [hist EXCEPT !.begun = @ + 1]
  /\ Goto(t, "running")
  /\ UNCHANGED <<backend, closed, semaphore, in_flight, waiters, metrics,
                 closer>>

(* Bug: a deadline used up in the queue is not counted.                    *)
NoBudget_Uncounted(t) ==
  /\ t \in Pooled
  /\ pc[t] = "holding"
  /\ hist' = [hist EXCEPT !.begun = @ + 1]
  /\ Goto(t, "served")
  /\ UNCHANGED <<backend, closed, semaphore, in_flight, waiters, metrics,
                 closer>>

(* execute_with_total_deadline: the queue used up the caller's deadline,   *)
(* counted as a command timeout although no command is sent.               *)
NoBudget(t) ==
  /\ t \in Pooled
  /\ pc[t] = "holding"
  /\ hist' = [hist EXCEPT !.begun = @ + 1]
  /\ metrics' = [metrics EXCEPT !.commands_timeout = @ + 1]
  /\ Goto(t, "served")
  /\ UNCHANGED <<backend, closed, semaphore, in_flight, waiters, closer>>

(* A pooled call drops its permit after its one command; a permit user     *)
(* goes on holding it.                                                     *)
AfterCommand(t) == Goto(t, IF t \in Pooled THEN "served" ELSE "holding")

(* The command's future completes, with a value or an error.               *)
Reply(t) ==
  /\ pc[t] = "running"
  /\ \/ metrics' = [metrics EXCEPT !.commands_ok = @ + 1]
     \/ metrics' = [metrics EXCEPT !.commands_err = @ + 1]
  /\ AfterCommand(t)
  /\ UNCHANGED <<backend, closed, semaphore, in_flight, waiters, closer, hist>>

(* Bug: the command is awaited without a timeout.                          *)
CommandTimeout_Never(t) == FALSE

(* The command's budget runs out; its future is dropped.                   *)
CommandTimeout(t) ==
  /\ pc[t] = "running"
  /\ metrics' = [metrics EXCEPT !.commands_timeout = @ + 1]
  /\ AfterCommand(t)
  /\ UNCHANGED <<backend, closed, semaphore, in_flight, waiters, closer, hist>>

(* Bug: in_flight is decremented after the await instead of by a Drop, so  *)
(* a dropped call leaves it incremented.                                   *)
CancelCommand_LeaksInFlight(t) ==
  /\ pc[t] = "running"
  /\ hist' = [hist EXCEPT !.dropped = @ + 1]
  /\ Goto(t, IF t \in Pooled THEN "releasing" ELSE "holding")
  /\ UNCHANGED <<backend, closed, semaphore, in_flight, waiters, metrics,
                 closer>>

(* The caller drops the command's future; no outcome is counted.           *)
CancelCommand(t) ==
  /\ pc[t] = "running"
  /\ hist' = [hist EXCEPT !.dropped = @ + 1]
  /\ AfterCommand(t)
  /\ UNCHANGED <<backend, closed, semaphore, in_flight, waiters, metrics,
                 closer>>

(* RedisPoolPermit::drop: in_flight first ...                              *)
DropPermit(t) ==
  /\ \/ pc[t] = "served"
     \/ t \in PermitUsers /\ pc[t] = "holding"
  /\ in_flight' = in_flight - 1
  /\ Goto(t, "releasing")
  /\ UNCHANGED <<backend, closed, semaphore, waiters, metrics, closer, hist>>

(* Bug: the semaphore permit is forgotten.                                 *)
Release_Forgets(t) ==
  /\ pc[t] = "releasing"
  /\ Goto(t, "idle")
  /\ UNCHANGED <<backend, closed, semaphore, in_flight, waiters, metrics,
                 closer, hist>>

(* ... then its field, the semaphore permit.                               *)
Release(t) ==
  /\ pc[t] = "releasing"
  /\ GiveBack(queue, granted)
  /\ Goto(t, "idle")
  /\ UNCHANGED <<backend, closed, in_flight, waiters, metrics, closer, hist>>
-----------------------------------------------------------------------------
taskVars == <<available, queue, granted, in_flight, waiters, metrics, pc, hist>>

(* close(): the flag is stored before in_flight is first read.             *)
Close(c) ==
  /\ closer[c] # "draining"
  /\ closed' = TRUE
  /\ closer' = [closer EXCEPT ![c] = "draining"]
  /\ UNCHANGED <<backend, taskVars>>

(* One turn of the draining loop that ends it: nothing in flight, or the   *)
(* deadline is over.  A turn that sleeps 5 ms and retries is a stutter.    *)
CloseReturns(c) ==
  /\ closer[c] = "draining"
  /\ \/ in_flight = 0 /\ closer' = [closer EXCEPT ![c] = "ok"]
     \/ in_flight # 0 /\ closer' = [closer EXCEPT ![c] = "timeout"]
  /\ UNCHANGED <<backend, closed, taskVars>>

(* The future of close() is dropped while it sleeps; the pool stays closed.*)
CancelClose(c) ==
  /\ closer[c] = "draining"
  /\ closer' = [closer EXCEPT ![c] = "idle"]
  /\ UNCHANGED <<backend, closed, taskVars>>
-----------------------------------------------------------------------------
TaskStep(t) ==
  \/ Enter(t) \/ Register(t) \/ Wake(t) \/ Expire(t) \/ Lapse(t)
  \/ Recheck(t) \/ Refuse(t) \/ Admit(t) \/ CancelAcquire(t)
  \/ Begin(t) \/ NoBudget(t) \/ Reply(t) \/ CommandTimeout(t)
  \/ CancelCommand(t) \/ DropPermit(t) \/ Release(t)

Next ==
  \/ \E t \in Tasks : TaskStep(t)
  \/ \E c \in Closers : Close(c) \/ CloseReturns(c) \/ CancelClose(c)

Spec == Init /\ [][Next]_vars

(* What the runtime does by itself once a task is ready or a timer is due. *)
(* The environment owes nothing: no call has to be made, no server has to  *)
(* reply, and a permit user may keep its permit for ever.                  *)
Scheduled(t) ==
  \/ Register(t) \/ Wake(t) \/ Expire(t) \/ Lapse(t) \/ Recheck(t)
  \/ Refuse(t) \/ Admit(t) \/ CommandTimeout(t) \/ Release(t)
  \/ t \in Pooled /\ (Begin(t) \/ NoBudget(t) \/ DropPermit(t))

Fairness == /\ \A t \in Tasks : WF_vars(Scheduled(t))
            /\ \A c \in Closers : WF_vars(CloseReturns(c))

FairSpec == Spec /\ Fairness
-----------------------------------------------------------------------------
(* Every variable has its type: in_flight and waiters, unsigned in the     *)
(* code, never go below zero, and the semaphore never holds more permits   *)
(* than it was created with (lifecycle.rs:91, 132-143, pool.rs:125-129).   *)
TypeOK ==
  /\ backend \in BOOLEAN
  /\ closed \in BOOLEAN
  /\ available \in 0..Lanes
  /\ queue \subseteq Tasks
  /\ granted \subseteq Tasks
  /\ in_flight \in Nat
  /\ waiters \in Nat
  /\ metrics \in Metrics
  /\ pc \in [Tasks -> Pcs]
  /\ closer \in [Closers -> {"idle", "draining", "ok", "timeout"}]
  /\ hist \in History

(* The queue and the grants belong to suspended acquisitions, one each.    *)
QueueConsistent ==
  /\ queue \cap granted = {}
  /\ queue \cup granted = At({"waiting", "expired"})

(* No permit of the semaphore is lost or duplicated, whichever of grant,   *)
(* timeout, cancellation, refusal and drop meet: lifecycle.rs:133-159 and  *)
(* pool.rs:125-129.                                                        *)
LaneConservation == available + Cardinality(Owners) = Lanes

(* A call is queued only while every lane is owned by somebody who will    *)
(* return it, so no wake-up is lost between a grant and the drop of the    *)
(* future it was made to (lifecycle.rs:133).                               *)
QueuedMeansSaturated == queue # {} => Cardinality(Owners) = Lanes

(* in_flight is the number of live RedisPoolPermits, and since the counter *)
(* goes up after the semaphore permit is taken and down before it is       *)
(* returned (lifecycle.rs:143, pool.rs:125-129), it never exceeds          *)
(* max_in_flight, even transiently.                                        *)
InFlightExact == /\ in_flight = Cardinality(At(CountedPcs))
                 /\ in_flight <= Lanes

(* close() cuts the queue off: of the calls not admitted when closed was   *)
(* stored, none gets a permit, so at most max_in_flight permits are issued *)
(* afterwards however many calls were queued (lifecycle.rs:138-142).       *)
StragglersBounded ==
  /\ ~closed => hist.late = 0
  /\ closed => hist.late + Cardinality(At({"admitted"})) <= Lanes

(* How the acquisitions that are over ended, and the commands likewise.    *)
Resolved == hist.issued + hist.unconnected + hist.abandoned
            + metrics.rejected_closed + metrics.acquire_timeout

Finished == hist.dropped + metrics.commands_ok + metrics.commands_err
            + metrics.commands_timeout

(* Every acquisition that is over was counted once, as a permit, a         *)
(* rejection, a timeout, or not at all when there was no backend or the    *)
(* future was dropped (lifecycle.rs:110-159).                              *)
AcquireAccounted == hist.calls = Cardinality(At(Acquiring)) + Resolved

(* Every command begun is running, was counted under exactly one outcome,  *)
(* or had its future dropped (permit.rs:184-235).                          *)
CommandsAccounted == hist.begun = Cardinality(At({"running"})) + Finished

(* The waiters gauge is the number of calls in the queue plus one for each *)
(* acquisition ever dropped there (lifecycle.rs:132-134).                  *)
WaitersDrift ==
  waiters = Cardinality(At(WaiterPcs)) + hist.abandoned

(* The documented meaning of the gauge (pool.rs:33): the number of calls   *)
(* waiting in acquire.  The code drifts from it: lifecycle.rs:132-134.     *)
WaitersExact == waiters = Cardinality(At(WaiterPcs))

(* The documented meaning of Ok from close (pool.rs:331-335): nothing is   *)
(* in flight any more.  The code lets an admitted call through afterwards: *)
(* lifecycle.rs:138-143 against pool.rs:337-343.                           *)
CloseOkMeansDrained ==
  \A c \in Closers : closer[c] = "ok" => in_flight = 0

(* What the gate promises its callers, seen from the second closed check:  *)
(* it is the step that lets a call in.                                     *)
Gate == INSTANCE LaneGate
          WITH inside <- At({"admitted", "holding", "running", "served"})

ImplementsLaneGate == Gate!Spec

(* Every acquisition is resolved by a permit or an error, even if permit   *)
(* users never return theirs: the acquire timer (lifecycle.rs:133) breaks  *)
(* every wait, a nested acquire on a saturated pool included.              *)
AcquireResolves ==
  \A t \in Tasks : pc[t] \in Acquiring ~> pc[t] \in {"idle", "holding"}

(* A pooled call returns although the server never answers: both waits in  *)
(* it are timed (lifecycle.rs:133, permit.rs:217) and its lane is returned.*)
PooledCallReturns ==
  \A t \in Pooled : pc[t] = "holding" ~> pc[t] = "idle"
=============================================================================
