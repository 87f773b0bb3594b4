# A verification development for redisx

redisx is an asynchronous Redis adapter: one multiplexed connection (or a
cluster connection) behind a semaphore of "lanes", commands with budgets and
deadlines, a retry loop that knows which commands may be repeated, and helpers
for scripts, locks, streams and Pub/Sub. This directory holds TLA+ models of its
concurrent and timed parts and of the way from a configuration to a connection,
what TLC checks about them, and what TLAPS proves.
Line numbers refer to the sources at the commit beside this directory; `ext.rs:315`
means line 315 of `src/src/ext.rs`.

## The system

| part | state | operations | hard because |
|---|---|---|---|
| lane pool (`pool.rs`, `pool/lifecycle.rs`, `pool/permit.rs`) | semaphore, `closed`, `in_flight`, `waiters`, five metrics, the backend | `acquire`, pooled calls (`run`, `run_total`), commands on a permit, permit drop, `close`, reads of the counters | any task interleaves between two atomics; every await may time out or its future be dropped; close races with admission |
| the shared connection (`pool.rs` `backend`, `pool/permit.rs` `run_timed`) | the commands on it, in order; the driver's connection state | one clone per lane | a blocking command holds up all others; a command outlives its caller; the connection breaks and is made anew |
| client calls (`client.rs`, `resilience.rs`) | none shared; per call the attempt, the clock readings, the budgets | routing by `RedisRetrySafety`, `with_retry`, `with_pool_conn` | four nested time limits; a lost reply leaves the outcome unknown |
| distributed lock (`ext.rs`) | at the server: lock key with expiry, fencing counter; at the client: token and fence | `lock_acquire` (two commands), `lock_extend`, `lock_release` | expiry between the commands, calls that fail after their command ran, commands that run after their call failed |
| scripts, pipelines, transactions (`ext.rs`, `transaction.rs`) | none | `eval_script`, `script_load_and_eval`, `eval_sha`, `pipeline_set`, `multi_exec`, `multi_set` | two-command sequences, partial failure |
| blocking commands (`structures.rs`, `streams.rs`) | none | `blpop`, `xread_block` | the driver's timeout is shorter than the block; an element may be popped for a caller that is gone |
| Pub/Sub (`pubsub.rs`) | a publish connection and a subscribed stream | connect, publish, the two stream forms | partial subscription, one error at the end of the stream |
| connecting (`pool/connect.rs`, `pool/backend.rs`, `pool/lifecycle.rs:29-52`) | none | three topologies, `SETNAME`, warm-up | several timers in sequence |
| errors (`error.rs`, `error_map.rs`) | none | driver error to `RedisError`, `is_retryable` | the classes decide what is retried |
| configuration (`config.rs`, `config/`) | values | parsing, `validate`, redaction | limits that other parts rely on |
| key-value, hash, list, set, stream commands (`pool/kv.rs`, `structures.rs`, `streams.rs`) | none | one command each | TTL conversions |

How they interact: `RedisClient` routes every command through `route_with_safety`,
which calls a closure once or under `with_retry`; the closure takes a lane of the
pool (`run`, or `run_total` when a call deadline is set), and `run_timed` awaits the
command under its budget. `RedisPool::acquire` hands the lane itself to the
caller. The lock helpers use the same path without retries. Pub/Sub has
connections of its own. All of it shares one connection, so a command whose future
is dropped may still be executed.

What makes each part correct:

- pool: no permit is lost or duplicated; `in_flight` counts live permits and
  stays within `max_in_flight`; every wait ends; after `close` nobody is let in
  beyond those already admitted; each call is counted once;
- client calls: a write is handed over at most once; attempts, pauses and budgets
  keep to the configured times; a call returns;
- shared connection: no call takes effect twice, the calls of one caller take effect in
  order, a result says what happened, and every call ends whatever is in front of it;
- Pub/Sub: the stream gives what the server sent, without a gap, and the one error
  after it; a session hears what it publishes;
- connecting: the configured protection reaches every address that is dialled; what
  cannot work is refused before; a call that fails leaves nothing open; set-up that is
  best effort does no harm;
- lock: an owner that watches its TTL is alone; nobody frees the lock of another;
  fences are never reused; an abandoned lock becomes free.

## Modules

| module | what it is |
|---|---|
| `RedisPool` | the pool as concurrent tasks see it |
| `LaneGate` | the abstract gate the pool implements: at most `Lanes` callers inside, nobody let in once it is shut |
| `RedisPool_proofs` | theorems about `RedisPool` |
| `RedisCall` | one client call against the clock, over `RedisErrors` |
| `RedisCall_proofs` | theorems about `RedisCall` |
| `RedisErrors` | the classes of `RedisError` and the table that maps the driver's errors onto them |
| `RedisLine` | the calls of several callers on the one connection behind all lanes; the pool is taken as `LaneGate` |
| `RedisLine_proofs` | theorems about `RedisLine` |
| `RedisPubSub` | a Pub/Sub session from its first subscription to the end of its stream |
| `RedisPubSub_proofs` | theorems about `RedisPubSub` |
| `RedisLock` | the lock: clients, server, expiry, late commands |
| `Lease` | the abstract lease the lock implements: granted only while nobody counts on it, for a bounded time |
| `RedisLock_proofs` | theorems about `RedisLock` |
| `RedisConfig` | configurations as values: entries, `validate`, connection parameters |
| `RedisConnect` | from a configuration to a pool or a Pub/Sub session, over `RedisConfig` |
| `RedisConnect_proofs` | theorems about `RedisConnect` |
| `MCRedisPool`, `MCRedisCall`, `MCRedisLine`, `MCRedisLock`, `MCRedisConnect` | constants and symmetry for TLC |

An operator with an underscore and a bug's name (`Recheck_Skipped`,
`retry_safety_SetIdempotent`, ...) is a plausible mistake in the operator it is
named after. No action uses one; swapping it in shows that a property notices.

### RedisPool

One action is one access of shared state with the task-local code around it. A
task's `pc` says where in the code it is:

| action | code |
|---|---|
| `Enter` | `acquire_with_timeout` up to the backend test (lifecycle.rs:106-131) |
| `Register` | `waiters.fetch_add`, first poll of the semaphore (132-133) |
| `Wake`, `Expire` | the poll of `timeout(budget, acquire_owned())` that ends it, by a permit or by the timer (133) |
| `Lapse` | the expired future is dropped; `waiters`, the metric, the error (133-159) |
| `Recheck`, `Refuse`, `Admit` | `waiters`, second closed check; rejection; `in_flight` and the permit (134-148) |
| `CancelAcquire` | the caller drops the future in the queue |
| `Begin`, `NoBudget`, `Reply`, `CommandTimeout`, `CancelCommand` | permit.rs:159-236 |
| `DropPermit`, `Release` | `RedisPoolPermit::drop`, then its semaphore permit (pool.rs:111-129) |
| `Close`, `CloseReturns`, `CancelClose` | pool.rs:336-351; a turn of the loop that sleeps is a stutter |

`PermitUsers` keep a permit over several commands (the public `acquire`); the other
tasks run pooled calls, which take a permit, run one command and drop it. The
semaphore is tokio's and outside the repository: `GiveBack`, `DropAcquire` and
`PollAcquire` say what the pool relies on. tokio hands a permit to the oldest waiter;
the model lets it go to any, which allows more. Atomics are sequentially
consistent here: `closed` is stored SeqCst and loaded Acquire, and a load that
sees an older value behaves like one scheduled earlier. `hist` is a history of what
happened, to compare the counters with; no action reads it except for the bounds.

### RedisCall

`call` is what the caller chose: the command, whether the client has a
`RetryConfig`, its deadline, the client's call deadline, and whether the pool has
a backend. An optional duration is a set of at most one number. `due` is when the
wait the call is in must end; `Tick` does not pass it, so timers fire when due and the
code between awaits takes no time, except that up to `Gap` may pass between the two
readings of the clock in one pass of the loop (resilience.rs:295 and 304): without
that, the Timeout branch at 305-309 would never be taken. `pending` and `done` are the
attempts whose command was handed to the connection and those the server executed;
an attempt that times out leaves its command pending, and `Execute` may take it at
any later moment. Other callers appear as lanes that need not become free, and as
`Close`.

Every error comes from `RedisErrors`: `map_redis_error` is the table of error_map.rs over
the driver's error kinds and the words `map_textual` looks for, which is any subset of
`Words`: it searches the whole text. `Refused` lets the server answer with an error that
another attempt may cure (`Passing`: loading, moved, down, a replica, by kind or by text)
or with one that none does (`Lasting`: any text at all, a refused password, CROSSSLOT for
commands of several keys, an aborted transaction, a missing script). The history variable
`verdict` remembers which it was, independently of the class the table gives it, and
`BudgetSpent` compares the two. A lasting error is `final`, and must be returned at once,
or `disguised` when it looks like a passing one (`LooksPassing`): CROSSSLOT, which the table
counts among the redirections (error_map.rs:38), and a text with LOADING, TRYAGAIN or
READONLY anywhere in it, such as a missing permission of a user named `readonly`
(error_map.rs:60-67). The code asks again in vain for those, to the end of the attempts
or the deadline, and `BudgetSpent` says so too.

A call's operation is one of the commands of `client.rs`, `structures.rs`, `streams.rs`,
`ext.rs` and `transaction.rs`. They differ in their class (only those of `client.rs` go
through the retry loop), in what an empty list does (`TakesEmpty`: return at once, even
on a closed pool), in where arguments are checked (`ChecksEarly`, before a lane is
asked for; `ChecksLate`, in the closure on the lane, which is where `set_ex` and
`expire` check the TTL), and in blocking. `blpop` and `xread_block` bring a budget of
their own (`BlockingBudget`) and go around the call deadline; the server answers them
after `ServerBlock` at the latest (BLPOP is sent whole seconds: 1.9 s becomes 1 s,
although structures.rs:132 speaks of rounding up). The driver has a timer of its own, `response_timeout`,
on every command.

`backoff_for` is the recursion of resilience.rs:221-237 with a whole multiplier,
`jittered` any value between half the backoff and the backoff, or the backoff itself
when jitter is off. (The code's jitter is a fixed function of the operation's name and
the attempt, resilience.rs:323; any value of its range contains that one.)

### RedisLine

`RedisCall` has one caller and a server that may be late for any reason. `RedisLine` has
several callers and no clock, and shows the reason. `lines` has, for each connection
there has been, the line of commands the server may yet execute; `Serve` executes the
first one on the present connection (`epoch`) and gives the answer to whoever still
waits for it. A caller's `plan` is the calls it will make.

| action | code |
|---|---|
| `Begin` | a call of `RedisClient`, routed (client.rs:376-403) |
| `GetLane`, `NoLane` | `acquire_with_timeout`, ends in a lane, or by the timer, or because the pool is closed; `Pool!LetIn` and `Pool!LetOut` are steps of `LaneGate`, which `RedisPool` implements |
| `Send` (part of `GetLane`, `Online`, `Proceed`) | the closure hands its command to a clone of the one backend (permit.rs:217) |
| `TimeOut`, `Cut`, `Cancel` | the timer of `run_timed` or the driver; a broken connection; a dropped future. The command keeps its place in its line |
| `Retried`, `FailAttempt` | `with_retry` for `get`, an error for the others (client.rs:388-402, resilience.rs:289-318) |
| `Answered` | the result goes to the caller, and the lane back |
| `Loaded` | `script_load_and_eval` after `SCRIPT LOAD`: back to the pool for a second lane (ext.rs:168-180) |
| `Proceed` | the driver's `Script` behind `eval_script`: EVALSHA, on NOSCRIPT a SCRIPT LOAD and EVALSHA again, all on one lane (ext.rs:139-150) |
| `Close` | pool.rs:336 |
| `Break`, `Reconnect`, `ServeLeft`, `Push`, `Flush` | the network, the driver, the server |

What is external is as `src/` relies on it: a multiplexed connection answers in order; an
answer whose future is gone is dropped; when the connection breaks, all that waits on it
fails with an I/O error and the driver connects again, sending nothing by itself. What
the server had read from an old connection it may still execute (`ServeLeft`), at any
time and next to what comes over the new one. `ran` records where and for which call something
took effect. `get` is the retried call here, `set` the write that is not, `blpop` the one
that blocks. A cluster has a connection per node, so `ProgramOrder` is about
Standalone and Sentinel.

### RedisPubSub

`RedisConnect` has the timers of `connect_config`; here are its messages. They arrive from
the first subscription on, go from the connection (`transit`) into the driver's buffer
and from there to the stream, whose two forms differ in how they end.

| action | code |
|---|---|
| `Subscribe`, `Subscribed` | pool.rs:359-367, pubsub.rs:89-101 |
| `publish`, `Published`, `PublishFailed`, `Executed` | pubsub.rs:115-125: one command on a connection of its own, under the driver's timer only |
| `IntoStream` | the session becomes a stream of messages or of results (127-162) |
| `Read`, `End` | the stream gives the next item; at the driver's end, one `Err` or nothing (157-161) |
| `Drop` | the caller drops session or stream, or `connect_config` fails |
| `OthersPublish`, `Arrive`, `Break` | server and network |

A connection may break in a way the driver sees (`broken`) or fall silent (`silent`): the
session has neither timer nor keepalive, and nothing notices the latter.

### RedisLock

A call is a command that is sent (`Send`), executed (`Serve`) and answered, in
separate steps; `lock_acquire` is two of them. `Fail` is any way a call ends in an
error: its command is lost, or was executed and the reply is lost, or stays in
`late`, from which `ServeLate` may execute it at any time and in any order. A failed
`lock_acquire` leaves no `RedisLock`; a failed release or extension leaves the caller
its value. `lock_release` borrows the value, so a caller may release and extend
again afterwards. `Forget` drops it; there is no `Drop` that releases the lock.

`sure` is a history variable: how long a caller that counts from before its call
may rely on the key. It is what "owning the lock" can mean to a caller, since the
value itself outlives the lease. A success sets it to the TTL less the time the call
took; calling `lock_release` ends it; an extension that was given up bounds later ones
by its own TTL (`floor`), because it may still run and cut the key's life down.
The last point was found by TLC: a short extension that timed out and a long one
that succeeded may be executed in the order long, short.

`OrphanRunsOut` is the liveness of an abandoned key as a step property: `Rest` adds to
the key's remaining life what the late extensions of its token can still give it. No step
raises it once nobody has the token, and every tick lowers it, so the key expires as
soon as the server's clock has run for that long.

A caller makes one call at a time with its `RedisLock`. The type is `Clone` and its calls
take `&self`, so a program may extend and release one token at once; the model has that
only in the form of a command given up and executed late.

Tokens are distinct, as the comment at ext.rs:72-75 says; clocks run at the server's
rate.

### RedisConfig and RedisConnect

`RedisConfig` has no variables. An address is one of nine forms (blank, `host:port`, a
port that is no number, a Unix socket, and URLs: plain, TLS, with a database, insecure,
without a host), and the operators say what each function does with each: `parse_host_port`, which
knows no URLs, `validate_seed`, `validate`, the four entries (`build`, `from_url`,
`from_env`, `from_toml`) and the parameters handed to the driver (`PlainInfo`,
`connection_info_for_seed`). `limits` stands for the numbers `validate` wants positive (`huge` is a `max_in_flight`
above what `Semaphore::new` takes, which `validate` accepts) and for text that does not
parse (`garbled`: a boolean, a mode, TOML itself). User name and password are `none`,
`own` or `url`, whatever the URL says; a user name may also be set to nothing (`blank`) or
be the `default` of the environment.

`RedisConnect` is one call of `RedisPool::connect`, `RedisPool::new` or
`RedisPubSub::connect_config`. Each await is a program point with its timer in `due`:

| action | code |
|---|---|
| `Load` | the entry of the configuration |
| `New` | lifecycle.rs:62-65 |
| `Connect` | lifecycle.rs:29-35 and connect.rs up to the first await |
| `Discovered` | `connect_sentinel` after the sentinels' answer (connect.rs:90) |
| `Opened`, `SetUp`, `Ping`, `Settled` | the connection, `CLIENT SETNAME`, warm-up, whose outcome is dropped (lifecycle.rs:37-51) |
| `FromParts` | `from_parts` (76-104): the pool, or a panic of `Semaphore::new` that drops the connection |
| `ConnectPubSub`, `Listening`, `Subscribed` | pubsub.rs:65-102 |
| `Failed`, `TimeOut` | a wait ends in an error or by its timer |

`dialled` records the addresses given to the driver, each with its TLS, user name,
password and database; `open` the connections that exist. `Asked` says what should be
dialled, from the caller's input (`source`) alone: the settings, REDIS_URL or the URL
given, and for a seed written as a URL that URL's own TLS and credentials.
`DialledAsConfigured` compares the two for every address.

Corners the model contains:

- `addr` is validated as `host:port` only, so `redis://:6379` passes as a host named
  `redis://`; a Cluster or Sentinel without nodes then refuses it in `connect`.
- A Standalone `addr` written as a URL passes likewise and is taken for a host of that
  name (`HostOf`), dialled without TLS unless `tls` is set, even for `rediss://`. Such a
  name (`nowhere`) does not resolve, so no connection is opened and the call fails
  (`Opened`).
- The master behind sentinels is dialled with the settings' TLS only (connect.rs:75-79):
  `rediss://` sentinels and `tls = false` give a plain connection to the master. `Asked`
  takes the scheme of a seed to speak of that seed.
- `from_env` names the user `default` when no user name is set, and a configured user name
  replaces that of a seed's URL while the URL's password stays: each is overridden on its
  own.

## What is checked

| run | instance | shows |
|---|---|---|
| `pool_safety` | 3 pooled tasks, 1 permit user, 1 closer, 2 lanes, 5 acquisitions | `TypeOK`, `LaneConservation`, `QueuedMeansSaturated`, `InFlightExact`, `StragglersBounded`, `AcquireAccounted`, `CommandsAccounted`, `WaitersDrift`, `ImplementsLaneGate` |
| `pool_liveness` | fair, no symmetry, 1 lane | `AcquireResolves`, `PooledCallReturns` |
| `pool_close_drain` | as configured | violated: `CloseOkMeansDrained` |
| `pool_waiters_gauge` | as configured | violated: `WaitersExact` |
| `call_behaviour` | 12 commands of all classes and check points, blocks of 1 and 3, 4 retry deadlines, jitter on and off, 4 call deadlines, 3 attempts, fair | `TypeOK`, `WritesOnce`, `AttemptWithinTotal`, `EndsInTime`, `BudgetSpent`, `Returns` |
| `call_deadline_error` | one deadline | violated: `DeadlineYieldsTimeout` |
| `call_block_cut` | the blocking commands | violated: `BlockFits` |
| `connect_behaviour` | every mode with every address form, nodes of one form or two, 4 pairs of user name and password, every other setting, 4 entries, 2 channels, fair | `TypeOK`, `DialledAsConfigured`, `RefusedOffline`, `AllOrNothing`, `EndsInTime`, `Returns` |
| `line_behaviour` | 3 callers, 2 lanes, 7 plans of up to two calls each, 2 attempts, 1 break, 1 element, 1 flush, fair | `TypeOK`, `AtMostOnce`, `ProgramOrder`, `AnswersAreTrue`, `MissingMeansForgotten`, `Ends` |
| `pubsub_behaviour` | 2 channels, 3 messages of others, 2 of the session's own, fair | `TypeOK`, `NoGaps`, `ErrOnceAtTheEnd`, `HearsItself`, `PublishedOnce`, `BreakNoticed` |
| `lock_safety` | 2 clients, 3 acquisitions, TTLs 1 and 2, 1 failure | `TypeOK`, `LeaseCovers`, `FencesDistinct`, `OnlyOwnerFrees`, `OrphanRunsOut` |
| `lock_fencing` | 2 clients, 3 acquisitions | violated: `FenceFollowsLock` |

**Bounds.** Pool: four tasks on two lanes give a queue of two behind a full pool, so a
permit returned may be handed to either of two waiters, one of which is timing out
or being dropped; five acquisitions let one task come back while the others are
still inside. The liveness run has one lane, where a permit user starves everybody
else. Calls: the deadlines 0, 2 and 5 fall before the first failure, inside an attempt
and inside a pause; the call deadlines 0, 1 and 3 below, at and above the lane budget.
Blocks of 1 and 3 lie below and above the command timeout of 2.
Connecting: a configuration is read once and never changes, so the forms and settings
need not all be combined: addresses with one value of the other settings, settings with
one address. Two channels, two PINGs and a driver limit of 2 put a wait after a wait.
Line: the plans are the pairs that meet: a blocking command before and after a write of
the same and of another caller, two writes of one caller, each script call before a
write, both script calls at once, and three callers for two lanes. One break gives two
connections and leftovers of the first; one element makes a BLPOP come back empty or
with it; one flush may fall between any two commands of a script.
Pub/Sub: two channels let messages arrive between the subscriptions, and three messages
be in transit, in the buffer and read at once.
Lock: two TTLs make an extension shorten a lease; three tokens let a key pass from
a first owner to a second and back while a command of the first is late.
`MaxCalls`, `MaxCommands`, `MaxAttempts`, `MaxFailures`, `MaxBreaks`, `MaxElements`,
`MaxFlushes`, `MaxMessages`, `MaxPublish` and `Gap` bound only the
model, not the code. Deadlock is checked in the pool and the lock; a `RedisCall` and
a `RedisConnect` end when the call has returned, a `RedisLine` when the plans are done and
a `RedisPubSub` with its session, so their configurations switch the check off.

**Fairness.** Pool: a task that is ready is polled and a timer that is due fires
(tokio's scheduler); no caller has to make a call, no permit user to drop its
permit, no server to answer. Calls: time passes and the task is polled when its own
timer is due; a Pub/Sub session or a pool being connected likewise, and the driver ends
`SETNAME` or a PING after `DriverWait`. Line: a call that wants a lane gets one or is
turned away, which is what `AcquireResolves` says of the pool, and a command's timer
fires; the server need not answer and the driver need not reconnect. Pub/Sub: the caller
goes on reading its stream. The lock's run has no fairness: see `OrphanRunsOut`.

### What the violated properties say

- `CloseOkMeansDrained` (doc at pool.rs:331): the second closed check
  (lifecycle.rs:138) and `in_flight.fetch_add` (143) are two steps. `close` may store
  its flag and read zero between them, return Ok, and a command then runs.
  `StragglersBounded` says how far this goes: never more than `max_in_flight` calls.
- `WaitersExact` (doc at pool.rs:33): a dropped acquire future leaves `waiters`
  incremented. `WaitersDrift` says by exactly how much.
- `FenceFollowsLock` (header ext.rs:4-6): the fence is taken by a second command;
  the lock may expire and be acquired by another before it, and the former owner then
  has the larger fence.
- `DeadlineYieldsTimeout` (resilience.rs:166, 272, 277): past the deadline
  `should_continue` is false and the last error is returned.
- `BlockFits` (docs at streams.rs:148, structures.rs:132): the driver's
  `response_timeout` is `command_timeout` (backend.rs:93) for every command of the
  connection, so a longer block ends in an I/O error before the server is done; an
  element popped later reaches nobody.

README.md:137 of the repository says `SET` without TTL and `MSET` are retried as
idempotent; resilience.rs:75 classifies them as ambiguous writes, for the reason its
comment at resilience.rs:73 gives. The model follows the code, and `WritesOnce` is what
that classification achieves.

Remarks that are no violated property:

- error.rs:53-54 says that business errors are never retried automatically. Two kinds of
  them are, for a read with a `RetryConfig`: an MGET of keys in several slots, whose
  CROSSSLOT is mapped to `Transient` (as the table at error_map.rs:10 says), and an error
  whose text happens to contain LOADING, TRYAGAIN or READONLY. `BudgetSpent` excepts exactly
  these (`LooksPassing`) and bounds them by the attempts; no run of its own shows them as a
  violation.
- A backoff clipped to the rest of the retry deadline ends exactly at it, and one more
  attempt then starts, so a call may end one whole attempt after its deadline. The
  call deadline (client.rs:96 calls it the total deadline of the call) is applied inside
  the closure that `with_retry` calls, so every attempt has the whole of it and the
  pauses none. `EndsInTime` of `RedisCall` states both bounds.
- A command that is given up returns its lane and stays on the connection. Behind a
  blocking command the line therefore grows with every call that times out:
  `max_in_flight` bounds the calls that wait for an answer (`InFlightExact`), not the
  commands outstanding at the server, which is how README.md:106 and CONTEXT.md:59 put it.
- After a break, a `SET` left over from the old connection may be executed after a newer
  one of the same caller on the new connection: `ProgramOrder` excepts exactly that.
- `blocking_timeout` is configured, validated (README.md:112) and used by no command;
  blocking commands ignore the call deadline; `timeout + 1s` panics near `Duration::MAX`.
- `tcp_keepalive` is read and not applied (backend.rs:91), so a Pub/Sub connection that falls
  silent is never noticed.
- In Sentinel mode the sentinels are dialled with the configured database like any
  seed (config.rs:314), and the driver then sends them a SELECT, which sentinels do not know.
- A `max_in_flight` above `Semaphore::MAX_PERMITS` is accepted by `validate` and makes
  `new` and `connect` panic, the latter after it has connected.

## What is proved

`RedisPool_proofs` proves for every finite set of tasks, every choice of permit users
and closers, every number of lanes and every bound on calls (`PoolAssumption`):

- `TypeCorrect`: `TypeOK`, which includes that neither counter goes below zero;
- `PermitsConserved`: `LaneConservation` and `QueuedMeansSaturated`;
- `BackpressureBound`: `InFlightExact`;
- `CloseCutsOff`: `StragglersBounded`;
- `GaugeDrift`: `WaitersDrift`;
- `EveryCallCounted`: `AcquireAccounted` and `CommandsAccounted`;
- `PoolImplementsGate`: every behaviour of `RedisPool` is one of `LaneGate`.

None of these is inductive by itself. The argument rests on
`IInv == TypeOK /\ QueueConsistent /\ Books /\ Gauges /\ Stragglers`. `Books` is the
conservation law written with the number of tasks at owning program points;
`QueueConsistent` ties the semaphore's queue to the suspended acquisitions, so that a
permit handed over is owned by exactly one task; `Gauges` equates both counters
with numbers of tasks, which is also what keeps them natural numbers; `Stragglers`
counts the admitted together with the permits issued after `close`: an upper bound on
the latter alone would not survive the step from admitted to holding. Every action
changes the `pc` of one task, so the lemma `Moved` says how the number of tasks at a set
of program points changes, and `GiveBackKeeps` and `DropAcquireKeeps` do the semaphore
part once for all actions that return a permit or drop a queued future. One
lemma per action then gives `NextIInv`.

The refinement maps the abstract gate's `inside` to the tasks that passed the second
closed check and still hold a permit; `Recheck` is the step that lets a call in,
`DropPermit` the one that lets it out, `Close` shuts, everything else stutters. That
there is room when a call enters is the conservation law again.

`RedisCall_proofs` proves for every set of commands, every configuration and all
durations that satisfy `CallAssumption`, with a pool that may be closed and a server that
may be late, fail or fall silent at any point:

- `TypeCorrect`: `TypeOK`;
- `WriteHandedOverOnce`: `WritesOnce`;
- `AttemptKeepsToTotal`: `AttemptWithinTotal`;
- `GivesUpOnlyWhenSpent`: `BudgetSpent`;
- `RetryDeadlineKept`: `EndsNearDeadline`, the part of `EndsInTime` about the retry deadline;
- `CallEndsInTime`: `EndsInTime`, with the bound on attempts and pauses.

The inductive invariant is
`IInv == TypeOK /\ Counted /\ Classified /\ AttemptWithinTotal /\ OnTime`. `Counted`:
an attempt other than the first belongs to a routed call, and a call that is about to
make another has some left; a write is never routed (`RoutedReads`), so it
is handed over in the first attempt or never. `Classified`: an attempt has failed with an
error that is not retryable exactly when no other attempt could do better and the error
does not look as if one could, which is `map_redis_error` read line by line for every
text (`PassingClassified`, `TextClassified`, `LastingClassified`). `OnTime`: an attempt begins
within the retry deadline because each pause is cut to what is left of it
(`PauseClipped`), and its timers fit its own budget because the command gets what the wait
for a lane left (`WholeAttempt`). TLC checked `IInv` on the configuration of
`call_behaviour` before it was proved.

`CallEndsInTime` adds `Lengthy`, inductive together with `IInv` (TLC checked both): after
the n-th attempt and the pause behind it no more than `Rounds(n)` has gone by, n times
the sum of an attempt's budget, `max_backoff` and `Gap`. A pause is at most
`backoff_for[n]`, which is defined by recursion, so its bound needs that the recursion
has a solution at all. The library's induction theorems cannot be used here (see the
end of this section). `BackoffDefined` gets the solution from the well-foundedness of
`<` on sets of numbers instead: for each n there is exactly one solution up to n, since a
least n without one (`SolutionExists`), or a least argument at which two of them differ
(`SolutionsAgree`), is contradictory; and their last values together make the function.

`RedisLock_proofs` proves for any clients, TTLs, numbers of acquisitions and failures
(`LockAssumption`; the set of clients need not even be finite):

- `LockTypes`: `TypeOK`;
- `LockLeases`: `LeaseCovers`;
- `LockExcludes`: two callers never count on the lock at once, which no run states: it
  follows from `LeaseCovers` and the uniqueness of tokens;
- `LockImplementsLease`: every behaviour of `RedisLock` is one of `Lease`, read off `sure`
  (`RedisLock!ImplementsLease`);
- `LockFences`: `FencesDistinct`;
- `LockFreed`: `OnlyOwnerFrees`, for every step;
- `LockOrphans`: `OrphanRunsOut`, for every step.

`LeaseCovers` says nothing of what is on its way, and so is far from inductive. Its
invariant follows a command from the call to the server. `LateCommands`: a command a
failed call left behind is of an acquisition whose token nobody has any more (`set`, `incr`),
or of a client that since then counts on no more than the command would leave it
(`Allows`, by way of `floor`); so it takes nothing from anybody who counts on the key
(`ExecuteCovers`). `Replies`: an answer on its way is still true when it arrives, less the
time it took. `SetOnce`: the `SET NX` of a token is executed at most once, so a key that
was given up does not come back under the same token. `Numbers`: what `INCR` answered is
held by one answer or one fence. `ClientCommands` and `KeyHasTtl` say what a client in a
call is about, and that a key always has a TTL. The two step properties follow from the
same invariant, command by command.

For `LockImplementsLease` a step of `RedisLock` is a step of `Lease` or leaves `sure` alone.
A client changes only its own `sure` (`BelievesAlone`), so the one case that needs an
argument is a client that comes to count on the lock: that `Lease` grants it only when
nobody else does follows from the invariant *after* the step, where the key carries one
token. No guard of the code looks at other clients; the key alone keeps them apart. No run
states this property: on the instance of `lock_safety` TLC confirms it when
`ImplementsLease` is added to `PROPERTIES`, without symmetry.

`RedisLine_proofs` proves for every finite set of callers, all plans, and any number of
lanes, attempts, breaks, elements and flushes (`LineAssumption`):

- `LineTypes`: `TypeOK`;
- `LineOnce`: `AtMostOnce`;
- `LineOrder`: `ProgramOrder`;
- `LineAnswers`: `AnswersAreTrue`;
- `LineMissing`: `MissingMeansForgotten`;
- `LineUsesGate`: what the calls do with lanes is a behaviour of `LaneGate`, the same that
  `PoolImplementsGate` shows `RedisPool` to implement, so the two modules fit together.

`AtMostOnce` is about what has run; what may still run is in the lines of all connections,
the broken ones included. `Once`: of one call, at most one command that may take effect
stands in all the lines, and none once the call has taken effect. A caller may send such a
command only while its call is `Fresh`, and it is whenever it waits for a lane: the one
command that is retried, `GET`, has no effect, and what a script call has behind it
is a `SCRIPT LOAD` or an `EVALSHA` answered NOSCRIPT (`Claim`). `Ordered`: calls of one
caller stand in their order within a line and from one connection to the next, and
whatever has run is of an earlier call or came over a later connection. `Claim` also says
that an answer on its way is true, and stays so until the call returns, because an answer
is only given to the command that asked for it (`Awaited`). `ScriptClaim`: from
`SCRIPT LOAD` on the server has the script, or forgot it during the call. `Redial` was
missing in a first attempt: the type of `lines` needs that a lost connection has a next
number within the bound.

`RedisPubSub_proofs` proves for every number of channels, messages and publish calls
(`PubSubAssumption`): `PubSubTypes` (`TypeOK`), `PubSubNoGaps` (`NoGaps`), `PubSubErrLast`
(`ErrOnceAtTheEnd`), `PubSubHears` (`HearsItself`) and `PubSubOnce` (`PublishedOnce`). The
invariant says of each message where it is: what was read, then the buffer, is what the
driver read of the messages sent (`Reading`), and what is in transit follows (`InTransit`).
Messages are numbered, which tells them from `Err` (`NoErr`); `Progress` says what a phase
cannot have yet, and `Calls` that the numbers of publish calls grow along what was
executed and what is still to be.

`RedisConnect_proofs` proves for every set of sources and all timeouts and numbers of
channels (`ConnectAssumption`): `ConnectTypes` (`TypeOK`), `ConnectAsConfigured`
(`DialledAsConfigured`), `ConnectOffline` (`RefusedOffline`), `ConnectAllOrNothing`
(`AllOrNothing`) and `ConnectInTime` (`EndsInTime`). `Phases` says what is open and may be
dialled at each program point. `Punctual` is a budget: the end of the present wait and all
that may be waited for after it (`Ahead`) never add up to more than `Longest`; each wait
spends its part (`Waits`), and a row of n PINGs or subscriptions costs n times one
(`Pings`, `Subscribes`). For what is dialled, `LoadedTypes` shows of each entry that the
configuration it makes says what was asked for (`Heeded`), and `SeedKept` goes through the
address forms that `validate_seed` lets pass and shows that none of them loses its own or
the configured scheme and credentials, or the checks of certificates. TLC checked each of these invariants on the instance of the
component's run before it was proved.

So every invariant and every step property that a run checks is a theorem. Only
model-checked is liveness under fairness (`AcquireResolves`, `PooledCallReturns`, `Returns`
of `RedisCall` and of `RedisConnect`, `Ends`, `BreakNoticed`), which the proof system does
not cover. Its library's induction theorems take an operator as a parameter, which the
provers at hand cannot instantiate; where a proof needs induction over data it argues
from a least counterexample, as for `backoff_for`. The five violated properties are
counterexamples and need no proof.

## What is not modelled

- Wording of errors, logging, tracing, formatting and redaction.
- Replies and values of data commands: the commands are calls of `RedisCall`, the
  conversion of what they return is not modelled.
- What the driver makes of the parameters it is given (`dialled`): which nodes of a cluster
  it goes on to dial, and with which TLS and credentials when the seeds' URLs differ
  (connect.rs:42-50 hands it the settings' own beside the seeds).
- Redirects inside the driver's cluster client: in `RedisCall` they are errors a server
  answers with, after the driver's own attempts. A cluster as several connections.
- The driver's reconnection delays: `RedisLine` lets a reconnection come at any time or
  never.
- `stats`, `metrics_snapshot`, accessors, redaction: they only read.
- A key's value: what a `GET` returns is any value.

## Plan

1. *Done:* the pool, its abstract gate and the proofs; one client call of any command,
   blocking ones included; the lock; configuration and connecting.
2. *Done:* the connection shared by several callers, scripts of several commands, the
   driver's reconnects; Pub/Sub delivery; the error table; the panic of a `max_in_flight`
   too large.
3. *Done:* the proofs of every invariant and step property the runs check, and of the
   abstract specifications `LaneGate` (by the pool and by the calls) and `Lease` (by the
   lock).
4. *Not done, and worth doing next:* one call at a time as the abstract picture of
   `RedisLine`, of which `AtMostOnce` and `ProgramOrder` are the safety half; `backoff_for`
   in floating point and durations that saturate.
