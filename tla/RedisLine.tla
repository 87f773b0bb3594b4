------------------------------ MODULE RedisLine -------------------------------
(***************************************************************************)
(* Several callers on one connection: the backend every lane clones        *)
(* (src/src/pool.rs run, src/src/pool/permit.rs run_timed) is one          *)
(* multiplexed connection, so the commands of all lanes stand in one line, *)
(* a blocking one holds up those behind it, and a command whose caller has *)
(* stopped waiting keeps its place.  Composes the retry routing of         *)
(* src/src/client.rs, the pool, taken as the gate it implements            *)
(* (LaneGate), and the scripts of src/src/ext.rs, which take two or three  *)
(* commands to run.                                                        *)
(*                                                                         *)
(* Timers are nondeterministic.  The driver and the server are modelled as *)
(* src/ uses them: answers come in the order of the commands, a broken     *)
(* connection fails what waits for it and is opened again, and nothing is  *)
(* sent twice.  What the server had read from a broken connection it may   *)
(* still execute.                                                          *)
(***************************************************************************)
EXTENDS Naturals, Sequences, FiniteSets

CONSTANTS
  Callers,      \* tasks that share a pool, one call at a time each
  Plans,        \* the calls each of them will make, in order
  Lanes,        \* max_in_flight
  max_attempts, \* RetryConfig
  MaxBreaks,    \* bound: times the connection breaks
  MaxElements,  \* bound: elements pushed to the list that BLPOP waits for
  MaxFlushes    \* bound: times the server forgets its scripts

Operations == {"Get", "Set", "Blpop", "ScriptLoadAndEval", "EvalScript"}

ASSUME LineAssumption ==
  /\ IsFiniteSet(Callers)
  /\ Plans \subseteq [Callers -> Seq(Operations)]
  /\ Lanes \in Nat \ {0} /\ max_attempts \in Nat \ {0}
  /\ MaxBreaks \in Nat /\ MaxElements \in Nat /\ MaxFlushes \in Nat

(* The commands a call may send.  AGAIN is the second EVALSHA of the       *)
(* driver's Script.                                                        *)
Commands == {"GET", "SET", "BLPOP", "LOAD", "EVALSHA", "AGAIN"}
Answers  == {"value", "nil", "NOSCRIPT"}

VARIABLES
  plan,     \* calls each caller still has to make
  op,       \* its call
  number,   \* how many calls it has made
  attempt,  \* number of the attempt
  pc,       \* where its call is
  command,  \* the command it is about
  conn,     \* the connection its command was sent on
  answer,   \* the answer that is on its way to it
  result,   \* how its last call ended; "failed" if by an error or dropped
  closed,   \* PoolInner.closed
  up,       \* the driver has a connection
  epoch,    \* number of the current or last connection
  lines,    \* of each connection: commands the server may yet execute
  elements, \* elements in the list
  scripts,  \* the server has the script
  ran,      \* history: calls of each caller that took effect, and where
  flushed,  \* history: callers during whose call scripts were forgotten
  pushes, flushes

caller == <<plan, op, number, attempt, pc, command, conn, answer, result>>
server == <<elements, scripts, ran>>
link   == <<up, epoch, lines>>
env    == <<pushes, flushes>>
vars   == <<caller, closed, link, server, flushed, env>>

Pcs ==
  { "idle",      \* in no call
    "waiting",   \* for a lane, or asleep before it asks for one
    "offline",   \* on its lane, waiting for the driver to reconnect
    "running" }  \* on its lane, its command sent

OnLane == {c \in Callers : pc[c] \in {"offline", "running"}}

Connections == 1..MaxBreaks + 1

(* The pool. *)
Pool == INSTANCE LaneGate WITH Tasks <- Callers, inside <- OnLane

Init ==
  /\ plan \in Plans
  /\ op = [c \in Callers |-> "Get"]
  /\ number = [c \in Callers |-> 0]
  /\ attempt = [c \in Callers |-> 0]
  /\ pc = [c \in Callers |-> "idle"]
  /\ command = [c \in Callers |-> "GET"]
  /\ conn = [c \in Callers |-> 0]
  /\ answer = [c \in Callers |-> "none"]
  /\ result = [c \in Callers |-> "none"]
  /\ closed = FALSE
  /\ up = TRUE /\ epoch = 1 /\ lines = [n \in Connections |-> <<>>]
  /\ elements = 0 /\ scripts \in BOOLEAN
  /\ ran = [c \in Callers |-> <<>>]
  /\ flushed = {}
  /\ pushes = 0 /\ flushes = 0

-----------------------------------------------------------------------------
(* The line. *)

Entry(c, k, n) == [by |-> c, number |-> number[c], attempt |-> attempt[c],
                   command |-> k, conn |-> n]

(* Bug: every lane has a connection of its own. *)
Send_OwnConnection(c, k) ==
  /\ \E i \in 0..Len(lines[epoch]) :
       lines' = [lines EXCEPT ![epoch] =
                   SubSeq(@, 1, i) \o <<Entry(c, k, epoch)>>
                     \o SubSeq(@, i + 1, Len(@))]
  /\ pc' = [pc EXCEPT ![c] = "running"]
  /\ command' = [command EXCEPT ![c] = k]
  /\ conn' = [conn EXCEPT ![c] = epoch]

(* Caller c, on its lane, sends command k. *)
Send(c, k) ==
  /\ lines' = [lines EXCEPT ![epoch] = Append(@, Entry(c, k, epoch))]
  /\ pc' = [pc EXCEPT ![c] = "running"]
  /\ command' = [command EXCEPT ![c] = k]
  /\ conn' = [conn EXCEPT ![c] = epoch]

(* Bug: an answer is taken for the caller's present command, whichever of  *)
(* its calls asked for it.                                                 *)
Awaited_ByCaller(m) == pc[m.by] = "running" /\ conn[m.by] = epoch

(* Somebody still waits for the answer to m. *)
Awaited(m) ==
  /\ pc[m.by] = "running"
  /\ m = Entry(m.by, command[m.by], conn[m.by])

(* The server executes m and answers a. *)
TakesEffect(m) ==
  ran' = [ran EXCEPT ![m.by] = Append(@, [number |-> m.number, conn |-> m.conn])]

Execute(m, a) ==
  \/ /\ m.command = "GET" /\ a = "value"
     /\ UNCHANGED server
  \/ /\ m.command = "SET" /\ a = "value"
     /\ TakesEffect(m)
     /\ UNCHANGED <<elements, scripts>>
  \/ /\ m.command = "BLPOP" /\ a = "value" /\ elements > 0
     /\ elements' = elements - 1
     /\ TakesEffect(m)
     /\ UNCHANGED scripts
  \/ /\ m.command = "BLPOP" /\ a = "nil" /\ elements = 0 \* after the block
     /\ UNCHANGED server
  \/ /\ m.command = "LOAD" /\ a = "value"
     /\ scripts' = TRUE
     /\ UNCHANGED <<elements, ran>>
  \/ /\ m.command \in {"EVALSHA", "AGAIN"} /\ a = "value" /\ scripts
     /\ TakesEffect(m)
     /\ UNCHANGED <<elements, scripts>>
  \/ /\ m.command \in {"EVALSHA", "AGAIN"} /\ a = "NOSCRIPT" /\ ~scripts
     /\ UNCHANGED server

(* The server executes the first command of connection n. *)
Take(n, a) ==
  /\ lines[n] # <<>>
  /\ Execute(Head(lines[n]), a)
  /\ lines' = [lines EXCEPT ![n] = Tail(@)]

(* On the present connection its answer is dropped when nobody waits for   *)
(* it.                                                                     *)
Serve ==
  /\ up
  /\ \E a \in Answers :
       /\ Take(epoch, a)
       /\ LET m == Head(lines[epoch])
          IN  answer' = IF Awaited(m) THEN [answer EXCEPT ![m.by] = a]
                                      ELSE answer
  /\ UNCHANGED <<plan, op, number, attempt, pc, command, conn, result, closed,
                 up, epoch, flushed, env>>

(* A command the server had read from a connection that broke. *)
ServeLeft ==
  \E n \in 1..epoch :
    /\ n < epoch \/ ~up
    /\ \E a \in Answers : Take(n, a)
    /\ UNCHANGED <<caller, closed, up, epoch, flushed, env>>

(* The connection breaks: what is in its line is lost or will be executed, *)
(* the answers on their way are lost.                                      *)
Break ==
  /\ up /\ epoch <= MaxBreaks
  /\ up' = FALSE
  /\ answer' = [c \in Callers |-> "none"]
  /\ UNCHANGED <<plan, op, number, attempt, pc, command, conn, result, closed,
                 epoch, lines, server, flushed, env>>

(* The driver connects again and sends nothing by itself. *)
Reconnect ==
  /\ ~up
  /\ up' = TRUE
  /\ epoch' = epoch + 1
  /\ UNCHANGED <<caller, closed, lines, server, flushed, env>>

-----------------------------------------------------------------------------
(* A call. *)

Goto(c, where) == pc' = [pc EXCEPT ![c] = where]

FirstCommand(o) ==
  CASE o = "Get" -> "GET" [] o = "Set" -> "SET" [] o = "Blpop" -> "BLPOP"
    [] o = "ScriptLoadAndEval" -> "LOAD" [] o = "EvalScript" -> "EVALSHA"

Begin(c) ==
  /\ pc[c] = "idle" /\ plan[c] # <<>>
  /\ plan' = [plan EXCEPT ![c] = Tail(@)]
  /\ op' = [op EXCEPT ![c] = Head(plan[c])]
  /\ number' = [number EXCEPT ![c] = @ + 1]
  /\ attempt' = [attempt EXCEPT ![c] = 1]
  /\ command' = [command EXCEPT ![c] = FirstCommand(Head(plan[c]))]
  /\ result' = [result EXCEPT ![c] = "none"]
  /\ flushed' = flushed \ {c}
  /\ Goto(c, "waiting")
  /\ UNCHANGED <<conn, answer, closed, link, server, env>>

(* The call returns; its future is dropped with all it waited for. *)
Return(c, r) ==
  /\ result' = [result EXCEPT ![c] = r]
  /\ answer' = [answer EXCEPT ![c] = "none"]
  /\ conn' = [conn EXCEPT ![c] = 0]
  /\ command' = [command EXCEPT ![c] = "GET"]
  /\ attempt' = [attempt EXCEPT ![c] = 0]
  /\ Goto(c, "idle")

(* Bug: every command is retried. *)
Retried_Always(c) == attempt[c] < max_attempts

(* Bug: the last attempt is not counted. *)
Retried_OffByOne(c) == op[c] = "Get" /\ attempt[c] <= max_attempts

(* with_retry starts another attempt; of the calls here, only get is run   *)
(* by it (route_with_safety).                                              *)
Retried(c) == op[c] = "Get" /\ attempt[c] < max_attempts

(* Bug: the error of SCRIPT LOAD is not returned. *)
FailAttempt_LoadIgnored(c) ==
  \/ /\ command[c] = "LOAD" /\ op[c] = "ScriptLoadAndEval"
     /\ command' = [command EXCEPT ![c] = "EVALSHA"]
     /\ answer' = [answer EXCEPT ![c] = "none"]
     /\ conn' = [conn EXCEPT ![c] = 0]
     /\ Goto(c, "waiting")
     /\ UNCHANGED <<attempt, result>>
  \/ /\ ~(command[c] = "LOAD" /\ op[c] = "ScriptLoadAndEval")
     /\ Return(c, "failed")

(* The attempt fails with an error that is retryable. *)
FailAttempt(c) ==
  \/ /\ Retried(c)
     /\ attempt' = [attempt EXCEPT ![c] = @ + 1]
     /\ answer' = [answer EXCEPT ![c] = "none"]
     /\ conn' = [conn EXCEPT ![c] = 0]
     /\ Goto(c, "waiting")
     /\ UNCHANGED <<command, result>>
  \/ ~Retried(c) /\ Return(c, "failed")

(* The pool is closed, or every lane is taken for as long as the call may  *)
(* wait.                                                                   *)
NoLane(c) ==
  /\ pc[c] = "waiting"
  /\ closed \/ Cardinality(OnLane) = Lanes
  /\ FailAttempt(c)
  /\ UNCHANGED <<plan, op, number, closed, link, server, flushed, env>>

(* The call is let in, and its closure hands the command to the driver,    *)
(* which may be without a connection.                                      *)
GetLane(c) ==
  /\ pc[c] = "waiting"
  /\ \/ up /\ Send(c, command[c])
     \/ ~up /\ Goto(c, "offline") /\ UNCHANGED <<command, conn, lines>>
  /\ Pool!LetIn(c)
  /\ UNCHANGED <<plan, op, number, attempt, answer, result, up, epoch,
                 server, flushed, env>>

Online(c) ==
  /\ pc[c] = "offline" /\ up
  /\ Send(c, command[c])
  /\ UNCHANGED <<plan, op, number, attempt, answer, result, closed, up, epoch,
                 server, flushed, env>>

(* The command's connection broke, or the driver could not reconnect. *)
Cut(c) ==
  /\ \/ pc[c] = "running" /\ (~up \/ conn[c] # epoch)
     \/ pc[c] = "offline" /\ ~up
  /\ FailAttempt(c)
  /\ Pool!LetOut(c)
  /\ UNCHANGED <<plan, op, number, link, server, flushed, env>>

(* Bug: only a command that was sent is under the timer. *)
TimeOut_SentOnly(c) ==
  /\ pc[c] = "running"
  /\ FailAttempt(c)
  /\ UNCHANGED <<plan, op, number, closed, link, server, flushed, env>>

(* The command's timer, of the pool or of the driver.  The command keeps   *)
(* its place in the line.                                                  *)
TimeOut(c) ==
  /\ pc[c] \in {"offline", "running"}
  /\ FailAttempt(c)
  /\ Pool!LetOut(c)
  /\ UNCHANGED <<plan, op, number, link, server, flushed, env>>

(* The caller drops the future of its call, wherever it is. *)
Cancel(c) ==
  /\ pc[c] # "idle"
  /\ Return(c, "failed")
  /\ UNCHANGED <<plan, op, number, closed, link, server, flushed, env>>

(* The answer ends the call ... *)
Answered(c) ==
  /\ \/ answer[c] = "value" /\ command[c] # "LOAD" /\ Return(c, "ok")
     \/ answer[c] = "nil" /\ Return(c, "nil")
     \/ /\ answer[c] = "NOSCRIPT"
        /\ op[c] = "ScriptLoadAndEval" \/ command[c] = "AGAIN"
        /\ Return(c, "Missing")
  /\ Pool!LetOut(c)
  /\ UNCHANGED <<plan, op, number, link, server, flushed, env>>

(* ... or SCRIPT LOAD succeeded, and script_load_and_eval asks for a lane  *)
(* once more ...                                                           *)
Loaded(c) ==
  /\ op[c] = "ScriptLoadAndEval"
  /\ command[c] = "LOAD" /\ answer[c] = "value"
  /\ answer' = [answer EXCEPT ![c] = "none"]
  /\ conn' = [conn EXCEPT ![c] = 0]
  /\ command' = [command EXCEPT ![c] = "EVALSHA"]
  /\ Goto(c, "waiting")
  /\ Pool!LetOut(c)
  /\ UNCHANGED <<plan, op, number, attempt, result, link, server, flushed,
                 env>>

(* ... or the driver's Script goes on by itself, on the same lane.         *)
Proceed(c) ==
  /\ op[c] = "EvalScript"
  /\ \/ command[c] = "EVALSHA" /\ answer[c] = "NOSCRIPT" /\ Send(c, "LOAD")
     \/ command[c] = "LOAD" /\ answer[c] = "value" /\ Send(c, "AGAIN")
  /\ answer' = [answer EXCEPT ![c] = "none"]
  /\ UNCHANGED <<plan, op, number, attempt, result, closed, up, epoch,
                 server, flushed, env>>

-----------------------------------------------------------------------------
(* Others: the pool is closed, an element is pushed, scripts are forgotten *)
(* (SCRIPT FLUSH, a restart, a failover).                                  *)

Close ==
  /\ UNCHANGED <<caller, link, server, flushed, env>>
  /\ Pool!Shut

Push ==
  /\ pushes < MaxElements
  /\ pushes' = pushes + 1
  /\ elements' = elements + 1
  /\ UNCHANGED <<caller, closed, link, scripts, ran, flushed, flushes>>

Flush ==
  /\ scripts /\ flushes < MaxFlushes
  /\ flushes' = flushes + 1
  /\ scripts' = FALSE
  /\ flushed' = flushed \cup {c \in Callers : pc[c] # "idle"}
  /\ UNCHANGED <<caller, closed, link, elements, ran, pushes>>

Step(c) ==
  \/ Begin(c) \/ NoLane(c) \/ GetLane(c) \/ Online(c) \/ Cut(c) \/ TimeOut(c)
  \/ Cancel(c) \/ Answered(c) \/ Loaded(c) \/ Proceed(c)

Next ==
  \/ \E c \in Callers : Step(c)
  \/ Serve \/ ServeLeft \/ Break \/ Reconnect
  \/ Close \/ Push \/ Flush

Spec == Init /\ [][Next]_vars

(* A call that wants a lane gets one or is turned away, and the timer of a *)
(* command fires; the server need not answer and the driver need not       *)
(* reconnect.                                                              *)
FairSpec ==
  /\ Spec
  /\ \A c \in Callers : WF_vars(GetLane(c) \/ NoLane(c)) /\ WF_vars(TimeOut(c))

-----------------------------------------------------------------------------
Entries == [by : Callers, number : Nat, attempt : 1..max_attempts,
            command : Commands, conn : Connections]

(* Every variable has its type, what stands in a line was sent on its      *)
(* connection, and only a command that was sent is answered.               *)
TypeOK ==
  /\ plan \in [Callers -> Seq(Operations)]
  /\ op \in [Callers -> Operations] /\ number \in [Callers -> Nat]
  /\ attempt \in [Callers -> 0..max_attempts] /\ pc \in [Callers -> Pcs]
  /\ command \in [Callers -> Commands] /\ conn \in [Callers -> 0..epoch]
  /\ answer \in [Callers -> Answers \cup {"none"}]
  /\ result \in [Callers -> {"none", "ok", "nil", "Missing", "failed"}]
  /\ closed \in BOOLEAN /\ up \in BOOLEAN /\ epoch \in Connections
  /\ lines \in [Connections -> Seq(Entries)]
  /\ elements \in Nat /\ scripts \in BOOLEAN
  /\ ran \in [Callers -> Seq([number : Nat, conn : Connections])]
  /\ flushed \subseteq Callers
  /\ \A c \in Callers : answer[c] # "none" => pc[c] = "running"
  /\ \A n \in Connections : \A i \in 1..Len(lines[n]) : lines[n][i].conn = n

(* A call takes effect at most once, whatever times out, breaks or is      *)
(* dropped, and whatever the server still executes of it afterwards: no    *)
(* element is popped and no script run twice for one call                  *)
(* (route_with_safety, and the driver resends nothing).                    *)
AtMostOnce ==
  \A c \in Callers : \A i, j \in 1..Len(ran[c]) :
    ran[c][i].number = ran[c][j].number => i = j

(* The calls of one caller take effect in the order it made them, even     *)
(* those it stopped waiting for, unless the connection broke between them: *)
(* a SET that timed out never overwrites a later one that was sent on the  *)
(* same connection (one connection behind all lanes, pool.rs backend).     *)
ProgramOrder ==
  \A c \in Callers : \A i, j \in 1..Len(ran[c]) :
    i < j => \/ ran[c][i].number <= ran[c][j].number
             \/ ran[c][j].conn < ran[c][i].conn

(* What a call returns is what became of it: after a success it has taken  *)
(* effect, after an empty pop or a missing script it has not and never     *)
(* will, however answers, timers and leftovers of earlier calls mix.       *)
Effects == {"Set", "Blpop", "ScriptLoadAndEval", "EvalScript"}

HasRun(c) == \E i \in 1..Len(ran[c]) : ran[c][i].number = number[c]

AnswersAreTrue ==
  \A c \in Callers : op[c] \in Effects =>
    /\ result[c] = "ok" => HasRun(c)
    /\ result[c] \in {"nil", "Missing"} => ~HasRun(c)

(* script_load_and_eval and eval_script report a missing script only if    *)
(* the server forgot its scripts while they ran: other callers between     *)
(* their commands, lost lanes and new connections are no reason.           *)
MissingMeansForgotten ==
  \A c \in Callers : result[c] = "Missing" => c \in flushed

(* Every call ends, be its lane behind a command that blocks, its driver   *)
(* without a connection or its pool closed (run, with_retry).              *)
Ends == \A c \in Callers : pc[c] # "idle" ~> pc[c] = "idle"
=============================================================================
