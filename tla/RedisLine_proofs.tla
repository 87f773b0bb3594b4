-------------------------- MODULE RedisLine_proofs ---------------------------
(***************************************************************************)
(* Safety of the shared connection for every number of callers, lanes,     *)
(* attempts, breaks and script flushes: a call takes effect at most once,  *)
(* the calls of a caller in order, what a call returns is what became of   *)
(* it, and a script is reported missing only when it was forgotten.        *)
(*                                                                         *)
(* The argument is about the commands that may take effect.  One call has  *)
(* at most one of them in all the lines together, and none once it has     *)
(* taken effect (Once): a call sends one only while it is Fresh, and it is *)
(* Fresh whenever it waits for a lane, because what is retried has no      *)
(* effect and what a script call has behind it is SCRIPT LOAD, or an       *)
(* EVALSHA that was answered NOSCRIPT.  An answer is true when it arrives  *)
(* and stays true until the call returns (Claim), since a caller takes the *)
(* answer to its present command only.                                     *)
(***************************************************************************)
EXTENDS RedisLine, SequenceTheorems, TLAPS

(* The commands that may take effect.                                      *)
Effective == {"SET", "BLPOP", "EVALSHA", "AGAIN"}

(* The places in the line of connection n.                                 *)
Places(n) == 1..Len(lines[n])

(* Commands are of calls that were made, on connections there were.        *)
Known ==
  /\ \A n \in Connections : \A i \in Places(n) :
       n <= epoch /\ lines[n][i].number <= number[lines[n][i].by]
  /\ \A c \in Callers : \A i \in 1..Len(ran[c]) : ran[c][i].number <= number[c]

(* A call stands in the lines with one command that may take effect, and   *)
(* then none has.                                                          *)
Once ==
  /\ \A n, m \in Connections : \A i \in Places(n), j \in Places(m) :
       /\ lines[n][i].by = lines[m][j].by
       /\ lines[n][i].number = lines[m][j].number
       /\ lines[n][i].command \in Effective
            /\ lines[m][j].command \in Effective
       => n = m /\ i = j
  /\ \A n \in Connections : \A i \in Places(n) :
       lines[n][i].command \in Effective =>
         \A j \in 1..Len(ran[lines[n][i].by]) :
           ran[lines[n][i].by][j].number # lines[n][i].number

(* The calls of one caller stand in order, on one connection and from one  *)
(* to the next; what has run came before, or from a later connection.      *)
Ordered ==
  /\ \A n, m \in Connections : \A i \in Places(n), j \in Places(m) :
       /\ lines[n][i].by = lines[m][j].by
       /\ n < m \/ (n = m /\ i < j)
       => lines[n][i].number <= lines[m][j].number
  /\ \A n \in Connections : \A i \in Places(n) :
       \A j \in 1..Len(ran[lines[n][i].by]) :
         \/ ran[lines[n][i].by][j].number <= lines[n][i].number
         \/ n < ran[lines[n][i].by][j].conn

(* Nothing of the caller's call has taken effect or may still do so.       *)
Fresh(c) ==
  /\ \A n \in Connections : \A i \in Places(n) :
       lines[n][i].by = c /\ lines[n][i].command \in Effective =>
         lines[n][i].number < number[c]
  /\ \A i \in 1..Len(ran[c]) : ran[c][i].number < number[c]

(* The commands of operation o.                                            *)
CommandsOf(o) ==
  CASE o = "Get" -> {"GET"} [] o = "Set" -> {"SET"} [] o = "Blpop" -> {"BLPOP"}
    [] o = "ScriptLoadAndEval" -> {"LOAD", "EVALSHA"}
    [] o = "EvalScript" -> {"EVALSHA", "LOAD", "AGAIN"}

(* A caller in a call is about one of its commands and has no result yet.  *)
InCall(c) ==
  /\ pc[c] = "idle" => command[c] = "GET"
  /\ pc[c] # "idle" =>
       command[c] \in CommandsOf(op[c]) /\ attempt[c] >= 1
         /\ result[c] = "none"

(* What an answer or a result says of the effect is so, and a call has no  *)
(* effect behind it when it sends its next command.                        *)
Claim(c) ==
  /\ pc[c] \in {"waiting", "offline"} => Fresh(c)
  /\ pc[c] = "running" /\ command[c] \notin Effective => Fresh(c)
  /\ answer[c] \in {"nil", "NOSCRIPT"} => Fresh(c)
  /\ answer[c] = "value" /\ command[c] \in Effective => HasRun(c)
  /\ result[c] \in {"nil", "Missing"} => Fresh(c)
  /\ result[c] = "ok" /\ op[c] \in Effects => HasRun(c)

(* The server has the script, or lost it during the call of c.             *)
Forgotten(c) == scripts \/ c \in flushed

(* A script that was loaded is missing only when it was forgotten.         *)
ScriptClaim(c) ==
  /\ op[c] = "ScriptLoadAndEval" /\ command[c] = "EVALSHA" => Forgotten(c)
  /\ command[c] = "AGAIN" => Forgotten(c)
  /\ answer[c] = "value" /\ command[c] = "LOAD" => Forgotten(c)
  /\ answer[c] = "NOSCRIPT"
       /\ (op[c] = "ScriptLoadAndEval" \/ command[c] = "AGAIN") =>
       c \in flushed
  /\ result[c] = "Missing" => c \in flushed

(* The inductive invariant, from its parts.                                *)
LineInv == Known /\ Once /\ Ordered
CallInv == \A c \in Callers : InCall(c) /\ Claim(c) /\ ScriptClaim(c)

(* Without a connection there is another one to come.                      *)
Redial == ~up => epoch <= MaxBreaks

IInv == TypeOK /\ Redial /\ LineInv /\ CallInv /\ AtMostOnce /\ ProgramOrder

-----------------------------------------------------------------------------
(* What is known of the constants.                                         *)
LEMMA Bounds ==
  /\ Plans \subseteq [Callers -> Seq(Operations)]
  /\ Lanes \in Nat /\ max_attempts \in Nat /\ max_attempts >= 1
  /\ MaxBreaks \in Nat /\ Connections \subseteq Nat
BY LineAssumption DEF LineAssumption, Connections

-----------------------------------------------------------------------------
(* The lines.                                                              *)

(* What stands in a line.                                                  *)
LEMMA EntryTypes ==
  ASSUME TypeOK, NEW n \in Connections
  PROVE  /\ lines[n] \in Seq(Entries) /\ Len(lines[n]) \in Nat /\ n \in Nat
         /\ \A i \in Places(n) :
              /\ lines[n][i] \in Entries /\ i \in Nat
              /\ lines[n][i].by \in Callers /\ lines[n][i].number \in Nat
              /\ lines[n][i].conn = n
<1>1. lines[n] \in Seq(Entries)
  BY DEF TypeOK
<1>2. Len(lines[n]) \in Nat /\ n \in Nat
  BY <1>1, LenProperties, Bounds
<1>3. \A i \in Places(n) : lines[n][i] \in Entries
  BY <1>1, ElementOfSeq DEF Places
<1>4. \A e \in Entries : e.by \in Callers /\ e.number \in Nat
  BY DEF Entries
<1>5. \A i \in Places(n) : lines[n][i].conn = n /\ i \in Nat
  BY DEF TypeOK, Places
<1>6. QED  BY <1>1, <1>2, <1>3, <1>4, <1>5

(* What has run.                                                           *)
LEMMA RanTypes ==
  ASSUME TypeOK, NEW c \in Callers
  PROVE  /\ ran[c] \in Seq([number : Nat, conn : Connections])
         /\ Len(ran[c]) \in Nat
         /\ \A i \in 1..Len(ran[c]) :
              /\ ran[c][i] \in [number : Nat, conn : Connections]
              /\ ran[c][i].number \in Nat /\ ran[c][i].conn \in Nat
<1>1. ran[c] \in Seq([number : Nat, conn : Connections])
  BY DEF TypeOK
<1>2. Len(ran[c]) \in Nat
  BY <1>1, LenProperties
<1>3. \A i \in 1..Len(ran[c]) :
        ran[c][i] \in [number : Nat, conn : Connections]
  BY <1>1, ElementOfSeq
<1>4. QED  BY <1>1, <1>2, <1>3, Bounds

(* A command that is sent is the last of its line.                         *)
LEMMA SentLast ==
  ASSUME TypeOK, NEW c \in Callers, NEW k \in Commands, attempt[c] >= 1,
         Send(c, k)
  PROVE  /\ lines' \in [Connections -> Seq(Entries)]
         /\ \A n \in Connections : \A i \in 1..Len(lines'[n]) :
              \/ i \in Places(n) /\ lines'[n][i] = lines[n][i]
              \/ /\ n = epoch /\ i = Len(lines[epoch]) + 1
                 /\ lines'[n][i] = Entry(c, k, epoch)
<1> DEFINE e == Entry(c, k, epoch)
<1>1. e \in Entries
  BY Bounds DEF TypeOK, Entry, Entries
<1>2. lines' = [lines EXCEPT ![epoch] = Append(lines[epoch], e)]
  BY DEF Send
<1>3. epoch \in Connections /\ lines[epoch] \in Seq(Entries)
        /\ Len(lines[epoch]) \in Nat
  BY EntryTypes DEF TypeOK
<1> HIDE DEF e
<1>4. /\ Append(lines[epoch], e) \in Seq(Entries)
      /\ Len(Append(lines[epoch], e)) = Len(lines[epoch]) + 1
      /\ \A i \in 1..Len(lines[epoch]) :
           Append(lines[epoch], e)[i] = lines[epoch][i]
      /\ Append(lines[epoch], e)[Len(lines[epoch]) + 1] = e
  BY <1>1, <1>3, AppendProperties
<1>5. lines' \in [Connections -> Seq(Entries)]
  BY <1>2, <1>4 DEF TypeOK
<1>6. ASSUME NEW n \in Connections, NEW i \in 1..Len(lines'[n])
      PROVE  \/ i \in Places(n) /\ lines'[n][i] = lines[n][i]
             \/ n = epoch /\ i = Len(lines[epoch]) + 1 /\ lines'[n][i] = e
  <2>1. CASE n = epoch
    <3>1. lines'[n] = Append(lines[epoch], e)
      BY <1>2, <2>1 DEF TypeOK
    <3>2. i \in 1..Len(lines[epoch]) \/ i = Len(lines[epoch]) + 1
      BY <1>3, <1>4, <1>6, <3>1
    <3>3. QED  BY <1>4, <2>1, <3>1, <3>2 DEF Places
  <2>2. CASE n # epoch
    BY <1>2, <2>2 DEF TypeOK, Places
  <2>3. QED  BY <2>1, <2>2
<1>7. QED  BY <1>5, <1>6 DEF e

(* A command that may take effect is sent by a fresh call only, and comes  *)
(* after all the commands of its caller.                                   *)
LEMMA SendLines ==
  ASSUME IInv, NEW c \in Callers, NEW k \in Commands, pc[c] # "idle",
         Send(c, k), k \in Effective =>
           Fresh(c), UNCHANGED <<epoch, number, ran>>
  PROVE  /\ LineInv'
         /\ \A n \in Connections : \A i \in 1..Len(lines'[n]) : lines'[n][i].conn = n
         /\ \A d \in Callers : Fresh(d) /\ (d # c \/ k \notin Effective) =>
              Fresh(d)'
<1> DEFINE e == Entry(c, k, epoch)
<1>1. \A n \in Connections : \A i \in 1..Len(lines'[n]) :
        \/ i \in Places(n) /\ lines'[n][i] = lines[n][i]
        \/ n = epoch /\ i = Len(lines[epoch]) + 1 /\ lines'[n][i] = e
  BY SentLast DEF IInv, CallInv, InCall
<1>2. e.by = c /\ e.number = number[c] /\ e.command = k /\ e.conn = epoch
  BY DEF Entry
<1>3. /\ epoch \in Connections /\ epoch \in Nat /\ Len(lines[epoch]) \in Nat
      /\ \A d \in Callers : number[d] \in Nat
  BY EntryTypes DEF IInv, TypeOK
<1> HIDE DEF e
<1>4. Known'
  <2>1. ASSUME NEW n \in Connections, NEW i \in 1..Len(lines'[n])
        PROVE  n <= epoch /\ lines'[n][i].number <= number[lines'[n][i].by]
    <3>1. CASE i \in Places(n) /\ lines'[n][i] = lines[n][i]
      BY <3>1 DEF IInv, LineInv, Known
    <3>2. CASE n = epoch /\ lines'[n][i] = e
      BY <1>2, <1>3, <3>2
    <3>3. QED  BY <1>1, <3>1, <3>2
  <2>2. \A d \in Callers : \A i \in 1..Len(ran[d]) :
          ran[d][i].number <= number[d]
    BY DEF IInv, LineInv, Known
  <2>3. QED  BY <2>1, <2>2 DEF Known, Places
<1>5. Once'
  <2>1. ASSUME NEW n \in Connections, NEW m \in Connections,
               NEW i \in 1..Len(lines'[n]), NEW j \in 1..Len(lines'[m]),
               lines'[n][i].by = lines'[m][j].by,
               lines'[n][i].number = lines'[m][j].number,
               lines'[n][i].command \in Effective,
                 lines'[m][j].command \in Effective
        PROVE  n = m /\ i = j
    <3>1. CASE i \in Places(n) /\ j \in Places(m)
                 /\ lines'[n][i] = lines[n][i] /\ lines'[m][j] = lines[m][j]
      BY <2>1, <3>1 DEF IInv, LineInv, Once
    <3>2. CASE lines'[n][i] = e /\ n = epoch /\ i = Len(lines[epoch]) + 1
      <4>1. Fresh(c)
        BY <1>2, <2>1, <3>2
      <4>2. ~(j \in Places(m) /\ lines'[m][j] = lines[m][j])
        <5>1. SUFFICES ASSUME j \in Places(m), lines'[m][j] = lines[m][j]
                       PROVE  FALSE
          OBVIOUS
        <5>2. lines[m][j].by = c /\ lines[m][j].number = number[c]
                /\ lines[m][j].command \in Effective
          BY <1>2, <2>1, <3>2, <5>1
        <5>3. lines[m][j].number < number[c]
          BY <4>1, <5>1, <5>2 DEF Fresh
        <5>4. QED  BY <1>3, <5>2, <5>3
      <4>3. QED  BY <1>1, <3>2, <4>2
    <3>3. CASE lines'[m][j] = e /\ m = epoch /\ j = Len(lines[epoch]) + 1
      <4>1. Fresh(c)
        BY <1>2, <2>1, <3>3
      <4>2. ~(i \in Places(n) /\ lines'[n][i] = lines[n][i])
        <5>1. SUFFICES ASSUME i \in Places(n), lines'[n][i] = lines[n][i]
                       PROVE  FALSE
          OBVIOUS
        <5>2. lines[n][i].by = c /\ lines[n][i].number = number[c]
                /\ lines[n][i].command \in Effective
          BY <1>2, <2>1, <3>3, <5>1
        <5>3. lines[n][i].number < number[c]
          BY <4>1, <5>1, <5>2 DEF Fresh
        <5>4. QED  BY <1>3, <5>2, <5>3
      <4>3. QED  BY <1>1, <3>3, <4>2
    <3>4. QED  BY <1>1, <3>1, <3>2, <3>3
  <2>2. ASSUME NEW n \in Connections, NEW i \in 1..Len(lines'[n]),
               lines'[n][i].command \in Effective,
               NEW j \in 1..Len(ran[lines'[n][i].by])
        PROVE  ran[lines'[n][i].by][j].number # lines'[n][i].number
    <3>1. CASE i \in Places(n) /\ lines'[n][i] = lines[n][i]
      BY <2>2, <3>1 DEF IInv, LineInv, Once
    <3>2. CASE lines'[n][i] = e
      <4>1. Fresh(c) /\ j \in 1..Len(ran[c])
        BY <1>2, <2>2, <3>2
      <4>2. ran[c][j].number < number[c] /\ ran[c][j].number \in Nat
        BY <4>1, RanTypes DEF Fresh, IInv
      <4>3. QED  BY <1>2, <1>3, <3>2, <4>2
    <3>3. QED  BY <1>1, <3>1, <3>2
  <2>3. QED  BY <2>1, <2>2 DEF Once, Places
<1>6. Ordered'
  <2>1. ASSUME NEW n \in Connections, NEW m \in Connections,
               NEW i \in 1..Len(lines'[n]), NEW j \in 1..Len(lines'[m]),
               lines'[n][i].by = lines'[m][j].by,
               n < m \/ (n = m /\ i < j)
        PROVE  lines'[n][i].number <= lines'[m][j].number
    <3>1. CASE j \in Places(m) /\ lines'[m][j] = lines[m][j]
      <4>1. n <= epoch /\ m <= epoch /\ n \in Nat /\ m \in Nat /\ i \in Nat
              /\ j \in Nat
        BY <1>1, <1>3, <3>1, EntryTypes, Bounds DEF IInv, LineInv, Known
      <4>2. CASE i \in Places(n) /\ lines'[n][i] = lines[n][i]
        BY <2>1, <3>1, <4>2 DEF IInv, LineInv, Ordered
      <4>3. CASE n = epoch /\ i = Len(lines[epoch]) + 1
        BY <1>3, <2>1, <3>1, <4>1, <4>3 DEF Places
      <4>4. QED  BY <1>1, <4>2, <4>3
    <3>2. CASE lines'[m][j] = e
      <4>1. CASE i \in Places(n) /\ lines'[n][i] = lines[n][i]
        BY <1>2, <2>1, <3>2, <4>1 DEF IInv, LineInv, Known
      <4>2. CASE lines'[n][i] = e
        BY <1>2, <1>3, <3>2, <4>2
      <4>3. QED  BY <1>1, <4>1, <4>2
    <3>3. QED  BY <1>1, <3>1, <3>2
  <2>2. ASSUME NEW n \in Connections, NEW i \in 1..Len(lines'[n]),
               NEW j \in 1..Len(ran[lines'[n][i].by])
        PROVE  \/ ran[lines'[n][i].by][j].number <= lines'[n][i].number
               \/ n < ran[lines'[n][i].by][j].conn
    <3>1. CASE i \in Places(n) /\ lines'[n][i] = lines[n][i]
      BY <2>2, <3>1 DEF IInv, LineInv, Ordered
    <3>2. CASE lines'[n][i] = e
      BY <1>2, <2>2, <3>2 DEF IInv, LineInv, Known
    <3>3. QED  BY <1>1, <3>1, <3>2
  <2>3. QED  BY <2>1, <2>2 DEF Ordered, Places
<1>7. \A n \in Connections : \A i \in 1..Len(lines'[n]) : lines'[n][i].conn = n
  BY <1>1, <1>2, EntryTypes DEF IInv
<1>8. ASSUME NEW d \in Callers, Fresh(d), d # c \/ k \notin Effective
      PROVE  Fresh(d)'
  BY <1>1, <1>2, <1>8 DEF Fresh, Places
<1>9. QED  BY <1>4, <1>5, <1>6, <1>7, <1>8 DEF LineInv

-----------------------------------------------------------------------------
(* The server.                                                             *)

(* The others in the line move up.                                         *)
LEMMA TakenFirst ==
  ASSUME TypeOK, NEW n \in Connections, NEW a, Take(n, a)
  PROVE  /\ lines[n] # <<>> /\ Head(lines[n]) = lines[n][1] /\ 1 \in Places(n)
         /\ lines' \in [Connections -> Seq(Entries)]
         /\ \A m \in Connections : m # n => lines'[m] = lines[m]
         /\ \A i \in 1..Len(lines'[n]) :
              i + 1 \in Places(n) /\ lines'[n][i] = lines[n][i + 1]
<1>1. lines[n] # <<>> /\ lines' = [lines EXCEPT ![n] = Tail(lines[n])]
  BY DEF Take
<1>2. lines[n] \in Seq(Entries) /\ Len(lines[n]) \in Nat
  BY EntryTypes
<1>3. /\ Tail(lines[n]) \in Seq(Entries)
      /\ Len(Tail(lines[n])) = Len(lines[n]) - 1
      /\ \A i \in 1..Len(Tail(lines[n])) : Tail(lines[n])[i] = lines[n][i + 1]
  BY <1>1, <1>2, HeadTailProperties
<1>4. Head(lines[n]) = lines[n][1] /\ 1 \in Places(n)
  BY <1>1, <1>2, EmptySeq DEF Places
<1>5. lines' \in [Connections -> Seq(Entries)] /\ lines'[n] = Tail(lines[n])
  BY <1>1, <1>3 DEF TypeOK
<1>6. \A m \in Connections : m # n => lines'[m] = lines[m]
  BY <1>1 DEF TypeOK
<1>7. \A i \in 1..Len(lines'[n]) : i + 1 \in Places(n)
  BY <1>2, <1>3, <1>5 DEF Places
<1>8. QED  BY <1>1, <1>3, <1>4, <1>5, <1>6, <1>7

(* What executing m does to what has run.                                  *)
LEMMA ExecuteDoes ==
  ASSUME TypeOK, NEW m \in Entries, NEW a, Execute(m, a)
  PROVE  /\ elements' \in Nat /\ scripts' \in BOOLEAN
         /\ ran' \in [Callers -> Seq([number : Nat, conn : Connections])]
         /\ scripts => scripts'
         /\ m.command = "LOAD" /\ a = "value" => scripts'
         /\ a = "NOSCRIPT" => m.command \in {"EVALSHA", "AGAIN"} /\ ~scripts
         /\ a \in {"nil", "NOSCRIPT"} => m.command \in Effective
         /\ \A c \in Callers : c # m.by => ran'[c] = ran[c]
         /\ \/ ran' = ran /\ (m.command \in Effective => a # "value")
            \/ /\ m.command \in Effective /\ a = "value"
               /\ Len(ran'[m.by]) = Len(ran[m.by]) + 1
               /\ \A i \in 1..Len(ran[m.by]) : ran'[m.by][i] = ran[m.by][i]
               /\ ran'[m.by][Len(ran[m.by]) + 1]
                    = [number |-> m.number, conn |-> m.conn]
<1> DEFINE r == [number |-> m.number, conn |-> m.conn]
<1>1. m.by \in Callers /\ m.command \in Commands
        /\ r \in [number : Nat, conn : Connections]
  BY DEF Entries
<1>2. ran[m.by] \in Seq([number : Nat, conn : Connections])
        /\ Len(ran[m.by]) \in Nat
  BY <1>1, RanTypes
<1> HIDE DEF r
<1>3. ASSUME TakesEffect(m)
      PROVE  /\ ran' \in [Callers -> Seq([number : Nat, conn : Connections])]
             /\ \A c \in Callers : c # m.by => ran'[c] = ran[c]
             /\ Len(ran'[m.by]) = Len(ran[m.by]) + 1
             /\ \A i \in 1..Len(ran[m.by]) : ran'[m.by][i] = ran[m.by][i]
             /\ ran'[m.by][Len(ran[m.by]) + 1] = r
  <2>1. ran' = [ran EXCEPT ![m.by] = Append(ran[m.by], r)]
    BY <1>3 DEF TakesEffect, r
  <2>2. /\ Append(ran[m.by], r) \in Seq([number : Nat, conn : Connections])
        /\ Len(Append(ran[m.by], r)) = Len(ran[m.by]) + 1
        /\ \A i \in 1..Len(ran[m.by]) : Append(ran[m.by], r)[i] = ran[m.by][i]
        /\ Append(ran[m.by], r)[Len(ran[m.by]) + 1] = r
    BY <1>1, <1>2, AppendProperties
  <2>3. ran'[m.by] = Append(ran[m.by], r)
    BY <1>1, <2>1 DEF TypeOK
  <2>4. ran' \in [Callers -> Seq([number : Nat, conn : Connections])]
    BY <2>1, <2>2 DEF TypeOK
  <2>5. \A c \in Callers : c # m.by => ran'[c] = ran[c]
    BY <2>1 DEF TypeOK
  <2>6. QED  BY <2>2, <2>3, <2>4, <2>5
<1>4. elements' \in Nat /\ scripts' \in BOOLEAN
  <2>1. elements \in Nat /\ scripts \in BOOLEAN
    BY DEF TypeOK
  <2>2. elements' = elements \/ (elements > 0 /\ elements' = elements - 1)
    BY DEF Execute, server
  <2>3. scripts' = scripts \/ scripts' = TRUE
    BY DEF Execute, server
  <2>4. elements' \in Nat
    BY <2>1, <2>2
  <2>5. scripts' \in BOOLEAN
    BY <2>1, <2>3
  <2>6. QED  BY <2>4, <2>5
<1>5. /\ scripts => scripts'
      /\ m.command = "LOAD" /\ a = "value" => scripts'
      /\ a = "NOSCRIPT" => m.command \in {"EVALSHA", "AGAIN"} /\ ~scripts
      /\ a \in {"nil", "NOSCRIPT"} => m.command \in Effective
  BY DEF Execute, server, Effective
<1>6. \/ TakesEffect(m) /\ m.command \in Effective /\ a = "value"
      \/ ran' = ran /\ (m.command \in Effective => a # "value")
  BY DEF Execute, server, Effective
<1>7. CASE ran' = ran /\ (m.command \in Effective => a # "value")
  BY <1>4, <1>5, <1>7 DEF TypeOK
<1>8. CASE TakesEffect(m) /\ m.command \in Effective /\ a = "value"
  BY <1>3, <1>4, <1>5, <1>8 DEF r
<1>9. QED  BY <1>6, <1>7, <1>8

(* A command that is executed leaves the line, so that it runs once, and   *)
(* nothing of its caller is before it.                                     *)
LEMMA TakeLines ==
  ASSUME IInv, NEW n \in Connections, NEW a, Take(n, a),
         UNCHANGED <<epoch, number>>,
         NEW m, m = Head(lines[n])
  PROVE  /\ LineInv' /\ AtMostOnce' /\ ProgramOrder'
         /\ lines' \in [Connections -> Seq(Entries)]
         /\ \A k \in Connections : \A i \in 1..Len(lines'[k]) : lines'[k][i].conn = k
         /\ m \in Entries
         /\ \A c \in Callers : (Fresh(c) => Fresh(c)')
              /\ (HasRun(c) => HasRun(c)')
         /\ m.number = number[m.by] /\ m.command \in Effective =>
              IF a = "value" THEN HasRun(m.by)' ELSE Fresh(m.by)'
<1>1. /\ m = lines[n][1] /\ 1 \in Places(n)
      /\ lines' \in [Connections -> Seq(Entries)]
      /\ \A k \in Connections : k # n => lines'[k] = lines[k]
      /\ \A i \in 1..Len(lines'[n]) :
           i + 1 \in Places(n) /\ lines'[n][i] = lines[n][i + 1]
  BY TakenFirst DEF IInv
<1>2. m \in Entries /\ m.by \in Callers /\ m.number \in Nat /\ m.conn = n
  BY <1>1, EntryTypes DEF IInv
<1>3. Execute(m, a)
  BY DEF Take
<1>4. /\ \A c \in Callers : c # m.by => ran'[c] = ran[c]
      /\ \/ ran' = ran /\ (m.command \in Effective => a # "value")
         \/ /\ m.command \in Effective /\ a = "value"
            /\ Len(ran'[m.by]) = Len(ran[m.by]) + 1
            /\ \A i \in 1..Len(ran[m.by]) : ran'[m.by][i] = ran[m.by][i]
            /\ ran'[m.by][Len(ran[m.by]) + 1]
                 = [number |-> m.number, conn |-> m.conn]
  BY <1>2, <1>3, ExecuteDoes DEF IInv
(* What is known of the command at the head of line n.                     *)
<1>5. ASSUME m.command \in Effective, NEW x \in 1..Len(ran[m.by])
       PROVE  ran[m.by][x].number # m.number
  <2>1. \A i \in Places(n) : lines[n][i].command \in Effective =>
          \A j \in 1..Len(ran[lines[n][i].by]) :
            ran[lines[n][i].by][j].number # lines[n][i].number
    BY DEF IInv, LineInv, Once
  <2>2. m = lines[n][1] /\ 1 \in Places(n)
    BY <1>1
  <2>3. QED  BY <1>5, <2>1, <2>2
<1>6. ASSUME NEW x \in 1..Len(ran[m.by])
       PROVE  ran[m.by][x].number <= m.number \/ n < ran[m.by][x].conn
  <2>1. \A i \in Places(n) : \A j \in 1..Len(ran[lines[n][i].by]) :
          \/ ran[lines[n][i].by][j].number <= lines[n][i].number
          \/ n < ran[lines[n][i].by][j].conn
    BY DEF IInv, LineInv, Ordered
  <2>2. m = lines[n][1] /\ 1 \in Places(n)
    BY <1>1
  <2>3. QED  BY <1>6, <2>1, <2>2
<1>7. m.number <= number[m.by]
  <2>1. \A i \in Places(n) : lines[n][i].number <= number[lines[n][i].by]
    BY DEF IInv, LineInv, Known
  <2>2. QED  BY <1>1, <2>1
(* Where a command stands now it stood before, or one place further.       *)
<1>8. ASSUME NEW k \in Connections, NEW i \in 1..Len(lines'[k])
      PROVE  \E j \in Places(k) : /\ lines'[k][i] = lines[k][j]
                                  /\ j = IF k = n THEN i + 1 ELSE i
                                  /\ ~(k = n /\ j = 1)
  <2>1. CASE k = n
    <3>1. i + 1 \in Places(n) /\ lines'[n][i] = lines[n][i + 1]
      BY <1>1, <2>1
    <3>2. i \in Nat /\ i >= 1
      OBVIOUS
    <3>3. i + 1 # 1
      BY <3>2
    <3>4. QED  BY <2>1, <3>1, <3>3
  <2>2. CASE k # n
    BY <1>1, <2>2 DEF Places
  <2>3. QED  BY <2>1, <2>2
(* What has run now had run before, or was at the head of line n.          *)
<1>9. ASSUME NEW c \in Callers, NEW i \in 1..Len(ran'[c])
      PROVE  \/ i \in 1..Len(ran[c]) /\ ran'[c][i] = ran[c][i]
             \/ /\ c = m.by /\ i = Len(ran[c]) + 1 /\ m.command \in Effective
                /\ ran'[c][i].number = m.number /\ ran'[c][i].conn = n
  <2>1. CASE ran' = ran
    BY <2>1
  <2>2. CASE c # m.by
    BY <1>4, <2>2
  <2>3. CASE c = m.by /\ ran' # ran
    <3>1. Len(ran[c]) \in Nat
      BY RanTypes DEF IInv
    <3>2. /\ m.command \in Effective /\ Len(ran'[c]) = Len(ran[c]) + 1
          /\ \A x \in 1..Len(ran[c]) : ran'[c][x] = ran[c][x]
          /\ ran'[c][Len(ran[c]) + 1]
               = [number |-> m.number, conn |-> m.conn]
      BY <1>4, <2>3
    <3>3. i \in 1..Len(ran[c]) \/ i = Len(ran[c]) + 1
      BY <3>1, <3>2
    <3>4. CASE i = Len(ran[c]) + 1
      <4>1. ran'[c][i] = [number |-> m.number, conn |-> n]
        BY <1>2, <3>2, <3>4
      <4>2. ran'[c][i].number = m.number /\ ran'[c][i].conn = n
        BY <4>1
      <4>3. QED  BY <2>3, <3>2, <3>4, <4>2
    <3>5. QED  BY <3>2, <3>3, <3>4
  <2>4. QED  BY <2>1, <2>2, <2>3
<1>10. Known'
  <2>1. ASSUME NEW k \in Connections, NEW i \in 1..Len(lines'[k])
        PROVE  k <= epoch /\ lines'[k][i].number <= number[lines'[k][i].by]
    <3>1. PICK j \in Places(k) : lines'[k][i] = lines[k][j]
      BY <1>8
    <3>2. k <= epoch /\ lines[k][j].number <= number[lines[k][j].by]
      BY DEF IInv, LineInv, Known
    <3>3. QED  BY <3>1, <3>2
  <2>2. ASSUME NEW c \in Callers, NEW i \in 1..Len(ran'[c])
        PROVE  ran'[c][i].number <= number[c]
    <3>1. CASE i \in 1..Len(ran[c]) /\ ran'[c][i] = ran[c][i]
      BY <3>1 DEF IInv, LineInv, Known
    <3>2. QED  BY <1>9, <1>7, <3>1
  <2>3. QED  BY <2>1, <2>2 DEF Known, Places
<1>11. Once'
  <2>1. ASSUME NEW k \in Connections, NEW l \in Connections,
               NEW i \in 1..Len(lines'[k]), NEW j \in 1..Len(lines'[l]),
               lines'[k][i].by = lines'[l][j].by,
               lines'[k][i].number = lines'[l][j].number,
               lines'[k][i].command \in Effective,
                 lines'[l][j].command \in Effective
        PROVE  k = l /\ i = j
    <3>1. PICK x \in Places(k) : lines'[k][i] = lines[k][x]
            /\ x = IF k = n THEN i + 1 ELSE i
      BY <1>8
    <3>2. PICK y \in Places(l) : lines'[l][j] = lines[l][y]
            /\ y = IF l = n THEN j + 1 ELSE j
      BY <1>8
    <3>3. k = l /\ x = y
      BY <2>1, <3>1, <3>2 DEF IInv, LineInv, Once
    <3>4. i \in Nat /\ j \in Nat
      BY <2>1 DEF Places
    <3>5. QED  BY <3>1, <3>2, <3>3, <3>4
  <2>2. ASSUME NEW k \in Connections, NEW i \in 1..Len(lines'[k]),
               lines'[k][i].command \in Effective,
               NEW j \in 1..Len(ran'[lines'[k][i].by])
        PROVE  ran'[lines'[k][i].by][j].number # lines'[k][i].number
    <3>1. PICK x \in Places(k) : lines'[k][i] = lines[k][x] /\ ~(k = n /\ x = 1)
      BY <1>8
    <3> DEFINE c == lines[k][x].by
    <3>2. c \in Callers
      BY EntryTypes DEF IInv
    <3>3. CASE j \in 1..Len(ran[c]) /\ ran'[c][j] = ran[c][j]
      BY <2>2, <3>1, <3>3 DEF IInv, LineInv, Once
    <3>4. CASE c = m.by /\ m.command \in Effective
                 /\ ran'[c][j].number = m.number
      <4>1. m.number # lines[k][x].number
        BY <1>1, <2>2, <3>1, <3>4, SMTT(30) DEF IInv, LineInv, Once
      <4>2. QED  BY <3>1, <3>4, <4>1
    <3>5. QED  BY <1>9, <2>2, <3>1, <3>2, <3>3, <3>4
  <2>3. \A k, l \in Connections : \A i \in 1..Len(lines'[k]),
          j \in 1..Len(lines'[l]) :
          /\ lines'[k][i].by = lines'[l][j].by
          /\ lines'[k][i].number = lines'[l][j].number
          /\ lines'[k][i].command \in Effective
               /\ lines'[l][j].command \in Effective
          => k = l /\ i = j
    BY <2>1
  <2>4. QED  BY <2>2, <2>3 DEF Once, Places
<1>12. Ordered'
  <2>1. ASSUME NEW k \in Connections, NEW l \in Connections,
               NEW i \in 1..Len(lines'[k]), NEW j \in 1..Len(lines'[l]),
               lines'[k][i].by = lines'[l][j].by,
               k < l \/ (k = l /\ i < j)
        PROVE  lines'[k][i].number <= lines'[l][j].number
    <3>1. PICK x \in Places(k) : lines'[k][i] = lines[k][x]
            /\ x = IF k = n THEN i + 1 ELSE i
      BY <1>8
    <3>2. PICK y \in Places(l) : lines'[l][j] = lines[l][y]
            /\ y = IF l = n THEN j + 1 ELSE j
      BY <1>8
    <3>3. i \in Nat /\ j \in Nat
      BY <2>1 DEF Places
    <3>4. k < l \/ (k = l /\ x < y)
      BY <2>1, <3>1, <3>2, <3>3
    <3>5. QED  BY <2>1, <3>1, <3>2, <3>4 DEF IInv, LineInv, Ordered
  <2>2. ASSUME NEW k \in Connections, NEW i \in 1..Len(lines'[k]),
               NEW j \in 1..Len(ran'[lines'[k][i].by])
        PROVE  \/ ran'[lines'[k][i].by][j].number <= lines'[k][i].number
               \/ k < ran'[lines'[k][i].by][j].conn
    <3>1. PICK x \in Places(k) : lines'[k][i] = lines[k][x] /\ ~(k = n /\ x = 1)
      BY <1>8
    <3> DEFINE c == lines[k][x].by
    <3>2. c \in Callers /\ x \in Nat /\ k \in Nat /\ n \in Nat /\ x >= 1
      BY EntryTypes DEF IInv, Places
    <3>3. CASE j \in 1..Len(ran[c]) /\ ran'[c][j] = ran[c][j]
      BY <2>2, <3>1, <3>3 DEF IInv, LineInv, Ordered
    <3>4. CASE c = m.by /\ ran'[c][j].number = m.number /\ ran'[c][j].conn = n
      <4>1. CASE k < n
        BY <3>1, <3>4, <4>1
      <4>2. CASE n < k \/ (n = k /\ 1 < x)
        <5>1. \A y \in Places(n) :
                lines[n][y].by = c /\ (n < k \/ (n = k /\ y < x)) =>
                  lines[n][y].number <= lines[k][x].number
          BY <3>1 DEF IInv, LineInv, Ordered
        <5>2. m.number <= lines[k][x].number
          BY <1>1, <3>4, <4>2, <5>1, SMTT(30)
        <5>3. QED  BY <3>1, <3>4, <5>2
      <4>3. QED  BY <3>1, <3>2, <4>1, <4>2
    <3>5. QED  BY <1>9, <2>2, <3>1, <3>2, <3>3, <3>4
  <2>3. QED  BY <2>1, <2>2 DEF Ordered, Places
<1>13. AtMostOnce'
  <2>1. ASSUME NEW c \in Callers, NEW i \in 1..Len(ran'[c]),
                 NEW j \in 1..Len(ran'[c]),
               ran'[c][i].number = ran'[c][j].number
        PROVE  i = j
    <3>1. \A x, y \in 1..Len(ran[c]) :
            ran[c][x].number = ran[c][y].number => x = y
      BY DEF IInv, AtMostOnce
    <3>2. CASE ran'[c][i] = ran[c][i] /\ i \in 1..Len(ran[c])
      <4>1. CASE ran'[c][j] = ran[c][j] /\ j \in 1..Len(ran[c])
        BY <2>1, <3>1, <3>2, <4>1
      <4>2. CASE c = m.by /\ m.command \in Effective
                   /\ ran'[c][j].number = m.number
        BY <1>5, <2>1, <3>2, <4>2
      <4>3. QED  BY <1>9, <4>1, <4>2
    <3>3. CASE c = m.by /\ i = Len(ran[c]) + 1 /\ m.command \in Effective
                 /\ ran'[c][i].number = m.number
      <4>1. CASE ran'[c][j] = ran[c][j] /\ j \in 1..Len(ran[c])
        BY <1>5, <2>1, <3>3, <4>1
      <4>2. CASE j = Len(ran[c]) + 1
        BY <3>3, <4>2
      <4>3. QED  BY <1>9, <4>1, <4>2
    <3>4. QED  BY <1>9, <3>2, <3>3
  <2>2. QED  BY <2>1 DEF AtMostOnce
<1>14. ProgramOrder'
  <2>1. ASSUME NEW c \in Callers, NEW i \in 1..Len(ran'[c]),
                 NEW j \in 1..Len(ran'[c]), i < j
        PROVE  ran'[c][i].number <= ran'[c][j].number
                 \/ ran'[c][j].conn < ran'[c][i].conn
    <3>1. i \in 1..Len(ran[c]) /\ ran'[c][i] = ran[c][i]
      <4>1. Len(ran[c]) \in Nat
        BY RanTypes DEF IInv
      <4>2. i \in Nat /\ j \in Nat /\ j <= Len(ran[c]) + 1
        BY <1>9, <4>1
      <4>3. i # Len(ran[c]) + 1
        BY <2>1, <4>1, <4>2
      <4>4. QED  BY <1>9, <4>3
    <3>2. CASE j \in 1..Len(ran[c]) /\ ran'[c][j] = ran[c][j]
      BY <2>1, <3>1, <3>2 DEF IInv, ProgramOrder
    <3>3. CASE c = m.by /\ ran'[c][j].number = m.number /\ ran'[c][j].conn = n
      BY <1>6, <3>1, <3>3
    <3>4. QED  BY <1>9, <3>2, <3>3
  <2>2. \A c \in Callers : \A i, j \in 1..Len(ran'[c]) :
          i < j => \/ ran'[c][i].number <= ran'[c][j].number
                   \/ ran'[c][j].conn < ran'[c][i].conn
    BY <2>1
  <2>3. QED  BY <2>2 DEF ProgramOrder
<1>15. ASSUME NEW k \in Connections, NEW i \in 1..Len(lines'[k])
       PROVE  lines'[k][i].conn = k
  <2>1. PICK j \in Places(k) : lines'[k][i] = lines[k][j]
    BY <1>8
  <2>2. lines[k][j].conn = k
    BY EntryTypes DEF IInv
  <2>3. QED  BY <2>1, <2>2
<1>16. ASSUME NEW c \in Callers, Fresh(c)
       PROVE  Fresh(c)'
  <2>1. ~(c = m.by /\ m.command \in Effective /\ m.number = number[c])
    BY <1>1, <1>2, <1>16 DEF Fresh
  <2>2. c = m.by /\ m.command \in Effective => m.number < number[c]
    BY <1>1, <1>16 DEF Fresh
  <2>3. \A i \in 1..Len(ran'[c]) : ran'[c][i].number < number[c]
    BY <1>9, <1>16, <2>2 DEF Fresh
  <2>4. \A k \in Connections : \A i \in 1..Len(lines'[k]) :
          lines'[k][i].by = c /\ lines'[k][i].command \in Effective =>
            lines'[k][i].number < number[c]
    BY <1>8, <1>16 DEF Fresh
  <2>5. QED  BY <2>3, <2>4 DEF Fresh, Places
<1>17. ASSUME NEW c \in Callers, HasRun(c)
       PROVE  HasRun(c)'
  <2>1. PICK i \in 1..Len(ran[c]) : ran[c][i].number = number[c]
    BY <1>17 DEF HasRun
  <2>2. i \in 1..Len(ran'[c]) /\ ran'[c][i] = ran[c][i]
    <3>1. CASE ran'[c] = ran[c]
      BY <3>1
    <3>2. CASE c = m.by /\ ran' # ran
      <4>1. Len(ran[c]) \in Nat
        BY RanTypes DEF IInv
      <4>2. Len(ran'[c]) = Len(ran[c]) + 1 /\ ran'[c][i] = ran[c][i]
        BY <1>4, <3>2
      <4>3. QED  BY <4>1, <4>2
    <3>3. QED  BY <1>4, <3>1, <3>2
  <2>3. QED  BY <2>1, <2>2 DEF HasRun
<1>18. ASSUME m.number = number[m.by], m.command \in Effective
       PROVE  IF a = "value" THEN HasRun(m.by)' ELSE Fresh(m.by)'
  <2>1. CASE a = "value"
    <3>1. Len(ran[m.by]) + 1 \in 1..Len(ran'[m.by])
          /\ ran'[m.by][Len(ran[m.by]) + 1].number = m.number
      <4>1. Len(ran[m.by]) \in Nat
        BY <1>2, RanTypes DEF IInv
      <4>2. /\ Len(ran'[m.by]) = Len(ran[m.by]) + 1
            /\ ran'[m.by][Len(ran[m.by]) + 1]
                 = [number |-> m.number, conn |-> m.conn]
        BY <1>4, <1>18, <2>1
      <4>3. Len(ran[m.by]) + 1 \in 1..Len(ran'[m.by])
        BY <4>1, <4>2
      <4>4. QED  BY <4>2, <4>3
    <3>2. QED  BY <1>18, <2>1, <3>1 DEF HasRun
  <2>2. CASE a # "value"
    <3>1. ran' = ran
      BY <1>4, <2>2
    <3>2. \A i \in 1..Len(ran[m.by]) : ran[m.by][i].number < number[m.by]
      <4>1. \A i \in 1..Len(ran[m.by]) : ran[m.by][i].number # m.number
        BY <1>18, <1>5
      <4>2. \A i \in 1..Len(ran[m.by]) : ran[m.by][i].number <= number[m.by]
        BY <1>2 DEF IInv, LineInv, Known
      <4>3. number[m.by] \in Nat
              /\ \A i \in 1..Len(ran[m.by]) : ran[m.by][i].number \in Nat
        <5>1. m.by \in Callers /\ TypeOK
          BY <1>2 DEF IInv
        <5>2. number[m.by] \in Nat
          BY <5>1 DEF TypeOK
        <5>3. \A i \in 1..Len(ran[m.by]) : ran[m.by][i].number \in Nat
          BY <5>1, RanTypes, SMTT(30)
        <5>4. QED  BY <5>2, <5>3
      <4>4. QED  BY <1>18, <4>1, <4>2, <4>3
    <3>3. ASSUME NEW k \in Connections, NEW i \in 1..Len(lines'[k]),
                 lines'[k][i].by = m.by, lines'[k][i].command \in Effective
          PROVE  lines'[k][i].number < number[m.by]
      <4>1. PICK x \in Places(k) : lines'[k][i] = lines[k][x] /\ ~(k = n /\ x = 1)
        BY <1>8
      <4>2. lines[k][x].number # m.number
        BY <1>1, <1>18, <3>3, <4>1 DEF IInv, LineInv, Once
      <4>3. lines[k][x].number <= number[m.by] /\ lines[k][x].number \in Nat
        BY <3>3, <4>1, EntryTypes DEF IInv, LineInv, Known
      <4>4. QED  BY <1>2, <1>18, <4>1, <4>2, <4>3
    <3>4. QED  BY <2>2, <3>1, <3>2, <3>3 DEF Fresh, Places
  <2>3. QED  BY <2>1, <2>2
<1>19. QED
  BY <1>1, <1>2, <1>10, <1>11, <1>12, <1>13, <1>14, <1>15, <1>16, <1>17, <1>18
     DEF LineInv

-----------------------------------------------------------------------------
(* A caller.                                                               *)

(* How a call may have ended.                                              *)
Results == {"none", "ok", "nil", "Missing", "failed"}

(* The types of what a call changes.                                       *)
CallTypes ==
  /\ attempt \in [Callers -> 0..max_attempts] /\ pc \in [Callers -> Pcs]
  /\ command \in [Callers -> Commands] /\ conn \in [Callers -> 0..epoch]
  /\ answer \in [Callers -> Answers \cup {"none"}]
  /\ result \in [Callers -> Results]
  /\ \A c \in Callers : answer[c] # "none" => pc[c] = "running"

(* No caller but c moves.                                                  *)
Others(c) ==
  \A d \in Callers \ {c} :
    /\ attempt'[d] = attempt[d] /\ pc'[d] = pc[d] /\ command'[d] = command[d]
    /\ answer'[d] = answer[d] /\ result'[d] = result[d]

(* The effect of Return, of waiting for a lane and of Send on the callers. *)
LEMMA ReturnDoes ==
  ASSUME TypeOK, NEW c \in Callers, NEW r \in Results, Return(c, r),
         UNCHANGED epoch
  PROVE  /\ CallTypes' /\ Others(c)
         /\ result'[c] = r /\ answer'[c] = "none" /\ command'[c] = "GET"
         /\ pc'[c] = "idle"
<1>1. /\ result' = [result EXCEPT ![c] = r]
      /\ answer' = [answer EXCEPT ![c] = "none"]
      /\ conn' = [conn EXCEPT ![c] = 0]
      /\ command' = [command EXCEPT ![c] = "GET"]
      /\ attempt' = [attempt EXCEPT ![c] = 0]
      /\ pc' = [pc EXCEPT ![c] = "idle"]
  BY DEF Return, Goto
<1>2. Others(c)
  BY <1>1 DEF Others, TypeOK
<1>3. /\ result'[c] = r /\ answer'[c] = "none" /\ command'[c] = "GET"
      /\ pc'[c] = "idle"
  BY <1>1 DEF TypeOK
<1>4. CallTypes'
  <2>1. epoch \in Nat
    BY Bounds DEF TypeOK
  <2>2. attempt' \in [Callers -> 0..max_attempts]
          /\ conn' \in [Callers -> 0..epoch']
    BY <1>1, <2>1, Bounds DEF TypeOK
  <2>3. /\ pc' \in [Callers -> Pcs] /\ command' \in [Callers -> Commands]
        /\ answer' \in [Callers -> Answers \cup {"none"}]
        /\ result' \in [Callers -> Results]
    BY <1>1 DEF TypeOK, Pcs, Commands, Results
  <2>4. \A d \in Callers : answer'[d] # "none" => pc'[d] = "running"
    BY <1>2, <1>3 DEF TypeOK, Others
  <2>5. QED  BY <2>2, <2>3, <2>4 DEF CallTypes
<1>5. QED  BY <1>2, <1>3, <1>4

(* A caller waits for a lane, with command k and for its n-th attempt.     *)
LEMMA WaitDoes ==
  ASSUME TypeOK, NEW c \in Callers, NEW n \in 0..max_attempts,
           NEW k \in Commands,
         attempt' = [attempt EXCEPT ![c] = n],
         answer' = [answer EXCEPT ![c] = "none"],
         command' = [command EXCEPT ![c] = k],
         conn' = [conn EXCEPT ![c] = 0],
         Goto(c, "waiting"), UNCHANGED <<result, epoch>>
  PROVE  /\ CallTypes' /\ Others(c)
         /\ answer'[c] = "none" /\ pc'[c] = "waiting" /\ command'[c] = k
         /\ attempt'[c] = n /\ result'[c] = result[c]
<1>1. pc' = [pc EXCEPT ![c] = "waiting"]
  BY DEF Goto
<1>2. Others(c)
  BY <1>1 DEF Others, TypeOK
<1>3. /\ answer'[c] = "none" /\ pc'[c] = "waiting" /\ command'[c] = k
      /\ attempt'[c] = n /\ result'[c] = result[c]
  BY <1>1 DEF TypeOK
<1>4. CallTypes'
  <2>1. epoch \in Nat
    BY Bounds DEF TypeOK
  <2>2. attempt' \in [Callers -> 0..max_attempts]
          /\ conn' \in [Callers -> 0..epoch']
    BY <1>1, <2>1, Bounds DEF TypeOK
  <2>3. /\ pc' \in [Callers -> Pcs] /\ command' \in [Callers -> Commands]
        /\ answer' \in [Callers -> Answers \cup {"none"}]
        /\ result' \in [Callers -> Results]
    BY <1>1 DEF TypeOK, Pcs, Commands, Results
  <2>4. \A d \in Callers : answer'[d] # "none" => pc'[d] = "running"
    BY <1>2, <1>3 DEF TypeOK, Others
  <2>5. QED  BY <2>2, <2>3, <2>4 DEF CallTypes
<1>5. QED  BY <1>2, <1>3, <1>4

LEMMA SendDoes ==
  ASSUME TypeOK, NEW c \in Callers, NEW k \in Commands, Send(c, k),
         answer' = [answer EXCEPT ![c] = "none"],
         UNCHANGED <<attempt, result, epoch>>
  PROVE  /\ CallTypes' /\ Others(c)
         /\ answer'[c] = "none" /\ pc'[c] = "running" /\ command'[c] = k
<1>1. /\ pc' = [pc EXCEPT ![c] = "running"]
      /\ command' = [command EXCEPT ![c] = k]
      /\ conn' = [conn EXCEPT ![c] = epoch]
  BY DEF Send
<1>2. Others(c)
  BY <1>1 DEF Others, TypeOK
<1>3. answer'[c] = "none" /\ pc'[c] = "running" /\ command'[c] = k
  BY <1>1 DEF TypeOK
<1>4. CallTypes'
  <2>1. epoch \in Nat
    BY Bounds DEF TypeOK
  <2>2. attempt' \in [Callers -> 0..max_attempts]
          /\ conn' \in [Callers -> 0..epoch']
    BY <1>1, <2>1, Bounds DEF TypeOK
  <2>3. /\ pc' \in [Callers -> Pcs] /\ command' \in [Callers -> Commands]
        /\ answer' \in [Callers -> Answers \cup {"none"}]
        /\ result' \in [Callers -> Results]
    BY <1>1 DEF TypeOK, Pcs, Commands, Results
  <2>4. \A d \in Callers : answer'[d] # "none" => pc'[d] = "running"
    BY <1>2, <1>3 DEF TypeOK, Others
  <2>5. QED  BY <2>2, <2>3, <2>4 DEF CallTypes
<1>5. QED  BY <1>2, <1>3, <1>4

(* What does not move a command or run one leaves every claim about the    *)
(* lines; a call that begins is fresh.                                     *)
LEMMA LinesKept ==
  ASSUME IInv, UNCHANGED <<lines, ran>>, epoch' \in Nat, epoch <= epoch',
         \A d \in Callers : number'[d] \in Nat /\ number[d] <= number'[d]
  PROVE  /\ LineInv' /\ AtMostOnce' /\ ProgramOrder'
         /\ \A d \in Callers : Fresh(d) => Fresh(d)'
         /\ \A d \in Callers : number[d] < number'[d] => Fresh(d)'
<1>1. /\ epoch \in Nat
      /\ \A d \in Callers : number[d] \in Nat
  BY Bounds DEF IInv, TypeOK
<1>2. ASSUME NEW n \in Connections, NEW i \in Places(n)
      PROVE  /\ lines[n][i].by \in Callers /\ lines[n][i].number \in Nat
             /\ n \in Nat /\ n <= epoch
             /\ lines[n][i].number <= number[lines[n][i].by]
  BY EntryTypes DEF IInv, LineInv, Known
<1>3. ASSUME NEW c \in Callers, NEW i \in 1..Len(ran[c])
      PROVE  ran[c][i].number \in Nat /\ ran[c][i].number <= number[c]
  BY RanTypes DEF IInv, LineInv, Known
<1>4. Known'
  <2>1. \A n \in Connections : \A i \in Places(n) :
          n <= epoch' /\ lines[n][i].number <= number'[lines[n][i].by]
    BY <1>1, <1>2
  <2>2. \A c \in Callers : \A i \in 1..Len(ran[c]) : ran[c][i].number <= number'[c]
    BY <1>1, <1>3
  <2>3. QED  BY <2>1, <2>2 DEF Known, Places
<1>5. Once' /\ Ordered' /\ AtMostOnce' /\ ProgramOrder'
  <2>1. Once'
    BY DEF IInv, LineInv, Once, Places
  <2>2. Ordered'
    BY DEF IInv, LineInv, Ordered, Places
  <2>3. AtMostOnce' /\ ProgramOrder'
    BY DEF IInv, AtMostOnce, ProgramOrder
  <2>4. QED  BY <2>1, <2>2, <2>3
<1>6. ASSUME NEW d \in Callers, number[d] < number'[d] \/ Fresh(d)
      PROVE  Fresh(d)'
  <2>1. ASSUME NEW n \in Connections, NEW i \in Places(n),
               lines[n][i].by = d, lines[n][i].command \in Effective
        PROVE  lines[n][i].number < number'[d]
    BY <1>1, <1>2, <1>6, <2>1 DEF Fresh
  <2>2. \A i \in 1..Len(ran[d]) : ran[d][i].number < number'[d]
    BY <1>1, <1>3, <1>6 DEF Fresh
  <2>3. QED  BY <2>1, <2>2 DEF Fresh, Places
<1>7. QED  BY <1>4, <1>5, <1>6 DEF LineInv

(* When caller c moves, the claims of the others stay.                     *)
LEMMA OthersKeep ==
  ASSUME CallInv, NEW c \in Callers, Others(c), UNCHANGED <<ran, scripts>>,
         \A d \in Callers \ {c} :
           /\ op'[d] = op[d] /\ number'[d] = number[d]
           /\ d \in flushed => d \in flushed'
           /\ Fresh(d) => Fresh(d)',
         (InCall(c) /\ Claim(c) /\ ScriptClaim(c))'
  PROVE  CallInv'
<1> SUFFICES ASSUME NEW d \in Callers, d # c
             PROVE  (InCall(d) /\ Claim(d) /\ ScriptClaim(d))'
  BY DEF CallInv
<1>1. /\ attempt'[d] = attempt[d] /\ pc'[d] = pc[d] /\ command'[d] = command[d]
      /\ answer'[d] = answer[d] /\ result'[d] = result[d]
      /\ op'[d] = op[d] /\ number'[d] = number[d]
  BY DEF Others
<1>2. /\ Fresh(d) => Fresh(d)'
      /\ HasRun(d) => HasRun(d)'
      /\ Forgotten(d) => Forgotten(d)'
      /\ d \in flushed => d \in flushed'
  BY <1>1 DEF HasRun, Forgotten
<1>3. InCall(d) /\ Claim(d) /\ ScriptClaim(d)
  BY DEF CallInv
<1>4. InCall(d)'
  BY <1>1, <1>3 DEF InCall
<1>5. Claim(d)'
  BY <1>1, <1>2, <1>3 DEF Claim
<1>6. ScriptClaim(d)'
  BY <1>1, <1>2, <1>3 DEF ScriptClaim
<1>7. QED  BY <1>4, <1>5, <1>6
(* A call may return what is so.                                           *)
LEMMA Returns ==
  ASSUME IInv, NEW c \in Callers, NEW r \in {"ok", "nil", "Missing", "failed"},
         Return(c, r), closed' \in BOOLEAN,
         UNCHANGED <<plan, op, number, link, server, flushed>>,
         r \in {"nil", "Missing"} => Fresh(c),
         r = "ok" /\ op[c] \in Effects => HasRun(c),
         r = "Missing" => c \in flushed
  PROVE  IInv'
<1>1. TypeOK
  BY DEF IInv
<1>2. /\ CallTypes' /\ Others(c)
      /\ result'[c] = r /\ answer'[c] = "none" /\ command'[c] = "GET"
      /\ pc'[c] = "idle"
  BY <1>1, ReturnDoes DEF Results, link
<1>3. TypeOK'
  BY <1>1, <1>2 DEF TypeOK, CallTypes, Results, link, server
<1>4. /\ LineInv' /\ AtMostOnce' /\ ProgramOrder'
      /\ \A d \in Callers : Fresh(d) => Fresh(d)'
  BY <1>1, LinesKept, Bounds DEF TypeOK, link, server
<1>5. HasRun(c) => HasRun(c)'
  BY DEF HasRun, server
<1>6. InCall(c)'
  BY <1>2 DEF InCall
<1>7. Claim(c)'
  BY <1>2, <1>4, <1>5 DEF Claim
<1>8. ScriptClaim(c)'
  BY <1>2 DEF ScriptClaim
<1>9. CallInv'
  BY <1>2, <1>4, <1>6, <1>7, <1>8, OthersKeep DEF IInv, server
<1>10. QED  BY <1>3, <1>4, <1>9 DEF IInv, Redial, link

(* A call that waits for a lane, for its first command or for a later one. *)
LEMMA Waits ==
  ASSUME IInv, NEW c \in Callers, NEW n \in 1..max_attempts,
           NEW k \in Commands,
         attempt' = [attempt EXCEPT ![c] = n],
         answer' = [answer EXCEPT ![c] = "none"],
         command' = [command EXCEPT ![c] = k],
         conn' = [conn EXCEPT ![c] = 0],
         Goto(c, "waiting"), closed' \in BOOLEAN,
         UNCHANGED <<plan, op, number, result, link, server, flushed>>,
         Fresh(c), k \in CommandsOf(op[c]), result[c] = "none",
         k # "AGAIN", op[c] = "ScriptLoadAndEval" /\ k = "EVALSHA" =>
           Forgotten(c)
  PROVE  IInv'
<1>1. TypeOK
  BY DEF IInv
<1>2. /\ CallTypes' /\ Others(c)
      /\ answer'[c] = "none" /\ pc'[c] = "waiting" /\ command'[c] = k
      /\ attempt'[c] = n /\ result'[c] = "none"
  <2>1. n \in 0..max_attempts
    BY Bounds
  <2>2. UNCHANGED <<result, epoch>>
    BY DEF link
  <2>3. /\ CallTypes' /\ Others(c)
        /\ answer'[c] = "none" /\ pc'[c] = "waiting" /\ command'[c] = k
        /\ attempt'[c] = n /\ result'[c] = result[c]
    BY <1>1, <2>1, <2>2, WaitDoes, ZenonT(30)
  <2>4. QED  BY <2>3
<1>3. TypeOK'
  BY <1>1, <1>2 DEF TypeOK, CallTypes, Results, link, server
<1>4. /\ LineInv' /\ AtMostOnce' /\ ProgramOrder'
      /\ \A d \in Callers : Fresh(d) => Fresh(d)'
  BY <1>1, LinesKept, Bounds DEF TypeOK, link, server
<1>5. n >= 1
  BY Bounds
<1>6. InCall(c)'
  BY <1>2, <1>5 DEF InCall
<1>7. Claim(c)'
  BY <1>2, <1>4 DEF Claim
<1>8. ScriptClaim(c)'
  BY <1>2 DEF ScriptClaim, Forgotten, server
<1>9. CallInv'
  BY <1>2, <1>4, <1>6, <1>7, <1>8, OthersKeep DEF IInv, server
<1>10. QED  BY <1>3, <1>4, <1>9 DEF IInv, Redial, link

(* Only a command that has no effect is retried.                           *)
LEMMA Fails ==
  ASSUME IInv, NEW c \in Callers, pc[c] # "idle", FailAttempt(c),
         closed' \in BOOLEAN, UNCHANGED <<plan, op, number, link, server,
                                          flushed>>
  PROVE  IInv'
<1>1. CASE ~Retried(c)
  BY <1>1, Returns DEF FailAttempt
<1>2. CASE Retried(c)
  <2>1. /\ attempt' = [attempt EXCEPT ![c] = attempt[c] + 1]
        /\ answer' = [answer EXCEPT ![c] = "none"]
        /\ conn' = [conn EXCEPT ![c] = 0]
        /\ Goto(c, "waiting")
        /\ UNCHANGED <<command, result>>
    BY <1>2 DEF FailAttempt
  <2>2. op[c] = "Get" /\ attempt[c] < max_attempts
    BY <1>2 DEF Retried
  <2>3. /\ command[c] = "GET" /\ attempt[c] >= 1 /\ result[c] = "none"
        /\ "GET" \in CommandsOf(op[c])
    BY <2>2 DEF IInv, CallInv, InCall, CommandsOf
  <2>4. Fresh(c)
    <3>1. "GET" \notin Effective
      BY DEF Effective
    <3>2. pc[c] \in {"waiting", "offline", "running"}
      BY DEF IInv, TypeOK, Pcs
    <3>3. QED  BY <2>3, <3>1, <3>2 DEF IInv, CallInv, Claim
  <2>5. attempt[c] + 1 \in 1..max_attempts
    BY <2>2, Bounds DEF IInv, TypeOK
  <2>6. command' = [command EXCEPT ![c] = "GET"]
    BY <2>1, <2>3 DEF IInv, TypeOK
  <2>7. QED
    BY <2>1, <2>2, <2>3, <2>4, <2>5, <2>6, Waits DEF Commands
<1>3. QED  BY <1>1, <1>2

(* A fresh call may send its next command.                                 *)
LEMMA Sends ==
  ASSUME IInv, NEW c \in Callers, NEW k \in CommandsOf(op[c]), pc[c] # "idle",
         Send(c, k), answer' = [answer EXCEPT ![c] = "none"],
           closed' \in BOOLEAN,
         UNCHANGED <<plan, op, number, attempt, result, up, epoch, server,
                     flushed>>,
         Fresh(c),
         k = "AGAIN" => Forgotten(c),
         op[c] = "ScriptLoadAndEval" /\ k = "EVALSHA" => Forgotten(c)
  PROVE  IInv'
<1>1. TypeOK
  BY DEF IInv
<1>2. op[c] \in Operations /\ k \in Commands
  BY <1>1 DEF TypeOK, CommandsOf, Operations, Commands
<1>3. /\ CallTypes' /\ Others(c)
      /\ answer'[c] = "none" /\ pc'[c] = "running" /\ command'[c] = k
  BY <1>1, <1>2, SendDoes
<1>4. attempt[c] >= 1 /\ result[c] = "none"
  BY DEF IInv, CallInv, InCall
<1>5. lines' \in [Connections -> Seq(Entries)]
  BY <1>1, <1>2, <1>4, SentLast
<1>6. /\ LineInv'
      /\ \A n \in Connections : \A i \in 1..Len(lines'[n]) : lines'[n][i].conn = n
      /\ \A d \in Callers : Fresh(d) /\ (d # c \/ k \notin Effective) =>
           Fresh(d)'
  BY <1>2, SendLines DEF server
<1>7. TypeOK'
  BY <1>1, <1>3, <1>5, <1>6 DEF TypeOK, CallTypes, Results, server
<1>8. AtMostOnce' /\ ProgramOrder'
  BY DEF IInv, AtMostOnce, ProgramOrder, server
<1>9. InCall(c)'
  BY <1>3, <1>4 DEF InCall
<1>10. Claim(c)'
  BY <1>3, <1>4, <1>6 DEF Claim
<1>11. ScriptClaim(c)'
  BY <1>3, <1>4 DEF ScriptClaim, Forgotten, server
<1>12. CallInv'
  BY <1>3, <1>6, <1>9, <1>10, <1>11, OthersKeep DEF IInv, server
<1>13. QED  BY <1>6, <1>7, <1>8, <1>12 DEF IInv, Redial
-----------------------------------------------------------------------------
(* The steps.                                                              *)

LEMMA InitHolds ==
  ASSUME Init
  PROVE  IInv
<1> USE DEF Init
<1>1. /\ \A n \in Connections : lines[n] = <<>> /\ Len(lines[n]) = 0
           /\ Places(n) = {}
      /\ \A c \in Callers : Len(ran[c]) = 0 /\ 1..Len(ran[c]) = {}
  BY DEF Places
<1>2. TypeOK
  <2>1. 1 \in Connections /\ 1 \in Nat
    BY Bounds DEF Connections
  <2>2. plan \in [Callers -> Seq(Operations)] /\ op \in [Callers -> Operations]
    BY Bounds DEF Operations
  <2>3. /\ number \in [Callers -> Nat]
             /\ attempt \in [Callers -> 0..max_attempts]
        /\ conn \in [Callers -> 0..epoch]
    BY Bounds
  <2>4. /\ pc \in [Callers -> Pcs] /\ command \in [Callers -> Commands]
        /\ answer \in [Callers -> Answers \cup {"none"}]
        /\ result \in [Callers -> Results]
    BY DEF Pcs, Commands, Answers, Results
  <2>5. /\ lines \in [Connections -> Seq(Entries)]
        /\ ran \in [Callers -> Seq([number : Nat, conn : Connections])]
    <3>1. <<>> \in Seq(Entries)
            /\ <<>> \in Seq([number : Nat, conn : Connections])
      BY EmptySeq
    <3>2. QED  BY <3>1
  <2>6. \A n \in Connections : \A i \in 1..Len(lines[n]) : lines[n][i].conn = n
    BY <1>1 DEF Places
  <2>7. QED
    BY <2>1, <2>2, <2>3, <2>4, <2>5, <2>6 DEF TypeOK, Results
<1>3. LineInv
  BY <1>1 DEF LineInv, Known, Once, Ordered
<1>4. CallInv
  BY DEF CallInv, InCall, Claim, ScriptClaim
<1>5. AtMostOnce /\ ProgramOrder /\ Redial
  BY <1>1 DEF AtMostOnce, ProgramOrder, Redial
<1>6. QED  BY <1>2, <1>3, <1>4, <1>5 DEF IInv

(* Nothing of a new call is in the lines: its number is new.               *)
LEMMA BeginHolds ==
  ASSUME IInv, NEW c \in Callers, Begin(c)
  PROVE  IInv'
<1>1. TypeOK
  BY DEF IInv
<1>2. /\ pc[c] = "idle" /\ plan[c] # <<>>
      /\ plan' = [plan EXCEPT ![c] = Tail(plan[c])]
      /\ op' = [op EXCEPT ![c] = Head(plan[c])]
      /\ number' = [number EXCEPT ![c] = number[c] + 1]
      /\ attempt' = [attempt EXCEPT ![c] = 1]
      /\ command' = [command EXCEPT ![c] = FirstCommand(Head(plan[c]))]
      /\ result' = [result EXCEPT ![c] = "none"]
      /\ pc' = [pc EXCEPT ![c] = "waiting"]
      /\ flushed' = flushed \ {c}
      /\ UNCHANGED <<conn, answer, closed, up, epoch, lines, elements,
                     scripts, ran>>
  BY DEF Begin, Goto, link, server
<1>3. plan[c] \in Seq(Operations)
  BY <1>1 DEF TypeOK
<1>4. Head(plan[c]) \in Operations /\ Tail(plan[c]) \in Seq(Operations)
  BY <1>2, <1>3, HeadTailProperties
<1>5. /\ FirstCommand(Head(plan[c])) \in Commands
      /\ FirstCommand(Head(plan[c])) \in CommandsOf(Head(plan[c]))
      /\ FirstCommand(Head(plan[c])) # "AGAIN"
      /\ Head(plan[c]) = "ScriptLoadAndEval" =>
           FirstCommand(Head(plan[c])) # "EVALSHA"
  BY <1>4 DEF Operations, Commands, FirstCommand, CommandsOf
<1>6. answer[c] = "none"
  BY <1>1, <1>2 DEF TypeOK
<1>7. /\ number'[c] = number[c] + 1 /\ op'[c] = Head(plan[c])
           /\ attempt'[c] = 1
      /\ command'[c] = FirstCommand(Head(plan[c])) /\ result'[c] = "none"
      /\ pc'[c] = "waiting" /\ answer'[c] = "none"
  BY <1>1, <1>2, <1>6 DEF TypeOK
<1>8. /\ Others(c)
      /\ \A d \in Callers \ {c} :
           op'[d] = op[d] /\ number'[d] = number[d]
             /\ (d \in flushed => d \in flushed')
  BY <1>1, <1>2 DEF TypeOK, Others
<1>9. TypeOK'
  <2>1. /\ plan' \in [Callers -> Seq(Operations)]
             /\ op' \in [Callers -> Operations]
        /\ command' \in [Callers -> Commands]
    BY <1>1, <1>2, <1>4, <1>5 DEF TypeOK
  <2>2. number' \in [Callers -> Nat]
          /\ attempt' \in [Callers -> 0..max_attempts]
    BY <1>1, <1>2, Bounds DEF TypeOK
  <2>3. /\ pc' \in [Callers -> Pcs] /\ result' \in [Callers -> Results]
    BY <1>1, <1>2 DEF TypeOK, Pcs, Results
  <2>4. flushed' \subseteq Callers
    BY <1>1, <1>2 DEF TypeOK
  <2>5. \A d \in Callers : answer'[d] # "none" => pc'[d] = "running"
    BY <1>1, <1>2, <1>7, <1>8 DEF TypeOK, Others
  <2>6. QED
    BY <1>1, <1>2, <2>1, <2>2, <2>3, <2>4, <2>5 DEF TypeOK, Results
<1>10. /\ LineInv' /\ AtMostOnce' /\ ProgramOrder'
       /\ \A d \in Callers : Fresh(d) => Fresh(d)'
       /\ Fresh(c)'
  <2>1. epoch \in Nat /\ \A d \in Callers : number[d] \in Nat
    BY <1>1, Bounds DEF TypeOK
  <2>2. \A d \in Callers : number'[d] \in Nat /\ number[d] <= number'[d]
    BY <1>7, <1>8, <2>1
  <2>3. number[c] < number'[c]
    BY <1>7, <2>1
  <2>4. epoch' \in Nat /\ epoch <= epoch'
    BY <1>2, <2>1
  <2>5. QED  BY <1>2, <2>2, <2>3, <2>4, LinesKept
<1>11. InCall(c)' /\ Claim(c)' /\ ScriptClaim(c)'
  BY <1>5, <1>7, <1>10 DEF InCall, Claim, ScriptClaim
<1>12. CallInv'
  BY <1>2, <1>8, <1>10, <1>11, OthersKeep DEF IInv
<1>13. QED  BY <1>2, <1>9, <1>10, <1>12 DEF IInv, Redial

(* The pool only lets the caller in or out.                                *)
LEMMA GateTypes ==
  ASSUME TypeOK, NEW c \in Callers, Pool!LetIn(c) \/ Pool!LetOut(c)
  PROVE  closed' \in BOOLEAN
BY DEF Pool!LetIn, Pool!LetOut, TypeOK

(* A command is sent by a call that waited for a lane, ...                 *)
LEMMA GetLaneHolds ==
  ASSUME IInv, NEW c \in Callers, GetLane(c) \/ Online(c)
  PROVE  IInv'
<1>1. TypeOK
  BY DEF IInv
<1>2. /\ pc[c] \in {"waiting", "offline"} /\ closed' \in BOOLEAN
      /\ UNCHANGED <<plan, op, number, attempt, answer, result, up, epoch,
                     server, flushed>>
  BY <1>1, GateTypes DEF GetLane, Online, TypeOK
<1>3. /\ Fresh(c) /\ answer[c] = "none" /\ command[c] \in CommandsOf(op[c])
      /\ attempt[c] >= 1 /\ result[c] = "none"
      /\ command[c] = "AGAIN" => Forgotten(c)
      /\ op[c] = "ScriptLoadAndEval" /\ command[c] = "EVALSHA" => Forgotten(c)
  BY <1>1, <1>2 DEF IInv, CallInv, InCall, Claim, ScriptClaim, TypeOK
<1>4. answer' = [answer EXCEPT ![c] = "none"]
  BY <1>1, <1>2, <1>3 DEF TypeOK
<1>5. CASE Send(c, command[c])
  BY <1>2, <1>3, <1>4, <1>5, Sends
<1>6. CASE Goto(c, "offline") /\ UNCHANGED <<command, conn, lines>>
  <2>1. pc' = [pc EXCEPT ![c] = "offline"]
    BY <1>6 DEF Goto
  <2>2. pc'[c] = "offline" /\ Others(c)
    BY <1>1, <1>2, <1>6, <2>1 DEF TypeOK, Others
  <2>3. TypeOK'
    <3>1. pc' \in [Callers -> Pcs]
      BY <1>1, <2>1 DEF TypeOK, Pcs
    <3>2. \A d \in Callers : answer'[d] # "none" => pc'[d] = "running"
      BY <1>1, <1>2, <1>3, <2>2 DEF TypeOK, Others
    <3>3. QED  BY <1>1, <1>2, <1>6, <3>1, <3>2 DEF TypeOK, server
  <2>4. /\ LineInv' /\ AtMostOnce' /\ ProgramOrder'
        /\ \A d \in Callers : Fresh(d) => Fresh(d)'
    BY <1>1, <1>2, <1>6, LinesKept, Bounds DEF TypeOK, server
  <2>5. InCall(c)' /\ Claim(c)' /\ ScriptClaim(c)'
    BY <1>2, <1>3, <1>6, <2>2, <2>4
       DEF InCall, Claim, ScriptClaim, Forgotten, server
  <2>6. CallInv'
    BY <1>2, <2>2, <2>4, <2>5, OthersKeep DEF IInv, server
  <2>7. QED  BY <1>2, <2>3, <2>4, <2>6 DEF IInv, Redial
<1>7. QED  BY <1>5, <1>6 DEF GetLane, Online

(* ... or by the driver's Script, between two of its commands.             *)
LEMMA ProceedHolds ==
  ASSUME IInv, NEW c \in Callers, Proceed(c)
  PROVE  IInv'
<1>1. /\ op[c] = "EvalScript" /\ answer[c] # "none"
      /\ answer' = [answer EXCEPT ![c] = "none"]
      /\ UNCHANGED <<plan, op, number, attempt, result, closed, up, epoch,
                     server, flushed>>
  BY DEF Proceed
<1>2. pc[c] = "running" /\ closed \in BOOLEAN
  BY <1>1 DEF IInv, TypeOK
<1>3. CASE answer[c] = "NOSCRIPT" /\ Send(c, "LOAD")
  <2>1. Fresh(c)
    BY <1>3 DEF IInv, CallInv, Claim
  <2>2. "LOAD" \in CommandsOf(op[c])
    BY <1>1 DEF CommandsOf
  <2>3. QED  BY <1>1, <1>2, <1>3, <2>1, <2>2, Sends
<1>4. CASE command[c] = "LOAD" /\ answer[c] = "value" /\ Send(c, "AGAIN")
  <2>1. Fresh(c)
    BY <1>2, <1>4 DEF IInv, CallInv, Claim, Effective
  <2>2. "AGAIN" \in CommandsOf(op[c])
    BY <1>1 DEF CommandsOf
  <2>3. Forgotten(c)
    BY <1>4 DEF IInv, CallInv, ScriptClaim
  <2>4. QED  BY <1>1, <1>2, <1>4, <2>1, <2>2, <2>3, Sends
<1>5. QED  BY <1>3, <1>4 DEF Proceed

(* script_load_and_eval has the script when it asks for a lane again.      *)
LEMMA LoadedHolds ==
  ASSUME IInv, NEW c \in Callers, Loaded(c)
  PROVE  IInv'
<1>1. /\ op[c] = "ScriptLoadAndEval" /\ command[c] = "LOAD"
           /\ answer[c] = "value"
      /\ answer' = [answer EXCEPT ![c] = "none"]
      /\ conn' = [conn EXCEPT ![c] = 0]
      /\ command' = [command EXCEPT ![c] = "EVALSHA"]
      /\ Goto(c, "waiting")
      /\ UNCHANGED <<plan, op, number, attempt, result, link, server, flushed>>
  BY DEF Loaded
<1>2. closed' \in BOOLEAN
  BY GateTypes DEF Loaded, IInv
<1>3. pc[c] = "running"
  BY <1>1 DEF IInv, TypeOK
<1>4. Fresh(c) /\ Forgotten(c)
  BY <1>1, <1>3 DEF IInv, CallInv, Claim, ScriptClaim, Effective
<1>5. /\ attempt[c] \in 1..max_attempts /\ result[c] = "none"
      /\ "EVALSHA" \in CommandsOf(op[c]) /\ "EVALSHA" \in Commands
  BY <1>1, <1>3, Bounds DEF IInv, TypeOK, CallInv, InCall, CommandsOf, Commands
<1>6. attempt' = [attempt EXCEPT ![c] = attempt[c]]
  BY <1>1 DEF IInv, TypeOK
<1>7. QED  BY <1>1, <1>2, <1>4, <1>5, <1>6, Waits

(* The answer says what became of the call.                                *)
LEMMA AnsweredHolds ==
  ASSUME IInv, NEW c \in Callers, Answered(c)
  PROVE  IInv'
<1>1. closed' \in BOOLEAN
        /\ UNCHANGED <<plan, op, number, link, server, flushed>>
  BY GateTypes DEF Answered, IInv
<1>2. answer[c] # "none"
  BY DEF Answered
<1>3. pc[c] = "running" /\ op[c] \in Operations
  BY <1>2 DEF IInv, TypeOK
<1>4. InCall(c) /\ Claim(c) /\ ScriptClaim(c)
  BY DEF IInv, CallInv
<1>5. CASE answer[c] = "value" /\ command[c] # "LOAD" /\ Return(c, "ok")
  <2>1. op[c] \in Effects => command[c] \in Effective
    BY <1>3, <1>4, <1>5 DEF InCall, CommandsOf, Effects, Effective
  <2>2. op[c] \in Effects => HasRun(c)
    BY <1>4, <1>5, <2>1 DEF Claim
  <2>3. QED  BY <1>1, <1>5, <2>2, Returns
<1>6. CASE answer[c] = "nil" /\ Return(c, "nil")
  BY <1>1, <1>4, <1>6, Returns DEF Claim
<1>7. CASE /\ answer[c] = "NOSCRIPT"
           /\ op[c] = "ScriptLoadAndEval" \/ command[c] = "AGAIN"
           /\ Return(c, "Missing")
  <2>1. Fresh(c) /\ c \in flushed
    BY <1>4, <1>7 DEF Claim, ScriptClaim
  <2>2. QED  BY <1>1, <1>7, <2>1, Returns
<1>8. QED  BY <1>5, <1>6, <1>7 DEF Answered

(* An error: nothing is claimed.                                           *)
LEMMA GivenUpHolds ==
  ASSUME IInv, NEW c \in Callers, NoLane(c) \/ Cut(c) \/ TimeOut(c)
           \/ Cancel(c)
  PROVE  IInv'
<1>1. closed' \in BOOLEAN
        /\ UNCHANGED <<plan, op, number, link, server, flushed>>
  BY GateTypes DEF NoLane, Cut, TimeOut, Cancel, IInv, TypeOK
<1>2. CASE FailAttempt(c) /\ pc[c] # "idle"
  BY <1>1, <1>2, Fails
<1>3. CASE Return(c, "failed")
  BY <1>1, <1>3, Returns
<1>4. QED  BY <1>2, <1>3 DEF NoLane, Cut, TimeOut, Cancel
(* The server executes a command, and its answer is true; the answer to a  *)
(* command nobody awaits changes no claim.                                 *)
LEMMA ServeHolds ==
  ASSUME IInv, NEW n \in Connections, NEW a \in Answers, Take(n, a),
         UNCHANGED <<plan, op, number, attempt, pc, command, conn, result,
                     closed, up, epoch, flushed>>,
         NEW m, m = Head(lines[n]),
         answer' = IF n = epoch /\ up /\ Awaited(m)
                     THEN [answer EXCEPT ![m.by] = a] ELSE answer
  PROVE  IInv'
<1>1. TypeOK
  BY DEF IInv
<1>2. /\ LineInv' /\ AtMostOnce' /\ ProgramOrder'
      /\ lines' \in [Connections -> Seq(Entries)]
      /\ \A k \in Connections : \A i \in 1..Len(lines'[k]) : lines'[k][i].conn = k
      /\ m \in Entries
      /\ \A c \in Callers : (Fresh(c) => Fresh(c)')
           /\ (HasRun(c) => HasRun(c)')
      /\ m.number = number[m.by] /\ m.command \in Effective =>
           IF a = "value" THEN HasRun(m.by)' ELSE Fresh(m.by)'
  BY TakeLines
<1>3. /\ elements' \in Nat /\ scripts' \in BOOLEAN
      /\ ran' \in [Callers -> Seq([number : Nat, conn : Connections])]
      /\ scripts => scripts'
      /\ m.command = "LOAD" /\ a = "value" => scripts'
      /\ a = "NOSCRIPT" => m.command \in {"EVALSHA", "AGAIN"} /\ ~scripts
      /\ a \in {"nil", "NOSCRIPT"} => m.command \in Effective
  <2>1. Execute(m, a)
    BY DEF Take
  <2>2. QED  BY <1>1, <1>2, <2>1, ExecuteDoes
<1>4. m.by \in Callers
  BY <1>2 DEF Entries
<1>5. Awaited(m) =>
        /\ pc[m.by] = "running" /\ m.number = number[m.by]
             /\ m.command = command[m.by]
  BY DEF Awaited, Entry
<1>6. ASSUME NEW c \in Callers
      PROVE  \/ answer'[c] = answer[c]
             \/ /\ c = m.by /\ answer'[c] = a /\ pc[c] = "running"
                /\ m.number = number[c] /\ m.command = command[c]
  BY <1>1, <1>4, <1>5 DEF TypeOK
<1>7. TypeOK'
  <2>1. answer' \in [Callers -> Answers \cup {"none"}]
    BY <1>1, <1>4 DEF TypeOK
  <2>2. \A c \in Callers : answer'[c] # "none" => pc'[c] = "running"
    BY <1>1, <1>6 DEF TypeOK
  <2>3. QED  BY <1>1, <1>2, <1>3, <2>1, <2>2 DEF TypeOK
<1>8. ASSUME NEW c \in Callers
      PROVE  InCall(c)' /\ Claim(c)' /\ ScriptClaim(c)'
  <2>1. InCall(c) /\ Claim(c) /\ ScriptClaim(c)
    BY DEF IInv, CallInv
  <2>2. Forgotten(c) => Forgotten(c)'
    BY <1>3 DEF Forgotten
  <2>3. InCall(c)'
    BY <2>1 DEF InCall
  <2>4. CASE answer'[c] = answer[c]
    <3>1. Claim(c)'
      BY <1>2, <2>1, <2>4 DEF Claim
    <3>2. ScriptClaim(c)'
      BY <2>1, <2>2, <2>4 DEF ScriptClaim
    <3>3. QED  BY <2>3, <3>1, <3>2
  <2>5. CASE /\ c = m.by /\ answer'[c] = a /\ pc[c] = "running"
             /\ m.number = number[c] /\ m.command = command[c]
    <3>1. a \in {"nil", "NOSCRIPT"} => Fresh(c)'
      BY <1>2, <1>3, <2>5
    <3>2. a = "value" /\ command[c] \in Effective => HasRun(c)'
      BY <1>2, <2>5
    <3>3. Claim(c)'
      BY <1>2, <2>1, <2>5, <3>1, <3>2 DEF Claim
    <3>4. a = "value" /\ command[c] = "LOAD" => Forgotten(c)'
      BY <1>3, <2>5 DEF Forgotten
    <3>5. a = "NOSCRIPT"
            /\ (op[c] = "ScriptLoadAndEval" \/ command[c] = "AGAIN")
            => c \in flushed
      <4>1. op[c] = "ScriptLoadAndEval" => command[c] \in {"LOAD", "EVALSHA"}
        BY <2>1, <2>5 DEF InCall, CommandsOf
      <4>2. QED  BY <1>3, <2>1, <2>5, <4>1 DEF ScriptClaim, Forgotten
    <3>6. ScriptClaim(c)'
      BY <2>1, <2>2, <2>5, <3>4, <3>5 DEF ScriptClaim
    <3>7. QED  BY <2>3, <3>3, <3>6
  <2>6. QED  BY <1>6, <2>4, <2>5
<1>9. QED  BY <1>2, <1>7, <1>8 DEF IInv, CallInv, Redial

(* A break loses answers and no command, and nothing is sent again.        *)
LEMMA ConnectionHolds ==
  ASSUME IInv, Break \/ Reconnect
  PROVE  IInv'
<1>1. TypeOK
  BY DEF IInv
<1>2. /\ UNCHANGED <<plan, op, number, attempt, pc, command, conn, result,
                     closed, lines, elements, scripts, ran, flushed>>
      /\ up' \in BOOLEAN
  BY DEF Break, Reconnect, caller, server
<1>3. /\ epoch \in Nat /\ epoch' \in Nat /\ epoch <= epoch'
           /\ epoch' \in Connections
      /\ Redial'
  <2>1. CASE Break
    BY <1>1, <2>1, Bounds DEF Break, TypeOK, Redial
  <2>2. CASE Reconnect
    <3>1. epoch <= MaxBreaks /\ epoch' = epoch + 1 /\ up'
      BY <2>2 DEF Reconnect, IInv, Redial
    <3>2. epoch \in Nat /\ epoch \in Connections
      BY <1>1, Bounds DEF TypeOK
    <3>3. epoch + 1 \in Connections
      BY <3>1, <3>2, Bounds DEF Connections
    <3>4. QED  BY <3>1, <3>2, <3>3 DEF Redial
  <2>3. QED  BY <2>1, <2>2
<1>4. /\ answer' \in [Callers -> Answers \cup {"none"}]
      /\ \A c \in Callers : answer'[c] = answer[c] \/ answer'[c] = "none"
  BY <1>1 DEF Break, Reconnect, caller, TypeOK
<1>5. TypeOK'
  <2>1. conn' \in [Callers -> 0..epoch']
    BY <1>1, <1>2, <1>3 DEF TypeOK
  <2>2. \A c \in Callers : answer'[c] # "none" => pc'[c] = "running"
    BY <1>1, <1>2, <1>4 DEF TypeOK
  <2>3. QED  BY <1>1, <1>2, <1>3, <1>4, <2>1, <2>2 DEF TypeOK
<1>6. /\ LineInv' /\ AtMostOnce' /\ ProgramOrder'
      /\ \A c \in Callers : Fresh(c) => Fresh(c)'
  BY <1>1, <1>2, <1>3, LinesKept, Bounds DEF TypeOK
<1>7. ASSUME NEW c \in Callers
      PROVE  InCall(c)' /\ Claim(c)' /\ ScriptClaim(c)'
  <2>1. InCall(c) /\ Claim(c) /\ ScriptClaim(c)
    BY DEF IInv, CallInv
  <2>2. HasRun(c) => HasRun(c)'
    BY <1>2 DEF HasRun
  <2>3. InCall(c)'
    BY <1>2, <2>1 DEF InCall
  <2>4. Claim(c)'
    BY <1>2, <1>4, <1>6, <2>1, <2>2 DEF Claim
  <2>5. ScriptClaim(c)'
    BY <1>2, <1>4, <2>1 DEF ScriptClaim, Forgotten
  <2>6. QED  BY <2>3, <2>4, <2>5
<1>8. QED  BY <1>3, <1>5, <1>6, <1>7 DEF IInv, CallInv

(* A call that runs while scripts are flushed is told of in flushed.       *)
LEMMA SurroundingsHold ==
  ASSUME IInv, Close \/ Push \/ Flush
  PROVE  IInv'
<1>1. TypeOK
  BY DEF IInv
<1>2. UNCHANGED <<plan, op, number, attempt, pc, command, conn, answer,
                  result, up, epoch, lines, ran>>
  BY DEF Close, Push, Flush, caller, link, server
<1>3. /\ closed' \in BOOLEAN /\ elements' \in Nat
      /\ scripts' \in BOOLEAN /\ flushed' \subseteq Callers
  <2>1. CASE Close
    BY <1>1, <2>1 DEF Close, Pool!Shut, server, TypeOK
  <2>2. CASE Push
    BY <1>1, <2>2 DEF Push, TypeOK
  <2>3. CASE Flush
    BY <1>1, <2>3 DEF Flush, TypeOK
  <2>4. QED  BY <2>1, <2>2, <2>3
<1>4. TypeOK'
  BY <1>1, <1>2, <1>3 DEF TypeOK
<1>5. /\ LineInv' /\ AtMostOnce' /\ ProgramOrder'
      /\ \A c \in Callers : Fresh(c) => Fresh(c)'
  BY <1>1, <1>2, LinesKept, Bounds DEF TypeOK
<1>6. /\ flushed \subseteq flushed'
      /\ scripts' = scripts \/ \A c \in Callers : pc[c] # "idle" =>
           c \in flushed'
  BY DEF Close, Push, Flush, server
<1>7. ASSUME NEW c \in Callers
      PROVE  InCall(c)' /\ Claim(c)' /\ ScriptClaim(c)'
  <2>1. InCall(c) /\ Claim(c) /\ ScriptClaim(c)
    BY DEF IInv, CallInv
  <2>2. HasRun(c) => HasRun(c)'
    BY <1>2 DEF HasRun
  <2>3. InCall(c)'
    BY <1>2, <2>1 DEF InCall
  <2>4. Claim(c)'
    BY <1>2, <1>5, <2>1, <2>2 DEF Claim
  <2>5. pc[c] # "idle" /\ Forgotten(c) => Forgotten(c)'
    BY <1>6 DEF Forgotten
  <2>6. ScriptClaim(c)'
    <3>1. command[c] \in {"EVALSHA", "AGAIN"} \/ answer[c] # "none" =>
            pc[c] # "idle"
      BY <1>1, <2>1 DEF InCall, TypeOK
    <3>2. QED  BY <1>2, <1>6, <2>1, <2>5, <3>1 DEF ScriptClaim
  <2>7. QED  BY <2>3, <2>4, <2>6
<1>8. QED  BY <1>2, <1>4, <1>5, <1>7 DEF IInv, CallInv, Redial

(* Every step keeps the invariant.                                         *)
LEMMA StepHolds ==
  ASSUME IInv, [Next]_vars
  PROVE  IInv'
<1>1. ASSUME NEW c \in Callers, Step(c)
      PROVE  IInv'
  BY <1>1, BeginHolds, GetLaneHolds, ProceedHolds, LoadedHolds, AnsweredHolds,
     GivenUpHolds DEF Step
<1>2. ASSUME Serve
      PROVE  IInv'
  <2>1. PICK a \in Answers :
          /\ Take(epoch, a)
          /\ answer' = IF Awaited(Head(lines[epoch]))
                         THEN [answer EXCEPT ![Head(lines[epoch]).by] = a] ELSE answer
    BY <1>2 DEF Serve
  <2>2. /\ up /\ epoch \in Connections
        /\ UNCHANGED <<plan, op, number, attempt, pc, command, conn, result,
                       closed, up, epoch, flushed>>
    BY <1>2 DEF Serve, IInv, TypeOK
  <2>3. QED  BY <2>1, <2>2, ServeHolds
<1>3. ASSUME ServeLeft
      PROVE  IInv'
  <2>1. PICK n \in 1..epoch : /\ n < epoch \/ ~up
                              /\ \E a \in Answers : Take(n, a)
                              /\ UNCHANGED <<caller, closed, up, epoch>>
                              /\ UNCHANGED <<flushed, env>>
    BY <1>3 DEF ServeLeft
  <2>2. PICK a \in Answers : Take(n, a)
    BY <2>1
  <2>3. n \in Connections /\ ~(n = epoch /\ up)
    BY <2>1, Bounds DEF IInv, TypeOK, Connections
  <2>4. UNCHANGED <<plan, op, number, attempt, pc, command, conn, answer,
                    result, closed, up, epoch, flushed>>
    BY <2>1 DEF caller
  <2>5. QED  BY <2>2, <2>3, <2>4, ServeHolds
<1>4. CASE UNCHANGED vars
  <2>1. UNCHANGED <<plan, op, number, attempt, pc, command, conn, answer,
                    result, closed, up, epoch, lines, elements, scripts, ran,
                    flushed>>
    BY <1>4 DEF vars, caller, link, server
  <2>2. TypeOK'
    BY <2>1 DEF IInv, TypeOK
  <2>3. /\ LineInv' /\ AtMostOnce' /\ ProgramOrder'
        /\ \A c \in Callers : Fresh(c) => Fresh(c)'
    <3>1. /\ epoch \in Nat /\ epoch' = epoch /\ number' = number
          /\ \A d \in Callers : number[d] \in Nat
      BY <2>1, Bounds DEF IInv, TypeOK
    <3>2. QED  BY <2>1, <3>1, LinesKept
  <2>4. CallInv'
    <3>1. ASSUME NEW c \in Callers
          PROVE  InCall(c)' /\ Claim(c)' /\ ScriptClaim(c)'
      BY <2>1, <2>3
         DEF IInv, CallInv, InCall, Claim, ScriptClaim, Forgotten, HasRun
    <3>2. QED  BY <3>1 DEF CallInv
  <2>5. QED  BY <2>1, <2>2, <2>3, <2>4 DEF IInv, Redial
<1>5. QED
  BY <1>1, <1>2, <1>3, <1>4, ConnectionHolds, SurroundingsHold DEF Next

(* The invariant holds of every behaviour.                                 *)
THEOREM Invariance == Spec => []IInv
<1>1. Init => IInv
  BY InitHolds
<1>2. IInv /\ [Next]_vars => IInv'
  BY StepHolds
<1>3. QED  BY <1>1, <1>2, PTL DEF Spec

(* Every variable has its type, what stands in a line was sent on its      *)
(* connection, and only a command that was sent is answered.               *)
THEOREM LineTypes == Spec => []TypeOK
<1>1. IInv => TypeOK
  BY DEF IInv
<1>2. QED  BY <1>1, Invariance, PTL

(* A call takes effect at most once, whatever times out, breaks or is      *)
(* dropped, and whatever the server executes of it afterwards              *)
(* (route_with_safety retries get only, and the driver resends nothing).   *)
THEOREM LineOnce == Spec => []AtMostOnce
<1>1. IInv => AtMostOnce
  BY DEF IInv
<1>2. QED  BY <1>1, Invariance, PTL

(* The calls of one caller take effect in the order it made them, unless   *)
(* the connection broke between them (pool.rs backend).                    *)
THEOREM LineOrder == Spec => []ProgramOrder
<1>1. IInv => ProgramOrder
  BY DEF IInv
<1>2. QED  BY <1>1, Invariance, PTL

(* After a success a call has taken effect; after an empty pop or a missing*)
(* script it has not and never will (run, eval_script).                    *)
THEOREM LineAnswers == Spec => []AnswersAreTrue
<1>1. ASSUME IInv, NEW c \in Callers, op[c] \in Effects
      PROVE  /\ result[c] = "ok" => HasRun(c)
             /\ result[c] \in {"nil", "Missing"} => ~HasRun(c)
  <2>1. Claim(c)
    BY <1>1 DEF IInv, CallInv
  <2>2. Fresh(c) => ~HasRun(c)
    <3>1. number[c] \in Nat
            /\ \A i \in 1..Len(ran[c]) : ran[c][i].number \in Nat
      BY <1>1, RanTypes DEF IInv, TypeOK
    <3>2. QED  BY <3>1 DEF Fresh, HasRun
  <2>3. QED  BY <1>1, <2>1, <2>2 DEF Claim
<1>2. IInv => AnswersAreTrue
  BY <1>1 DEF AnswersAreTrue
<1>3. QED  BY <1>2, Invariance, PTL

(* A script is reported missing only if it was forgotten during the call   *)
(* (script_load_and_eval, eval_script).                                    *)
THEOREM LineMissing == Spec => []MissingMeansForgotten
<1>1. IInv => MissingMeansForgotten
  BY DEF IInv, CallInv, ScriptClaim, MissingMeansForgotten
<1>2. QED  BY <1>1, Invariance, PTL

-----------------------------------------------------------------------------
(* The calls use the pool as its abstract gate.                            *)

(* What a caller does lets it in, lets it out, or leaves the gate alone.   *)
LEMMA CallerStepOfGate ==
  ASSUME TypeOK, NEW c \in Callers, Step(c)
  PROVE  Pool!LetIn(c) \/ Pool!LetOut(c) \/ UNCHANGED <<OnLane, closed>>
<1> DEFINE Inside == {"offline", "running"}
<1>1. CASE GetLane(c)
  BY <1>1 DEF GetLane
<1>2. CASE Cut(c) \/ TimeOut(c) \/ Answered(c) \/ Loaded(c)
  BY <1>2 DEF Cut, TimeOut, Answered, Loaded
<1>3. CASE Begin(c) \/ NoLane(c) \/ Online(c) \/ Proceed(c)
  <2>1. closed' = closed
    BY <1>3 DEF Begin, NoLane, Online, Proceed
  <2>2. PICK w : /\ pc' = [pc EXCEPT ![c] = w]
                 /\ w \in Inside <=> pc[c] \in Inside
    BY <1>3
       DEF TypeOK, Begin, NoLane, FailAttempt, Return, Goto, Online, Proceed,
           Send
  <2>3. OnLane' = OnLane
    BY <2>2 DEF OnLane, TypeOK
  <2>4. QED  BY <2>1, <2>3
<1>4. CASE Cancel(c)
  <2>1. closed' = closed /\ pc' = [pc EXCEPT ![c] = "idle"]
    BY <1>4 DEF Cancel, Return, Goto
  <2>2. OnLane' = OnLane \ {c}
    BY <2>1 DEF OnLane, TypeOK
  <2>3. QED  BY <2>1, <2>2 DEF Pool!LetOut
<1>5. QED  BY <1>1, <1>2, <1>3, <1>4 DEF Step

(* And so does every step.                                                 *)
LEMMA StepOfGate ==
  ASSUME TypeOK, [Next]_vars
  PROVE  [Pool!Next]_(Pool!gateVars)
<1>1. CASE \E c \in Callers : Step(c)
  BY <1>1, CallerStepOfGate DEF Pool!Next, Pool!gateVars
<1>2. CASE Close
  BY <1>2 DEF Close, Pool!Next
<1>3. CASE \/ Serve \/ ServeLeft \/ Break \/ Reconnect \/ Push \/ Flush
           \/ UNCHANGED vars
  <2>1. UNCHANGED <<pc, closed>>
    BY <1>3 DEF Serve, ServeLeft, Break, Reconnect, Push, Flush, vars, caller
  <2>2. QED  BY <2>1 DEF OnLane, Pool!gateVars
<1>4. QED  BY <1>1, <1>2, <1>3 DEF Next

(* Whatever ends a call on its lane, an answer, a timer, a break or a      *)
(* dropped future, it leaves by the gate that RedisPool implements: never  *)
(* more than Lanes are on the connection, and none enters once closed.     *)
THEOREM LineUsesGate == Spec => Pool!Spec
<1>1. Init => Pool!Init
  BY DEF Init, OnLane, Pool!Init
<1>2. QED
  BY <1>1, StepOfGate, LineTypes, PTL DEF Spec, Pool!Spec
=============================================================================
