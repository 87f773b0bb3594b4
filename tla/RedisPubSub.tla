----------------------------- MODULE RedisPubSub ------------------------------
(***************************************************************************)
(* One Pub/Sub session (src/src/pubsub.rs, RedisPool::subscribe in         *)
(* src/src/pool.rs): a connection that messages arrive on, another one for *)
(* PUBLISH, and the stream the session is turned into, in one of two       *)
(* forms.  RedisConnect models how the two connections are made and timed; *)
(* here the session begins with the subscriptions, since messages arrive   *)
(* from the first of them on.                                              *)
(*                                                                         *)
(* The driver parses what arrives into an unbounded buffer that the stream *)
(* reads.  A connection may break, which the driver notices, or fall       *)
(* silent, which it does not: the session has no timer and no keepalive.   *)
(***************************************************************************)
EXTENDS Naturals, Sequences, FiniteSets

CONSTANTS
  Channels,    \* number of channels the session is asked for
  MaxMessages, \* bound: messages others publish
  MaxPublish   \* bound: messages the session publishes

ASSUME PubSubAssumption ==
  Channels \in Nat \ {0} /\ MaxMessages \in Nat /\ MaxPublish \in Nat

VARIABLES
  closed,     \* PoolInner.closed
  phase,      \* what the caller has in hand
  form,       \* of the stream: none yet, messages or results
  subscribed, \* channels 1..subscribed are
  link,       \* the connection that messages arrive on
  transit,    \* messages in it
  buffer,     \* messages the stream can read
  received,   \* items the stream gave, messages and Err
  publishing, \* the publish call: idle, waiting, or how the last one ended
  line,       \* PUBLISH commands on the other connection
  calls,      \* publish calls made
  sent,       \* history: messages the server sent to the session
  parsed,     \* history: how many of them the driver read
  ran,        \* history: publish calls the server executed
  others      \* messages others published

inbound  == <<link, transit, buffer, sent, parsed>>
outbound == <<publishing, line, calls, ran>>
vars     == <<closed, phase, form, subscribed, inbound, received, outbound, others>>

Phases ==
  { "none",        \* nothing yet
    "subscribing", \* in connect_config
    "session",     \* a RedisPubSub
    "stream",      \* the stream made of it
    "ended",       \* the stream, which has ended
    "over" }       \* dropped, or never made

Listening == {"subscribing", "session", "stream"}

Init ==
  /\ closed \in BOOLEAN
  /\ phase = "none" /\ form = "none" /\ subscribed = 0
  /\ link = "up" /\ transit = <<>> /\ buffer = <<>>
  /\ received = <<>>
  /\ publishing = "idle" /\ line = <<>> /\ calls = 0
  /\ sent = <<>> /\ parsed = 0 /\ ran = <<>>
  /\ others = 0

-----------------------------------------------------------------------------
(* The server and the network. *)

(* The server sends the session what is published on its channels, as long *)
(* as it knows of no broken connection.                                    *)
Delivered(channel) ==
  channel <= subscribed /\ link # "broken" /\ phase \in Listening

Numbered(from) == [id |-> Len(sent) + 1, from |-> from]

Message(from) ==
  \E channel \in 1..Channels :
    \/ /\ Delivered(channel)
       /\ sent' = Append(sent, Numbered(from))
       /\ transit' = IF link = "up" THEN Append(transit, Numbered(from)) ELSE transit
    \/ ~Delivered(channel) /\ UNCHANGED <<sent, transit>>

OthersPublish ==
  /\ others < MaxMessages
  /\ others' = others + 1
  /\ Message(0)
  /\ UNCHANGED <<closed, phase, form, subscribed, link, buffer, parsed, received,
                 outbound>>

Arrive ==
  /\ link = "up" /\ transit # <<>> /\ phase \in Listening
  /\ buffer' = Append(buffer, Head(transit))
  /\ transit' = Tail(transit)
  /\ parsed' = parsed + 1
  /\ UNCHANGED <<closed, phase, form, subscribed, link, received, sent, outbound,
                 others>>

Break ==
  /\ link = "up" /\ phase \in Listening
  /\ link' \in {"broken", "silent"}
  /\ transit' = <<>>
  /\ UNCHANGED <<closed, phase, form, subscribed, buffer, parsed, received, sent,
                 outbound, others>>

Close ==
  /\ closed' = TRUE
  /\ UNCHANGED <<phase, form, subscribed, inbound, received, outbound, others>>

-----------------------------------------------------------------------------
(* Making the session. *)

Subscribe ==
  /\ phase = "none"
  /\ phase' = IF closed THEN "over" ELSE "subscribing"
  /\ UNCHANGED <<closed, form, subscribed, inbound, received, outbound, others>>

(* Bug: one channel is not waited for. *)
Subscribed_OffByOne ==
  /\ phase = "subscribing"
  /\ \/ /\ subscribed < Channels /\ link = "up"
        /\ subscribed' = subscribed + 1
        /\ UNCHANGED phase
     \/ /\ subscribed = Channels - 1
        /\ phase' = "session"
        /\ UNCHANGED subscribed
  /\ UNCHANGED <<closed, form, inbound, received, outbound, others>>

(* Bug: one confirmation too many is counted. *)
Subscribed_OneMore ==
  /\ phase = "subscribing"
  /\ \/ /\ subscribed <= Channels /\ link = "up"
        /\ subscribed' = subscribed + 1
        /\ UNCHANGED phase
     \/ /\ subscribed = Channels
        /\ phase' = "session"
        /\ UNCHANGED subscribed
  /\ UNCHANGED <<closed, form, inbound, received, outbound, others>>

(* The server confirms the next channel, or there are no more. *)
Subscribed ==
  /\ phase = "subscribing"
  /\ \/ /\ subscribed < Channels /\ link = "up"
        /\ subscribed' = subscribed + 1
        /\ UNCHANGED phase
     \/ /\ subscribed = Channels
        /\ phase' = "session"
        /\ UNCHANGED subscribed
  /\ UNCHANGED <<closed, form, inbound, received, outbound, others>>

(* The caller drops what it has; while subscribing, also an error or a     *)
(* timer.                                                                  *)
Drop ==
  /\ phase \in Listening
  /\ phase' = "over"
  /\ transit' = <<>> /\ buffer' = <<>>
  /\ UNCHANGED <<closed, form, subscribed, link, parsed, received, sent, outbound,
                 others>>

-----------------------------------------------------------------------------
(* Publishing, on a connection of its own, in one attempt and without the  *)
(* pool's timers. *)

publish ==
  /\ phase = "session" /\ publishing # "waiting" /\ calls < MaxPublish
  /\ calls' = calls + 1
  /\ publishing' = "waiting"
  /\ line' = Append(line, calls')
  /\ UNCHANGED <<closed, phase, form, subscribed, inbound, received, ran, others>>

Executed ==
  /\ line # <<>>
  /\ Message(Head(line))
  /\ ran' = Append(ran, Head(line))
  /\ line' = Tail(line)
  /\ UNCHANGED <<closed, phase, form, subscribed, link, buffer, parsed, received,
                 publishing, calls, others>>

Published ==
  /\ publishing = "waiting" /\ \E i \in 1..Len(ran) : ran[i] = calls
  /\ publishing' = "ok"
  /\ UNCHANGED <<closed, phase, form, subscribed, inbound, received, line, calls, ran,
                 others>>

(* Bug: a call that failed is made once more. *)
PublishFailed_Again ==
  /\ publishing = "waiting"
  /\ line' = Append(line, calls)
  /\ UNCHANGED <<closed, phase, form, subscribed, inbound, received, publishing, calls,
                 ran, others>>

(* The driver's timer, after which the command stays on its way, or a      *)
(* broken connection, which the driver replaces. *)
PublishFailed ==
  /\ publishing = "waiting"
  /\ publishing' = "failed"
  /\ line' \in {line, <<>>}
  /\ UNCHANGED <<closed, phase, form, subscribed, inbound, received, calls, ran, others>>

-----------------------------------------------------------------------------
(* The streams. *)

(* Bug: the messages that came before are lost. *)
IntoStream_Late ==
  /\ phase = "session" /\ publishing # "waiting"
  /\ phase' = "stream"
  /\ form' \in {"messages", "results"}
  /\ buffer' = <<>>
  /\ UNCHANGED <<closed, subscribed, link, transit, sent, parsed, received,
                 outbound, others>>

(* into_message_stream and into_result_message_stream take the session,    *)
(* so that nothing can be published any more.                              *)
IntoStream ==
  /\ phase = "session" /\ publishing # "waiting"
  /\ phase' = "stream"
  /\ form' \in {"messages", "results"}
  /\ UNCHANGED <<closed, subscribed, inbound, received, outbound, others>>

Read ==
  /\ phase = "stream" /\ buffer # <<>>
  /\ received' = Append(received, Head(buffer))
  /\ buffer' = Tail(buffer)
  /\ UNCHANGED <<closed, phase, form, subscribed, link, transit, parsed, sent,
                 outbound, others>>

Err == [id |-> 0, from |-> 0]

(* Bug: the two streams end alike. *)
LastItem_Alike == <<>>

LastItem == IF form = "results" THEN <<Err>> ELSE <<>>

(* Bug: the error overtakes what is still in the buffer. *)
End_Overtakes ==
  /\ phase = "stream" /\ link = "broken"
  /\ received' = received \o LastItem
  /\ phase' = "ended"
  /\ UNCHANGED <<closed, form, subscribed, inbound, outbound, others>>

(* Bug: the stream goes on after its connection broke. *)
End_Never == FALSE /\ UNCHANGED vars

(* The driver's stream is at its end: one Err, or nothing.                 *)
End ==
  /\ phase = "stream" /\ link = "broken" /\ buffer = <<>>
  /\ received' = received \o LastItem
  /\ phase' = "ended"
  /\ UNCHANGED <<closed, form, subscribed, inbound, outbound, others>>

Next ==
  \/ OthersPublish \/ Arrive \/ Break \/ Close
  \/ Subscribe \/ Subscribed \/ Drop
  \/ publish \/ Executed \/ Published \/ PublishFailed
  \/ IntoStream \/ Read \/ End

Spec == Init /\ [][Next]_vars

(* The caller goes on reading its stream; nobody else has to do anything.  *)
FairSpec == Spec /\ WF_vars(Read) /\ WF_vars(End)

-----------------------------------------------------------------------------
Items == [id : Nat, from : Nat]

Told(items) == items # <<>> /\ items[Len(items)] = Err

Messages(items) ==
  IF Told(items) THEN SubSeq(items, 1, Len(items) - 1) ELSE items

(* Every variable has its type; a stream has its form. *)
TypeOK ==
  /\ closed \in BOOLEAN /\ phase \in Phases
  /\ form \in {"none", "messages", "results"}
  /\ phase = "stream" => form # "none"
  /\ subscribed \in 0..Channels /\ link \in {"up", "broken", "silent"}
  /\ transit \in Seq(Items) /\ buffer \in Seq(Items)
  /\ received \in Seq(Items) /\ sent \in Seq(Items)
  /\ publishing \in {"idle", "waiting", "ok", "failed"}
  /\ calls \in 0..MaxPublish /\ parsed \in 0..Len(sent)
  /\ line \in Seq(1..MaxPublish) /\ ran \in Seq(1..MaxPublish)

(* Whatever the caller has read and can still read is a beginning of what  *)
(* the server sent it, from the first subscription on and without a gap,   *)
(* however long the session was kept before it became a stream             *)
(* (connect_config, into_message_stream).                                  *)
NoGaps ==
  phase \in Listening \cup {"ended"} =>
    Messages(received) \o buffer = SubSeq(sent, 1, parsed)

(* The Err of a result stream comes once, last, and after every message    *)
(* that had arrived, so that a reader whose stream is over although it did *)
(* not drop it was told; a message stream has none                         *)
(* (into_message_stream, into_result_message_stream).                      *)
ErrOnceAtTheEnd ==
  /\ \A i \in 1..Len(received) :
       received[i] = Err => i = Len(received) /\ phase \in {"ended", "over"}
  /\ phase = "ended" =>
       /\ parsed = Len(Messages(received))
       /\ form = "results" <=> Told(received)

(* A message the session publishes reaches its own stream's connection, if *)
(* that has not broken: the session is not returned before all its         *)
(* channels are subscribed.                                                *)
HearsItself ==
  link = "up" /\ phase \in {"session", "stream"} =>
    \A i \in 1..Len(ran) : \E j \in 1..Len(sent) : sent[j].from = ran[i]

(* A publish call is executed at most once and in order, though it may run *)
(* after it failed, and always when it returned Ok (publish).              *)
PublishedOnce ==
  /\ \A i, j \in 1..Len(ran) : i < j => ran[i] < ran[j]
  /\ publishing = "ok" => \E i \in 1..Len(ran) : ran[i] = calls

(* A reader learns that the connection broke, however much is in the       *)
(* buffer. A connection that falls silent is another matter: nothing in    *)
(* the session ever notices.                                               *)
BreakNoticed == phase = "stream" /\ link = "broken" ~> phase \in {"ended", "over"}
=============================================================================
