------------------------- MODULE RedisPubSub_proofs --------------------------
(***************************************************************************)
(* Safety of a Pub/Sub session for every number of channels, messages and  *)
(* publish calls: what was sent is read in order and without a gap, the    *)
(* Err of a result stream comes once and last, and what the session        *)
(* publishes is executed at most once and heard by itself.                 *)
(*                                                                         *)
(* The argument says where each message is: read (received), to be read    *)
(* (buffer) or in the network (transit), position by position, so that the *)
(* three follow one another in what the server sent.  Messages are         *)
(* numbered from 1, which tells them from Err.  PUBLISH commands are       *)
(* numbered by their calls, and the numbers only grow along ran and line.  *)
(***************************************************************************)
EXTENDS RedisPubSub, SequenceTheorems, TLAPS

(* The messages among the items read: all but the Err.                     *)
Count ==
  IF phase = "ended" /\ form = "results" THEN Len(received) - 1
  ELSE Len(received)

(* A sequence holds what was sent after the first n messages.              *)
Follows(q, n) == \A i \in 1..Len(q) : q[i] = sent[n + i]

(* The number of a message says where it is; that of Err is 0.             *)
NoErr == \A i \in 1..Len(sent) : sent[i].id = i

(* What the network holds follows what the driver read.                    *)
InTransit ==
  phase \in Listening \cup {"none"} =>
    IF link = "up"
      THEN parsed + Len(transit) = Len(sent) /\ Follows(transit, parsed)
      ELSE transit = <<>>

(* What was read, then the buffer, is what the driver read.                *)
Reading ==
  /\ Count \in Nat /\ Count + Len(buffer) <= parsed
  /\ \A i \in 1..Count : received[i] = sent[i]
  /\ phase # "over" => Count + Len(buffer) = parsed /\ Follows(buffer, Count)

(* What each phase has and has not.                                        *)
Progress ==
  /\ phase = "ended" =>
       /\ buffer = <<>> /\ form # "none"
       /\ form = "results" => received[Len(received)] = Err
  /\ phase \in {"none", "subscribing", "session"} =>
       received = <<>> /\ form = "none"
  /\ phase \in {"session", "stream"} => subscribed = Channels
  /\ phase \in {"none", "subscribing"} => line = <<>> /\ ran = <<>>

(* The calls executed come before those on their way, each in order.       *)
Calls ==
  /\ \A i \in 1..Len(ran) : ran[i] <= calls
  /\ \A i \in 1..Len(line) : line[i] <= calls
  /\ \A i, j \in 1..Len(line) : i < j => line[i] < line[j]
  /\ \A i \in 1..Len(ran), j \in 1..Len(line) : ran[i] < line[j]

(* The inductive invariant.                                                *)
IInv ==
  /\ TypeOK /\ NoErr /\ InTransit /\ Reading /\ Progress /\ Calls
  /\ HearsItself /\ PublishedOnce

-----------------------------------------------------------------------------
(* What is known of the constants, and of lengths.                         *)
LEMMA Bounds ==
  Channels \in Nat /\ Channels >= 1 /\ MaxMessages \in Nat
    /\ MaxPublish \in Nat
BY PubSubAssumption DEF PubSubAssumption

LEMMA Lengths ==
  ASSUME TypeOK
  PROVE  /\ Len(sent) \in Nat /\ Len(transit) \in Nat /\ Len(buffer) \in Nat
         /\ Len(received) \in Nat /\ Len(line) \in Nat /\ Len(ran) \in Nat
         /\ parsed \in Nat /\ parsed <= Len(sent) /\ calls \in Nat
BY Bounds, LenProperties DEF TypeOK

(* What a server does with a published message.                            *)
LEMMA MessageDoes ==
  ASSUME TypeOK, NEW from \in Nat, Message(from)
  PROVE  /\ sent' \in Seq(Items) /\ transit' \in Seq(Items)
         /\ Len(sent') \in Nat /\ Len(sent) <= Len(sent')
         /\ \A i \in 1..Len(sent) : sent'[i] = sent[i]
         /\ \/ UNCHANGED <<sent, transit>>
            \/ /\ Len(sent') = Len(sent) + 1
               /\ sent'[Len(sent) + 1] = Numbered(from)
               /\ transit' =
                    IF link = "up" THEN Append(transit, Numbered(from))
                    ELSE transit
<1>1. Numbered(from) \in Items
  BY Lengths DEF Numbered, Items
<1>2. CASE UNCHANGED <<sent, transit>>
  BY <1>2, Lengths DEF TypeOK
<1>3. CASE /\ sent' = Append(sent, Numbered(from))
           /\ transit' =
                IF link = "up" THEN Append(transit, Numbered(from))
                ELSE transit
  BY <1>1, <1>3, Lengths, AppendProperties DEF TypeOK
<1>4. QED  BY <1>2, <1>3 DEF Message

(* A published message keeps the pipeline in order.                        *)
LEMMA MessageKeeps ==
  ASSUME IInv, NEW from \in Nat, Message(from),
         UNCHANGED <<phase, form, link, buffer, parsed, received>>
  PROVE  NoErr' /\ InTransit' /\ Reading'
<1>1. /\ sent' \in Seq(Items) /\ transit' \in Seq(Items)
      /\ Len(sent') \in Nat /\ Len(sent) <= Len(sent')
      /\ \A i \in 1..Len(sent) : sent'[i] = sent[i]
      /\ \/ UNCHANGED <<sent, transit>>
         \/ /\ Len(sent') = Len(sent) + 1
            /\ sent'[Len(sent) + 1] = Numbered(from)
            /\ transit' =
                 IF link = "up" THEN Append(transit, Numbered(from))
                 ELSE transit
  BY MessageDoes DEF IInv
<1>2. NoErr'
  <2>1. Len(sent) \in Nat /\ \A i \in 1..Len(sent) : sent[i].id = i
    BY Lengths DEF IInv, NoErr
  <2>2. CASE UNCHANGED sent
    BY <2>1, <2>2 DEF NoErr
  <2>3. CASE Len(sent') = Len(sent) + 1
               /\ sent'[Len(sent) + 1] = Numbered(from)
    <3>1. sent'[Len(sent) + 1].id = Len(sent) + 1
      BY <2>3 DEF Numbered
    <3>2. SUFFICES ASSUME NEW i \in 1..Len(sent')
                   PROVE  sent'[i].id = i
      BY DEF NoErr
    <3>3. i \in 1..Len(sent) \/ i = Len(sent) + 1
      BY <2>1, <2>3
    <3>4. QED  BY <1>1, <2>1, <3>1, <3>3
  <2>4. QED  BY <1>1, <2>2, <2>3
<1>3. InTransit'
  <2>1. CASE UNCHANGED <<sent, transit>>
    BY <2>1 DEF IInv, InTransit, Follows
  <2>2. CASE link = "up" /\ Len(sent') = Len(sent) + 1
               /\ transit' = Append(transit, Numbered(from))
    <3>1. Numbered(from) \in Items
      BY Lengths DEF IInv, Numbered, Items
    <3>2. /\ Len(transit') = Len(transit) + 1
          /\ \A i \in 1..Len(transit) : transit'[i] = transit[i]
          /\ transit'[Len(transit) + 1] = Numbered(from)
      BY <2>2, <3>1, AppendProperties DEF IInv, TypeOK
    <3>3. ASSUME phase \in Listening \cup {"none"}
          PROVE  /\ parsed + Len(transit') = Len(sent')
                 /\ \A i \in 1..Len(transit') : transit'[i] = sent'[parsed + i]
      <4>1. parsed + Len(transit) = Len(sent)
        BY <2>2, <3>3 DEF IInv, InTransit
      <4>2. \A i \in 1..Len(transit) : transit[i] = sent[parsed + i]
        BY <2>2, <3>3 DEF IInv, InTransit, Follows
      <4>3. parsed \in Nat /\ Len(transit) \in Nat /\ Len(sent) \in Nat
        BY Lengths DEF IInv
      <4>4. /\ parsed + (Len(transit) + 1) = Len(sent) + 1
            /\ \A i \in 1..Len(transit) : parsed + i \in 1..Len(sent)
        BY <4>1, <4>3
      <4>5. \A i \in 1..Len(transit') : i \in 1..Len(transit)
              \/ i = Len(transit) + 1
        BY <3>2, <4>3
      <4>6. QED
        BY <1>1, <2>2, <3>2, <4>1, <4>2, <4>3, <4>4, <4>5, Lengths DEF IInv
    <3>4. QED  BY <2>2, <3>3 DEF InTransit, Follows
  <2>3. CASE link # "up" /\ transit' = transit
    BY <2>3 DEF IInv, InTransit
  <2>4. QED  BY <1>1, <2>1, <2>2, <2>3
<1>4. Reading'
  <2>1. Count' = Count /\ Len(sent) \in Nat /\ parsed \in Nat
          /\ Len(buffer) \in Nat /\ parsed <= Len(sent)
    BY Lengths DEF IInv, Count
  <2>2. /\ Count \in Nat /\ Count + Len(buffer) <= parsed
        /\ \A i \in 1..Count : received[i] = sent[i]
        /\ phase # "over" => Count + Len(buffer) = parsed
        /\ phase # "over" =>
             \A i \in 1..Len(buffer) : buffer[i] = sent[Count + i]
    BY DEF IInv, Reading, Follows
  <2>3. /\ \A i \in 1..Count : i \in 1..Len(sent)
        /\ \A i \in 1..Len(buffer) : Count + i \in 1..Len(sent)
    BY <2>1, <2>2
  <2>4. \A i \in 1..Count : received[i] = sent'[i]
    BY <1>1, <2>2, <2>3
  <2>5. phase # "over" =>
          \A i \in 1..Len(buffer) : buffer[i] = sent'[Count + i]
    BY <1>1, <2>2, <2>3
  <2>6. QED  BY <2>1, <2>2, <2>4, <2>5 DEF Reading, Follows
<1>5. QED  BY <1>2, <1>3, <1>4

(* Each action keeps the invariant.                                        *)
LEMMA OthersPublishKeeps ==
  ASSUME IInv, OthersPublish
  PROVE  IInv'
<1>1. Message(0)
        /\ UNCHANGED <<closed, phase, form, subscribed, link, buffer, parsed,
                       received, publishing, line, calls, ran>>
  BY DEF OthersPublish, outbound
<1>2. /\ sent' \in Seq(Items) /\ transit' \in Seq(Items)
      /\ Len(sent') \in Nat /\ Len(sent) <= Len(sent')
      /\ \A i \in 1..Len(sent) : sent'[i] = sent[i]
  BY <1>1, MessageDoes DEF IInv
<1>3. NoErr' /\ InTransit' /\ Reading'
  BY <1>1, MessageKeeps
<1>4. TypeOK'
  BY <1>1, <1>2, Lengths DEF IInv, TypeOK
<1>5. Progress' /\ Calls' /\ PublishedOnce'
  BY <1>1 DEF IInv, Progress, Calls, PublishedOnce
<1>6. HearsItself'
  <2>1. Len(sent) \in Nat /\ \A j \in 1..Len(sent) : j \in 1..Len(sent')
    BY <1>2, Lengths DEF IInv
  <2>2. SUFFICES ASSUME link = "up", phase \in {"session", "stream"},
                        NEW i \in 1..Len(ran)
                 PROVE  \E j \in 1..Len(sent') : sent'[j].from = ran[i]
    BY <1>1 DEF HearsItself
  <2>3. PICK j \in 1..Len(sent) : sent[j].from = ran[i]
    BY <2>2 DEF IInv, HearsItself
  <2>4. QED  BY <1>2, <2>1, <2>3
<1>7. QED  BY <1>3, <1>4, <1>5, <1>6 DEF IInv

(* The command executed is the next; with every channel subscribed it is   *)
(* heard.                                                                  *)
LEMMA ExecutedKeeps ==
  ASSUME IInv, Executed
  PROVE  IInv'
<1> DEFINE n == Head(line)
<1>1. /\ line # <<>> /\ Message(n) /\ ran' = Append(ran, n)
           /\ line' = Tail(line)
      /\ UNCHANGED <<closed, phase, form, subscribed, link, buffer, parsed,
                     received, publishing, calls, others>>
  BY DEF Executed
<1>2. /\ n \in 1..MaxPublish /\ n \in Nat /\ n = line[1] /\ 1 \in 1..Len(line)
      /\ line' \in Seq(1..MaxPublish) /\ Len(line') = Len(line) - 1
      /\ \A i \in 1..Len(line') : line'[i] = line[i + 1]
  <2>1. line \in Seq(1..MaxPublish) /\ line # <<>>
    BY <1>1 DEF IInv, TypeOK
  <2>2. /\ Head(line) \in 1..MaxPublish
        /\ Tail(line) \in Seq(1..MaxPublish)
        /\ Len(Tail(line)) = Len(line) - 1
        /\ \A i \in 1..Len(Tail(line)) : Tail(line)[i] = line[i + 1]
    BY <2>1, HeadTailProperties
  <2>3. Len(line) \in Nat /\ Len(line) # 0
    BY <2>1, EmptySeq, LenProperties
  <2>4. Head(line) = line[1] /\ 1 \in 1..Len(line)
    BY <2>1, <2>3
  <2>5. QED  BY <1>1, <2>2, <2>4, Bounds
<1>3. /\ ran' \in Seq(1..MaxPublish) /\ Len(ran') = Len(ran) + 1
      /\ \A i \in 1..Len(ran) : ran'[i] = ran[i]
      /\ ran'[Len(ran) + 1] = n
  BY <1>1, <1>2, AppendProperties DEF IInv, TypeOK
<1>4. /\ sent' \in Seq(Items) /\ transit' \in Seq(Items)
      /\ Len(sent') \in Nat /\ Len(sent) <= Len(sent')
      /\ \A i \in 1..Len(sent) : sent'[i] = sent[i]
  BY <1>1, <1>2, MessageDoes DEF IInv
<1>5. NoErr' /\ InTransit' /\ Reading'
  BY <1>1, <1>2, MessageKeeps
<1>6. TypeOK'
  BY <1>1, <1>2, <1>3, <1>4, Lengths DEF IInv, TypeOK
<1>7. Progress'
  BY <1>1 DEF IInv, Progress
<1>8. Calls'
  <2>1. /\ Len(ran) \in Nat /\ Len(line) \in Nat
        /\ \A i \in 1..Len(line') : i + 1 \in 1..Len(line) /\ 1 < i + 1
        /\ \A i, j \in 1..Len(line') : i < j => i + 1 < j + 1
    <3>1. Len(ran) \in Nat /\ Len(line) \in Nat
      BY Lengths DEF IInv
    <3>2. \A i \in 1..Len(line') : i + 1 \in 1..Len(line) /\ 1 < i + 1
      BY <1>2, <3>1
    <3>3. QED  BY <3>1, <3>2
  <2>2. \A i \in 1..Len(ran') : i \in 1..Len(ran) \/ i = Len(ran) + 1
    BY <1>3, <2>1
  <2>3. n <= calls /\ \A i \in 1..Len(line') : n < line'[i]
    BY <1>2, <2>1 DEF IInv, Calls
  <2>4. \A i \in 1..Len(ran') : ran'[i] <= calls
    BY <1>3, <2>2, <2>3 DEF IInv, Calls
  <2>5. \A i \in 1..Len(line') : line'[i] <= calls
    BY <1>2, <2>1 DEF IInv, Calls
  <2>6. \A i, j \in 1..Len(line') : i < j => line'[i] < line'[j]
    BY <1>2, <2>1 DEF IInv, Calls
  <2>7. \A i \in 1..Len(ran'), j \in 1..Len(line') : ran'[i] < line'[j]
    BY <1>2, <1>3, <2>1, <2>2, <2>3 DEF IInv, Calls
  <2>8. QED  BY <1>1, <2>4, <2>5, <2>6, <2>7 DEF Calls
<1>9. PublishedOnce'
  <2>1. \A i, j \in 1..Len(ran') : i < j => ran'[i] < ran'[j]
    <3>1. \A i \in 1..Len(ran) : ran[i] < n
      BY <1>2 DEF IInv, Calls
    <3>2. \A i, j \in 1..Len(ran) : i < j => ran[i] < ran[j]
      BY DEF IInv, PublishedOnce
    <3>3. Len(ran) \in Nat
      BY Lengths DEF IInv
    <3>4. \A i, j \in 1..Len(ran') : i < j =>
            i \in 1..Len(ran) /\ (j \in 1..Len(ran) \/ j = Len(ran) + 1)
      BY <1>3, <3>3
    <3>5. QED  BY <1>3, <3>1, <3>2, <3>4
  <2>2. publishing = "ok" => \E i \in 1..Len(ran') : ran'[i] = calls
    BY <1>3, Lengths DEF IInv, PublishedOnce
  <2>3. QED  BY <1>1, <2>1, <2>2 DEF PublishedOnce
<1>10. HearsItself'
  <2>1. SUFFICES ASSUME link = "up", phase \in {"session", "stream"}
                 PROVE  \A i \in 1..Len(ran') :
                          \E j \in 1..Len(sent') : sent'[j].from = ran'[i]
    BY <1>1 DEF HearsItself
  <2>2. \A channel \in 1..Channels : Delivered(channel)
    BY <2>1, Bounds DEF IInv, Progress, Delivered, Listening
  <2>3. Len(sent') = Len(sent) + 1 /\ sent'[Len(sent) + 1].from = n
    <3>1. sent' = Append(sent, Numbered(n))
      BY <1>1, <2>2 DEF Message
    <3>2. Len(sent) + 1 \in Nat /\ sent \in Seq(Items)
      BY Lengths DEF IInv, TypeOK
    <3>3. Numbered(n) \in Items /\ Numbered(n).from = n
      BY <1>2, <3>2 DEF Numbered, Items
    <3>4. QED  BY <3>1, <3>2, <3>3, AppendProperties
  <2>4. \A i \in 1..Len(ran) : \E j \in 1..Len(sent) : sent[j].from = ran[i]
    BY <2>1 DEF IInv, HearsItself
  <2>5. ASSUME NEW i \in 1..Len(ran')
        PROVE  \E j \in 1..Len(sent') : sent'[j].from = ran'[i]
    <3>1. CASE i = Len(ran) + 1
      <4>1. Len(sent) + 1 \in 1..Len(sent')
        BY <2>3, Lengths DEF IInv
      <4>2. QED  BY <1>3, <2>3, <3>1, <4>1
    <3>2. CASE i # Len(ran) + 1
      <4>1. i \in 1..Len(ran)
        BY <1>3, <2>5, <3>2, Lengths DEF IInv
      <4>2. PICK j \in 1..Len(sent) : sent[j].from = ran[i]
        BY <2>4, <4>1
      <4>3. j \in 1..Len(sent')
        BY <1>4, Lengths DEF IInv
      <4>4. QED  BY <1>3, <1>4, <4>1, <4>2, <4>3
    <3>3. QED  BY <3>1, <3>2
  <2>6. QED  BY <2>5
<1>11. QED
  BY <1>5, <1>6, <1>7, <1>8, <1>9, <1>10 DEF IInv

(* Steps that leave messages alone.                                        *)
LEMMA PipelineKept ==
  ASSUME IInv, UNCHANGED <<inbound, received>>, Count' = Count,
         phase' \in Listening \cup {"none"} =>
           phase \in Listening \cup {"none"},
         phase' # "over" => phase # "over"
  PROVE  NoErr' /\ InTransit' /\ Reading'
<1>1. UNCHANGED <<link, transit, buffer, sent, parsed, received>>
  BY DEF inbound
<1>2. NoErr' /\ InTransit'
  BY <1>1 DEF IInv, NoErr, InTransit, Follows
<1>3. Reading'
  BY <1>1 DEF IInv, Reading, Follows
<1>4. QED  BY <1>2, <1>3

(* From the network to the buffer.                                         *)
LEMMA ArriveKeeps ==
  ASSUME IInv, Arrive
  PROVE  IInv'
<1>1. /\ link = "up" /\ transit # <<>> /\ phase \in Listening
      /\ buffer' = Append(buffer, Head(transit)) /\ transit' = Tail(transit)
      /\ parsed' = parsed + 1
      /\ UNCHANGED <<closed, phase, form, subscribed, link, received, sent,
                     publishing, line, calls, ran, others>>
  BY DEF Arrive, outbound
<1>2. /\ Head(transit) \in Items /\ Head(transit) = transit[1]
      /\ 1 \in 1..Len(transit)
      /\ transit' \in Seq(Items) /\ Len(transit') = Len(transit) - 1
      /\ \A i \in 1..Len(transit') : transit'[i] = transit[i + 1]
  BY <1>1, HeadTailProperties, EmptySeq DEF IInv, TypeOK
<1>3. /\ buffer' \in Seq(Items) /\ Len(buffer') = Len(buffer) + 1
      /\ \A i \in 1..Len(buffer) : buffer'[i] = buffer[i]
      /\ buffer'[Len(buffer) + 1] = Head(transit)
  BY <1>1, <1>2, AppendProperties DEF IInv, TypeOK
<1>4. parsed + Len(transit) = Len(sent)
        /\ \A i \in 1..Len(transit) : transit[i] = sent[parsed + i]
  BY <1>1 DEF IInv, InTransit, Follows
<1>5. TypeOK'
  BY <1>1, <1>2, <1>3, <1>4, Lengths DEF IInv, TypeOK
<1>6. NoErr'
  BY <1>1 DEF IInv, NoErr
<1>7. InTransit'
  <2>1. Len(transit) \in Nat /\ Len(sent) \in Nat /\ parsed \in Nat
    BY Lengths DEF IInv
  <2>2. ASSUME NEW i \in 1..Len(transit')
        PROVE  transit'[i] = sent[parsed + 1 + i]
    <3>1. i + 1 \in 1..Len(transit) /\ parsed + (i + 1) = parsed + 1 + i
      BY <1>2, <2>1
    <3>2. transit[i + 1] = sent[parsed + (i + 1)]
      BY <1>4, <3>1
    <3>3. QED  BY <1>2, <3>1, <3>2
  <2>3. parsed' + Len(transit') = Len(sent')
    BY <1>1, <1>2, <1>4, <2>1
  <2>4. sent' = sent /\ parsed' = parsed + 1
    BY <1>1
  <2>5. \A i \in 1..Len(transit') : transit'[i] = sent'[parsed' + i]
    BY <2>2, <2>4
  <2>6. QED  BY <1>1, <2>3, <2>5 DEF InTransit, Follows
<1>8. Reading'
  <2>1. Count' = Count /\ Count = Len(received) /\ phase # "over"
    BY <1>1 DEF Count, Listening
  <2>2. Count + Len(buffer) = parsed
          /\ \A i \in 1..Len(buffer) : buffer[i] = sent[Count + i]
    BY <2>1 DEF IInv, Reading, Follows
  <2>3. Count \in Nat /\ Len(buffer) \in Nat /\ parsed \in Nat
    BY <2>1, Lengths DEF IInv
  <2>4. Head(transit) = sent[Count + (Len(buffer) + 1)]
    <3>1. Count + (Len(buffer) + 1) = parsed + 1
      BY <2>2, <2>3
    <3>2. QED  BY <1>2, <1>4, <3>1
  <2>5. ASSUME NEW i \in 1..Len(buffer')
        PROVE  buffer'[i] = sent[Count + i]
    <3>1. i \in 1..Len(buffer) \/ i = Len(buffer) + 1
      BY <1>3, <2>3
    <3>2. QED  BY <1>3, <2>2, <2>4, <3>1
  <2>6. Count + Len(buffer') = parsed'
    BY <1>1, <1>3, <2>2, <2>3
  <2>7. sent' = sent /\ received' = received
    BY <1>1
  <2>8. \A i \in 1..Len(buffer') : buffer'[i] = sent'[Count' + i]
    BY <2>1, <2>5, <2>7
  <2>9. \A i \in 1..Count' : received'[i] = sent'[i]
    BY <2>1, <2>7 DEF IInv, Reading
  <2>10. Count' \in Nat /\ Count' + Len(buffer') = parsed' /\ parsed' \in Nat
    BY <1>1, <2>1, <2>3, <2>6
  <2>11. Count' + Len(buffer') <= parsed'
    BY <2>10
  <2>12. QED  BY <2>8, <2>9, <2>10, <2>11 DEF Reading, Follows
<1>9. Progress' /\ Calls' /\ HearsItself' /\ PublishedOnce'
  BY <1>1 DEF IInv, Progress, Listening, Calls, HearsItself, PublishedOnce
<1>10. QED  BY <1>5, <1>6, <1>7, <1>8, <1>9 DEF IInv

LEMMA BreakKeeps ==
  ASSUME IInv, Break
  PROVE  IInv'
<1>1. /\ link' # "up" /\ link' \in {"up", "broken", "silent"}
           /\ transit' = <<>>
      /\ UNCHANGED <<closed, phase, form, subscribed, buffer, parsed,
                     received, sent, publishing, line, calls, ran, others>>
  BY DEF Break, outbound
<1>2. TypeOK'
  BY <1>1, EmptySeq DEF IInv, TypeOK
<1>3. NoErr' /\ InTransit' /\ Reading'
  BY <1>1 DEF IInv, NoErr, InTransit, Reading, Count, Follows
<1>4. Progress' /\ Calls' /\ HearsItself' /\ PublishedOnce'
  BY <1>1 DEF IInv, Progress, Calls, HearsItself, PublishedOnce
<1>5. QED  BY <1>2, <1>3, <1>4 DEF IInv

LEMMA CloseKeeps ==
  ASSUME IInv, Close
  PROVE  IInv'
<1>1. closed' = TRUE /\ UNCHANGED <<phase, form, subscribed, inbound,
                                    received, publishing, line, calls, ran,
                                    others>>
  BY DEF Close, outbound
<1>2. TypeOK'
  BY <1>1 DEF IInv, TypeOK, inbound
<1>3. NoErr' /\ InTransit' /\ Reading'
  BY <1>1, PipelineKept DEF Count
<1>4. Progress' /\ Calls' /\ HearsItself' /\ PublishedOnce'
  BY <1>1 DEF IInv, Progress, Calls, HearsItself, PublishedOnce, inbound
<1>5. QED  BY <1>2, <1>3, <1>4 DEF IInv

LEMMA SubscribeKeeps ==
  ASSUME IInv, Subscribe
  PROVE  IInv'
<1>1. /\ phase = "none" /\ phase' \in {"over", "subscribing"}
      /\ UNCHANGED <<closed, form, subscribed, inbound, received, publishing,
                     line, calls, ran, others>>
  BY DEF Subscribe, outbound
<1>2. TypeOK'
  BY <1>1 DEF IInv, TypeOK, inbound, Phases
<1>3. NoErr' /\ InTransit' /\ Reading'
  BY <1>1, PipelineKept DEF Count
<1>4. Progress' /\ Calls' /\ HearsItself' /\ PublishedOnce'
  BY <1>1 DEF IInv, Progress, Calls, HearsItself, PublishedOnce, inbound
<1>5. QED  BY <1>2, <1>3, <1>4 DEF IInv

LEMMA SubscribedKeeps ==
  ASSUME IInv, Subscribed
  PROVE  IInv'
<1>1. /\ phase = "subscribing"
      /\ \/ subscribed < Channels /\ subscribed' = subscribed + 1
              /\ phase' = phase
         \/ subscribed = Channels /\ subscribed' = subscribed
              /\ phase' = "session"
      /\ UNCHANGED <<closed, form, inbound, received, publishing, line, calls,
                     ran, others>>
  BY DEF Subscribed, outbound
<1>2. TypeOK'
  BY <1>1, Bounds DEF IInv, TypeOK, inbound, Phases
<1>3. NoErr' /\ InTransit' /\ Reading'
  BY <1>1, PipelineKept DEF Count, Listening
<1>4. ran = <<>> /\ Len(ran) = 0
  BY <1>1, EmptySeq DEF IInv, Progress
<1>5. Progress' /\ Calls' /\ HearsItself' /\ PublishedOnce'
  BY <1>1, <1>4 DEF IInv, Progress, Calls, HearsItself, PublishedOnce, inbound
<1>6. QED  BY <1>2, <1>3, <1>5 DEF IInv

LEMMA DropKeeps ==
  ASSUME IInv, Drop
  PROVE  IInv'
<1>1. /\ phase \in Listening /\ phase' = "over"
      /\ transit' = <<>> /\ buffer' = <<>>
      /\ UNCHANGED <<closed, form, subscribed, link, parsed, received, sent,
                     publishing, line, calls, ran, others>>
  BY DEF Drop, outbound
<1>2. TypeOK'
  BY <1>1, EmptySeq DEF IInv, TypeOK, Phases
<1>3. NoErr' /\ InTransit'
  BY <1>1 DEF IInv, NoErr, InTransit, Listening
<1>4. Reading'
  BY <1>1, EmptySeq, Lengths DEF IInv, Reading, Count, Listening
<1>5. Progress' /\ Calls' /\ HearsItself' /\ PublishedOnce'
  BY <1>1 DEF IInv, Progress, Calls, HearsItself, PublishedOnce
<1>6. QED  BY <1>2, <1>3, <1>4, <1>5 DEF IInv

(* The number of a call is larger than all before.                         *)
LEMMA PublishKeeps ==
  ASSUME IInv, publish
  PROVE  IInv'
<1>1. /\ phase = "session" /\ calls < MaxPublish /\ calls' = calls + 1
      /\ publishing' = "waiting" /\ line' = Append(line, calls')
      /\ UNCHANGED <<closed, phase, form, subscribed, inbound, received, ran,
                     others>>
  BY DEF publish
<1>2. calls' \in 1..MaxPublish
  BY <1>1, Bounds DEF IInv, TypeOK
<1>3. /\ line' \in Seq(1..MaxPublish) /\ Len(line') = Len(line) + 1
      /\ \A i \in 1..Len(line) : line'[i] = line[i]
      /\ line'[Len(line) + 1] = calls'
  BY <1>1, <1>2, AppendProperties DEF IInv, TypeOK
<1>4. TypeOK'
  BY <1>1, <1>2, <1>3 DEF IInv, TypeOK, inbound
<1>5. NoErr' /\ InTransit' /\ Reading'
  BY <1>1, PipelineKept DEF Count
<1>6. Progress' /\ HearsItself' /\ PublishedOnce'
  BY <1>1 DEF IInv, Progress, HearsItself, PublishedOnce, inbound
<1>7. Calls'
  <2>1. /\ \A i \in 1..Len(line) : line[i] \in Nat /\ line[i] < calls'
        /\ \A i \in 1..Len(ran) : ran[i] \in Nat /\ ran[i] < calls'
    <3>1. /\ \A i \in 1..Len(line) : line[i] \in 1..MaxPublish
          /\ \A i \in 1..Len(ran) : ran[i] \in 1..MaxPublish
      BY ElementOfSeq DEF IInv, TypeOK
    <3>2. calls \in Nat /\ calls' = calls + 1 /\ 1..MaxPublish \subseteq Nat
      BY <1>1, Bounds, Lengths DEF IInv
    <3>3. ASSUME NEW i \in 1..Len(line)
          PROVE  line[i] \in Nat /\ line[i] < calls'
      <4>1. line[i] \in Nat /\ line[i] <= calls
        BY <3>1, <3>2 DEF IInv, Calls
      <4>2. QED  BY <3>2, <4>1
    <3>4. ASSUME NEW i \in 1..Len(ran)
          PROVE  ran[i] \in Nat /\ ran[i] < calls'
      <4>1. ran[i] \in Nat /\ ran[i] <= calls
        BY <3>1, <3>2 DEF IInv, Calls
      <4>2. QED  BY <3>2, <4>1
    <3>5. QED  BY <3>3, <3>4
  <2>2. \A i \in 1..Len(line') : i \in 1..Len(line) \/ i = Len(line) + 1
    BY <1>3, Lengths DEF IInv
  <2>3. /\ \A i \in 1..Len(ran) : ran[i] <= calls'
        /\ \A i \in 1..Len(line') : line'[i] <= calls'
    <3>1. calls' \in Nat
      BY <1>2, Bounds
    <3>2. ASSUME NEW i \in 1..Len(line')
          PROVE  line'[i] <= calls'
      <4>1. CASE i \in 1..Len(line)
        BY <1>3, <2>1, <3>1, <4>1
      <4>2. CASE i = Len(line) + 1
        BY <1>3, <3>1, <4>2
      <4>3. QED  BY <2>2, <4>1, <4>2
    <3>3. QED  BY <2>1, <3>1, <3>2
  <2>4. ASSUME NEW i \in 1..Len(line'), NEW j \in 1..Len(line'), i < j
        PROVE  line'[i] < line'[j]
    <3>1. Len(line) \in Nat
      BY Lengths DEF IInv
    <3>2. i \in 1..Len(line)
      BY <1>3, <2>4, <3>1
    <3>3. CASE j \in 1..Len(line)
      <4>1. line[i] < line[j]
        BY <2>4, <3>2, <3>3 DEF IInv, Calls
      <4>2. QED  BY <1>3, <3>2, <3>3, <4>1
    <3>4. CASE j = Len(line) + 1
      BY <1>3, <2>1, <3>2, <3>4
    <3>5. QED  BY <2>2, <3>3, <3>4
  <2>5. \A i \in 1..Len(ran), j \in 1..Len(line') : ran[i] < line'[j]
    BY <1>3, <2>1, <2>2 DEF IInv, Calls
  <2>6. QED  BY <1>1, <2>3, <2>4, <2>5 DEF Calls
<1>8. QED  BY <1>4, <1>5, <1>6, <1>7 DEF IInv

LEMMA PublishedKeeps ==
  ASSUME IInv, Published
  PROVE  IInv'
<1>1. /\ \E i \in 1..Len(ran) : ran[i] = calls
      /\ publishing' = "ok"
      /\ UNCHANGED <<closed, phase, form, subscribed, inbound, received, line,
                     calls, ran, others>>
  BY DEF Published
<1>2. TypeOK'
  BY <1>1 DEF IInv, TypeOK, inbound
<1>3. NoErr' /\ InTransit' /\ Reading'
  BY <1>1, PipelineKept DEF Count
<1>4. Progress' /\ Calls' /\ HearsItself' /\ PublishedOnce'
  BY <1>1 DEF IInv, Progress, Calls, HearsItself, PublishedOnce, inbound
<1>5. QED  BY <1>2, <1>3, <1>4 DEF IInv

LEMMA PublishFailedKeeps ==
  ASSUME IInv, PublishFailed
  PROVE  IInv'
<1>1. /\ publishing' = "failed" /\ line' \in {line, <<>>}
      /\ UNCHANGED <<closed, phase, form, subscribed, inbound, received,
                     calls, ran, others>>
  BY DEF PublishFailed
<1>2. TypeOK'
  BY <1>1, EmptySeq DEF IInv, TypeOK, inbound
<1>3. NoErr' /\ InTransit' /\ Reading'
  BY <1>1, PipelineKept DEF Count
<1>4. Progress' /\ Calls' /\ HearsItself' /\ PublishedOnce'
  BY <1>1, EmptySeq
     DEF IInv, Progress, Calls, HearsItself, PublishedOnce, inbound
<1>5. QED  BY <1>2, <1>3, <1>4 DEF IInv

LEMMA IntoStreamKeeps ==
  ASSUME IInv, IntoStream
  PROVE  IInv'
<1>1. /\ phase = "session" /\ phase' = "stream"
           /\ form' \in {"messages", "results"}
      /\ UNCHANGED <<closed, subscribed, inbound, received, publishing, line,
                     calls, ran, others>>
  BY DEF IntoStream, outbound
<1>2. TypeOK'
  BY <1>1 DEF IInv, TypeOK, inbound, Phases
<1>3. NoErr' /\ InTransit' /\ Reading'
  BY <1>1, PipelineKept DEF Count, Listening
<1>4. Progress' /\ Calls' /\ HearsItself' /\ PublishedOnce'
  BY <1>1 DEF IInv, Progress, Calls, HearsItself, PublishedOnce, inbound
<1>5. QED  BY <1>2, <1>3, <1>4 DEF IInv

(* From the buffer to the reader.                                          *)
LEMMA ReadKeeps ==
  ASSUME IInv, Read
  PROVE  IInv'
<1>1. /\ phase = "stream" /\ buffer # <<>>
      /\ received' = Append(received, Head(buffer)) /\ buffer' = Tail(buffer)
      /\ UNCHANGED <<closed, phase, form, subscribed, link, transit, parsed,
                     sent, publishing, line, calls, ran, others>>
  BY DEF Read, outbound
<1>2. /\ Head(buffer) \in Items /\ Head(buffer) = buffer[1]
      /\ 1 \in 1..Len(buffer)
      /\ buffer' \in Seq(Items) /\ Len(buffer') = Len(buffer) - 1
      /\ \A i \in 1..Len(buffer') : buffer'[i] = buffer[i + 1]
  BY <1>1, HeadTailProperties, EmptySeq DEF IInv, TypeOK
<1>3. /\ received' \in Seq(Items) /\ Len(received') = Len(received) + 1
      /\ \A i \in 1..Len(received) : received'[i] = received[i]
      /\ received'[Len(received) + 1] = Head(buffer)
  BY <1>1, <1>2, AppendProperties DEF IInv, TypeOK
<1>4. TypeOK'
  BY <1>1, <1>2, <1>3 DEF IInv, TypeOK
<1>5. NoErr' /\ InTransit'
  BY <1>1 DEF IInv, NoErr, InTransit, Follows
<1>6. Reading'
  <2>1. Count = Len(received) /\ Count' = Count + 1
    BY <1>1, <1>3 DEF Count
  <2>2. /\ Count + Len(buffer) = parsed
        /\ \A i \in 1..Count : received[i] = sent[i]
        /\ \A i \in 1..Len(buffer) : buffer[i] = sent[Count + i]
    BY <1>1 DEF IInv, Reading, Follows
  <2>3. received'[Count + 1] = sent[Count + 1]
    BY <1>2, <1>3, <2>1, <2>2
  <2>4. ASSUME NEW i \in 1..Count'
        PROVE  received'[i] = sent[i]
    <3>1. i \in 1..Count \/ i = Count + 1
      BY <2>1, Lengths DEF IInv
    <3>2. QED  BY <1>3, <2>1, <2>2, <2>3, <3>1
  <2>5. \A i \in 1..Len(buffer') : buffer'[i] = sent[Count' + i]
    <3>1. \A i \in 1..Len(buffer') : i + 1 \in 1..Len(buffer)
            /\ Count + (i + 1) = Count + 1 + i
      BY <1>2, <2>1, Lengths DEF IInv
    <3>2. ASSUME NEW i \in 1..Len(buffer')
          PROVE  buffer'[i] = sent[Count' + i]
      BY <1>2, <2>1, <2>2, <3>1
    <3>3. QED  BY <3>2
  <2>6. Count' \in Nat /\ Count' + Len(buffer') = parsed
    BY <1>2, <2>1, <2>2, Lengths DEF IInv
  <2>7. sent' = sent /\ parsed' = parsed /\ parsed \in Nat
    BY <1>1, Lengths DEF IInv
  <2>8. Count' + Len(buffer') <= parsed
    BY <2>6, <2>7
  <2>9. QED  BY <2>4, <2>5, <2>6, <2>7, <2>8 DEF Reading, Follows
<1>7. Progress' /\ Calls' /\ HearsItself' /\ PublishedOnce'
  BY <1>1 DEF IInv, Progress, Calls, HearsItself, PublishedOnce
<1>8. QED  BY <1>4, <1>5, <1>6, <1>7 DEF IInv

(* Nothing is left to read when Err comes.                                 *)
LEMMA EndKeeps ==
  ASSUME IInv, End
  PROVE  IInv'
<1>1. /\ phase = "stream" /\ buffer = <<>>
      /\ received' = received \o LastItem /\ phase' = "ended"
      /\ UNCHANGED <<closed, form, subscribed, inbound, publishing, line,
                     calls, ran, others>>
  BY DEF End, outbound
<1>2. form \in {"messages", "results"}
  BY <1>1 DEF IInv, TypeOK
<1>3. \/ form = "messages" /\ received' = received
      \/ form = "results" /\ received' = Append(received, Err)
  BY <1>1, <1>2, ConcatEmptySeq, AppendIsConcat
     DEF LastItem, IInv, TypeOK, Err, Items
<1>4. Err \in Items
  BY DEF Err, Items
<1>5. /\ received' \in Seq(Items) /\ Count' = Len(received)
           /\ Count = Len(received)
      /\ \A i \in 1..Len(received) : received'[i] = received[i]
      /\ form = "results" => received'[Len(received')] = Err
  <2>1. received \in Seq(Items) /\ Len(received) \in Nat
    BY Lengths DEF IInv, TypeOK
  <2>2. CASE form = "messages" /\ received' = received
    BY <1>1, <2>1, <2>2 DEF Count
  <2>3. CASE form = "results" /\ received' = Append(received, Err)
    <3>1. /\ received' \in Seq(Items) /\ Len(received') = Len(received) + 1
          /\ \A i \in 1..Len(received) : received'[i] = received[i]
          /\ received'[Len(received) + 1] = Err
      BY <1>4, <2>1, <2>3, AppendProperties
    <3>2. QED  BY <1>1, <2>1, <2>3, <3>1 DEF Count
  <2>4. QED  BY <1>3, <2>2, <2>3
<1>6. TypeOK'
  BY <1>1, <1>5 DEF IInv, TypeOK, inbound, Phases
<1>7. NoErr' /\ InTransit'
  BY <1>1 DEF IInv, NoErr, InTransit, Listening, inbound
<1>8. Reading'
  BY <1>1, <1>5 DEF IInv, Reading, Follows, inbound
<1>9. Progress'
  BY <1>1, <1>2, <1>5 DEF IInv, Progress, inbound
<1>10. Calls' /\ HearsItself' /\ PublishedOnce'
  BY <1>1 DEF IInv, Calls, HearsItself, PublishedOnce, inbound
<1>11. QED  BY <1>6, <1>7, <1>8, <1>9, <1>10 DEF IInv

(* The invariant is inductive.                                             *)
LEMMA Initially == Init => IInv
<1> SUFFICES ASSUME Init
             PROVE  IInv
  OBVIOUS
<1>1. TypeOK
  BY Bounds, EmptySeq DEF Init, TypeOK, Phases
<1>2. NoErr /\ InTransit /\ Reading /\ Progress /\ Calls
  BY EmptySeq
     DEF Init, NoErr, InTransit, Reading, Count, Follows, Progress, Calls
<1>3. HearsItself /\ PublishedOnce
  BY EmptySeq DEF Init, HearsItself, PublishedOnce
<1>4. QED  BY <1>1, <1>2, <1>3 DEF IInv

LEMMA Inductive == IInv /\ [Next]_vars => IInv'
<1> SUFFICES ASSUME IInv, [Next]_vars
             PROVE  IInv'
  OBVIOUS
<1>1. CASE Next
  BY <1>1, OthersPublishKeeps, ArriveKeeps, BreakKeeps, CloseKeeps,
     SubscribeKeeps, SubscribedKeeps, DropKeeps, PublishKeeps, ExecutedKeeps,
     PublishedKeeps, PublishFailedKeeps, IntoStreamKeeps, ReadKeeps, EndKeeps
     DEF Next
<1>2. CASE UNCHANGED vars
  BY <1>2 DEF vars, inbound, outbound, IInv, TypeOK, NoErr, InTransit, Reading,
     Count, Follows, Progress, Calls, HearsItself, PublishedOnce
<1>3. QED  BY <1>1, <1>2

LEMMA Invariance == Spec => []IInv
BY Initially, Inductive, PTL DEF Spec

-----------------------------------------------------------------------------
(* What the invariant says of the messages among the items.                *)
LEMMA MessagesRead ==
  ASSUME IInv
  PROVE  /\ Messages(received) \in Seq(Items)
         /\ Len(Messages(received)) = Count
         /\ \A i \in 1..Count : Messages(received)[i] = received[i]
         /\ Told(received) <=> phase = "ended" /\ form = "results"
<1>1. \A i \in 1..Count : received[i] # Err
  <2>1. \A i \in 1..Count : i \in 1..Len(sent) /\ sent[i].id = i
    BY Lengths DEF IInv, Reading, NoErr
  <2>2. QED  BY <2>1 DEF IInv, Reading, Err
<1>2. CASE phase = "ended" /\ form = "results"
  <2>1. Count = Len(received) - 1 /\ Count \in Nat /\ Told(received)
    BY <1>2, EmptySeq, Lengths DEF IInv, Count, Reading, Progress, Told
  <2>2. Messages(received) = SubSeq(received, 1, Len(received) - 1)
    BY <2>1 DEF Messages
  <2>3. \A i \in 1..Len(received) - 1 : received[i] \in Items
    BY ElementOfSeq, Lengths DEF IInv, TypeOK
  <2>4. received \in Seq(Items) /\ Len(received) \in Nat
    BY Lengths DEF IInv, TypeOK
  <2>5. /\ SubSeq(received, 1, Len(received) - 1) \in Seq(Items)
        /\ Len(SubSeq(received, 1, Len(received) - 1)) = Count
        /\ \A i \in 1..Count :
             SubSeq(received, 1, Len(received) - 1)[i] = received[i]
    BY <2>1, <2>3, <2>4, SubSeqProperties
  <2>6. QED  BY <1>2, <2>1, <2>2, <2>5
<1>3. CASE ~(phase = "ended" /\ form = "results")
  <2>1. Count = Len(received)
    BY <1>3 DEF Count
  <2>2. ~Told(received)
    BY <1>1, <2>1, EmptySeq, Lengths DEF IInv, TypeOK, Told
  <2>3. QED  BY <1>3, <2>1, <2>2 DEF Messages, IInv, TypeOK
<1>4. QED  BY <1>2, <1>3

LEMMA GapFree == IInv => NoGaps
<1> SUFFICES ASSUME IInv, phase \in Listening \cup {"ended"}
             PROVE  Messages(received) \o buffer = SubSeq(sent, 1, parsed)
  BY DEF NoGaps
<1> DEFINE m == Messages(received)  all == SubSeq(sent, 1, parsed)
<1>1. /\ m \in Seq(Items) /\ Len(m) = Count
      /\ \A i \in 1..Count : m[i] = received[i]
  BY MessagesRead
<1>2. /\ Count \in Nat /\ Count + Len(buffer) = parsed
      /\ \A i \in 1..Count : received[i] = sent[i]
      /\ \A i \in 1..Len(buffer) : buffer[i] = sent[Count + i]
  BY DEF IInv, Reading, Follows, Listening
<1>3. all \in Seq(Items) /\ Len(all) = parsed
        /\ \A i \in 1..parsed : all[i] = sent[i]
  <2>1. \A i \in 1..parsed : sent[i] \in Items
    BY ElementOfSeq, Lengths DEF IInv, TypeOK
  <2>2. QED  BY <2>1, SubSeqProperties, Lengths DEF IInv
<1> HIDE DEF m, all
<1>4. /\ m \o buffer \in Seq(Items) /\ Len(m \o buffer) = parsed
      /\ \A i \in 1..parsed :
           (m \o buffer)[i] = IF i <= Count THEN m[i] ELSE buffer[i - Count]
  <2>1. buffer \in Seq(Items)
    BY DEF IInv, TypeOK
  <2>2. /\ m \o buffer \in Seq(Items) /\ Len(m \o buffer) = Len(m) + Len(buffer)
        /\ \A i \in 1..(Len(m) + Len(buffer)) :
             (m \o buffer)[i] =
               IF i <= Len(m) THEN m[i] ELSE buffer[i - Len(m)]
    BY <1>1, <2>1, ConcatProperties
  <2>3. QED  BY <1>1, <1>2, <2>2
<1>5. ASSUME NEW i \in 1..parsed
      PROVE  (m \o buffer)[i] = all[i]
  <2>1. CASE i <= Count
    <3>1. i \in 1..Count
      BY <1>2, <2>1, Lengths DEF IInv
    <3>2. QED  BY <1>1, <1>2, <1>3, <1>4, <2>1, <3>1
  <2>2. CASE ~(i <= Count)
    <3>1. i - Count \in 1..Len(buffer) /\ Count + (i - Count) = i
      BY <1>2, <2>2, Lengths DEF IInv
    <3>2. buffer[i - Count] = sent[i]
      BY <1>2, <3>1
    <3>3. QED  BY <1>3, <1>4, <2>2, <3>2
  <2>3. QED  BY <2>1, <2>2
<1>6. m \o buffer = all
  BY <1>3, <1>4, <1>5, SeqEqual
<1>7. QED  BY <1>6 DEF m, all

LEMMA ErrLast == IInv => ErrOnceAtTheEnd
<1> SUFFICES ASSUME IInv
             PROVE  ErrOnceAtTheEnd
  OBVIOUS
<1>1. \A i \in 1..Count : received[i] # Err
  <2>1. \A i \in 1..Count : i \in 1..Len(sent) /\ sent[i].id = i
    BY Lengths DEF IInv, Reading, NoErr
  <2>2. QED  BY <2>1 DEF IInv, Reading, Err
<1>2. ASSUME NEW i \in 1..Len(received), received[i] = Err
      PROVE  i = Len(received) /\ phase \in {"ended", "over"}
  BY <1>1, <1>2, Lengths DEF IInv, Count
<1>3. phase = "ended" => parsed = Len(Messages(received))
  BY MessagesRead, EmptySeq DEF IInv, Reading, Progress
<1>4. phase = "ended" => (form = "results" <=> Told(received))
  BY MessagesRead
<1>5. QED  BY <1>2, <1>3, <1>4 DEF ErrOnceAtTheEnd

(* Every variable has its type.                                            *)
THEOREM PubSubTypes == Spec => []TypeOK
<1>1. IInv => TypeOK
  BY DEF IInv
<1>2. QED  BY <1>1, Invariance, PTL

(* What the caller has read and can still read is a beginning of what the  *)
(* server sent it, without a gap (connect_config, into_message_stream).    *)
THEOREM PubSubNoGaps == Spec => []NoGaps
BY GapFree, Invariance, PTL

(* The Err of a result stream comes once, last and after every message that*)
(* had arrived; a message stream has none (into_result_message_stream).    *)
THEOREM PubSubErrLast == Spec => []ErrOnceAtTheEnd
BY ErrLast, Invariance, PTL

(* What the session publishes reaches its own connection while that is up. *)
THEOREM PubSubHears == Spec => []HearsItself
<1>1. IInv => HearsItself
  BY DEF IInv
<1>2. QED  BY <1>1, Invariance, PTL

(* A publish call is executed at most once and in order, and always when it*)
(* returned Ok (publish).                                                  *)
THEOREM PubSubOnce == Spec => []PublishedOnce
<1>1. IInv => PublishedOnce
  BY DEF IInv
<1>2. QED  BY <1>1, Invariance, PTL

=============================================================================
