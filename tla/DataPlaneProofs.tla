-------------------------- MODULE DataPlaneProofs --------------------------
(***************************************************************************)
(* Proofs about DataPlane, for any publishers, topics and high-water       *)
(* marks, any number of tokens and any finite set of subscribers.          *)
(***************************************************************************)
EXTENDS DataPlane, Counting

-----------------------------------------------------------------------------
(* Types *)

Ack == [token : Tokens, seq : Nat, call : Nat]
Received == [from : Publishers, topic : Topics, call : Nat, token : Tokens \cup {NoToken}]
Sent == [topic : Topics, seq : Nat]
Call == [topic : Topics, number : Nat, outcome : Int]
Handled ==
    [pc : {"in", "ack", "match", "cast", "direct", "pull"},
     frame : [from : Publishers \cup {NoOne}, topic : Topics \cup {NoOne}, call : Nat,
              token : Tokens \cup {NoToken}],
     seq : Nat, targets : Seq(Subscribers), drops : Nat]

\* What the data thread handles.
HandledOK ==
    /\ data \in Handled
    /\ data.pc \in {"ack", "match"} => data.frame \in Received
    /\ data.pc = "ack" => data.frame.token \in Tokens
    /\ data.pc \in {"cast", "direct"} => data.frame.topic \in Topics /\ data.targets # <<>>

LoopOK ==
    /\ routes \in [Topics -> SUBSET Subscribers]
    /\ push \in Seq([to : Subscribers, topic : Topics])
    /\ main # Free => main \in [topic : Topics, targets : Seq(Subscribers) \ {<<>>}]

PublisherOK ==
    /\ counter \in [Publishers -> Nat]
    /\ pending \in [Publishers -> [Tokens -> Nat]]
    /\ acks \in [Publishers -> Seq(Ack)]
    /\ calls \in Seq(Call)

TypeOK ==
    /\ PublisherOK /\ HandledOK /\ LoopOK
    /\ inbox \in Seq(Received)
    /\ seq \in [Topics -> Nat]
    /\ out \in [Subscribers -> Seq(Sent)]
    /\ last \in [Subscribers -> [Topics -> Nat]]
    /\ owed \in [Topics -> Int]

LEMMA TokenType ==
    ASSUME NEW count \in Nat
    PROVE  Token(count) \in Tokens /\ Token(count) # NoToken
<1>1. count % TokenSpace \in 0 .. TokenSpace - 1
  BY ConstantsAssumption
<1> QED
  BY <1>1 DEF Token, Tokens, NoToken

LEMMA HandledIdle == Waiting \in Handled
<1>1. <<>> \in Seq(Subscribers)
  BY EmptySeq
<1> QED
  BY <1>1 DEF Waiting, Handled, NoFrame, Frame

\* Head and rest of a sequence that is not empty.
LEMMA Taken ==
    ASSUME NEW T, NEW q \in Seq(T), q # <<>>
    PROVE  Head(q) \in T /\ Tail(q) \in Seq(T)
  BY HeadTailProperties

LEMMA MoreToCome ==
    ASSUME NEW T, NEW q \in Seq(T), q # <<>>
    PROVE  /\ Len(q) \in Nat \ {0} /\ Len(Tail(q)) = Len(q) - 1
           /\ Len(q) # 1 => Tail(q) # <<>>
<1>1. Len(q) \in Nat \ {0}
  BY LenProperties, EmptySeq
<1>2. Tail(q) \in Seq(T) /\ Len(Tail(q)) = Len(q) - 1
  BY HeadTailProperties
<1>3. ASSUME Tail(q) = <<>> PROVE Len(q) = 1
  <2>1. Len(q) - 1 = 0
    BY <1>2, <1>3, EmptySeq
  <2> DEFINE n == Len(q)
  <2>2. n \in Nat /\ n - 1 = 0
    BY <1>1, <2>1
  <2> HIDE DEF n
  <2>3. n = 1
    BY <2>2
  <2> QED
    BY <2>3 DEF n
<1> QED
  BY <1>1, <1>2, <1>3

\* A number or an outcome that is recorded of a call changes that call only.
LEMMA NumberRecorded ==
    ASSUME NEW q \in Seq(Call), NEW c, NEW n \in Nat
    PROVE  /\ [q EXCEPT ![c].number = n] \in Seq(Call)
           /\ Len([q EXCEPT ![c].number = n]) = Len(q)
           /\ \A i \in 1 .. Len(q) :
                [q EXCEPT ![c].number = n][i] = IF i = c THEN [q[c] EXCEPT !.number = n] ELSE q[i]
<1>1. Len(q) \in Nat /\ q \in [1 .. Len(q) -> Call] /\ DOMAIN q = 1 .. Len(q)
  BY LenProperties
<1>2. CASE c \in 1 .. Len(q)
  <2>1. q[c] \in Call
    BY <1>2, ElementOfSeq
  <2>2. [q[c] EXCEPT !.number = n] \in Call
    BY <2>1 DEF Call
  <2> QED
    BY <1>2, <2>2, ExceptSeq
<1>3. CASE c \notin 1 .. Len(q)
  <2>1. [q EXCEPT ![c].number = n] = q
    BY <1>1, <1>3
  <2> QED
    BY <1>3, <2>1
<1> QED
  BY <1>2, <1>3

LEMMA OutcomeRecorded ==
    ASSUME NEW q \in Seq(Call), NEW c, NEW o \in Int
    PROVE  /\ [q EXCEPT ![c].outcome = o] \in Seq(Call)
           /\ Len([q EXCEPT ![c].outcome = o]) = Len(q)
           /\ \A i \in 1 .. Len(q) :
                [q EXCEPT ![c].outcome = o][i] = IF i = c THEN [q[c] EXCEPT !.outcome = o] ELSE q[i]
<1>1. Len(q) \in Nat /\ q \in [1 .. Len(q) -> Call] /\ DOMAIN q = 1 .. Len(q)
  BY LenProperties
<1>2. CASE c \in 1 .. Len(q)
  <2>1. q[c] \in Call
    BY <1>2, ElementOfSeq
  <2>2. [q[c] EXCEPT !.outcome = o] \in Call
    BY <2>1 DEF Call
  <2> QED
    BY <1>2, <2>2, ExceptSeq
<1>3. CASE c \notin 1 .. Len(q)
  <2>1. [q EXCEPT ![c].outcome = o] = q
    BY <1>1, <1>3
  <2> QED
    BY <1>3, <2>1
<1> QED
  BY <1>2, <1>3

LEMMA TypeInit == Init => TypeOK
<1>1. \A T : <<>> \in Seq(T)
  BY EmptySeq
<1>2. SUFFICES ASSUME Init PROVE TypeOK
  OBVIOUS
<1>3. PublisherOK
  BY <1>1, <1>2 DEF Init, PublisherOK
<1>4. HandledOK
  BY <1>2, HandledIdle DEF Init, HandledOK, Waiting
<1>5. LoopOK
  BY <1>1, <1>2 DEF Init, LoopOK
<1> QED
  BY <1>1, <1>2, <1>3, <1>4, <1>5 DEF Init, TypeOK

LEMMA PublisherNext ==
    ASSUME TypeOK, [Next]_vars
    PROVE  PublisherOK' /\ inbox' \in Seq(Received)
<1> USE DEF publisher, thread, loop, subscriber
<1>1. /\ counter \in [Publishers -> Nat] /\ pending \in [Publishers -> [Tokens -> Nat]]
      /\ acks \in [Publishers -> Seq(Ack)] /\ calls \in Seq(Call) /\ inbox \in Seq(Received)
  BY DEF TypeOK, PublisherOK
<1>2. CASE UNCHANGED <<counter, pending, acks, calls, inbox>>
  BY <1>1, <1>2 DEF PublisherOK
<1>3. ASSUME NEW p \in Publishers, NEW t \in Topics, Publish(p, t)
      PROVE  PublisherOK' /\ inbox' \in Seq(Received)
  <2>1. Frame(p, t, 0, NoToken) \in Received
    BY DEF Frame, Received
  <2>2. inbox' \in Seq(Received)
    BY <1>1, <1>3, <2>1, AppendProperties DEF Publish
  <2> QED
    BY <1>1, <1>3, <2>2 DEF Publish, PublisherOK
<1>4. ASSUME NEW p \in Publishers, NEW t \in Topics, PublishConfirmed(p, t)
      PROVE  PublisherOK' /\ inbox' \in Seq(Received)
  <2> DEFINE c == Len(calls) + 1
             k == Token(counter[p])
  <2>1. c \in Nat /\ counter[p] \in Nat /\ k \in Tokens
    BY <1>1, LenProperties, TokenType
  <2>2. /\ calls' = Append(calls, [topic |-> t, number |-> 0, outcome |-> Open])
        /\ pending' = [pending EXCEPT ![p][k] = c]
        /\ inbox' = Append(inbox, Frame(p, t, c, k))
        /\ counter' = [counter EXCEPT ![p] = @ + 1] /\ acks' = acks
    BY <1>4 DEF PublishConfirmed
  <2> HIDE DEF c, k
  <2>3. /\ [topic |-> t, number |-> 0, outcome |-> Open] \in Call
        /\ Frame(p, t, c, k) \in Received
    BY <2>1 DEF Call, Frame, Received, Open
  <2>4. calls' \in Seq(Call) /\ inbox' \in Seq(Received)
    BY <1>1, <2>2, <2>3, AppendProperties
  <2>5. pending' \in [Publishers -> [Tokens -> Nat]] /\ counter' \in [Publishers -> Nat]
    BY <1>1, <2>1, <2>2
  <2> QED
    BY <1>1, <2>2, <2>4, <2>5 DEF PublisherOK
<1>5. ASSUME NEW p \in Publishers, NEW k \in Tokens, TimeOut(p, k)
      PROVE  PublisherOK' /\ inbox' \in Seq(Received)
  <2>1. calls' = [calls EXCEPT ![pending[p][k]].outcome = TimedOut]
    BY <1>5 DEF TimeOut
  <2>2. calls' \in Seq(Call)
    <3>1. TimedOut \in Int
      BY DEF TimedOut
    <3> QED
      BY <1>1, <2>1, <3>1, OutcomeRecorded
  <2>3. pending' \in [Publishers -> [Tokens -> Nat]]
    BY <1>1, <1>5 DEF TimeOut
  <2> QED
    BY <1>1, <1>5, <2>2, <2>3 DEF TimeOut, PublisherOK
<1>6. ASSUME NEW p \in Publishers, ReceiveAck(p)
      PROVE  PublisherOK' /\ inbox' \in Seq(Received)
  <2> DEFINE a == Head(acks[p])
             c == pending[p][a.token]
  <2>1. a \in Ack /\ Tail(acks[p]) \in Seq(Ack)
    <3>1. acks[p] \in Seq(Ack) /\ acks[p] # <<>>
      BY <1>1, <1>6 DEF ReceiveAck
    <3> QED
      BY <3>1, Taken
  <2>2. /\ pending' = [pending EXCEPT ![p][a.token] = 0]
        /\ calls' = IF c = 0 THEN calls ELSE [calls EXCEPT ![c].outcome = a.seq]
        /\ acks' = [acks EXCEPT ![p] = Tail(@)] /\ UNCHANGED <<counter, inbox>>
    BY <1>6 DEF ReceiveAck
  <2> HIDE DEF a, c
  <2>3. a.seq \in Int
    BY <2>1 DEF Ack
  <2>4. calls' \in Seq(Call)
    <3>1. [calls EXCEPT ![c].outcome = a.seq] \in Seq(Call)
      BY <1>1, <2>3, OutcomeRecorded
    <3> QED
      BY <1>1, <2>2, <3>1
  <2>5. pending' \in [Publishers -> [Tokens -> Nat]] /\ acks' \in [Publishers -> Seq(Ack)]
    BY <1>1, <2>1, <2>2
  <2> QED
    BY <1>1, <2>2, <2>4, <2>5 DEF PublisherOK
<1>7. ASSUME NEW p \in Publishers, Disconnect(p) \/ Reconnect(p)
      PROVE  PublisherOK' /\ inbox' \in Seq(Received)
  <2>1. <<>> \in Seq(Ack)
    BY EmptySeq
  <2>2. acks' \in [Publishers -> Seq(Ack)] /\ counter' \in [Publishers -> Nat]
    BY <1>1, <1>7, <2>1 DEF Disconnect, Reconnect, Resumed
  <2> QED
    BY <1>1, <1>7, <2>2 DEF Disconnect, Reconnect, PublisherOK
<1>8. CASE TakeFrame
  <2> DEFINE f == Head(inbox)
             n == NextSeq(f.topic)
  <2>1. f \in Received /\ Tail(inbox) \in Seq(Received)
    BY <1>1, <1>8, Taken DEF TakeFrame
  <2>2. n \in Nat
    BY <2>1 DEF TypeOK, NextSeq, Received
  <2>3. calls' = IF f.call = 0 THEN calls ELSE [calls EXCEPT ![f.call].number = n]
    BY <1>8 DEF TakeFrame
  <2> HIDE DEF f, n
  <2>4. calls' \in Seq(Call)
    <3>1. [calls EXCEPT ![f.call].number = n] \in Seq(Call)
      BY <1>1, <2>2, NumberRecorded
    <3> QED
      BY <1>1, <2>3, <3>1
  <2> QED
    BY <1>1, <1>8, <2>1, <2>4 DEF TakeFrame, PublisherOK
<1>9. CASE SendAck
  <2> DEFINE p == data.frame.from
             a == [token |-> data.frame.token, seq |-> data.seq, call |-> data.frame.call]
  <2>1. a \in Ack
    BY <1>9 DEF SendAck, TypeOK, HandledOK, Handled, Received, Ack
  <2>2. acks' \in [Publishers -> Seq(Ack)]
    <3>1. acks' = acks \/ acks' = [acks EXCEPT ![p] = Append(@, a)]
      BY <1>9 DEF SendAck
    <3>2. p \in Publishers
      BY <1>9 DEF SendAck, TypeOK, HandledOK, Received
    <3> HIDE DEF p, a
    <3>3. Append(acks[p], a) \in Seq(Ack)
      BY <1>1, <2>1, <3>2, AppendProperties
    <3> QED
      BY <1>1, <3>1, <3>2, <3>3
  <2> QED
    BY <1>1, <1>9, <2>2 DEF SendAck, PublisherOK
<1> QED
  BY <1>2, <1>3, <1>4, <1>5, <1>6, <1>7, <1>8, <1>9
     DEF Next, vars, DataThread, Match, Broadcast, BroadcastLast, Casts, TakePushed, SendPushed,
         Push, Produce, Heartbeat, Reroute, ReceiveFrame, Leave

LEMMA LoopNext ==
    ASSUME TypeOK, [Next]_vars
    PROVE  LoopOK'
<1> USE DEF publisher, thread, loop, subscriber
<1>1. /\ routes \in [Topics -> SUBSET Subscribers]
      /\ push \in Seq([to : Subscribers, topic : Topics])
      /\ main # Free => main \in [topic : Topics, targets : Seq(Subscribers) \ {<<>>}]
  BY DEF TypeOK, LoopOK
<1>2. CASE UNCHANGED <<routes, push, main>>
  BY <1>1, <1>2 DEF LoopOK
<1>3. CASE TakePushed
  <2>1. push' \in Seq([to : Subscribers, topic : Topics])
    BY <1>1, <1>3, Taken DEF TakePushed
  <2> QED
    BY <1>1, <1>3, <2>1 DEF TakePushed, LoopOK
<1>4. ASSUME NEW t \in Topics, Produce(t) PROVE LoopOK'
  <2>1. routes[t] \subseteq Subscribers /\ routes[t] # {}
    BY <1>1, <1>4 DEF Produce
  <2>2. IsFiniteSet(routes[t])
    BY <2>1, ConstantsAssumption, FS_Subset
  <2>3. SetToSeq(routes[t]) \in Seq(routes[t]) /\ SetToSeq(routes[t]) # <<>>
    BY <2>1, <2>2, SetToSeqProperties
  <2>4. SetToSeq(routes[t]) \in Seq(Subscribers)
    BY <2>1, <2>3, SeqMonotonic
  <2> QED
    BY <1>1, <1>4, <2>3, <2>4 DEF Produce, LoopOK
<1>5. CASE Push
  <2>1. main.topic \in Topics /\ main.targets \in Seq(Subscribers) /\ main.targets # <<>>
    BY <1>1, <1>5 DEF Push
  <2>2. /\ Head(main.targets) \in Subscribers /\ Tail(main.targets) \in Seq(Subscribers)
        /\ Len(main.targets) # 1 => Tail(main.targets) # <<>>
    BY <2>1, Taken, MoreToCome
  <2>3. push' \in Seq([to : Subscribers, topic : Topics])
    <3>1. [to |-> Head(main.targets), topic |-> main.topic] \in [to : Subscribers, topic : Topics]
      BY <2>1, <2>2
    <3> QED
      BY <1>1, <1>5, <3>1, AppendProperties DEF Push
  <2>4. main' # Free => main' \in [topic : Topics, targets : Seq(Subscribers) \ {<<>>}]
    <3>1. Len(main.targets) = 1 => main' = Free
      BY <1>5 DEF Push
    <3>2. Len(main.targets) # 1 => main' = [main EXCEPT !.targets = Tail(main.targets)]
      BY <1>5 DEF Push
    <3>3. main \in [topic : Topics, targets : Seq(Subscribers) \ {<<>>}]
      BY <1>1, <1>5 DEF Push
    <3> QED
      BY <2>2, <3>1, <3>2, <3>3
  <2> QED
    BY <1>1, <1>5, <2>3, <2>4 DEF Push, LoopOK
<1>6. ASSUME NEW s \in Subscribers, NEW t \in Topics, Reroute(s, t) PROVE LoopOK'
  BY <1>1, <1>6 DEF Reroute, LoopOK
<1> QED
  BY <1>2, <1>3, <1>4, <1>5, <1>6
     DEF Next, vars, DataThread, Publish, PublishConfirmed, TimeOut, ReceiveAck, Disconnect,
         Reconnect, TakeFrame, SendAck, Match, Broadcast, BroadcastLast, Casts, SendPushed,
         Heartbeat, ReceiveFrame, Leave

\* What the steps of the data thread find.
LEMMA ThreadReads ==
    ASSUME TypeOK
    PROVE  /\ TakeFrame => /\ Head(inbox) \in Received
                           /\ NextSeq(Head(inbox).topic) \in Nat
                           /\ NextSeq(Head(inbox).topic) = seq[Head(inbox).topic] + 1
           /\ data.pc \in {"ack", "match", "cast", "direct"} => data.frame.topic \in Topics
           /\ data.seq \in Nat
           /\ data.pc \in {"cast", "direct"} =>
                /\ Target \in Subscribers /\ Tail(data.targets) \in Seq(Subscribers)
                /\ Len(data.targets) \in Nat \ {0} /\ Len(Tail(data.targets)) = Len(data.targets) - 1
                /\ Len(data.targets) > 1 => Tail(data.targets) # <<>>
           /\ data.targets \in Seq(Subscribers) /\ Len(data.targets) \in Nat /\ data.drops \in Nat
<1>1. data \in Handled /\ inbox \in Seq(Received) /\ seq \in [Topics -> Nat]
  BY DEF TypeOK, HandledOK
<1>2. TakeFrame => Head(inbox) \in Received
  BY <1>1, Taken DEF TakeFrame
<1>3. TakeFrame => NextSeq(Head(inbox).topic) \in Nat /\ NextSeq(Head(inbox).topic) = seq[Head(inbox).topic] + 1
  BY <1>1, <1>2 DEF NextSeq, Received
<1>4. data.pc \in {"ack", "match", "cast", "direct"} => data.frame.topic \in Topics
  BY DEF TypeOK, HandledOK, Received
<1>5. data.targets \in Seq(Subscribers) /\ data.seq \in Nat /\ data.drops \in Nat
  BY <1>1 DEF Handled
<1>6. data.pc \in {"cast", "direct"} => data.targets # <<>>
  BY DEF TypeOK, HandledOK
<1>7. data.pc \in {"cast", "direct"} =>
         /\ Target \in Subscribers /\ Tail(data.targets) \in Seq(Subscribers)
  BY <1>5, <1>6, Taken DEF Target
<1>8. data.pc \in {"cast", "direct"} =>
         /\ Len(data.targets) \in Nat \ {0} /\ Len(Tail(data.targets)) = Len(data.targets) - 1
         /\ Len(data.targets) # 1 => Tail(data.targets) # <<>>
  BY <1>5, <1>6, MoreToCome
<1>9. Len(data.targets) \in Nat
  BY <1>5, LenProperties
<1>10. data.pc \in {"cast", "direct"} /\ Len(data.targets) > 1 => Tail(data.targets) # <<>>
  <2>1. \A n \in Nat : n > 1 => n # 1
    OBVIOUS
  <2> QED
    BY <1>8, <1>9, <2>1
<1> QED
  BY <1>2, <1>3, <1>4, <1>5, <1>7, <1>8, <1>9, <1>10

LEMMA HandledNext ==
    ASSUME TypeOK, [Next]_vars
    PROVE  HandledOK'
<1> USE DEF publisher, thread, loop, subscriber
<1>1. data \in Handled /\ HandledOK
  BY DEF TypeOK, HandledOK
<1>2. CASE UNCHANGED data
  BY <1>1, <1>2 DEF HandledOK
<1>3. CASE TakeFrame
  <2> DEFINE f == Head(inbox)
             n == NextSeq(f.topic)
             pc == IF f.token = NoToken THEN "match" ELSE "ack"
  <2>1. f \in Received /\ n \in Nat
    BY <1>3, ThreadReads
  <2>2. data' = [Waiting EXCEPT !.pc = pc, !.frame = f, !.seq = n]
    BY <1>3 DEF TakeFrame
  <2>3. /\ pc \in {"match", "ack"}
        /\ pc = "ack" => f.token # NoToken
    OBVIOUS
  <2> HIDE DEF f, n, pc
  <2>4. data' = [pc |-> pc, frame |-> f, seq |-> n, targets |-> <<>>, drops |-> 0]
    BY <2>2 DEF Waiting
  <2>5. data' \in Handled
    <3>1. <<>> \in Seq(Subscribers)
      BY EmptySeq
    <3> QED
      BY <2>1, <2>3, <2>4, <3>1 DEF Handled, Received
  <2>6. pc = "ack" => f.token \in Tokens
    BY <2>1, <2>3 DEF Received
  <2> QED
    BY <2>1, <2>3, <2>4, <2>5, <2>6 DEF HandledOK
<1>4. CASE SendAck
  <2>1. data' = [data EXCEPT !.pc = "match"] /\ data.frame \in Received
    BY <1>1, <1>4 DEF SendAck, HandledOK
  <2> QED
    BY <1>1, <2>1 DEF HandledOK, Handled
<1>5. CASE data' = Waiting
  BY <1>5, HandledIdle DEF HandledOK, Waiting
<1>6. CASE Match /\ data' # Waiting
  <2> DEFINE targets == SetToSeq(routes[data.frame.topic])
  <2>1. data.frame.topic \in Topics /\ routes[data.frame.topic] # {}
    BY <1>6, ThreadReads DEF Match
  <2>2. routes[data.frame.topic] \subseteq Subscribers
    BY <2>1 DEF TypeOK, LoopOK
  <2>3. IsFiniteSet(routes[data.frame.topic])
    BY <2>2, ConstantsAssumption, FS_Subset
  <2>4. targets \in Seq(Subscribers) /\ targets # <<>>
    BY <2>1, <2>2, <2>3, SetToSeqProperties, SeqMonotonic
  <2>5. data' = [data EXCEPT !.pc = "cast", !.targets = targets]
    BY <1>6 DEF Match
  <2> HIDE DEF targets
  <2> QED
    BY <1>1, <2>1, <2>4, <2>5 DEF HandledOK, Handled
<1>7. CASE Broadcast
  <2>1. /\ data.frame.topic \in Topics /\ Tail(data.targets) \in Seq(Subscribers)
        /\ Tail(data.targets) # <<>> /\ data.drops \in Nat /\ data.pc = "cast"
    BY <1>7, ThreadReads DEF Broadcast
  <2>2. data' = [data EXCEPT !.targets = Tail(data.targets),
                             !.drops = data.drops + Loss(Target)]
    BY <1>7 DEF Broadcast, Casts
  <2>3. data.drops + Loss(Target) \in Nat
    BY <2>1 DEF Loss
  <2> QED
    BY <1>1, <2>1, <2>2, <2>3 DEF HandledOK, Handled
<1>8. CASE TakePushed /\ data' # Waiting
  <2> DEFINE h == Head(push)
  <2>1. h \in [to : Subscribers, topic : Topics]
    BY <1>8, Taken DEF TakePushed, TypeOK, LoopOK
  <2>2. data' = [Waiting EXCEPT !.pc = "direct", !.targets = <<h.to>>, !.frame.topic = h.topic]
    BY <1>8 DEF TakePushed
  <2> HIDE DEF h
  <2>3. <<h.to>> \in Seq(Subscribers) /\ <<h.to>> # <<>>
    BY <2>1
  <2> QED
    BY <2>1, <2>2, <2>3 DEF HandledOK, Handled, Waiting, NoFrame, Frame
<1>9. CASE SendPushed
  <2>1. data' = [Waiting EXCEPT !.pc = "pull"]
    BY <1>9 DEF SendPushed
  <2> QED
    BY <2>1, HandledIdle DEF HandledOK, Handled, Waiting
<1> QED
  BY <1>2, <1>3, <1>4, <1>5, <1>6, <1>7, <1>8, <1>9
     DEF Next, vars, DataThread, Publish, PublishConfirmed, TimeOut, ReceiveAck, Disconnect,
         Reconnect, BroadcastLast, Casts, Push, Produce, Heartbeat, Reroute, ReceiveFrame, Leave

LEMMA PipesNext ==
    ASSUME TypeOK, [Next]_vars
    PROVE  out' \in [Subscribers -> Seq(Sent)]
<1> USE DEF publisher, thread, loop, subscriber
<1>1. out \in [Subscribers -> Seq(Sent)]
  BY DEF TypeOK
<1>2. CASE UNCHANGED out
  BY <1>1, <1>2
<1>3. ASSUME NEW s \in Subscribers, NEW f \in Sent, out' = [out EXCEPT ![s] = Append(@, f)]
      PROVE  out' \in [Subscribers -> Seq(Sent)]
  <2>1. Append(out[s], f) \in Seq(Sent)
    BY <1>1, AppendProperties
  <2> QED
    BY <1>1, <1>3, <2>1
<1>4. CASE Broadcast \/ BroadcastLast
  <2>1. Target \in Subscribers /\ [topic |-> data.frame.topic, seq |-> data.seq] \in Sent
    BY <1>4, ThreadReads DEF Broadcast, BroadcastLast, Sent
  <2>2. \/ UNCHANGED out
        \/ out' = [out EXCEPT ![Target] = Append(@, [topic |-> data.frame.topic, seq |-> data.seq])]
    BY <1>4 DEF Broadcast, BroadcastLast, Casts
  <2> QED
    BY <1>2, <1>3, <2>1, <2>2
<1>5. CASE SendPushed
  <2>1. Target \in Subscribers /\ [topic |-> data.frame.topic, seq |-> 0] \in Sent
    BY <1>5, ThreadReads DEF SendPushed, Sent
  <2>2. \/ UNCHANGED out
        \/ out' = [out EXCEPT ![Target] = Append(@, [topic |-> data.frame.topic, seq |-> 0])]
    BY <1>5 DEF SendPushed
  <2> QED
    BY <1>2, <1>3, <2>1, <2>2
<1>6. ASSUME NEW s \in Subscribers, ReceiveFrame(s) PROVE out' \in [Subscribers -> Seq(Sent)]
  <2>1. Tail(out[s]) \in Seq(Sent)
    BY <1>1, <1>6, Taken DEF ReceiveFrame
  <2> QED
    BY <1>1, <1>6, <2>1 DEF ReceiveFrame
<1>7. ASSUME NEW s \in Subscribers, Leave(s) PROVE out' \in [Subscribers -> Seq(Sent)]
  <2>1. <<>> \in Seq(Sent)
    BY EmptySeq
  <2> QED
    BY <1>1, <1>7, <2>1 DEF Leave
<1> QED
  BY <1>2, <1>4, <1>5, <1>6, <1>7
     DEF Next, vars, DataThread, Publish, PublishConfirmed, TimeOut, ReceiveAck, Disconnect,
         Reconnect, TakeFrame, SendAck, Match, TakePushed, Push, Produce, Heartbeat, Reroute

\* The frames in a pipe that count for a topic.
Numbers(t) == {f \in Sent : f.topic = t /\ f.seq # 0}

LEMMA NumberedCount ==
    ASSUME out \in [Subscribers -> Seq(Sent)], NEW s \in Subscribers, NEW t
    PROVE  Numbered(s, t) = Count(out[s], Numbers(t)) /\ Numbered(s, t) \in Nat
<1>1. \A i \in 1 .. Len(out[s]) : out[s][i] \in Sent
  BY ElementOfSeq
<1>2. {i \in 1 .. Len(out[s]) : out[s][i].topic = t /\ out[s][i].seq # 0}
         = {i \in 1 .. Len(out[s]) : out[s][i] \in Numbers(t)}
  BY <1>1 DEF Numbers
<1>3. Count(out[s], Numbers(t)) \in Nat
  BY Positions
<1> QED
  BY <1>2, <1>3 DEF Numbered, Count

LEMMA TypeNext ==
    ASSUME TypeOK, [Next]_vars
    PROVE  TypeOK'
<1> USE DEF publisher, thread, loop, subscriber
<1>1. PublisherOK' /\ inbox' \in Seq(Received) /\ HandledOK' /\ LoopOK'
      /\ out' \in [Subscribers -> Seq(Sent)]
  BY PublisherNext, HandledNext, LoopNext, PipesNext
<1>2. seq' \in [Topics -> Nat]
  <2>1. CASE TakeFrame
    BY <2>1, ThreadReads DEF TypeOK, TakeFrame, Received
  <2>2. CASE UNCHANGED seq
    BY <2>2 DEF TypeOK
  <2> QED
    BY <2>1, <2>2
       DEF Next, vars, DataThread, Publish, PublishConfirmed, TimeOut, ReceiveAck, Disconnect,
           Reconnect, SendAck, Match, Broadcast, BroadcastLast, TakePushed, SendPushed, Push,
           Produce, Heartbeat, Reroute, ReceiveFrame, Leave
<1>0. owed \in [Topics -> Int] /\ last \in [Subscribers -> [Topics -> Nat]]
  BY DEF TypeOK
<1>3. ASSUME NEW s \in Subscribers, ReceiveFrame(s)
      PROVE  last' \in [Subscribers -> [Topics -> Nat]] /\ owed' \in [Topics -> Int]
  <2> DEFINE f == Head(out[s])
             n == IF f.seq > last[s][f.topic] THEN f.seq ELSE last[s][f.topic]
  <2>1. f.topic \in Topics /\ f.seq \in Nat
    <3>1. out[s] \in Seq(Sent) /\ out[s] # <<>>
      BY <1>3 DEF TypeOK, ReceiveFrame
    <3>2. f \in Sent
      BY <3>1, Taken
    <3> QED
      BY <3>2 DEF Sent
  <2>2. n \in Nat
    BY <1>0, <2>1
  <2>3. /\ last' = [last EXCEPT ![s][f.topic] = n]
        /\ owed' = owed \/ owed' = [owed EXCEPT ![f.topic] = @ - 1]
    BY <1>3 DEF ReceiveFrame
  <2> HIDE DEF f, n
  <2> QED
    BY <1>0, <2>1, <2>2, <2>3
<1>4. last' \in [Subscribers -> [Topics -> Nat]]
  <2>1. CASE UNCHANGED last
    BY <2>1 DEF TypeOK
  <2> QED
    BY <1>3, <2>1
       DEF Next, vars, DataThread, Publish, PublishConfirmed, TimeOut, ReceiveAck, Disconnect,
           Reconnect, TakeFrame, SendAck, Match, Broadcast, BroadcastLast, TakePushed,
           SendPushed, Push, Produce, Heartbeat, Reroute, Leave
<1>5. ASSUME NEW t \in Topics, NEW n \in Int,
             owed' = [owed EXCEPT ![t] = @ + n] \/ owed' = [owed EXCEPT ![t] = @ - n]
      PROVE  owed' \in [Topics -> Int]
  BY <1>0, <1>5
<1>6. ASSUME Match PROVE owed' \in [Topics -> Int]
  <2>1. data.frame.topic \in Topics
    BY <1>6, ThreadReads DEF Match
  <2>2. Cardinality(routes[data.frame.topic]) \in Int
    <3>1. IsFiniteSet(routes[data.frame.topic])
      BY <2>1, ConstantsAssumption, FS_Subset DEF TypeOK, LoopOK
    <3> QED
      BY <3>1, FS_CardinalityType
  <2>3. owed' = [owed EXCEPT ![data.frame.topic] = @ + Cardinality(routes[data.frame.topic])]
    BY <1>6 DEF Match
  <2> QED
    BY <1>5, <2>1, <2>2, <2>3
<1>7. ASSUME BroadcastLast PROVE owed' \in [Topics -> Int]
  <2>1. data.drops \in Nat /\ Loss(Target) \in Nat
    BY ThreadReads DEF Loss
  <2>2. data.drops + Loss(Target) \in Int
    BY <2>1
  <2>3. /\ data.frame.topic \in Topics
        /\ owed' = [owed EXCEPT ![data.frame.topic] = @ - (data.drops + Loss(Target))]
    BY <1>7, ThreadReads DEF BroadcastLast
  <2> QED
    BY <1>5, <2>2, <2>3
<1>8. ASSUME NEW s \in Subscribers, Leave(s) PROVE owed' \in [Topics -> Int]
  <2>1. \A t \in Topics : Numbered(s, t) \in Nat
    BY NumberedCount DEF TypeOK
  <2> QED
    BY <1>0, <1>8, <2>1 DEF Leave
<1>9. owed' \in [Topics -> Int]
  <2>1. CASE UNCHANGED owed
    BY <1>0, <2>1
  <2> QED
    BY <1>3, <1>6, <1>7, <1>8, <2>1
       DEF Next, vars, DataThread, Publish, PublishConfirmed, TimeOut, ReceiveAck, Disconnect,
           Reconnect, TakeFrame, SendAck, Broadcast, TakePushed,
           SendPushed, Push, Produce, Heartbeat, Reroute
<1> QED
  BY <1>1, <1>2, <1>4, <1>9 DEF TypeOK

-----------------------------------------------------------------------------
(* What a step does to one subscriber's pipe *)

CastFrame == [topic |-> data.frame.topic, seq |-> data.seq]

Unmoved(s) == out'[s] = out[s] /\ last'[s] = last[s]
Gets(s, f) == out'[s] = Append(out[s], f) /\ last'[s] = last[s]
Loses(s) == out'[s] = <<>> /\ last'[s] = last[s]
Takes(s) ==
    /\ out[s] # <<>> /\ out'[s] = Tail(out[s])
    /\ LET f == Head(out[s])
       IN last'[s] = [last[s] EXCEPT ![f.topic] = IF f.seq > @ THEN f.seq ELSE @]
IsCast(s) == data.pc = "cast" /\ data' # data /\ s = Target /\ Gets(s, CastFrame)
IsDirect(s) == data.pc = "direct" /\ Gets(s, [topic |-> data.frame.topic, seq |-> 0])

LEMMA PipeSteps ==
    ASSUME TypeOK, [Next]_vars, NEW s \in Subscribers
    PROVE  Unmoved(s) \/ Takes(s) \/ Loses(s) \/ IsCast(s) \/ IsDirect(s)
<1> USE DEF publisher, thread, loop, subscriber
<1>1. out \in [Subscribers -> Seq(Sent)] /\ last \in [Subscribers -> [Topics -> Nat]]
  BY DEF TypeOK
<1>2. CASE UNCHANGED <<out, last>>
  BY <1>2 DEF Unmoved
<1>3. CASE Broadcast \/ BroadcastLast
  <2>1. data' # data
    <3>1. CASE BroadcastLast
      BY <3>1 DEF BroadcastLast, Casts, Waiting
    <3>2. CASE Broadcast
      <4>1. data.pc = "cast" /\ data'.targets = Tail(data.targets)
        BY <3>2 DEF Broadcast, Casts, TypeOK, HandledOK, Handled
      <4>2. Tail(data.targets) # data.targets
        <5>1. Len(data.targets) \in Nat /\ Len(Tail(data.targets)) = Len(data.targets) - 1
          BY <4>1, ThreadReads
        <5>2. \A n \in Nat : n - 1 # n
          OBVIOUS
        <5> QED
          BY <5>1, <5>2
      <4> QED
        BY <4>1, <4>2
    <3> QED
      BY <1>3, <3>1, <3>2
  <2> QED
    BY <1>1, <1>3, <2>1 DEF Broadcast, BroadcastLast, Casts, IsCast, Gets, CastFrame, Unmoved
<1>4. CASE SendPushed
  BY <1>1, <1>4 DEF SendPushed, IsDirect, Gets, Unmoved
<1>5. ASSUME NEW r \in Subscribers, ReceiveFrame(r) PROVE Takes(s) \/ Unmoved(s)
  BY <1>1, <1>5 DEF ReceiveFrame, Takes, Unmoved
<1>6. ASSUME NEW r \in Subscribers, Leave(r) PROVE Loses(s) \/ Unmoved(s)
  BY <1>1, <1>6 DEF Leave, Loses, Unmoved
<1> QED
  BY <1>2, <1>3, <1>4, <1>5, <1>6
     DEF Next, vars, DataThread, Publish, PublishConfirmed, TimeOut, ReceiveAck, Disconnect,
         Reconnect, TakeFrame, SendAck, Match, TakePushed, Push, Produce, Heartbeat, Reroute

\* Every number of t that s has received or is still to receive is less than n.
Ahead(s, t, n) ==
    /\ last[s][t] < n
    /\ \A i \in 1 .. Len(out[s]) : out[s][i].topic = t => out[s][i].seq < n

\* NumbersIncrease, of one subscriber.
Rising(s) ==
    \A j \in 1 .. Len(out[s]) : out[s][j].seq # 0 =>
       /\ last[s][out[s][j].topic] < out[s][j].seq
       /\ \A i \in 1 .. j - 1 :
             out[s][i].topic = out[s][j].topic => out[s][i].seq < out[s][j].seq

LEMMA PipeFacts ==
    ASSUME TypeOK, NEW s \in Subscribers
    PROVE  /\ out[s] \in Seq(Sent) /\ Len(out[s]) \in Nat
           /\ \A i \in 1 .. Len(out[s]) :
                out[s][i] \in Sent /\ out[s][i].topic \in Topics /\ out[s][i].seq \in Nat
           /\ \A t \in Topics : last[s][t] \in Nat
           /\ out[s] # <<>> =>
                /\ Head(out[s]) = out[s][1] /\ 1 \in 1 .. Len(out[s])
                /\ Len(Tail(out[s])) = Len(out[s]) - 1
                /\ \A i \in 1 .. Len(Tail(out[s])) :
                     Tail(out[s])[i] = out[s][i + 1] /\ i + 1 \in 1 .. Len(out[s])
<1>1. out[s] \in Seq(Sent) /\ \A t \in Topics : last[s][t] \in Nat
  BY DEF TypeOK
<1>2. Len(out[s]) \in Nat
  BY <1>1, LenProperties
<1>3. \A i \in 1 .. Len(out[s]) : out[s][i] \in Sent
  BY <1>1, ElementOfSeq
<1>4. \A i \in 1 .. Len(out[s]) : out[s][i].topic \in Topics /\ out[s][i].seq \in Nat
  BY <1>3 DEF Sent
<1>5. ASSUME out[s] # <<>>
      PROVE  /\ Head(out[s]) = out[s][1]
             /\ Len(Tail(out[s])) = Len(out[s]) - 1
             /\ \A i \in 1 .. Len(Tail(out[s])) : Tail(out[s])[i] = out[s][i + 1]
  BY <1>1, <1>5, HeadTailProperties
<1>6. ASSUME out[s] # <<>>
      PROVE  /\ 1 \in 1 .. Len(out[s])
             /\ \A i \in 1 .. Len(Tail(out[s])) : i + 1 \in 1 .. Len(out[s])
  <2>1. Len(out[s]) \in Nat \ {0}
    BY <1>1, <1>6, MoreToCome
  <2> QED
    BY <1>5, <1>6, <2>1
<1> QED
  BY <1>1, <1>2, <1>3, <1>4, <1>5, <1>6

\* Numbers are only overtaken by a frame with a number as great.
LEMMA StaysAhead ==
    ASSUME TypeOK, [Next]_vars, NEW s \in Subscribers, NEW t \in Topics, NEW n \in Nat,
           Ahead(s, t, n),
           IsCast(s) /\ data.frame.topic = t => data.seq < n
    PROVE  Ahead(s, t, n)'
<1> USE DEF Ahead
<1>1. CASE Unmoved(s)
  BY <1>1 DEF Unmoved
<1>2. CASE Loses(s)
  BY <1>2, EmptySeq DEF Loses
<1>3. CASE Takes(s)
  <2>1. \A i \in 1 .. Len(out'[s]) : out'[s][i].topic = t => out'[s][i].seq < n
    BY <1>3, PipeFacts DEF Takes
  <2>2. last'[s][t] < n
    BY <1>3, PipeFacts DEF Takes, TypeOK
  <2> QED
    BY <2>1, <2>2
<1>4. ASSUME NEW f \in Sent, Gets(s, f), f.topic = t => f.seq < n PROVE Ahead(s, t, n)'
  <2>1. /\ Len(out'[s]) = Len(out[s]) + 1 /\ out'[s][Len(out[s]) + 1] = f
        /\ \A i \in 1 .. Len(out[s]) : out'[s][i] = out[s][i]
    BY <1>4, PipeFacts, AppendProperties DEF Gets
  <2>2. \A i \in 1 .. Len(out'[s]) : i \in 1 .. Len(out[s]) \/ i = Len(out[s]) + 1
    BY <2>1, PipeFacts
  <2>3. \A i \in 1 .. Len(out'[s]) : out'[s][i].topic = t => out'[s][i].seq < n
    BY <1>4, <2>1, <2>2
  <2> QED
    BY <1>4, <2>3 DEF Gets
<1>5. CASE IsDirect(s)
  <2>1. 0 < n
    BY PipeFacts
  <2>2. [topic |-> data.frame.topic, seq |-> 0] \in Sent
    BY <1>5, ThreadReads DEF IsDirect, Sent
  <2> QED
    BY <1>4, <1>5, <2>1, <2>2 DEF IsDirect
<1>6. CASE IsCast(s)
  <2>1. CastFrame \in Sent
    BY <1>6, ThreadReads DEF IsCast, CastFrame, Sent
  <2> QED
    BY <1>4, <1>6, <2>1 DEF IsCast, CastFrame
<1> QED
  BY <1>1, <1>2, <1>3, <1>5, <1>6, PipeSteps

LEMMA StaysRising ==
    ASSUME TypeOK, [Next]_vars, NEW s \in Subscribers, Rising(s),
           IsCast(s) => Ahead(s, data.frame.topic, data.seq)
    PROVE  Rising(s)'
<1> USE DEF Rising
<1>1. CASE Unmoved(s)
  BY <1>1 DEF Unmoved
<1>2. CASE Loses(s)
  BY <1>2, EmptySeq DEF Loses
<1>3. CASE Takes(s)
  <2> DEFINE h == Head(out[s])
  <2>1. /\ h = out[s][1] /\ h.topic \in Topics /\ h.seq \in Nat
        /\ last'[s] = [last[s] EXCEPT ![h.topic] = IF h.seq > @ THEN h.seq ELSE @]
        /\ out'[s] = Tail(out[s])
    BY <1>3, PipeFacts DEF Takes
  <2> HIDE DEF h
  <2> SUFFICES ASSUME NEW j \in 1 .. Len(out'[s]), out'[s][j].seq # 0
               PROVE  /\ last'[s][out'[s][j].topic] < out'[s][j].seq
                      /\ \A i \in 1 .. j - 1 :
                           out'[s][i].topic = out'[s][j].topic => out'[s][i].seq < out'[s][j].seq
    OBVIOUS
  <2>2. out'[s][j] = out[s][j + 1] /\ j + 1 \in 1 .. Len(out[s]) /\ j \in Nat
    BY <1>3, <2>1, PipeFacts DEF Takes
  <2> DEFINE f == out[s][j + 1]
  <2>3. /\ last[s][f.topic] < f.seq
        /\ \A i \in 1 .. j : out[s][i].topic = f.topic => out[s][i].seq < f.seq
        /\ f.topic \in Topics /\ f.seq \in Nat
    BY <2>2, PipeFacts
  <2>4. 1 \in 1 .. j
    BY <2>2
  <2>5. h.topic = f.topic => h.seq < f.seq
    BY <2>1, <2>3, <2>4
  <2>6. \A i \in 1 .. j - 1 : out'[s][i] = out[s][i + 1] /\ i + 1 \in 1 .. j
    BY <1>3, <2>1, <2>2, PipeFacts DEF Takes
  <2>7. last[s] \in [Topics -> Nat]
    BY DEF TypeOK
  <2> HIDE DEF f
  <2>8. last'[s][f.topic] < f.seq
    BY <2>1, <2>3, <2>5, <2>7
  <2> QED
    BY <2>2, <2>3, <2>6, <2>8 DEF f
<1>4. ASSUME NEW f \in Sent, Gets(s, f), f.seq # 0 => Ahead(s, f.topic, f.seq) PROVE Rising(s)'
  <2>1. /\ Len(out'[s]) = Len(out[s]) + 1 /\ out'[s][Len(out[s]) + 1] = f
        /\ \A i \in 1 .. Len(out[s]) : out'[s][i] = out[s][i]
    BY <1>4, PipeFacts, AppendProperties DEF Gets
  <2> SUFFICES ASSUME NEW j \in 1 .. Len(out'[s]), out'[s][j].seq # 0
               PROVE  /\ last'[s][out'[s][j].topic] < out'[s][j].seq
                      /\ \A i \in 1 .. j - 1 :
                           out'[s][i].topic = out'[s][j].topic => out'[s][i].seq < out'[s][j].seq
    OBVIOUS
  <2>2. last'[s] = last[s]
    BY <1>4 DEF Gets
  <2>3. CASE j \in 1 .. Len(out[s])
    <3>1. \A i \in 1 .. j - 1 : i \in 1 .. Len(out[s])
      BY <2>3, PipeFacts
    <3> QED
      BY <2>1, <2>2, <2>3, <3>1
  <2>4. CASE j = Len(out[s]) + 1
    <3>1. \A i \in 1 .. j - 1 : i \in 1 .. Len(out[s])
      BY <2>4, PipeFacts
    <3> QED
      BY <1>4, <2>1, <2>2, <2>4, <3>1 DEF Ahead
  <2>5. j \in 1 .. Len(out[s]) \/ j = Len(out[s]) + 1
    BY <2>1, PipeFacts
  <2> QED
    BY <2>3, <2>4, <2>5
<1>5. CASE IsDirect(s)
  <2>1. [topic |-> data.frame.topic, seq |-> 0] \in Sent
    BY <1>5, ThreadReads DEF IsDirect, Sent
  <2> QED
    BY <1>4, <1>5, <2>1 DEF IsDirect
<1>6. CASE IsCast(s)
  <2>1. CastFrame \in Sent
    BY <1>6, ThreadReads DEF IsCast, CastFrame, Sent
  <2> QED
    BY <1>4, <1>6, <2>1 DEF IsCast, CastFrame
<1> QED
  BY <1>1, <1>2, <1>3, <1>5, <1>6, PipeSteps

\* The subscribers that have neither the frame in hand nor a later one.
Behind == {s \in Subscribers : Ahead(s, data.frame.topic, data.seq)}

\* The frame in hand has the latest number of its topic, and until it is broadcast
\* no subscriber has it; of those it is cast to, the rest do not.
InHand ==
    /\ data.pc \in {"ack", "match", "cast"} => data.seq = seq[data.frame.topic]
    /\ data.pc \in {"ack", "match"} => Subscribers \subseteq Behind
    /\ data.pc = "cast" =>
          /\ \A i \in 1 .. Len(data.targets) : data.targets[i] \in Behind
          /\ \A i, j \in 1 .. Len(data.targets) :
                data.targets[i] = data.targets[j] => i = j

NumbersInv ==
    /\ \A s \in Subscribers : Rising(s)
    /\ \A s \in Subscribers, t \in Topics : Ahead(s, t, seq[t] + 1)
    /\ InHand

LEMMA NumbersInit == Init => NumbersInv
<1> SUFFICES ASSUME Init PROVE NumbersInv
  OBVIOUS
<1>1. \A s \in Subscribers : out[s] = <<>> /\ Len(out[s]) = 0
  BY EmptySeq DEF Init
<1>2. \A s \in Subscribers, t \in Topics : last[s][t] = 0 /\ seq[t] = 0
  BY DEF Init
<1> QED
  BY <1>1, <1>2 DEF Init, NumbersInv, InHand, Rising, Ahead, Waiting

LEMMA NumbersNext ==
    ASSUME TypeOK, NumbersInv, [Next]_vars
    PROVE  NumbersInv'
<1> USE DEF publisher, thread, loop, subscriber
<1>1. ASSUME NEW s \in Subscribers, IsCast(s)
      PROVE  /\ Ahead(s, data.frame.topic, data.seq)
             /\ data.frame.topic \in Topics /\ data.seq = seq[data.frame.topic]
  <2>1. s = Head(data.targets) /\ data.targets \in Seq(Subscribers) /\ data.targets # <<>>
    BY <1>1, ThreadReads, EmptySeq DEF IsCast, Target
  <2>2. s = data.targets[1] /\ 1 \in 1 .. Len(data.targets)
    BY <2>1, HeadTailProperties, MoreToCome
  <2> QED
    BY <1>1, <2>2, ThreadReads DEF IsCast, NumbersInv, InHand, Behind
<1>2. \A s \in Subscribers : Rising(s)'
  BY <1>1, StaysRising DEF NumbersInv
<1>3. \A t \in Topics : seq[t] \in Nat /\ seq[t] + 1 \in Nat
  BY DEF TypeOK
<1>4. ASSUME NEW s \in Subscribers, NEW t \in Topics
      PROVE  (Ahead(s, t, seq[t] + 1))'
  <2>1. PICK n \in Nat : n = seq[t] + 1
    BY <1>3
  <2>2. Ahead(s, t, n)
    BY <2>1 DEF NumbersInv
  <2>3. IsCast(s) /\ data.frame.topic = t => data.seq < n
    BY <1>1, <1>3, <2>1
  <2>4. Ahead(s, t, n)'
    BY <2>2, <2>3, StaysAhead
  <2>5. seq'[t] = seq[t] \/ seq'[t] = seq[t] + 1
    <3>1. CASE TakeFrame
      BY <3>1, ThreadReads DEF TakeFrame, TypeOK
    <3>2. CASE UNCHANGED seq
      BY <3>2
    <3> QED
      BY <3>1, <3>2
         DEF Next, vars, DataThread, Publish, PublishConfirmed, TimeOut, ReceiveAck,
             Disconnect, Reconnect, SendAck, Match, Broadcast, BroadcastLast, TakePushed,
             SendPushed, Push, Produce, Heartbeat, Reroute, ReceiveFrame, Leave
  <2>6. last'[s][t] \in Nat /\ \A i \in 1 .. Len(out'[s]) : out'[s][i].seq \in Nat
    <3>1. TypeOK'
      BY TypeNext
    <3>2. out'[s] \in Seq(Sent) /\ last'[s][t] \in Nat
      BY <3>1 DEF TypeOK
    <3>3. \A i \in 1 .. Len(out'[s]) : out'[s][i] \in Sent
      BY <3>2, ElementOfSeq
    <3> QED
      BY <3>2, <3>3 DEF Sent
  <2>7. \A k \in Nat : k < n => k < seq'[t] + 1
    BY <1>3, <2>1, <2>5
  <2> QED
    BY <2>4, <2>6, <2>7 DEF Ahead
\* A subscriber to whom no frame is cast stays behind the frame in hand.
<1>5. ASSUME NEW s \in Behind, ~IsCast(s), data.frame.topic \in Topics,
             data'.frame = data.frame, data'.seq = data.seq
      PROVE  s \in Behind'
  <2>1. PICK t \in Topics, n \in Nat : t = data.frame.topic /\ n = data.seq
    BY <1>5, ThreadReads
  <2>2. s \in Subscribers /\ Ahead(s, t, n)
    BY <1>5, <2>1 DEF Behind
  <2>3. Ahead(s, t, n)'
    BY <1>5, <2>2, StaysAhead
  <2> QED
    BY <1>5, <2>1, <2>2, <2>3 DEF Behind, Ahead
<1>6. InHand'
  <2>1. CASE data' = data /\ seq' = seq
    <3>1. \A s : ~IsCast(s)
      BY <2>1 DEF IsCast
    <3>2. data.pc \in {"ack", "match", "cast"} => data.frame.topic \in Topics
      BY ThreadReads
    <3>3. data.pc \in {"ack", "match"} => Subscribers \subseteq Behind'
      BY <1>5, <2>1, <3>1, <3>2 DEF NumbersInv, InHand
    <3>4. data.pc = "cast" => \A i \in 1 .. Len(data.targets) : data.targets[i] \in Behind'
      BY <1>5, <2>1, <3>1, <3>2 DEF NumbersInv, InHand
    <3> QED
      BY <2>1, <3>3, <3>4 DEF NumbersInv, InHand
  <2>2. CASE TakeFrame
    <3> DEFINE f == Head(inbox)
    <3>1. PICK t \in Topics, n \in Nat : t = f.topic /\ n = seq[t] + 1
      BY <1>3, <2>2, ThreadReads DEF Received
    <3>2. /\ data'.pc \in {"ack", "match"} /\ data'.frame = f /\ data'.seq = n
          /\ seq' = [seq EXCEPT ![t] = n] /\ data.pc = "in"
      BY <2>2, <3>1, ThreadReads DEF TakeFrame, Waiting
    <3> HIDE DEF f
    <3>3. \A s \in Subscribers : Ahead(s, t, n)
      BY <3>1 DEF NumbersInv
    <3>4. \A s \in Subscribers : Ahead(s, t, n)'
      BY <3>2, <3>3, StaysAhead DEF IsCast
    <3>5. Subscribers \subseteq Behind'
      BY <3>1, <3>2, <3>4 DEF Behind, Ahead
    <3>6. data'.seq = seq'[data'.frame.topic]
      BY <3>1, <3>2 DEF TypeOK
    <3> QED
      BY <3>2, <3>5, <3>6 DEF InHand
  <2>3. CASE SendAck
    <3>1. data' = [data EXCEPT !.pc = "match"] /\ data.pc = "ack" /\ seq' = seq
      BY <2>3 DEF SendAck
    <3>2. data'.pc = "match" /\ data'.frame = data.frame /\ data'.seq = data.seq
      BY <3>1 DEF TypeOK, HandledOK, Handled
    <3>3. Subscribers \subseteq Behind'
      BY <1>5, <3>1, <3>2, ThreadReads DEF NumbersInv, InHand, IsCast
    <3> QED
      BY <3>1, <3>2, <3>3 DEF NumbersInv, InHand
  <2>4. CASE Match
    <3> DEFINE t == data.frame.topic
               S == routes[t]
    <3>1. CASE S = {}
      BY <2>4, <3>1 DEF Match, InHand, Waiting
    <3>2. CASE S # {}
      <4>1. /\ data' = [data EXCEPT !.pc = "cast", !.targets = SetToSeq(S)]
            /\ data.pc = "match" /\ seq' = seq
        BY <2>4, <3>2 DEF Match
      <4>2. S \subseteq Subscribers /\ IsFiniteSet(S)
        BY <4>1, ThreadReads, ConstantsAssumption, FS_Subset DEF TypeOK, LoopOK
      <4> HIDE DEF S
      <4>3. /\ data'.pc = "cast" /\ data'.frame = data.frame /\ data'.seq = data.seq
            /\ data'.targets = SetToSeq(S)
        BY <4>1 DEF TypeOK, HandledOK, Handled
      <4>4. Subscribers \subseteq Behind'
        BY <1>5, <4>1, <4>3, ThreadReads DEF NumbersInv, InHand, IsCast
      <4>5. /\ SetToSeq(S) \in Seq(S) /\ Len(SetToSeq(S)) = Cardinality(S)
            /\ \A i, j \in 1 .. Cardinality(S) : SetToSeq(S)[i] = SetToSeq(S)[j] => i = j
        BY <4>2, SetToSeqProperties
      <4>6. \A i \in 1 .. Len(SetToSeq(S)) : SetToSeq(S)[i] \in S
        BY <4>5, ElementOfSeq
      <4>7. \A i \in 1 .. Len(data'.targets) : data'.targets[i] \in Behind'
        BY <4>2, <4>3, <4>4, <4>6
      <4>8. \A i, j \in 1 .. Len(data'.targets) : data'.targets[i] = data'.targets[j] => i = j
        BY <4>3, <4>5
      <4> QED
        BY <4>1, <4>3, <4>7, <4>8 DEF NumbersInv, InHand
    <3> QED
      BY <3>1, <3>2
  <2>5. CASE Broadcast
    <3> DEFINE q == data.targets
    <3>1. /\ data.pc = "cast" /\ data'.pc = "cast" /\ data'.targets = Tail(q) /\ seq' = seq
          /\ data'.frame = data.frame /\ data'.seq = data.seq
      BY <2>5 DEF Broadcast, Casts, TypeOK, HandledOK, Handled
    <3>2. /\ q \in Seq(Subscribers) /\ q # <<>> /\ data.frame.topic \in Topics
          /\ Len(q) \in Nat \ {0} /\ Len(Tail(q)) = Len(q) - 1 /\ Target = Head(q)
      BY <3>1, ThreadReads, EmptySeq DEF Target
    <3>3. /\ Target = q[1] /\ \A i \in 1 .. Len(Tail(q)) : Tail(q)[i] = q[i + 1]
      BY <3>2, HeadTailProperties
    <3>4. \A i \in 1 .. Len(Tail(q)) : i + 1 \in 1 .. Len(q) /\ i + 1 # 1 /\ 1 \in 1 .. Len(q)
      BY <3>2
    <3>5. /\ \A i \in 1 .. Len(q) : q[i] \in Behind
          /\ \A i, j \in 1 .. Len(q) : q[i] = q[j] => i = j
      BY <3>1 DEF NumbersInv, InHand
    <3> HIDE DEF q
    <3>6. \A i \in 1 .. Len(Tail(q)) : Tail(q)[i] \in Behind /\ Tail(q)[i] # Target
      BY <3>3, <3>4, <3>5
    <3>7. \A i \in 1 .. Len(Tail(q)) : Tail(q)[i] \in Behind'
      BY <1>5, <3>1, <3>2, <3>6 DEF IsCast
    <3>8. \A i, j \in 1 .. Len(Tail(q)) : Tail(q)[i] = Tail(q)[j] => i = j
      <4>1. ASSUME NEW i \in 1 .. Len(Tail(q)), NEW j \in 1 .. Len(Tail(q)), Tail(q)[i] = Tail(q)[j]
            PROVE  i = j
        <5>1. i + 1 = j + 1
          BY <3>3, <3>4, <3>5, <4>1
        <5> QED
          BY <5>1
      <4> QED
        BY <4>1
    <3> QED
      BY <3>1, <3>7, <3>8 DEF NumbersInv, InHand
  <2>6. CASE data'.pc \notin {"ack", "match", "cast"}
    BY <2>6 DEF InHand
  <2>7. CASE BroadcastLast \/ TakePushed \/ SendPushed
    <3>1. data' = Waiting \/ data'.pc \in {"direct", "pull"}
      BY <2>7 DEF BroadcastLast, Casts, TakePushed, SendPushed, Waiting
    <3> QED
      BY <2>6, <3>1 DEF Waiting
  <2> QED
    BY <2>1, <2>2, <2>3, <2>4, <2>5, <2>7
       DEF Next, vars, DataThread, Publish, PublishConfirmed, TimeOut, ReceiveAck, Disconnect,
           Reconnect, Push, Produce, Heartbeat, Reroute, ReceiveFrame, Leave
<1> QED
  BY <1>2, <1>4, <1>6 DEF NumbersInv

\* A subscriber gets the numbers of a topic in increasing order, whatever frames
\* are dropped, whoever leaves and whatever the producers' own frames in between
\* (server.py _on_data_message, router.py broadcast_sync).
THEOREM NumbersIncreaseAlways == Spec => []NumbersIncrease
<1>1. TypeOK /\ NumbersInv /\ [Next]_vars => TypeOK' /\ NumbersInv'
  BY TypeNext, NumbersNext
<1>2. TypeOK /\ NumbersInv => NumbersIncrease
  <2>1. SUFFICES ASSUME TypeOK, NumbersInv PROVE NumbersIncrease
    OBVIOUS
  <2>2. \A s \in Subscribers : \A j \in 1 .. Len(out[s]) :
          out[s][j].seq \in Nat /\ last[s][out[s][j].topic] \in Nat
    BY <2>1, PipeFacts
  <2> QED
    BY <2>1, <2>2 DEF NumbersInv, Rising, NumbersIncrease
<1> QED
  BY <1>1, <1>2, TypeInit, NumbersInit, PTL DEF Spec

-----------------------------------------------------------------------------
(* What is owed *)

\* Frames with a number of t in all the pipes, and those of the broadcast in hand
\* that are not in a pipe yet or were dropped.
InPipes(t) == SumFunction([s \in Subscribers |-> Numbered(s, t)])
UnderCast(t) == IF data.pc = "cast" /\ data.frame.topic = t
                THEN data.drops + Len(data.targets) ELSE 0

\* A broadcast begins without drops, with a number.
CastBegins ==
    /\ data.pc \in {"ack", "match", "cast"} => data.seq # 0
    /\ data.pc \in {"ack", "match"} => data.drops = 0

LEMMA NumberedNext ==
    ASSUME TypeOK, [Next]_vars, NEW s \in Subscribers, NEW t
    PROVE  Numbered(s, t)' = Count(out'[s], Numbers(t)) /\ Numbered(s, t)' \in Nat
<1>1. out' \in [Subscribers -> Seq(Sent)]
  BY PipesNext
<1>2. \A i \in 1 .. Len(out'[s]) : out'[s][i] \in Sent
  BY <1>1, ElementOfSeq
<1>3. {i \in 1 .. Len(out'[s]) : out'[s][i].topic = t /\ out'[s][i].seq # 0}
         = {i \in 1 .. Len(out'[s]) : out'[s][i] \in Numbers(t)}
  BY <1>2 DEF Numbers
<1>4. Count(out'[s], Numbers(t)) \in Nat
  BY <1>1, Positions
<1> QED
  BY <1>3, <1>4 DEF Numbered, Count

LEMMA InPipesChange ==
    ASSUME TypeOK, [Next]_vars, NEW r \in Subscribers, NEW t,
           \A s \in Subscribers \ {r} : out'[s] = out[s]
    PROVE  /\ InPipes(t)' = InPipes(t) - Numbered(r, t) + Numbered(r, t)'
           /\ InPipes(t) \in Int
<1>1. \A s \in Subscribers : Numbered(s, t) \in Nat /\ Numbered(s, t)' \in Nat
  BY NumberedCount, NumberedNext DEF TypeOK
<1>2. \A s \in Subscribers \ {r} : Numbered(s, t)' = Numbered(s, t)
  BY DEF Numbered
<1> DEFINE f == [s \in Subscribers |-> Numbered(s, t)]
           g == [s \in Subscribers |-> Numbered(s, t)']
<1>3. f \in [Subscribers -> Int] /\ g \in [Subscribers -> Int]
  BY <1>1
<1>4. f[r] = Numbered(r, t) /\ g[r] = Numbered(r, t)' /\ \A s \in Subscribers \ {r} : g[s] = f[s]
  BY <1>2
<1>5. InPipes(t) = SumFunction(f) /\ InPipes(t)' = SumFunction(g)
  BY DEF InPipes
<1> HIDE DEF f, g
<1>6. IsFiniteSet(Subscribers)
  BY ConstantsAssumption
<1>7. SumFunction(g) = SumFunction(f) - f[r] + g[r]
  BY <1>3, <1>4, <1>6, TotalChange
<1>8. SumFunction(f) \in Int
  BY <1>3, <1>6, TotalType
<1> QED
  BY <1>4, <1>5, <1>7, <1>8

LEMMA InPipesSame ==
    ASSUME NEW t, out' = out
    PROVE  InPipes(t)' = InPipes(t)
  BY DEF InPipes, Numbered

LEMMA InPipesType ==
    ASSUME TypeOK, NEW t
    PROVE  InPipes(t) \in Int
<1>1. [s \in Subscribers |-> Numbered(s, t)] \in [Subscribers -> Int]
  BY NumberedCount DEF TypeOK
<1> QED
  BY <1>1, ConstantsAssumption, TotalType DEF InPipes

\* A pipe gains or loses what is appended to it or taken from it.
LEMMA NumberedAppended ==
    ASSUME TypeOK, [Next]_vars, NEW s \in Subscribers, NEW t, NEW f \in Sent,
           out'[s] = Append(out[s], f)
    PROVE  Numbered(s, t)' = Numbered(s, t) + (IF f.topic = t /\ f.seq # 0 THEN 1 ELSE 0)
<1>1. Count(out'[s], Numbers(t)) = Count(out[s], Numbers(t)) + (IF f \in Numbers(t) THEN 1 ELSE 0)
  BY PipeFacts, CountAppend
<1> QED
  BY <1>1, NumberedCount, NumberedNext DEF Numbers, TypeOK

LEMMA NumberedTaken ==
    ASSUME TypeOK, [Next]_vars, NEW s \in Subscribers, NEW t,
           out[s] # <<>>, out'[s] = Tail(out[s])
    PROVE  Numbered(s, t) = Numbered(s, t)' + (IF Head(out[s]).topic = t /\ Head(out[s]).seq # 0
                                               THEN 1 ELSE 0)
<1>1. Count(out[s], Numbers(t))
        = Count(out'[s], Numbers(t)) + (IF Head(out[s]) \in Numbers(t) THEN 1 ELSE 0)
  BY PipeFacts, CountTail
<1>2. Head(out[s]) \in Sent
  BY PipeFacts
<1> QED
  BY <1>1, <1>2, NumberedCount, NumberedNext DEF Numbers, TypeOK

LEMMA CastBeginsNext ==
    ASSUME TypeOK, CastBegins, [Next]_vars
    PROVE  CastBegins'
<1> USE DEF publisher, thread, loop, subscriber
<1>1. data \in Handled
  BY DEF TypeOK, HandledOK
<1>2. CASE UNCHANGED data
  BY <1>2 DEF CastBegins
<1>3. CASE TakeFrame
  <2> DEFINE n == NextSeq(Head(inbox).topic)
  <2>1. data'.seq = n /\ data'.drops = 0
    BY <1>3 DEF TakeFrame, Waiting
  <2>2. PICK k \in Nat : n = k + 1
    BY <1>3, ThreadReads DEF TypeOK, Received
  <2> HIDE DEF n
  <2> QED
    BY <2>1, <2>2 DEF CastBegins
<1>4. CASE SendAck
  BY <1>1, <1>4 DEF SendAck, CastBegins, Handled
<1>5. CASE Match
  BY <1>1, <1>5 DEF Match, CastBegins, Handled, Waiting
<1>6. CASE Broadcast
  BY <1>1, <1>6 DEF Broadcast, Casts, CastBegins, Handled
<1>7. CASE BroadcastLast \/ TakePushed \/ SendPushed
  <2>1. data' = Waiting \/ data'.pc \in {"direct", "pull"}
    BY <1>7 DEF BroadcastLast, Casts, TakePushed, SendPushed, Waiting
  <2> QED
    BY <2>1 DEF Waiting, CastBegins
<1> QED
  BY <1>2, <1>3, <1>4, <1>5, <1>6, <1>7
     DEF Next, vars, DataThread, Publish, PublishConfirmed, TimeOut, ReceiveAck, Disconnect,
         Reconnect, Push, Produce, Heartbeat, Reroute, ReceiveFrame, Leave

Balanced(t) == owed[t] = UnderCast(t) + InPipes(t)

LEMMA BalanceMeans == DropsAccounted <=> \A t \in Topics : Balanced(t)
  BY DEF DropsAccounted, Balanced, UnderCast, InPipes

LEMMA BalanceNext ==
    ASSUME TypeOK, CastBegins, \A t \in Topics : Balanced(t), [Next]_vars, NEW t \in Topics
    PROVE  Balanced(t)'
<1> USE DEF publisher, thread, loop, subscriber
<1>1. owed \in [Topics -> Int] /\ out \in [Subscribers -> Seq(Sent)] /\ data \in Handled
  BY DEF TypeOK, HandledOK
<1>2. owed[t] = UnderCast(t) + InPipes(t) /\ InPipes(t) \in Int
  BY InPipesType DEF Balanced
<1>3. CASE UNCHANGED <<owed, out>> /\ UnderCast(t)' = UnderCast(t)
  BY <1>2, <1>3, InPipesSame DEF Balanced
<1>4. CASE UNCHANGED <<owed, out, data>>
  BY <1>3, <1>4 DEF UnderCast
<1>5. CASE UNCHANGED <<owed, out>> /\ data.pc # "cast" /\ data'.pc # "cast"
  BY <1>3, <1>5 DEF UnderCast
<1>6. CASE TakeFrame \/ SendAck \/ TakePushed
  <2>1. UNCHANGED <<owed, out>> /\ data.pc # "cast" /\ data'.pc # "cast"
    <3>1. CASE TakeFrame
      <4>1. data'.pc \in {"ack", "match"}
        BY <3>1 DEF TakeFrame, Waiting
      <4> QED
        BY <3>1, <4>1 DEF TakeFrame
    <3>2. CASE SendAck
      BY <1>1, <3>2 DEF SendAck, Handled
    <3>3. CASE TakePushed
      <4>1. data' = Waiting \/ data'.pc = "direct"
        BY <3>3 DEF TakePushed, Waiting
      <4>2. data'.pc \in {"in", "direct"}
        BY <4>1 DEF Waiting
      <4> QED
        BY <3>3, <4>2 DEF TakePushed
    <3> QED
      BY <1>6, <3>1, <3>2, <3>3
  <2> QED
    BY <1>5, <2>1
<1>7. CASE Match
  <2> DEFINE S == routes[data.frame.topic]
  <2>1. /\ data.frame.topic \in Topics /\ data.drops = 0 /\ out' = out /\ data.pc = "match"
        /\ owed' = [owed EXCEPT ![data.frame.topic] = @ + Cardinality(S)]
    BY <1>7, ThreadReads DEF Match, CastBegins
  <2>2. IsFiniteSet(S)
    BY <2>1, ConstantsAssumption, FS_Subset DEF TypeOK, LoopOK
  <2>3. /\ Cardinality(S) \in Nat /\ S = {} => Cardinality(S) = 0
        /\ Len(SetToSeq(S)) = Cardinality(S)
    BY <2>2, FS_CardinalityType, FS_EmptySet, SetToSeqProperties
  <2>4. /\ S = {} => data' = Waiting
        /\ S # {} => data' = [data EXCEPT !.pc = "cast", !.targets = SetToSeq(S)]
    BY <1>7 DEF Match
  <2> HIDE DEF S
  <2>5. UnderCast(t)' = IF data.frame.topic = t THEN Cardinality(S) ELSE 0
    <3>1. CASE S = {}
      BY <2>3, <2>4, <3>1 DEF UnderCast, Waiting
    <3>2. CASE S # {}
      <4>1. /\ data'.pc = "cast" /\ data'.frame = data.frame /\ data'.drops = 0
            /\ data'.targets = SetToSeq(S)
        BY <1>1, <2>1, <2>4, <3>2 DEF Handled
      <4> QED
        BY <2>3, <4>1 DEF UnderCast
    <3> QED
      BY <3>1, <3>2
  <2>6. UnderCast(t) = 0 /\ InPipes(t)' = InPipes(t)
    BY <2>1, InPipesSame DEF UnderCast
  <2>7. owed'[t] = owed[t] + (IF data.frame.topic = t THEN Cardinality(S) ELSE 0)
    BY <1>1, <2>1, <2>3
  <2> QED
    BY <1>2, <2>3, <2>5, <2>6, <2>7 DEF Balanced
<1>8. ASSUME data.pc = "cast", Casts(Target, data')
      PROVE  InPipes(t)' = InPipes(t) + (IF data.frame.topic = t THEN 1 - Loss(Target) ELSE 0)
  <2>1. Target \in Subscribers /\ CastFrame \in Sent /\ data.seq # 0
    BY <1>8, ThreadReads DEF CastFrame, Sent, CastBegins
  <2>2. CASE Admits(Target)
    <3>1. PICK r \in Subscribers : r = Target
      BY <2>1
    <3>2. /\ out'[r] = Append(out[r], CastFrame) /\ Loss(Target) = 0
          /\ \A s \in Subscribers \ {r} : out'[s] = out[s]
      BY <1>1, <1>8, <2>1, <2>2, <3>1 DEF Casts, CastFrame, Loss
    <3>3. /\ Numbered(r, t) \in Nat
          /\ Numbered(r, t)' = Numbered(r, t) + (IF data.frame.topic = t THEN 1 ELSE 0)
      BY <1>1, <2>1, <3>2, NumberedAppended, NumberedCount DEF CastFrame
    <3>4. InPipes(t)' = InPipes(t) - Numbered(r, t) + Numbered(r, t)'
      BY <3>2, InPipesChange
    <3> QED
      BY <1>2, <3>2, <3>3, <3>4
  <2>3. CASE ~Admits(Target)
    <3>1. out' = out /\ Loss(Target) = 1
      BY <1>8, <2>3 DEF Casts, Loss
    <3> QED
      BY <1>2, <3>1, InPipesSame
  <2> QED
    BY <2>2, <2>3
<1>9. CASE Broadcast
  <2>1. /\ data.pc = "cast" /\ data'.pc = "cast" /\ data'.frame = data.frame
        /\ data'.targets = Tail(data.targets) /\ data'.drops = data.drops + Loss(Target)
        /\ owed' = owed /\ Casts(Target, data')
    BY <1>1, <1>9 DEF Broadcast, Casts, Handled
  <2>2. /\ Len(data.targets) \in Nat /\ Len(Tail(data.targets)) = Len(data.targets) - 1
        /\ data.drops \in Nat /\ Loss(Target) \in Nat
    BY <2>1, ThreadReads DEF Loss
  <2>3. InPipes(t)' = InPipes(t) + (IF data.frame.topic = t THEN 1 - Loss(Target) ELSE 0)
    BY <1>8, <2>1
  <2>4. UnderCast(t) = IF data.frame.topic = t THEN data.drops + Len(data.targets) ELSE 0
    BY <2>1 DEF UnderCast
  <2>5. UnderCast(t)' = IF data.frame.topic = t
                        THEN (data.drops + Loss(Target)) + (Len(data.targets) - 1) ELSE 0
    BY <2>1, <2>2 DEF UnderCast
  <2>6. owed'[t] = owed[t]
    BY <2>1
  <2> QED
    BY <1>2, <2>2, <2>3, <2>4, <2>5, <2>6 DEF Balanced
<1>10. CASE BroadcastLast
  <2>1. /\ data.pc = "cast" /\ data'.pc = "in" /\ Len(data.targets) = 1
        /\ owed' = [owed EXCEPT ![data.frame.topic] = @ - (data.drops + Loss(Target))]
        /\ Casts(Target, data')
    BY <1>10 DEF BroadcastLast, Casts, Waiting
  <2>2. data.drops \in Nat /\ Loss(Target) \in Nat /\ data.frame.topic \in Topics
    BY <2>1, ThreadReads DEF Loss
  <2>3. InPipes(t)' = InPipes(t) + (IF data.frame.topic = t THEN 1 - Loss(Target) ELSE 0)
    BY <1>8, <2>1
  <2>4. /\ UnderCast(t) = IF data.frame.topic = t THEN data.drops + 1 ELSE 0
        /\ UnderCast(t)' = 0
    BY <2>1 DEF UnderCast
  <2>5. owed'[t] = owed[t] - (IF data.frame.topic = t THEN data.drops + Loss(Target) ELSE 0)
    BY <1>1, <2>1, <2>2
  <2> QED
    BY <1>2, <2>2, <2>3, <2>4, <2>5 DEF Balanced
<1>11. CASE SendPushed
  <2> DEFINE f == [topic |-> data.frame.topic, seq |-> 0]
  <2>1. /\ UnderCast(t) = 0 /\ UnderCast(t)' = 0 /\ owed' = owed
        /\ Target \in Subscribers /\ f \in Sent
    BY <1>11, ThreadReads DEF SendPushed, UnderCast, Waiting, Sent
  <2>2. CASE out' = out
    BY <1>3, <2>1, <2>2
  <2>3. CASE out' = [out EXCEPT ![Target] = Append(@, f)]
    <3>1. PICK r \in Subscribers : r = Target
      BY <2>1
    <3>2. /\ out'[r] = Append(out[r], f) /\ f.seq = 0
          /\ \A s \in Subscribers \ {r} : out'[s] = out[s]
      BY <1>1, <2>1, <2>3, <3>1
    <3> HIDE DEF f
    <3>3. Numbered(r, t)' = Numbered(r, t) + 0 /\ Numbered(r, t) \in Nat
      BY <1>1, <2>1, <3>2, NumberedAppended, NumberedCount
    <3>4. InPipes(t)' = InPipes(t) - Numbered(r, t) + Numbered(r, t)'
      BY <3>2, InPipesChange
    <3>5. InPipes(t)' = InPipes(t)
      BY <1>2, <3>3, <3>4
    <3> QED
      BY <1>2, <2>1, <3>5 DEF Balanced
  <2> QED
    BY <1>11, <2>2, <2>3 DEF SendPushed
<1>12. ASSUME NEW s \in Subscribers, ReceiveFrame(s) PROVE Balanced(t)'
  <2> DEFINE h == Head(out[s])
             k == IF h.topic = t /\ h.seq # 0 THEN 1 ELSE 0
  <2>1. /\ out[s] # <<>> /\ out'[s] = Tail(out[s]) /\ UnderCast(t)' = UnderCast(t)
        /\ \A r \in Subscribers \ {s} : out'[r] = out[r]
    BY <1>1, <1>12 DEF ReceiveFrame, UnderCast
  <2>2. h.topic \in Topics
    BY <2>1, PipeFacts
  <2>3. /\ Numbered(s, t) = Numbered(s, t)' + k
        /\ Numbered(s, t)' \in Nat /\ Numbered(s, t) \in Nat
    BY <1>1, <2>1, NumberedTaken, NumberedCount, NumberedNext
  <2>4. InPipes(t)' = InPipes(t) - Numbered(s, t) + Numbered(s, t)'
    BY <2>1, InPipesChange
  <2>5. owed'[t] = owed[t] - k
    <3>1. owed' = IF h.seq = 0 THEN owed ELSE [owed EXCEPT ![h.topic] = @ - 1]
      BY <1>12 DEF ReceiveFrame
    <3> QED
      BY <1>1, <2>2, <3>1
  <2>6. UnderCast(t) \in Int /\ k \in Int
    BY ThreadReads DEF UnderCast
  <2> HIDE DEF k
  <2> QED
    BY <1>2, <2>1, <2>3, <2>4, <2>5, <2>6 DEF Balanced
<1>13. ASSUME NEW s \in Subscribers, Leave(s) PROVE Balanced(t)'
  <2>1. /\ out'[s] = <<>> /\ UnderCast(t)' = UnderCast(t)
        /\ owed'[t] = owed[t] - Numbered(s, t)
        /\ \A r \in Subscribers \ {s} : out'[r] = out[r]
    BY <1>1, <1>13 DEF Leave, UnderCast
  <2>2. Numbered(s, t) \in Nat /\ Numbered(s, t)' = 0
    BY <1>1, <2>1, NumberedCount, NumberedNext, CountEmpty
  <2>3. InPipes(t)' = InPipes(t) - Numbered(s, t) + Numbered(s, t)'
    BY <2>1, InPipesChange
  <2>4. UnderCast(t) \in Int
    BY ThreadReads DEF UnderCast
  <2> QED
    BY <1>2, <2>1, <2>2, <2>3, <2>4 DEF Balanced
<1> QED
  BY <1>4, <1>6, <1>7, <1>9, <1>10, <1>11, <1>12, <1>13
     DEF Next, vars, DataThread, Publish, PublishConfirmed, TimeOut, ReceiveAck, Disconnect,
         Reconnect, Push, Produce, Heartbeat, Reroute

\* Every frame matched to a subscriber is received, in its pipe, lost with its
\* connection, or in the drop statistics (router.py broadcast_sync, server.py
\* _on_data_message), for any number of subscribers.
THEOREM DropsAccountedAlways == Spec => []DropsAccounted
<1> DEFINE Inv == TypeOK /\ CastBegins /\ \A t \in Topics : Balanced(t)
<1>1. Init => Inv
  <2>1. SUFFICES ASSUME Init PROVE \A t \in Topics : Balanced(t)
    BY TypeInit DEF Init, CastBegins, Waiting
  <2>2. \A t \in Topics : owed[t] = 0 /\ UnderCast(t) = 0
    BY <2>1 DEF Init, UnderCast, Waiting
  <2>3. ASSUME NEW t \in Topics PROVE InPipes(t) = 0
    <3> DEFINE f == [s \in Subscribers |-> Numbered(s, t)]
    <3>1. \A s \in Subscribers : Numbered(s, t) = 0
      BY <2>1, TypeInit, NumberedCount, CountEmpty DEF Init, TypeOK
    <3>2. f \in [Subscribers -> Int] /\ \A s \in Subscribers : f[s] = 0
      BY <3>1
    <3> HIDE DEF f
    <3>3. SumFunction(f) = 0
      BY <3>2, ConstantsAssumption, TotalZero
    <3> QED
      BY <3>3 DEF f, InPipes
  <2> QED
    BY <2>2, <2>3 DEF Balanced
<1>2. Inv /\ [Next]_vars => Inv'
  BY TypeNext, CastBeginsNext, BalanceNext
<1>3. Inv => DropsAccounted
  BY BalanceMeans
<1> HIDE DEF Inv
<1> QED
  BY <1>1, <1>2, <1>3, PTL DEF Spec

-----------------------------------------------------------------------------
(* Tokens *)

LEMMA TokensDiffer ==
    ASSUME NEW a \in Nat, NEW b \in Nat, a < b, b - a < TokenSpace
    PROVE  Token(a) # Token(b)
<1> DEFINE N == TokenSpace
           p == a \div N
           q == b \div N
           d == b - a
<1>1. SUFFICES ASSUME a % N = b % N PROVE FALSE
  BY DEF Token
<1> DEFINE r == a % N
<1>2. N \in Nat \ {0}
  BY ConstantsAssumption
<1>3. /\ p \in Nat /\ q \in Nat /\ r \in Nat
      /\ a = (N * p) + r /\ b = (N * q) + r
  <2> HIDE DEF N
  <2>1. p \in Nat /\ q \in Nat /\ r \in Nat
    BY <1>2
  <2>2. a = (N * p) + r
    BY <1>2
  <2>3. b = (N * q) + (b % N)
    BY <1>2
  <2> QED
    BY <1>1, <2>1, <2>2, <2>3
<1>4. N * p \in Int /\ N * q \in Int
  <2> HIDE DEF N, p, q
  <2> QED
    BY <1>2, <1>3
<1>5. N * q = (N * p) + d /\ d \in Int /\ d > 0 /\ d < N
  <2>1. d \in Int /\ d > 0 /\ d < N /\ b = a + d
    OBVIOUS
  <2> HIDE DEF p, q, r, N, d
  <2> QED
    BY <1>2, <1>3, <1>4, <2>1
<1> HIDE DEF p, q, d, N, r
<1> QED
  BY <1>2, <1>3, <1>5

-----------------------------------------------------------------------------
(* What is on its way for a call *)

Waits(p, k, c) == k \in Tokens /\ pending[p][k] = c
Comes(p, k, c) ==
    \E i \in 1 .. Len(inbox) : inbox[i].from = p /\ inbox[i].token = k /\ inbox[i].call = c
Handles(p, k, c) ==
    data.pc = "ack" /\ data.frame.from = p /\ data.frame.token = k /\ data.frame.call = c
Returns(p, k, c) == \E i \in 1 .. Len(acks[p]) : acks[p][i].token = k /\ acks[p][i].call = c

\* Something of call c, made with token k by publisher p, is under way.
On(p, k, c) == c # 0 /\ (Waits(p, k, c) \/ Comes(p, k, c) \/ Handles(p, k, c) \/ Returns(p, k, c))

NewCall(p, k, c) ==
    /\ \E t \in Topics : PublishConfirmed(p, t)
    /\ k = Token(counter[p]) /\ c = Len(calls) + 1

LEMMA Appended ==
    ASSUME NEW T, NEW q \in Seq(T), NEW e \in T
    PROVE  /\ Append(q, e) \in Seq(T) /\ Len(Append(q, e)) = Len(q) + 1 /\ Len(q) \in Nat
           /\ \A i \in 1 .. Len(q) : Append(q, e)[i] = q[i] /\ i \in 1 .. Len(Append(q, e))
           /\ Append(q, e)[Len(q) + 1] = e
           /\ \A i \in 1 .. Len(Append(q, e)) : i \in 1 .. Len(q) \/ i = Len(q) + 1
<1>1. /\ Append(q, e) \in Seq(T) /\ Len(Append(q, e)) = Len(q) + 1 /\ Len(q) \in Nat
      /\ \A i \in 1 .. Len(q) : Append(q, e)[i] = q[i]
      /\ Append(q, e)[Len(q) + 1] = e
  BY AppendProperties, LenProperties
<1> DEFINE n == Len(q)
<1>2. \A i \in 1 .. n : i \in 1 .. n + 1
  BY <1>1
<1>3. \A i \in 1 .. n + 1 : i \in 1 .. n \/ i = n + 1
  BY <1>1
<1> QED
  BY <1>1, <1>2, <1>3

LEMMA Remaining ==
    ASSUME NEW T, NEW q \in Seq(T), q # <<>>
    PROVE  /\ Head(q) = q[1] /\ 1 \in 1 .. Len(q)
           /\ \A i \in 1 .. Len(Tail(q)) :
                Tail(q)[i] = q[i + 1] /\ i + 1 \in 1 .. Len(q) /\ i + 1 # 1
<1>1. /\ Head(q) = q[1] /\ \A i \in 1 .. Len(Tail(q)) : Tail(q)[i] = q[i + 1]
  BY HeadTailProperties
<1>2. Len(q) \in Nat \ {0} /\ Len(Tail(q)) = Len(q) - 1
  BY MoreToCome
<1> DEFINE n == Len(q)
<1>3. 1 \in 1 .. n /\ \A i \in 1 .. n - 1 : i + 1 \in 1 .. n /\ i + 1 # 1
  BY <1>2
<1> QED
  BY <1>1, <1>2, <1>3

\* A call that waits has been waiting or is new.
LEMMA WaitsNext ==
    ASSUME TypeOK, [Next]_vars, NEW p \in Publishers, NEW k, NEW c, c # 0, pending'[p][k] = c
    PROVE  pending[p][k] = c \/ NewCall(p, k, c)
<1> USE DEF publisher, thread, loop, subscriber
<1>1. pending \in [Publishers -> [Tokens -> Nat]]
  BY DEF TypeOK, PublisherOK
<1>2. CASE UNCHANGED pending
  BY <1>2
<1>3. ASSUME NEW q \in Publishers, NEW t \in Topics, PublishConfirmed(q, t)
      PROVE  pending[p][k] = c \/ NewCall(p, k, c)
  <2> DEFINE j == Token(counter[q])
             d == Len(calls) + 1
  <2>1. pending' = [pending EXCEPT ![q][j] = d]
    BY <1>3 DEF PublishConfirmed
  <2>2. pending[p][k] = c \/ (p = q /\ k = j /\ c = d)
    <3> HIDE DEF j, d
    <3> QED
      BY <1>1, <2>1
  <2> QED
    BY <1>3, <2>2 DEF NewCall
<1>4. ASSUME NEW q \in Publishers, NEW j, pending' = [pending EXCEPT ![q][j] = 0]
      PROVE  pending[p][k] = c
  BY <1>1, <1>4
<1>5. ASSUME NEW q \in Publishers, ReceiveAck(q) PROVE pending[p][k] = c
  <2>1. \E j : pending' = [pending EXCEPT ![q][j] = 0]
    BY <1>5 DEF ReceiveAck
  <2> QED
    BY <1>4, <2>1
<1> QED
  BY <1>2, <1>3, <1>4, <1>5
     DEF Next, vars, DataThread, Publish, TimeOut, Disconnect, Reconnect, TakeFrame, SendAck,
         Match, Broadcast, BroadcastLast, Casts, TakePushed, SendPushed, Push, Produce,
         Heartbeat, Reroute, ReceiveFrame, Leave

\* A confirmation in a pipe has been there, or is that of the frame in hand.
OldAck(p, i) == \E j \in 1 .. Len(acks[p]) : acks'[p][i] = acks[p][j]
NewAck(p, i) ==
    /\ data.pc = "ack" /\ data.frame.from = p
    /\ acks'[p][i] = [token |-> data.frame.token, seq |-> data.seq, call |-> data.frame.call]

LEMMA AcksNext ==
    ASSUME TypeOK, [Next]_vars, NEW p \in Publishers, NEW i \in 1 .. Len(acks'[p])
    PROVE  OldAck(p, i) \/ NewAck(p, i)
<1> USE DEF publisher, thread, loop, subscriber
<1>1. acks \in [Publishers -> Seq(Ack)]
  BY DEF TypeOK, PublisherOK
<1>2. CASE acks'[p] = acks[p]
  BY <1>2 DEF OldAck
<1>3. CASE UNCHANGED acks
  BY <1>2, <1>3
<1>4. CASE acks'[p] = <<>>
  BY <1>4, EmptySeq
<1>5. CASE acks[p] # <<>> /\ acks'[p] = Tail(acks[p])
  <2>1. acks'[p][i] = acks[p][i + 1] /\ i + 1 \in 1 .. Len(acks[p])
    BY <1>1, <1>5, Remaining
  <2> QED
    BY <2>1 DEF OldAck
<1>6. ASSUME NEW q \in Publishers, ReceiveAck(q) \/ Disconnect(q)
      PROVE  OldAck(p, i) \/ NewAck(p, i)
  BY <1>1, <1>2, <1>4, <1>5, <1>6 DEF ReceiveAck, Disconnect
<1>7. CASE SendAck
  <2> DEFINE a == [token |-> data.frame.token, seq |-> data.seq, call |-> data.frame.call]
  <2>1. /\ acks' = acks \/ acks' = [acks EXCEPT ![data.frame.from] = Append(@, a)]
        /\ data.pc = "ack" /\ data.frame.from \in Publishers
    BY <1>7 DEF SendAck, TypeOK, HandledOK, Received
  <2>2. a \in Ack
    BY <1>7 DEF SendAck, TypeOK, HandledOK, Handled, Received, Ack
  <2>3. CASE p = data.frame.from /\ acks' # acks
    <3>1. acks'[p] = Append(acks[p], a)
      BY <1>1, <2>1, <2>3
    <3>2. \/ i \in 1 .. Len(acks[p]) /\ acks'[p][i] = acks[p][i]
          \/ acks'[p][i] = a
      BY <1>1, <2>2, <3>1, Appended
    <3> QED
      BY <2>1, <2>3, <3>2 DEF OldAck, NewAck
  <2> QED
    BY <1>1, <1>2, <2>1, <2>3
<1> QED
  BY <1>3, <1>6, <1>7
     DEF Next, vars, DataThread, Publish, PublishConfirmed, TimeOut, Reconnect, TakeFrame,
         Match, Broadcast, BroadcastLast, Casts, TakePushed, SendPushed, Push, Produce,
         Heartbeat, Reroute, ReceiveFrame, Leave

LEMMA OnNext ==
    ASSUME TypeOK, [Next]_vars, NEW p \in Publishers, NEW k, NEW c, On(p, k, c)'
    PROVE  On(p, k, c) \/ NewCall(p, k, c)
<1> USE DEF publisher, thread, loop, subscriber
<1>1. /\ pending \in [Publishers -> [Tokens -> Nat]] /\ acks \in [Publishers -> Seq(Ack)]
      /\ inbox \in Seq(Received) /\ data \in Handled
  BY DEF TypeOK, PublisherOK, HandledOK
<1>2. c # 0
  BY DEF On
<1>3. Waits(p, k, c)' => Waits(p, k, c) \/ NewCall(p, k, c)
  BY <1>2, WaitsNext DEF Waits
<1>4. Comes(p, k, c)' => Comes(p, k, c) \/ NewCall(p, k, c)
  <2> SUFFICES ASSUME NEW i \in 1 .. Len(inbox'),
                      inbox'[i].from = p, inbox'[i].token = k, inbox'[i].call = c
               PROVE  Comes(p, k, c) \/ NewCall(p, k, c)
    BY DEF Comes
  <2>1. CASE UNCHANGED inbox
    BY <2>1 DEF Comes
  <2>2. ASSUME NEW f \in Received, inbox' = Append(inbox, f),
               f.from = p /\ f.token = k /\ f.call = c => NewCall(p, k, c)
        PROVE  Comes(p, k, c) \/ NewCall(p, k, c)
    <3>1. \/ i \in 1 .. Len(inbox) /\ inbox'[i] = inbox[i]
          \/ inbox'[i] = f
      BY <1>1, <2>2, Appended
    <3> QED
      BY <2>2, <3>1 DEF Comes
  <2>3. ASSUME NEW q \in Publishers, NEW t \in Topics, PublishConfirmed(q, t)
        PROVE  Comes(p, k, c) \/ NewCall(p, k, c)
    <3> DEFINE f == Frame(q, t, Len(calls) + 1, Token(counter[q]))
    <3>1. inbox' = Append(inbox, f)
      BY <2>3 DEF PublishConfirmed
    <3>2. f \in Received
      <4>1. Len(calls) + 1 \in Nat /\ Token(counter[q]) \in Tokens
        <5>1. calls \in Seq(Call) /\ counter[q] \in Nat
          BY DEF TypeOK, PublisherOK
        <5> QED
          BY <5>1, TokenType, LenProperties
      <4> QED
        BY <4>1 DEF Frame, Received
    <3>3. f.from = p /\ f.token = k /\ f.call = c => NewCall(p, k, c)
      BY <2>3 DEF Frame, NewCall
    <3> HIDE DEF f
    <3> QED
      BY <2>2, <3>1, <3>2, <3>3
  <2>4. ASSUME NEW q \in Publishers, NEW t \in Topics, Publish(q, t)
        PROVE  Comes(p, k, c) \/ NewCall(p, k, c)
    <3> DEFINE f == Frame(q, t, 0, NoToken)
    <3>1. inbox' = Append(inbox, f) /\ f \in Received /\ f.call # c
      BY <1>2, <2>4 DEF Publish, Frame, Received
    <3> HIDE DEF f
    <3> QED
      BY <2>2, <3>1
  <2>5. CASE TakeFrame
    <3>1. inbox # <<>> /\ inbox' = Tail(inbox)
      BY <2>5 DEF TakeFrame
    <3>2. inbox'[i] = inbox[i + 1] /\ i + 1 \in 1 .. Len(inbox)
      BY <1>1, <3>1, Remaining
    <3> QED
      BY <3>2 DEF Comes
  <2> QED
    BY <2>1, <2>3, <2>4, <2>5
       DEF Next, vars, DataThread, TimeOut, ReceiveAck, Disconnect, Reconnect, SendAck,
           Match, Broadcast, BroadcastLast, Casts, TakePushed, SendPushed, Push, Produce,
           Heartbeat, Reroute, ReceiveFrame, Leave
<1>5. Handles(p, k, c)' => Handles(p, k, c) \/ Comes(p, k, c)
  <2> SUFFICES ASSUME Handles(p, k, c)' PROVE Handles(p, k, c) \/ Comes(p, k, c)
    OBVIOUS
  <2>1. CASE UNCHANGED data
    BY <2>1 DEF Handles
  <2>2. CASE TakeFrame
    <3>1. inbox # <<>> /\ data'.frame = Head(inbox)
      BY <2>2 DEF TakeFrame, Waiting
    <3>2. data'.frame = inbox[1] /\ 1 \in 1 .. Len(inbox)
      BY <1>1, <3>1, Remaining
    <3> QED
      BY <3>2 DEF Handles, Comes
  <2>3. CASE SendAck \/ Match \/ Broadcast
    <3>1. data' = Waiting \/ data'.pc \in {"match", "cast"}
      BY <1>1, <2>3 DEF SendAck, Match, Broadcast, Casts, Handled
    <3> QED
      BY <3>1 DEF Handles, Waiting
  <2>4. CASE BroadcastLast \/ TakePushed \/ SendPushed
    <3>1. data' = Waiting \/ data'.pc \in {"direct", "pull"}
      BY <2>4 DEF BroadcastLast, Casts, TakePushed, SendPushed, Waiting
    <3> QED
      BY <3>1 DEF Handles, Waiting
  <2> QED
    BY <2>1, <2>2, <2>3, <2>4
       DEF Next, vars, DataThread, Publish, PublishConfirmed, TimeOut, ReceiveAck, Disconnect,
           Reconnect, Push, Produce, Heartbeat, Reroute, ReceiveFrame, Leave
<1>6. Returns(p, k, c)' => Returns(p, k, c) \/ Handles(p, k, c)
  BY AcksNext DEF Returns, Handles, OldAck, NewAck
<1> QED
  BY <1>2, <1>3, <1>4, <1>5, <1>6 DEF On

-----------------------------------------------------------------------------
(* Calls *)

\* A call that is open, and whose frame has not been taken, if there is one.
Unnumbered(f) ==
    /\ f.call \in 1 .. Len(calls) /\ f.token # NoToken
    /\ calls[f.call].number = 0 /\ calls[f.call].topic = f.topic

\* What waits, comes, is in hand and returns, and the calls they are for.
PendingOpen ==
    \A p \in Publishers, k \in Tokens : pending[p][k] # 0 =>
       /\ pending[p][k] \in 1 .. Len(calls) /\ calls[pending[p][k]].outcome = Open
       /\ \A q \in Publishers, j \in Tokens : pending[q][j] = pending[p][k] => q = p /\ j = k
InboxFresh ==
    \A i \in 1 .. Len(inbox) :
       /\ inbox[i].call = 0 => inbox[i].token = NoToken
       /\ inbox[i].call # 0 =>
             /\ Unnumbered(inbox[i])
             /\ \A j \in 1 .. Len(inbox) : inbox[j].call = inbox[i].call => j = i
HasNumber(c, n) == c \in 1 .. Len(calls) /\ calls[c].number = n /\ n # 0
HandNumbered == data.pc = "ack" => HasNumber(data.frame.call, data.seq)
AcksNumbered ==
    \A p \in Publishers : \A i \in 1 .. Len(acks[p]) :
       HasNumber(acks[p][i].call, acks[p][i].seq)

\* Only one call has something under way with a token, made with a count that
\* no later call of its publisher has reached again.
OneCall ==
    \A p \in Publishers : \A k, c, d : On(p, k, c) /\ On(p, k, d) => c = d
Counts ==
    \A p \in Publishers : \A k, c : On(p, k, c) =>
       \E v \in Nat : v < counter[p] /\ Token(v) = k /\ counter[p] - v <= Len(calls) + 1 - c

CallInv == PendingOpen /\ InboxFresh /\ HandNumbered /\ AcksNumbered /\ OneCall /\ Counts

Resolves(c) ==
    \E p \in Publishers, k \in Tokens :
       pending[p][k] = c /\ pending' = [pending EXCEPT ![p][k] = 0]
GivesNumber(c) == TakeFrame /\ Head(inbox).call = c

LEMMA CallsType ==
    ASSUME TypeOK
    PROVE  /\ calls \in Seq(Call) /\ Len(calls) \in Nat
           /\ \A c \in 1 .. Len(calls) : calls[c] \in Call
  BY LenProperties, ElementOfSeq DEF TypeOK, PublisherOK

\* What a step does to the calls there are.
LEMMA CallsNext ==
    ASSUME TypeOK, [Next]_vars
    PROVE  /\ \/ Len(calls') = Len(calls)
              \/ Len(calls') = Len(calls) + 1 /\ \E p \in Publishers, t \in Topics : PublishConfirmed(p, t)
           /\ \A c \in 1 .. Len(calls) :
                /\ c \in 1 .. Len(calls') /\ calls'[c].topic = calls[c].topic
                /\ calls'[c].number = calls[c].number \/ GivesNumber(c)
                /\ calls'[c].outcome = calls[c].outcome \/ Resolves(c)
<1> USE DEF publisher, thread, loop, subscriber
<1>1. calls \in Seq(Call) /\ Len(calls) \in Nat
  BY CallsType
<1> DEFINE Kept ==
      \A c \in 1 .. Len(calls) :
        /\ c \in 1 .. Len(calls') /\ calls'[c].topic = calls[c].topic
        /\ calls'[c].number = calls[c].number \/ GivesNumber(c)
        /\ calls'[c].outcome = calls[c].outcome \/ Resolves(c)
<1>2. CASE UNCHANGED calls
  BY <1>2
<1>3. ASSUME NEW p \in Publishers, NEW t \in Topics, PublishConfirmed(p, t)
      PROVE  Len(calls') = Len(calls) + 1 /\ Kept
  <2> DEFINE e == [topic |-> t, number |-> 0, outcome |-> Open]
  <2>1. calls' = Append(calls, e) /\ e \in Call
    BY <1>3 DEF PublishConfirmed, Call, Open
  <2> HIDE DEF e
  <2>2. /\ Len(calls') = Len(calls) + 1
        /\ \A c \in 1 .. Len(calls) : calls'[c] = calls[c] /\ c \in 1 .. Len(calls')
    BY <1>1, <2>1, Appended
  <2> QED
    BY <2>2
<1>4. ASSUME NEW c, NEW o \in Int, calls' = [calls EXCEPT ![c].outcome = o], Resolves(c)
      PROVE  Len(calls') = Len(calls) /\ Kept
  <2>1. /\ Len(calls') = Len(calls)
        /\ \A i \in 1 .. Len(calls) :
             calls'[i] = IF i = c THEN [calls[c] EXCEPT !.outcome = o] ELSE calls[i]
    BY <1>1, <1>4, OutcomeRecorded
  <2>2. \A i \in 1 .. Len(calls) : calls[i] \in Call
    BY CallsType
  <2> HIDE DEF Resolves
  <2>3. \A i \in 1 .. Len(calls) : calls'[i].topic = calls[i].topic /\ calls'[i].number = calls[i].number
    BY <2>1, <2>2 DEF Call
  <2> QED
    BY <1>4, <2>1, <2>3
<1>5. ASSUME NEW p \in Publishers, NEW k \in Tokens, TimeOut(p, k)
      PROVE  Len(calls') = Len(calls) /\ Kept
  <2>1. calls' = [calls EXCEPT ![pending[p][k]].outcome = TimedOut]
    BY <1>5 DEF TimeOut
  <2>2. Resolves(pending[p][k])
    BY <1>5 DEF TimeOut, Resolves
  <2>3. TimedOut \in Int
    BY DEF TimedOut
  <2> QED
    BY <1>4, <2>1, <2>2, <2>3
<1>6. ASSUME NEW p \in Publishers, ReceiveAck(p)
      PROVE  Len(calls') = Len(calls) /\ Kept
  <2> DEFINE a == Head(acks[p])
             c == pending[p][a.token]
  <2>1. a.seq \in Int /\ a.token \in Tokens
    <3>1. acks[p] \in Seq(Ack) /\ acks[p] # <<>>
      BY <1>6 DEF ReceiveAck, TypeOK, PublisherOK
    <3>2. a \in Ack
      BY <3>1, Taken
    <3> QED
      BY <3>2 DEF Ack
  <2>2. calls' = (IF c = 0 THEN calls ELSE [calls EXCEPT ![c].outcome = a.seq])
    BY <1>6 DEF ReceiveAck
  <2>3. Resolves(c)
    BY <1>6, <2>1 DEF ReceiveAck, Resolves
  <2> HIDE DEF a, c
  <2> QED
    BY <1>4, <2>1, <2>2, <2>3
<1>7. CASE TakeFrame
  <2> DEFINE f == Head(inbox)
             n == NextSeq(f.topic)
  <2>1. n \in Nat
    BY <1>7, ThreadReads
  <2>2. calls' = (IF f.call = 0 THEN calls ELSE [calls EXCEPT ![f.call].number = n])
    BY <1>7 DEF TakeFrame
  <2>3. GivesNumber(f.call)
    BY <1>7 DEF GivesNumber
  <2> HIDE DEF f, n
  <2>4. CASE calls' = [calls EXCEPT ![f.call].number = n]
    <3>1. /\ Len(calls') = Len(calls)
          /\ \A i \in 1 .. Len(calls) :
               calls'[i] = IF i = f.call THEN [calls[f.call] EXCEPT !.number = n] ELSE calls[i]
      BY <1>1, <2>1, <2>4, NumberRecorded
    <3>2. \A i \in 1 .. Len(calls) : calls[i] \in Call
      BY CallsType
    <3>3. \A i \in 1 .. Len(calls) : calls'[i].topic = calls[i].topic /\ calls'[i].outcome = calls[i].outcome
      BY <3>1, <3>2 DEF Call
    <3> QED
      BY <2>3, <3>1, <3>3
  <2> QED
    BY <1>2, <2>2, <2>4
<1> QED
  BY <1>2, <1>3, <1>5, <1>6, <1>7
     DEF Next, vars, DataThread, Publish, Disconnect, Reconnect, SendAck, Match, Broadcast,
         BroadcastLast, Casts, TakePushed, SendPushed, Push, Produce, Heartbeat, Reroute,
         ReceiveFrame, Leave

\* A number that was given stays: the frame taken is of a call without one.
LEMMA NumberStays ==
    ASSUME TypeOK, InboxFresh, [Next]_vars, NEW c, NEW n, HasNumber(c, n)
    PROVE  HasNumber(c, n)'
<1>1. c \in 1 .. Len(calls) /\ calls[c].number = n /\ n # 0
  BY DEF HasNumber
<1>2. ~GivesNumber(c)
  <2>1. SUFFICES ASSUME TakeFrame, Head(inbox).call = c PROVE FALSE
    BY DEF GivesNumber
  <2>2. inbox \in Seq(Received) /\ inbox # <<>>
    BY <2>1 DEF TypeOK, TakeFrame
  <2>3. Head(inbox) = inbox[1] /\ 1 \in 1 .. Len(inbox)
    BY <2>2, Remaining
  <2>4. c # 0
    BY <1>1, CallsType
  <2> QED
    BY <1>1, <2>1, <2>3, <2>4 DEF InboxFresh, Unnumbered
<1> QED
  BY <1>1, <1>2, CallsNext DEF HasNumber

LEMMA AcksNumberedNext ==
    ASSUME TypeOK, InboxFresh, HandNumbered, AcksNumbered, [Next]_vars
    PROVE  AcksNumbered'
<1> SUFFICES ASSUME NEW p \in Publishers, NEW i \in 1 .. Len(acks'[p])
             PROVE  HasNumber(acks[p][i].call, acks[p][i].seq)'
  BY DEF AcksNumbered
<1>1. PICK c, n : c = acks'[p][i].call /\ n = acks'[p][i].seq
  OBVIOUS
<1>2. HasNumber(c, n)
  <2>1. CASE OldAck(p, i)
    BY <1>1, <2>1 DEF OldAck, AcksNumbered
  <2>2. CASE NewAck(p, i)
    BY <1>1, <2>2 DEF NewAck, HandNumbered
  <2> QED
    BY <2>1, <2>2, AcksNext
<1>3. HasNumber(c, n)'
  BY <1>2, NumberStays
<1> QED
  BY <1>1, <1>3 DEF HasNumber

LEMMA HandNumberedNext ==
    ASSUME TypeOK, InboxFresh, HandNumbered, [Next]_vars
    PROVE  HandNumbered'
<1> USE DEF publisher, thread, loop, subscriber
<1> SUFFICES ASSUME data'.pc = "ack" PROVE HasNumber(data.frame.call, data.seq)'
  BY DEF HandNumbered
<1>1. CASE UNCHANGED data
  <2>1. PICK c, n : c = data.frame.call /\ n = data.seq
    OBVIOUS
  <2>2. HasNumber(c, n)
    BY <1>1, <2>1 DEF HandNumbered
  <2>3. HasNumber(c, n)'
    BY <2>2, NumberStays
  <2> QED
    BY <1>1, <2>1, <2>3 DEF HasNumber
<1>2. CASE TakeFrame
  <2> DEFINE f == Head(inbox)
             n == NextSeq(f.topic)
  <2>1. inbox # <<>> /\ inbox \in Seq(Received)
    BY <1>2 DEF TakeFrame, TypeOK
  <2>2. /\ data'.frame = f /\ data'.seq = n /\ f.token # NoToken
        /\ calls' = (IF f.call = 0 THEN calls ELSE [calls EXCEPT ![f.call].number = n])
    BY <1>2 DEF TakeFrame, Waiting
  <2>3. f = inbox[1] /\ 1 \in 1 .. Len(inbox)
    BY <2>1, Remaining
  <2>4. f.call # 0 /\ f.call \in 1 .. Len(calls)
    BY <2>2, <2>3 DEF InboxFresh, Unnumbered
  <2>5. n \in Nat /\ n # 0
    <3>1. PICK k \in Nat : n = k + 1
      BY <1>2, ThreadReads DEF TypeOK, Received
    <3> QED
      BY <3>1
  <2> HIDE DEF f, n
  <2>6. calls' = [calls EXCEPT ![f.call].number = n] /\ calls \in Seq(Call)
    BY <2>2, <2>4, CallsType
  <2>7. Len(calls') = Len(calls) /\ calls'[f.call] = [calls[f.call] EXCEPT !.number = n]
    BY <2>4, <2>5, <2>6, NumberRecorded
  <2>8. calls'[f.call].number = n
    BY <2>4, <2>7, CallsType DEF Call
  <2> QED
    BY <2>2, <2>4, <2>5, <2>7, <2>8 DEF HasNumber
<1>3. CASE SendAck \/ Match \/ Broadcast
  <2>1. data' = Waiting \/ data'.pc \in {"match", "cast"}
    BY <1>3 DEF SendAck, Match, Broadcast, Casts, Handled, HandledOK, TypeOK
  <2> QED
    BY <2>1 DEF Waiting
<1>4. CASE BroadcastLast \/ TakePushed \/ SendPushed
  <2>1. data' = Waiting \/ data'.pc \in {"direct", "pull"}
    BY <1>4 DEF BroadcastLast, Casts, TakePushed, SendPushed, Waiting
  <2> QED
    BY <2>1 DEF Waiting
<1> QED
  BY <1>1, <1>2, <1>3, <1>4
     DEF Next, vars, DataThread, Publish, PublishConfirmed, TimeOut, ReceiveAck, Disconnect,
         Reconnect, Push, Produce, Heartbeat, Reroute, ReceiveFrame, Leave

LEMMA InboxFreshNext ==
    ASSUME TypeOK, InboxFresh, [Next]_vars
    PROVE  InboxFresh'
<1> USE DEF publisher, thread, loop, subscriber
<1>1. inbox \in Seq(Received)
  BY DEF TypeOK
<1> DEFINE Fresh(q) ==
      \A i \in 1 .. Len(q) :
         /\ q[i].call = 0 => q[i].token = NoToken
         /\ q[i].call # 0 =>
              /\ \A j \in 1 .. Len(q) : q[j].call = q[i].call => j = i
              /\ q[i].call \in 1 .. Len(calls) /\ q[i].token # NoToken
              /\ calls[q[i].call].number = 0 /\ calls[q[i].call].topic = q[i].topic
<1>2. Fresh(inbox)
  BY DEF InboxFresh, Unnumbered
<1> DEFINE Good(i) ==
      /\ inbox'[i].call = 0 => inbox'[i].token = NoToken
      /\ inbox'[i].call # 0 =>
           /\ inbox'[i].call \in 1 .. Len(calls') /\ inbox'[i].token # NoToken
           /\ calls'[inbox'[i].call].number = 0 /\ calls'[inbox'[i].call].topic = inbox'[i].topic
    Alone(i) == inbox'[i].call # 0 =>
                  \A j \in 1 .. Len(inbox') : inbox'[j].call = inbox'[i].call => j = i
<1>3. SUFFICES \A i \in 1 .. Len(inbox') : Good(i) /\ Alone(i)
  BY DEF InboxFresh, Unnumbered
<1>4. ASSUME NEW f, f.call \in 1 .. Len(calls), calls[f.call].number = 0,
             calls[f.call].topic = f.topic, ~GivesNumber(f.call)
      PROVE  /\ f.call \in 1 .. Len(calls')
             /\ calls'[f.call].number = 0 /\ calls'[f.call].topic = f.topic
  BY <1>4, CallsNext
<1>5. CASE UNCHANGED inbox /\ ~TakeFrame
  <2>1. \A c : ~GivesNumber(c)
    BY <1>5 DEF GivesNumber
  <2> QED
    BY <1>2, <1>4, <1>5, <2>1
<1>6. CASE TakeFrame
  <2>1. inbox # <<>> /\ inbox' = Tail(inbox)
    BY <1>6 DEF TakeFrame
  <2>2. \A i \in 1 .. Len(inbox') : inbox'[i] = inbox[i + 1] /\ i + 1 \in 1 .. Len(inbox) /\ i + 1 # 1
    BY <1>1, <2>1, Remaining
  <2>3. Head(inbox) = inbox[1] /\ 1 \in 1 .. Len(inbox)
    BY <1>1, <2>1, Remaining
  <2>4. ASSUME NEW i \in 1 .. Len(inbox'), inbox'[i].call # 0
        PROVE  ~GivesNumber(inbox'[i].call)
    BY <1>2, <2>2, <2>3, <2>4 DEF GivesNumber
  <2>5. \A i \in 1 .. Len(inbox') : Good(i)
    <3>1. ASSUME NEW i \in 1 .. Len(inbox') PROVE Good(i)
      <4>1. CASE inbox'[i].call = 0
        BY <1>2, <2>2, <4>1
      <4>2. CASE inbox'[i].call # 0
        <5>1. /\ inbox'[i].call \in 1 .. Len(calls) /\ inbox'[i].token # NoToken
              /\ calls[inbox'[i].call].number = 0 /\ calls[inbox'[i].call].topic = inbox'[i].topic
          BY <1>2, <2>2, <4>2
        <5> QED
          BY <1>4, <2>4, <4>2, <5>1
      <4> QED
        BY <4>1, <4>2
    <3> QED
      BY <3>1
  <2>6. ASSUME NEW i \in 1 .. Len(inbox'), inbox'[i].call # 0,
               NEW j \in 1 .. Len(inbox'), inbox'[j].call = inbox'[i].call
        PROVE  j = i
    <3>1. j + 1 = i + 1
      BY <1>2, <2>2, <2>6
    <3> QED
      BY <3>1
  <2> HIDE DEF Good
  <2> QED
    BY <2>5, <2>6
<1>7. ASSUME NEW p \in Publishers, NEW t \in Topics, Publish(p, t)
      PROVE  \A i \in 1 .. Len(inbox') : Good(i) /\ Alone(i)
  <2> DEFINE f == Frame(p, t, 0, NoToken)
  <2>1. inbox' = Append(inbox, f) /\ f \in Received /\ f.call = 0 /\ f.token = NoToken /\ calls' = calls
    BY <1>7 DEF Publish, Frame, Received
  <2> HIDE DEF f
  <2>2. \A i \in 1 .. Len(inbox') : \/ i \in 1 .. Len(inbox) /\ inbox'[i] = inbox[i]
                                    \/ inbox'[i] = f
    BY <1>1, <2>1, Appended
  <2> QED
    BY <1>2, <2>1, <2>2
<1>8. ASSUME NEW p \in Publishers, NEW t \in Topics, PublishConfirmed(p, t)
      PROVE  \A i \in 1 .. Len(inbox') : Good(i) /\ Alone(i)
  <2> DEFINE c == Len(calls) + 1
             f == Frame(p, t, c, Token(counter[p]))
             e == [topic |-> t, number |-> 0, outcome |-> Open]
  <2>1. inbox' = Append(inbox, f) /\ calls' = Append(calls, e)
    BY <1>8 DEF PublishConfirmed
  <2>2. counter[p] \in Nat /\ c \in Nat /\ c # 0 /\ c \notin 1 .. Len(calls)
    BY CallsType DEF TypeOK, PublisherOK
  <2>3. f \in Received /\ f.call = c /\ f.token # NoToken /\ f.topic = t
    BY <2>2, TokenType DEF Frame, Received
  <2>4. calls \in Seq(Call) /\ e \in Call /\ e.number = 0 /\ e.topic = t
    BY CallsType DEF Call, Open
  <2> HIDE DEF e
  <2>5. c \in 1 .. Len(calls') /\ calls'[c].number = 0 /\ calls'[c].topic = t
    <3>1. calls'[c] = e /\ Len(calls') = c
      BY <2>1, <2>4, Appended
    <3> HIDE DEF c
    <3> QED
      BY <2>2, <2>4, <3>1
  <2> HIDE DEF f, c
  <2>6. \A i \in 1 .. Len(inbox') : \/ i \in 1 .. Len(inbox) /\ inbox'[i] = inbox[i]
                                    \/ i = Len(inbox) + 1 /\ inbox'[i] = f
    BY <1>1, <2>1, <2>3, Appended
  <2>7. ~TakeFrame
    BY <1>8 DEF PublishConfirmed, TakeFrame
  <2>8. \A k : ~GivesNumber(k)
    BY <2>7 DEF GivesNumber
  <2>9. \A i \in 1 .. Len(inbox) : inbox[i].call # c
    BY <1>2, <2>2
  <2>10. ASSUME NEW i \in 1 .. Len(inbox') PROVE Good(i)
    <3>1. CASE inbox'[i] = f
      BY <2>3, <2>2, <2>5, <3>1
    <3>2. CASE i \in 1 .. Len(inbox) /\ inbox'[i] = inbox[i] /\ inbox[i].call # 0
      <4>1. /\ inbox[i].call \in 1 .. Len(calls) /\ inbox[i].token # NoToken
            /\ calls[inbox[i].call].number = 0 /\ calls[inbox[i].call].topic = inbox[i].topic
        BY <1>2, <3>2
      <4> QED
        BY <1>4, <2>8, <3>2, <4>1
    <3>3. CASE i \in 1 .. Len(inbox) /\ inbox'[i] = inbox[i] /\ inbox[i].call = 0
      BY <1>2, <3>3
    <3> QED
      BY <2>6, <3>1, <3>2, <3>3
  <2>11. ASSUME NEW i \in 1 .. Len(inbox') PROVE Alone(i)
    BY <1>2, <2>3, <2>6, <2>9
  <2> HIDE DEF Good, Alone
  <2> QED
    BY <2>10, <2>11
<1> QED
  <2>1. (UNCHANGED inbox /\ ~TakeFrame) \/ TakeFrame
        \/ \E p \in Publishers, t \in Topics : Publish(p, t) \/ PublishConfirmed(p, t)
    BY DEF Next, vars, DataThread, TimeOut, ReceiveAck, Disconnect, Reconnect, SendAck, Match,
           Broadcast, BroadcastLast, Casts, TakePushed, SendPushed, Push, Produce, Heartbeat,
           Reroute, ReceiveFrame, Leave
  <2> HIDE DEF Good, Alone
  <2> QED
    BY <1>5, <1>6, <1>7, <1>8, <2>1

LEMMA NewCallMade ==
    ASSUME TypeOK, [Next]_vars, NEW p \in Publishers, NEW k, NEW c, NewCall(p, k, c)
    PROVE  /\ k = Token(counter[p]) /\ k \in Tokens /\ c = Len(calls) + 1 /\ c \in Nat \ {0}
           /\ c \notin 1 .. Len(calls) /\ c \in 1 .. Len(calls')
           /\ Len(calls') = Len(calls) + 1 /\ counter[p] \in Nat /\ counter'[p] = counter[p] + 1
           /\ pending' = [pending EXCEPT ![p][k] = c]
           /\ calls'[c].outcome = Open
           /\ \A d \in UnderWay : c - d < TokenSpace
<1>1. PICK t \in Topics : PublishConfirmed(p, t)
  BY DEF NewCall
<1> DEFINE n == Len(calls)
           e == [topic |-> t, number |-> 0, outcome |-> Open]
<1>2. k = Token(counter[p]) /\ c = n + 1
  BY DEF NewCall
<1>3. n \in Nat /\ calls \in Seq(Call) /\ counter \in [Publishers -> Nat]
  BY CallsType DEF TypeOK, PublisherOK
<1>4. calls' = Append(calls, e) /\ e \in Call /\ e.outcome = Open
  BY <1>1 DEF PublishConfirmed, Call, Open
<1> HIDE DEF e
<1>5. Len(calls') = n + 1 /\ calls'[n + 1] = e
  BY <1>3, <1>4, Appended
<1>6. n + 1 \in Nat \ {0} /\ n + 1 \notin 1 .. n /\ n + 1 \in 1 .. n + 1
  BY <1>3
<1>7. k \in Tokens
  BY <1>2, <1>3, TokenType
<1>8. pending' = [pending EXCEPT ![p][k] = c]
  BY <1>1, <1>2 DEF PublishConfirmed
<1>9. counter'[p] = counter[p] + 1
  BY <1>1, <1>3 DEF PublishConfirmed
<1>10. \A d \in UnderWay : c - d < TokenSpace
  <2>1. \A d \in UnderWay : n + 1 - d < TokenSpace
    BY <1>1 DEF PublishConfirmed
  <2>2. \A d \in UnderWay : d \in Int
    BY <1>3 DEF UnderWay
  <2> QED
    BY <1>2, <1>3, <2>1, <2>2
<1> QED
  BY <1>2, <1>3, <1>4, <1>5, <1>6, <1>7, <1>8, <1>9, <1>10

LEMMA PendingOpenNext ==
    ASSUME TypeOK, PendingOpen, [Next]_vars
    PROVE  PendingOpen'
<1>1. /\ pending \in [Publishers -> [Tokens -> Nat]]
      /\ pending' \in [Publishers -> [Tokens -> Nat]]
  BY PublisherNext DEF TypeOK, PublisherOK
<1>2. SUFFICES ASSUME NEW p \in Publishers, NEW k \in Tokens, NEW c, c # 0, pending'[p][k] = c
               PROVE  /\ c \in 1 .. Len(calls') /\ calls'[c].outcome = Open
                      /\ \A q \in Publishers, j \in Tokens : pending'[q][j] = c => q = p /\ j = k
  BY DEF PendingOpen
<1>3. ASSUME NewCall(p, k, c)
      PROVE  /\ c \in 1 .. Len(calls') /\ calls'[c].outcome = Open
             /\ \A q \in Publishers, j \in Tokens : pending'[q][j] = c => q = p /\ j = k
  <2>1. /\ c \notin 1 .. Len(calls) /\ pending' = [pending EXCEPT ![p][k] = c]
        /\ c \in 1 .. Len(calls') /\ calls'[c].outcome = Open
    BY <1>3, NewCallMade
  <2>2. \A q \in Publishers, j \in Tokens : pending[q][j] # c
    BY <1>2, <2>1 DEF PendingOpen
  <2> QED
    BY <1>1, <2>1, <2>2
<1>4. CASE ~NewCall(p, k, c)
  <2>1. pending[p][k] = c
    BY <1>2, <1>4, WaitsNext
  <2>2. /\ c \in 1 .. Len(calls) /\ calls[c].outcome = Open
        /\ \A q \in Publishers, j \in Tokens : pending[q][j] = c => q = p /\ j = k
    BY <1>2, <2>1 DEF PendingOpen
  <2>3. ~Resolves(c)
    BY <1>1, <1>2, <2>2 DEF Resolves
  <2>4. c \in 1 .. Len(calls') /\ calls'[c].outcome = Open
    BY <2>2, <2>3, CallsNext
  <2>5. ASSUME NEW q \in Publishers, NEW j \in Tokens, pending'[q][j] = c
        PROVE  q = p /\ j = k
    <3>1. ~NewCall(q, j, c)
      BY <2>2, NewCallMade
    <3> QED
      BY <1>2, <2>2, <2>5, <3>1, WaitsNext
  <2> QED
    BY <2>4, <2>5
<1> QED
  BY <1>3, <1>4

\* What is under way is of a call there is, and keeps new calls from its token.
LEMMA OnUnderWay ==
    ASSUME TypeOK, CallInv, NEW p \in Publishers, NEW k, NEW c, On(p, k, c)
    PROVE  c \in 1 .. Len(calls) /\ c \in UnderWay
<1> USE DEF CallInv
<1>1. CASE Waits(p, k, c)
  BY <1>1 DEF On, Waits, PendingOpen, UnderWay
<1>2. CASE Comes(p, k, c)
  <2>1. PICK i \in 1 .. Len(inbox) : inbox[i].call = c
    BY <1>2 DEF Comes
  <2>2. c \in 1 .. Len(calls)
    BY <2>1 DEF On, InboxFresh, Unnumbered
  <2>3. inbox[i] \in ToSet(inbox)
    BY LenProperties DEF TypeOK, ToSet
  <2> QED
    BY <2>1, <2>2, <2>3 DEF UnderWay
<1>3. CASE Handles(p, k, c)
  BY <1>3 DEF Handles, HandNumbered, HasNumber, UnderWay
<1>4. CASE Returns(p, k, c)
  <2>1. PICK i \in 1 .. Len(acks[p]) : acks[p][i].call = c
    BY <1>4 DEF Returns
  <2>2. c \in 1 .. Len(calls)
    BY <2>1 DEF AcksNumbered, HasNumber
  <2>3. acks[p] \in Seq(Ack)
    BY DEF TypeOK, PublisherOK
  <2>4. acks[p][i] \in ToSet(acks[p])
    BY <2>3, LenProperties DEF ToSet
  <2> QED
    BY <2>1, <2>2, <2>4 DEF UnderWay
<1> QED
  BY <1>1, <1>2, <1>3, <1>4 DEF On

LEMMA CountsNext ==
    ASSUME TypeOK, CallInv, [Next]_vars
    PROVE  Counts'
<1> SUFFICES ASSUME NEW p \in Publishers, NEW k, NEW c, On(p, k, c)'
             PROVE  \E v \in Nat : /\ v < counter'[p] /\ Token(v) = k
                                   /\ counter'[p] - v <= Len(calls') + 1 - c
  BY DEF Counts
<1>1. CASE NewCall(p, k, c)
  <2>1. /\ k = Token(counter[p]) /\ counter[p] \in Nat /\ counter'[p] = counter[p] + 1
        /\ Len(calls') = c /\ c \in Nat
    BY <1>1, NewCallMade
  <2>2. counter[p] < counter'[p] /\ counter'[p] - counter[p] <= Len(calls') + 1 - c
    BY <2>1
  <2> QED
    BY <2>1, <2>2
<1>2. CASE On(p, k, c)
  <2>1. PICK v \in Nat : v < counter[p] /\ Token(v) = k /\ counter[p] - v <= Len(calls) + 1 - c
    BY <1>2 DEF CallInv, Counts
  <2>2. counter[p] \in Nat /\ Len(calls) \in Nat /\ c \in Nat
    BY <1>2, OnUnderWay, CallsType DEF TypeOK, PublisherOK
  <2>3. \/ counter'[p] = counter[p] /\ (Len(calls') = Len(calls) \/ Len(calls') = Len(calls) + 1)
        \/ counter'[p] = counter[p] + 1 /\ Len(calls') = Len(calls) + 1
    <3>1. CASE UNCHANGED counter
      BY <3>1, CallsNext
    <3>2. ASSUME NEW q \in Publishers, NEW t \in Topics, PublishConfirmed(q, t)
          PROVE  /\ counter'[p] = counter[p] \/ counter'[p] = counter[p] + 1
                 /\ Len(calls') = Len(calls) + 1
      <4>1. NewCall(q, Token(counter[q]), Len(calls) + 1)
        BY <3>2 DEF NewCall
      <4>2. Len(calls') = Len(calls) + 1
        BY <4>1, NewCallMade
      <4> QED
        BY <3>2, <4>2 DEF PublishConfirmed, TypeOK, PublisherOK
    <3>3. ASSUME NEW q \in Publishers, Reconnect(q) PROVE counter'[p] = counter[p] /\ calls' = calls
      BY <3>3 DEF Reconnect, Resumed, TypeOK, PublisherOK
    <3> QED
      BY <3>1, <3>2, <3>3
         DEF Next, vars, publisher, thread, loop, subscriber, DataThread, Publish, TimeOut,
             ReceiveAck, Disconnect, TakeFrame, SendAck, Match, Broadcast, BroadcastLast, Casts,
             TakePushed, SendPushed, Push, Produce, Heartbeat, Reroute, ReceiveFrame, Leave
  <2> DEFINE m == counter[p]
             n == Len(calls)
             m1 == counter'[p]
             n1 == Len(calls')
  <2>4. /\ m \in Nat /\ n \in Nat /\ v < m /\ m - v <= n + 1 - c
        /\ (m1 = m /\ (n1 = n \/ n1 = n + 1)) \/ (m1 = m + 1 /\ n1 = n + 1)
    BY <2>1, <2>2, <2>3
  <2> HIDE DEF m, n, m1, n1
  <2>5. v < m1 /\ m1 - v <= n1 + 1 - c
    BY <2>2, <2>4
  <2> QED
    BY <2>1, <2>5 DEF m1, n1
<1> QED
  BY <1>1, <1>2, OnNext

LEMMA OneCallNext ==
    ASSUME TypeOK, CallInv, [Next]_vars
    PROVE  OneCall'
\* Nothing is under way with the token of a new call.
<1>1. ASSUME NEW p \in Publishers, NEW k, NEW c, NEW d, NewCall(p, k, c), On(p, k, d)
      PROVE  FALSE
  <2>1. /\ k = Token(counter[p]) /\ counter[p] \in Nat /\ c = Len(calls) + 1
        /\ \A e \in UnderWay : c - e < TokenSpace
    BY <1>1, NewCallMade
  <2>2. d \in UnderWay
    BY <1>1, OnUnderWay
  <2>3. PICK v \in Nat : v < counter[p] /\ Token(v) = k /\ counter[p] - v <= Len(calls) + 1 - d
    BY <1>1 DEF CallInv, Counts
  <2>4. counter[p] - v < TokenSpace
    <3>1. c - d < TokenSpace
      BY <2>1, <2>2
    <3>2. d \in Int /\ Len(calls) \in Nat
      BY <1>1, OnUnderWay, CallsType
    <3>3. counter[p] - v <= c - d
      BY <2>1, <2>3, <3>2
    <3>4. c - d \in Int /\ counter[p] - v \in Int /\ TokenSpace \in Int
      BY <1>1, <2>1, OnUnderWay, CallsType, ConstantsAssumption
    <3> QED
      BY <3>1, <3>3, <3>4
  <2> QED
    BY <2>1, <2>3, <2>4, TokensDiffer
<1>2. SUFFICES ASSUME NEW p \in Publishers, NEW k, NEW c, NEW d, On(p, k, c)', On(p, k, d)'
               PROVE  c = d
  BY DEF OneCall
<1>3. (On(p, k, c) \/ NewCall(p, k, c)) /\ (On(p, k, d) \/ NewCall(p, k, d))
  BY <1>2, OnNext
<1>4. CASE On(p, k, c) /\ On(p, k, d)
  BY <1>4 DEF CallInv, OneCall
<1>5. CASE NewCall(p, k, c) /\ NewCall(p, k, d)
  BY <1>5 DEF NewCall
<1> QED
  BY <1>1, <1>3, <1>4, <1>5

-----------------------------------------------------------------------------
(* The data plane implements the publish service *)

LEMMA CallInit == Init => CallInv
<1> SUFFICES ASSUME Init PROVE CallInv
  OBVIOUS
<1>1. Len(<<>>) = 0
  BY EmptySeq
<1>2. inbox = <<>> /\ \A p \in Publishers : acks[p] = <<>>
  BY DEF Init
<1>3. \A p \in Publishers, k \in Tokens : pending[p][k] = 0
  BY DEF Init
<1>4. \A p \in Publishers : \A k, c : ~On(p, k, c)
  BY <1>1, <1>2, <1>3 DEF Init, Waiting, On, Waits, Comes, Handles, Returns
<1> QED
  BY <1>1, <1>2, <1>3, <1>4
     DEF Init, Waiting, CallInv, PendingOpen, InboxFresh, HandNumbered, AcksNumbered, OneCall, Counts

LEMMA CallNext ==
    ASSUME TypeOK, CallInv, [Next]_vars
    PROVE  CallInv'
  BY PendingOpenNext, InboxFreshNext, HandNumberedNext, AcksNumberedNext, OneCallNext, CountsNext
     DEF CallInv

LEMMA ServiceStep ==
    ASSUME TypeOK, CallInv, [Next]_vars
    PROVE  Publishing!Next \/ UNCHANGED Publishing!vars
<1> USE DEF publisher, thread, loop, subscriber
<1>1. CASE UNCHANGED <<seq, calls>>
  BY <1>1 DEF Publishing!vars
<1>2. ASSUME NEW p \in Publishers, NEW t \in Topics, PublishConfirmed(p, t)
      PROVE  Publishing!Next
  BY <1>2 DEF PublishConfirmed, Publishing!Next, Publishing!Call, Publishing!Open, Open
<1>3. ASSUME NEW p \in Publishers, NEW k \in Tokens, TimeOut(p, k)
      PROVE  Publishing!Next
  <2>1. pending[p][k] \in 1 .. Len(calls) /\ calls[pending[p][k]].outcome = Open
    BY <1>3 DEF TimeOut, CallInv, PendingOpen
  <2>2. calls' = [calls EXCEPT ![pending[p][k]].outcome = TimedOut] /\ seq' = seq
    BY <1>3 DEF TimeOut
  <2>3. Publishing!TimeOut(pending[p][k])
    BY <2>1, <2>2 DEF Publishing!TimeOut, Publishing!Open, Publishing!TimedOut, Open, TimedOut
  <2> QED
    BY <2>1, <2>3 DEF Publishing!Next
<1>4. ASSUME NEW p \in Publishers, ReceiveAck(p)
      PROVE  UNCHANGED <<seq, calls>> \/ Publishing!Next
  <2> DEFINE a == Head(acks[p])
             c == pending[p][a.token]
  <2>1. acks[p] \in Seq(Ack) /\ acks[p] # <<>>
    BY <1>4 DEF ReceiveAck, TypeOK, PublisherOK
  <2>2. a = acks[p][1] /\ 1 \in 1 .. Len(acks[p]) /\ a.token \in Tokens
    <3>1. a \in Ack
      BY <2>1, Taken
    <3> QED
      BY <2>1, <3>1, Remaining DEF Ack
  <2>3. calls' = (IF c = 0 THEN calls ELSE [calls EXCEPT ![c].outcome = a.seq]) /\ seq' = seq
    BY <1>4 DEF ReceiveAck
  <2>4. ASSUME c # 0
        PROVE  c \in 1 .. Len(calls) /\ calls[c].outcome = Open
               /\ calls[c].number = a.seq /\ a.seq # 0
    <3>1. c \in 1 .. Len(calls) /\ calls[c].outcome = Open
      BY <2>2, <2>4 DEF CallInv, PendingOpen
    <3>2. HasNumber(a.call, a.seq)
      BY <2>2 DEF CallInv, AcksNumbered
    <3>3. On(p, a.token, c)
      BY <2>2, <2>4 DEF On, Waits
    <3>4. On(p, a.token, a.call)
      <4>1. a.call # 0
        BY <3>2, CallsType DEF HasNumber
      <4>2. Returns(p, a.token, a.call)
        BY <2>2 DEF Returns
      <4> QED
        BY <4>1, <4>2 DEF On
    <3>5. c = a.call
      BY <3>3, <3>4 DEF CallInv, OneCall
    <3> QED
      BY <3>1, <3>2, <3>5 DEF HasNumber
  <2> HIDE DEF a, c
  <2>5. CASE c # 0
    <3>1. Publishing!Return(c)
      BY <2>3, <2>4, <2>5 DEF Publishing!Return, Publishing!Open, Open
    <3> QED
      BY <2>4, <2>5, <3>1 DEF Publishing!Next
  <2> QED
    BY <2>3, <2>5
<1>5. ASSUME TakeFrame PROVE Publishing!Next
  <2> DEFINE f == Head(inbox)
             t == f.topic
  <2>1. inbox \in Seq(Received) /\ inbox # <<>>
    BY <1>5 DEF TakeFrame, TypeOK
  <2>2. f = inbox[1] /\ 1 \in 1 .. Len(inbox) /\ t \in Topics
    <3>1. f \in Received
      BY <2>1, Taken
    <3> QED
      BY <2>1, <3>1, Remaining DEF Received
  <2>3. /\ seq' = [seq EXCEPT ![t] = seq[t] + 1]
        /\ calls' = (IF f.call = 0 THEN calls ELSE [calls EXCEPT ![f.call].number = seq[t] + 1])
    BY <1>5 DEF TakeFrame, NextSeq
  <2>4. f.call # 0 => f.call \in 1 .. Len(calls) /\ calls[f.call].number = 0 /\ calls[f.call].topic = t
    BY <2>2 DEF CallInv, InboxFresh, Unnumbered
  <2>5. seq'[t] = seq[t] + 1
    BY <2>2, <2>3 DEF TypeOK
  <2> HIDE DEF f
  <2>6. CASE f.call = 0
    BY <2>2, <2>3, <2>6 DEF Publishing!Next, Publishing!AcceptOther
  <2>7. CASE f.call # 0
    <3>1. Publishing!Accept(f.call)
      BY <2>3, <2>4, <2>5, <2>7 DEF Publishing!Accept
    <3> QED
      BY <2>4, <2>7, <3>1 DEF Publishing!Next
  <2> QED
    BY <2>6, <2>7
<1>6. UNCHANGED <<seq, calls>> \/ Publishing!Next
  BY <1>2, <1>3, <1>4, <1>5
     DEF Next, vars, DataThread, Publish, Disconnect, Reconnect, SendAck, Match,
         Broadcast, BroadcastLast, Casts, TakePushed, SendPushed, Push, Produce, Heartbeat,
         Reroute, ReceiveFrame, Leave
<1> QED
  BY <1>1, <1>6

\* publish(confirm=True) returns the number its own frame was given, or times out,
\* for any number of publishers and tokens (client.py publish, _handle_ack;
\* server.py _on_data_message).
THEOREM PublishConfirmedIsService == Spec => Confirmed
<1>1. Init => Publishing!Init
  BY DEF Init, Publishing!Init
<1>2. TypeOK /\ CallInv /\ [Next]_vars => [Publishing!Next]_(Publishing!vars)
  BY ServiceStep
<1>3. TypeOK /\ CallInv /\ [Next]_vars => TypeOK' /\ CallInv'
  BY TypeNext, CallNext
<1> QED
  BY <1>1, <1>2, <1>3, TypeInit, CallInit, PTL DEF Spec, Confirmed, Publishing!Spec
=============================================================================
