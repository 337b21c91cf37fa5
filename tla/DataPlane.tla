----------------------------- MODULE DataPlane -----------------------------
(***************************************************************************)
(* The way of a frame through the server: publishers that wait for a       *)
(* confirmation (client.py), the data thread, which numbers, confirms and  *)
(* broadcasts (server.py, transport/router.py), and the event loop, which  *)
(* opens credits and hands the frames of built-in producers to the data    *)
(* thread (producers/manager.py).                                          *)
(*                                                                         *)
(* The data thread alone uses the ROUTER socket.  It sends broadcasts      *)
(* without waiting; confirmations and the frames of producers it sends     *)
(* with a send that waits while the peer's pipe is full, and the event     *)
(* loop waits in turn while the queue to the data thread is full.          *)
(* Subscribers with a buffer are modelled in Buffering.                    *)
(***************************************************************************)
EXTENDS Integers, Sequences, FiniteSets, SequencesExt

CONSTANTS
    Publishers, Subscribers, Topics,
    TokenSpace,   \* ack tokens are taken modulo this number (2^32)
    AckHWM,       \* high-water marks: of the pipe to a publisher,
    OutHWM,       \* of the pipe to a subscriber,
    PushHWM,      \* of the queue from the event loop to the data thread
    Credits,      \* credits that heartbeats report
    NoOne,        \* stands for no publisher
    MaxFrames,    \* bounds, for TLC only: on calls of publish() and turns of
                  \* the built-in producers,
    MaxEvents     \* on heartbeats, changes of routes and broken connections

ASSUME ConstantsAssumption ==
    /\ TokenSpace \in Nat \ {0} /\ AckHWM \in Nat \ {0}
    /\ IsFiniteSet(Subscribers)
    /\ OutHWM \in Nat \ {0} /\ PushHWM \in Nat \ {0}
    /\ Credits \subseteq Nat /\ NoOne \notin Publishers
    /\ MaxFrames \in Nat /\ MaxEvents \in Nat

VARIABLES
    counter,   \* counter[p]: _ack_counter
    pending,   \* pending[p][token]: the call that waits for it, 0: none
    connected, \* connected[p]: the publisher has a connection
    acks,      \* acks[p]: confirmations in the pipe to p
    inbox,     \* frames the ROUTER socket has received
    data,      \* pc and locals of the data thread
    seq,       \* _topic_seq
    credit,    \* _credits, -1: no entry
    routes,    \* routes[t]: subscribers of t
    out,       \* out[s]: frames in the pipe to s
    push,      \* the PUSH/PULL queue
    main,      \* the event loop: what it still has to push
    gone,      \* subscribers whose connection is gone
    bound,     \* counts of the bounded actions
    calls,     \* history: the confirmed calls, their numbers and outcomes
    last,      \* last[s][t]: last number s received
    owed       \* owed[t]: frames times the subscribers they were matched to, less
               \* those received, lost with a connection or recorded as dropped

publisher == <<counter, pending, connected, acks, calls>>
thread == <<inbox, data, seq>>
loop == <<credit, routes, main, push>>
subscriber == <<out, last, gone>>
vars == <<publisher, thread, loop, subscriber, owed, bound>>

-----------------------------------------------------------------------------
Tokens == 0 .. TokenSpace - 1
NoToken == -1

\* Outcomes of a call besides the number it returned.
Open == 0
TimedOut == -1

\* A frame: who published it, as which call (0: not confirmed), its token.
Frame(p, t, c, token) == [from |-> p, topic |-> t, call |-> c, token |-> token]
NoFrame == Frame(NoOne, NoOne, 0, NoToken)

Waiting == [pc |-> "in", frame |-> NoFrame, seq |-> 0, targets |-> <<>>, drops |-> 0]
Free == [topic |-> NoOne, targets |-> <<>>]

Init ==
    /\ counter = [p \in Publishers |-> 0]
    /\ pending = [p \in Publishers |-> [k \in Tokens |-> 0]]
    /\ connected = [p \in Publishers |-> TRUE]
    /\ acks = [p \in Publishers |-> <<>>]
    /\ inbox = <<>>
    /\ data = Waiting
    /\ seq = [t \in Topics |-> 0]
    /\ credit = [s \in Subscribers |-> -1]
    /\ routes = [t \in Topics |-> Subscribers]
    /\ out = [s \in Subscribers |-> <<>>]
    /\ push = <<>> /\ main = Free
    /\ bound = [frames |-> 0, events |-> 0]
    /\ calls = <<>>
    /\ last = [s \in Subscribers |-> [t \in Topics |-> 0]]
    /\ gone = {}
    /\ owed = [t \in Topics |-> 0]

Counted(what, max) == bound[what] < max /\ bound' = [bound EXCEPT ![what] = @ + 1]

-----------------------------------------------------------------------------
(* publish() *)

Publish(p, t) ==
    /\ connected[p]
    /\ Counted("frames", MaxFrames)
    /\ inbox' = Append(inbox, Frame(p, t, 0, NoToken))
    /\ UNCHANGED <<publisher, data, seq, loop, subscriber, owed>>

\* The calls of which something is under way: they wait, or their frame or
\* confirmation has not arrived.
UnderWay ==
    {c \in 1 .. Len(calls) :
        \/ \E p \in Publishers, k \in Tokens : pending[p][k] = c
        \/ \E f \in ToSet(inbox) \cup {data.frame} : f.call = c
        \/ \E p \in Publishers : \E a \in ToSet(acks[p]) : a.call = c}

Token(count) == count % TokenSpace

\* No call lives so long that the tokens come round meanwhile.
PublishConfirmed(p, t) ==
    /\ connected[p]
    /\ Counted("frames", MaxFrames)
    /\ \A c \in UnderWay : Len(calls) + 1 - c < TokenSpace
    /\ LET c == Len(calls) + 1
       IN /\ calls' = Append(calls, [topic |-> t, number |-> 0, outcome |-> Open])
          /\ pending' = [pending EXCEPT ![p][Token(counter[p])] = c]
          /\ inbox' = Append(inbox, Frame(p, t, c, Token(counter[p])))
    /\ counter' = [counter EXCEPT ![p] = @ + 1]
    /\ UNCHANGED <<connected, acks, data, seq, loop, subscriber, owed>>

\* The confirmation resolves the call that waits for its token, if any does.
ReceiveAck(p) ==
    /\ connected[p] /\ acks[p] # <<>>
    /\ LET a == Head(acks[p])
           c == pending[p][a.token]
       IN /\ pending' = [pending EXCEPT ![p][a.token] = 0]
          /\ calls' = IF c = 0 THEN calls ELSE [calls EXCEPT ![c].outcome = a.seq]
    /\ acks' = [acks EXCEPT ![p] = Tail(@)]
    /\ UNCHANGED <<counter, connected, thread, loop, subscriber, owed, bound>>

TimeOut(p, token) ==
    /\ pending[p][token] # 0
    /\ calls' = [calls EXCEPT ![pending[p][token]].outcome = TimedOut]
    /\ pending' = [pending EXCEPT ![p][token] = 0]
    /\ UNCHANGED <<counter, connected, acks, thread, loop, subscriber, owed, bound>>

\* What lies in the pipe to the publisher is lost; what the server has
\* received is not, nor are the calls that wait.
Disconnect(p) ==
    /\ connected[p]
    /\ Counted("events", MaxEvents)
    /\ connected' = [connected EXCEPT ![p] = FALSE]
    /\ acks' = [acks EXCEPT ![p] = <<>>]
    /\ UNCHANGED <<counter, pending, calls, thread, loop, subscriber, owed>>

\* MUTANT: the counter begins again.
AfterReconnect(p) == 0

Resumed(p) == counter[p]

\* With the same identity: confirmations of earlier frames arrive here.
Reconnect(p) ==
    /\ ~connected[p]
    /\ connected' = [connected EXCEPT ![p] = TRUE]
    /\ counter' = [counter EXCEPT ![p] = Resumed(p)]
    /\ UNCHANGED <<pending, acks, calls, thread, loop, subscriber, owed, bound>>

-----------------------------------------------------------------------------
(* The data thread: _loop() and _on_data_message() *)

\* MUTANT: the numbers of a topic come round.
NextSeqNarrow(t) == 1 + (seq[t] % TokenSpace)

NextSeq(t) == seq[t] + 1

\* A frame is numbered as soon as it is received.
TakeFrame ==
    /\ data.pc = "in" /\ inbox # <<>>
    /\ LET f == Head(inbox)
           n == NextSeq(f.topic)
       IN /\ seq' = [seq EXCEPT ![f.topic] = n]
          /\ data' = [Waiting EXCEPT !.pc = IF f.token = NoToken THEN "match" ELSE "ack",
                                     !.frame = f, !.seq = n]
          /\ calls' = IF f.call = 0 THEN calls ELSE [calls EXCEPT ![f.call].number = n]
    /\ inbox' = Tail(inbox)
    /\ UNCHANGED <<counter, pending, connected, acks, loop, subscriber, owed, bound>>

AckRoom(p) == Len(acks[p]) < AckHWM

\* send_sync_direct() waits while the pipe to the publisher is full, and fails
\* if it has gone.
SendAck ==
    /\ data.pc = "ack"
    /\ LET p == data.frame.from
           a == [token |-> data.frame.token, seq |-> data.seq, call |-> data.frame.call]
       IN \/ ~connected[p] /\ acks' = acks
          \/ /\ connected[p] /\ AckRoom(p)
             /\ acks' = [acks EXCEPT ![p] = Append(@, a)]
    /\ data' = [data EXCEPT !.pc = "match"]
    /\ UNCHANGED <<counter, pending, connected, calls, inbox, seq, loop, subscriber, owed, bound>>

Match ==
    /\ data.pc = "match"
    /\ data' = IF routes[data.frame.topic] = {} THEN Waiting
               ELSE [data EXCEPT !.pc = "cast", !.targets = SetToSeq(routes[data.frame.topic])]
    /\ owed' = [owed EXCEPT ![data.frame.topic] = @ + Cardinality(routes[data.frame.topic])]
    /\ UNCHANGED <<publisher, inbox, seq, loop, subscriber, bound>>

\* MUTANT: a send that waits.
WaitsForRoom(s) == s \in gone \/ Len(out[s]) < OutHWM

\* zmq.DONTWAIT.
WaitsForNone(s) == TRUE

\* A frame is dropped if the subscriber reported no room, its pipe is full or
\* its connection gone.
Admits(s) == credit[s] # 0 /\ s \notin gone /\ Len(out[s]) < OutHWM

\* MUTANT: a frame refused for want of credit is not counted.
LossUnlessStarved(s) == IF Admits(s) \/ credit[s] = 0 THEN 0 ELSE 1

Loss(s) == IF Admits(s) THEN 0 ELSE 1

Casts(s, next) ==
    /\ WaitsForNone(s)
    /\ out' = IF Admits(s)
              THEN [out EXCEPT ![s] = Append(@, [topic |-> data.frame.topic, seq |-> data.seq])]
              ELSE out
    /\ data' = next

Target == Head(data.targets)

Broadcast ==
    /\ data.pc = "cast" /\ Len(data.targets) > 1
    /\ Casts(Target, [data EXCEPT !.targets = Tail(@), !.drops = @ + Loss(Target)])
    /\ UNCHANGED <<publisher, inbox, seq, loop, last, gone, owed, bound>>

\* To the last target; then the drops are recorded.
BroadcastLast ==
    /\ data.pc = "cast" /\ Len(data.targets) = 1
    /\ Casts(Target, Waiting)
    /\ owed' = [owed EXCEPT ![data.frame.topic] = @ - (data.drops + Loss(Target))]
    /\ UNCHANGED <<publisher, inbox, seq, loop, last, gone, bound>>

\* When nothing more is there to receive, the frames of the producers.
TakePushed ==
    /\ \/ data.pc = "in" /\ inbox = <<>>
       \/ data.pc = "pull"
    /\ IF push = <<>>
       THEN data' = Waiting /\ push' = push
       ELSE /\ data' = [Waiting EXCEPT !.pc = "direct", !.targets = <<Head(push).to>>,
                                      !.frame.topic = Head(push).topic]
            /\ push' = Tail(push)
    /\ UNCHANGED <<publisher, inbox, seq, credit, routes, main, subscriber, owed, bound>>

\* The send waits for room and fails if the subscriber has gone; the frame keeps
\* the number 0 it was encoded with.
SendPushed ==
    /\ data.pc = "direct"
    /\ \/ Target \in gone /\ out' = out
       \/ /\ Target \notin gone /\ Len(out[Target]) < OutHWM
          /\ out' = [out EXCEPT ![Target] = Append(@, [topic |-> data.frame.topic, seq |-> 0])]
    /\ data' = [Waiting EXCEPT !.pc = "pull"]
    /\ UNCHANGED <<publisher, inbox, seq, loop, last, gone, owed, bound>>

-----------------------------------------------------------------------------
(* The event loop *)

\* A turn of a built-in producer: its frame goes to every subscriber.  While
\* the queue to the data thread is full the event loop stands still.
Produce(t) ==
    /\ main = Free
    /\ Counted("frames", MaxFrames)
    /\ routes[t] # {}
    /\ main' = [topic |-> t, targets |-> SetToSeq(routes[t])]
    /\ UNCHANGED <<publisher, thread, credit, routes, push, subscriber, owed>>

Push ==
    /\ main # Free
    /\ Len(push) < PushHWM
    /\ push' = Append(push, [to |-> Head(main.targets), topic |-> main.topic])
    /\ main' = IF Len(main.targets) = 1 THEN Free ELSE [main EXCEPT !.targets = Tail(@)]
    /\ UNCHANGED <<publisher, thread, credit, routes, subscriber, owed, bound>>

Heartbeat(s, c) ==
    /\ main = Free
    /\ Counted("events", MaxEvents)
    /\ credit' = [credit EXCEPT ![s] = c]
    /\ UNCHANGED <<publisher, thread, routes, main, push, subscriber, owed>>

Reroute(s, t) ==
    /\ main = Free
    /\ Counted("events", MaxEvents)
    /\ routes' = [routes EXCEPT ![t] = IF s \in @ THEN @ \ {s} ELSE @ \cup {s}]
    /\ UNCHANGED <<publisher, thread, credit, main, push, subscriber, owed>>

-----------------------------------------------------------------------------
(* Subscribers *)

Numbered(s, t) == Cardinality({i \in 1 .. Len(out[s]) : out[s][i].topic = t /\ out[s][i].seq # 0})

ReceiveFrame(s) ==
    /\ out[s] # <<>>
    /\ LET f == Head(out[s])
       IN /\ last' = [last EXCEPT ![s][f.topic] = IF f.seq > @ THEN f.seq ELSE @]
          /\ owed' = IF f.seq = 0 THEN owed ELSE [owed EXCEPT ![f.topic] = @ - 1]
    /\ out' = [out EXCEPT ![s] = Tail(@)]
    /\ UNCHANGED <<publisher, thread, loop, gone, bound>>

Leave(s) ==
    /\ s \notin gone
    /\ Counted("events", MaxEvents)
    /\ gone' = gone \cup {s}
    /\ out' = [out EXCEPT ![s] = <<>>]
    /\ owed' = [t \in Topics |-> owed[t] - Numbered(s, t)]
    /\ UNCHANGED <<publisher, thread, loop, last>>

-----------------------------------------------------------------------------
DataThread ==
    \/ TakeFrame \/ SendAck \/ Match
    \/ Broadcast \/ BroadcastLast
    \/ TakePushed \/ SendPushed

Next ==
    \/ \E p \in Publishers :
         \/ \E t \in Topics : Publish(p, t) \/ PublishConfirmed(p, t)
         \/ \E k \in Tokens : TimeOut(p, k)
         \/ ReceiveAck(p) \/ Disconnect(p) \/ Reconnect(p)
    \/ DataThread
    \/ Push \/ \E t \in Topics : Produce(t)
    \/ \E s \in Subscribers :
         \/ ReceiveFrame(s) \/ Leave(s)
         \/ \E c \in Credits : Heartbeat(s, c)
         \/ \E t \in Topics : Reroute(s, t)

\* The data thread runs as long as it can; nothing is assumed of anyone else,
\* not even that peers read what they are sent.
Spec == Init /\ [][Next]_vars /\ WF_vars(DataThread)

-----------------------------------------------------------------------------
(* Properties *)

\* publish(confirm=True) returns the number of its own frame, in spite of tokens
\* that come round, late and lost confirmations, time-outs and reconnects, and
\* no frame is numbered twice.
Publishing == INSTANCE PublishService WITH Unconfirmed <- TRUE

Confirmed == Publishing!Spec

\* A subscriber gets the numbers of a topic in increasing order.
NumbersIncrease ==
    \A s \in Subscribers : \A j \in 1 .. Len(out[s]) :
       LET f == out[s][j]
       IN f.seq # 0 =>
             /\ f.seq > last[s][f.topic]
             /\ \A i \in 1 .. j - 1 : out[s][i].topic = f.topic => out[s][i].seq < f.seq

\* Every frame that was matched to a subscriber reaches it, is on the way, went
\* down with a connection, or is in the drop statistics: the holes subscribers
\* see are the drops the server counts.
DropsAccounted ==
    \A t \in Topics :
       LET under == IF data.pc = "cast" /\ data.frame.topic = t
                    THEN data.drops + Len(data.targets) ELSE 0
       IN owed[t] = under + SumFunction([s \in Subscribers |-> Numbered(s, t)])

\* Only a peer that does not read what is sent to it with a waiting send, a
\* confirmation or a producer's frame, keeps the data thread from receiving.
\* The subscribers of a broadcast do not, however slow they are.
Stalled ==
    \/ data.pc = "ack" /\ Len(acks[data.frame.from]) >= AckHWM
    \/ data.pc = "direct" /\ Len(out[Target]) >= OutHWM

KeepsReceiving == inbox # <<>> ~> (inbox = <<>> \/ Stalled)
=============================================================================
