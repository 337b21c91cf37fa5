----------------------------- MODULE Buffering -----------------------------
(***************************************************************************)
(* One subscriber of the data plane: its buffer and credit window          *)
(* (buffering.py), the data-plane thread that fills and drains the buffer  *)
(* (transport/router.py), and the control thread that registers it, opens  *)
(* credit windows and clears it (server.py).                               *)
(*                                                                         *)
(* Only the data thread touches the frames of a buffer.  The dictionaries  *)
(* _buffers, _credits and _credit_windows are changed by the control       *)
(* thread and read by the data thread without the lock, so each read of    *)
(* one is a step.  Frames are numbered in the order they are routed to the *)
(* subscriber; of the clock only which entries have become older than      *)
(* max_age_s is kept: all up to number old.                                *)
(***************************************************************************)
EXTENDS Integers, Sequences, FiniteSets, SequencesExt

CONSTANTS
    Topics,
    Size,         \* Size[t]: bytes of a frame of topic t
    Policies,     \* buffer policies the subscriber may ask for
    MaxMessages,  \* max_messages of the buffer
    MaxBytes,     \* max_bytes of the buffer; 0: no limit
    DrainBudget,  \* _DRAIN_BUDGET
    Credits,      \* credits that heartbeats report
    Pipe,         \* frames the connection takes before a send gets EAGAIN
    MaxFrames     \* bounds on the frames routed of each topic (TLC only)

ASSUME ConstantsAssumption ==
    /\ Size \in [Topics -> Nat \ {0}]
    /\ Policies \subseteq {"drop_old", "conflate"}
    /\ MaxMessages \in Nat \ {0} /\ DrainBudget \in Nat \ {0}
    /\ Credits \subseteq Nat
    /\ MaxBytes \in Nat /\ Pipe \in Nat /\ MaxFrames \in [Topics -> Nat]

VARIABLES
    slot,       \* slot[i]: the SubscriberBuffer objects, in use or left behind
    current,    \* the one that stands in _buffers, 0: none
    credit,     \* the entry in _credits, -1: none
    window,     \* the entry in _credit_windows, or NoWindow
    data,       \* pc and locals of the data thread
    control,    \* pc and locals of the control thread
    pipe,       \* number of frames sent that the consumer has not received
    old,        \* frames up to this number are older than max_age_s
    topicOf,    \* history: topic of every frame
    sent,       \* history: frames handed to the connection, in order
    count,      \* history: frames evicted, expired, conflated, refused, lost
    spent,      \* history: frames sent since the window was opened
    overhang    \* history: what a drain under way could still send at that time

vars == <<slot, current, credit, window, data, control, pipe, old,
          topicOf, sent, count, spent, overhang>>

-----------------------------------------------------------------------------
(* The frames of a buffer, first to be sent first: in order of arrival for *)
(* drop_old, in the order of the dict _latest for conflate.                *)

Frames(q) == {q[i] : i \in 1 .. Len(q)}

Bytes(topics, S) == SumFunctionOnSet([n \in DOMAIN topics |-> Size[topics[n]]], S)

\* MUTANT: only the limit on messages is kept.
DropOldCounted(q, n, topics) ==
    Append(IF Len(q) >= MaxMessages THEN Tail(q) ELSE q, n)

\* The oldest frame gives way to the new one, then the oldest ones until the
\* limit on bytes is met, be it the new one itself.
DropOld(q, n, topics) ==
    LET full == Append(IF Len(q) >= MaxMessages THEN Tail(q) ELSE q, n)
        Fits(i) == MaxBytes = 0 \/ Bytes(topics, Frames(SubSeq(full, i, Len(full)))) <= MaxBytes
    IN SubSeq(full, Min({i \in 1 .. Len(full) + 1 : Fits(i)}), Len(full))

\* MUTANT: the frame that waits keeps its place.
LatestKept(q, n, topics) ==
    IF \E i \in 1 .. Len(q) : topics[q[i]] = topics[n] THEN q ELSE Append(q, n)

\* The new frame takes the place of the one of its topic, or the last place.
Latest(q, n, topics) ==
    LET same == {i \in 1 .. Len(q) : topics[q[i]] = topics[n]}
    IN IF same = {} THEN Append(q, n)
       ELSE [i \in 1 .. Len(q) |-> IF i \in same THEN n ELSE q[i]]

\* What is left of q, in its order, when the frames before number first go.
Since(first, q) == FoldLeft(LAMBDA r, m : IF m >= first THEN Append(r, m) ELSE r, <<>>, q)

\* The oldest frames give way to the new one, which stays.
Conflate(q, n, topics) ==
    LET full == Latest(q, n, topics)
        Fits(k) == \/ MaxBytes = 0 \/ k = n
                   \/ Bytes(topics, {m \in Frames(full) : m >= k}) <= MaxBytes
    IN Since(Min({k \in Frames(full) : Fits(k)}), full)

Enqueued(b, n, topics) ==
    [b EXCEPT !.q = IF b.policy = "drop_old" THEN DropOld(@, n, topics)
                    ELSE Conflate(@, n, topics)]

-----------------------------------------------------------------------------
NoWindow == [credit |-> -1, spent |-> 0]
Empty(policy) == [policy |-> policy, q |-> <<>>]
Unused == Empty("drop_old")

\* win tells what became of the window the drain counts in: there was none, it
\* is still the one in _credit_windows, or it has been replaced.
Idle == [pc |-> "idle", slot |-> 0, credit |-> -1, budget |-> -1, sent |-> 0,
         now |-> 0, win |-> "none"]

Init ==
    /\ slot = [i \in 1 .. 2 |-> Unused]
    /\ current = 0
    /\ credit = -1
    /\ window = NoWindow
    /\ data = Idle
    /\ control = [pc |-> "idle", credit |-> 0]
    /\ pipe = 0
    /\ old = 0
    /\ topicOf = <<>>
    /\ sent = <<>>
    /\ count = [evicted |-> {}, expired |-> {}, conflated |-> {}, refused |-> {}, lost |-> {}]
    /\ spent = 0
    /\ overhang = 0

Transmit(n) ==
    /\ pipe' = pipe + 1
    /\ sent' = Append(sent, n)

-----------------------------------------------------------------------------
(* The data thread: broadcast() *)

\* MUTANT: a subscriber whose credit is not known is served directly.
BufferedIfNeeded == current # 0 /\ credit >= 0

Buffered == current # 0

\* The bound on the frames of topic t is not reached.
Offered(t) == Cardinality({n \in DOMAIN topicOf : topicOf[n] = t}) < MaxFrames[t]

\* A frame of topic t is routed to the subscriber, which has a buffer.
ToBuffer(t) ==
    /\ data.pc = "idle"
    /\ Offered(t)
    /\ Buffered
    /\ topicOf' = Append(topicOf, t)
    /\ data' = [data EXCEPT !.pc = "enqueue"]
    /\ UNCHANGED <<slot, current, credit, window, control, pipe, old, sent,
                   count, spent, overhang>>

\* enqueue() looks the buffer up again.
Enqueue ==
    /\ data.pc = "enqueue"
    /\ LET n == Len(topicOf)
           before == Frames(slot[current].q)
           buffer == Enqueued(slot[current], n, topicOf)
           gone == (before \cup {n}) \ Frames(buffer.q)
           same == {m \in gone \ {n} : buffer.policy = "conflate" /\ topicOf[m] = topicOf[n]}
       IN IF current = 0
          THEN /\ count' = [count EXCEPT !.lost = @ \cup {n}]
               /\ UNCHANGED slot
          ELSE /\ slot' = [slot EXCEPT ![current] = buffer]
               /\ count' = [count EXCEPT !.conflated = @ \cup same,
                                         !.evicted = @ \cup (gone \ same)]
    /\ data' = Idle
    /\ UNCHANGED <<current, credit, window, control, pipe, old, topicOf, sent,
                   spent, overhang>>

\* No buffer: sent at once, or dropped and counted.
Direct(t) ==
    /\ data.pc = "idle"
    /\ Offered(t)
    /\ ~Buffered
    /\ topicOf' = Append(topicOf, t)
    /\ IF credit = 0 \/ pipe = Pipe
       THEN /\ count' = [count EXCEPT !.refused = @ \cup {Len(topicOf')}]
            /\ UNCHANGED <<pipe, sent>>
       ELSE Transmit(Len(topicOf')) /\ UNCHANGED count
    /\ UNCHANGED <<slot, current, credit, window, data, control, old, spent,
                   overhang>>

-----------------------------------------------------------------------------
(* The data thread: drain_all() *)

\* The data thread lets go of its buffer; one that no longer stands in
\* _buffers is garbage, with the frames in it.
LetGo ==
    LET q == slot[data.slot].q
    IN IF data.slot = current THEN UNCHANGED <<slot, count>>
       ELSE /\ slot' = [slot EXCEPT ![data.slot] = Unused]
            /\ count' = [count EXCEPT !.lost = @ \cup Frames(q)]

Pick ==
    /\ data.pc = "idle"
    /\ current # 0
    /\ slot[current].q # <<>>
    /\ data' = [data EXCEPT !.pc = "credit", !.slot = current]
    /\ UNCHANGED <<slot, current, credit, window, control, pipe, old, topicOf,
                   sent, count, spent, overhang>>

ReadCredit ==
    /\ data.pc = "credit"
    /\ data' = [data EXCEPT !.pc = "window", !.credit = credit]
    /\ UNCHANGED <<slot, current, credit, window, control, pipe, old, topicOf,
                   sent, count, spent, overhang>>

Metered == data.credit >= 0 \/ window # NoWindow

Starved == Metered /\ window.credit - window.spent <= 0

ReadWindow ==
    /\ data.pc = "window"
    /\ IF Starved
       THEN LetGo /\ data' = Idle
       ELSE /\ data' = [data EXCEPT
                          !.pc = "drain", !.now = old, !.credit = -1,
                          !.budget = IF Metered THEN window.credit - window.spent ELSE -1,
                          !.win = IF Metered THEN "same" ELSE "none"]
            /\ UNCHANGED <<slot, count>>
    /\ UNCHANGED <<current, credit, window, control, pipe, old, topicOf, sent,
                   spent, overhang>>

Draining == data.pc = "drain" /\ slot[data.slot].q # <<>> /\ data.sent < DrainBudget

Oldest == Head(slot[data.slot].q)

Sendable == Oldest > data.now /\ data.budget # 0 /\ pipe < Pipe

Expire ==
    /\ Draining
    /\ Oldest <= data.now
    /\ slot' = [slot EXCEPT ![data.slot].q = Tail(@)]
    /\ count' = [count EXCEPT !.expired = @ \cup {Oldest}]
    /\ UNCHANGED <<current, credit, window, data, control, pipe, old, topicOf,
                   sent, spent, overhang>>

\* MUTANT: the frame is taken out before the send is tried.
PopsFirst == Draining /\ Oldest > data.now /\ data.budget # 0

Transmits == Draining /\ Sendable

SendOldest ==
    /\ Transmits
    /\ IF pipe < Pipe THEN Transmit(Oldest) ELSE UNCHANGED <<pipe, sent>>
    /\ slot' = [slot EXCEPT ![data.slot].q = Tail(@)]
    /\ data' = [data EXCEPT !.sent = @ + 1, !.budget = IF @ > 0 THEN @ - 1 ELSE @]
    /\ spent' = IF window = NoWindow THEN 0 ELSE spent + 1
    /\ UNCHANGED <<current, credit, window, control, old, topicOf, count,
                   overhang>>

\* The loop ends; what was sent is added to the window read above.
Settle ==
    /\ data.pc = "drain"
    /\ Draining => (Oldest > data.now /\ ~Sendable)
    /\ window' = IF data.win = "same" THEN [window EXCEPT !.spent = @ + data.sent] ELSE window
    /\ LetGo
    /\ data' = Idle
    /\ UNCHANGED <<current, credit, control, pipe, old, topicOf, sent, spent,
                   overhang>>

-----------------------------------------------------------------------------
(* The control thread *)

\* set_policy() in the handler of REGISTER; see OwnersAccounted of ControlPlane
\* for why there is no buffer at that time.
Register(policy) ==
    /\ control.pc = "idle"
    /\ current = 0
    /\ LET free == IF data.slot = 1 THEN 2 ELSE 1
       IN current' = free /\ slot' = [slot EXCEPT ![free] = Empty(policy)]
    /\ UNCHANGED <<credit, window, data, control, pipe, old, topicOf, sent,
                   count, spent, overhang>>

\* HEARTBEAT with credit c: _credits[ident] = credit ...
Heartbeat(c) ==
    /\ control.pc = "idle"
    /\ credit' = c
    /\ control' = [pc |-> "open", credit |-> c]
    /\ UNCHANGED <<slot, current, window, data, pipe, old, topicOf, sent, count,
                   spent, overhang>>

\* MUTANT: the window keeps what was spent.
Topped(c) == [credit |-> c, spent |-> IF window = NoWindow THEN 0 ELSE window.spent]

\* MUTANT: unspent credit is carried over.
Saved(c) == [credit |-> c + (IF window = NoWindow THEN 0 ELSE window.credit - window.spent),
             spent |-> 0]

NewWindow(c) == [credit |-> c, spent |-> 0]

\* ... and set_credit(): a new list takes the place of the window.
OpenWindow ==
    /\ control.pc = "open"
    /\ window' = NewWindow(control.credit)
    /\ spent' = 0
    /\ overhang' = IF data.pc # "drain" THEN 0
                   ELSE LET rest == DrainBudget - data.sent
                        IN IF data.budget \in 0 .. rest THEN data.budget ELSE rest
    /\ data' = [data EXCEPT !.win = IF @ = "same" THEN "gone" ELSE @]
    /\ control' = [pc |-> "idle", credit |-> 0]
    /\ UNCHANGED <<slot, current, credit, pipe, old, topicOf, sent, count>>

\* DISCONNECT and the sweep: the credit goes ...
Forget ==
    /\ control.pc = "idle"
    /\ current # 0
    /\ credit' = -1
    /\ control' = [control EXCEPT !.pc = "clear"]
    /\ UNCHANGED <<slot, current, window, data, pipe, old, topicOf, sent, count,
                   spent, overhang>>

\* ... and clear(): buffer and window.
Clear ==
    /\ control.pc = "clear"
    /\ current' = 0
    /\ window' = NoWindow
    /\ spent' = 0
    /\ overhang' = 0
    /\ IF data.slot = current THEN UNCHANGED <<slot, count>>
       ELSE /\ slot' = [slot EXCEPT ![current] = Unused]
            /\ count' = [count EXCEPT !.lost = @ \cup Frames(slot[current].q)]
    /\ data' = [data EXCEPT !.win = IF @ = "same" THEN "gone" ELSE @]
    /\ control' = [control EXCEPT !.pc = "idle"]
    /\ UNCHANGED <<credit, pipe, old, topicOf, sent>>

-----------------------------------------------------------------------------
(* The connection, and time                                                *)

Receive ==
    /\ pipe > 0
    /\ pipe' = pipe - 1
    /\ UNCHANGED <<slot, current, credit, window, data, control, old, topicOf,
                   sent, count, spent, overhang>>

Age ==
    /\ old < Len(topicOf)
    /\ old' = old + 1
    /\ UNCHANGED <<slot, current, credit, window, data, control, pipe, topicOf,
                   sent, count, spent, overhang>>

-----------------------------------------------------------------------------
Broadcast == \E t \in Topics : ToBuffer(t) \/ Direct(t)

Drain == Pick \/ ReadCredit \/ ReadWindow \/ Expire \/ SendOldest \/ Settle

Control ==
    \/ \E p \in Policies : Register(p)
    \/ \E c \in Credits : Heartbeat(c)
    \/ OpenWindow \/ Forget \/ Clear

Next == Broadcast \/ Enqueue \/ Drain \/ Control \/ Receive \/ Age

\* The data thread drains after every poll, handlers run to their end, the
\* consumer receives, and its heartbeats, which never report 0 (free_credit),
\* arrive again and again between whatever else the control loop handles.
Fairness ==
    /\ WF_vars(Enqueue) /\ WF_vars(Drain)
    /\ WF_vars(OpenWindow) /\ WF_vars(Clear)
    /\ WF_vars(Receive)
    /\ SF_vars(\E c \in Credits : c > 0 /\ Heartbeat(c))

Spec == Init /\ [][Next]_vars /\ Fairness

-----------------------------------------------------------------------------
(* Properties *)

Numbers == 1 .. Len(topicOf)

\* The values the variables range over; a buffer never exceeds its limits.
TypeOK ==
    /\ slot \in [1 .. 2 -> [policy : {"drop_old", "conflate"}, q : Seq(Numbers)]]
    /\ \A i \in 1 .. 2 :
         LET q == slot[i].q
         IN /\ slot[i].policy = "drop_old" => Len(q) <= MaxMessages
            /\ \/ MaxBytes = 0
               \/ Bytes(topicOf, Frames(q)) <= MaxBytes
               \/ slot[i].policy = "conflate" /\ Len(q) = 1
    /\ current \in 0 .. 2
    /\ credit \in {-1} \cup Nat
    /\ window \in {NoWindow} \cup [credit : Nat, spent : Nat]
    /\ data \in [pc : {"idle", "enqueue", "credit", "window", "drain"}, slot : 0 .. 2,
                 credit : {-1} \cup Nat, budget : {-1} \cup Nat, sent : 0 .. DrainBudget,
                 now : Nat, win : {"none", "same", "gone"}]
    /\ control \in [pc : {"idle", "open", "clear"}, credit : Nat]
    /\ pipe \in 0 .. Pipe /\ old \in 0 .. Len(topicOf)
    /\ topicOf \in Seq(Topics) /\ sent \in Seq(Numbers)
    /\ count \in [{"evicted", "expired", "conflated", "refused", "lost"} -> SUBSET Numbers]
    /\ spent \in Nat /\ overhang \in 0 .. DrainBudget

\* The places a frame can be in: the hands of the data thread, the buffers, the
\* connection, and the ways to be dropped.
Places ==
    << IF data.pc = "enqueue" THEN {Len(topicOf)} ELSE {},
       Frames(slot[1].q), Frames(slot[2].q), Frames(sent), count.evicted,
       count.expired, count.conflated, count.refused, count.lost >>

\* Every frame routed to the subscriber is at every moment in exactly one
\* place, and only a buffer that is cleared loses frames uncounted.
Accounted ==
    \A n \in Numbers : Cardinality({i \in DOMAIN Places : n \in Places[i]}) = 1

\* The frames of one topic are sent in the order they were routed and at most
\* once each, whether directly or from a buffer, and under drop_old and conflate.
SentInOrder ==
    \A i, j \in 1 .. Len(sent) :
        i < j /\ topicOf[sent[i]] = topicOf[sent[j]] => sent[i] < sent[j]

\* "淘汰最旧": a frame gives way only to newer ones.  The buffer in use never
\* holds a frame older than one of the same topic that was evicted from it or
\* conflated in it.
OldestGivesWay ==
    current # 0 =>
        \A n \in Frames(slot[current].q) :
            \A m \in count.evicted \cup count.conflated :
                topicOf[m] = topicOf[n] => m < n

\* "窗口内做总量守恒" (buffering.py): after a heartbeat no more is drained than
\* the credit it reported and what a drain that was under way when the window
\* was opened could still send, whatever the windows before have left over.
WindowKept ==
    window # NoWindow /\ control.pc = "idle" => spent <= credit + overhang

\* A backlog does not stay for ever: when nothing more is routed (MaxFrames)
\* and the consumer receives and sends heartbeats, the buffer becomes empty, or
\* goes; no window, exhausted or replaced in mid-drain, starves it.
Drains == []<>(current = 0 \/ slot[current].q = <<>>)

-----------------------------------------------------------------------------
(* What the repository says and the code does not do *)

\* "本窗口内数据面累计发送 ≤ credit ... 杜绝旧快照复用导致的额度双花" (set_credit):
\* after a heartbeat no more frames are drained than its credit.
CreditSpentOnce == window # NoWindow => spent <= window.credit
=============================================================================
