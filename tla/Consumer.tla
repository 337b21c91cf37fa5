------------------------------ MODULE Consumer ------------------------------
(***************************************************************************)
(* The receiving side of a consumer: the receive loop with its gap         *)
(* tracking, the heartbeats that report it, the calls of the application   *)
(* (client.py), and the pool of worker processes behind their rings        *)
(* (worker_pool.py).                                                       *)
(*                                                                         *)
(* The event loop runs the main process: between two awaits nothing else   *)
(* of it runs, so receiving one frame is a step, and so is a heartbeat.    *)
(* The workers run beside it; they are reached through three things only:  *)
(* their ring (a queue of whole frames, see ShmRing), their queue of       *)
(* subscription changes, which a feeder thread fills in its own time, and  *)
(* the stop event.  Frames carry the server's sequence number of their     *)
(* topic; a frame the server or the network loses leaves a hole in it.     *)
(* A message in flight changes nothing until it is received: a frame is    *)
(* received when it is sent or never, a request takes effect when it is    *)
(* sent or never, so that frames may still come for what was unsubscribed. *)
(***************************************************************************)
EXTENDS Integers, Sequences, FiniteSets, FiniteSetsExt, SequencesExt

CONSTANTS
    Topics,
    Keys,       \* values of the key field; NoKey: it cannot be extracted
    NoKey,
    Modes,      \* routing modes: "none", "topic", "field"
    N,          \* workers
    WorkerOf,   \* stable_worker_index() of topics and keys
    RingCap,    \* frames that fit into a ring
    BatchMax,   \* frames that read_batch() returns at most
    ExitPolls,  \* empty polls after which a stopped worker exits
    Initial,    \* patterns subscribed before start()
    MaxFrames,  \* bounds, for TLC only: on the frames sent
    MaxOps,     \* on calls of subscribe() and unsubscribe()
    MaxFaults   \* on crashes and broken connections

Workers == 0 .. N - 1

ASSUME ConstantsAssumption ==
    /\ N \in Nat \ {0} /\ RingCap \in Nat \ {0}
    /\ BatchMax \in Nat \ {0} /\ ExitPolls \in Nat \ {0}
    /\ Modes \subseteq {"none", "topic", "field"}
    /\ IsFiniteSet(Topics) /\ NoKey \notin Keys /\ Initial \subseteq Topics
    /\ WorkerOf \in [Topics \cup Keys -> Workers]
    /\ MaxFrames \in Nat /\ MaxOps \in Nat /\ MaxFaults \in Nat

VARIABLES
    mode,      \* key_mode of the pool
    phase,     \* of the client: "connected", "broken", "stopping", "stopped"
    subs,      \* _subscriptions
    pool,      \* _pool is not None
    gap,       \* gap[t]: _gap_last, _gap_missing, _gap_reported
    unsent,    \* _route_drops
    rr,        \* _rr modulo N
    ring,      \* ring[w]: frames in the ring of worker w
    subq,      \* subq[w]: its queue of subscription changes
    worker,    \* worker[w]: pc and locals of _worker_main
    statsq,    \* processed frames reported in the statistics queue
    server,    \* sequence numbers and routed topics of the server
    ops, faults,
    routed,    \* history: frames received and not refused, per topic
    refused,   \* history: frames refused by a ring, per topic
    first,     \* history: first sequence number received, per topic
    removals,  \* history: unsubscribe() calls, per topic
    handled,   \* history: frames that reached a callback
    told       \* history: totals that went into heartbeats or died with a process

client == <<mode, phase, subs, pool, gap, unsent, rr, ops>>
processes == <<ring, subq, worker, statsq>>
outside == <<server, faults>>
history == <<routed, refused, first, removals, handled, told>>
vars == <<client, processes, outside, history>>

-----------------------------------------------------------------------------
Kinds == {"gaps", "drops", "proc"}
Nothing == [k \in Kinds |-> 0]
Plus(a, b) == [k \in Kinds |-> a[k] + b[k]]

Total(f) == SumFunction(f)

NoSeq == -1

Fresh(table) == [state |-> "running", table |-> table, batch |-> <<>>, empty |-> 0, stats |-> 0]

Init ==
    /\ mode \in Modes
    /\ phase = "connected"
    /\ subs = Initial /\ pool = (Initial # {})
    /\ gap = [t \in Topics |-> [last |-> NoSeq, missing |-> 0, reported |-> 0]]
    /\ unsent = 0 /\ rr = 0
    /\ ring = [w \in Workers |-> <<>>]
    /\ subq = [w \in Workers |-> <<>>]
    /\ worker = [w \in Workers |-> Fresh(Initial)]
    /\ statsq = 0
    /\ server = [seq |-> [t \in Topics |-> 0], routes |-> Initial, sent |-> [t \in Topics |-> 0]]
    /\ ops = 0 /\ faults = 0
    /\ routed = [t \in Topics |-> 0]
    /\ refused = [t \in Topics |-> 0]
    /\ first = [t \in Topics |-> NoSeq]
    /\ removals = [t \in Topics |-> 0]
    /\ handled = {}
    /\ told = Nothing

-----------------------------------------------------------------------------
(* The server, as far as a consumer sees it *)

\* MUTANT: stop() sets the stop event before the receive loop is cancelled.
ListeningStill == phase \in {"connected", "stopping"}

\* The receive loop runs.
Listening == phase = "connected"

Sent(t) ==
    /\ Listening \/ phase = "broken"
    /\ Total(server.sent) < MaxFrames
    /\ server' = [server EXCEPT !.seq[t] = @ + 1, !.sent[t] = @ + 1]

\* Not routed to this consumer, evicted, expired, refused by a full connection,
\* or lost with a broken one.
FrameLost(t) ==
    /\ Sent(t)
    /\ UNCHANGED <<client, processes, faults, history>>

\* Sequence numbers and routes are not kept over a restart.
ServerRestarts ==
    /\ phase = "broken"
    /\ server' = [server EXCEPT !.seq = [t \in Topics |-> 0], !.routes = {}]
    /\ UNCHANGED <<client, processes, faults, history>>

-----------------------------------------------------------------------------
(* route() *)

Shortest == Min({Len(ring[w]) : w \in Workers})

\* The first of the shortest rings, counted from the round-robin position.
LeastLoaded ==
    LET from(k) == (rr + k) % N
        k == Min({j \in 0 .. N - 1 : Len(ring[from(j)]) = Shortest})
    IN from(k)

\* What is hashed: the topic, the key, the topic again if there is no key.
RouteKey(f) == IF mode = "field" /\ f.key # NoKey THEN f.key ELSE f.topic

\* MUTANT: keyed frames go to the least loaded worker, too.
AnyTarget(f) == LeastLoaded

Target(f) == IF mode = "none" THEN LeastLoaded ELSE WorkerOf[RouteKey(f)]

\* MUTANT: the capacity is not looked at.
RoomAlways(w) == Len(ring[w]) <= RingCap

RoomIn(w) == Len(ring[w]) < RingCap

\* A worker will match the frame: the pattern is in its table, no change of it
\* is on the way.
Settled(w, t) ==
    /\ t \in worker[w].table
    /\ \A i \in 1 .. Len(subq[w]) : subq[w][i].topic # t

Accepted(f, w) ==
    [topic |-> f.topic, key |-> f.key, id |-> Total(routed) + 1,
     settled |-> Settled(w, f.topic), removals |-> removals[f.topic]]

-----------------------------------------------------------------------------
(* _process_batch(), frame by frame *)

\* MUTANT: the baseline stays where it is when the ring refuses the frame.
TrackedOnce(g, seq, ok) ==
    [g EXCEPT !.missing = IF g.last # NoSeq /\ seq > g.last + 1 THEN @ + seq - g.last - 1 ELSE @,
              !.last = IF @ = NoSeq \/ seq > @ THEN seq ELSE @]

\* A jump of the sequence number is a gap.  A refused frame moves the baseline
\* back, so that the next one counts it as missing.
Tracked(g, seq, ok) ==
    LET last == IF g.last = NoSeq \/ seq > g.last THEN seq ELSE g.last
        jump == IF g.last # NoSeq /\ seq > g.last + 1 THEN seq - g.last - 1 ELSE 0
    IN [g EXCEPT !.missing = @ + jump,
                 !.last = IF ~ok /\ last = seq THEN seq - 1 ELSE last]

Receive(t, k) ==
    /\ Sent(t)
    /\ Listening /\ t \in server.routes
    /\ k # NoKey => mode = "field"
    /\ LET f == [topic |-> t, key |-> k, seq |-> server.seq[t] + 1]
           w == Target(f)
           ok == pool => RoomIn(w)
           into == pool /\ ok
       IN /\ gap' = [gap EXCEPT ![t] = Tracked(@, f.seq, ok)]
          /\ rr' = IF pool /\ mode = "none" THEN (rr + 1) % N ELSE rr
          /\ ring' = IF into THEN [ring EXCEPT ![w] = Append(@, Accepted(f, w))] ELSE ring
          /\ unsent' = IF ok THEN unsent ELSE unsent + 1
          /\ routed' = IF ok THEN [routed EXCEPT ![t] = @ + 1] ELSE routed
          /\ refused' = IF ok THEN refused ELSE [refused EXCEPT ![t] = @ + 1]
          /\ first' = [first EXCEPT ![t] = IF @ = NoSeq THEN f.seq ELSE @]
    /\ UNCHANGED <<mode, phase, subs, pool, ops, subq, worker, statsq, faults, removals,
                   handled, told>>

-----------------------------------------------------------------------------
(* _heartbeat_loop() *)

\* MUTANT: _gap_reported keeps its value.
Unmarked(g) == g

Marked(g) == [t \in Topics |-> [g[t] EXCEPT !.reported = g[t].missing]]

NewGaps == Total([t \in Topics |-> gap[t].missing - gap[t].reported])

\* The counts are taken before the send is awaited: when it fails they are
\* gone.  Statistics that a worker has put into the queue may not be visible
\* yet.  A heartbeat that reports nothing changes nothing here.
Heartbeat ==
    /\ phase = "connected"
    /\ \E stats \in IF pool THEN {0, statsq} ELSE {0} :
         LET delta == [gaps |-> NewGaps, drops |-> unsent, proc |-> stats]
         IN /\ delta # Nothing
            /\ statsq' = statsq - stats
            /\ told' = Plus(told, delta)
    /\ gap' = Marked(gap)
    /\ unsent' = 0
    /\ UNCHANGED <<mode, phase, subs, pool, rr, ops, ring, subq, worker, server, faults,
                   routed, refused, first, removals, handled>>

-----------------------------------------------------------------------------
(* subscribe(), unsubscribe(), and the connection under them *)

Call(t) ==
    /\ phase \in {"connected", "broken"}
    /\ ops < MaxOps
    /\ ops' = ops + 1

Tell(op, t) == [w \in Workers |-> Append(subq[w], [op |-> op, topic |-> t])]

\* The routes after a request; it may fail, which is logged and no more.
Ask(routes) == server' \in {server} \cup
    (IF phase = "connected" THEN {[server EXCEPT !.routes = routes]} ELSE {})

\* The pool is made with the first subscription; later ones go to the workers'
\* queues, and the server is told last.  Without a connection the pattern is
\* only noted.
Subscribe(t) ==
    /\ Call(t)
    /\ subs' = subs \cup {t}
    /\ pool' = (pool \/ phase = "connected")
    /\ IF pool
       THEN /\ subq' = IF phase = "connected" THEN Tell("add", t) ELSE subq
            /\ worker' = worker
       ELSE /\ worker' = IF phase = "connected"
                         THEN [w \in Workers |-> Fresh(subs')] ELSE worker
            /\ subq' = subq
    /\ Ask(server.routes \cup {t})
    /\ UNCHANGED <<mode, phase, gap, unsent, rr, ring, statsq, faults, history>>

Unsubscribe(t) ==
    /\ Call(t)
    /\ t \in subs
    /\ subs' = subs \ {t}
    /\ removals' = [removals EXCEPT ![t] = @ + 1]
    /\ subq' = IF pool THEN Tell("remove", t) ELSE subq
    /\ Ask(server.routes \ {t})
    /\ UNCHANGED <<mode, phase, pool, gap, unsent, rr, ring, worker, statsq, faults, routed,
                   refused, first, handled, told>>

Break ==
    /\ phase = "connected" /\ faults < MaxFaults
    /\ faults' = faults + 1
    /\ phase' = "broken"
    /\ UNCHANGED <<mode, subs, pool, gap, unsent, rr, ops, processes, server, history>>

\* The new connection sends every subscription again; the pool is kept as it is.
Restore ==
    /\ phase = "broken"
    /\ phase' = "connected"
    /\ server' = [server EXCEPT !.routes = @ \cup subs]
    /\ UNCHANGED <<mode, subs, pool, gap, unsent, rr, ops, processes, faults, history>>

Running(w) == pool /\ worker[w].state = "running"

Killed(w, how) == [worker[w] EXCEPT !.state = how, !.batch = <<>>, !.stats = 0]

-----------------------------------------------------------------------------
(* stop() *)

\* The receive loop and the heartbeats are cancelled before the stop event is
\* set.
Stop ==
    /\ phase \in {"connected", "broken"}
    /\ phase' = "stopping"
    /\ UNCHANGED <<mode, subs, pool, gap, unsent, rr, ops, processes, outside, history>>

\* The workers have exited or timeout seconds are over: those still running are
\* terminated.  The rings are unlinked, DISCONNECT is sent, the transport closed.
Close ==
    /\ phase = "stopping"
    /\ phase' = "stopped"
    /\ pool' = FALSE
    /\ worker' = [w \in Workers |-> IF Running(w) THEN Killed(w, "terminated") ELSE worker[w]]
    /\ told' = [told EXCEPT !["proc"] = @ + Total([w \in Workers |-> worker[w].stats])]
    /\ ring' = [w \in Workers |-> <<>>]
    /\ UNCHANGED <<mode, subs, gap, unsent, rr, ops, subq, statsq, outside, routed, refused,
                   first, removals, handled>>

-----------------------------------------------------------------------------
(* _worker_main() *)

Moves(w, local) == worker' = [worker EXCEPT ![w] = local]

\* MUTANT: an added pattern replaces the table.
ChangedAnew(table, m) == IF m.op = "add" THEN {m.topic} ELSE table \ {m.topic}

Changed(table, m) == IF m.op = "add" THEN table \cup {m.topic} ELSE table \ {m.topic}

\* _drain_subs(): what the feeder thread has written so far, into the table;
\* the rest of the step is local.
DrainSubs(w, local) ==
    \E n \in 0 .. Len(subq[w]) :
       /\ Moves(w, [local EXCEPT !.table = FoldLeft(Changed, @, SubSeq(subq[w], 1, n))])
       /\ subq' = [subq EXCEPT ![w] = SubSeq(@, n + 1, Len(@))]

Leave(w) == phase = "stopping" /\ ring[w] = <<>>

\* One turn of the loop, with frames.
ReadRing(w) ==
    /\ Running(w) /\ worker[w].batch = <<>>
    /\ ring[w] # <<>>
    /\ LET n == Min({BatchMax, Len(ring[w])})
       IN /\ DrainSubs(w, [worker[w] EXCEPT !.empty = 0, !.batch = SubSeq(ring[w], 1, n)])
          /\ ring' = [ring EXCEPT ![w] = SubSeq(@, n + 1, Len(@))]
    /\ UNCHANGED <<client, statsq, outside, history>>

\* One turn without.
Poll(w) ==
    /\ Running(w) /\ worker[w].batch = <<>>
    /\ ring[w] = <<>>
    /\ Leave(w) => worker[w].empty + 1 < ExitPolls
    /\ DrainSubs(w, [worker[w] EXCEPT !.empty = IF Leave(w) THEN @ + 1 ELSE @])
    /\ UNCHANGED <<client, ring, statsq, outside, history>>

\* The loop is left, the statistics are flushed a last time.
Exit(w) ==
    /\ Running(w) /\ worker[w].batch = <<>>
    /\ Leave(w) /\ worker[w].empty + 1 >= ExitPolls
    /\ DrainSubs(w, [worker[w] EXCEPT !.state = "exited", !.stats = 0])
    /\ statsq' = statsq + worker[w].stats
    /\ UNCHANGED <<client, ring, outside, history>>

\* The first frame of the batch: to the callbacks, or nowhere when no pattern
\* of the table matches it.
HandleFrame(w) ==
    /\ Running(w) /\ worker[w].batch # <<>>
    /\ LET f == Head(worker[w].batch)
           matched == f.topic \in worker[w].table
       IN /\ Moves(w, [worker[w] EXCEPT !.batch = Tail(@),
                                        !.stats = IF matched THEN @ + 1 ELSE @])
          /\ handled' = IF matched THEN handled \cup {f.id} ELSE handled
    /\ UNCHANGED <<client, ring, subq, statsq, outside, routed, refused, first, removals,
                   told>>

\* _flush_stats(), once a second.
FlushStats(w) ==
    /\ Running(w) /\ worker[w].batch = <<>> /\ worker[w].stats > 0
    /\ Moves(w, [worker[w] EXCEPT !.stats = 0])
    /\ statsq' = statsq + worker[w].stats
    /\ UNCHANGED <<client, ring, subq, outside, history>>

\* The process dies; nobody notices.
Crash(w) ==
    /\ Running(w) /\ phase # "stopping" /\ faults < MaxFaults
    /\ faults' = faults + 1
    /\ Moves(w, Killed(w, "crashed"))
    /\ told' = [told EXCEPT !["proc"] = @ + worker[w].stats]
    /\ UNCHANGED <<client, ring, subq, statsq, server, routed, refused, first,
                   removals, handled>>

-----------------------------------------------------------------------------
WorkerStep(w) ==
    ReadRing(w) \/ Poll(w) \/ Exit(w) \/ HandleFrame(w) \/ FlushStats(w)

Next ==
    \/ \E t \in Topics, k \in Keys \cup {NoKey} : Receive(t, k)
    \/ \E t \in Topics : FrameLost(t) \/ Subscribe(t) \/ Unsubscribe(t)
    \/ ServerRestarts \/ Heartbeat
    \/ Break \/ Restore \/ Stop \/ Close
    \/ \E w \in Workers : WorkerStep(w) \/ Crash(w)

Spec == Init /\ [][Next]_vars

-----------------------------------------------------------------------------
(* Properties *)

\* The values the variables range over.
TypeOK ==
    /\ phase \in {"connected", "broken", "stopping", "stopped"}
    /\ subs \subseteq Topics /\ server.routes \subseteq Topics
    /\ rr \in Workers
    /\ \A t \in Topics : gap[t].last \in NoSeq .. MaxFrames /\ gap[t].reported \in 0 .. gap[t].missing
    /\ \A w \in Workers :
         /\ Len(ring[w]) <= RingCap
         /\ Len(worker[w].batch) <= BatchMax
         /\ worker[w].table \subseteq Topics
         /\ worker[w].empty \in 0 .. ExitPolls
    /\ unsent \in Nat /\ statsq \in Nat /\ told \in [Kinds -> Nat]

\* Routing by topic or key keeps the order of each topic or key, in spite of
\* several workers, batches, fallbacks to the topic, crashes and changes of
\* subscription ("同 topic 恒定落同 worker 且保序").
Queued(w) == worker[w].batch \o ring[w]

\* The numbers of the frames of each key that are with its worker, and of those
\* that reached a callback; without a key nothing is promised.
Waiting ==
    [k \in Topics \cup Keys |->
        IF mode = "none" THEN {}
        ELSE {f.id : f \in {g \in Range(Queued(WorkerOf[k])) : RouteKey(g) = k}}]

Reached == IF mode = "none" THEN {} ELSE handled

Delivery == INSTANCE KeyedDelivery WITH
    Keys <- Topics \cup Keys, Frames <- 1 .. MaxFrames, pending <- Waiting, handled <- Reached

InKeyOrder == Delivery!Spec

\* Every hole in the numbers received is counted as missing and so is every
\* frame a ring refused, once each, up to the baseline; the frames after it are
\* still to come.  After a restart of the server's numbering frames may go
\* uncounted, but none is counted that did arrive.
GapsCounted ==
    \A t \in Topics :
       /\ gap[t].missing <= server.sent[t] - routed[t]
       /\ server.seq[t] = server.sent[t] /\ first[t] # NoSeq =>
            gap[t].missing + routed[t] = gap[t].last - first[t] + 1

\* What happened in the consumer goes into one heartbeat: it is there or still to
\* come, unless it died with the process that held it.
Happened ==
    [gaps |-> Total([t \in Topics |-> gap[t].missing]),
     drops |-> Total(refused),
     proc |-> Cardinality(handled)]

StillToReport ==
    [gaps |-> NewGaps, drops |-> unsent,
     proc |-> statsq + Total([w \in Workers |-> worker[w].stats])]

ReportedOnce ==
    Happened = Plus(told, StillToReport)

\* A worker that exits by itself was told to and has finished: nothing is left
\* in its ring, nothing of a batch, nothing will come.
DrainedAtExit ==
    \A w \in Workers : worker[w].state = "exited" =>
        phase \in {"stopping", "stopped"} /\ Queued(w) = <<>>

\* A worker leaves a frame unhandled only around changes of its subscription:
\* the frame was routed before the worker had the pattern, or unsubscribe() was
\* called after it.
OnlyUnsettledDiscarded ==
    [][\A w \in Workers :
         (worker[w].batch # <<>> /\ worker'[w].state = "running"
          /\ worker'[w].batch = Tail(worker[w].batch) /\ handled' = handled) =>
            LET f == Head(worker[w].batch)
            IN ~f.settled \/ removals[f.topic] > f.removals]_vars

-----------------------------------------------------------------------------
(* What the repository says and the code does not do *)

\* "未连接时缓存，start() 末尾会 flush" (subscribe): once the connection is back,
\* the pool handles the patterns subscribed meanwhile.
CachedIsServed ==
    phase = "connected" /\ pool =>
        \A t \in subs, w \in Workers :
           worker[w].state = "running" =>
              t \in worker[w].table \/ \E i \in 1 .. Len(subq[w]) : subq[w][i].topic = t
=============================================================================
