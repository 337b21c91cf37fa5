# Verification of pulse-mq

TLA+ models of the core of pulse-mq, a publish/subscribe broker in Python (`src/pulsemq`), model-checked with TLC and,
where the argument is worth having for every instance, proved with TLAPS. Paths below are relative to the repository.

1. [The system](#1-the-system)
2. [Modules and code](#2-modules-and-code)
3. [What each run checks](#3-what-each-run-checks)
4. [Bounds](#4-bounds)
5. [Fairness](#5-fairness)
6. [Proofs](#6-proofs)
7. [Where code and documentation disagree](#7-where-code-and-documentation-disagree)
8. [What is not modelled](#8-what-is-not-modelled)
9. [Plan](#9-plan)

## 1. The system

A server process and any number of client processes (publishers and consumers) over ZeroMQ. The server has three
threads that share Python objects:

- the **main asyncio loop**: control loop (`server.py` `_control_loop`, `_dispatch_control`), heartbeat sweep (once a
  second), minute roll, alert loop, built-in producers;
- the **data-plane thread** (`transport/router.py` `SyncDataThread`): polls the data ROUTER, routes and broadcasts what
  arrives, forwards what the main loop hands it over an inproc PULL socket, drains the subscribers' buffers;
- the **admin thread**: HTTP views, reading only, except that a statistics snapshot begins a new window.

Beside it run the archive writer (a task of the main loop, which saves in that task), user commands as processes of their own, and the
stop and start of the whole server.

A client is one asyncio loop (application, heartbeat task, receive loop, reconnect loop) and, for a consumer with
workers, one process per worker behind a shared-memory ring. It has two connections to the server, one for data and one for
control; only the first is monitored, so the second may break and come back without the client noticing.

| Component | State | Operations | Interacts with | What makes it correct |
|---|---|---|---|---|
| Routing table (`routing.py`) | `_read_index` (three maps), `_version`, `_match_cache` | subscribe, unsubscribe, remove under a lock; match without | written by the control loop, read by data thread and producers | the maps agree; no match is stale or goes back |
| Control plane (`server.py`, `control.py`) | `OnlineRegistry` (`_by_client`, `_by_user`), identities, credits, heartbeat monitor | REGISTER, HEARTBEAT, SUBSCRIBE, UNSUBSCRIBE, DISCONNECT, sweep | changes routing table and buffers | one client per user, nothing kept for nobody, a stale name is released |
| Client connection (`client.py`) | `_connected`, `_registered`, `_subscriptions`, reconnect task | start, subscribe, unsubscribe, reconnect, stop | control messages | after any reconnect it is registered and routed what it subscribes to |
| Buffers and windows (`buffering.py`) | `SubscriberBuffer` per identity, `_credit_windows` | enqueue, drain, set_credit, set_policy, clear | filled and drained by the data thread, replaced by the control loop | no frame unaccounted for, order per topic, old gives way, credit bounds what is sent |
| Data-plane thread (`transport/router.py`) | sockets, the loop's locals | broadcast, drain, PULL | all of the above | one slow subscriber stops nobody |
| Ring (`worker_pool.py` `ShmRing`) | bytes, tail, head | write, read_batch | receive loop and worker process | a FIFO queue of whole frames |
| Worker pool (`worker_pool.py`) | rings, patterns, process handles | route, add_subscription, free_credit, stop | receive loop, heartbeats | order per key, credit is not overstated |
| Confirmed publish (`client.py`, `server.py`) | pending futures, sequence numbers | publish, ack, time-out | data plane | an ack belongs to its publish |
| Gap tracking (`client.py`, `stats/gaps.py`) | last number per topic | update, roll back | ring refusals | a gap is reported if and only if frames are missing |
| Traffic and archive (`stats/traffic.py`, `stats/storage.py`) | slots per minute, cumulated counts, writer's queue, SQLite table | record, roll, consume, close, history | data thread, event loop, archive writer, admin thread | every message in at most one minute, no stored minute replaced |
| Health and alerts (`stats/drops.py`, `stats/dataplane.py`, `stats/health.py`, `stats/throughput.py`, `alerts.py`) | minutes, a window, kicks, cooldowns | record, snapshot, check, fire | all threads, the web hook, the stream of the pages | the views agree with what happened, an alert that is due comes |
| Accounts (`security.py`, `cli/users.py`, `auth.py`, `transport/router.py`) | the credentials file, the store in memory, the admin token | user commands, generate, load, save, reload, verify | processes that share files | a saved change survives; a password is checked against what was loaded |
| Wire format (`protocol/`) | none | encode, rewrite of the number, decode, serializers | every process | what is accepted arrives with its type, and as it was sent but for what its serializer is known to lose |
| Producers (`producers/`) | one task each | run, broadcast | main loop, data thread | one does not hold up the rest |
| Admin pages, configuration, logging, command line, scripts | none | | | rendering and start-up |

**What is hard.** Lock-free reads against writes in several steps (routing table, buffers, windows, ring); a control
plane whose messages are delayed, lost with their connection, or arrive after the server gave the client up or was
restarted; snapshots taken before an `await` (the subscriptions a reconnect restores) or before a write-back (the window
of a drain); numbers at their edges (ring wrap, a frame larger than the buffer, an exhausted window); things that must
happen in the end (a name released, a backlog drained, an accepted frame delivered, an alert raised); counters that one thread adds to while
another clears them; files that several processes rewrite. `PROJECT.json` lists each such
place with its line and the properties that cover it, or says why none does.

## 2. Modules and code

| Module | Models | |
|---|---|---|
| `TopicPatterns` | patterns and `_matches` | a dotted name is the sequence of its parts |
| `SubscriptionService` | abstract: what the table promises | a sequence of contents; a match answers from ONE content current during the call |
| `Routing` | `SubscriptionTable` | implements `SubscriptionService` |
| `RoutingProofs` | theorems on `Routing` | section 6 |
| `ControlProofs` | theorems on `ControlPlane` | section 6 |
| `ControlPlane` | `_dispatch_control`, sweep, `OnlineRegistry`, the client's connection states | composes clients, channels and server |
| `Buffering` | `buffering.py`, `broadcast()`, `drain_all()` for one subscriber | data thread against control thread |
| `BufferingProofs` | theorems on `Buffering` | section 6 |
| `FrameQueue` | abstract: FIFO queue with batches | |
| `ShmRing` | `ShmRing.write`, `read_batch` | implements `FrameQueue` |
| `FrameProofs` | theorems on `ShmRing` and `WireFrames` | section 6 |
| `KeyedDelivery` | abstract: what a pool promises per key | numbered frames, a set per key |
| `Consumer` | receive loop, gap tracking, heartbeat reports, pool, worker processes, stop | implements `KeyedDelivery`; a ring is a queue here, bytes in `ShmRing` |
| `ConsumerProofs` | theorems on `Consumer` | section 6 |
| `PublishService` | abstract: what `publish(confirm=True)` promises | a number per call |
| `DataPlane` | publishers, data thread, event loop, subscribers | implements `PublishService`; buffers are in `Buffering` |
| `DataPlaneProofs` | theorems on `DataPlane` | section 6 |
| `WireFrames` | `frames.py`, `flags.py`, `serialization.py` | one frame on its way |
| `MinuteStats` | `traffic.py`, `storage.py`, minute roll, stop, crash, restart | |
| `Monitor` | drops, gaps, window and its readers, kicks, processed frames, alerts | |
| `Accounts` | credentials file and admin token, commands, server, handlers | |
| `AdminProofs` | theorems on `Accounts`, `MinuteStats` and `Monitor` | section 6 |
| `Counting` | lemmas: least and greatest elements, minimal sets, sums over finite sets, counts in sequences | for the proofs |
| `MC*` | instances for TLC | |

**Routing.** A change is three steps, as other threads see it: the reference `_read_index` is replaced, `_version`
incremented, the cache cleared (`Replace`, `Bump`, `Clear`); copying the maps under `_write_lock` is invisible. A match is four:
read the version, probe the cache, read the index reference, store. A key that is absent and a key with the
empty set answer `.get` alike, so the maps are total functions. `log`, `done`, `answer`, `seen` are history: all
contents, how many changes have returned, and what was answered from which content.

**ControlPlane.** All handlers run on one loop and await nothing but a reply that never blocks, so a handler is one step,
a function from server state to server state (`Registered`, `HeartBeaten`, ...). `online`/`holder` are `_by_client`/`_by_user`; `idents`
the keys of `_ident_by_client_id`; `credits` the keys of `_credits` and `_credit_windows`, `beats` the heartbeat monitor's records.
`expired` are the clients whose `last_seen` is older than the time-out: time is nondeterministic, a registered client may be found
expired at any moment that its messages do not refresh it. A client id is its ROUTER identity (`start()` sets it), so
one name stands for both.
A client goes down → joining (no connection) → awaiting (REGISTER sent) → restoring (SUBSCRIBE for each
pattern of the list taken at that point) → up (`_connected`). The channel of a client is its control connection. `Break` is a break that the client
notices, since the data connection goes with it, and that it answers by closing both; `Interrupt` is a break of the control connection alone: libzmq
connects it anew, the client stays where it was, and a SUBSCRIBE or UNSUBSCRIBE under way is gone for good (`_send_subscribe()` swallows the
time-out; `missed` keeps the patterns). `Cut` loses any suffix of what is under way; the rest arrives late,
before the identity is admitted again, because libzmq without ROUTER_HANDOVER gives an identity away only when it has read the old
connection's end. A late REGISTER keeps its effect on the server, its reply reaches nobody (`req`). A disconnect
between the handshake and `set_monitor_callback(_on_runtime_monitor)` is not noticed by the client, so `Restart` moves only clients that are up. A heartbeat carries
credit when there is a worker pool, which there is with the first subscription. The application is taken to await `start()` before it calls
`subscribe()`; control sends never meet the high-water mark (10000 by default).

**Buffering.** Only the data thread touches frames; the dictionaries are read by it without the lock while the control thread
replaces entries, so each dictionary access is a step of the data thread (`Pick`, `ReadCredit`, `ReadWindow`, one step per frame, `Settle`).
`slot` holds up to two buffer objects: the one in `_buffers` and one the data thread still holds after `clear()`.
`data.win` says what became of the list object the drain counts in, and so where `w[2] += n` goes. Frames are numbers, with a topic and a size; of the clock only
which frames are older than `max_age_s` is kept. `pipe` is the connection to the consumer: a full one is EAGAIN. A REGISTER is only possible when
there is no buffer (`OwnersAccounted` of `ControlPlane`). `maybe_gc()` calls the interpreter's collector and changes nothing here.

**ShmRing.** Every store of `write()` and every load of `read_batch()` that the other process can tell apart is a step. The order of stores
is that of the program (x86 memory order; an aligned 8-byte cursor is stored at once). A byte carries
the frame and the position it was written for, so a read tells whether it got one record whole. The shared memory is
as long as requested (Linux; a platform that rounds up to pages has room for the pad marker where it is missing in section 7, item 5).

**Consumer.** Receiving a frame is one step of the event loop: tracking, routing, and the roll-back when the ring refuses. A worker
is a process beside it: reading a batch, applying what its queue of subscription changes has delivered by then (any prefix: a feeder thread writes the
queue), handling one frame, putting statistics into the shared queue, leaving when it was told to and found its ring empty `ExitPolls` times.
The main process may not see yet what a worker has put into the queue, so a heartbeat takes all or nothing of it. A worker may crash;
nothing in the code notices. The server is reduced to its numbers and routes: a frame is lost or received at once, since nothing depends on it
before. `settled`, `removals`, `told` and the like are history.

**DataPlane.** `data.pc` follows one frame through the data thread: numbered when it is taken, confirmed (a waiting send), matched, cast to one target after
the other (sends that do not wait), its drops recorded with the last. When nothing is left to receive it takes from the PULL socket, again with waiting
sends. The event loop stands still while the PUSH queue is full (`main`). Tokens are taken modulo `TokenSpace`; a call is only made
while no older one with its token can still be under way: in the code that is 2^32 calls, and the guard names it. `owed` counts matched
frames times targets, less what is accounted for.

**WireFrames.** A frame is its fixed header and the cells behind it, which only flags and `topic_len` locate. One frame is encoded from any
topic, value and combination of options, numbered by `rewrite_seq` without being decoded, looked at by the receiving thread, routed, and decoded by the
worker; commands take the way to the control plane and back. What a value holds is a set of traits, things that a serializer may refuse or give back as something else. What this
code does to them is in the definitions: a data frame is sent without its index (`preserve_index=False`, `to_dict`), as rows also without the types of its columns
and, if it is empty, without their names; bytes sent as text are looked at only by the reader. What msgspec and pyarrow refuse and alter is external, and a parameter (`Refused`, `Altered`); the
instance lists numpy scalars, columns of mixed types, surrogates, naive datetimes, NaN, keys that are no text, and bytes within other values.

**MinuteStats.** `record()` is lock-free while its topic has a slot of this minute: finding the slot, adding to it, storing the cumulated
count are separate steps; `roll_minute()` copies under the lock, where the window of `Retention` minutes lets the oldest go (`gone` remembers it), and then clears. Either thread may roll. Readers take no lock, so they
see a copied minute twice until it is cleared (`Shown`, `Copied`). The writer takes a batch, merges it in a dictionary and saves
it in one transaction; one that fails is not rolled back, so that some of its rows may stay in the open transaction (`pending`) until the next commit over that connection. `StopServer` cancels the tasks, `CloseServer` ends the server, `Restart` starts a new one over the same table, in the same minute perhaps, or
after a crash. One counter stands for messages, bytes and records. The wall clock is taken not to go back.

**Monitor.** Every operation of a statistics object is one step (it holds the lock, or it is not interrupted). Time passes a second at a time (`Tick`),
the alert loop runs at least every `MaxDelay` seconds; `Check` looks at everything, decides which of the rules that are on fire (`RulesOn`; a limit of 0 turns one off) and starts their cooldowns,
`Post` is one call of the web hook, for which the next rule and the next look wait. Of drops and gaps the last `Retained` minutes that had any are kept, and `Curve` is
cut off at the minutes asked for. Readers of the window: the alert loop (`Check`), and the stream and the requests of the pages (`Scrape`), whose own queues change none of this.

**Accounts.** Each system call that writes is a step (`Open` truncates, `Write`, `Replace`), and a process may be killed between any two. An open
file is known by what its name leads to: when another process renames it away, the writer goes on writing into the file that has
the final name. A command loads, edits and saves; the server generates a file when there is none, reloads on SIGHUP
and starts anew; each handler checks one password with the accounts it read when the check began.

## 3. What each run checks

| Run | Shows |
|---|---|
| `routing` | `IndexConsistent`: exact, wild and by_identity agree after any changes (an identity missing in by_identity would be routed for ever). `FreshMatch`: no match is older than the last change that had returned when it began, and it is exact for one content. `MonotonicMatch`: matches of a topic never go back, across threads and cache entries stored late. `ServiceSpec`: refinement of `SubscriptionService`. |
| `control_plane` | Two clients that share a user, restarts, sweeps, late and lost messages, control connections that break alone. `OwnersAccounted`: all the server keeps belongs to a registered client or one it discarded while it kept talking. `ListedIsRouted`: monitoring lists only what is routed. `BelievesOnline`: a client that believes it is registered is, unless discarded since. `SubscriptionsRouted`: a connected client is, or is about to be, routed all it subscribes to, except the patterns of section 7, items 1 and 6. |
| `control_users` | Two users, one client started under either. `RegistryAgrees`: whoever is online holds its name; a name is held by nobody else, unless that client's id has two users (section 7, item 3); identities are known exactly for who is registered. `StaleNameReleased`: under the same premise no user name stays taken by a client that is gone or keeps being refused. |
| `buffering` | Two small frames and one larger than the buffer may be, in any order. `Accounted`: each frame is in exactly one place at all times. `SentInOrder`: per topic, through direct sends, buffer, old buffer and new. `OldestGivesWay`: under drop_old a frame over the limit lets everything and itself go, under conflate it stays, alone. `WindowKept`: what is drained under a window is at most its credit plus what a drain under way could still send (at most `_DRAIN_BUDGET`). `TypeOK` includes the buffer's limits. `Drains`: when no more frames are routed a backlog goes away, whichever windows are exhausted or replaced in mid-drain. |
| `shm_ring` | `Untouched`: the writer never stores into published, unreleased bytes. `QueueSpec`: the ring implements `FrameQueue` (whole frames, once, in order, delivered in the end). `RefusedFitsNowhere`: a frame is refused only if it fits neither at the tail nor after a wrap. |
| `shm_ring_raise` | counterexample, section 7, item 5 |
| `consumer` | Two workers, routing by load or by a key of the payload. `GapsCounted`: what is counted as missing is what did not arrive or was refused, once each, whatever refusals interleave with jumps. `ReportedOnce`: gaps, drops and processed frames reach one heartbeat each. `DrainedAtExit`: a worker that exits by itself leaves no frame behind. `InKeyOrder`: refinement of `KeyedDelivery`. `OnlyUnsettledDiscarded`: a worker leaves a frame unhandled only around a change of its subscription. |
| `data_plane` | `Confirmed`: refinement of `PublishService`, with tokens that come round, late and lost confirmations, time-outs and reconnects. `NumbersIncrease`: per subscriber and topic. `DropsAccounted`: the holes subscribers see are the drops the server counts. `KeepsReceiving`: only a peer that does not read a waiting send keeps the data thread from receiving. |
| `wire_frames` | `Delivered`: what `encode()` accepts arrives with its topic, number, record count and Python type although the server changes the frame without decoding it; it is the very value unless it held what its serializer, or this code's use of it, does not give back. Of the four types nothing is refused in its default form but for its size or for what the library of that form refuses. |
| `minute_stats` | `CountedOnce`: what readers see and what the window has let go miss nothing but records that overlap a roll, and have nothing twice but the minute a roll has copied and is about to clear; only minutes older than `Retention` later ones are let go; the cumulated count is exact for a topic with a single recorder. `RowsKept`: a stored minute is never replaced, and memory and table do not contradict each other. `NothingLeftBehind`: an orderly stop saves what was handed to the writer. |
| `monitor` | `EachCountedOnce`: within the retained minutes the curves of drops and gaps show what happened, the cumulated counts are those of all minutes, no topic is credited with more than was reported, each starved frame is shown to one reader. `BacklogAlerts`: a backlog that stays is alerted again and again, if its rule is on, whatever else fires and however slow the web hook is. |
| `accounts` | `ChangesKept`: wherever a process is killed, the file has what was saved last as a whole, and every edit unless two processes overlapped; the pages' token opens them after each restart. `GrantedAsLoaded`: a password is accepted exactly if it is that of an enabled user in the accounts loaded when the check began. |

Each property of a passing run has a mutant: a definition changed as a plausible bug would change it (marked `MUTANT`
in the module), under which TLC finds that property violated.

`control_users` goes without subscriptions, since a second user and liveness multiply the states of `control_plane`.

More configurations are counterexamples to run by hand, described in section 7: `MCConsumerCached.cfg` (with `MCConsumer`); `MCControlKick.cfg`,
`MCControlUsers.cfg` and `MCControlLost.cfg` (with `MCControl`); `MCBufferingSpend.cfg` (with `MCBuffering`); `MCWireJson.cfg` (with `MCWireFrames`);
`MCMinuteStatsReaders.cfg` (with `MCMinuteStats`); `MCMonitorStall.cfg` and `MCMonitorMinute.cfg` (with `MCMonitor`).

## 4. Bounds

| Constant | Value | Why it is enough |
|---|---|---|
| `MaxWrites` (routing) | 2 | with the initial content, a match can start before, between and after two changes; a late store needs one change, a step back two |
| `Ids`, `Patterns`, `Threads` | 2, `a.b` and `a.*`, writer+matcher and matcher | exact and wildcard paths for a topic and its prefix; both threads store into one cache |
| `Clients`, `Users`, `Patterns` (control) | 2, 1, 1 | a shared user makes the clients compete; patterns do not interact; client ids share only the user names |
| `Users`, `UserOf` (`control_users`) | 2; the publisher's id has both | a client id under a second user while its first record stands, and another client, with one user, that wants one of the names |
| `MaxChan` | 2 for the consumer, 1 for the publisher | a late message behind a late REGISTER, both surviving a cut |
| `Topics`, `Size`, `MaxFrames` (buffering) | two frames of size 1, one of size 4; `MaxBytes` 3, `MaxMessages` 2 | one frame pushes out two; both limits bind; conflate replaces, evicts, and keeps a frame over the limit; a backlog, and one frame to a new buffer. That some frames fit beside a new one under the limit on bytes is in the theorems only. The number of frames ends the flow, so `Drains` speaks of a backlog nothing is added to |
| `DrainBudget`, `Credits`, `Pipe` | 2, {2}, 1 | a drain of two frames that a window change splits; a window that two of three frames exhaust; EAGAIN after one |
| `Cap`, `Hdr`, `Lengths` | 9, 2, {1,2,4} | record lengths 3, 4, 6: every remainder at the end of the area, also 1 (less than a header) and exactly a header; two or three records at once. The code has `Hdr` = 4; only its relation to the remainder matters |
| `MaxFrames` (ring) | 6 | wraps the ring twice or more |
| Consumer: `N`, `Topics`, `Keys` | 2, 2, 1 | a key and a topic may share a worker or not; frames of a key may overtake only with two workers |
| `RingCap`, `BatchMax`, `ExitPolls` | 1, 2, 1 | a ring refuses the second frame; frames wait in ring and batch at once. Every batch is one frame then; longer ones are in the theorems only |
| `MaxFrames`, `MaxOps`, `MaxFaults` (consumer) | 3, 1, 1 | a frame before, in and after a refusal or hole; one change of subscription; one crash or break, a server restart with it |
| `Publishers`, `Subscribers`, `Topics` (data plane) | 1, 2, 1 | tokens and pipes belong to a publisher each; a slow subscriber beside a fast one |
| `TokenSpace`, high-water marks, `Credits` | 2, 1, {0} | the third call has the first one's token; every pipe fills with one frame; a heartbeat that reports no room |
| `MaxFrames`, `MaxEvents` (data plane) | 3, 1 | above, publishers' calls and producers' turns together; one turn of a producer for two subscribers fills the queue; one reconnect, heartbeat, change of routes or lost subscriber |
| `TopicNames`, `MaxTopicLen`, `Sizes`, `MaxRecords`, `Lz4From`, `TokenLimit` | 1 to 3 cells, 2, 0..3, 2, 2, 2 | below, at and above each limit; every combination of type, serializer, compression, checksum and token |
| `Packed`, `MaxFrame` | {2, 3}, 4 | frames that fit, just fit, and fail by the token, the checksum or the topic (the code: 256 MiB) |
| `Contents`, `Refused`, `Altered` | one trait at a time | each trait meets each serializer; traits are refused and lost independently of each other |
| `CheckEvery`, `Retention`, `BatchSize`, `MaxRecords`, `MaxMinutes`, `MaxRuns` (statistics) | 2, 1, 2, 3, 2, 2 | a roll found by `record()` and one by the roll task; a window that lets a minute go; a batch with two archives of one minute; a restart in the same minute |
| `Cooldown`, limits, `Minute`, `Retained`, `MaxDelay`, `MaxEvents`, `MaxRolls` | 2, 1, 2, 1, 2, 2, 2 | an alert held back, a count over its limit and just at it; a minute that is let go; an alert loop that is a second late |
| `RulesOn` | all but `dataplane_stall` | the rules are independent of each other; `MCMonitorStall.cfg` has that one, too |
| `Users`, `Passwords`, `Commands`, `Handlers` (accounts) | 2, 2, 2, 1 | two writers, one of which may be the server, over one temporary file; a password changed during a check |
| `MaxCommands`, `MaxReloads`, `MaxStarts` (accounts) | 2, 1, 2 | an edit before and after a load; a restart |

The bounds appear as guards of the actions they bound (`Replace`, `Send`, `ToBuffer`/`Direct`, `Called`, `Sent`, `Call`, `Counted` and so on), and
nowhere else. Commands and passwords are symmetric in `accounts`.

## 5. Fairness

- `ControlPlane`: weak fairness of `Handle`, `Expire` and `Sweep`. The control loop and the sweep task never block, and time passes.
  Clients are assumed to do nothing at all; a client may stop at any point, or talk for ever.
- `Buffering`: weak fairness of the data thread's drain (after each poll, at most 100 ms), of the second half of each
  handler, and of the consumer's receiving; strong fairness of heartbeats with positive credit, which come again and again
  between whatever else the control loop handles (`free_credit()` never reports 0).
  Nothing is assumed of publishers, registration or clearing.
- `ShmRing`: weak fairness of the reader (a worker polls for ever); nothing of the writer.
- `DataPlane`: weak fairness of the data thread only; nothing of publishers, subscribers, the event loop.
- `Monitor`: weak fairness of time, of the alert loop's look and of a web hook call, which has a time limit.
- `Routing`, `Consumer`, `WireFrames`, `MinuteStats` and `Accounts` state safety only: a worker that died is never replaced, so that no frame need be handled in the end.

## 6. Proofs

The theorems hold for every value of the constants, so for any number of clients, frames, threads, tokens and so on, and without the bounds of
section 4, which are constants like the others (any natural number). What is assumed of the constants stands as an `ASSUME` beside their declaration: that a credit is a
natural number, that a model value that means "none" is no client, and the like. Where more is needed, it is said below. The
parts of the inductive invariants that TLC can evaluate were tried on the runs' instances first.

| Module | Theorem | States |
|---|---|---|
| `RoutingProofs` | `Invariance`, `TypeCorrect` | the inductive invariant, `TypeOK` |
| | `IndexAlwaysConsistent`, `MatchesAreFresh` | `IndexConsistent`, `FreshMatch` |
| | `MatchesNeverGoBack` | `MonotonicMatch`, if one thread writes and at most one other reads |
| | `TableImplementsService` | `ServiceSpec`: the table implements `SubscriptionService` |
| `ControlProofs` | `ControlInvariance`, `ControlTypes` | the inductive invariant, `TypeOK` |
| | `RegistryAlwaysAgrees` | `RegistryAgrees` |
| | `NothingForNobody`, `ListedIsAlwaysRouted`, `BelieversAreOnline` | `OwnersAccounted`, `ListedIsRouted`, `BelievesOnline` |
| | `SubscribersAreRouted` | `SubscriptionsRouted` |
| `BufferingProofs` | `TypeAlways`, `AccountedAlways` | `TypeOK`, `Accounted` |
| | `SentInOrderAlways`, `OldestGivesWayAlways` | `SentInOrder`, `OldestGivesWay` |
| | `WindowKeptAlways` | `WindowKept` |
| `FrameProofs` | `RingInvariance`, `RingTyped` | the inductive invariant, `TypeOK` |
| | `RingUntouched`, `RingRefuses` | `Untouched`, `RefusedFitsNowhere` |
| | `RingIsAQueue` | every step is a step of `FrameQueue` or a stutter: `QueueSpec` without its fairness |
| | `DeliveredAlways` | `Delivered` |
| `ConsumerProofs` | `TypedAlways`, `TypeAlways`, `DrainedAtExitAlways` | types and workers at rest, `TypeOK`, `DrainedAtExit` |
| | `GapsCountedAlways`, `ReportedOnceAlways` | `GapsCounted`, `ReportedOnce` |
| | `OnlyUnsettledDiscardedAlways` | `OnlyUnsettledDiscarded` |
| | `InKeyOrderAlways` | `InKeyOrder`: the pool implements `KeyedDelivery` |
| `DataPlaneProofs` | `NumbersIncreaseAlways`, `DropsAccountedAlways` | `NumbersIncrease`, `DropsAccounted` |
| | `PublishConfirmedIsService` | `Confirmed`: implements `PublishService` |
| `AdminProofs` | `ChangesAreKept`, `ChecksGrantAsLoaded` | `ChangesKept`, `GrantedAsLoaded` |
| | `RecordsCountedOnce`, `ArchiveDrained`, `StoredRowsKept` | `CountedOnce`, `NothingLeftBehind`, `RowsKept` |
| | `HealthCountedOnce` | `EachCountedOnce` |

**RoutingProofs.** `IndexConsistent` and freshness are not inductive alone. `Inv` adds: the published index is the newest content
(`LogInv`); exactly the holder of the lock is between publishing and releasing (`LockInv`); the version equals the number of changes
published, except that it lags by one between `Replace` and `Bump` (`VersionInv`); and the heart of it, `Sound`: a result stamped with version
v was computed from a content no older than the v-th (`CacheInv`, `LocInv`). That holds because `match()` reads the version *before* the index, and it is
why an old result stored late does no harm: its stamp is too small to be hit. A stamp read at the end of `match()`
(`StampedLate`) breaks it. `PrefixLookup` and `LookupExact` reduce the dictionary lookups to the meaning of patterns.
One lemma per action; the refinement maps `Replace` to `Change`, `Clear` to `Return`, `ReadVersion` to `Call`, the two answers to `Answer`, the rest to stutters.

`MonotonicMatch` needs `OneReader`, which the program satisfies: its event loop changes the table and matches, its data thread only matches
(`server.py` 402, 444). `NeverBack` says that the writer's own matches see no change between their steps, and that a cache
entry that can still be hit is at least as new as any answer anyone has seen. With two readers beside the writer the property is false, as TLC
shows: between the writer's replacing the index and incrementing the version, one reader stores an older result over a newer one of the same version.

**ControlProofs.** `RegistryAgrees` carries the premise it needs, that the holder's id has one user (`OneUser`), and is proved as it stands, for any users: section 7, item 3 is the case it leaves.
The server's half of the invariant (`Sound`) is kept by each handler as a function on states: one lemma per handler (`RegisteredSound`, ...), `GoneSound` for DISCONNECT and sweep
alike. It needs that identities are known exactly for registered clients, otherwise a sweep would free a name and keep the routes.
`OwnersAccounted` and `BelievesOnline` need to know what may still arrive: `ChanOK` says that a REGISTER under way
belongs to an attempt that is not answered (then it is the last message) or was given up, that anything else was sent by a client that
had been registered, and that nothing but REGISTER follows a DISCONNECT; `ServedOK`
that a client answered OK is known to the server with no DISCONNECT under way. So a late heartbeat can never be the first sign of a
client the server has never accepted. Client steps are judged locally (`Local`): what a client does touches
its own state and channel only. `SubscriptionsRouted` follows from `RoutedOK`, which speaks of the restoring client too: what it subscribes to is
routed, on its way (`RoutesToBe`), still in its list, was subscribed while that list was being worked off, or lost with a connection (`missed`, which `Interrupt` extends by what it takes away).

**BufferingProofs.** The data thread holds a buffer, a credit and a window across several steps while handlers replace all three;
`LocalsOK` and `SlotsOK` say what its locals may still be. `PlacesOK`: of nine places a frame is in exactly one. Order is a
statement about all places at once: besides `SentInOrder` and `OldestGivesWay`, `SentFirst` says that what was sent is older than
whatever of its topic waits in any buffer that may still be drained. For the window, `StillToSend` is what the drain under way may yet
send: credit minus spent bounds what is sent until the list object is replaced, and then for one drain more. The sums of
sizes that the eviction loop computes are folds; that it ends within the limits, keeps the newest frames, and the sum is that of what
is left, is proved by a minimal counterexample among the subsets of the topics waiting.

**FrameProofs, the ring.** The invariant keeps the boundaries of all records ever published, a chain of nodes from cursor 0 to the tail (`LayoutInv`): where each lies, and which frame or pad ends there. No
record crosses the end of the area; from the head on, the bytes between two nodes are those of one whole record. `WriterInv` follows the writer
from check to store. Publishing adds a node, releasing moves the head to one; so the reader, wherever it stands, stands at a node. Cursors are
taken modulo `Cap` in a few lemmas only. For record sizes nothing is assumed but that a length field is not empty.

**FrameProofs, the wire format.** Every frame of a call is `Numbered(call, n)`: the encoder's cells written out with the number n. `FlagsRead` says that the parts
of the flags byte come out as they went in, `BodyCells` and `NumberedCells` which cell lies where for each combination of topic, token and checksum; from these
follow `ReadBack` (header and cells are found again), `Renumbered` (`rewrite_seq` of the frame numbered n is the frame numbered k, the checksum included) and `ValueBack` (the
kind is restored, and the value if it holds nothing of `Lost`). `WireInv` then says at each place whose frame it is and what has been read of it. Topics, sizes and numbers are of any size, and
`Refused` and `Altered` are any tables: nothing is assumed of the libraries but that they do to a value what they do to what it holds. That every type has a default form that is
accepted, but for size and for what its library refuses, is `DefaultsAccepted`.

**ConsumerProofs.** `WorkersOK` says what a worker that is not at work has left behind. `GapsOK` balances, per topic, what the server has sent, what was
routed, and what is counted as missing, through refusals, restarts and new subscriptions. `QueuesOK` is about every frame on its way through a
worker: it is with the worker of its key, batch and then ring are in the order of acceptance, no frame is twice on its way or was handled already, and
a pattern the worker had for good when the frame was routed is in its table still unless `unsubscribe()` was called since. `SumsOK` accounts for totals across heartbeats, shared queue and workers;
it needs that the topics are finitely many. A step of the pool is mapped to a step of `KeyedDelivery` or a stutter.

**DataPlaneProofs.** `NumbersInv`: no pipe, and no frame in the data thread's hand, is ahead of the number its topic has reached.
`DropsAccounted` compares counts: what a broadcast owes is the number of its targets (finitely many subscribers), less what each cast has settled.
`CallInv` is about tokens: whatever is on its way with a token, waiting to be taken, in hand or confirmed, belongs to one call (`OneCall`), and what is confirmed
is the number that call's frame was given. That rests on the guard of `Call`: no older call with the same token is on its way.

**AdminProofs, accounts.** While no two saves overlap, at most one writer has the temporary file open and its contents are what that writer has
written so far (`DiskOK`); while no two writers are at work together, who is at work edits what was saved last (`EditsOK`). `LoadedOK`:
the store in memory, and the account each check goes on with, are those of a saved version. `TokenOK`: as long as tokens could be written,
those the server ran with are the one in the file. What happens when saves do overlap is said in section 7.

**AdminProofs, traffic.** `TrafficInv` speaks of the two threads of the code, any finite set of topics, and any number of minutes and restarts. `Locked`: from the slow
path or the roll to the end, the lock is its holder's. `Placed`: a thread that does not overlap a roll adds to its topic's slot of this minute while no copy of it has been
made. `Dated` and `Unique`: there is one row per topic and minute in memory and table together, of a past minute but in mid-roll; `OnTheWay`: rows in the queue are in memory too, as they
are there. A restart begins at a minute the table has no row of yet, so it makes no second version of one. `Windowed`: the window holds its latest `Retention` minutes, and what it has let go is older than all of them. With these `ShownRight` and `ShownTwice` hold: what is shown and what was let go
is, record by record, what was recorded, and the copied minute once more between copying a slot and clearing it.
`Cumulated` is claimed for a topic with a single recorder only (`Sole`); with two, TLC finds lost updates (section 7). `HandedOver` follows batches from the roll into
table or loss.

**AdminProofs, health.** `MonitorInv` has three parts, which no step mixes. `Archiving`: per kind and topic, the cumulated count is the sum over all minutes of what happened, this minute's is the last of them, and the
retained rows are those of the latest minutes that had any, one row each (`Kept`), so that a curve cut off at no more than `Retained` minutes misses none. `Crediting`: the entry of a client, merged heartbeat by heartbeat and dropped with the client, never
exceeds what the client reported. `Watching` balances starved frames between what happened, what was shown and what is waiting. Topics and clients
are assumed finite, since counts are summed over them.

**Induction over data.** What a fold or a sum over a finite set computes would be proved by the library's induction theorems, which take an operator as
parameter and cannot be instantiated here. `Counting` goes another way: if a statement failed for some finite set it would fail for one
none of whose proper subsets it fails for (`MinimalSubset`: strict inclusion is well-founded there), and removing one element gives the contradiction. `SumsExist` and `SumStep` make
sums over finite sets available so, and `Total` and `Count` (of frames in a sequence) rest on them.

**Only model-checked.** Every invariant and action property of the runs, and each refinement, is stated by a theorem. What only TLC checks is liveness:
`StaleNameReleased`, `Drains`, `KeepsReceiving`, `BacklogAlerts`, and the fairness of `QueueSpec`, since the prover has neither
`ENABLED` nor fairness. `MatchesNeverGoBack` has the premise named above.

## 7. Where code and documentation disagree

Shown by a counterexample (5 by the run `shm_ring_raise`, the others by the configurations of section 3 run by hand):

1. `CachedIsServed`: a pattern subscribed while the client reconnects is noted and sent to the server, but the
   workers never learn of it and drop its frames silently. `client.py:790` says a pattern noted without a connection is flushed; `start()` does that, a reconnect
   only for the server. In `ControlPlane`, one subscribed after the list to restore was taken is not even sent.
2. `KickReleases`: after a sweep discards a client that is alive, its HEARTBEAT and SUBSCRIBE put credit, window, heartbeat record and
   routes back; no sweep sees them. `OwnersAccounted` shows this is the only way, and that a buffer never stays.
   The client itself is told nothing: it stays up and receives nothing it does not subscribe anew.
3. `HolderIsOnline`: the same client id registering under a second user before the first record is swept leaves the first name in
   `_by_user` for ever; that name is ALREADY_ONLINE until the server restarts.
4. `CreditSpentOnce`: a heartbeat during a drain opens a window that does not know what that drain still sends.
   `WindowKept` bounds the excess by one drain.
5. `NeverRaises`: one to three bytes before the end, the pad marker does not fit, `pack_into` raises, the receive
   loop ends; the tail has not moved, so every later write that finds room raises again.
6. `SubscriptionsRestored`: only the data connection is monitored. When the control connection breaks alone, a SUBSCRIBE under way is lost;
   `_send_subscribe()` (`client.py:683`) swallows the missing reply and never retries, and heartbeats keep the registration up. The client takes itself for subscribed and
   receives nothing, though the repository's `README.md:311` says subscriptions recover by themselves ("订阅自动恢复").
7. `BytesNotDeformed`: `serialize()` refuses bytes as JSON only as the whole value. Bytes within a dict or a data frame sent as rows come back as base64 text, though
   `docs/ARCHITECTURE.md:325` says they are refused so that they are not deformed ("拒绝 bytes（防 base64 变形）").
8. `NeverShownTwice`: the readers of the traffic counters take no lock, though the comment at `traffic.py:47` says they do ("读路径仍用锁保护"): between the copy and the clear of a roll they see
   the minute both as the current one and as an archived one.
9. `StallsAlert`: whoever reads the window begins it anew. The stream of the pages reads it every second, with or without viewers, as the alert loop does: a stall that
   the stream sees first never raises the alert that the repository's `README.md:369` lists.
10. `LastMinuteIsLast`: "drops of the last complete minute" (`drops.py:26`) are those of the last minute that had any, so that `drops_burst` repeats after each
   cooldown until another minute has fewer.

Found while modelling, and in the models as the code has it:

- Consumer. After a server restart the numbers begin again, and gaps go undetected until they pass the old ones, although the docstring of `gap_stats()` says
  detection goes on with the new numbers ("重连后从新 seq 继续检测"). A pattern subscribed again counts what was published meanwhile as missing.
  The credit a heartbeat reports counts neither frames on the way nor length fields nor pads, so that rings do refuse ("环在守恒下不会满" is not true).
  Statistics taken for a heartbeat that fails, and those of a worker that dies or is terminated, are lost.
- Data plane. A confirmation is sent before the frame is matched. While publishers go on, the inner receive loop does not end: pushed frames and drains wait. A full
  PUSH queue stops the event loop, heartbeats included. Frames of built-in producers carry number 0.
- Wire format. A data frame comes back without its index, as msgpack or JSON also without the types of its columns and, without rows, without the columns themselves (`Lost`, `Preserved`), although
  `msg_type.py` promises types are kept end to end. Bytes published as type STR are sent and counted, and lost at the worker if they are not UTF-8. The server never checks a
  checksum, and `publish()` never sets one.
- Statistics. The label of a row is up to a minute late. The roll at the stop finds the minute unchanged and archives nothing, so the current minute is lost, although
  `server.py:766` says it is archived. A roll started by `record()` throws its rows away for SQLite. Drops and gaps are not archived at the stop. Two
  rolls in one batch overwrite each other. The event loop records too (`server.py:399`), though `traffic.py:37` names the data thread as the only writer: cumulated counts lose updates.
  A save that fails half way is not rolled back: its rows may be committed with the next one. `storage.cleanup()` is called by nobody, so `PULSEMQ_RETENTION_DAYS` has no effect.
- Health. In `history()` of drops
  and gaps this minute's count hides a row archived under the same time stamp until the next minute. Every reader of the window begins it anew, so alert loop, stream and requests share out what
  each takes for all. Kicks during a cooldown are never alerted.
- Accounts. Two saves at a time share one temporary file: one may fail, an edit may be lost, and the file may be empty or torn for a moment in which a reload finds no user
  ("原子写" holds for one writer; the properties say where two overlapped). A user that is disabled stays connected until it reconnects.

## 8. What is not modelled

- The pages' HTML and script (`admin/web_ui.py`), HTTP parsing, the text formats of the views, Prometheus, connection statistics, latency averages: rendering.
- Benchmarks and scripts: they drive the system from outside. Configuration, logging, start-up, the command line except its user commands.
- Creating and closing sockets, the handshake itself and libzmq: external; what a broken connection or a refused password does to a client is in `ControlPlane`.
- Local producer tasks of a client; when a built-in producer's turn comes (`Produce` may come at any time).
- `maybe_gc()` and `has_backlog()` iterate over a dictionary that another thread may extend: Python's iteration fails as a whole, below what the models split.
- `storage.cleanup()`, which nothing calls; a start of the admin server whose port is taken.
- Bytes that serializers and compressors produce. What msgspec and pyarrow refuse and alter is taken as given (`Refused`, `Altered`).
- A wall clock that is set back: a minute that comes again would replace its stored row.
- Queues of the stream's viewers, the merge of the drops' and gaps' curves with the table, and the early return of `_topic_history` (`admin/server.py:580`) without statistics or storage.

Some properties describe a hazard rather than rule it out, as the code does not either. `KeepsReceiving` says that a peer which does not read a waiting send is all that can
stop the data thread; it does stop it. `ReportedOnce` counts what a worker flushes at its exit as still to be reported, and nobody reads it; and what the credit of a heartbeat promises is not part of it.
`BelievesOnline` is about registration and says nothing of a data connection that breaks before its monitor is set (`client.py:399`).

The models of statistics take straight-line code between two calls as one step, as CPython with its global lock does.

## 9. Plan

Done: all components of section 2 checked; the safety properties and the refinements of all of them proved.

Left:

1. `ControlPlane`: which clients a sweep can discard while they talk, as a lemma on `evicted` that does without the history.
2. The premise `OneUser` of `RegistryAgrees`, and the patterns excepted from `SubscriptionsRouted`, can go when items 1, 3 and 6 of section 7 are mended in the code.
3. The client's local producer tasks, and the dictionary iterations of `maybe_gc()` and `has_backlog()`, if they are ever changed to do more than they do now.
