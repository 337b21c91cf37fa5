---------------------------- MODULE MinuteStats ----------------------------
(***************************************************************************)
(* The traffic statistics of the server (stats/traffic.py), which the data *)
(* thread and the event loop both count in, and their way to SQLite: the   *)
(* minute roll (server.py), the archive writer and the table               *)
(* (stats/storage.py), orderly stops, crashes and restarts.                *)
(*                                                                         *)
(* A thread may be preempted at every call; the straight-line code between *)
(* two calls is one step (CPython with its global lock).  record() takes   *)
(* no lock for a topic that has a slot in this minute, roll_minute() does. *)
(* What the event loop does between two awaits is not interleaved with     *)
(* other tasks of it.  One counter stands for the three of a slot.  The    *)
(* clock never goes back.                                                  *)
(***************************************************************************)
EXTENDS Integers, Sequences, FiniteSets, FiniteSetsExt, SequencesExt

CONSTANTS
    Topics,
    CheckEvery,   \* records between two looks at the clock (1024)
    Retention,    \* minutes of a topic that memory keeps (480)
    BatchSize,    \* archives that the writer takes at once
    MaxRecords,   \* bounds, for TLC only: on the calls of record(),
    MaxMinutes,   \* on the clock,
    MaxRuns       \* on starts of the server

ASSUME TrafficAssumption ==
    /\ IsFiniteSet(Topics)
    /\ CheckEvery \in Nat \ {0} /\ Retention \in Nat \ {0} /\ BatchSize \in Nat \ {0}
    /\ MaxRecords \in Nat /\ MaxMinutes \in Nat /\ MaxRuns \in Nat

Threads == {"data", "loop"}

VARIABLES
    phase,     \* "running", "stopping" (the tasks are cancelled), "stopped"
    clock,     \* the minute of the wall clock
    minute,    \* _current_minute
    current,   \* current[t]: number of the slot of t in this minute, 0: none
    slots,     \* every slot so far
    cum,       \* _msg_cum
    lock,      \* holder of _lock
    thread,    \* pc and locals of each thread
    deques,    \* _slots: the archived rows that memory keeps
    queue,     \* of the archive writer
    db,        \* the table minute_stats
    pending,   \* rows executed in a transaction that was not committed
    starts, records,
    entered,   \* history: records added to a slot since the start, per topic
    overlap,   \* history: those of them that overlapped a roll
    recorders, \* history: the threads that recorded each topic
    handed,    \* history: rows handed to the writer since the start
    lost,      \* history: of those, the ones overwritten in a batch or not saved
    gone       \* history: the rows that the deques have let go since the start

memory == <<minute, current, slots, cum, lock, deques, gone>>
writer == <<queue, db, pending, handed, lost>>
world == <<phase, clock, starts>>
tally == <<records, entered, overlap, recorders>>
trafficVars == <<memory, thread, writer, world, tally>>

-----------------------------------------------------------------------------
NoThread == "none"
NoSlot == 0

\* The locals of record() and roll_minute(): what comes after a roll ("idle",
\* "create" or "archive"), the cumulated count as read, the minute the roll
\* found, the rows, and whether no roll has begun since record() did.
Idle == [pc |-> "idle", topic |-> "none", slot |-> NoSlot, after |-> "idle", read |-> 0,
         now |-> 0, rows |-> {}, clean |-> TRUE]

Rolling(w) == thread[w].pc \in {"copy", "clear"}

FreshMemory(now) ==
    /\ minute' = now
    /\ current' = [t \in Topics |-> NoSlot]
    /\ slots' = <<>>
    /\ cum' = [t \in Topics |-> 0]
    /\ lock' = NoThread
    /\ deques' = {} /\ gone' = {}
    /\ thread' = [w \in Threads |-> Idle]
    /\ queue' = <<>> /\ pending' = {}
    /\ entered' = [t \in Topics |-> 0]
    /\ overlap' = [t \in Topics |-> 0]
    /\ recorders' = [t \in Topics |-> {}]
    /\ handed' = {} /\ lost' = {}

TrafficInit ==
    /\ phase = "running" /\ clock = 0 /\ starts = 1 /\ records = 0
    /\ minute = 0
    /\ current = [t \in Topics |-> NoSlot]
    /\ slots = <<>>
    /\ cum = [t \in Topics |-> 0]
    /\ lock = NoThread
    /\ deques = {} /\ gone = {}
    /\ thread = [w \in Threads |-> Idle]
    /\ queue = <<>> /\ db = {} /\ pending = {}
    /\ entered = [t \in Topics |-> 0]
    /\ overlap = [t \in Topics |-> 0]
    /\ recorders = [t \in Topics |-> {}]
    /\ handed = {} /\ lost = {}

MinutePasses ==
    /\ clock < MaxMinutes
    /\ clock' = clock + 1
    /\ UNCHANGED <<phase, starts, memory, thread, writer, tally>>

Goes(w, local) == thread' = [thread EXCEPT ![w] = local]

-----------------------------------------------------------------------------
(* record() *)

\* The slot of the topic is looked up without the lock.
Record(w, t) ==
    /\ thread[w].pc = "idle"
    /\ phase = "running" \/ (phase = "stopping" /\ w = "data")
    /\ records < MaxRecords
    /\ records' = records + 1
    /\ recorders' = [recorders EXCEPT ![t] = @ \cup {w}]
    /\ Goes(w, [Idle EXCEPT !.pc = IF current[t] = NoSlot THEN "enter" ELSE "add",
                            !.topic = t, !.slot = current[t],
                            !.clean = \A v \in Threads : ~Rolling(v)])
    /\ UNCHANGED <<memory, writer, world, entered, overlap>>

\* MUTANT: no second look with the lock held.
LookedUpBefore(t) == NoSlot

LookedUp(t) == current[t]

\* Slow path: with the lock held the topic may have a slot after all.  In a new
\* minute the last one is rolled first, and what that roll returns is dropped.
EnterSlow(w) ==
    /\ thread[w].pc = "enter" /\ lock = NoThread
    /\ lock' = w
    /\ Goes(w, [thread[w] EXCEPT
           !.slot = LookedUp(thread[w].topic),
           !.pc = IF LookedUp(thread[w].topic) # NoSlot THEN "add"
                  ELSE IF clock # minute THEN "copy" ELSE "create",
           !.after = "create", !.now = clock])
    /\ UNCHANGED <<minute, current, slots, cum, deques, gone, writer, world, tally>>

CreateSlot(w) ==
    /\ thread[w].pc = "create"
    /\ slots' = Append(slots, [topic |-> thread[w].topic, minute |-> minute, count |-> 0])
    /\ current' = [current EXCEPT ![thread[w].topic] = Len(slots')]
    /\ Goes(w, [thread[w] EXCEPT !.pc = "add", !.slot = Len(slots')])
    /\ UNCHANGED <<minute, cum, lock, deques, gone, writer, world, tally>>

\* The slot is counted up, current or not; then the cumulated count is read.
Add(w) ==
    /\ thread[w].pc = "add"
    /\ LET t == thread[w].topic
       IN /\ slots' = [slots EXCEPT ![thread[w].slot].count = @ + 1]
          /\ entered' = [entered EXCEPT ![t] = @ + 1]
          /\ overlap' = IF thread[w].clean THEN overlap ELSE [overlap EXCEPT ![t] = @ + 1]
          /\ Goes(w, [thread[w] EXCEPT !.pc = "store", !.read = cum[t]])
    /\ UNCHANGED <<minute, current, cum, lock, deques, gone, writer, world, records, recorders>>

\* MUTANT: the slow path forgets the cumulated count.
StoredFast(w) == IF lock = w THEN thread[w].read ELSE thread[w].read + 1

Stored(w) == thread[w].read + 1

\* On the fast path every so many records the clock is looked at; then, too, the
\* roll is for its own sake, and what it returns is dropped.
Store(w) ==
    /\ thread[w].pc = "store"
    /\ cum' = [cum EXCEPT ![thread[w].topic] = Stored(w)]
    /\ lock' = IF lock = w THEN NoThread ELSE lock
    /\ Goes(w, IF lock # w /\ slots[thread[w].slot].count % CheckEvery = 0 /\ clock # minute
               THEN [Idle EXCEPT !.pc = "roll"] ELSE Idle)
    /\ UNCHANGED <<minute, current, slots, deques, gone, writer, world, tally>>

-----------------------------------------------------------------------------
(* roll_minute() *)

\* MUTANT: a minute that is not over is archived, too.
NeverOver == FALSE

SameMinute == clock = minute

\* The task of the event loop, every 60 seconds and more.
StartRoll ==
    /\ phase = "running" /\ thread["loop"].pc = "idle"
    /\ Goes("loop", [Idle EXCEPT !.pc = "roll", !.after = "archive"])
    /\ UNCHANGED <<memory, writer, world, tally>>

\* With the lock; in the same minute nothing is archived.
EnterRoll(w) ==
    /\ thread[w].pc = "roll" /\ lock = NoThread
    /\ IF SameMinute
       THEN /\ Goes(w, [Idle EXCEPT !.pc = IF phase = "stopping" /\ w = "loop"
                                            THEN "rolled" ELSE "idle"])
            /\ lock' = lock
       ELSE /\ Goes(w, [thread[w] EXCEPT !.pc = "copy", !.now = clock])
            /\ lock' = w
    /\ UNCHANGED <<minute, current, slots, cum, deques, gone, writer, world, tally>>

Remembered(t) == {row \in deques : row.topic = t}

\* A deque of limited length: when it is full, its oldest row makes room.
Outdated(rows) ==
    {old \in deques :
        /\ \E row \in rows : row.topic = old.topic
        /\ Cardinality(Remembered(old.topic)) >= Retention
        /\ \A row \in Remembered(old.topic) : old.minute <= row.minute}

\* The slots are copied while the other thread may still count in them.
Copy(w) ==
    /\ thread[w].pc = "copy"
    /\ LET live == {slots[current[t]] : t \in {u \in Topics : current[u] # NoSlot}}
           rows == {s \in live : s.count > 0}
       IN /\ deques' = (deques \ Outdated(rows)) \cup rows
          /\ gone' = gone \cup Outdated(rows)
          /\ thread' = [v \in Threads |->
                       IF v = w THEN [thread[v] EXCEPT !.pc = "clear", !.rows = rows]
                       ELSE [thread[v] EXCEPT !.clean = FALSE]]
    /\ UNCHANGED <<minute, current, slots, cum, lock, writer, world, tally>>

\* Only what the event loop's own rolls return goes to the writer.
Clear(w) ==
    /\ thread[w].pc = "clear"
    /\ minute' = thread[w].now
    /\ current' = [t \in Topics |-> NoSlot]
    /\ IF thread[w].after = "archive" /\ thread[w].rows # {}
       THEN queue' = Append(queue, thread[w].rows) /\ handed' = handed \cup thread[w].rows
       ELSE UNCHANGED <<queue, handed>>
    /\ lock' = IF thread[w].after = "create" THEN lock ELSE NoThread
    /\ Goes(w, IF thread[w].after = "create" THEN [thread[w] EXCEPT !.pc = "create"]
               ELSE [Idle EXCEPT !.pc = IF phase = "stopping" /\ w = "loop"
                                        THEN "rolled" ELSE "idle"])
    /\ UNCHANGED <<slots, cum, deques, gone, db, pending, lost, world, tally>>

-----------------------------------------------------------------------------
(* AsyncArchiveWriter *)

\* dict.update(): of two rows of a topic in a batch the later one stays.
Merged(batch) ==
    {row \in UNION ToSet(batch) :
        \E i \in 1 .. Len(batch) :
           /\ row \in batch[i]
           /\ \A j \in i + 1 .. Len(batch) : \A other \in batch[j] : other.topic # row.topic}

\* INSERT OR REPLACE, by topic and minute.
Replaced(table, rows) ==
    rows \cup {r \in table : ~\E row \in rows : row.topic = r.topic /\ row.minute = r.minute}

\* The table as its one connection sees it.
Visible == Replaced(db, pending)

\* Row by row, then the commit; when one of these fails, that is logged and
\* nothing is rolled back but what SQLite itself may roll back.
SaveBatch(batch) ==
    \/ /\ db' = Replaced(Visible, Merged(batch))
       /\ pending' = {}
       /\ lost' = lost \cup ((UNION ToSet(batch)) \ Merged(batch))
    \/ /\ db' = db
       /\ \/ pending' = {}
          \/ \E part \in SUBSET Merged(batch) : pending' = Replaced(pending, part)
       /\ lost' = lost \cup UNION ToSet(batch)

\* The task of the writer: what is there, up to a batch.
Consume ==
    /\ phase \in {"running", "stopping"} /\ thread["loop"].pc \in {"idle", "rolled"}
    /\ queue # <<>>
    /\ LET n == Min({BatchSize, Len(queue)})
       IN SaveBatch(SubSeq(queue, 1, n)) /\ queue' = SubSeq(queue, n + 1, Len(queue))
    /\ UNCHANGED <<memory, thread, handed, world, tally>>

\* Drops and gaps are saved over the same connection, with a commit of it.
SaveOthers ==
    /\ phase \in {"running", "stopping"} /\ thread["loop"].pc \in {"idle", "rolled", "drained"}
    /\ pending # {}
    /\ db' = Visible /\ pending' = {}
    /\ UNCHANGED <<memory, thread, queue, handed, lost, world, tally>>

-----------------------------------------------------------------------------
(* The server's life *)

\* The tasks are cancelled where they wait; then the last roll.
StopServer ==
    /\ phase = "running" /\ thread["loop"].pc = "idle"
    /\ phase' = "stopping"
    /\ Goes("loop", [Idle EXCEPT !.pc = "roll", !.after = "archive"])
    /\ UNCHANGED <<memory, writer, clock, starts, tally>>

\* MUTANT: the table is closed before the writer is stopped.
DrainedTooLate == UNCHANGED <<db, pending, lost>>

Drained == IF queue = <<>> THEN UNCHANGED <<db, pending, lost>> ELSE SaveBatch(queue)

\* stop() of the writer: what is left in the queue, at once.
StopWriter ==
    /\ phase = "stopping" /\ thread["loop"].pc = "rolled"
    /\ Drained
    /\ queue' = <<>>
    /\ Goes("loop", [Idle EXCEPT !.pc = "drained"])
    /\ UNCHANGED <<memory, handed, world, tally>>

\* The table is closed, and an open transaction is gone.
CloseServer ==
    /\ phase = "stopping" /\ thread["loop"].pc = "drained"
    /\ phase' = "stopped"
    /\ pending' = {}
    /\ UNCHANGED <<memory, thread, queue, db, handed, lost, clock, starts, tally>>

\* After a stop, or after a crash at any moment.
Restart ==
    /\ starts < MaxRuns
    /\ starts' = starts + 1
    /\ phase' = "running"
    /\ FreshMemory(clock)
    /\ UNCHANGED <<clock, db, records>>

-----------------------------------------------------------------------------
(* What the admin pages show *)

Sum(rows) == SumFunction([row \in rows |-> row.count])

\* The archived minutes in memory, and of the table those not in memory.
HistoryOf(t) ==
    Remembered(t) \cup {row \in Visible : row.topic = t /\ ~\E k \in Remembered(t) : k.minute = row.minute}

\* What the counters show of a topic, read without the lock: the archived
\* minutes and the current one, also when a roll has copied it already.
Shown(t) == Sum(Remembered(t)) + IF current[t] = NoSlot THEN 0 ELSE slots[current[t]].count

-----------------------------------------------------------------------------
TrafficNext ==
    \/ \E w \in Threads :
         \/ \E t \in Topics : Record(w, t)
         \/ EnterSlow(w) \/ CreateSlot(w) \/ Add(w) \/ Store(w)
         \/ EnterRoll(w) \/ Copy(w) \/ Clear(w)
    \/ MinutePasses \/ StartRoll \/ Consume \/ SaveOthers
    \/ StopServer \/ StopWriter \/ CloseServer \/ Restart

TrafficSpec == TrafficInit /\ [][TrafficNext]_trafficVars

-----------------------------------------------------------------------------
(* Properties *)

LetGo(t) == {row \in gone : row.topic = t}

\* The row of t that a roll has copied while its slot is still there.
Copied(t) ==
    {row \in UNION {thread[w].rows : w \in {v \in Threads : thread[v].pc = "clear"}} : row.topic = t}

\* Of what was recorded, the counters and the minutes that memory has let go
\* miss nothing but records that overlapped a roll, and have nothing twice but
\* the minute that a roll has copied and is about to clear; a minute is let go
\* only for Retention later ones; the cumulated count is exact for a topic that
\* one thread alone records ("自启动累计发布帧数 ... 数据面线程单写者").
CountedOnce ==
    \A t \in Topics :
        /\ Shown(t) + Sum(LetGo(t))
             \in entered[t] - overlap[t] .. entered[t] + Sum(Copied(t))
        /\ LetGo(t) # {} => Cardinality(Remembered(t)) >= Retention
        /\ \A old \in LetGo(t), row \in Remembered(t) : old.minute < row.minute
        /\ Cardinality(recorders[t]) <= 1 =>
              cum[t] + Cardinality({w \in Threads : thread[w].pc = "store" /\ thread[w].topic = t})
                = entered[t]

\* DOC traffic.py:47 ("roll_minute/snapshot 的读路径仍用锁保护"): who reads the
\* counters is kept out of a roll, and so never sees a record twice.
NeverShownTwice == \A t \in Topics : Shown(t) <= entered[t]

\* A stored minute is never replaced, by no second roll, no restart in the same
\* minute, no batch, no row of a transaction that failed half way; so memory and
\* table never contradict each other, and the admin view, which takes one row
\* for a minute, hides nothing of either.
RowsKept ==
    /\ [][db \subseteq db']_trafficVars
    /\ [](\A t \in Topics : HistoryOf(t) = {row \in deques \cup db \cup pending : row.topic = t})

\* After an orderly stop the table has every row that was handed to the writer,
\* except those it could not save or overwrote in the same batch.
NothingLeftBehind == phase = "stopped" => handed \ lost \subseteq db

=============================================================================
