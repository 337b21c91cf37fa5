------------------------------ MODULE Monitor ------------------------------
(***************************************************************************)
(* What the server knows about its own health and who reads it: drops and  *)
(* gaps by minute (stats/drops.py, stats/gaps.py), the window counters of  *)
(* the data thread (stats/dataplane.py), heartbeats and kicks              *)
(* (stats/health.py), what clients report to have processed                *)
(* (stats/throughput.py), the alert loop (server.py, alerts.py), and what  *)
(* the admin pages (admin/server.py), a thread of their own, read.         *)
(*                                                                         *)
(* Every operation of a statistics object holds its lock, or is straight-  *)
(* line code that is not interrupted (CPython); it is one step.  No rule   *)
(* of the alerts combines two objects, so one look at all of them is one   *)
(* step, too.  Time is relative: what is left of a cooldown, and the       *)
(* seconds since the last look; minutes are numbered by the rolls.         *)
(***************************************************************************)
EXTENDS Integers, Sequences, FiniteSets, FiniteSetsExt, SequencesExt

CONSTANTS
    Monitored,     \* the topics
    Clients,
    RulesOn,       \* rules whose limit is above 0, and heartbeat_kick, if it is set
    Cooldown,      \* alert_cooldown_s
    DropLimit,     \* drops of a minute,
    GapLimit,      \* gaps per minute,
    StarvedLimit,  \* and frames without credit per second that raise an alert
    Minute,        \* seconds of a minute
    Retained,      \* archived minutes kept of a topic (60)
    MaxDelay,      \* bounds, for TLC only: seconds the alert loop may be late,
    MaxEvents,     \* events to be counted,
    MaxRolls       \* minutes

ASSUME MonitorAssumption ==
    /\ IsFiniteSet(Monitored) /\ IsFiniteSet(Clients)
    /\ Cooldown \in Nat \ {0} /\ Retained \in Nat \ {0}
    /\ DropLimit \in Nat \ {0} /\ GapLimit \in Nat \ {0} /\ StarvedLimit \in Nat \ {0}
    /\ Minute \in Nat \ {0} /\ MaxDelay \in Nat \ {0}
    /\ MaxEvents \in Nat /\ MaxRolls \in Nat

VARIABLES
    stats,    \* stats[k][t]: drops and gaps: this minute's, all, the minutes'
    window,   \* of DataPlaneStats: starved frames, a stall, seconds since a look
    kicks,    \* kick_total and _alert_kick_base
    proc,     \* proc[c]: the entry of ClientProcStats: topic -> count_cum
    backlog,  \* a subscriber's buffer is older than alert_buffer_age_s
    alert,    \* the alert loop: rules to post, gaps at the last look, its age
    cool,     \* cool[r]: seconds in which rule r does not fire again
    events, rolls,
    happened, \* history: happened[k][t][m]: drops and gaps of minute m
    starved,  \* history: starved frames in all, and those readers were shown
    stalled,  \* history: a stall since the alert loop looked
    reported  \* history: reported[c][t]: what c reported since its entry was made

counters == <<stats, window, kicks, proc>>
observed == <<happened, starved, stalled, reported>>
monitorVars == <<counters, backlog, alert, cool, events, rolls, observed>>

-----------------------------------------------------------------------------
Kinds == {"drops", "gaps"}

Rules == {"drops_burst", "gap_burst", "buffer_backlog", "credit_starved",
          "dataplane_stall", "client_kicked"}

NoLook == -1
NoEntry == << >>

\* Minute m ends with roll m.
Minutes == 1 .. MaxRolls + 1

\* The cooldown compares the monotonic clock with 0 before the first alert: in
\* the first seconds after boot no rule fires.
MonitorInit ==
    /\ stats = [k \in Kinds |-> [t \in Monitored |-> [current |-> 0, cum |-> 0, minutes |-> <<>>]]]
    /\ window = [starved |-> 0, stall |-> FALSE, age |-> 0]
    /\ kicks = [total |-> 0, base |-> 0]
    /\ proc = [c \in Clients |-> NoEntry]
    /\ backlog = FALSE
    /\ alert = [post |-> {}, gaps |-> NoLook, age |-> 0]
    /\ \E left \in 0 .. Cooldown : cool = [r \in Rules |-> left]
    /\ events = 0 /\ rolls = 0
    /\ starved = [all |-> 0, shown |-> 0]
    /\ stalled = FALSE
    /\ happened = [k \in Kinds |-> [t \in Monitored |-> [m \in Minutes |-> 0]]]
    /\ reported = [c \in Clients |-> [t \in Monitored |-> 0]]

Total(k, field) == SumFunction([t \in Monitored |-> stats[k][t][field]])

Event == events < MaxEvents /\ events' = events + 1

-----------------------------------------------------------------------------
(* What is counted *)

Counts(k, t) ==
    /\ stats' = [stats EXCEPT ![k][t].current = @ + 1, ![k][t].cum = @ + 1]
    /\ happened' = [happened EXCEPT ![k][t][rolls + 1] = @ + 1]

\* A broadcast, a buffer or a consumer drops a frame.
RecordDrop(t) ==
    /\ Event
    /\ Counts("drops", t)
    /\ UNCHANGED <<window, kicks, proc, backlog, alert, cool, rolls, starved, stalled, reported>>

RecordStarved ==
    /\ Event
    /\ window' = [window EXCEPT !.starved = @ + 1]
    /\ starved' = [starved EXCEPT !.all = @ + 1]
    /\ UNCHANGED <<stats, kicks, proc, backlog, alert, cool, rolls, happened, stalled, reported>>

\* A turn of the data thread that takes loop_stall_ms or more.
RecordStall ==
    /\ Event
    /\ window' = [window EXCEPT !.stall = TRUE]
    /\ stalled' = TRUE
    /\ UNCHANGED <<stats, kicks, proc, backlog, alert, cool, rolls, happened, starved, reported>>

Carried(entry, t) == IF t \in DOMAIN entry THEN entry[t] ELSE 0

\* A heartbeat reports frames processed of some topics and, it may be, a gap.
\* The entry keeps only the topics of this heartbeat; their counts go on from
\* what it had.
Heartbeat(c, ts, gap) ==
    /\ Event
    /\ proc' = IF ts = {} THEN proc
               ELSE [proc EXCEPT ![c] = [t \in ts |-> Carried(@, t) + 1]]
    /\ reported' = [reported EXCEPT ![c] =
                        [t \in Monitored |-> IF t \in ts THEN @[t] + 1 ELSE @[t]]]
    /\ \/ gap /\ \E t \in Monitored : Counts("gaps", t)
       \/ ~gap /\ UNCHANGED <<stats, happened>>
    /\ UNCHANGED <<window, kicks, backlog, alert, cool, rolls, starved, stalled>>

Kicked == [kicks EXCEPT !.total = @ + 1]

\* DISCONNECT, or, kicked, the heartbeat sweep.
Gone(c, kicked) ==
    /\ Event
    /\ kicks' = IF kicked THEN Kicked ELSE kicks
    /\ proc' = [proc EXCEPT ![c] = NoEntry]
    /\ reported' = [reported EXCEPT ![c] = [t \in Monitored |-> 0]]
    /\ UNCHANGED <<stats, window, backlog, alert, cool, rolls, happened, starved, stalled>>

Backlog ==
    /\ backlog' = ~backlog
    /\ UNCHANGED <<counters, alert, cool, events, rolls, observed>>

\* Rolls are numbered; the number stands for the minute the clock shows then,
\* which the row is labelled with.
Row(s) == [minute |-> rolls + 1, count |-> s.current]

\* deque(maxlen): the oldest row goes when there are too many.
Newest(minutes) == IF Len(minutes) > Retained THEN Tail(minutes) ELSE minutes

\* MUTANT: the counts of the minute stay when it is archived.
RolledKept(s) ==
    IF s.current > 0 THEN [s EXCEPT !.minutes = Newest(Append(@, Row(s)))] ELSE s

Rolled(s) ==
    IF s.current > 0 THEN [s EXCEPT !.current = 0, !.minutes = Newest(Append(@, Row(s)))] ELSE s

\* Minutes without a count leave no row.
RollMinute ==
    /\ rolls < MaxRolls
    /\ rolls' = rolls + 1
    /\ stats' = [k \in Kinds |-> [t \in Monitored |-> Rolled(stats[k][t])]]
    /\ UNCHANGED <<window, kicks, proc, backlog, alert, cool, events, observed>>

-----------------------------------------------------------------------------
(* DataPlaneStats.snapshot(): the window begins again for whoever looks *)

NewWindow == [starved |-> 0, stall |-> FALSE, age |-> 0]

Looked ==
    /\ window' = NewWindow
    /\ starved' = [starved EXCEPT !.shown = @ + window.starved]

-----------------------------------------------------------------------------
(* The alert loop: _alert_snapshot() and check() *)

\* drops_last_min: of the last minute that had any.
LastMinute(s) == IF s.minutes = <<>> THEN 0 ELSE Last(s.minutes).count

GapDelta == Total("gaps", "cum") - alert.gaps

KickDelta == kicks.total - kicks.base

\* Rates are compared without dividing.
Reached(r) ==
    CASE r = "drops_burst" ->
             SumFunction([t \in Monitored |-> LastMinute(stats["drops"][t])]) >= DropLimit
      [] r = "gap_burst" ->
             alert.gaps # NoLook /\ GapDelta * Minute >= GapLimit * Max({1, alert.age})
      [] r = "buffer_backlog" -> backlog
      [] r = "credit_starved" -> window.starved >= StarvedLimit * Max({1, window.age})
      [] r = "dataplane_stall" -> window.stall
      [] r = "client_kicked" -> KickDelta > 0

\* A limit of 0 turns a rule off.
Holds(r) == r \in RulesOn /\ Reached(r)

Fires(r) == Holds(r) /\ cool[r] = 0

\* MUTANT: an alert that is held back begins the cooldown anew.
CooledAnew(r) == IF Holds(r) THEN Cooldown ELSE cool[r]

Cooled(r) == IF Fires(r) THEN Cooldown ELSE cool[r]

\* One look and all rules; the webhook is called rule by rule, and awaited.
Check ==
    /\ alert.post = {}
    /\ alert' = [post |-> {r \in Rules : Fires(r)}, gaps |-> Total("gaps", "cum"), age |-> 0]
    /\ cool' = [r \in Rules |-> Cooled(r)]
    /\ kicks' = [kicks EXCEPT !.base = kicks.total]
    /\ Looked
    /\ stalled' = FALSE
    /\ UNCHANGED <<stats, proc, backlog, events, rolls, happened, reported>>

\* Delivered, refused or timed out.
Post ==
    /\ \E r \in alert.post : alert' = [alert EXCEPT !.post = @ \ {r}]
    /\ UNCHANGED <<counters, backlog, cool, events, rolls, observed>>

Tick ==
    /\ alert.age < MaxDelay /\ window.age < MaxDelay
    /\ alert' = [alert EXCEPT !.age = @ + 1]
    /\ window' = [window EXCEPT !.age = @ + 1]
    /\ cool' = [r \in Rules |-> Max({0, cool[r] - 1})]
    /\ UNCHANGED <<stats, kicks, proc, backlog, events, rolls, observed>>

-----------------------------------------------------------------------------
(* What the admin pages show *)

\* Once a second, whether anybody views the stream or not, and with every request
\* for the snapshot or the metrics.
Scrape ==
    /\ Looked
    /\ UNCHANGED <<stats, kicks, proc, backlog, alert, cool, events, rolls, happened, stalled, reported>>

\* Over the clients whose last report is fresh.
Processed(t, fresh) ==
    SumFunction([c \in fresh |-> IF t \in DOMAIN proc[c] THEN proc[c][t] ELSE 0])

Reconciled(t, fresh) ==
    [processed |-> Processed(t, fresh), dropped |-> stats["drops"][t].cum,
     missing |-> stats["gaps"][t].cum]

\* history(asked): of the minutes asked for, the archived ones and the one under
\* way, at the minute the clock shows; should there be a row of that minute
\* already, it takes its place.
Curve(k, t, now, asked) ==
    LET s == stats[k][t]
        rows == ToSet(s.minutes)
        shown == {r.minute : r \in rows} \cup (IF s.current > 0 THEN {now} ELSE {})
    IN [m \in {n \in shown : n > now - asked} |->
            IF m = now /\ s.current > 0 THEN s.current
            ELSE (CHOOSE r \in rows : r.minute = m).count]

\* From one roll to the next the clock shows two minutes.
Clock == {rolls, rolls + 1}

-----------------------------------------------------------------------------
MonitorNext ==
    \/ \E t \in Monitored : RecordDrop(t)
    \/ RecordStarved \/ RecordStall \/ Backlog \/ RollMinute
    \/ \E c \in Clients :
         \/ \E ts \in SUBSET Monitored, gap \in BOOLEAN : Heartbeat(c, ts, gap)
         \/ \E kicked \in BOOLEAN : Gone(c, kicked)
    \/ Check \/ Post \/ Tick \/ Scrape

\* Time passes, the alert loop runs every second, the webhook call ends by its
\* time limit.
MonitorSpec ==
    /\ MonitorInit /\ [][MonitorNext]_monitorVars
    /\ WF_monitorVars(Tick) /\ WF_monitorVars(Check) /\ WF_monitorVars(Post)

-----------------------------------------------------------------------------
(* Properties *)

Point(curve, m) == IF m \in DOMAIN curve THEN curve[m] ELSE 0

\* The numbers of the admin pages agree with what happened.  Asked for no more
\* minutes than are retained, the curve shows of every minute what was counted in
\* it, but for the minute the clock shows, should it have been rolled already; the
\* cumulated drops and gaps of the reconciliation are those of all minutes; no
\* topic is credited with more than its clients reported, whichever of them are
\* fresh; each starved frame is shown to one of the readers of the window.
EachCountedOnce ==
    /\ \A k \in Kinds, t \in Monitored, now \in Clock, asked \in 1 .. Retained, m \in 1 .. rolls + 1 :
          LET curve == Curve(k, t, now, asked)
          IN IF m = rolls + 1
             THEN happened[k][t][m] > 0 => Point(curve, now) = happened[k][t][m]
             ELSE m > now - asked /\ m # now => Point(curve, m) = happened[k][t][m]
    /\ \A t \in Monitored, fresh \in SUBSET Clients :
          LET shown == Reconciled(t, fresh)
          IN /\ shown.dropped = SumFunction(happened["drops"][t])
             /\ shown.missing = SumFunction(happened["gaps"][t])
             /\ shown.processed <= SumFunction([c \in fresh |-> reported[c][t]])
    /\ starved.all = starved.shown + window.starved

\* A backlog that stays raises an alert, again and again, if the rule is on,
\* whatever else is alerted, however slow the webhook is and whoever looks at the
\* statistics.
BacklogAlerts ==
    backlog /\ "buffer_backlog" \in RulesOn ~> (~backlog \/ "buffer_backlog" \in alert.post)

\* DOC (README.md:369-371, a stall of the data plane is a built-in rule with an
\* alert): a stall is alerted at the next look, if the rule is on and not cooling
\* down.  The code gives the stall to whoever looks at the window first, and the
\* stream of the admin pages looks as often as the alert loop.
StallsAlert ==
    [][Check /\ stalled /\ "dataplane_stall" \in RulesOn /\ cool["dataplane_stall"] = 0
          => "dataplane_stall" \in alert'.post]_monitorVars

\* DOC (stats/drops.py:26): drops_last_min is what was dropped in the last complete
\* minute.  The code takes the last row, and a minute without drops has none.
LastMinuteIsLast ==
    \A t \in Monitored :
        LastMinute(stats["drops"][t]) = IF rolls = 0 THEN 0 ELSE happened["drops"][t][rolls]
=============================================================================
