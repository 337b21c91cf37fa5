--------------------------- MODULE PublishService ---------------------------
(***************************************************************************)
(* What publish(confirm=True) promises.  A call is accepted at most once,  *)
(* with the next number of its topic; a call that returns, returns that    *)
(* number; a call that times out may have been accepted, or be so yet.     *)
(***************************************************************************)
EXTENDS Integers, Sequences

CONSTANTS Topics, Unconfirmed

VARIABLES
    seq,   \* seq[t]: the number of the last frame accepted for t
    calls  \* the calls: topic, number (0: not accepted) and outcome

vars == <<seq, calls>>

Open == 0       \* outcome of a call that has not ended
TimedOut == -1

Init == seq = [t \in Topics |-> 0] /\ calls = <<>>

Call(t) ==
    /\ calls' = Append(calls, [topic |-> t, number |-> 0, outcome |-> Open])
    /\ UNCHANGED seq

\* A frame of a call, or one that is published without confirmation.
Accept(c) ==
    /\ calls[c].number = 0
    /\ seq' = [seq EXCEPT ![calls[c].topic] = @ + 1]
    /\ calls' = [calls EXCEPT ![c].number = seq'[calls[c].topic]]

AcceptOther(t) ==
    /\ Unconfirmed
    /\ seq' = [seq EXCEPT ![t] = @ + 1]
    /\ UNCHANGED calls

Return(c) ==
    /\ calls[c].outcome = Open /\ calls[c].number # 0
    /\ calls' = [calls EXCEPT ![c].outcome = calls[c].number]
    /\ UNCHANGED seq

TimeOut(c) ==
    /\ calls[c].outcome = Open
    /\ calls' = [calls EXCEPT ![c].outcome = TimedOut]
    /\ UNCHANGED seq

Next ==
    \/ \E t \in Topics : Call(t) \/ AcceptOther(t)
    \/ \E c \in 1 .. Len(calls) : Accept(c) \/ Return(c) \/ TimeOut(c)

Spec == Init /\ [][Next]_vars
=============================================================================
