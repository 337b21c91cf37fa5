--------------------------- MODULE KeyedDelivery ---------------------------
(***************************************************************************)
(* What a worker pool promises for key="topic" and for a key taken from    *)
(* the payload: the frames that share a key reach the callbacks in the     *)
(* order in which the pool accepted them.  Frames may be dropped, oldest   *)
(* first, when nothing subscribes to them any more or a worker goes away.  *)
(* A frame is its number in the order of acceptance.                       *)
(***************************************************************************)
EXTENDS Naturals

CONSTANTS Keys, Frames

VARIABLES
    pending,  \* pending[k]: accepted frames of key k that are not dealt with
    handled   \* the frames that reached a callback

vars == <<pending, handled>>

Init == pending = [k \in Keys |-> {}] /\ handled = {}

Known == handled \cup UNION {pending[k] : k \in Keys}

Accept(k) ==
    /\ UNCHANGED handled
    /\ \E f \in Frames :
         /\ \A g \in Known : g < f
         /\ pending' = [pending EXCEPT ![k] = @ \cup {f}]

Handle(k) ==
    \E f \in pending[k] :
       /\ \A g \in pending[k] : f <= g
       /\ handled' = handled \cup {f}
       /\ pending' = [pending EXCEPT ![k] = @ \ {f}]

\* What is left when some of the oldest are dropped.
Rest(fs) == {kept \in SUBSET fs : \A f \in fs \ kept, g \in kept : f < g}

Drop ==
    /\ UNCHANGED handled
    /\ DOMAIN pending' = Keys
    /\ \A k \in Keys : pending'[k] \in Rest(pending[k])

Next == Drop \/ \E k \in Keys : Accept(k) \/ Handle(k)

Spec == Init /\ [][Next]_vars
=============================================================================
