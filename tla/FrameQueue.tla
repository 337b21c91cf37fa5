----------------------------- MODULE FrameQueue -----------------------------
(***************************************************************************)
(* What a ring promises to the consumer's receive loop and to the worker   *)
(* behind it: a FIFO queue of whole frames.  A frame that is accepted is   *)
(* taken out once, unaltered, after those accepted before it; frames come  *)
(* out in batches, and as long as there are any the worker takes some.     *)
(***************************************************************************)
EXTENDS Naturals, Sequences

CONSTANTS Frames, MaxItems

VARIABLES accepted, delivered

vars == <<accepted, delivered>>

Init == accepted = <<>> /\ delivered = <<>>

Put ==
    /\ \E f \in Frames : accepted' = Append(accepted, f)
    /\ UNCHANGED delivered

Take ==
    /\ \E n \in Len(delivered) + 1 .. Len(accepted) :
         /\ n <= Len(delivered) + MaxItems
         /\ delivered' = SubSeq(accepted, 1, n)
    /\ UNCHANGED accepted

Next == Put \/ Take

Spec == Init /\ [][Next]_vars /\ WF_vars(Take)
=============================================================================
