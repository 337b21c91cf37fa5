---------------------------- MODULE MCBuffering ----------------------------
(***************************************************************************)
(* Two small frames of one topic and a frame of another that is larger     *)
(* than the buffer may be, in any order.                                   *)
(***************************************************************************)
EXTENDS Buffering

CONSTANTS small, huge

MCSize == [t \in Topics |-> IF t = small THEN 1 ELSE 4]

MCMaxFrames == [t \in Topics |-> IF t = small THEN 2 ELSE 1]
=============================================================================
