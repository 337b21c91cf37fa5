---------------------------- MODULE MCDataPlane ----------------------------
(***************************************************************************)
(* One publisher and two subscribers with pipes of one frame: the tokens   *)
(* come round, a confirmation may find the pipe full, a subscriber slow.   *)
(***************************************************************************)
EXTENDS DataPlane
=============================================================================
