----------------------------- MODULE MCConsumer -----------------------------
(***************************************************************************)
(* Two workers with rings of one frame, two topics, one of them hashed to  *)
(* each worker, and a key value hashed to the second: three frames find a  *)
(* full ring, come with and without a key, and leave holes.                *)
(***************************************************************************)
EXTENDS Consumer

CONSTANTS t1, t2, k1

MCWorkerOf == t1 :> 0 @@ t2 :> 1 @@ k1 :> 1
=============================================================================
