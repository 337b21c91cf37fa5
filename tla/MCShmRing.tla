----------------------------- MODULE MCShmRing -----------------------------
(***************************************************************************)
(* A ring that takes two or three records, so that five wrap it twice or   *)
(* more, with odd and even lengths: after some of them fewer bytes than a  *)
(* length takes are left before the end.                                   *)
(***************************************************************************)
EXTENDS ShmRing
=============================================================================
