--------------------------- MODULE MCMinuteStats ---------------------------
(***************************************************************************)
(* Two topics that both threads record, three minutes and a restart; the   *)
(* clock is looked at every second record.                                 *)
(***************************************************************************)
EXTENDS MinuteStats
=============================================================================
