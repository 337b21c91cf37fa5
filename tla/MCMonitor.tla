----------------------------- MODULE MCMonitor -----------------------------
(***************************************************************************)
(* Two topics and a client; two events, a cooldown of two seconds, one     *)
(* archived minute that is kept, and an alert loop that may be late.       *)
(***************************************************************************)
EXTENDS Monitor
=============================================================================
