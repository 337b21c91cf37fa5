----------------------------- MODULE MCAccounts -----------------------------
(***************************************************************************)
(* Two users, two passwords, two commands at the same time and a server    *)
(* that starts twice.  One handler: handlers only read the store.          *)
(***************************************************************************)
EXTENDS Accounts, TLC

Symmetry == Permutations(Commands) \cup Permutations(Passwords)
=============================================================================
