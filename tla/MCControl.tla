----------------------------- MODULE MCControl -----------------------------
(***************************************************************************)
(* A consumer with a buffer and a publisher, which share a user name when  *)
(* the configuration has one user.  With two, the publisher's client id is *)
(* started under both.                                                     *)
(***************************************************************************)
EXTENDS ControlPlane

CONSTANTS consumer, publisher, p, u, v

SameUser == [c \in Clients |-> Users]

SecondUser == [c \in Clients |-> IF c = publisher THEN {u, v} ELSE {u}]

NoWants == [c \in Clients |-> {}]

ConsumerWants == [c \in Clients |-> IF c = consumer THEN {p} ELSE {}]

MCMaxChan == [c \in Clients |-> IF c = consumer THEN 2 ELSE 1]
=============================================================================
