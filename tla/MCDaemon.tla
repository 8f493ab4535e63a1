------------------------------ MODULE MCDaemon ------------------------------
(* Instances of Daemon for TLC: addresses are model values. *)
EXTENDS Daemon

CONSTANTS me, peer, other

MCAddress == {me, peer, other}
\* Interface 1 is preferred by this daemon and by a peer, the last by the other.
MCPrefer  == [a \in MCAddress |-> IF a = other THEN {NumVip} ELSE {1}]
=============================================================================
