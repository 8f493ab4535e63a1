------------------------------ MODULE MCCluster ------------------------------
(* Instances of Cluster for TLC: addresses are numbers, 0 is nobody. *)
EXTENDS Cluster

CONSTANT Size

MCAddress == 1..Size
\* No daemon prefers anything; the first two prefer interface 1; the first
\* prefers all but two.
NoWish     == [a \in MCAddress |-> {}]
SharedWish == [a \in MCAddress |-> IF a <= 2 THEN {1} ELSE {}]
GreedyWish == [a \in MCAddress |-> IF a = 1 THEN 1..(NumVip - 2) ELSE {}]

\* The sets of daemons that may form a view: any; daemon 2 alone and then with
\* daemon 3; daemon 1 alone and then with daemon 2.
AnyComponent == (SUBSET MCAddress) \ {{}}
CutAndMerge  == {{2}, {2, 3}}
OneThenTwo   == {{1}, {1, 2}}

(***************************************************************************)
(* A start from a cluster that has formed: the daemons of S have connected,*)
(* are in view 1 and have exchanged their state messages, the last member  *)
(* first, and none is mature yet; the others have not been started.  It is *)
(* the state that Init reaches by Boot, InstallView and ReceiveNext steps, *)
(* computed by their handlers.                                             *)
(***************************************************************************)
Only(S) == CHOOSE t \in S : TRUE
\* The outcome of a handler whose two calls to Spread both succeeded.
Sending(S, first) == Only({t \in S : Len(t.out) = 2 /\ t.out[1].kind = first})
Quiet(t) == [t EXCEPT !.out = <<>>]
Viewed(S, a) ==
  Sending(Receive(Quiet(Sending(Start(InitialDaemon(a)), "join")),
                  [kind |-> "view", gid |-> 1, n |-> Cardinality(S),
                   idx |-> Rank(S, a)]), "state")
Gathered(S, a) ==
  LET heard[k \in 0..Cardinality(S)] ==
        IF k = 0 THEN Quiet(Viewed(S, a))
        ELSE LET b == CHOOSE b \in S : Rank(S, b) = Cardinality(S) + 1 - k
             IN  Only(Receive(heard[k - 1], Viewed(S, b).out[1]))
  IN  heard[Cardinality(S)]

Formed(S) ==
  /\ node = [a \in Address |-> IF a \in S THEN Gathered(S, a) ELSE InitialDaemon(a)]
  /\ view = [a \in Address |-> IF a \in S THEN [gid |-> 1, members |-> S] ELSE NoView]
  /\ inbox = [a \in Address |-> <<>>]
  /\ views = 1 /\ faults = 0

FormedSpec == Formed(Address) /\ [][Next]_vars
\* All of them, or all but the last, which may join.
JoiningSpec ==
  (Formed(Address) \/ Formed(Address \ {Size})) /\ [][Next]_vars
FormedFairSpec == FormedSpec /\ Fairness
=============================================================================
