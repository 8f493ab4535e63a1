------------------------------- MODULE Cluster -------------------------------
(***************************************************************************)
(* Several wackamole daemons in one Spread group.  Spread is external code *)
(* and is modelled by what the daemons rely on: it delivers to every       *)
(* member of a view the same sequence of messages, in which a new view     *)
(* takes its place like a message.  Any set of connected daemons can form  *)
(* the next view: members join, leave, partition and merge.                *)
(*                                                                         *)
(* A message is ordered when it is sent, in the last view queued for the   *)
(* session of its sender, which the sender may not have received yet; a    *)
(* daemon sends nothing before Spread has queued its first view.  (A later *)
(* ordering is the same as a later step of the sender.)  ARP cache         *)
(* messages change no state modelled here and are left out.                *)
(***************************************************************************)
EXTENDS Wackamole

CONSTANTS
  Components,  \* bound: the sets of daemons that may form a view
  MaxViews,    \* bound: views installed
  MaxFaults,   \* bound: sessions lost or refused
  MaxEvents,   \* bound: views and faults together
  MaxBalances  \* bound: balance messages under way from one daemon

ASSUME ClusterAssumption ==
  /\ Address \subseteq Nat /\ IsFiniteSet(Address)
  /\ Components \subseteq (SUBSET Address) \ {{}}
  /\ MaxViews \in Nat /\ MaxFaults \in Nat /\ MaxEvents \in Nat
  /\ MaxBalances \in Nat

VARIABLES
  node,    \* the daemons
  view,    \* the last view Spread has queued for each session
  inbox,   \* what Spread has ordered and each daemon has not received yet
  views,   \* number of views installed
  faults   \* number of sessions lost or refused

vars == <<node, view, inbox, views, faults>>

NoView == [gid |-> 0, members |-> {}]

Init ==
  /\ node = [a \in Address |-> InitialDaemon(a)]
  /\ view = [a \in Address |-> NoView]
  /\ inbox = [a \in Address |-> <<>>]
  /\ views = 0 /\ faults = 0

Running(a) == node[a].exit = "no"

\* A message on its way, with its sender and the view the sender was in.
Envelope(t, m) == [from |-> t.me, gid |-> t.gid, body |-> m]

\* What daemon t sent to the group in a step: no handler sends two of these.
Posted(t) ==
  LET sent == Sent(t, "state") \cup Sent(t, "mature") \cup Sent(t, "balance")
  IN  IF sent = {} THEN <<>> ELSE <<Envelope(t, t.out[CHOOSE i \in sent : TRUE])>>

\* Daemon a runs a handler that may leave any daemon of S, its inbox being box.
Handle(a, S, box) ==
  \E t \in S :
    /\ node' = [node EXCEPT ![a] = [t EXCEPT !.out = <<>>]]
    /\ IF SameSession(t)
       THEN /\ Posted(t) # <<>> => view[a] # NoView
            /\ inbox' = [b \in Address |->
                 (IF b = a THEN box ELSE inbox[b])
                   \o (IF view[b] = view[a] THEN Posted(t) ELSE <<>>)]
            /\ UNCHANGED <<view, faults>>
       ELSE /\ inbox' = [inbox EXCEPT ![a] = <<>>]
            /\ view' = [view EXCEPT ![a] = NoView]
            /\ faults' = IF t.exit # "assert" /\ (t.out[1] = Leave \/ node[a].mbox)
                         THEN faults + 1 ELSE faults
            /\ faults' <= MaxFaults /\ views + faults' <= MaxEvents

Local(a, S) == Running(a) /\ Handle(a, S, inbox[a]) /\ UNCHANGED views

-----------------------------------------------------------------------------
(* Spread. *)

\* The members of a view are listed in the order of their addresses.
Rank(S, a) == Cardinality({b \in S : b <= a})

InstallView(S) ==
  /\ views < MaxViews /\ views + faults < MaxEvents
  /\ \A a \in S : node[a].mbox
  /\ views' = views + 1
  /\ view' = [a \in Address |->
       IF a \in S THEN [gid |-> views + 1, members |-> S] ELSE view[a]]
  /\ inbox' = [a \in Address |->
       IF a \in S
       THEN Append(inbox[a], [from |-> a, gid |-> views + 1,
                              body |-> [kind |-> "view", gid |-> views + 1,
                                        n |-> Cardinality(S), idx |-> Rank(S, a)]])
       ELSE inbox[a]]
  /\ UNCHANGED <<node, faults>>

-----------------------------------------------------------------------------
(* The daemons. *)

ReceiveNext(a) ==
  /\ Running(a) /\ inbox[a] # <<>>
  /\ Handle(a, Receive(node[a], Head(inbox[a]).body), Tail(inbox[a]))
  /\ UNCHANGED views

Boot(a) == node[a] = InitialDaemon(a) /\ Local(a, Start(node[a]))

TurnMatureFires(a) == node[a].tMature /\ Local(a, TurnMature(node[a]))

BalancesUnderWay(a) ==
  Cardinality({i \in DOMAIN inbox[a] :
                 inbox[a][i].from = a /\ inbox[a][i].body.kind = "balance"})

BalanceFires(a) ==
  /\ node[a].tBalance /\ BalancesUnderWay(a) < MaxBalances
  /\ Local(a, BalanceTimer(node[a]))

RetryFires(a) ==
  node[a].tRetry /\ ~node[a].lock /\ Local(a, RetryTimer(node[a]))

\* wackatrl -f and -s.  (The errors of SP_receive are a subject of module Daemon.)
Fail(a) ==
  faults < MaxFaults /\ node[a].mbox /\ Local(a, ServiceFailure(node[a]))
Recover(a) == node[a].lock /\ Local(a, ServiceSuccess(node[a]))

Kill(a) == faults < MaxFaults /\ node[a].mbox /\ Local(a, {Signal(node[a])})

Next ==
  \/ \E S \in Components : InstallView(S)
  \/ \E a \in Address :
       \/ ReceiveNext(a)
       \/ Boot(a) \/ TurnMatureFires(a) \/ BalanceFires(a) \/ RetryFires(a)
       \/ Fail(a) \/ Recover(a) \/ Kill(a)

Spec == Init /\ [][Next]_vars

(***************************************************************************)
(* Fairness: a daemon with a message reads it, and its timers fire.  Views *)
(* and faults are owed nothing, and there are finitely many of them.       *)
(***************************************************************************)
Fairness ==
  \A a \in Address :
    /\ WF_vars(ReceiveNext(a)) /\ WF_vars(TurnMatureFires(a))
    /\ WF_vars(BalanceFires(a)) /\ WF_vars(RetryFires(a))

FairSpec == Spec /\ Fairness

-----------------------------------------------------------------------------
(* Properties. *)

TypeOK ==
  /\ node \in [Address -> DaemonType]
  /\ \A a \in Address : DOMAIN node[a].num = DOMAIN node[a].ip
  /\ view \in [Address -> [gid : 0..MaxViews, members : SUBSET Address]]
  /\ \A a \in Address : \A i \in DOMAIN inbox[a] : inbox[a][i].gid \in 0..MaxViews
  /\ views \in 0..MaxViews /\ faults \in 0..MaxFaults

\* Daemon a is in RUN in the view it last received.  (A mature daemon has not
\* reconnected since: Balance leaves RUN behind when its multicast fails.)
InRun(a) == Running(a) /\ node[a].mbox /\ node[a].mat /\ node[a].state = "RUN"

\* Members of one view that have received the same messages of it agree on who
\* serves what, on how firmly, and on how many each member serves ("a consistent
\* state that is agreed upon", README): every later decision is computed from
\* these by each member alone.
Agreement ==
  \A a, b \in Address :
    InRun(a) /\ InRun(b) /\ node[a].gid = node[b].gid /\ inbox[a] = inbox[b] =>
      /\ node[a].owner = node[b].owner
      /\ node[a].prio = node[b].prio
      /\ node[a].num = node[b].num
      /\ node[a].ip = node[b].ip

\* Every member of the last view of a is still in it, and they all run in it
\* with nothing left to read.
Intact(a) == view[a] # NoView /\ \A b \in view[a].members : view[b] = view[a]
Settled(a) ==
  Intact(a) /\ \A b \in view[a].members :
                 InRun(b) /\ node[b].gid = view[a].gid /\ inbox[b] = <<>>

\* "all of the public IP addresses served by the cluster will be covered by
\* exactly one Wackamole instance" (README), in every settled component.
CoveredOnce ==
  \A a \in Address : Settled(a) =>
    \A v \in Vip : Cardinality({b \in view[a].members : v \in node[b].up}) = 1

\* The interfaces up at a running daemon are those its table gives it.
UpMatchesTable ==
  \A a \in Address : InRun(a) => node[a].up = {v \in Vip : node[a].owner[v] = a}

\* A balance message changes a table only in the view its sender computed it in.
BalanceInItsView ==
  [][\A a \in Address :
       /\ ReceiveNext(a) /\ Head(inbox[a]).body.kind = "balance"
       /\ node'[a].owner # node[a].owner
       => Head(inbox[a]).gid = node[a].gid]_vars

\* Loads that differ by one or less, as Members[] of daemon a counts them.
Balanced(a) ==
  \A b, c \in view[a].members :
    Cardinality(node[b].up) - Cardinality(node[c].up) <= 1

\* A component that stays intact settles: all its members run, once and for all
\* while nothing is under way, whatever was delivered before.
EventuallySettles ==
  \A a \in Address : <>[]Intact(a) => []<>Settled(a)

\* "if the number of virtual IP addresses acquired by any two machines does
\* differ by more than one, Wackamole will work towards making the them differ
\* by one or less" (README).
EventuallyBalanced ==
  \A a \in Address : <>[]Intact(a) => <>[]Balanced(a)
=============================================================================
