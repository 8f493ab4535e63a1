------------------------------- MODULE Service -------------------------------
(***************************************************************************)
(* What one daemon promises to the cluster, whatever happens to it: the    *)
(* addresses it holds change only in the phases of its life that the       *)
(* documentation describes.  A daemon is away from the group, gathers the  *)
(* state of the other members of a new view, waits until it is mature, or  *)
(* serves; while it gathers it keeps what it held and may only yield;      *)
(* leaving the group drops everything.  Module Daemon implements this.     *)
(***************************************************************************)
EXTENDS Integers

CONSTANT Vip   \* the virtual interfaces

VARIABLES
  phase,    \* "away", "gathering", "waiting", "serving" or "gone"
  mature,   \* the daemon may assume responsibilities in this session
  missing,  \* the members of the view it has not heard from
  held      \* the interfaces it holds

vars == <<phase, mature, missing, held>>

Present == {"gathering", "waiting", "serving"}

Init == phase = "away" /\ mature = FALSE /\ missing = {} /\ held = {}

\* A view of the group, also one that interrupts the gathering of another.
Join ==
  /\ phase # "gone" /\ phase' = "gathering"
  /\ missing' # {} /\ missing' \subseteq Nat \ {0}
  /\ UNCHANGED <<mature, held>>

\* A member that is heard may be mature, and may have the better claim.
Hear ==
  /\ phase = "gathering" /\ phase' = "gathering"
  /\ \E k \in missing : missing' = missing \ {k}
  /\ missing' # {}
  /\ (mature => mature') /\ held' \subseteq held

\* The last member is heard: the daemon decides, or waits with empty hands.
Decide ==
  /\ phase = "gathering" /\ phase' = IF mature' THEN "serving" ELSE "waiting"
  /\ \E k \in missing : missing = {k}
  /\ missing' = {}
  /\ (mature => mature')
  /\ held' \subseteq (IF mature' THEN Vip ELSE {})

\* The maturing interval is over, here or at a member.
Mature ==
  /\ phase \in {"gathering", "waiting"} /\ ~mature /\ mature'
  /\ IF phase = "gathering" THEN UNCHANGED <<phase, held>>
                            ELSE phase' = "serving" /\ held' \subseteq Vip
  /\ UNCHANGED missing

\* Only a daemon that serves moves interfaces to balance the load.
Rebalance ==
  /\ phase = "serving" /\ held' \subseteq Vip
  /\ UNCHANGED <<phase, mature, missing>>

\* The session ends, and with it everything it gave.
Dropped == mature' = FALSE /\ missing' = {}
Leave == phase \in Present /\ phase' = "away" /\ Dropped /\ held' = {}

\* The process ends; only a crash leaves interfaces up.
Stop == phase # "gone" /\ phase' = "gone" /\ Dropped /\ held' \in {{}, held}

Next == Join \/ Hear \/ Decide \/ Mature \/ Rebalance \/ Leave \/ Stop

Spec == Init /\ [][Next]_vars
=============================================================================
