-------------------------------- MODULE Daemon --------------------------------
(***************************************************************************)
(* One wackamole daemon among arbitrary peers.  The environment is what    *)
(* Spread and the other daemons may do: deliver a view, the state message  *)
(* of each member of the view once and the daemon's own in its turn,       *)
(* maturing and balance messages at any time, fail a call, or refuse a     *)
(* session.  What is assumed of the peers is stated by three constants,    *)
(* each of which a run relaxes.                                            *)
(***************************************************************************)
EXTENDS Wackamole

CONSTANTS
  Me,          \* the address of the daemon
  MaxMembers,  \* bound: members of a view
  MaxViews,    \* bound: views delivered
  MaxFaults,   \* bound: sessions lost or refused
  ErrorAfter,  \* SP_receive may fail when the last message was of these kinds
  OneRival,    \* of the addresses held here at most one peer of a view claims each
  FreshMoves   \* no move gives an interface to the member that has it

ASSUME MeAssumption == Me \in Address
ASSUME BoundAssumption == MaxMembers \in Nat \ {0} /\ MaxViews \in Nat /\ MaxFaults \in Nat
ASSUME RelyAssumption ==
  /\ ErrorAfter \subseteq MessageKind
  /\ OneRival \in BOOLEAN /\ FreshMoves \in BOOLEAN

VARIABLES
  d,        \* the daemon
  inView,   \* the session has delivered a view
  own,      \* the state message sent in this view, until it is delivered
  heard,    \* the member indices whose state message was delivered in this view
  maturing, \* a MATURING message of this daemon is under way
  views,    \* number of views delivered
  faults    \* number of sessions lost or refused

vars == <<d, inView, own, heard, maturing, views, faults>>

NoMessage == [kind |-> "none"]

Init ==
  /\ d = InitialDaemon(Me)
  /\ inView = FALSE /\ own = NoMessage /\ heard = {} /\ maturing = FALSE
  /\ views = 0 /\ faults = 0

Running == d.exit = "no"
Started == d # InitialDaemon(Me)   \* main has made the first connection attempt

\* The handler that left t ended a session, or was refused one.
SessionLost(t) ==
  t.exit # "assert" /\ ~SameSession(t) /\ (t.out[1] = Leave \/ d.mbox)

(***************************************************************************)
(* The daemon runs a handler that may leave any daemon of S.  Its calls to *)
(* Spread are carried out: a session that ends takes with it the view and  *)
(* the messages under way (v, h, o and m: inView, heard, own and maturing  *)
(* if it does not), and what was sent is delivered by later actions.       *)
(***************************************************************************)
Handle(S, v, h, o, m) ==
  \E t \in S :
    /\ d' = [t EXCEPT !.out = <<>>]
    /\ faults' = IF SessionLost(t) THEN faults + 1 ELSE faults
    /\ faults' <= MaxFaults
    /\ inView' = (v /\ SameSession(t))
    /\ heard' = IF SameSession(t) THEN h ELSE {}
    /\ own' = CASE ~SameSession(t) -> NoMessage
                [] SameSession(t) /\ Sent(t, "state") = {} -> o
                [] OTHER -> t.out[CHOOSE i \in Sent(t, "state") : TRUE]
    /\ maturing' = (Sent(t, "mature") # {} \/ (m /\ SameSession(t)))

-----------------------------------------------------------------------------
(* Messages.  A view has MaxMembers members at most, this daemon at idx. *)

View(n, idx) ==
  /\ Running /\ d.mbox /\ views < MaxViews
  /\ views' = views + 1
  /\ Handle(Receive(d, [kind |-> "view", gid |-> views + 1, n |-> n, idx |-> idx]),
            TRUE, {}, NoMessage, maturing)

\* A message of the group is delivered, to a member of a view.
Deliver(m, h, o, r) ==
  Running /\ inView /\ Handle(Receive(d, m), TRUE, h, o, r) /\ UNCHANGED views

OwnState == own # NoMessage /\ Deliver(own, heard \cup {own.idx}, NoMessage, maturing)

\* State messages a peer may send: an immature daemon holds nothing.
PeerMessages(idx, from) ==
  {m \in [kind : {"state"}, gid : {d.gid}, from : {from}, idx : {idx}, mat : BOOLEAN,
          claims : UNION {[V -> {CLAIMED, PREFER_CLAIMED}] : V \in SUBSET Vip},
          prefer : {Prefer[from]}] :
     m.mat \/ m.claims = <<>>}

\* An address held here has been claimed by another daemon in this view.
Rivalled(v) == v \in Held(d) /\ own # NoMessage /\ d.prio[v] \notin {UNCLAIMED, PREFER}

PeerState(idx) ==
  /\ idx \in DOMAIN d.ip \ (heard \cup {d.idx})
  /\ \E from \in Address \ {Me} : \E m \in PeerMessages(idx, from) :
       /\ \A k \in heard : d.ip[k] # from
       /\ OneRival => \A v \in DOMAIN m.claims : ~Rivalled(v)
       /\ Deliver(m, heard \cup {idx}, own, maturing)

\* A state message sent in an earlier view.
LateState ==
  d.gid > 0 /\ \E from \in Address \ {Me} :
    Deliver([kind |-> "state", gid |-> d.gid - 1, from |-> from, idx |-> 1,
             mat |-> TRUE, claims |-> [v \in Vip |-> PREFER_CLAIMED],
             prefer |-> Prefer[from]], heard, own, maturing)

Mature == Deliver(MaturingMessage, heard, own, maturing)
OwnMature == maturing /\ Deliver(MaturingMessage, heard, own, FALSE)

\* The moves a balance message may hold when it is delivered.
Deliverable(moves) ==
  /\ \A i \in DOMAIN moves : \E k \in DOMAIN d.ip : moves[i].to = d.ip[k]
  /\ FreshMoves => \A i \in DOMAIN moves : OwnerFound(d, moves, i) # moves[i].to

BalanceDelivered ==
  \E k \in 0..BalanceRate : \E moves \in [1..k -> Move] :
    /\ Deliverable(moves)
    /\ Deliver([kind |-> "balance", count |-> k, moves |-> moves], heard, own, maturing)

ArpDelivered == Deliver(ArpMessage, heard, own, maturing)

\* The environment keeps its state when the daemon runs anything else.
Local(S) == Running /\ Handle(S, inView, heard, own, maturing) /\ UNCHANGED views

ReceiveFails == d.mbox /\ d.last \in ErrorAfter /\ Local(ReceiveError(d))

-----------------------------------------------------------------------------
(* Timers and the operator. *)

Boot            == ~Started /\ Local(Start(d))
TurnMatureFires == d.tMature /\ Local(TurnMature(d))
BalanceFires    == d.tBalance /\ Local(BalanceTimer(d))
RetryFires      == d.tRetry /\ Local(RetryTimer(d))
ArpFires        == d.tArp /\ Local(ArpTimer(d))
Fail            == Started /\ Local(ServiceFailure(d))
Recover         == Started /\ Local(ServiceSuccess(d))
Kill            == Local({Signal(d)})

Next ==
  \/ \E n \in 1..MaxMembers : \E idx \in 1..n : View(n, idx)
  \/ OwnState
  \/ \E idx \in 1..MaxMembers : PeerState(idx)
  \/ LateState \/ Mature \/ OwnMature \/ BalanceDelivered \/ ArpDelivered
  \/ ReceiveFails
  \/ Boot \/ TurnMatureFires \/ BalanceFires \/ RetryFires \/ ArpFires
  \/ Fail \/ Recover \/ Kill

Spec == Init /\ [][Next]_vars

(***************************************************************************)
(* Fairness: Spread delivers what was sent in a view, and the event loop   *)
(* fires its timers.  Operators, views and faults are owed nothing.        *)
(***************************************************************************)
Fairness ==
  /\ WF_vars(OwnState)
  /\ \A idx \in 1..MaxMembers : WF_vars(PeerState(idx))
  /\ WF_vars(OwnMature)
  /\ WF_vars(TurnMatureFires) /\ WF_vars(RetryFires)

FairSpec == Spec /\ Fairness

-----------------------------------------------------------------------------
(* Properties. *)

\* The variables hold values of their types; Send_state_message can then build
\* a well-formed message from them at any time.
TypeOK ==
  /\ d \in DaemonType
  /\ d.me = Me /\ DOMAIN d.num = DOMAIN d.ip
  /\ inView \in BOOLEAN /\ maturing \in BOOLEAN
  /\ own \in StateMessage \cup {NoMessage}
  /\ heard \in SUBSET (Nat \ {0})
  /\ views \in Nat /\ faults \in Nat

\* What the tables say this daemon serves: the allocation table while it runs,
\* the table of the last configuration while a new one is being gathered.
Serving == IF d.state = "RUN" THEN {v \in Vip : d.owner[v] = Me} ELSE Held(d)

\* The interfaces brought up by Acquire and taken down by Release and Clean_up
\* are those the tables give to this daemon, after every handler.
UpMatchesTable == Running => d.up = Serving

\* My.num_allocated counts them whenever there is a session, so the assertion
\* of Send_state_message holds in every membership change.
CountMatchesTable == Running /\ d.mbox => d.mine = Cardinality(Serving)

\* assert(ret == My.num_allocated) in Send_state_message never fails.
AssertHolds == d.exit # "assert"

\* A daemon serves only as a member of a view of its session, the one its tables were
\* agreed in.  Without a session, or killed by a signal, it has taken everything down:
\* Clean_up reaches the interfaces of a configuration that is still gathered.
ServesInView == d.exit \in {"no", "clean"} /\ d.up # {} => d.mbox /\ inView

\* A daemon that is not mature serves nothing: it may not be the right owner.
ImmatureServesNothing == Running /\ ~d.mat => d.up = {}

\* Num_pending_states counts the members not heard from since the view, so the
\* daemon leaves GATHER exactly when it has heard all of them.
PendingCountsMissing ==
  Running /\ inView => /\ d.pending = Cardinality(DOMAIN d.ip \ heard)
                       /\ d.state = "GATHER" <=> d.pending # 0

\* A daemon with a session that is not mature has its timer queued or its message
\* under way, whatever was lost before.
MatureArmed == Running /\ d.mbox /\ ~d.mat => d.tMature \/ maturing

\* A daemon that runs in a view has a balancing round queued, unless a
\* configuration has one round only.
BalanceArmed ==
  Running /\ inView /\ d.state = "RUN" /\ ~CompleteBalance => d.tBalance

\* "the interval at which wackamole will recollect local arp cache information and
\* share it with its peers" (wackamole.conf.5): the next time is always in the queue.
ArpArmed == Running /\ Started => d.tArp

\* A view is either replaced or gathered to the end, whatever is delivered.
GatherEnds == inView /\ d.state = "GATHER" ~> ~(inView /\ d.state = "GATHER")

\* A daemon without a session connects again, unless an operator keeps it away.
Reconnects ==
  Running /\ Started /\ ~d.mbox ~> d.mbox \/ d.lock \/ ~Running

\* A daemon that keeps its session runs in the end.
EventuallyRuns == <>[](Running /\ inView) => <>[](d.state = "RUN")

(***************************************************************************)
(* The daemon as module Service sees it: the phase follows from the        *)
(* session and State, what is held are the interfaces up.                  *)
(***************************************************************************)
Phase ==
  CASE ~Running -> "gone"
    [] Running /\ ~inView -> "away"
    [] Running /\ inView /\ d.state = "GATHER" -> "gathering"
    [] Running /\ inView /\ d.state = "RUN" -> "serving"
    [] OTHER -> "waiting"

Abstract == INSTANCE Service WITH
  phase   <- Phase,
  mature  <- inView /\ d.mat,
  missing <- IF inView THEN DOMAIN d.ip \ heard ELSE {},
  held    <- d.up

\* A daemon keeps the promises of module Service in every step: interfaces come up
\* only in a step that ends in RUN with every member heard, a gathering that is
\* interrupted keeps them, and a session that ends takes them all down.
KeepsService == Abstract!Spec
=============================================================================
