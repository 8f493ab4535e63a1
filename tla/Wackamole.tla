------------------------------ MODULE Wackamole ------------------------------
(***************************************************************************)
(* The handlers of one wackamole daemon (wackamole.c), as operators on a   *)
(* record that holds the daemon's static variables.  Each operator takes   *)
(* the daemon before a handler and returns the SET of daemons the handler  *)
(* may leave: it has more than one element where a call to Spread may      *)
(* succeed or fail.  A daemon that has exited runs no further code.        *)
(*                                                                         *)
(* Modules Daemon (one daemon among arbitrary peers) and Cluster (several  *)
(* daemons over Spread) turn these operators into actions.                 *)
(***************************************************************************)
EXTENDS Integers, Sequences, FiniteSets, FiniteSetsExt

CONSTANTS
  Address,         \* real addresses of the hosts of the cluster
  NoAddr,          \* the address 0: nobody
  NumVip,          \* Num_pseudo, the length of the VirtualInterfaces list
  Prefer,          \* address -> the virtual interfaces its Prefer lines name
  BalanceRate,     \* Balance_rate: moves in one balancing round
  CompleteBalance, \* AcquisitionsPerRound = all: one round per configuration
  ForceReup,       \* the build defines NEEDS_FORCE_REUP (configure.in, Linux)
  Faults,          \* which Spread calls may fail, see FaultKind
  StaleKinds       \* the messages whose content outlives their handler

Vip == 1..NumVip   \* index of a virtual interface in the allocation table

\* "send": SP_multicast fails; "connect": SP_connect or SP_join fails;
\* "fatal": a call fails with a code that reconnecting does not handle.
FaultKind == {"send", "connect", "fatal"}

(* Claim priorities (wackamole.c:62-68). *)
UNCLAIMED      == 0
CLAIMED        == 2
PREFER         == 4
PREFER_CLAIMED == 5
Priority == {UNCLAIMED, CLAIMED, PREFER, PREFER_CLAIMED}

AnyAddress == Address \cup {NoAddr}

ASSUME VipAssumption == NumVip \in Nat \ {0}
ASSUME AddressAssumption == NoAddr \notin Address
ASSUME ConfigAssumption ==
  /\ Prefer \in [Address -> SUBSET Vip]
  /\ BalanceRate \in Nat /\ 2 * BalanceRate <= NumVip
  /\ CompleteBalance \in BOOLEAN /\ ForceReup \in BOOLEAN
  /\ Faults \subseteq FaultKind
  /\ StaleKinds \subseteq {"state", "balance"}

-----------------------------------------------------------------------------
(* Messages of the Spread group. *)

Move == [vip : Vip, to : Address]
Claims == UNION {[V -> Priority] : V \in SUBSET Vip}

StateMessage ==
  [kind : {"state"}, gid : Nat, from : Address, idx : Nat \ {0},
   mat : BOOLEAN, claims : Claims, prefer : SUBSET Vip]
BalanceMessage == [kind : {"balance"}, count : Nat, moves : Seq(Move)]
MaturingMessage == [kind |-> "mature"]
ArpMessage == [kind |-> "arp"]
Message == StateMessage \cup BalanceMessage \cup {MaturingMessage, ArpMessage}

\* What a handler did to the Spread session, logged among what it sent.
Leave == [kind |-> "leave"]
Join  == [kind |-> "join"]
Output == Message \cup {Leave, Join}

\* What is left in the buffer Mess when it is not a message kept here.
Junk == [kind |-> "junk"]
Buffer == StateMessage \cup BalanceMessage \cup {Junk}

MessageKind == {"none", "view", "state", "mature", "balance", "arp"}
DaemonState == {"ZERO", "BOOT", "RUN", "GATHER"}
ExitReason  == {"no", "clean", "fatal", "assert"}

(***************************************************************************)
(* The static variables of wackamole.c.  Lists of Num_members entries are  *)
(* functions on 1..Num_members, indices are counted from 1.                *)
(***************************************************************************)
DaemonType ==
  [me       : Address,             \* My.real_if
   state    : DaemonState,         \* State; "ZERO" before the first session
   mat      : BOOLEAN,             \* Maturity
   oldMat   : BOOLEAN,             \* Old_maturity
   gid      : Nat,                 \* Gid, the identifier of the view
   idx      : Nat \ {0},           \* My_index + 1
   pending  : Int,                 \* Num_pending_states
   ip       : Seq(AnyAddress),     \* Members[].real_if
   num      : Seq(Int),            \* Members[].num_allocated
   owner    : [Vip -> AnyAddress], \* Allocation_table[].real_if
   prio     : [Vip -> Priority],   \* Allocation_table[].claim_priority
   oldOwner : [Vip -> AnyAddress], \* Old_table[].real_if
   oldPrio  : [Vip -> Priority],   \* Old_table[].claim_priority
   mine     : Int,                 \* My.num_allocated
   up       : SUBSET Vip,          \* interfaces last commanded up
   mbox     : BOOLEAN,             \* Mbox >= 0
   lock     : BOOLEAN,             \* spread_lock
   tMature  : BOOLEAN,             \* Turn_mature is in the event queue
   tBalance : BOOLEAN,             \* Balance is in the event queue
   tRetry   : BOOLEAN,             \* Spread_reconnect(-2) is in the event queue
   tArp     : BOOLEAN,             \* Send_local_arp_cache is in the event queue
   exit     : ExitReason,          \* "no" while the process runs
   last     : MessageKind,         \* Service_type and Mess_type, as last received
   mess     : Buffer,              \* Mess
   out      : Seq(Output)]         \* calls to Spread of the current step

Nobody == [v \in Vip |-> NoAddr]

InitialDaemon(a) ==
  [me |-> a, state |-> "ZERO", mat |-> FALSE, oldMat |-> FALSE, gid |-> 0,
   idx |-> 1, pending |-> 0, ip |-> <<>>, num |-> <<>>,
   owner |-> Nobody, prio |-> [v \in Vip |-> UNCLAIMED],
   oldOwner |-> Nobody, oldPrio |-> [v \in Vip |-> UNCLAIMED],
   mine |-> 0, up |-> {}, mbox |-> FALSE, lock |-> FALSE,
   tMature |-> FALSE, tBalance |-> FALSE, tRetry |-> FALSE, tArp |-> FALSE,
   exit |-> "no", last |-> "none", mess |-> Junk, out |-> <<>>]

\* The handler that left t neither ended nor began a session.
SameSession(t) == t.out = <<>> \/ t.out[1] \notin {Leave, Join}

\* The calls to Spread with which it sent a message of a kind.
Sent(t, kind) == {i \in DOMAIN t.out : t.out[i].kind = kind}

-----------------------------------------------------------------------------
(* Bringing interfaces up and down. *)

Acquire(s, V) == [s EXCEPT !.up = @ \cup V, !.mine = @ + Cardinality(V)]
Release(s, V) == [s EXCEPT !.up = @ \ V, !.mine = @ - Cardinality(V)]

\* Handle_Post_Release: Linux builds bring every owned interface up again.
PostRelease(s, released) ==
  IF ForceReup /\ released # {}
  THEN [s EXCEPT !.up = @ \cup {v \in Vip : s.owner[v] = s.me}]
  ELSE s

\* Mutant: only the interfaces of the allocation table are released.
CleanUpOwned(s) ==
  [Release(s, {v \in Vip : s.owner[v] = s.me}) EXCEPT
     !.owner = Nobody, !.oldOwner = Nobody]

\* Clean_up releases every interface, owned or not, and keeps the priorities.
CleanUp(s) ==
  [Release(s, Vip) EXCEPT !.owner = Nobody, !.oldOwner = Nobody]

-----------------------------------------------------------------------------
(* The Spread session. *)

\* wack_alarm(EXIT), in Spread_reconnect before Clean_up; also an abort of the process.
FatalExit(s) == [s EXCEPT !.exit = "fatal", !.mbox = FALSE, !.out = <<Leave>>]

\* Sig_handler: clean up and exit.
Signal(s) == [CleanUp(s) EXCEPT !.exit = "clean", !.mbox = FALSE, !.out = <<Leave>>]

\* Mutant: My.num_allocated is not reset when the daemon joins again.
SpreadReconnectKeepingCount(s) ==
  LET gone == [CleanUp(s) EXCEPT !.mbox = FALSE, !.out = <<Leave>>]
  IN  IF s.lock THEN {[gone EXCEPT !.tRetry = TRUE]}
      ELSE {[gone EXCEPT !.mbox = TRUE, !.out = <<Join>>, !.state = "BOOT",
                         !.mat = FALSE, !.oldMat = FALSE, !.tMature = TRUE]}

\* Mutant: maturity is lost and no timer will give it back.
SpreadReconnectUntimed(s) ==
  LET gone == [CleanUp(s) EXCEPT !.mbox = FALSE, !.out = <<Leave>>]
  IN  IF s.lock THEN {[gone EXCEPT !.tRetry = TRUE]}
      ELSE {[gone EXCEPT !.mbox = TRUE, !.out = <<Join>>, !.state = "BOOT",
                         !.mat = FALSE, !.oldMat = FALSE, !.mine = 0]}

\* Mutant: a failed connection is not tried again.
SpreadReconnectOnce(s) ==
  LET gone == [CleanUp(s) EXCEPT !.mbox = FALSE, !.out = <<Leave>>]
  IN  {gone, [gone EXCEPT !.mbox = TRUE, !.out = <<Join>>, !.state = "BOOT",
                          !.mat = FALSE, !.oldMat = FALSE, !.tMature = TRUE,
                          !.mine = 0]}

SpreadReconnect(s) ==
  LET gone   == [CleanUp(s) EXCEPT !.mbox = FALSE, !.out = <<Leave>>]
      retry  == [gone EXCEPT !.tRetry = TRUE]
      joined == [gone EXCEPT !.mbox = TRUE, !.out = <<Join>>, !.state = "BOOT",
                             !.mat = FALSE, !.oldMat = FALSE,
                             !.tMature = TRUE, !.mine = 0]
  IN  IF s.lock THEN {retry}
      ELSE {joined} \cup (IF "connect" \in Faults THEN {retry} ELSE {})

\* What follows a call to Spread that returned an error.
AfterSpreadError(s) ==
  SpreadReconnect(s) \cup (IF "fatal" \in Faults THEN {FatalExit(s)} ELSE {})

\* SP_multicast and the error branch every caller has; it always fails when
\* there is no session.
Multicast(s, m) ==
  IF ~s.mbox THEN SpreadReconnect(s)
  ELSE {[s EXCEPT !.out = Append(@, m)]}
         \cup (IF "send" \in Faults THEN AfterSpreadError(s) ELSE {})

SendLocalArpCache(s) == Multicast([s EXCEPT !.mess = Junk], ArpMessage)

\* The addresses the daemon held when the last configuration ended.
Held(s) == {v \in Vip : s.oldOwner[v] = s.me}

StateMessageOf(s) ==
  [kind |-> "state", gid |-> s.gid, from |-> s.me, idx |-> s.idx,
   mat |-> s.mat, claims |-> [v \in Held(s) |-> s.oldPrio[v]],
   prefer |-> Prefer[s.me]]

\* The assertion compares the entries listed with My.num_allocated.
SendStateMessage(s) ==
  IF Cardinality(Held(s)) # s.mine
  THEN {[s EXCEPT !.exit = "assert", !.mbox = FALSE, !.out = <<Leave>>]}
  ELSE Multicast([s EXCEPT !.mess = Junk], StateMessageOf(s))

-----------------------------------------------------------------------------
(* Claiming addresses. *)

\* How many interfaces of V the table gives to address a.
Load(table, V, a) == Cardinality({v \in V : table[v] = a})

\* Mutant: what another member prefers is not released.
PriorityClaimKeeping(s) ==
  LET P == {v \in Vip : s.prio[v] = PREFER}
  IN  [Acquire(s, {v \in P : s.owner[v] = s.me /\ s.oldOwner[v] # s.me}) EXCEPT
         !.num    = [k \in DOMAIN s.num |-> Load(s.owner, Vip, s.ip[k])],
         !.prio   = [v \in Vip |-> IF v \in P THEN PREFER_CLAIMED ELSE s.prio[v]],
         !.oldMat = s.oldMat \/ s.mat]

PriorityClaim(s) ==
  LET P        == {v \in Vip : s.prio[v] = PREFER}
      acquired == {v \in P : s.owner[v] = s.me /\ s.oldOwner[v] # s.me}
      released == {v \in P : s.oldOwner[v] = s.me /\ s.owner[v] # s.me}
      moved    == {v \in P : s.owner[v] # s.oldOwner[v]}
      num(k)   == IF s.mat /\ ~s.oldMat THEN Load(s.owner, Vip, s.ip[k])
                  ELSE s.num[k] - Load(s.oldOwner, moved, s.ip[k])
                                + Load(s.owner, moved, s.ip[k])
      claimed  == [Release(Acquire(s, acquired), released) EXCEPT
                     !.num    = [k \in DOMAIN s.num |-> num(k)],
                     !.prio   = [v \in Vip |-> IF v \in P THEN PREFER_CLAIMED
                                                          ELSE s.prio[v]],
                     !.oldMat = s.oldMat \/ s.mat]
  IN  PostRelease(claimed, released)

\* Mutant: among the members with the fewest, the daemon favours itself.
IsSelfishOrder(s, f) ==
  \A v \in DOMAIN f :
    LET load(k) == s.num[k] + Cardinality({u \in DOMAIN f : u < v /\ f[u] = k})
    IN  \A k \in DOMAIN s.num :
          /\ load(f[v]) <= load(k)
          /\ (k = s.idx /\ f[v] # k => load(f[v]) < load(k))
          /\ (k < f[v] /\ f[v] # s.idx => load(f[v]) < load(k))

(***************************************************************************)
(* Claim_unclaimed gives the unclaimed interfaces, in the order of the     *)
(* table, each to the first member with the fewest.  An assignment is the  *)
(* function from those interfaces to member indices that the loop builds.  *)
(***************************************************************************)
IsClaimOrder(s, f) ==
  \A v \in DOMAIN f :
    LET load(k) == s.num[k] + Cardinality({u \in DOMAIN f : u < v /\ f[u] = k})
    IN  \A k \in DOMAIN s.num :
          load(f[v]) <= load(k) /\ (k < f[v] => load(f[v]) < load(k))

ClaimUnclaimed(s) ==
  LET U == {v \in Vip : s.prio[v] = UNCLAIMED}
      claim(f) ==
        [Acquire(s, {v \in U : f[v] = s.idx}) EXCEPT
           !.num   = [k \in DOMAIN @ |-> @[k] + Load(f, U, k)],
           !.owner = [v \in Vip |-> IF v \in U THEN s.ip[f[v]] ELSE @[v]],
           !.prio  = [v \in Vip |-> IF v \in U THEN CLAIMED ELSE @[v]]]
  IN  {claim(f) : f \in {g \in [U -> DOMAIN s.num] : IsClaimOrder(s, g)}}

\* Mutant: the balance timer is not queued.
ShiftToRunUntimed(s) ==
  {[t EXCEPT !.state = "RUN"] : t \in ClaimUnclaimed(PriorityClaim(s))}

\* Both claims, State = RUN and the balance timer (Handle_mature, Handle_state).
ShiftToRun(s) ==
  {[t EXCEPT !.state = "RUN", !.tBalance = TRUE] :
     t \in ClaimUnclaimed(PriorityClaim(s))}

-----------------------------------------------------------------------------
(* Message handlers. *)

\* Mutant: the daemon takes its share without waiting for the state messages.
HandleMatureEarly(s) ==
  IF s.mat THEN {s} ELSE ShiftToRun([s EXCEPT !.mat = TRUE, !.tMature = FALSE])

HandleMature(s) ==
  LET matured == [s EXCEPT !.mat = TRUE, !.tMature = FALSE]
  IN  IF s.mat THEN {s}
      ELSE IF s.state = "GATHER" THEN {matured}
      ELSE ShiftToRun(matured)

\* Mutant: the table is frozen in every view, also while one is being gathered.
HandleMembershipRefreezing(s, m) ==
  LET viewed == [s EXCEPT
        !.gid = m.gid, !.pending = m.n, !.idx = m.idx,
        !.ip  = [k \in 1..m.n |-> NoAddr], !.num = [k \in 1..m.n |-> 0],
        !.oldOwner = s.owner, !.oldPrio = s.prio,
        !.owner = Nobody, !.prio = [v \in Vip |-> UNCLAIMED]]
  IN  {IF t.exit = "no" THEN [t EXCEPT !.state = "GATHER", !.tBalance = FALSE] ELSE t :
         t \in SendStateMessage(viewed)}

\* Mutant: the loads of the members are not reset.
HandleMembershipKeepingLoads(s, m) ==
  LET viewed == [s EXCEPT
        !.gid = m.gid, !.pending = m.n, !.idx = m.idx, !.ip = [k \in 1..m.n |-> NoAddr],
        !.oldOwner = IF s.state \in {"GATHER", "BOOT"} THEN @ ELSE s.owner,
        !.oldPrio  = IF s.state \in {"GATHER", "BOOT"} THEN @ ELSE s.prio,
        !.owner = Nobody, !.prio = [v \in Vip |-> UNCLAIMED]]
  IN  {IF t.exit = "no" THEN [t EXCEPT !.state = "GATHER", !.tBalance = FALSE] ELSE t :
         t \in SendStateMessage(viewed)}

\* The view m of the group replaces the members; the table is frozen and sent.
HandleMembership(s, m) ==
  LET viewed == [s EXCEPT
        !.gid = m.gid, !.pending = m.n, !.idx = m.idx,
        !.ip  = [k \in 1..m.n |-> NoAddr], !.num = [k \in 1..m.n |-> 0],
        !.oldOwner = IF s.state \in {"GATHER", "BOOT"} THEN @ ELSE s.owner,
        !.oldPrio  = IF s.state \in {"GATHER", "BOOT"} THEN @ ELSE s.prio,
        !.owner = Nobody, !.prio = [v \in Vip |-> UNCLAIMED]]
  IN  {IF t.exit = "no" THEN [t EXCEPT !.state = "GATHER", !.tBalance = FALSE] ELSE t :
         t \in SendStateMessage(viewed)}

\* The regular-membership branch of Handle_network.
HandleView(s, m) ==
  UNION {IF t.exit = "no" THEN SendLocalArpCache(t) ELSE {t} :
           t \in HandleMembership(s, m)}

\* Mutant: a claim that loses to an earlier one is not taken down.
MergeClaimsKeepingLost(s, m) ==
  LET C     == DOMAIN m.claims
      fresh == {v \in C : s.owner[v] = NoAddr}
      lost  == {v \in C \ fresh : s.prio[v] \in {PREFER_CLAIMED, m.claims[v]}}
  IN  [s EXCEPT
         !.ip = [@ EXCEPT ![m.idx] = m.from],
         !.num = [@ EXCEPT ![m.idx] = Cardinality(C) - Cardinality(lost)],
         !.owner = [v \in Vip |-> IF v \in fresh THEN m.from ELSE @[v]],
         !.prio = [v \in Vip |-> IF v \in fresh THEN m.claims[v] ELSE @[v]],
         !.oldOwner = [v \in Vip |-> IF v \in lost THEN s.owner[v] ELSE @[v]],
         !.oldPrio = [v \in Vip |-> IF v \in lost THEN s.prio[v] ELSE @[v]]]

\* The tables after the claims and the preferences of state message m.
MergeClaims(s, m) ==
  LET C     == DOMAIN m.claims
      fresh == {v \in C : s.owner[v] = NoAddr}
      lost  == {v \in C \ fresh : s.prio[v] \in {PREFER_CLAIMED, m.claims[v]}}
      won   == {v \in C \ (fresh \cup lost) :
                  s.prio[v] = CLAIMED /\ m.claims[v] > PREFER}
      released == (IF m.from = s.me THEN lost ELSE {})
                    \cup {v \in won : s.owner[v] = s.me}
      ip    == [s.ip EXCEPT ![m.idx] = m.from]
      owner == [v \in Vip |-> IF v \in fresh \cup won THEN m.from ELSE s.owner[v]]
      prio  == [v \in Vip |-> IF v \in fresh \cup won THEN m.claims[v] ELSE s.prio[v]]
      claimed == [Release(s, released) EXCEPT
        !.ip  = ip,
        !.num = [k \in DOMAIN s.num |->
                   (IF k = m.idx THEN Cardinality(C) - Cardinality(lost) ELSE s.num[k])
                     - Load(s.owner, won, ip[k])],
        !.owner = owner, !.prio = prio,
        !.oldOwner = [v \in Vip |-> IF v \in lost \cup won THEN owner[v]
                                                          ELSE s.oldOwner[v]],
        !.oldPrio  = [v \in Vip |-> IF v \in lost \cup won THEN prio[v]
                                                          ELSE s.oldPrio[v]]]
      wanted == {v \in m.prefer : prio[v] < PREFER}
  IN  [PostRelease(claimed, released) EXCEPT
         !.owner = [v \in Vip |-> IF v \in wanted THEN m.from ELSE owner[v]],
         !.prio  = [v \in Vip |-> IF v \in wanted THEN PREFER ELSE prio[v]]]

\* Mutants: the daemon decides without being mature; it waits for one message more.
CountStateImmature(s) ==
  LET counted == [s EXCEPT !.pending = @ - 1]
  IN  IF counted.pending # 0 THEN {counted} ELSE ShiftToRun(counted)

CountStateLate(s) ==
  LET counted == [s EXCEPT !.pending = @ - 1]
  IN  IF s.pending # 0 THEN {counted}
      ELSE IF s.mat THEN ShiftToRun(counted)
      ELSE {[counted EXCEPT !.state = "BOOT"]}

\* One state message less to wait for; after the last one the daemon decides.
CountState(s) ==
  LET counted == [s EXCEPT !.pending = @ - 1]
  IN  IF counted.pending # 0 THEN {counted}
      ELSE IF s.mat THEN ShiftToRun(counted)
      ELSE {[counted EXCEPT !.state = "BOOT"]}

\* Mutant: state messages of earlier views count.
HandleStateAnyView(s, m) ==
  LET merged == MergeClaims(s, m)
  IN  UNION {CountState(t) :
               t \in IF ~s.mat /\ m.mat THEN HandleMature(merged) ELSE {merged}}

HandleState(s, m) ==
  IF m.gid # s.gid THEN {s}
  ELSE LET merged == MergeClaims(s, m)
       IN  UNION {CountState(t) :
                    t \in IF ~s.mat /\ m.mat THEN HandleMature(merged) ELSE {merged}}

(***************************************************************************)
(* Handle_balance applies a sequence of moves one after the other.  The    *)
(* owner that move i finds is the target of the last earlier move of the   *)
(* same interface; the daemon brings the interface up when it is the       *)
(* target and takes it down when it is the owner found, in that order.     *)
(***************************************************************************)
Earlier(moves, i) == {j \in 1..(i - 1) : moves[j].vip = moves[i].vip}

OwnerFound(s, moves, i) ==
  IF Earlier(moves, i) = {} THEN s.owner[moves[i].vip]
  ELSE moves[Max(Earlier(moves, i))].to

MovesOf(moves, v) == {i \in 1..Len(moves) : moves[i].vip = v}

ApplyMoves(s, moves) ==
  LET touched == {v \in Vip : MovesOf(moves, v) # {}}
      final(v) == moves[Max(MovesOf(moves, v))].to
      owner   == [v \in Vip |-> IF v \in touched THEN final(v) ELSE s.owner[v]]
      \* the moves of v that bring it up or take it down here
      concern(v) == {i \in MovesOf(moves, v) :
                       s.me \in {moves[i].to, OwnerFound(s, moves, i)}}
      leftUp(v) == IF concern(v) = {} THEN v \in s.up
                   ELSE OwnerFound(s, moves, Max(concern(v))) # s.me
      taken   == {i \in 1..Len(moves) : OwnerFound(s, moves, i) = s.me}
      given   == {i \in 1..Len(moves) : moves[i].to = s.me}
      moved   == [s EXCEPT
        !.owner = owner,
        !.up    = {v \in Vip : leftUp(v)},
        !.mine  = @ + Cardinality(given) - Cardinality(taken),
        !.num   = [k \in DOMAIN @ |-> @[k] + Load(owner, touched, s.ip[k])
                                          - Load(s.owner, touched, s.ip[k])]]
  IN  PostRelease(moved, taken)

\* Mutant: the moves are made in any state.
HandleBalanceAnytime(s, m) ==
  ApplyMoves(s, IF m.count < Len(m.moves) THEN SubSeq(m.moves, 1, m.count) ELSE m.moves)

\* The message gives its count and its moves; the handler reads count moves.
HandleBalance(s, m) ==
  IF s.state # "RUN" THEN s
  ELSE ApplyMoves(s, IF m.count < Len(m.moves) THEN SubSeq(m.moves, 1, m.count)
                                               ELSE m.moves)

-----------------------------------------------------------------------------
(* Handle_network. *)

\* The body of message m as it lies in Mess: a balance message that is shorter
\* than the one before it leaves the tail of that one behind its own moves.
InBuffer(s, m) ==
  IF m.kind = "balance" /\ s.mess.kind = "balance" /\ Len(s.mess.moves) > Len(m.moves)
  THEN [m EXCEPT !.moves = @ \o SubSeq(s.mess.moves, Len(@) + 1, Len(s.mess.moves))]
  ELSE m

\* Handlers called on a message m whose body is in the buffer.
Dispatch(s, m) ==
  CASE m.kind = "view"    -> HandleView(s, m)
    [] m.kind = "state"   -> HandleState(s, m)
    [] m.kind = "mature"  -> HandleMature(s)
    [] m.kind = "balance" -> {HandleBalance(s, m)}
    [] m.kind = "arp"     -> {s}

\* SP_receive returns message m.
Receive(s, m) ==
  LET body == InBuffer(s, m)
  IN  Dispatch([s EXCEPT !.last = m.kind,
                         !.mess = CASE m.kind = "mature"     -> @
                                    [] m.kind \in StaleKinds -> body
                                    [] OTHER                 -> Junk],
               body)

(***************************************************************************)
(* SP_receive fails: the daemon reconnects and then dispatches once more   *)
(* on the globals of the last message received.  A membership finds no     *)
(* identifier of a view in the buffer (0 here); a message of another kind  *)
(* whose body was overwritten since is not recognised by its handler.      *)
(* Handle_arp_cache takes the error for a huge number of entries and reads *)
(* on behind the buffer until the process gets a signal, or until the heap *)
(* it fills aborts it.                                                     *)
(***************************************************************************)
DispatchStale(s) ==
  CASE s.last = "none"   -> {FatalExit(s)}
    [] s.last = "view"   -> HandleView(s, [kind |-> "view", gid |-> 0,
                                           n |-> Len(s.ip), idx |-> s.idx])
    [] s.last = "mature" -> HandleMature(s)
    [] s.last = "arp"    -> {Signal(s), FatalExit(s)}
    [] s.last = s.mess.kind -> Dispatch(s, s.mess)
    [] OTHER             -> {s}

ReceiveError(s) ==
  UNION {IF t.exit = "no" THEN DispatchStale(t) ELSE {t} : t \in AfterSpreadError(s)}

-----------------------------------------------------------------------------
(* Timers.  E_queue keeps one event of each kind, so a timer is a flag. *)

TurnMature(s) == Multicast([s EXCEPT !.tMature = FALSE], MaturingMessage)

RetryTimer(s) == SpreadReconnect([s EXCEPT !.tRetry = FALSE])

ArpTimer(s) == SendLocalArpCache([s EXCEPT !.tArp = FALSE])

(***************************************************************************)
(* Balance: the first member moves one interface per iteration from the    *)
(* member with the most to the member with the fewest, the indices being   *)
(* carried from one iteration to the next, and stops when they differ by   *)
(* one or less.  An interface claimed by preference is never moved; when   *)
(* the fullest member has no other, the iteration moves nothing.           *)
(***************************************************************************)
Fewest(num, i) ==
  IF \E k \in DOMAIN num : num[k] < num[i]
  THEN Min({k \in DOMAIN num : \A l \in DOMAIN num : num[k] <= num[l]}) ELSE i
Fullest(num, i) ==
  IF \E k \in DOMAIN num : num[k] > num[i]
  THEN Min({k \in DOMAIN num : \A l \in DOMAIN num : num[k] >= num[l]}) ELSE i

BalanceStep(s, b) ==
  LET min     == Fewest(b.num, b.min)
      max     == Fullest(b.num, b.max)
      movable == {v \in Vip : b.owner[v] = s.ip[max] /\ s.prio[v] < PREFER}
      v       == Min(movable)
      found   == [b EXCEPT !.min = min, !.max = max]
  IN  IF b.done THEN b
      ELSE IF b.num[max] - b.num[min] <= 1 THEN [found EXCEPT !.done = TRUE]
      ELSE IF movable = {} THEN [found EXCEPT !.count = @ + 1]
      ELSE [found EXCEPT !.count = @ + 1,
              !.num   = [b.num EXCEPT ![min] = @ + 1, ![max] = @ - 1],
              !.owner = [b.owner EXCEPT ![v] = s.ip[min]],
              !.moves = Append(@, [vip |-> v, to |-> s.ip[min]])]

BalanceRound(s) ==
  LET round[k \in 0..BalanceRate] ==
        IF k = 0 THEN [num |-> s.num, owner |-> s.owner, min |-> 1, max |-> 1,
                       count |-> 0, moves |-> <<>>, done |-> FALSE]
                 ELSE BalanceStep(s, round[k - 1])
  IN  round[BalanceRate]

\* The message of a round; there is none when the first iteration finds balance.
BalanceMessages(s) ==
  LET b == BalanceRound(s)
  IN  IF b.done /\ b.count = 0 THEN {}
      ELSE {[kind |-> "balance", count |-> c, moves |-> p] :
              c \in {c \in 0..BalanceRate : c = b.count},
              p \in {p \in UNION {[1..k -> Move] : k \in 0..BalanceRate} : p = b.moves}}

\* Mutant: every configuration has one round.
BalanceOnce(s) == s

\* The end of Balance: the timer is queued again unless one round is enough.
BalanceAgain(s) == [s EXCEPT !.tBalance = IF CompleteBalance THEN @ ELSE TRUE]

BalanceTimer(s) ==
  LET fired == [s EXCEPT !.tBalance = FALSE]
      sent(m) == Multicast([fired EXCEPT !.mess = IF "balance" \in StaleKinds
                                                  THEN InBuffer(s, m) ELSE Junk], m)
  IN  IF s.idx # 1 THEN {BalanceAgain(fired)}
      ELSE IF s.state # "RUN" THEN {fired}
      ELSE IF BalanceMessages(s) = {} THEN {BalanceAgain(fired)}
      ELSE {IF t.exit = "no" THEN BalanceAgain([t EXCEPT !.state = "RUN"]) ELSE t :
              t \in UNION {sent(m) : m \in BalanceMessages(s)}}

-----------------------------------------------------------------------------
(* Start and wackatrl. *)

\* main: the first connection, then the first multicast of the ARP cache.
Start(s) ==
  {[t EXCEPT !.tArp = (t.exit = "no")] : t \in
     UNION {SendLocalArpCache(c) : c \in SpreadReconnect(s)}}

\* wackatrl -f: drop everything and stay disconnected.
ServiceFailure(s) ==
  SpreadReconnect(CleanUp([s EXCEPT !.lock = TRUE, !.mbox = FALSE]))

\* wackatrl -s: reconnect.
ServiceSuccess(s) == SpreadReconnect([s EXCEPT !.lock = FALSE])
=============================================================================
