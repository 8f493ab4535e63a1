-------------------------- MODULE WackamoleTables ---------------------------
(***************************************************************************)
(* What the handlers of module Wackamole do to the allocation table, the   *)
(* old table, My.num_allocated and the interfaces: the lemmas from which   *)
(* DaemonTables and ClusterProofs show that what is up is what the tables  *)
(* give to the daemon.                                                     *)
(*                                                                         *)
(* In a view the two tables go through phases.  Before the state message   *)
(* of the daemon has come back no entry is its own (Waiting), then an      *)
(* entry that nobody prefers is its own exactly if it was before the view  *)
(* (Gathered), and after the decision Old_table does not matter (Served).  *)
(*                                                                         *)
(* Where nothing is preferred the phases are simpler (Expecting, Holding)  *)
(* and hold on builds with NEEDS_FORCE_REUP, too; then a table in which    *)
(* everything claimed has an owner in the view (Backed) stays so.  Last,   *)
(* what a balancing round computes from such a table.                      *)
(***************************************************************************)
EXTENDS WackamoleProofs

\* The entries of the allocation table that are the daemon's.
Owned(s) == {v \in Vip : s.owner[v] = s.me}

\* My.num_allocated counts the interfaces that are up.
Counted(s) == s.mine = Cardinality(s.up)

-----------------------------------------------------------------------------
(* Sessions.  A handler that ended or began one leaves empty tables, and a handler *)
(* that only sends leaves those it found.                                          *)

Cleared(t) ==
  t.owner = Nobody /\ t.oldOwner = Nobody /\ t.up = {} /\ (t.mbox => t.mine = 0)

\* What a handler left that found the tables of x, if it did not change them.
Holds(t, x) ==
  /\ t.exit # "assert"
  /\ t.exit = "no" /\ ~SameSession(t) => Cleared(t)
  /\ SameSession(t) => SameTables(x, t)

\* Clean_up empties both tables, and a session that begins resets the count.
LEMMA ReconnectHolds ==
  ASSUME NEW self, NEW s, Shape(self, s), s.exit # "assert", NEW x, NEW t \in SpreadReconnect(s)
  PROVE  Holds(t, x)
<1> DEFINE base == CleanUp(s)
<1>1. /\ Shape(self, base) /\ base.up = {} /\ base.exit = s.exit
      /\ base.owner = Nobody /\ base.oldOwner = Nobody
  <2>1. Shape(self, base) /\ base.up = {}
    BY CleanUpShape, CleanUpDown
  <2> QED
    BY <2>1 DEF Shape, DaemonType, CleanUp, Release
<1> DEFINE gone   == [base EXCEPT !.mbox = FALSE, !.out = <<Leave>>]
           retry  == [gone EXCEPT !.tRetry = TRUE]
           joined == [gone EXCEPT !.mbox = TRUE, !.out = <<Join>>, !.state = "BOOT",
                                  !.mat = FALSE, !.oldMat = FALSE,
                                  !.tMature = TRUE, !.mine = 0]
<1>2. t \in {retry, joined}
  BY DEF SpreadReconnect
<1> HIDE DEF base
<1>3. /\ t.exit = s.exit /\ t.up = {} /\ t.owner = Nobody /\ t.oldOwner = Nobody
      /\ t.mbox => t.mine = 0
  BY ZenonT(60), <1>1, <1>2 DEF Shape, DaemonType
<1>4. ~SameSession(t)
  BY <1>2, ReconnectEnds DEF Ended, SameSession
<1> QED
  BY <1>3, <1>4 DEF Holds, Cleared

\* So does the error branch of a call, or the process exits.
LEMMA ErrorHolds ==
  ASSUME NEW self, NEW s, Shape(self, s), s.exit # "assert", NEW x, NEW t \in AfterSpreadError(s)
  PROVE  Holds(t, x)
<1>1. Holds(FatalExit(s), x)
  BY DEF FatalExit, Holds, SameSession, Shape, DaemonType
<1> QED
  BY <1>1, ReconnectHolds DEF AfterSpreadError

\* Sending leaves the tables alone, before and after a session has ended.
LEMMA MulticastHolds ==
  ASSUME NEW self, NEW s, Shape(self, s), NEW x, Holds(s, x), NEW m \in Message, NEW t \in Multicast(s, m)
  PROVE  Holds(t, x)
<1> DEFINE sent == [s EXCEPT !.out = Append(s.out, m)]
<1>1. /\ sent.exit = s.exit /\ sent.mbox = s.mbox /\ sent.up = s.up /\ SameTables(s, sent)
  BY DEF Shape, DaemonType, SameTables
<1>2. SameSession(sent) <=> SameSession(s)
  BY AppendSends
<1>3. t = sent \/ t \in SpreadReconnect(s) \/ t \in AfterSpreadError(s)
  BY DEF Multicast
<1> HIDE DEF sent
<1>4. Holds(sent, x)
  BY <1>1, <1>2 DEF Holds, Cleared, SameTables
<1> QED
  BY <1>3, <1>4, ReconnectHolds, ErrorHolds DEF Holds

\* Filling the buffer or taking a timer out of the queue makes no difference.
LEMMA HoldsFrom ==
  ASSUME NEW s, NEW t, SameTables(s, t), t.exit = s.exit, t.mbox = s.mbox, t.up = s.up,
         t.out = s.out, NEW x, Holds(s, x)
  PROVE  Holds(t, x)
  BY DEF Holds, Cleared, SameTables, SameSession

\* Send_local_arp_cache changes the buffer and sends.
LEMMA SendLocalArpCacheHolds ==
  ASSUME NEW self, NEW s, Shape(self, s), NEW x, Holds(s, x), NEW t \in SendLocalArpCache(s)
  PROVE  Holds(t, x)
<1> DEFINE empty == [s EXCEPT !.mess = Junk]
<1>1. /\ Shape(self, empty) /\ SameTables(s, empty) /\ empty.exit = s.exit
      /\ empty.mbox = s.mbox /\ empty.up = s.up /\ empty.out = s.out
  BY DEF Shape, DaemonType, Buffer, SameTables
<1>2. ArpMessage \in Message /\ t \in Multicast(empty, ArpMessage)
  BY DEF Message, SendLocalArpCache
<1> HIDE DEF empty
<1> QED
  BY <1>1, <1>2, HoldsFrom, MulticastHolds

\* The maturing timer, the retry and the ARP timer.
LEMMA TimerHolds ==
  ASSUME NEW self, NEW s, Shape(self, s), NEW x, Holds(s, x),
         NEW t \in TurnMature(s) \cup RetryTimer(s) \cup ArpTimer(s)
  PROVE  Holds(t, x)
<1>1. CASE t \in TurnMature(s)
  <2> DEFINE fired == [s EXCEPT !.tMature = FALSE]
  <2>1. /\ Shape(self, fired) /\ SameTables(s, fired) /\ fired.exit = s.exit
        /\ fired.mbox = s.mbox /\ fired.up = s.up /\ fired.out = s.out
    BY DEF Shape, DaemonType, SameTables
  <2>2. MaturingMessage \in Message /\ t \in Multicast(fired, MaturingMessage)
    BY <1>1 DEF Message, TurnMature
  <2> HIDE DEF fired
  <2> QED
    BY <2>1, <2>2, HoldsFrom, MulticastHolds
<1>2. CASE t \in RetryTimer(s)
  <2> DEFINE fired == [s EXCEPT !.tRetry = FALSE]
  <2>1. Shape(self, fired) /\ fired.exit = s.exit
    BY DEF Shape, DaemonType
  <2>2. t \in SpreadReconnect(fired)
    BY <1>2 DEF RetryTimer
  <2> HIDE DEF fired
  <2> QED
    BY <2>1, <2>2, ReconnectHolds DEF Holds
<1>3. CASE t \in ArpTimer(s)
  <2> DEFINE fired == [s EXCEPT !.tArp = FALSE]
  <2>1. /\ Shape(self, fired) /\ SameTables(s, fired) /\ fired.exit = s.exit
        /\ fired.mbox = s.mbox /\ fired.up = s.up /\ fired.out = s.out
    BY DEF Shape, DaemonType, SameTables
  <2>2. t \in SendLocalArpCache(fired)
    BY <1>3 DEF ArpTimer
  <2> HIDE DEF fired
  <2> QED
    BY <2>1, <2>2, HoldsFrom, SendLocalArpCacheHolds
<1> QED
  BY <1>1, <1>2, <1>3

\* Balance only sends: the moves are made when the message comes back.
LEMMA BalanceTimerHolds ==
  ASSUME NEW self, NEW s, Shape(self, s), NEW x, Holds(s, x), NEW t \in BalanceTimer(s)
  PROVE  Holds(t, x)
<1> DEFINE fired == [s EXCEPT !.tBalance = FALSE]
           buffer(m) == IF "balance" \in StaleKinds THEN InBuffer(s, m) ELSE Junk
           filled(m) == [fired EXCEPT !.mess = buffer(m)]
<1>1. Shape(self, fired)
  BY TimersOff
<1>2. ASSUME NEW r, Shape(self, r), Holds(r, x) PROVE Holds(BalanceAgain(r), x)
  <2>1. /\ SameTables(r, BalanceAgain(r)) /\ BalanceAgain(r).exit = r.exit
        /\ BalanceAgain(r).mbox = r.mbox /\ BalanceAgain(r).up = r.up
        /\ BalanceAgain(r).out = r.out
    BY <1>2 DEF BalanceAgain, SameTables, Shape, DaemonType
  <2> QED
    BY <1>2, <2>1, HoldsFrom
<1>3. Holds(fired, x)
  <2>1. /\ SameTables(s, fired) /\ fired.exit = s.exit /\ fired.mbox = s.mbox
        /\ fired.up = s.up /\ fired.out = s.out
    BY DEF SameTables, Shape, DaemonType
  <2> HIDE DEF fired
  <2> QED
    BY <2>1, HoldsFrom
<1>4. CASE t = fired \/ t = BalanceAgain(fired)
  BY <1>1, <1>2, <1>3, <1>4
<1>5. CASE \E m \in BalanceMessages(s) : \E c \in Multicast(filled(m), m) :
             t = IF c.exit = "no" THEN BalanceAgain([c EXCEPT !.state = "RUN"]) ELSE c
  <2>1. PICK m \in BalanceMessages(s) : \E c \in Multicast(filled(m), m) :
             t = IF c.exit = "no" THEN BalanceAgain([c EXCEPT !.state = "RUN"]) ELSE c
    BY <1>5
  <2>2. PICK c \in Multicast(filled(m), m) :
             t = IF c.exit = "no" THEN BalanceAgain([c EXCEPT !.state = "RUN"]) ELSE c
    BY <2>1
  <2>3. m \in Message
    BY BalanceMessagesType DEF Message
  <2>4. Shape(self, filled(m)) /\ Holds(filled(m), x)
    <3>1. buffer(m) \in Buffer
      BY BalanceMessagesType, InBufferType DEF Buffer
    <3> HIDE DEF buffer
    <3>2. /\ Shape(self, filled(m)) /\ SameTables(fired, filled(m))
          /\ filled(m).exit = fired.exit /\ filled(m).mbox = fired.mbox
          /\ filled(m).up = fired.up /\ filled(m).out = fired.out
      BY <3>1, <1>1 DEF SameTables, Shape, DaemonType
    <3> HIDE DEF filled, fired
    <3> QED
      BY <1>3, <3>2, HoldsFrom
  <2> HIDE DEF filled
  <2>5. Shape(self, c) /\ Holds(c, x)
    BY <2>2, <2>3, <2>4, MulticastShape, MulticastHolds
  <2> DEFINE run == [c EXCEPT !.state = "RUN"]
  <2>6. /\ Shape(self, run) /\ SameTables(c, run) /\ run.exit = c.exit /\ run.mbox = c.mbox
        /\ run.up = c.up /\ run.out = c.out
    BY <2>5 DEF SameTables, Shape, DaemonType, DaemonState
  <2> HIDE DEF run
  <2>7. Holds(run, x)
    BY <2>5, <2>6, HoldsFrom
  <2>8. t = BalanceAgain(run) \/ t = c
    BY <2>2 DEF run
  <2> QED
    BY <1>2, <2>5, <2>6, <2>7, <2>8
<1> QED
  BY <1>4, <1>5 DEF BalanceTimer

\* The start of main, wackatrl -f and -s, and Sig_handler.
LEMMA CommandsHold ==
  ASSUME NEW self, NEW s, Shape(self, s), s.exit = "no", NEW x,
         NEW t \in Start(s) \cup ServiceFailure(s) \cup ServiceSuccess(s) \cup {Signal(s)}
  PROVE  Holds(t, x)
<1>1. CASE t \in Start(s)
  <2>1. PICK c \in SpreadReconnect(s) :
           \E e \in SendLocalArpCache(c) : t = [e EXCEPT !.tArp = (e.exit = "no")]
    BY <1>1 DEF Start
  <2>2. PICK e \in SendLocalArpCache(c) : t = [e EXCEPT !.tArp = (e.exit = "no")]
    BY <2>1
  <2>3. Shape(self, c) /\ Holds(c, x)
    BY SpreadReconnectShape, ReconnectHolds
  <2>4. Shape(self, e) /\ Holds(e, x)
    BY <2>3, SendLocalArpCacheShape, SendLocalArpCacheHolds
  <2>5. /\ SameTables(e, t) /\ t.exit = e.exit /\ t.mbox = e.mbox /\ t.up = e.up
        /\ t.out = e.out
    BY <2>2, <2>4 DEF SameTables, Shape, DaemonType
  <2> QED
    BY <2>4, <2>5, HoldsFrom
<1>2. CASE t \in ServiceFailure(s)
  <2> DEFINE locked == [s EXCEPT !.lock = TRUE, !.mbox = FALSE]
  <2>1. Shape(self, locked) /\ locked.exit = "no"
    BY DEF Shape, DaemonType
  <2>2. t \in SpreadReconnect(CleanUp(locked))
    BY <1>2 DEF ServiceFailure
  <2> HIDE DEF locked
  <2>3. Shape(self, CleanUp(locked)) /\ CleanUp(locked).exit = "no"
    BY <2>1, CleanUpShape DEF CleanUp, Release, Shape, DaemonType
  <2> QED
    BY <2>2, <2>3, ReconnectHolds
<1>3. CASE t \in ServiceSuccess(s)
  <2>1. Shape(self, [s EXCEPT !.lock = FALSE]) /\ [s EXCEPT !.lock = FALSE].exit = "no"
    BY DEF Shape, DaemonType
  <2> QED
    BY <1>3, <2>1, ReconnectHolds DEF ServiceSuccess
<1>4. CASE t = Signal(s)
  <2>1. Shape(self, CleanUp(s))
    BY CleanUpShape
  <2>2. t.exit = "clean" /\ t.out = <<Leave>>
    BY <1>4, <2>1 DEF Signal, Shape, DaemonType
  <2> QED
    BY <2>2 DEF Holds, SameSession
<1> QED
  BY <1>1, <1>2, <1>3, <1>4

\* The error branch of SP_receive, after no message or one of the ARP cache.
LEMMA ReceiveErrorHolds ==
  ASSUME NEW self, NEW s, Shape(self, s), s.exit = "no", s.last \in {"none", "arp"}, NEW x,
         NEW t \in ReceiveError(s)
  PROVE  Holds(t, x)
<1>1. PICK c \in AfterSpreadError(s) : t \in IF c.exit = "no" THEN DispatchStale(c) ELSE {c}
  BY DEF ReceiveError
<1>2. Shape(self, c) /\ Holds(c, x)
  BY AfterSpreadErrorShape, ErrorHolds
<1>3. c.last = s.last
  <2>1. FatalExit(s).last = s.last
    BY DEF FatalExit, Shape, DaemonType
  <2>2. c \in SpreadReconnect(s) => c.last = s.last
    BY ZenonT(60) DEF SpreadReconnect, CleanUp, Release, Shape, DaemonType
  <2> QED
    BY <2>1, <2>2 DEF AfterSpreadError
<1>4. c.mess.kind \notin {"none", "view", "mature", "arp"}
  BY <1>2 DEF Shape, DaemonType, Buffer, StateMessage, BalanceMessage, Junk
<1>5. CASE t = c
  BY <1>2, <1>5
<1>6. CASE c.exit = "no" /\ t \in DispatchStale(c)
  <2>1. Holds(FatalExit(c), x)
    BY <1>2 DEF FatalExit, Holds, SameSession, Shape, DaemonType
  <2>2. c.last = "none" => DispatchStale(c) = {FatalExit(c)}
    BY <1>4 DEF DispatchStale
  <2>3. c.last = "arp" => DispatchStale(c) = {Signal(c), FatalExit(c)}
    BY <1>4 DEF DispatchStale
  <2>4. Holds(Signal(c), x)
    BY <1>2, <1>6, CommandsHold
  <2> QED
    BY <1>2, <1>3, <1>6, <2>1, <2>2, <2>3, <2>4
<1> QED
  BY <1>1, <1>5, <1>6

\* The addresses that a new view freezes: what Held is after it.
Frozen(s) == IF s.state \in {"GATHER", "BOOT"} THEN Held(s) ELSE Owned(s)

\* Handle_membership: the assertion holds as long as the interfaces to be frozen are the
\* ones that are counted.
LEMMA HandleMembershipHolds ==
  ASSUME NEW self, NEW s, Shape(self, s), s.out = <<>>, s.exit = "no",
         Cardinality(Frozen(s)) = s.mine,
         NEW m \in ViewMessage, NEW t \in HandleMembership(s, m)
  PROVE  \E x : Holds(t, x)
<1> DEFINE kept     == s.state \in {"GATHER", "BOOT"}
           ip       == [k \in 1..m.n |-> NoAddr]
           num      == [k \in 1..m.n |-> 0]
           oldOwner == IF kept THEN s.oldOwner ELSE s.owner
           oldPrio  == IF kept THEN s.oldPrio ELSE s.prio
           prio     == [v \in Vip |-> UNCLAIMED]
           viewed   == [s EXCEPT !.gid = m.gid, !.pending = m.n, !.idx = m.idx,
                          !.ip = ip, !.num = num, !.oldOwner = oldOwner,
                          !.oldPrio = oldPrio, !.owner = Nobody, !.prio = prio]
<1>1. m.gid \in Nat /\ m.n \in Int /\ m.n \in Nat /\ m.idx \in Nat \ {0}
  BY DEF ViewMessage
<1>2. ip \in Seq(AnyAddress) /\ num \in Seq(Int) /\ DOMAIN num = DOMAIN ip
  BY <1>1 DEF AnyAddress
<1>3. /\ oldOwner \in [Vip -> AnyAddress] /\ oldPrio \in [Vip -> Priority]
      /\ Nobody \in [Vip -> AnyAddress] /\ prio \in [Vip -> Priority]
  BY PriorityType DEF Shape, DaemonType, Nobody, AnyAddress
<1>4. /\ Shape(self, viewed) /\ viewed.out = <<>> /\ viewed.exit = "no"
      /\ viewed.mine = s.mine /\ viewed.oldOwner = oldOwner /\ viewed.me = s.me
  <2> HIDE DEF ip, num, oldOwner, oldPrio, prio
  <2> QED
    BY <1>1, <1>2, <1>3 DEF Shape, DaemonType
<1>5. Held(viewed) = Frozen(s)
  <2> HIDE DEF viewed
  <2> QED
    BY <1>4 DEF Held, Frozen, Owned
<1>6. PICK c \in SendStateMessage(viewed) :
         t = IF c.exit = "no" THEN [c EXCEPT !.state = "GATHER", !.tBalance = FALSE] ELSE c
  BY DEF HandleMembership
<1> HIDE DEF viewed
<1>7. Shape(self, c) /\ Holds(c, viewed)
  <2> DEFINE empty == [viewed EXCEPT !.mess = Junk]
  <2>1. /\ Shape(self, empty) /\ SameTables(viewed, empty) /\ empty.out = <<>>
        /\ empty.exit = "no"
    BY <1>4 DEF Shape, DaemonType, Buffer, SameTables
  <2>2. c \in Multicast(empty, StateMessageOf(viewed))
    BY <1>4, <1>5, <1>6 DEF SendStateMessage
  <2>3. StateMessageOf(viewed) \in Message
    BY <1>4, StateMessageType DEF Message
  <2> HIDE DEF empty
  <2>4. Holds(empty, viewed)
    BY <2>1 DEF Holds, SameSession
  <2> QED
    BY <2>1, <2>2, <2>3, <2>4, MulticastShape, MulticastHolds
<1> DEFINE gathering == [c EXCEPT !.state = "GATHER", !.tBalance = FALSE]
<1>8. Holds(gathering, viewed)
  <2>1. /\ SameTables(c, gathering) /\ gathering.exit = c.exit /\ gathering.mbox = c.mbox
        /\ gathering.up = c.up /\ gathering.out = c.out
    BY <1>7 DEF SameTables, Shape, DaemonType
  <2> HIDE DEF gathering
  <2> QED
    BY <1>7, <2>1, HoldsFrom
<1> QED
  BY <1>6, <1>7, <1>8

\* The membership branch of Handle_network.
LEMMA ReceiveViewHolds ==
  ASSUME NEW self, NEW s, Shape(self, s), s.out = <<>>, s.exit = "no",
         Cardinality(Frozen(s)) = s.mine,
         NEW m \in ViewMessage, NEW t \in Receive(s, m)
  PROVE  \E x : Holds(t, x)
<1> DEFINE r == Received(s, m)
<1>1. m \in GroupMessage /\ m.kind = "view"
  BY DEF GroupMessage, ViewMessage
<1>2. Shape(self, r) /\ Same(s, r) /\ SameTables(s, r)
  BY <1>1, ReceivedSame
<1>3. t \in HandleView(r, m)
  BY <1>1 DEF Receive, Received, InBuffer, Dispatch
<1>4. Cardinality(Frozen(r)) = r.mine
  <2>1. Frozen(r) = Frozen(s)
    BY <1>2 DEF Frozen, Held, Owned, Same, SameTables, Shape
  <2> QED
    BY <1>2, <2>1 DEF SameTables
<1> HIDE DEF r
<1>5. PICK c \in HandleMembership(r, m) :
         t \in IF c.exit = "no" THEN SendLocalArpCache(c) ELSE {c}
  BY <1>3 DEF HandleView
<1>6. Shape(self, c)
  BY <1>2, <1>5, HandleMembershipShape
<1>7. PICK x : Holds(c, x)
  BY <1>2, <1>4, <1>5, HandleMembershipHolds DEF Same
<1> QED
  BY <1>5, <1>6, <1>7, SendLocalArpCacheHolds

-----------------------------------------------------------------------------
(* Claims.  Of the interfaces that a state message claims, some were free, some are *)
(* kept by the member that claimed them first, and some are taken from it.          *)

Fresh(s, m) == {v \in DOMAIN m.claims : s.owner[v] = NoAddr}
Lost(s, m)  == {v \in DOMAIN m.claims \ Fresh(s, m) :
                  s.prio[v] \in {PREFER_CLAIMED, m.claims[v]}}
Won(s, m)   == {v \in DOMAIN m.claims \ (Fresh(s, m) \cup Lost(s, m)) :
                  s.prio[v] = CLAIMED /\ m.claims[v] > PREFER}

Released(s, m) == (IF m.from = s.me THEN Lost(s, m) ELSE {})
                    \cup {v \in Won(s, m) : s.owner[v] = s.me}

\* The tables without the preferences of the message, and the interfaces that these
\* then reserve for the sender.
ClaimOwner(s, m, v) == IF v \in Fresh(s, m) \cup Won(s, m) THEN m.from ELSE s.owner[v]
ClaimPrio(s, m, v)  == IF v \in Fresh(s, m) \cup Won(s, m) THEN m.claims[v] ELSE s.prio[v]

Wanted(s, m) == {v \in m.prefer : ClaimPrio(s, m, v) < PREFER}

\* On builds with NEEDS_FORCE_REUP a release brings nothing up that was not up.
NoReup(s, m) ==
  ForceReup => \/ Released(s, m) = {}
               \/ {v \in Vip : ClaimOwner(s, m, v) = s.me} \subseteq s.up \ Released(s, m)

\* What MergeClaims makes of the tables then.
Merges(s, m, r) ==
  /\ r.up = s.up \ Released(s, m) /\ r.mine = s.mine - Cardinality(Released(s, m))
  /\ r.ip = [s.ip EXCEPT ![m.idx] = m.from]
  /\ r.owner = [v \in Vip |-> IF v \in Wanted(s, m) THEN m.from ELSE ClaimOwner(s, m, v)]
  /\ r.prio  = [v \in Vip |-> IF v \in Wanted(s, m) THEN PREFER ELSE ClaimPrio(s, m, v)]
  /\ r.oldOwner = [v \in Vip |-> IF v \in Lost(s, m) \cup Won(s, m) THEN ClaimOwner(s, m, v)
                                                                    ELSE s.oldOwner[v]]
  /\ r.oldPrio  = [v \in Vip |-> IF v \in Lost(s, m) \cup Won(s, m) THEN ClaimPrio(s, m, v)
                                                                    ELSE s.oldPrio[v]]

\* MergeClaims is what Merges says of the tables, unless it brings something up again.
LEMMA MergeClaimsMerges ==
  ASSUME NEW self, NEW s, Shape(self, s), NEW m \in StateMessage, NoReup(s, m)
  PROVE  Merges(s, m, MergeClaims(s, m))
<1> DEFINE C     == DOMAIN m.claims
           fresh == {v \in C : s.owner[v] = NoAddr}
           lost  == {v \in C \ fresh : s.prio[v] \in {PREFER_CLAIMED, m.claims[v]}}
           won   == {v \in C \ (fresh \cup lost) :
                       s.prio[v] = CLAIMED /\ m.claims[v] > PREFER}
           released == (IF m.from = s.me THEN lost ELSE {})
                         \cup {v \in won : s.owner[v] = s.me}
           ip    == [s.ip EXCEPT ![m.idx] = m.from]
           owner == [v \in Vip |-> IF v \in fresh \cup won THEN m.from ELSE s.owner[v]]
           prio  == [v \in Vip |-> IF v \in fresh \cup won THEN m.claims[v] ELSE s.prio[v]]
           num   == [k \in DOMAIN s.num |->
                       (IF k = m.idx THEN Cardinality(C) - Cardinality(lost) ELSE s.num[k])
                         - Load(s.owner, won, ip[k])]
           oldOwner == [v \in Vip |-> IF v \in lost \cup won THEN owner[v] ELSE s.oldOwner[v]]
           oldPrio  == [v \in Vip |-> IF v \in lost \cup won THEN prio[v] ELSE s.oldPrio[v]]
           base    == Release(s, released)
           claimed == [base EXCEPT !.ip = ip, !.num = num, !.owner = owner, !.prio = prio,
                                   !.oldOwner = oldOwner, !.oldPrio = oldPrio]
           wanted  == {v \in m.prefer : prio[v] < PREFER}
           owner2  == [v \in Vip |-> IF v \in wanted THEN m.from ELSE owner[v]]
           prio2   == [v \in Vip |-> IF v \in wanted THEN PREFER ELSE prio[v]]
           r       == [claimed EXCEPT !.owner = owner2, !.prio = prio2]
<1> DEFINE r0 == PostRelease(claimed, released)
<1>1. MergeClaims(s, m) = [r0 EXCEPT !.owner = owner2, !.prio = prio2]
  BY DEF MergeClaims
<1>2. /\ fresh = Fresh(s, m) /\ lost = Lost(s, m) /\ won = Won(s, m)
      /\ released = Released(s, m)
  BY DEF Fresh, Lost, Won, Released
<1>3. /\ \A v \in Vip : owner[v] = ClaimOwner(s, m, v)
      /\ \A v \in Vip : prio[v] = ClaimPrio(s, m, v)
  <2> HIDE DEF fresh, won
  <2> QED
    BY <1>2 DEF ClaimOwner, ClaimPrio
<1>4. wanted = Wanted(s, m)
  <2>1. m.prefer \subseteq Vip
    BY DEF StateMessage
  <2> HIDE DEF prio
  <2> QED
    BY <1>3, <2>1 DEF Wanted
<1>5. /\ r.up = s.up \ released /\ r.mine = s.mine - Cardinality(released) /\ r.ip = ip
      /\ r.owner = owner2 /\ r.prio = prio2 /\ r.oldOwner = oldOwner /\ r.oldPrio = oldPrio
  <2>1. /\ base.up = s.up \ released /\ base.mine = s.mine - Cardinality(released)
        /\ DOMAIN base = DOMAIN s
    <3> HIDE DEF released
    <3> QED
      BY DEF Release, Shape, DaemonType
  <2> HIDE DEF base, released, ip, num, owner, prio, oldOwner, oldPrio, owner2, prio2
  <2> QED
    BY <2>1 DEF Shape, DaemonType
<1>8. MergeClaims(s, m) = r
  <2>1. claimed.up = s.up \ released /\ claimed.owner = owner /\ claimed.me = s.me
    <3> HIDE DEF released, ip, num, owner, prio, oldOwner, oldPrio
    <3> QED
      BY DEF Release, Shape, DaemonType
  <2>2. {v \in Vip : claimed.owner[v] = claimed.me} = {v \in Vip : ClaimOwner(s, m, v) = s.me}
    <3> HIDE DEF claimed, owner
    <3> QED
      BY <1>3, <2>1
  <2>3. ASSUME ForceReup, released # {}
        PROVE  claimed.up \cup {v \in Vip : claimed.owner[v] = claimed.me} = claimed.up
    <3> HIDE DEF claimed, owner, released
    <3> QED
      BY <1>2, <2>1, <2>2, <2>3 DEF NoReup
  <2>4. [claimed EXCEPT !.up = claimed.up] = claimed
    <3> DEFINE any == [k \in DOMAIN s |-> claimed[k]]
    <3>1. claimed = any
      <4> HIDE DEF ip, num, owner, prio, oldOwner, oldPrio, released
      <4> QED
        BY DEF Release, Shape, DaemonType
    <3> HIDE DEF claimed
    <3>2. any = [any EXCEPT !.up = any.up]
      OBVIOUS
    <3> QED
      BY <3>1, <3>2
  <2>5. r0 = claimed
    <3> HIDE DEF claimed, released
    <3> QED
      BY <2>3, <2>4 DEF PostRelease
  <2> HIDE DEF claimed, r0
  <2> QED
    BY <1>1, <2>5
<1>6. /\ owner2 = [v \in Vip |-> IF v \in Wanted(s, m) THEN m.from ELSE ClaimOwner(s, m, v)]
      /\ prio2 = [v \in Vip |-> IF v \in Wanted(s, m) THEN PREFER ELSE ClaimPrio(s, m, v)]
  <2> HIDE DEF owner, prio, wanted
  <2> QED
    BY <1>3, <1>4
<1>7. /\ oldOwner = [v \in Vip |-> IF v \in Lost(s, m) \cup Won(s, m)
                                   THEN ClaimOwner(s, m, v) ELSE s.oldOwner[v]]
      /\ oldPrio = [v \in Vip |-> IF v \in Lost(s, m) \cup Won(s, m)
                                  THEN ClaimPrio(s, m, v) ELSE s.oldPrio[v]]
  <2> HIDE DEF owner, prio, lost, won
  <2> QED
    BY <1>2, <1>3
<1> HIDE DEF r, released, owner2, prio2, oldOwner, oldPrio
<1> QED
  BY <1>2, <1>5, <1>6, <1>7, <1>8 DEF Merges

-----------------------------------------------------------------------------
(* The phases of a view. *)

\* An interface is free as long as nobody claims or prefers it.
Free(s) == \A v \in Vip : s.owner[v] = NoAddr <=> s.prio[v] = UNCLAIMED

\* What is held was claimed before the view, by preference or without.
HeldClaimed(s) == \A v \in Held(s) : s.oldPrio[v] \in {CLAIMED, PREFER_CLAIMED}

\* Before the state message of the daemon has come back.
Waiting(s) == s.up = Held(s) /\ Free(s) /\ Owned(s) = {}

\* Afterwards.
Gathered(s) ==
  /\ s.up = Held(s) /\ Free(s)
  /\ \A v \in Vip : s.prio[v] # PREFER => (s.owner[v] = s.me <=> v \in Held(s))

\* When the daemon has decided.
Served(s) ==
  s.up = Owned(s) /\ \A v \in Vip : s.prio[v] \in {CLAIMED, PREFER_CLAIMED}

\* What a state message may claim.
ClaimsClaimed(m) == \A v \in DOMAIN m.claims : m.claims[v] \in {CLAIMED, PREFER_CLAIMED}

\* The fields of a daemon and of a state message that the claims are about.
LEMMA ClaimTypes ==
  ASSUME NEW self, NEW s, Shape(self, s), NEW m \in StateMessage
  PROVE  /\ s.me = self /\ self \in Address /\ self # NoAddr
         /\ \A v \in Vip : s.prio[v] \in {UNCLAIMED, CLAIMED, PREFER, PREFER_CLAIMED}
         /\ DOMAIN m.claims \subseteq Vip /\ m.from # NoAddr
<1>1. DOMAIN m.claims \subseteq Vip
  <2>1. PICK V \in SUBSET Vip : m.claims \in [V -> Priority]
    BY DEF StateMessage, Claims
  <2> QED
    BY <2>1
<1> QED
  BY <1>1, AddressAssumption, PriorityType
  DEF Shape, DaemonType, StateMessage

\* The count follows the interfaces when some of those up are released.
LEMMA ReleaseCounted ==
  ASSUME NEW self, NEW s, Shape(self, s), Counted(s), NEW r, NEW V \in SUBSET s.up,
         r.up = s.up \ V, r.mine = s.mine - Cardinality(V)
  PROVE  Counted(r)
<1>1. IsFiniteSet(s.up) /\ IsFiniteSet(V) /\ s.up \in SUBSET Vip
  BY VipFinite DEF Shape, DaemonType
<1>2. Cardinality(s.up \ V) = Cardinality(s.up) - Cardinality(V)
  <2>1. Cardinality(s.up \ V) = Cardinality(s.up) - Cardinality(s.up \cap V)
    BY <1>1, FS_Difference
  <2>2. s.up \cap V = V
    OBVIOUS
  <2> QED
    BY <2>1, <2>2
<1> QED
  BY <1>2 DEF Counted

\* And when others come up.
LEMMA AcquireCounted ==
  ASSUME NEW self, NEW s, Shape(self, s), Counted(s), NEW r, NEW V \in SUBSET Vip, V \cap s.up = {},
         r.up = s.up \cup V, r.mine = s.mine + Cardinality(V)
  PROVE  Counted(r)
<1>1. IsFiniteSet(s.up) /\ IsFiniteSet(V)
  BY VipFinite DEF Shape, DaemonType
<1>2. Cardinality(s.up \cup V) = Cardinality(s.up) + Cardinality(V)
  <2>1. s.up \cap V = {}
    OBVIOUS
  <2>2. Cardinality(s.up \cup V) = Cardinality(s.up) + Cardinality(V) - Cardinality(s.up \cap V)
    BY <1>1, FS_Union
  <2>3. Cardinality(s.up \cap V) = 0
    BY <2>1, FS_EmptySet
  <2>4. Cardinality(s.up) \in Nat /\ Cardinality(V) \in Nat
    BY <1>1, FS_CardinalityType
  <2> QED
    BY <2>2, <2>3, <2>4
<1> QED
  BY <1>2 DEF Counted

\* The state message of the daemon itself, the first time anything here is claimed for
\* it: what others have claimed before, it gives up, or takes from them by preference.
LEMMA OwnMerged ==
  ASSUME NEW self, NEW s, Shape(self, s), Counted(s), Waiting(s), HeldClaimed(s),
         NEW m \in StateMessage, m.from = self, m.claims = [v \in Held(s) |-> s.oldPrio[v]],
         NEW r, Shape(self, r), Merges(s, m, r)
  PROVE  Counted(r) /\ Gathered(r) /\ HeldClaimed(r)
<1>1. /\ s.me = self /\ r.me = self /\ self # NoAddr
      /\ \A v \in Vip : s.prio[v] \in {UNCLAIMED, CLAIMED, PREFER, PREFER_CLAIMED}
      /\ DOMAIN m.claims = Held(s) /\ Held(s) \subseteq Vip
      /\ \A v \in Held(s) : m.claims[v] = s.oldPrio[v]
  BY ClaimTypes DEF Shape, Held
<1>2. \A v \in Vip : s.owner[v] # self /\ (s.owner[v] = NoAddr <=> s.prio[v] = UNCLAIMED)
  BY <1>1 DEF Waiting, Owned, Free
<1>3. Released(s, m) = Lost(s, m) /\ Lost(s, m) \subseteq Held(s)
  BY <1>1, <1>2 DEF Released, Lost, Won
<1>4. ASSUME NEW v \in Vip
      PROVE  /\ r.oldOwner[v] = IF v \in Lost(s, m) \cup Won(s, m)
                                THEN ClaimOwner(s, m, v) ELSE s.oldOwner[v]
             /\ r.oldPrio[v] = IF v \in Lost(s, m) \cup Won(s, m)
                               THEN ClaimPrio(s, m, v) ELSE s.oldPrio[v]
             /\ r.owner[v] = IF v \in Wanted(s, m) THEN self ELSE ClaimOwner(s, m, v)
             /\ r.prio[v] = IF v \in Wanted(s, m) THEN PREFER ELSE ClaimPrio(s, m, v)
  BY DEF Merges
<1>5. ASSUME NEW v \in Vip
      PROVE  /\ v \in Fresh(s, m) => v \in Held(s) \ (Lost(s, m) \cup Won(s, m))
             /\ v \in Lost(s, m) => v \notin Won(s, m) /\ ClaimOwner(s, m, v) = s.owner[v]
                                    /\ ClaimPrio(s, m, v) = s.prio[v]
             /\ v \in Fresh(s, m) \cup Won(s, m) =>
                  ClaimOwner(s, m, v) = self /\ ClaimPrio(s, m, v) = s.oldPrio[v]
             /\ v \notin Fresh(s, m) \cup Won(s, m) =>
                  ClaimOwner(s, m, v) = s.owner[v] /\ ClaimPrio(s, m, v) = s.prio[v]
  BY <1>1 DEF Fresh, Lost, Won, ClaimOwner, ClaimPrio
<1>6. ASSUME NEW v \in Vip
      PROVE  v \in Held(r) <=> v \in Held(s) \ Lost(s, m)
  <2>1. v \in Held(r) <=> r.oldOwner[v] = self
    BY <1>1 DEF Held
  <2>2. v \in Held(s) <=> s.oldOwner[v] = self
    BY <1>1 DEF Held
  <2>3. v \in Won(s, m) => v \in Held(s)
    BY <1>1 DEF Won
  <2> QED
    BY <1>2, <1>4, <1>5, <2>1, <2>2, <2>3
<1>7. r.up = Held(r)
  <2>1. Held(r) \subseteq Vip
    BY DEF Held
  <2> QED
    BY <1>1, <1>3, <1>6, <2>1 DEF Merges, Waiting
<1>8. Counted(r)
  BY <1>1, <1>3, ReleaseCounted DEF Merges, Waiting
<1>9. ASSUME NEW v \in Held(r) PROVE r.oldPrio[v] \in {CLAIMED, PREFER_CLAIMED}
  <2>1. v \in Vip /\ v \in Held(s) /\ v \notin Lost(s, m)
    BY <1>6 DEF Held
  <2>2. s.oldPrio[v] \in {CLAIMED, PREFER_CLAIMED}
    BY <2>1 DEF HeldClaimed
  <2> QED
    BY <1>4, <1>5, <2>1, <2>2
<1>10. ASSUME NEW v \in Vip PROVE r.owner[v] = NoAddr <=> r.prio[v] = UNCLAIMED
  <2>1. v \in Held(s) => s.oldPrio[v] # UNCLAIMED
    BY DEF HeldClaimed, CLAIMED, PREFER_CLAIMED, UNCLAIMED
  <2>2. v \in Fresh(s, m) \cup Won(s, m) => v \in Held(s)
    BY <1>1 DEF Fresh, Won
  <2>3. PREFER # UNCLAIMED
    BY DEF PREFER, UNCLAIMED
  <2> QED
    BY <1>1, <1>2, <1>4, <1>5, <2>1, <2>2, <2>3
<1>11. ASSUME NEW v \in Vip, r.prio[v] # PREFER PROVE r.owner[v] = self <=> v \in Held(r)
  <2>1. v \notin Wanted(s, m) /\ r.owner[v] = ClaimOwner(s, m, v)
        /\ ClaimPrio(s, m, v) # PREFER
    BY <1>4, <1>11
  <2>2. CASE v \in Fresh(s, m) \cup Won(s, m)
    <3>1. v \in Held(s) /\ v \notin Lost(s, m)
      BY <1>1, <1>5, <2>2 DEF Fresh, Won
    <3> QED
      BY <1>5, <1>6, <2>1, <2>2, <3>1
  <2>3. CASE v \notin Fresh(s, m) \cup Won(s, m)
    <3>1. r.owner[v] # self
      BY <1>2, <1>5, <2>1, <2>3
    <3>2. ASSUME v \in Held(s), v \notin Lost(s, m) PROVE FALSE
      <4>1. s.prio[v] # PREFER /\ s.owner[v] # NoAddr /\ s.prio[v] # UNCLAIMED
        BY <1>1, <1>2, <1>5, <2>1, <2>3, <3>2 DEF Fresh
      <4>2. s.prio[v] = CLAIMED
        BY <1>1, <2>3, <3>2, <4>1 DEF Lost, Fresh
      <4>3. m.claims[v] = CLAIMED \/ m.claims[v] = PREFER_CLAIMED
        BY <1>1, <3>2 DEF HeldClaimed
      <4>4. m.claims[v] # CLAIMED /\ ~(m.claims[v] > PREFER)
        BY <1>1, <2>3, <3>2, <4>1, <4>2 DEF Lost, Fresh, Won
      <4> QED
        BY <4>3, <4>4 DEF PREFER_CLAIMED, PREFER
    <3> QED
      BY <1>6, <3>1, <3>2
  <2> QED
    BY <2>2, <2>3
<1> QED
  BY <1>1, <1>7, <1>8, <1>9, <1>10, <1>11 DEF Gathered, Free, HeldClaimed

\* The state message of a peer that comes before: it claims nothing that is held here
\* and claimed by another peer already.
LEMMA PeerMergedWaiting ==
  ASSUME NEW self, NEW s, Shape(self, s), Counted(s), Waiting(s), HeldClaimed(s),
         NEW m \in StateMessage, m.from # self, ClaimsClaimed(m),
         \A v \in DOMAIN m.claims : v \in Held(s) => s.prio[v] \in {UNCLAIMED, PREFER},
         NEW r, Shape(self, r), Merges(s, m, r)
  PROVE  /\ Counted(r) /\ Waiting(r) /\ HeldClaimed(r) /\ Held(r) = Held(s)
         /\ \A v \in Held(s) : r.oldPrio[v] = s.oldPrio[v]
<1>1. /\ s.me = self /\ r.me = self /\ self # NoAddr /\ m.from # NoAddr
      /\ \A v \in Vip : s.prio[v] \in {UNCLAIMED, CLAIMED, PREFER, PREFER_CLAIMED}
      /\ DOMAIN m.claims \subseteq Vip /\ Held(s) \subseteq Vip
  BY ClaimTypes DEF Shape, Held
<1>2. \A v \in Vip : s.owner[v] # self /\ (s.owner[v] = NoAddr <=> s.prio[v] = UNCLAIMED)
  BY <1>1 DEF Waiting, Owned, Free
<1>3. ASSUME NEW v \in Vip
      PROVE  /\ r.oldOwner[v] = IF v \in Lost(s, m) \cup Won(s, m)
                                THEN ClaimOwner(s, m, v) ELSE s.oldOwner[v]
             /\ r.oldPrio[v] = IF v \in Lost(s, m) \cup Won(s, m)
                               THEN ClaimPrio(s, m, v) ELSE s.oldPrio[v]
             /\ r.owner[v] = IF v \in Wanted(s, m) THEN m.from ELSE ClaimOwner(s, m, v)
             /\ r.prio[v] = IF v \in Wanted(s, m) THEN PREFER ELSE ClaimPrio(s, m, v)
  BY DEF Merges
<1>4. Released(s, m) = {}
  BY <1>1, <1>2 DEF Released, Won
<1>5. \A v \in Vip : ClaimOwner(s, m, v) # self
  BY <1>2 DEF ClaimOwner
<1>6. \A v \in Held(s) : v \notin Lost(s, m) \cup Won(s, m)
  <2> SUFFICES ASSUME NEW v \in Held(s), v \in Lost(s, m) \cup Won(s, m) PROVE FALSE
    OBVIOUS
  <2>1. v \in DOMAIN m.claims /\ s.owner[v] # NoAddr
    BY DEF Lost, Won, Fresh
  <2>2. s.prio[v] = PREFER /\ m.claims[v] \in {CLAIMED, PREFER_CLAIMED}
    BY <1>1, <1>2, <2>1 DEF ClaimsClaimed
  <2> QED
    BY <2>2 DEF Lost, Won, PREFER, CLAIMED, PREFER_CLAIMED
<1>7. \A v \in Vip : v \in Held(r) <=> v \in Held(s)
  BY <1>1, <1>3, <1>5, <1>6 DEF Held
<1>8. Held(r) = Held(s)
  BY <1>7 DEF Held
<1>9. \A v \in Held(s) : r.oldPrio[v] = s.oldPrio[v]
  BY <1>1, <1>3, <1>6
<1>10. r.up = Held(r) /\ Counted(r)
  <2>1. r.up = s.up
    BY <1>4 DEF Merges
  <2>2. s.up \ {} = s.up
    OBVIOUS
  <2> QED
    BY <1>4, <1>8, <2>1, ReleaseCounted DEF Merges, Waiting
<1>11. Owned(r) = {}
  BY <1>1, <1>3, <1>5 DEF Owned
<1>12. Free(r)
  <2> SUFFICES ASSUME NEW v \in Vip PROVE r.owner[v] = NoAddr <=> r.prio[v] = UNCLAIMED
    BY DEF Free
  <2>1. v \in Fresh(s, m) \cup Won(s, m) => m.claims[v] # UNCLAIMED
    BY DEF Fresh, Won, ClaimsClaimed, CLAIMED, PREFER_CLAIMED, UNCLAIMED
  <2>2. PREFER # UNCLAIMED
    BY DEF PREFER, UNCLAIMED
  <2> QED
    BY <1>1, <1>2, <1>3, <2>1, <2>2 DEF ClaimOwner, ClaimPrio
<1> QED
  BY <1>8, <1>9, <1>10, <1>11, <1>12 DEF Waiting, HeldClaimed

\* And the one that comes afterwards: what it takes, the daemon held and releases.
LEMMA PeerMergedGathered ==
  ASSUME NEW self, NEW s, Shape(self, s), Counted(s), Gathered(s), HeldClaimed(s),
         NEW m \in StateMessage, m.from # self, ClaimsClaimed(m),
         NEW r, Shape(self, r), Merges(s, m, r)
  PROVE  Counted(r) /\ Gathered(r) /\ HeldClaimed(r)
<1>1. /\ s.me = self /\ r.me = self /\ self # NoAddr /\ m.from # NoAddr
      /\ \A v \in Vip : s.prio[v] \in {UNCLAIMED, CLAIMED, PREFER, PREFER_CLAIMED}
      /\ DOMAIN m.claims \subseteq Vip /\ Held(s) \subseteq Vip
  BY ClaimTypes DEF Shape, Held
<1>2. \A v \in Vip : /\ s.owner[v] = NoAddr <=> s.prio[v] = UNCLAIMED
                     /\ s.prio[v] # PREFER => (s.owner[v] = self <=> v \in Held(s))
  BY <1>1 DEF Gathered, Free
<1>3. ASSUME NEW v \in Vip
      PROVE  /\ r.oldOwner[v] = IF v \in Lost(s, m) \cup Won(s, m)
                                THEN ClaimOwner(s, m, v) ELSE s.oldOwner[v]
             /\ r.oldPrio[v] = IF v \in Lost(s, m) \cup Won(s, m)
                               THEN ClaimPrio(s, m, v) ELSE s.oldPrio[v]
             /\ r.owner[v] = IF v \in Wanted(s, m) THEN m.from ELSE ClaimOwner(s, m, v)
             /\ r.prio[v] = IF v \in Wanted(s, m) THEN PREFER ELSE ClaimPrio(s, m, v)
  BY DEF Merges
<1>4. Released(s, m) = {v \in Won(s, m) : s.owner[v] = self}
  BY <1>1 DEF Released
<1>5. ASSUME NEW v \in Lost(s, m) \cup Won(s, m)
      PROVE  /\ v \in Vip /\ s.prio[v] \in {CLAIMED, PREFER_CLAIMED}
             /\ s.owner[v] = self <=> v \in Held(s)
  <2>1. v \in Vip /\ v \in DOMAIN m.claims /\ m.claims[v] \in {CLAIMED, PREFER_CLAIMED}
    BY <1>1 DEF Lost, Won, ClaimsClaimed
  <2>2. s.prio[v] \in {CLAIMED, PREFER_CLAIMED}
    BY <2>1 DEF Lost, Won
  <2>3. s.prio[v] # PREFER
    BY <2>2 DEF CLAIMED, PREFER_CLAIMED, PREFER
  <2> QED
    BY <1>2, <2>1, <2>2, <2>3
<1>6. ASSUME NEW v \in Vip
      PROVE  /\ v \in Lost(s, m) => ClaimOwner(s, m, v) = s.owner[v]
                                    /\ ClaimPrio(s, m, v) = s.prio[v] /\ v \notin Won(s, m)
             /\ v \in Fresh(s, m) \cup Won(s, m) => ClaimOwner(s, m, v) = m.from
                                                    /\ ClaimPrio(s, m, v) = m.claims[v]
             /\ v \notin Fresh(s, m) \cup Won(s, m) => ClaimOwner(s, m, v) = s.owner[v]
                                                       /\ ClaimPrio(s, m, v) = s.prio[v]
  BY DEF Lost, Won, Fresh, ClaimOwner, ClaimPrio
<1>7. \A v \in Vip : v \in Held(r) <=> v \in Held(s) \ Released(s, m)
  <2> SUFFICES ASSUME NEW v \in Vip
               PROVE  v \in Held(r) <=> v \in Held(s) \ Released(s, m)
    OBVIOUS
  <2>1. (v \in Held(r) <=> r.oldOwner[v] = self) /\ (v \in Held(s) <=> s.oldOwner[v] = self)
    BY <1>1 DEF Held
  <2> QED
    BY <1>3, <1>4, <1>5, <1>6, <2>1
<1>8. Released(s, m) \subseteq s.up
  BY <1>4, <1>5 DEF Gathered
<1>9. r.up = Held(r) /\ Counted(r)
  <2>1. Held(r) \subseteq Vip
    BY DEF Held
  <2>2. r.up = Held(r)
    BY <1>1, <1>7, <2>1 DEF Merges, Gathered
  <2> QED
    BY <1>8, <2>2, ReleaseCounted DEF Merges
<1>10. ASSUME NEW v \in Held(r) PROVE r.oldPrio[v] \in {CLAIMED, PREFER_CLAIMED}
  <2>1. v \in Vip /\ v \in Held(s) /\ v \notin Released(s, m)
    BY <1>7 DEF Held
  <2>2. v \in Won(s, m) => FALSE
    BY <1>4, <1>5, <2>1
  <2>3. v \in Lost(s, m) => r.oldPrio[v] = s.prio[v]
    BY <1>3, <1>6, <2>1
  <2> QED
    BY <1>3, <1>5, <2>1, <2>2, <2>3 DEF HeldClaimed
<1>11. ASSUME NEW v \in Vip PROVE r.owner[v] = NoAddr <=> r.prio[v] = UNCLAIMED
  <2>1. v \in Fresh(s, m) \cup Won(s, m) => m.claims[v] # UNCLAIMED
    BY DEF Fresh, Won, ClaimsClaimed, CLAIMED, PREFER_CLAIMED, UNCLAIMED
  <2>2. PREFER # UNCLAIMED
    BY DEF PREFER, UNCLAIMED
  <2> QED
    BY <1>1, <1>2, <1>3, <1>6, <2>1, <2>2
<1>12. ASSUME NEW v \in Vip, r.prio[v] # PREFER PROVE r.owner[v] = self <=> v \in Held(r)
  <2>1. /\ v \notin Wanted(s, m) /\ r.owner[v] = ClaimOwner(s, m, v)
        /\ ClaimPrio(s, m, v) # PREFER
    BY <1>3, <1>12
  <2>2. CASE v \in Fresh(s, m)
    <3>1. s.owner[v] = NoAddr /\ s.prio[v] = UNCLAIMED /\ UNCLAIMED # PREFER
      BY <1>2, <2>2 DEF Fresh, UNCLAIMED, PREFER
    <3>2. v \notin Held(s)
      BY <1>1, <1>2, <3>1
    <3> QED
      BY <1>6, <1>7, <2>1, <2>2, <3>2
  <2>3. CASE v \in Won(s, m)
    <3>1. v \notin Held(r)
      BY <1>4, <1>5, <1>7, <2>3
    <3> QED
      BY <1>6, <2>1, <2>3, <3>1
  <2>4. CASE v \notin Fresh(s, m) \cup Won(s, m)
    <3>1. v \notin Released(s, m) /\ s.prio[v] # PREFER
      BY <1>4, <1>6, <2>1, <2>4
    <3> QED
      BY <1>2, <1>6, <1>7, <2>1, <2>4, <3>1
  <2> QED
    BY <2>2, <2>3, <2>4
<1> QED
  BY <1>1, <1>9, <1>10, <1>11, <1>12 DEF Gathered, Free, HeldClaimed

-----------------------------------------------------------------------------
(* The decision. *)

\* The daemon is the member at its index, and at no other.
AtIndex(s) == \A k \in DOMAIN s.ip : s.ip[k] = s.me <=> k = s.idx

\* Priority_claim settles the preferred interfaces: those the daemon shall have come up,
\* those another member shall have go down, and the others stay as they were held.
LEMMA PriorityClaimSettles ==
  ASSUME NEW self, NEW s, Shape(self, s), Counted(s), Gathered(s), ForceReup => Unpreferred(s)
  PROVE  LET p == PriorityClaim(s)
         IN  /\ Counted(p) /\ p.up = Owned(p)
             /\ p.owner = s.owner /\ p.oldOwner = s.oldOwner /\ p.oldPrio = s.oldPrio
             /\ p.ip = s.ip /\ p.idx = s.idx /\ Free(p)
             /\ \A v \in Vip : p.prio[v] # PREFER
<1> DEFINE P        == {v \in Vip : s.prio[v] = PREFER}
           acquired == {v \in P : s.owner[v] = s.me /\ s.oldOwner[v] # s.me}
           released == {v \in P : s.oldOwner[v] = s.me /\ s.owner[v] # s.me}
           moved    == {v \in P : s.owner[v] # s.oldOwner[v]}
           first    == Acquire(s, acquired)
           base     == Release(first, released)
           load(k)  == IF s.mat /\ ~s.oldMat THEN Load(s.owner, Vip, s.ip[k])
                       ELSE s.num[k] - Load(s.oldOwner, moved, s.ip[k])
                                     + Load(s.owner, moved, s.ip[k])
           num      == [k \in DOMAIN s.num |-> load(k)]
           prio     == [v \in Vip |-> IF v \in P THEN PREFER_CLAIMED ELSE s.prio[v]]
           oldMat   == s.oldMat \/ s.mat
           p        == [base EXCEPT !.num = num, !.prio = prio, !.oldMat = oldMat]
<1>1. PriorityClaim(s) = p
  <2>1. PriorityClaim(s) = PostRelease(p, released)
    BY DEF PriorityClaim
  <2>2. ForceReup => P = {}
    BY DEF Unpreferred, UNCLAIMED, CLAIMED, PREFER
  <2>3. ForceReup => released = {}
    BY <2>2
  <2> HIDE DEF p, released
  <2> QED
    BY <2>1, <2>3 DEF PostRelease
<1>2. acquired \in SUBSET Vip /\ released \in SUBSET Vip /\ acquired \cap s.up = {}
  BY DEF Gathered, Held
<1>3. /\ Shape(self, first) /\ first.up = s.up \cup acquired
      /\ first.mine = s.mine + Cardinality(acquired)
  <2> HIDE DEF acquired
  <2>1. Shape(self, first)
    BY <1>2, AcquireShape
  <2> QED
    BY <2>1 DEF Acquire, Shape, DaemonType
<1>4. Counted(first)
  <2> HIDE DEF acquired, first
  <2> QED
    BY <1>2, <1>3, AcquireCounted
<1>5. released \subseteq first.up
  <2>1. released \subseteq s.up
    BY DEF Gathered, Held
  <2> HIDE DEF released, first
  <2> QED
    BY <1>3, <2>1
<1>6. base.up = first.up \ released /\ base.mine = first.mine - Cardinality(released)
  <2> HIDE DEF released, first
  <2> QED
    BY <1>3 DEF Release, Shape, DaemonType
<1>7. /\ p.up = base.up /\ p.mine = base.mine /\ p.prio = prio /\ p.me = s.me
      /\ p.owner = s.owner /\ p.oldOwner = s.oldOwner /\ p.oldPrio = s.oldPrio
      /\ p.ip = s.ip /\ p.idx = s.idx
  <2> HIDE DEF acquired, released, num, prio, oldMat
  <2> QED
    BY DEF Acquire, Release, Shape, DaemonType
<1>8. Counted(p)
  <2> HIDE DEF released, first, base, p
  <2> QED
    BY <1>3, <1>4, <1>5, <1>6, <1>7, ReleaseCounted
<1>9. p.up = Owned(p)
  <2>1. \A v \in Vip : s.prio[v] # PREFER => (s.owner[v] = s.me <=> v \in s.up)
    BY DEF Gathered
  <2>2. \A v \in Vip : v \in s.up <=> s.oldOwner[v] = s.me
    BY DEF Gathered, Held
  <2>3. p.up = (s.up \cup acquired) \ released /\ s.up \subseteq Vip
    <3> HIDE DEF acquired, released, first, base, p
    <3> QED
      BY <1>3, <1>6, <1>7 DEF Shape, DaemonType
  <2>4. Owned(p) = {v \in Vip : s.owner[v] = s.me}
    <3> HIDE DEF p
    <3> QED
      BY <1>7 DEF Owned
  <2> HIDE DEF p
  <2> QED
    BY <2>1, <2>2, <2>3, <2>4
<1>10. \A v \in Vip : p.prio[v] # PREFER /\ (p.owner[v] = NoAddr <=> p.prio[v] = UNCLAIMED)
  <2>1. PREFER_CLAIMED # PREFER /\ PREFER_CLAIMED # UNCLAIMED /\ PREFER # UNCLAIMED
    BY DEF PREFER_CLAIMED, PREFER, UNCLAIMED
  <2>2. \A v \in Vip : s.owner[v] = NoAddr <=> s.prio[v] = UNCLAIMED
    BY DEF Gathered, Free
  <2>3. \A v \in Vip : p.prio[v] = IF s.prio[v] = PREFER THEN PREFER_CLAIMED ELSE s.prio[v]
    <3> HIDE DEF p
    <3> QED
      BY <1>7
  <2> HIDE DEF p
  <2> QED
    BY <1>7, <2>1, <2>2, <2>3
<1> HIDE DEF p
<1> QED
  BY <1>1, <1>7, <1>8, <1>9, <1>10 DEF Free

\* Claim_unclaimed brings up the free interfaces that fall to the daemon.
LEMMA ClaimUnclaimedSettles ==
  ASSUME NEW self, NEW s, Shape(self, s), Counted(s), s.up = Owned(s), Free(s), AtIndex(s),
         \A v \in Vip : s.prio[v] # PREFER, NEW t \in ClaimUnclaimed(s)
  PROVE  /\ Counted(t) /\ Served(t)
         /\ t.ip = s.ip /\ t.idx = s.idx
         /\ t.oldOwner = s.oldOwner /\ t.oldPrio = s.oldPrio
<1> DEFINE U == {v \in Vip : s.prio[v] = UNCLAIMED}
<1>1. PICK f \in [U -> DOMAIN s.num] :
         t = [Acquire(s, {v \in U : f[v] = s.idx}) EXCEPT
                !.num   = [k \in DOMAIN @ |-> @[k] + Load(f, U, k)],
                !.owner = [v \in Vip |-> IF v \in U THEN s.ip[f[v]] ELSE @[v]],
                !.prio  = [v \in Vip |-> IF v \in U THEN CLAIMED ELSE @[v]]]
  BY DEF ClaimUnclaimed
<1> DEFINE mine  == {v \in U : f[v] = s.idx}
           base  == Acquire(s, mine)
           num   == [k \in DOMAIN s.num |-> s.num[k] + Load(f, U, k)]
           owner == [v \in Vip |-> IF v \in U THEN s.ip[f[v]] ELSE s.owner[v]]
           prio  == [v \in Vip |-> IF v \in U THEN CLAIMED ELSE s.prio[v]]
<1>2. base.owner = s.owner /\ base.num = s.num /\ base.prio = s.prio /\ DOMAIN base = DOMAIN s
  <2> HIDE DEF mine
  <2> QED
    BY DEF Acquire, Shape, DaemonType
<1>3. t = [base EXCEPT !.num = num, !.owner = owner, !.prio = prio]
  <2> HIDE DEF base
  <2>1. t = [base EXCEPT !.num   = [k \in DOMAIN base.num |-> base.num[k] + Load(f, U, k)],
                         !.owner = [v \in Vip |-> IF v \in U THEN s.ip[f[v]] ELSE base.owner[v]],
                         !.prio  = [v \in Vip |-> IF v \in U THEN CLAIMED ELSE base.prio[v]]]
    BY <1>1, <1>2 DEF base, Shape, DaemonType
  <2> QED
    BY <1>2, <2>1
<1>4. /\ t.up = s.up \cup mine /\ t.mine = s.mine + Cardinality(mine)
      /\ t.owner = owner /\ t.prio = prio /\ t.me = s.me
      /\ t.ip = s.ip /\ t.idx = s.idx /\ t.oldOwner = s.oldOwner /\ t.oldPrio = s.oldPrio
  <2> HIDE DEF mine, num, owner, prio
  <2> QED
    BY <1>3 DEF Acquire, Shape, DaemonType
<1>5. /\ s.me = self /\ self # NoAddr
      /\ \A v \in Vip : s.prio[v] \in {UNCLAIMED, CLAIMED, PREFER, PREFER_CLAIMED}
  BY AddressAssumption, PriorityType DEF Shape, DaemonType
<1>6. mine \in SUBSET Vip /\ mine \cap s.up = {}
  BY <1>5 DEF Free, Owned
<1>7. Counted(t)
  <2> HIDE DEF mine
  <2> QED
    BY <1>4, <1>6, AcquireCounted
<1>8. \A v \in Vip : owner[v] = s.me <=> v \in s.up \cup mine
  <2> SUFFICES ASSUME NEW v \in Vip PROVE owner[v] = s.me <=> v \in s.up \cup mine
    OBVIOUS
  <2>1. CASE v \in U
    <3>1. f[v] \in DOMAIN s.ip
      BY <2>1 DEF Shape
    <3>2. owner[v] = s.me <=> f[v] = s.idx
      BY <2>1, <3>1 DEF AtIndex
    <3>3. v \notin s.up
      BY <1>5, <2>1 DEF Free, Owned
    <3> QED
      BY <2>1, <3>2, <3>3
  <2>2. CASE v \notin U
    BY <2>2 DEF Owned
  <2> QED
    BY <2>1, <2>2
<1>9. t.up = Owned(t)
  <2>1. s.up \cup mine \subseteq Vip
    BY DEF Owned
  <2> HIDE DEF mine, owner
  <2> QED
    BY <1>4, <1>8, <2>1 DEF Owned
<1>10. \A v \in Vip : t.prio[v] \in {CLAIMED, PREFER_CLAIMED}
  BY <1>4, <1>5
<1> QED
  BY <1>4, <1>7, <1>9, <1>10 DEF Served

\* The tables are ready for the decision.
Ready(s) ==
  Counted(s) /\ Gathered(s) /\ AtIndex(s) /\ (ForceReup => Unpreferred(s))

\* Both, and State = RUN.
LEMMA ShiftToRunSettles ==
  ASSUME NEW self, NEW s, Shape(self, s), Ready(s), NEW t \in ShiftToRun(s)
  PROVE  /\ Counted(t) /\ Served(t)
         /\ t.ip = s.ip /\ t.idx = s.idx /\ t.state = "RUN"
         /\ t.oldOwner = s.oldOwner /\ t.oldPrio = s.oldPrio
<1> DEFINE p == PriorityClaim(s)
<1>1. /\ Shape(self, p) /\ Counted(p) /\ p.up = Owned(p) /\ Free(p)
      /\ p.oldOwner = s.oldOwner /\ p.oldPrio = s.oldPrio
      /\ p.ip = s.ip /\ p.idx = s.idx /\ \A v \in Vip : p.prio[v] # PREFER
  BY PriorityClaimShape, PriorityClaimSettles DEF Ready
<1>2. PICK c \in ClaimUnclaimed(p) : t = [c EXCEPT !.state = "RUN", !.tBalance = TRUE]
  BY DEF ShiftToRun
<1> HIDE DEF p
<1>3. AtIndex(p)
  BY <1>1 DEF Ready, AtIndex, Shape
<1>4. /\ Shape(self, c) /\ Counted(c) /\ Served(c) /\ c.ip = p.ip /\ c.idx = p.idx
      /\ c.oldOwner = p.oldOwner /\ c.oldPrio = p.oldPrio
  BY <1>1, <1>2, <1>3, ClaimUnclaimedShape, ClaimUnclaimedSettles
<1>5. /\ t.up = c.up /\ t.mine = c.mine /\ t.owner = c.owner /\ t.prio = c.prio /\ t.me = c.me
      /\ t.ip = c.ip /\ t.idx = c.idx /\ t.oldOwner = c.oldOwner /\ t.oldPrio = c.oldPrio
      /\ t.state = "RUN"
  BY <1>2, <1>4 DEF Shape, DaemonType
<1> QED
  BY <1>1, <1>4, <1>5 DEF Counted, Served, Owned

-----------------------------------------------------------------------------
(* The handlers of the messages. *)

\* A handler left the interfaces and the tables alone.
Untouched(s, t) == SameTables(s, t) /\ t.up = s.up /\ t.ip = s.ip /\ t.idx = s.idx

\* Or it made the daemon decide.
Shifted(s, t) ==
  /\ Counted(t) /\ Served(t) /\ t.state = "RUN"
  /\ t.ip = s.ip /\ t.idx = s.idx /\ t.oldOwner = s.oldOwner /\ t.oldPrio = s.oldPrio

\* What the phases say holds as long as the tables are untouched.
LEMMA UntouchedPhases ==
  ASSUME NEW self, NEW s, Shape(self, s), NEW t, Shape(self, t), Untouched(s, t)
  PROVE  /\ Counted(s) => Counted(t)
         /\ Waiting(s) => Waiting(t)
         /\ Gathered(s) => Gathered(t)
         /\ Served(s) => Served(t)
         /\ Ready(s) => Ready(t)
         /\ HeldClaimed(s) => HeldClaimed(t)
         /\ Held(t) = Held(s) /\ Owned(t) = Owned(s)
<1>1. /\ t.me = s.me /\ t.owner = s.owner /\ t.prio = s.prio /\ t.mine = s.mine
      /\ t.oldOwner = s.oldOwner /\ t.oldPrio = s.oldPrio
      /\ t.up = s.up /\ t.ip = s.ip /\ t.idx = s.idx
  BY DEF Untouched, SameTables, Shape
<1> QED
  BY <1>1 DEF Counted, Waiting, Gathered, Served, AtIndex, HeldClaimed, Held, Owned, Free,
              Ready, Unpreferred

\* Handle_mature.
LEMMA HandleMatureTables ==
  ASSUME NEW self, NEW s, Shape(self, s), s.state # "GATHER" /\ ~s.mat => Ready(s),
         NEW t \in HandleMature(s)
  PROVE  (Untouched(s, t) /\ t.state = s.state) \/ Shifted(s, t)
<1> DEFINE matured == [s EXCEPT !.mat = TRUE, !.tMature = FALSE]
<1>1. Shape(self, matured) /\ Untouched(s, matured) /\ matured.state = s.state
  BY DEF Shape, DaemonType, Untouched, SameTables
<1>2. CASE t = s
  BY <1>2 DEF Untouched, SameTables
<1>3. CASE t = matured
  BY <1>1, <1>3
<1>4. CASE ~s.mat /\ s.state # "GATHER" /\ t \in ShiftToRun(matured)
  <2> HIDE DEF matured
  <2>1. Ready(matured)
    BY <1>1, <1>4, UntouchedPhases
  <2>2. Shifted(matured, t)
    BY <1>1, <1>4, <2>1, ShiftToRunSettles DEF Shifted
  <2> QED
    BY <1>1, <2>2 DEF Shifted, Untouched, SameTables
<1> QED
  BY <1>2, <1>3, <1>4 DEF HandleMature

\* The count of Handle_state.
LEMMA CountStateTables ==
  ASSUME NEW self, NEW s, Shape(self, s), s.state = "GATHER", s.pending = 1 => Ready(s),
         NEW t \in CountState(s)
  PROVE  (Untouched(s, t) /\ t.state \in {"GATHER", "BOOT"}) \/ Shifted(s, t)
<1> DEFINE counted == [s EXCEPT !.pending = s.pending - 1]
<1>0. s.pending \in Int /\ s.pending - 1 \in Int
  BY DEF Shape, DaemonType
<1>1. /\ Shape(self, counted) /\ counted.pending = s.pending - 1 /\ counted.state = "GATHER"
      /\ Untouched(s, counted)
  BY <1>0 DEF Shape, DaemonType, Untouched, SameTables
<1>2. [s EXCEPT !.pending = @ - 1] = counted
  BY DEF Shape, DaemonType
<1>3. CASE t = counted
  BY <1>1, <1>3
<1> HIDE DEF counted
<1>4. CASE counted.pending = 0 /\ t \in ShiftToRun(counted)
  <2>1. s.pending = 1
    BY <1>0, <1>1, <1>4
  <2>2. Ready(counted)
    BY <1>1, <2>1, UntouchedPhases
  <2>3. Shifted(counted, t)
    BY <1>1, <1>4, <2>2, ShiftToRunSettles DEF Shifted
  <2> QED
    BY <1>1, <2>3 DEF Shifted, Untouched, SameTables
<1>5. CASE t = [counted EXCEPT !.state = "BOOT"]
  <2>1. Untouched(counted, t) /\ t.state = "BOOT"
    BY <1>1, <1>5 DEF Untouched, SameTables, Shape, DaemonType
  <2> QED
    BY <1>1, <2>1 DEF Untouched, SameTables
<1> QED
  BY <1>2, <1>3, <1>4, <1>5 DEF CountState

\* What a merge makes of the tables follows from the tables.
LEMMA ClaimsFrom ==
  ASSUME NEW self, NEW s, Shape(self, s), NEW u, Shape(self, u), Untouched(s, u), NEW m
  PROVE  /\ Lost(u, m) = Lost(s, m) /\ Won(u, m) = Won(s, m) /\ Released(u, m) = Released(s, m)
         /\ \A v : /\ ClaimOwner(u, m, v) = ClaimOwner(s, m, v)
                   /\ ClaimPrio(u, m, v) = ClaimPrio(s, m, v)
<1>1. u.me = s.me /\ u.owner = s.owner /\ u.prio = s.prio
  BY DEF Untouched, SameTables, Shape
<1>2. Fresh(u, m) = Fresh(s, m)
  BY <1>1 DEF Fresh
<1>3. Lost(u, m) = Lost(s, m)
  BY <1>1, <1>2 DEF Lost
<1>4. Won(u, m) = Won(s, m)
  BY <1>1, <1>2, <1>3 DEF Won
<1>5. Released(u, m) = Released(s, m)
  BY <1>1, <1>3, <1>4 DEF Released
<1>6. \A v : ClaimOwner(u, m, v) = ClaimOwner(s, m, v) /\ ClaimPrio(u, m, v) = ClaimPrio(s, m, v)
  BY <1>1, <1>2, <1>4 DEF ClaimOwner, ClaimPrio
<1> QED
  BY <1>3, <1>4, <1>5, <1>6

\* And it makes the same of them.
LEMMA MergesFrom ==
  ASSUME NEW self, NEW s, Shape(self, s), NEW u, Shape(self, u), Untouched(s, u), NEW m, NEW r, Merges(u, m, r)
  PROVE  Merges(s, m, r)
<1>1. /\ u.mine = s.mine /\ u.oldOwner = s.oldOwner /\ u.oldPrio = s.oldPrio
      /\ u.up = s.up /\ u.ip = s.ip
  BY DEF Untouched, SameTables
<1>2. /\ Lost(u, m) = Lost(s, m) /\ Won(u, m) = Won(s, m) /\ Released(u, m) = Released(s, m)
      /\ \A v : ClaimOwner(u, m, v) = ClaimOwner(s, m, v) /\ ClaimPrio(u, m, v) = ClaimPrio(s, m, v)
  BY ClaimsFrom
<1>3. Wanted(u, m) = Wanted(s, m)
  BY <1>2 DEF Wanted
<1> QED
  BY <1>1, <1>2, <1>3 DEF Merges

\* It brings nothing up again that it did not before.
LEMMA NoReupFrom ==
  ASSUME NEW self, NEW s, Shape(self, s), NEW u, Shape(self, u), Untouched(s, u), NEW m, NoReup(s, m)
  PROVE  NoReup(u, m)
<1>1. u.me = s.me /\ u.up = s.up
  BY DEF Untouched, Shape
<1>2. Released(u, m) = Released(s, m) /\ \A v : ClaimOwner(u, m, v) = ClaimOwner(s, m, v)
  BY ClaimsFrom
<1> QED
  BY <1>1, <1>2 DEF NoReup

\* A state message of this view: its claims are merged, and the last one makes a mature
\* daemon decide.
LEMMA ReceiveStateTables ==
  ASSUME NEW self, NEW s, Shape(self, s), s.state = "GATHER",
         NEW m \in StateMessage, m.gid = s.gid, NoReup(s, m), NEW t \in Receive(s, m)
  PROVE  \E r : /\ Shape(self, r) /\ Merges(s, m, r) /\ r.idx = s.idx
                /\ (s.pending = 1 => Ready(r)) =>
                     (Untouched(r, t) /\ t.state \in {"GATHER", "BOOT"}) \/ Shifted(r, t)
<1> DEFINE filled == Received(s, m)
           r      == MergeClaims(filled, m)
<1>1. m \in GroupMessage /\ m.kind = "state"
  BY DEF GroupMessage, Message, StateMessage
<1>2. Shape(self, filled) /\ Same(s, filled) /\ Untouched(s, filled)
  BY <1>1, ReceivedSame DEF Untouched, Same
<1>3. t \in HandleState(filled, m)
  BY <1>1 DEF Receive, Received, InBuffer, Dispatch
<1> HIDE DEF filled
<1>4. Shape(self, r) /\ Merges(s, m, r) /\ Same(filled, r)
  <2>1. NoReup(filled, m)
    BY <1>2, NoReupFrom
  <2> QED
    BY <1>2, <2>1, MergeClaimsShape, MergeClaimsMerges, MergesFrom, ShapeNamed, MergeClaimsSame
<1>5. PICK u \in IF ~filled.mat /\ m.mat THEN HandleMature(r) ELSE {r} : t \in CountState(u)
  BY <1>2, <1>3 DEF HandleState, Same
<1> HIDE DEF r
<1>6. r.idx = s.idx /\ r.state = "GATHER" /\ r.pending = s.pending
  BY <1>2, <1>4 DEF Same
<1>7. Shape(self, u) /\ Untouched(r, u) /\ u.state = "GATHER" /\ u.pending = s.pending
  <2>1. CASE u = r
    BY <1>4, <1>6, <2>1 DEF Untouched, SameTables
  <2>2. CASE u \in HandleMature(r)
    <3>1. u = r \/ u = [r EXCEPT !.mat = TRUE, !.tMature = FALSE]
      BY <1>6, <2>2 DEF HandleMature
    <3>2. Shape(self, u)
      BY <1>4, <2>2, HandleMatureShape
    <3>3. SameTables(r, u) /\ u.up = r.up /\ u.ip = r.ip /\ u.idx = r.idx
      BY ZenonT(60), <1>4, <3>1 DEF SameTables, Shape, DaemonType
    <3>4. u.state = r.state /\ u.pending = r.pending
      BY <1>4, <3>1 DEF Shape, DaemonType
    <3> QED
      BY <1>6, <3>2, <3>3, <3>4 DEF Untouched
  <2> QED
    BY <1>5, <2>1, <2>2
<1>8. ASSUME s.pending = 1 => Ready(r)
      PROVE  (Untouched(r, t) /\ t.state \in {"GATHER", "BOOT"}) \/ Shifted(r, t)
  <2>1. u.pending = 1 => Ready(u)
    BY <1>4, <1>7, <1>8, UntouchedPhases
  <2>2. (Untouched(u, t) /\ t.state \in {"GATHER", "BOOT"}) \/ Shifted(u, t)
    BY <1>5, <1>7, <2>1, CountStateTables
  <2> QED
    BY <1>7, <2>2 DEF Untouched, SameTables, Shifted
<1> QED
  BY <1>4, <1>6, <1>8

-----------------------------------------------------------------------------
(* The moves of a balance message. *)

\* A set has as many elements as its image under a function that is one to one.
LEMMA SameSize ==
  ASSUME NEW S, IsFiniteSet(S), NEW T, NEW f \in [S -> T],
         \A a, b \in S : f[a] = f[b] => a = b,
         \A t \in T : \E a \in S : f[a] = t
  PROVE  IsFiniteSet(T) /\ Cardinality(T) = Cardinality(S)
<1>1. f \in Surjection(S, T) /\ f \in Injection(S, T)
  BY DEF Surjection, Injection, IsInjective
<1> QED
  BY <1>1, FS_Surjection

\* Interfaces, as numbers that no move of a message has.
Negative(V) == {-v : v \in V}

\* Negating indices keeps their number.
LEMMA NegativeSize ==
  ASSUME NEW V \in SUBSET Vip
  PROVE  IsFiniteSet(Negative(V)) /\ Cardinality(Negative(V)) = Cardinality(V)
<1> DEFINE f == [v \in V |-> -v]
<1>1. V \subseteq Int
  BY DEF Vip
<1>2. f \in [V -> Negative(V)] /\ \A a, b \in V : f[a] = f[b] => a = b
  BY <1>1 DEF Negative
<1>3. \A t \in Negative(V) : \E a \in V : f[a] = t
  BY DEF Negative
<1> HIDE DEF f
<1> QED
  BY <1>2, <1>3, VipFinite, SameSize

\* A message gives an interface to the daemon at some moves and takes it away at others.
\* A turn of the daemon begins with an interface it has or a move that gives it one
\* (Begins), and ends with a move that takes it away or with one it has left (Ends).
Begins(s, moves) ==
  {i \in 1..Len(moves) : moves[i].to = s.me} \cup Negative(Owned(s))

Ends(s, moves) ==
  {i \in 1..Len(moves) : OwnerFound(s, moves, i) = s.me}
    \cup Negative(Owned(ApplyMoves(s, moves)))

\* The interface of a turn, and the moves of it that follow a move or the beginning.
VipOf(moves, a)   == IF a > 0 THEN moves[a].vip ELSE -a

Following(moves, a) == {j \in MovesOf(moves, VipOf(moves, a)) : j > a}
EndOf(moves, a)   == IF Following(moves, a) = {} THEN -VipOf(moves, a)
                                               ELSE Min(Following(moves, a))

\* The owner that a move finds, by the move before it.
LEMMA FoundOwner ==
  ASSUME NEW s, NEW moves \in Seq(Move), NEW i \in 1..Len(moves)
  PROVE  /\ i \in MovesOf(moves, moves[i].vip) /\ moves[i] \in Move
         /\ Earlier(moves, i) = {} => OwnerFound(s, moves, i) = s.owner[moves[i].vip]
         /\ \A a \in Earlier(moves, i) :
              (\A k \in Earlier(moves, i) : k <= a) => OwnerFound(s, moves, i) = moves[a].to
<1>1. i \in Nat /\ i - 1 \in Nat /\ Earlier(moves, i) \in SUBSET (1..(i - 1))
  BY DEF Earlier
<1>2. ASSUME NEW a \in Earlier(moves, i), \A k \in Earlier(moves, i) : k <= a
      PROVE  OwnerFound(s, moves, i) = moves[a].to
  <2>1. /\ Max(Earlier(moves, i)) \in Earlier(moves, i)
        /\ \A y \in Earlier(moves, i) : Max(Earlier(moves, i)) >= y
    BY <1>1, HasMax
  <2>2. a \in Int /\ Max(Earlier(moves, i)) \in Int
    BY <1>1, <2>1
  <2>3. Max(Earlier(moves, i)) = a
    BY <1>2, <2>1, <2>2
  <2> QED
    BY <2>3 DEF OwnerFound
<1> QED
  BY <1>2 DEF OwnerFound, MovesOf

\* The owner that the last move leaves.
LEMMA FinalOwner ==
  ASSUME NEW self, NEW s, Shape(self, s), NEW moves \in Seq(Move), NEW v \in Vip
  PROVE  LET t == ApplyMoves(s, moves)
         IN  /\ MovesOf(moves, v) = {} => t.owner[v] = s.owner[v]
             /\ \A a \in MovesOf(moves, v) :
                  (\A k \in MovesOf(moves, v) : k <= a) => t.owner[v] = moves[a].to
<1> DEFINE t == ApplyMoves(s, moves)
           last == Max(MovesOf(moves, v))
<1>1. t.owner[v] = IF MovesOf(moves, v) # {} THEN moves[last].to ELSE s.owner[v]
  <2> DEFINE owner == [u \in Vip |-> IF u \in {w \in Vip : MovesOf(moves, w) # {}}
                                     THEN moves[Max(MovesOf(moves, u))].to ELSE s.owner[u]]
  <2>1. TableOf(t) = Moved(TableOf(s), moves)
    BY ApplyMovesTable
  <2>2. t.owner = owner
    <3>1. TableOf(t).owner = owner
      BY <2>1 DEF Moved, TableOf
    <3> HIDE DEF owner, t
    <3> QED
      BY <3>1 DEF TableOf
  <2> HIDE DEF t
  <2> QED
    BY <2>2
<1> HIDE DEF t
<1>2. ASSUME NEW a \in MovesOf(moves, v), \A k \in MovesOf(moves, v) : k <= a
      PROVE  t.owner[v] = moves[a].to
  <2>1. Len(moves) \in Nat /\ MovesOf(moves, v) \in SUBSET (1..Len(moves))
    BY DEF MovesOf
  <2>2. last \in MovesOf(moves, v) /\ \A y \in MovesOf(moves, v) : last >= y
    BY <1>2, <2>1, HasMax
  <2>3. a \in Int /\ last \in Int
    BY <2>1, <2>2
  <2>4. last = a
    BY <1>2, <2>2, <2>3
  <2> QED
    BY <1>1, <1>2, <2>4
<1> QED
  BY <1>1, <1>2 DEF t

\* The turn that begins at a ends at a move or with the table, and both are ends.
LEMMA EndIsEnd ==
  ASSUME NEW self, NEW s, Shape(self, s), NEW moves \in Seq(Move),
         NEW a \in Begins(s, moves)
  PROVE  /\ a \in Int /\ VipOf(moves, a) \in Vip
         /\ EndOf(moves, a) \in Ends(s, moves)
         /\ VipOf(moves, EndOf(moves, a)) = VipOf(moves, a)
         /\ Following(moves, a) # {} => EndOf(moves, a) \in Following(moves, a)
                                        /\ \A k \in Following(moves, a) : EndOf(moves, a) <= k
<1> DEFINE v == VipOf(moves, a)
           F == Following(moves, a)
           t == ApplyMoves(s, moves)
<1>0. s.me = self /\ t.me = self
  BY ApplyMovesShape DEF Shape
<1>1. \/ a \in 1..Len(moves) /\ moves[a].to = self /\ a > 0 /\ v = moves[a].vip
      \/ a = -v /\ ~(a > 0) /\ v \in Vip /\ s.owner[v] = self
  BY <1>0 DEF Begins, Negative, Owned, VipOf, Vip
<1>2. a \in Int /\ v \in Vip
  <2>1. a \in 1..Len(moves) => moves[a] \in Move
    OBVIOUS
  <2> QED
    BY <1>1, <2>1 DEF Move, Vip
<1>3. F = {j \in MovesOf(moves, v) : j > a} /\ MovesOf(moves, v) \subseteq 1..Len(moves)
  BY DEF Following, MovesOf
<1>4. CASE F = {}
  <2>1. EndOf(moves, a) = -v
    BY <1>4 DEF EndOf
  <2>2. t.owner[v] = self
    <3>1. CASE a > 0
      <4>1. a \in MovesOf(moves, v) /\ moves[a].to = self
        BY <1>1, <3>1 DEF MovesOf
      <4>2. \A k \in MovesOf(moves, v) : k <= a
        BY <1>2, <1>3, <1>4
      <4> QED
        BY <1>2, <4>1, <4>2, FinalOwner
    <3>2. CASE ~(a > 0)
      <4>1. s.owner[v] = self
        BY <1>1, <3>2
      <4>2. MovesOf(moves, v) = {}
        BY <1>2, <1>3, <1>4, <3>2
      <4> QED
        BY <1>2, <4>1, <4>2, FinalOwner
    <3> QED
      BY <3>1, <3>2
  <2>3. v \in Owned(t)
    BY <1>0, <1>2, <2>2 DEF Owned
  <2>4. -v \in Ends(s, moves)
    BY <2>3 DEF Ends, Negative
  <2>5. VipOf(moves, -v) = v
    BY <1>2 DEF VipOf, Vip
  <2> QED
    BY <1>2, <1>4, <2>1, <2>4, <2>5
<1>5. CASE F # {}
  <2> DEFINE j == Min(F)
  <2>1. j \in F /\ \A k \in F : j <= k
    <3>1. F \in SUBSET Nat
      BY <1>3
    <3> HIDE DEF F
    <3> QED
      BY <1>5, <3>1, HasMin
  <2>2. EndOf(moves, a) = j
    BY <1>5 DEF EndOf
  <2> HIDE DEF j
  <2>3. j \in 1..Len(moves) /\ j > a /\ moves[j].vip = v
    BY <1>3, <2>1 DEF MovesOf
  <2>4. Earlier(moves, j) = {k \in MovesOf(moves, v) : k < j}
    BY <2>3 DEF Earlier, MovesOf
  <2>5. OwnerFound(s, moves, j) = self
    <3>1. CASE a > 0
      <4>1. a \in Earlier(moves, j) /\ moves[a].to = self
        BY <1>1, <2>3, <2>4, <3>1 DEF MovesOf
      <4>2. \A k \in Earlier(moves, j) : k <= a
        BY <1>2, <1>3, <2>1, <2>3, <2>4
      <4> QED
        BY <2>3, <4>1, <4>2, FoundOwner
    <3>2. CASE ~(a > 0)
      <4>1. s.owner[v] = self
        BY <1>1, <3>2
      <4>2. Earlier(moves, j) = {}
        BY <1>2, <1>3, <2>1, <2>3, <2>4, <3>2
      <4>3. OwnerFound(s, moves, j) = s.owner[moves[j].vip]
        BY <2>3, <4>2, FoundOwner
      <4> QED
        BY <2>3, <4>1, <4>3
    <3> QED
      BY <3>1, <3>2
  <2>6. j \in Ends(s, moves)
    BY <1>0, <2>3, <2>5 DEF Ends
  <2>7. VipOf(moves, j) = v
    BY <2>3 DEF VipOf
  <2> QED
    BY <1>2, <2>1, <2>2, <2>6, <2>7
<1> QED
  BY <1>4, <1>5

\* Two turns do not end together.
LEMMA EndOneToOne ==
  ASSUME NEW self, NEW s, Shape(self, s), NEW moves \in Seq(Move),
         NEW a \in Begins(s, moves), NEW b \in Begins(s, moves),
         EndOf(moves, a) = EndOf(moves, b)
  PROVE  a = b
<1>1. /\ a \in Int /\ b \in Int /\ VipOf(moves, a) = VipOf(moves, b)
      /\ VipOf(moves, a) \in Vip
  BY EndIsEnd
<1>2. ASSUME NEW x \in Begins(s, moves), NEW y \in Begins(s, moves), x < y,
             x \in Int, y \in Int,
             VipOf(moves, x) = VipOf(moves, y), EndOf(moves, x) = EndOf(moves, y)
      PROVE  FALSE
  <2> DEFINE v == VipOf(moves, x)
  <2>1. v \in Vip /\ v \in Int /\ v > 0
    BY <1>2, EndIsEnd DEF Vip
  <2>2. y > 0
    <3> SUFFICES ASSUME ~(y > 0) PROVE FALSE
      OBVIOUS
    <3>1. y = -v /\ x = -v
      BY <1>2 DEF VipOf
    <3> QED
      BY <1>2, <3>1
  <2>3. y \in Following(moves, x)
    <3>1. y \in 1..Len(moves) /\ moves[y].vip = v
      BY <1>2, <2>2 DEF Begins, Negative, Owned, Vip, VipOf
    <3> QED
      BY <1>2, <3>1 DEF Following, MovesOf
  <2>4. EndOf(moves, x) \in Following(moves, x) /\ EndOf(moves, x) <= y
    BY <1>2, <2>3, EndIsEnd
  <2>5. EndOf(moves, x) \in Int /\ EndOf(moves, x) > 0
    BY <2>4 DEF Following, MovesOf
  <2>6. Following(moves, y) # {}
    <3> SUFFICES ASSUME Following(moves, y) = {} PROVE FALSE
      OBVIOUS
    <3>1. EndOf(moves, y) = -v
      BY <1>2 DEF EndOf
    <3> QED
      BY <1>2, <2>1, <2>5, <3>1
  <2>7. EndOf(moves, y) > y
    BY <2>6, EndIsEnd DEF Following
  <2> QED
    BY <1>2, <2>4, <2>5, <2>7
<1> QED
  BY <1>1, <1>2

\* Every end is the end of a turn.
LEMMA EndOnto ==
  ASSUME NEW self, NEW s, Shape(self, s), NEW moves \in Seq(Move), NEW e \in Ends(s, moves)
  PROVE  \E a \in Begins(s, moves) : EndOf(moves, a) = e
<1> DEFINE v == VipOf(moves, e)
           t == ApplyMoves(s, moves)
           P == {k \in MovesOf(moves, v) : e > 0 => k < e}
<1>0. s.me = self /\ t.me = self
  BY ApplyMovesShape DEF Shape
<1>1. \/ e \in 1..Len(moves) /\ OwnerFound(s, moves, e) = self /\ e > 0 /\ v = moves[e].vip
      \/ e = -v /\ ~(e > 0) /\ v \in Vip /\ t.owner[v] = self
  <2> HIDE DEF t
  <2> QED
    BY <1>0 DEF Ends, Negative, Owned, VipOf, Vip, t
<1>2. e \in Int /\ v \in Vip /\ v \in Int /\ v > 0
  <2>1. e \in 1..Len(moves) => moves[e] \in Move
    OBVIOUS
  <2> HIDE DEF t
  <2> QED
    BY <1>1, <2>1 DEF Move, Vip
<1>3. MovesOf(moves, v) \subseteq 1..Len(moves) /\ Len(moves) \in Nat
  BY DEF MovesOf
<1>4. e > 0 => e \in MovesOf(moves, v) /\ P = Earlier(moves, e)
  <2> HIDE DEF t
  <2> QED
    BY <1>1 DEF MovesOf, Earlier
<1>5. ~(e > 0) => P = MovesOf(moves, v)
  OBVIOUS
<1> HIDE DEF v, t
<1>6. CASE P = {}
  <2>1. s.owner[v] = self
    <3>1. ASSUME e > 0 PROVE s.owner[v] = self
      <4>1. e \in 1..Len(moves) /\ Earlier(moves, e) = {} /\ v = moves[e].vip
        BY <1>1, <1>4, <1>6, <3>1
      <4>2. OwnerFound(s, moves, e) = s.owner[moves[e].vip]
        BY ZenonT(60), <4>1, FoundOwner
      <4> QED
        BY <1>1, <3>1, <4>1, <4>2
    <3>2. ~(e > 0) => s.owner[v] = self
      BY <1>1, <1>2, <1>5, <1>6, FinalOwner DEF t
    <3> QED
      BY <3>1, <3>2
  <2>2. -v \in Begins(s, moves)
    BY <1>0, <1>2, <2>1 DEF Begins, Negative, Owned
  <2>3. VipOf(moves, -v) = v
    BY <1>2 DEF VipOf
  <2>4. Following(moves, -v) = MovesOf(moves, v)
    BY <1>2, <1>3, <2>3 DEF Following
  <2>5. EndOf(moves, -v) = e
    <3>1. CASE e > 0
      <4>1. e \in Following(moves, -v) /\ \A k \in Following(moves, -v) : e <= k
        BY <1>2, <1>3, <1>4, <1>6, <2>4, <3>1
      <4>2. /\ EndOf(moves, -v) \in Following(moves, -v)
            /\ \A k \in Following(moves, -v) : EndOf(moves, -v) <= k
        BY <2>2, <4>1, EndIsEnd
      <4>3. EndOf(moves, -v) \in Int
        BY <1>3, <2>4, <4>2
      <4> QED
        BY <1>2, <4>1, <4>2, <4>3
    <3>2. CASE ~(e > 0)
      BY <1>1, <1>5, <1>6, <2>3, <2>4, <3>2 DEF EndOf
    <3> QED
      BY <3>1, <3>2
  <2> QED
    BY <2>2, <2>5
<1>7. CASE P # {}
  <2> DEFINE a == Max(P)
  <2>1. a \in P /\ \A k \in P : a >= k
    <3>1. P \in SUBSET (1..Len(moves))
      BY <1>3
    <3> HIDE DEF P
    <3> QED
      BY <1>3, <1>7, <3>1, HasMax
  <2> HIDE DEF a
  <2>2. a \in 1..Len(moves) /\ a > 0 /\ moves[a].vip = v /\ a \in MovesOf(moves, v)
    BY <2>1 DEF MovesOf
  <2>3. moves[a].to = self
    <3>1. CASE e > 0
      <4>1. a \in Earlier(moves, e) /\ \A k \in Earlier(moves, e) : k <= a
        BY <1>3, <1>4, <2>1, <3>1
      <4> QED
        BY <1>1, <3>1, <4>1, FoundOwner
    <3>2. CASE ~(e > 0)
      <4>1. \A k \in MovesOf(moves, v) : k <= a
        BY <1>3, <1>5, <2>1, <3>2
      <4> QED
        BY <1>1, <2>2, <3>2, <4>1, FinalOwner DEF t
    <3> QED
      BY <3>1, <3>2
  <2>4. a \in Begins(s, moves) /\ VipOf(moves, a) = v
    BY <1>0, <2>2, <2>3 DEF Begins, VipOf
  <2>5. Following(moves, a) = {k \in MovesOf(moves, v) : k > a}
    BY <2>4 DEF Following
  <2>6. EndOf(moves, a) = e
    <3>1. CASE e > 0
      <4>1. e > a
        BY <1>2, <2>1, <3>1
      <4>2. e \in Following(moves, a) /\ \A k \in Following(moves, a) : e <= k
        BY <1>2, <1>3, <1>4, <2>1, <2>2, <2>5, <3>1, <4>1
      <4>3. /\ EndOf(moves, a) \in Following(moves, a)
            /\ \A k \in Following(moves, a) : EndOf(moves, a) <= k
        BY <2>4, <4>2, EndIsEnd
      <4>4. EndOf(moves, a) \in Int
        BY <1>3, <2>5, <4>3
      <4> QED
        BY <1>2, <4>2, <4>3, <4>4
    <3>2. CASE ~(e > 0)
      <4>1. Following(moves, a) = {}
        BY <1>3, <1>5, <2>1, <2>2, <2>5, <3>2
      <4> QED
        BY <1>1, <2>4, <3>2, <4>1 DEF EndOf
    <3> QED
      BY <3>1, <3>2
  <2> QED
    BY <2>4, <2>6
<1> QED
  BY <1>6, <1>7

\* As many turns end as begin: the interfaces of the daemon before the moves and those
\* given to it are as many as those after the moves and those taken from it.
LEMMA TurnsBalance ==
  ASSUME NEW self, NEW s, Shape(self, s), NEW moves \in Seq(Move)
  PROVE  LET given == {i \in 1..Len(moves) : moves[i].to = self}
             taken == {i \in 1..Len(moves) : OwnerFound(s, moves, i) = self}
         IN  /\ Cardinality(given) \in Nat /\ Cardinality(taken) \in Nat
             /\ Cardinality(given) + Cardinality(Owned(s)) =
                  Cardinality(taken) + Cardinality(Owned(ApplyMoves(s, moves)))
<1> DEFINE given == {i \in 1..Len(moves) : moves[i].to = self}
           taken == {i \in 1..Len(moves) : OwnerFound(s, moves, i) = self}
           before == Owned(s)
           after  == Owned(ApplyMoves(s, moves))
           f == [a \in Begins(s, moves) |-> EndOf(moves, a)]
<1>1. IsFiniteSet(1..Len(moves)) /\ given \subseteq 1..Len(moves) /\ taken \subseteq 1..Len(moves)
  BY FS_Interval
<1>2. before \in SUBSET Vip /\ after \in SUBSET Vip
  BY DEF Owned
<1> HIDE DEF given, taken, before, after
<1>3. /\ IsFiniteSet(given) /\ Cardinality(given) \in Nat
      /\ IsFiniteSet(taken) /\ Cardinality(taken) \in Nat
  BY <1>1, FS_Subset, FS_CardinalityType
<1>4. ASSUME NEW I, I \subseteq 1..Len(moves), IsFiniteSet(I), Cardinality(I) \in Nat,
             NEW V \in SUBSET Vip
      PROVE  /\ IsFiniteSet(I \cup Negative(V))
             /\ Cardinality(I \cup Negative(V)) = Cardinality(I) + Cardinality(V)
  <2>1. /\ IsFiniteSet(Negative(V)) /\ Cardinality(Negative(V)) = Cardinality(V)
        /\ Cardinality(V) \in Nat
    BY NegativeSize, VipFinite
  <2>2. I \cap Negative(V) = {}
    BY <1>4 DEF Negative, Vip
  <2>3. Cardinality(I \cap Negative(V)) = 0
    BY <2>2, FS_EmptySet
  <2>4. /\ IsFiniteSet(I \cup Negative(V))
        /\ Cardinality(I \cup Negative(V)) =
             Cardinality(I) + Cardinality(Negative(V)) - Cardinality(I \cap Negative(V))
    BY <1>4, <2>1, FS_Union
  <2> QED
    BY <1>4, <2>1, <2>3, <2>4
<1>5. Begins(s, moves) = given \cup Negative(before) /\ Ends(s, moves) = taken \cup Negative(after)
  <2>1. s.me = self
    BY DEF Shape
  <2> QED
    BY <2>1 DEF Begins, Ends, given, taken, before, after
<1>6. Cardinality(Ends(s, moves)) = Cardinality(Begins(s, moves))
  <2>1. IsFiniteSet(Begins(s, moves))
    BY <1>1, <1>2, <1>3, <1>4, <1>5
  <2>2. f \in [Begins(s, moves) -> Ends(s, moves)]
    BY EndIsEnd
  <2>3. \A a, b \in Begins(s, moves) : f[a] = f[b] => a = b
    BY EndOneToOne
  <2>4. \A e \in Ends(s, moves) : \E a \in Begins(s, moves) : f[a] = e
    BY EndOnto
  <2> HIDE DEF f
  <2> QED
    BY <2>1, <2>2, <2>3, <2>4, SameSize
<1>7. /\ Cardinality(Begins(s, moves)) = Cardinality(given) + Cardinality(before)
      /\ Cardinality(Ends(s, moves)) = Cardinality(taken) + Cardinality(after)
  BY <1>1, <1>2, <1>3, <1>4, <1>5
<1> QED
  BY <1>3, <1>6, <1>7 DEF given, taken, before, after

\* No move of a message gives an interface to the member that has it.
Moving(s, moves) == \A i \in 1..Len(moves) : OwnerFound(s, moves, i) # moves[i].to

\* The loop of Handle_balance looks at one move after the other and brings interfaces up
\* and down as it goes; in the end those are up that the table gives to the daemon.
LEMMA ApplyMovesSettles ==
  ASSUME NEW self, NEW s, Shape(self, s), Counted(s), Served(s),
         NEW moves \in Seq(Move), Moving(s, moves)
  PROVE  LET t == ApplyMoves(s, moves)
         IN  /\ Counted(t) /\ Served(t) /\ t.state = s.state /\ t.ip = s.ip /\ t.idx = s.idx
             /\ t.oldOwner = s.oldOwner /\ t.oldPrio = s.oldPrio
<1> DEFINE touched == {v \in Vip : MovesOf(moves, v) # {}}
           owner   == [v \in Vip |-> IF v \in touched THEN moves[Max(MovesOf(moves, v))].to
                                                      ELSE s.owner[v]]
           concern(v) == {i \in MovesOf(moves, v) :
                            s.me \in {moves[i].to, OwnerFound(s, moves, i)}}
           leftUp(v) == IF concern(v) = {} THEN v \in s.up
                        ELSE OwnerFound(s, moves, Max(concern(v))) # s.me
           taken   == {i \in 1..Len(moves) : OwnerFound(s, moves, i) = s.me}
           given   == {i \in 1..Len(moves) : moves[i].to = s.me}
           up      == {v \in Vip : leftUp(v)}
           mine    == s.mine + Cardinality(given) - Cardinality(taken)
           num     == [k \in DOMAIN s.num |-> s.num[k] + Load(owner, touched, s.ip[k])
                                                       - Load(s.owner, touched, s.ip[k])]
           t       == [s EXCEPT !.owner = owner, !.up = up, !.mine = mine, !.num = num]
<1> DEFINE done == ApplyMoves(s, moves)
<1>0. done = PostRelease(t, taken)
  BY DEF ApplyMoves
<1>2. /\ t.owner = owner /\ t.up = up /\ t.mine = mine /\ t.prio = s.prio /\ t.me = s.me
      /\ t.state = s.state /\ t.ip = s.ip /\ t.idx = s.idx
      /\ t.oldOwner = s.oldOwner /\ t.oldPrio = s.oldPrio
  <2> HIDE DEF owner, up, mine, num
  <2> QED
    BY DEF Shape, DaemonType
<1>3. s.me = self
  BY DEF Shape
<1>9. t = [t EXCEPT !.up = t.up] /\ DOMAIN t = DOMAIN s
  <2> DEFINE any == [k \in DOMAIN s |-> t[k]]
  <2>1. t = any
    BY DEF Shape, DaemonType
  <2> HIDE DEF t
  <2>2. any = [any EXCEPT !.up = any.up]
    OBVIOUS
  <2> QED
    BY <2>1, <2>2
<1> HIDE DEF t
<1>1. done.owner = t.owner /\ done.me = t.me /\ Owned(done) = Owned(t)
  <2>1. done = t \/ done = [t EXCEPT !.up = t.up \cup Owned(t)]
    BY <1>0 DEF PostRelease, Owned
  <2> HIDE DEF done
  <2>2. done.owner = t.owner /\ done.me = t.me
    BY <1>9, <2>1 DEF Shape, DaemonType
  <2> QED
    BY <2>2 DEF Owned
<1> HIDE DEF done
<1>4. ASSUME NEW v \in Vip PROVE leftUp(v) <=> t.owner[v] = self
  <2>1. v \in s.up <=> s.owner[v] = self
    BY <1>3 DEF Served, Owned
  <2>2. Len(moves) \in Nat /\ MovesOf(moves, v) \in SUBSET (1..Len(moves))
    BY DEF MovesOf
  <2>3. \A i \in MovesOf(moves, v) : i \in concern(v) <=>
           moves[i].to = self \/ OwnerFound(s, moves, i) = self
    BY <1>3
  <2>4. \A i \in MovesOf(moves, v) :
           /\ i \in 1..Len(moves) /\ i \in Int /\ moves[i].vip = v
           /\ Earlier(moves, i) = {k \in MovesOf(moves, v) : k < i}
    BY DEF MovesOf, Earlier
  <2>5. CASE MovesOf(moves, v) = {}
    <3>1. concern(v) = {}
      BY <2>5
    <3>2. t.owner[v] = s.owner[v]
      BY <1>1, <2>5, FinalOwner DEF done
    <3> QED
      BY <2>1, <3>1, <3>2
  <2>6. CASE MovesOf(moves, v) # {}
    <3> DEFINE last  == Max(MovesOf(moves, v))
               first == Min(MovesOf(moves, v))
    <3>1. last \in MovesOf(moves, v) /\ \A k \in MovesOf(moves, v) : k <= last
      BY <2>2, <2>6, HasMax
    <3>2. first \in MovesOf(moves, v) /\ \A k \in MovesOf(moves, v) : first <= k
      <4>1. MovesOf(moves, v) \in SUBSET Nat
        BY <2>2
      <4> QED
        BY <2>6, <4>1, HasMin
    <3>3. t.owner[v] = moves[last].to
      BY <1>1, <3>1, FinalOwner DEF done
    <3> HIDE DEF last, first
    <3>4. CASE concern(v) = {}
      <4>1. Earlier(moves, first) = {}
        BY <2>2, <2>4, <3>2
      <4>2. OwnerFound(s, moves, first) = s.owner[v]
        <5>1. first \in 1..Len(moves) /\ moves[first].vip = v
          BY <2>4, <3>2
        <5>2. OwnerFound(s, moves, first) = s.owner[moves[first].vip]
          BY ZenonT(60), <4>1, <5>1, FoundOwner
        <5> QED
          BY <5>1, <5>2
      <4>3. s.owner[v] # self /\ moves[last].to # self
        BY <2>3, <3>1, <3>2, <3>4, <4>2
      <4> QED
        BY <2>1, <3>3, <3>4, <4>3
    <3>5. CASE concern(v) # {}
      <4> DEFINE c == Max(concern(v))
      <4>1. c \in concern(v) /\ \A k \in concern(v) : k <= c
        <5>1. concern(v) \in SUBSET (1..Len(moves))
          BY <2>2
        <5> HIDE DEF concern
        <5> QED
          BY <2>2, <3>5, <5>1, HasMax
      <4>2. leftUp(v) <=> OwnerFound(s, moves, c) # self
        BY <1>3, <3>5
      <4>3. c \in MovesOf(moves, v)
        BY <4>1
      <4> HIDE DEF c, concern
      <4>4. OwnerFound(s, moves, c) # moves[c].to
        BY <2>4, <4>3 DEF Moving
      <4>5. CASE moves[c].to = self
        <5>1. c = last
          <6> SUFFICES ASSUME c # last PROVE FALSE
            OBVIOUS
          <6> DEFINE F == {k \in MovesOf(moves, v) : k > c}
                     j == Min(F)
          <6>1. last \in F
            BY <2>4, <3>1, <4>3
          <6>2. j \in F /\ \A k \in F : j <= k
            <7>1. F \in SUBSET Nat
              BY <2>2
            <7> HIDE DEF F
            <7> QED
              BY <6>1, <7>1, HasMin
          <6> HIDE DEF j
          <6>3. j \in MovesOf(moves, v) /\ j > c
            BY <6>2
          <6>4. c \in Earlier(moves, j) /\ \A k \in Earlier(moves, j) : k <= c
            BY <2>4, <4>3, <6>2, <6>3
          <6>5. OwnerFound(s, moves, j) = self
            BY <2>4, <4>5, <6>3, <6>4, FoundOwner
          <6>6. j <= c
            BY <2>3, <4>1, <6>3, <6>5
          <6> QED
            BY <2>4, <4>3, <6>3, <6>6
        <5> QED
          BY <3>3, <4>2, <4>4, <4>5, <5>1
      <4>6. CASE moves[c].to # self
        <5>1. OwnerFound(s, moves, c) = self
          BY <2>3, <4>1, <4>3, <4>6
        <5>2. moves[last].to # self
          <6> SUFFICES ASSUME moves[last].to = self PROVE FALSE
            OBVIOUS
          <6>1. last <= c
            BY <2>3, <3>1, <4>1
          <6>2. last = c
            BY <2>4, <3>1, <4>3, <6>1
          <6> QED
            BY <4>6, <6>2
        <5> QED
          BY <3>3, <4>2, <5>1, <5>2
      <4> QED
        BY <4>5, <4>6
    <3> QED
      BY <3>4, <3>5
  <2> QED
    BY <2>5, <2>6
<1>5. t.up = Owned(t)
  <2> HIDE DEF leftUp
  <2> QED
    BY <1>2, <1>3, <1>4 DEF Owned
<1>6. /\ Cardinality(given) \in Nat /\ Cardinality(taken) \in Nat
      /\ Cardinality(given) + Cardinality(Owned(s)) = Cardinality(taken) + Cardinality(Owned(t))
  <2>1. Cardinality(Owned(done)) = Cardinality(Owned(t))
    BY <1>1
  <2>2. /\ Cardinality(given) \in Nat /\ Cardinality(taken) \in Nat
        /\ Cardinality(given) + Cardinality(Owned(s)) = Cardinality(taken) + Cardinality(Owned(done))
    BY <1>3, TurnsBalance DEF done
  <2> HIDE DEF given, taken, done
  <2> QED
    BY <2>1, <2>2
<1>7. Cardinality(Owned(s)) \in Nat /\ Cardinality(Owned(t)) \in Nat
  <2>1. Owned(s) \in SUBSET Vip /\ Owned(t) \in SUBSET Vip
    BY DEF Owned
  <2> QED
    BY <2>1, VipFinite
<1>8. Counted(t)
  <2>1. s.mine = Cardinality(Owned(s))
    BY DEF Counted, Served
  <2>2. t.mine = s.mine + Cardinality(given) - Cardinality(taken)
    BY <1>2
  <2> HIDE DEF given, taken, owner, up, mine, leftUp
  <2>3. t.mine = Cardinality(Owned(t))
    BY <1>6, <1>7, <2>1, <2>2
  <2> QED
    BY <1>5, <2>3 DEF Counted
<1>10. done = t
  <2>1. t.up \cup {v \in Vip : t.owner[v] = t.me} = t.up
    BY <1>5 DEF Owned
  <2> HIDE DEF taken, owner, up, mine, num, leftUp
  <2> QED
    BY <1>0, <1>9, <2>1 DEF PostRelease
<1> QED
  BY <1>2, <1>5, <1>8, <1>10 DEF Served, done

\* The beginning of a list that is followed by another is that list.
LEMMA OwnPart ==
  ASSUME NEW T, NEW p \in Seq(T), NEW q \in Seq(T)
  PROVE  SubSeq(p \o q, 1, Len(p)) = p
<1> DEFINE c == SubSeq(p \o q, 1, Len(p))
<1>1. Len(p) \in Nat /\ Len(q) \in Nat /\ p \o q \in Seq(T) /\ Len(p \o q) = Len(p) + Len(q)
  OBVIOUS
<1>2. Len(c) = Len(p) /\ c \in Seq(T)
  BY <1>1
<1>3. \A i \in 1..Len(p) : c[i] = (p \o q)[i]
  BY <1>1
<1>4. \A i \in 1..Len(p) : (p \o q)[i] = p[i]
  OBVIOUS
<1> HIDE DEF c
<1>5. \A i \in 1..Len(p) : c[i] = p[i]
  BY <1>3, <1>4
<1> QED
  BY <1>2, <1>5 DEF c

\* The rest of a list is a list.
LEMMA RestType ==
  ASSUME NEW T, NEW q \in Seq(T), NEW n \in Nat, n < Len(q)
  PROVE  SubSeq(q, n + 1, Len(q)) \in Seq(T)
<1>1. Len(q) \in Nat /\ q \in [1..Len(q) -> T]
  OBVIOUS
<1>2. \A i \in (n + 1)..Len(q) : q[i] \in T
  BY <1>1
<1> QED
  BY <1>1, <1>2

\* A balance message: what lies behind its own moves in the buffer is not read.
LEMMA HandleBalanceTables ==
  ASSUME NEW self, NEW s, Shape(self, s), NEW m \in BalanceMessage, m.count = Len(m.moves),
         s.state = "RUN" => Counted(s) /\ Served(s) /\ Moving(s, m.moves),
         NEW t \in Receive(s, m)
  PROVE  (Untouched(s, t) /\ t.state = s.state) \/ Shifted(s, t)
<1> DEFINE r == Received(s, m)
           b == InBuffer(s, m)
           moves == IF b.count < Len(b.moves) THEN SubSeq(b.moves, 1, b.count) ELSE b.moves
<1>1. m.kind = "balance" /\ m \in GroupMessage /\ m.moves \in Seq(Move)
  BY DEF BalanceMessage, GroupMessage, Message
<1>2. Shape(self, r) /\ Untouched(s, r) /\ r.state = s.state
  BY <1>1, ReceivedSame DEF Untouched, Same
<1>3. b \in BalanceMessage /\ b.kind = "balance"
  BY InBufferType DEF BalanceMessage
<1>4. t = HandleBalance(r, b)
  <2> HIDE DEF b, r
  <2>1. t \in Dispatch(r, b)
    BY DEF Receive, Received, b, r
  <2> QED
    BY <1>3, <2>1 DEF Dispatch
<1>5. moves = m.moves
  <2>1. CASE b = m
    BY <1>1, <2>1
  <2>2. CASE b # m
    <3> DEFINE tail == SubSeq(s.mess.moves, Len(m.moves) + 1, Len(s.mess.moves))
    <3>1. /\ b = [m EXCEPT !.moves = m.moves \o tail] /\ s.mess.kind = "balance"
          /\ Len(s.mess.moves) > Len(m.moves)
      BY <2>2 DEF InBuffer, BalanceMessage
    <3>2. s.mess.moves \in Seq(Move)
      BY <3>1 DEF Shape, DaemonType, Buffer, BalanceMessage, StateMessage, Junk
    <3>3. tail \in Seq(Move)
      <4>1. Len(m.moves) \in Nat /\ Len(m.moves) < Len(s.mess.moves)
        BY <1>1, <3>1, <3>2
      <4> QED
        BY <3>2, <4>1, RestType
    <3>4. b.count = Len(m.moves) /\ b.moves = m.moves \o tail
      BY <3>1 DEF BalanceMessage
    <3> HIDE DEF tail, b
    <3>5. SubSeq(m.moves \o tail, 1, Len(m.moves)) = m.moves
      BY <1>1, <3>3, OwnPart
    <3>6. CASE b.count < Len(b.moves)
      BY <3>4, <3>5, <3>6
    <3>7. CASE ~(b.count < Len(b.moves))
      <4>1. /\ Len(m.moves \o tail) = Len(m.moves) + Len(tail)
            /\ Len(m.moves) \in Nat /\ Len(tail) \in Nat
        BY <1>1, <3>3
      <4>2. Len(tail) = 0
        BY <3>4, <3>7, <4>1
      <4>3. m.moves \o tail = m.moves
        BY <1>1, <3>3, <4>2
      <4> QED
        BY <3>4, <3>7, <4>3
    <3> QED
      BY <3>6, <3>7
  <2> QED
    BY <2>1, <2>2
<1> HIDE DEF r, b, moves
<1>6. CASE s.state # "RUN"
  BY <1>2, <1>4, <1>6 DEF HandleBalance, Untouched, SameTables
<1>7. CASE s.state = "RUN"
  <2>1. t = ApplyMoves(r, m.moves)
    BY <1>2, <1>4, <1>5, <1>7 DEF HandleBalance, moves
  <2>2. Counted(r) /\ Served(r)
    BY <1>2, <1>7, UntouchedPhases
  <2>3. Moving(r, m.moves)
    <3>1. \A i \in 1..Len(m.moves) : OwnerFound(r, m.moves, i) = OwnerFound(s, m.moves, i)
      BY <1>2 DEF OwnerFound, Untouched, SameTables
    <3> QED
      BY <1>7, <3>1 DEF Moving
  <2>4. Shifted(r, t)
    BY <1>1, <1>2, <1>7, <2>1, <2>2, <2>3, ApplyMovesSettles DEF Shifted
  <2> QED
    BY <1>2, <2>4 DEF Shifted, Untouched, SameTables
<1> QED
  BY <1>6, <1>7

\* A message that is neither a view nor a state message of this view.
LEMMA ReceiveTables ==
  ASSUME NEW self, NEW s, Shape(self, s), s.state # "GATHER" /\ ~s.mat => Ready(s),
         NEW m \in Message, m \in StateMessage => m.gid # s.gid,
         m \in BalanceMessage =>
           /\ m.count = Len(m.moves)
           /\ s.state = "RUN" => Counted(s) /\ Served(s) /\ Moving(s, m.moves),
         NEW t \in Receive(s, m)
  PROVE  (Untouched(s, t) /\ t.state = s.state) \/ Shifted(s, t)
<1> DEFINE r == Received(s, m)
           b == InBuffer(s, m)
<1>1. Shape(self, r) /\ Same(s, r) /\ Untouched(s, r)
  BY ReceivedSame DEF GroupMessage, Untouched, Same
<1>2. t \in Dispatch(r, b)
  BY DEF Receive, Received
<1> HIDE DEF r
<1>3. CASE m \in StateMessage
  <2>1. m.kind = "state"
    BY <1>3 DEF StateMessage
  <2>2. t \in HandleState(r, m)
    BY <1>2, <2>1 DEF Dispatch, InBuffer
  <2>3. t = r
    BY <1>1, <1>3, <2>2 DEF HandleState, Same
  <2> QED
    BY <1>1, <2>3 DEF Same
<1>4. CASE m \in BalanceMessage
  BY <1>4, HandleBalanceTables
<1>5. CASE m = MaturingMessage
  <2>1. t \in HandleMature(r)
    BY <1>2, <1>5 DEF Dispatch, InBuffer, MaturingMessage
  <2>2. r.state # "GATHER" /\ ~r.mat => Ready(r)
    BY <1>1, UntouchedPhases DEF Same, Ready
  <2>3. (Untouched(r, t) /\ t.state = r.state) \/ Shifted(r, t)
    BY <1>1, <2>1, <2>2, HandleMatureTables
  <2> QED
    BY <1>1, <2>3 DEF Untouched, SameTables, Shifted, Same
<1>6. CASE m = ArpMessage
  <2>1. t = r
    BY <1>2, <1>6 DEF Dispatch, InBuffer, ArpMessage
  <2> QED
    BY <1>1, <2>1 DEF Same
<1> QED
  BY <1>3, <1>4, <1>5, <1>6 DEF Message

-----------------------------------------------------------------------------
(* Where nothing is preferred.  An interface that a peer has claimed first is lost, and *)
(* goes down when the state message of the daemon comes back: before that (Expecting)   *)
(* what is held is up, and what is up and still free is held; afterwards (Holding) what *)
(* is up is what both tables give to the daemon.                                        *)

Expecting(s) ==
  /\ Held(s) \subseteq s.up /\ Owned(s) = {}
  /\ \A v \in s.up : s.owner[v] = NoAddr => v \in Held(s)
Holding(s) == s.up = Held(s) /\ s.up = Owned(s)

\* A plain state message takes nothing from anybody.
LEMMA PlainClaims ==
  ASSUME NEW self, NEW s, Shape(self, s), Firm(s), NEW m \in StateMessage, PlainState(m)
  PROVE  LET lost == DOMAIN m.claims \ Fresh(s, m)
         IN  /\ Lost(s, m) = lost /\ Won(s, m) = {} /\ Wanted(s, m) = {}
             /\ Released(s, m) = (IF m.from = self THEN lost ELSE {})
             /\ \A v \in Vip : ClaimOwner(s, m, v) = IF v \in Fresh(s, m) THEN m.from ELSE s.owner[v]
             /\ s.me = self /\ self # NoAddr /\ m.from # NoAddr /\ DOMAIN m.claims \subseteq Vip
<1>1. s.me = self /\ self # NoAddr /\ m.from # NoAddr /\ DOMAIN m.claims \subseteq Vip
  BY ClaimTypes
<1>2. Lost(s, m) = DOMAIN m.claims \ Fresh(s, m)
  BY <1>1 DEF Lost, Fresh, Firm, PlainState
<1>3. Won(s, m) = {}
  BY <1>2 DEF Won
<1>4. Wanted(s, m) = {}
  BY DEF Wanted, PlainState
<1> QED
  BY <1>1, <1>2, <1>3, <1>4 DEF Released, ClaimOwner

\* It is merged into what is free.
LEMMA PlainMerges ==
  ASSUME NEW self, NEW s, Shape(self, s), Firm(s), NEW m \in StateMessage, PlainState(m),
         NEW r, Merges(s, m, r)
  PROVE  /\ \A v \in Vip : r.owner[v] = IF v \in Fresh(s, m) THEN m.from ELSE s.owner[v]
         /\ \A v \in Vip : r.oldOwner[v] = IF v \in DOMAIN m.claims \ Fresh(s, m)
                                           THEN s.owner[v] ELSE s.oldOwner[v]
<1> DEFINE lost == DOMAIN m.claims \ Fresh(s, m)
<1>1. /\ Lost(s, m) = lost /\ Won(s, m) = {} /\ Wanted(s, m) = {}
      /\ \A v \in Vip : ClaimOwner(s, m, v) = IF v \in Fresh(s, m) THEN m.from ELSE s.owner[v]
  BY PlainClaims
<1>2. \A v \in Vip : r.owner[v] = ClaimOwner(s, m, v)
  BY <1>1 DEF Merges
<1>3. \A v \in Vip : r.oldOwner[v] = IF v \in lost THEN ClaimOwner(s, m, v) ELSE s.oldOwner[v]
  BY <1>1 DEF Merges
<1> QED
  BY <1>1, <1>2, <1>3

\* The state message of a peer takes from what is held, but from nothing that is up.
LEMMA PeerExpecting ==
  ASSUME NEW self, NEW s, Shape(self, s), Firm(s), Expecting(s),
         NEW m \in StateMessage, PlainState(m), m.from # self
  PROVE  /\ NoReup(s, m)
         /\ \A r : Merges(s, m, r) /\ Shape(self, r) => Expecting(r) /\ r.up = s.up /\ r.mine = s.mine
<1>1. Released(s, m) = {} /\ s.me = self /\ self # NoAddr /\ m.from # NoAddr
  BY PlainClaims
<1>2. ASSUME NEW r, Merges(s, m, r), Shape(self, r)
      PROVE  Expecting(r) /\ r.up = s.up /\ r.mine = s.mine
  <2>1. /\ \A v \in Vip : r.owner[v] = IF v \in Fresh(s, m) THEN m.from ELSE s.owner[v]
        /\ \A v \in Vip : r.oldOwner[v] = IF v \in DOMAIN m.claims \ Fresh(s, m)
                                          THEN s.owner[v] ELSE s.oldOwner[v]
    BY <1>2, PlainMerges
  <2>2. r.up = s.up /\ r.mine = s.mine /\ r.me = self /\ s.up \subseteq Vip
    BY <1>1, <1>2, FS_EmptySet DEF Merges, Shape, DaemonType
  <2>3. Owned(r) = {}
    BY <1>1, <2>1, <2>2 DEF Expecting, Owned
  <2>4. Held(r) \subseteq r.up
    BY <1>1, <2>1, <2>2 DEF Expecting, Owned, Held
  <2>5. \A v \in r.up : r.owner[v] = NoAddr => v \in Held(r)
    BY <1>1, <2>1, <2>2 DEF Expecting, Held, Fresh
  <2> QED
    BY <2>2, <2>3, <2>4, <2>5 DEF Expecting
<1> QED
  BY <1>1, <1>2 DEF NoReup

\* The state message of the daemon claims what is up: what is free stays up.
LEMMA OwnExpecting ==
  ASSUME NEW self, NEW s, Shape(self, s), Firm(s), Expecting(s), Counted(s),
         NEW m \in StateMessage, PlainState(m), m.from = self, DOMAIN m.claims = s.up
  PROVE  /\ NoReup(s, m)
         /\ \A r : Merges(s, m, r) /\ Shape(self, r) => Holding(r) /\ Counted(r)
<1> DEFINE lost == s.up \ Fresh(s, m)
<1>1. /\ Released(s, m) = lost /\ s.me = self /\ self # NoAddr
      /\ \A v \in Vip : ClaimOwner(s, m, v) = IF v \in Fresh(s, m) THEN m.from ELSE s.owner[v]
  BY PlainClaims
<1>2. s.up \subseteq Vip /\ Fresh(s, m) = {v \in s.up : s.owner[v] = NoAddr}
  BY DEF Fresh, Shape, DaemonType
<1>3. NoReup(s, m)
  <2>1. {v \in Vip : ClaimOwner(s, m, v) = s.me} \subseteq s.up \ lost
    BY <1>1, <1>2 DEF Expecting, Owned
  <2> QED
    BY <1>1, <2>1 DEF NoReup
<1>4. ASSUME NEW r, Merges(s, m, r), Shape(self, r)
      PROVE  Holding(r) /\ Counted(r)
  <2>1. /\ \A v \in Vip : r.owner[v] = IF v \in Fresh(s, m) THEN self ELSE s.owner[v]
        /\ \A v \in Vip : r.oldOwner[v] = IF v \in lost THEN s.owner[v] ELSE s.oldOwner[v]
    BY <1>4, PlainMerges
  <2>2. r.up = s.up \ lost /\ r.mine = s.mine - Cardinality(lost) /\ r.me = self
    BY <1>1, <1>4 DEF Merges, Shape
  <2>3. Counted(r)
    <3>1. lost \in SUBSET s.up
      OBVIOUS
    <3> HIDE DEF lost
    <3> QED
      BY <2>2, <3>1, ReleaseCounted
  <2>4. r.up = Fresh(s, m)
    BY <1>2, <2>2
  <2>5. Owned(r) = Fresh(s, m)
    BY <1>1, <1>2, <2>1, <2>2 DEF Expecting, Owned
  <2>6. Held(r) = Fresh(s, m)
    BY <1>1, <1>2, <2>1, <2>2 DEF Expecting, Owned, Held
  <2> QED
    BY <2>3, <2>4, <2>5, <2>6 DEF Holding
<1> QED
  BY <1>3, <1>4

\* What comes after it takes nothing from the daemon.
LEMMA PeerKeeping ==
  ASSUME NEW self, NEW s, Shape(self, s), Firm(s), Holding(s),
         NEW m \in StateMessage, PlainState(m), m.from # self
  PROVE  /\ NoReup(s, m)
         /\ \A r : Merges(s, m, r) /\ Shape(self, r) => Holding(r) /\ r.up = s.up /\ r.mine = s.mine
<1>1. Released(s, m) = {} /\ s.me = self /\ self # NoAddr
  BY PlainClaims
<1>2. ASSUME NEW r, Merges(s, m, r), Shape(self, r)
      PROVE  Holding(r) /\ r.up = s.up /\ r.mine = s.mine
  <2>1. /\ \A v \in Vip : r.owner[v] = IF v \in Fresh(s, m) THEN m.from ELSE s.owner[v]
        /\ \A v \in Vip : r.oldOwner[v] = IF v \in DOMAIN m.claims \ Fresh(s, m)
                                          THEN s.owner[v] ELSE s.oldOwner[v]
    BY <1>2, PlainMerges
  <2>2. r.up = s.up /\ r.mine = s.mine /\ r.me = self
    BY <1>1, <1>2, FS_EmptySet DEF Merges, Shape, DaemonType
  <2>3. Owned(r) = Owned(s)
    BY <1>1, <2>1, <2>2 DEF Fresh, Owned
  <2>4. Held(r) = Held(s)
    BY <1>1, <2>1, <2>2 DEF Holding, Owned, Held
  <2> QED
    BY <2>2, <2>3, <2>4 DEF Holding
<1> QED
  BY <1>1, <1>2 DEF NoReup

\* Then the tables are ready for the decision.
LEMMA KeepingReady ==
  ASSUME NEW s, Counted(s), Holding(s), Free(s), AtIndex(s), Unpreferred(s)
  PROVE  Ready(s)
<1>1. \A v \in Vip : s.owner[v] = s.me <=> v \in Held(s)
  BY DEF Holding, Owned
<1> QED
  BY <1>1 DEF Ready, Gathered, Holding

\* Everything that is claimed is owned by a member that has been heard of.
Backed(x) ==
  \A v \in Vip : IF x.prio[v] = UNCLAIMED THEN x.owner[v] = NoAddr
                 ELSE x.owner[v] # NoAddr /\ \E k \in DOMAIN x.ip : x.ip[k] = x.owner[v]

\* The sender of a state message has been heard of then.
LEMMA BackedMerged ==
  ASSUME NEW x \in TableType, Backed(x), NEW m \in StateMessage,
         m.idx \in DOMAIN x.ip, x.ip[m.idx] = NoAddr
  PROVE  Backed(Merged(x, m))
<1> DEFINE fresh == {v \in DOMAIN m.claims : x.owner[v] = NoAddr}
           y     == Merged(x, m)
<1>1. /\ y.owner = [v \in Vip |-> IF v \in fresh THEN m.from ELSE x.owner[v]]
      /\ y.prio = [v \in Vip |-> IF v \in fresh THEN CLAIMED ELSE x.prio[v]]
      /\ y.ip = [x.ip EXCEPT ![m.idx] = m.from]
  BY DEF Merged
<1>2. m.from # NoAddr /\ CLAIMED # UNCLAIMED
  BY AddressAssumption DEF StateMessage, CLAIMED, UNCLAIMED
<1> HIDE DEF fresh, y
<1>3. DOMAIN y.ip = DOMAIN x.ip /\ y.ip[m.idx] = m.from
      /\ \A k \in DOMAIN x.ip : x.ip[k] # NoAddr => y.ip[k] = x.ip[k]
  BY <1>1
<1>4. ASSUME NEW v \in Vip
      PROVE  IF y.prio[v] = UNCLAIMED THEN y.owner[v] = NoAddr
             ELSE y.owner[v] # NoAddr /\ \E k \in DOMAIN y.ip : y.ip[k] = y.owner[v]
  <2>1. CASE v \in fresh
    BY <1>1, <1>2, <1>3, <2>1
  <2>2. CASE v \notin fresh
    <3>1. y.owner[v] = x.owner[v] /\ y.prio[v] = x.prio[v]
      BY <1>1, <2>2
    <3> QED
      BY <1>3, <3>1 DEF Backed
  <2> QED
    BY <2>1, <2>2
<1> QED
  BY <1>4 DEF Backed, y

\* When all members have been heard of, the free interfaces are given to some of them.
LEMMA BackedAllots ==
  ASSUME NEW x \in TableType, Backed(x), Heard(x), DOMAIN x.num = DOMAIN x.ip,
         NEW y, Allots(x, y)
  PROVE  Backed(y)
<1>1. PICK f \in [Unclaimed(x) -> DOMAIN x.num] : y = Given(x, f)
  BY DEF Allots
<1>2. \A v \in Vip :
        /\ y.owner[v] = IF v \in Unclaimed(x) THEN x.ip[f[v]] ELSE x.owner[v]
        /\ y.prio[v] = IF v \in Unclaimed(x) THEN CLAIMED ELSE x.prio[v]
  BY <1>1 DEF Given
<1>3. y.ip = x.ip /\ CLAIMED # UNCLAIMED
  BY <1>1 DEF Given, CLAIMED, UNCLAIMED
<1>4. ASSUME NEW v \in Vip
      PROVE  IF y.prio[v] = UNCLAIMED THEN y.owner[v] = NoAddr
             ELSE y.owner[v] # NoAddr /\ \E k \in DOMAIN y.ip : y.ip[k] = y.owner[v]
  <2>1. CASE v \in Unclaimed(x)
    <3>1. f[v] \in DOMAIN x.ip
      BY <2>1
    <3>2. x.ip[f[v]] # NoAddr
      BY <3>1 DEF Heard
    <3> QED
      BY <1>2, <1>3, <2>1, <3>1, <3>2
  <2>2. CASE v \notin Unclaimed(x)
    BY <1>2, <1>3, <2>2 DEF Backed, Unclaimed
  <2> QED
    BY <2>1, <2>2
<1> QED
  BY <1>4 DEF Backed

\* All moves go to members that have been heard of.
Aimed(x, moves) == \A i \in 1..Len(moves) : \E k \in DOMAIN x.ip : x.ip[k] = moves[i].to

\* And so does every owner after them.
LEMMA BackedMoved ==
  ASSUME NEW x \in TableType, Backed(x), Decided(x), NEW moves \in Seq(Move), Aimed(x, moves)
  PROVE  Backed(Moved(x, moves))
<1> DEFINE y == Moved(x, moves)
           last(v) == Max(MovesOf(moves, v))
<1>1. /\ y.prio = x.prio /\ y.ip = x.ip
      /\ \A v \in Vip : y.owner[v] = IF MovesOf(moves, v) # {} THEN moves[last(v)].to ELSE x.owner[v]
  BY DEF Moved
<1>2. ASSUME NEW v \in Vip, MovesOf(moves, v) # {}
      PROVE  moves[last(v)].to # NoAddr /\ \E k \in DOMAIN x.ip : x.ip[k] = moves[last(v)].to
  <2>1. Len(moves) \in Nat /\ MovesOf(moves, v) \in SUBSET (1..Len(moves))
    BY DEF MovesOf
  <2>2. last(v) \in MovesOf(moves, v)
    BY <1>2, <2>1, HasMax
  <2> HIDE DEF last
  <2>3. last(v) \in 1..Len(moves) /\ moves[last(v)] \in Move
    BY <2>1, <2>2
  <2> QED
    BY <2>3, AddressAssumption DEF Aimed, Move
<1> HIDE DEF last
<1>3. CLAIMED # UNCLAIMED
  BY DEF CLAIMED, UNCLAIMED
<1> HIDE DEF y
<1>4. ASSUME NEW v \in Vip
      PROVE  IF y.prio[v] = UNCLAIMED THEN y.owner[v] = NoAddr
             ELSE y.owner[v] # NoAddr /\ \E k \in DOMAIN y.ip : y.ip[k] = y.owner[v]
  <2>1. CASE MovesOf(moves, v) # {}
    BY <1>1, <1>2, <1>3, <2>1 DEF Decided
  <2>2. CASE MovesOf(moves, v) = {}
    BY <1>1, <2>2 DEF Backed
  <2> QED
    BY <2>1, <2>2
<1> QED
  BY <1>4 DEF Backed, y

\* What is backed is free exactly if it is unclaimed.
LEMMA BackedFree ==
  ASSUME NEW s, Backed(s)
  PROVE  Free(s)
  BY DEF Backed, Free

\* What a plain state message leaves is backed, and nothing is preferred in it.
LEMMA MergesPlain ==
  ASSUME NEW self, NEW s, Shape(self, s), Firm(s), Unpreferred(s), Backed(TableOf(s)),
         NEW m \in StateMessage, PlainState(m),
         NEW r, Merges(s, m, r)
  PROVE  Free(r) /\ Unpreferred(r)
<1>1. /\ Won(s, m) = {} /\ Wanted(s, m) = {} /\ m.from # NoAddr /\ DOMAIN m.claims \subseteq Vip
  BY PlainClaims
<1>2. \A v \in Vip : /\ r.owner[v] = IF v \in Fresh(s, m) THEN m.from ELSE s.owner[v]
                     /\ r.prio[v] = IF v \in Fresh(s, m) THEN m.claims[v] ELSE s.prio[v]
  <2>1. \A v \in Vip : r.owner[v] = IF v \in Fresh(s, m) THEN m.from ELSE s.owner[v]
    BY PlainMerges
  <2>2. \A v \in Vip : r.prio[v] = ClaimPrio(s, m, v)
    BY <1>1 DEF Merges
  <2>3. \A v \in Vip : ClaimPrio(s, m, v) = IF v \in Fresh(s, m) THEN m.claims[v] ELSE s.prio[v]
    BY <1>1 DEF ClaimPrio
  <2> QED
    BY <2>1, <2>2, <2>3
<1>3. \A v \in Fresh(s, m) : m.claims[v] = CLAIMED
  BY DEF PlainState, Fresh
<1>4. Free(s)
  <2>1. Free(TableOf(s))
    BY BackedFree
  <2> QED
    BY <2>1 DEF Free, TableOf
<1>5. CLAIMED # UNCLAIMED
  BY DEF CLAIMED, UNCLAIMED
<1>6. Free(r)
  BY <1>1, <1>2, <1>3, <1>4, <1>5 DEF Free
<1>7. Unpreferred(r)
  BY <1>2, <1>3 DEF Unpreferred
<1> QED
  BY <1>6, <1>7

\* A balance message where none stays in the buffer: in RUN the moves it gives are made.
LEMMA PlainBalanceTables ==
  ASSUME NEW self, NEW s, Shape(self, s), Tidy(s), "balance" \notin StaleKinds,
         NEW m \in BalanceMessage, NEW t \in Receive(s, m),
         s.state = "RUN" => Counted(s) /\ Served(s) /\ Moving(s, MovesRead(m))
  PROVE  (Untouched(s, t) /\ t.state = s.state) \/ Shifted(s, t)
<1> DEFINE r == Received(s, m)
<1>1. m \in GroupMessage /\ m.kind = "balance" /\ m.moves \in Seq(Move) /\ m.count \in Nat
  BY DEF GroupMessage, Message, BalanceMessage
<1>2. Shape(self, r) /\ Untouched(s, r) /\ r.state = s.state
  BY <1>1, ReceivedSame DEF Untouched, Same
<1>3. t \in Dispatch(r, m)
  BY <1>1, ReceivedTidy DEF Receive, Received
<1> HIDE DEF r
<1>4. t = HandleBalance(r, m)
  BY <1>1, <1>3 DEF Dispatch
<1>5. CASE s.state # "RUN"
  BY <1>2, <1>4, <1>5 DEF HandleBalance
<1>6. CASE s.state = "RUN"
  <2>1. t = ApplyMoves(r, MovesRead(m)) /\ MovesRead(m) \in Seq(Move)
    BY <1>1, <1>2, <1>4, <1>6 DEF HandleBalance, MovesRead
  <2>2. Counted(r) /\ Served(r)
    BY <1>2, <1>6, UntouchedPhases
  <2>3. Moving(r, MovesRead(m))
    <3>1. \A i \in 1..Len(MovesRead(m)) :
            OwnerFound(r, MovesRead(m), i) = OwnerFound(s, MovesRead(m), i)
      BY <1>2 DEF OwnerFound, Untouched, SameTables
    <3> QED
      BY <1>6, <3>1 DEF Moving
  <2>4. Shifted(r, t)
    BY <1>2, <1>6, <2>1, <2>2, <2>3, ApplyMovesSettles DEF Shifted
  <2> QED
    BY <1>2, <2>4 DEF Shifted, Untouched, SameTables
<1> QED
  BY <1>5, <1>6

-----------------------------------------------------------------------------
(* Balance.  Its message is computed from the tables of the sender by a function that    *)
(* recurses over the iterations.                                                         *)

FirstRound(s) == [num |-> s.num, owner |-> s.owner, min |-> 1, max |-> 1,
                  count |-> 0, moves |-> <<>>, done |-> FALSE]

\* The iterations up to the n-th.
Rounds(s, n, h) ==
  h = [k \in 0..n |-> IF k = 0 THEN FirstRound(s) ELSE BalanceStep(s, h[k - 1])]

\* There is such a function: a least number of iterations without one would have one.
LEMMA RoundsExist ==
  ASSUME NEW s, NEW n \in Nat
  PROVE  \E h : Rounds(s, n, h)
<1> DEFINE Bad == {k \in Nat : ~ \E h : Rounds(s, k, h)}
<1>1. SUFFICES ASSUME Bad # {} PROVE FALSE
  OBVIOUS
<1> DEFINE k == Min(Bad)
<1>2. k \in Bad /\ \A j \in Bad : k <= j
  <2>1. Bad \in SUBSET Nat
    OBVIOUS
  <2> HIDE DEF Bad
  <2> QED
    BY <1>1, <2>1, HasMin
<1> HIDE DEF k
<1>3. CASE k = 0
  <2>1. Rounds(s, 0, [j \in 0..0 |-> FirstRound(s)])
    BY DEF Rounds
  <2> QED
    BY <1>2, <1>3, <2>1
<1>4. CASE k # 0
  <2>1. k \in Nat /\ k - 1 \in Nat /\ k - 1 \notin Bad
    BY <1>2, <1>4
  <2>2. PICK h : Rounds(s, k - 1, h)
    BY <2>1
  <2> DEFINE g == [j \in 0..k |-> IF j = k THEN BalanceStep(s, h[k - 1]) ELSE h[j]]
  <2>3. \A j \in 0..(k - 1) : h[j] = IF j = 0 THEN FirstRound(s) ELSE BalanceStep(s, h[j - 1])
    BY <2>2 DEF Rounds
  <2>4. \A j \in 0..k : g[j] = IF j = 0 THEN FirstRound(s) ELSE BalanceStep(s, g[j - 1])
    <3> SUFFICES ASSUME NEW j \in 0..k
                 PROVE  g[j] = IF j = 0 THEN FirstRound(s) ELSE BalanceStep(s, g[j - 1])
      OBVIOUS
    <3>1. CASE j = k
      <4>1. g[j] = BalanceStep(s, h[k - 1]) /\ g[j - 1] = h[k - 1] /\ j # 0
        BY <1>4, <2>1, <3>1
      <4> HIDE DEF g
      <4> QED
        BY <3>1, <4>1
    <3>2. CASE j # k
      <4>1. j \in 0..(k - 1) /\ (j # 0 => j - 1 \in 0..k /\ j - 1 # k)
        BY <2>1, <3>2
      <4>2. g[j] = h[j] /\ (j # 0 => g[j - 1] = h[j - 1])
        BY <3>2, <4>1
      <4> HIDE DEF g
      <4> QED
        BY <2>3, <4>1, <4>2
    <3> QED
      BY <3>1, <3>2
  <2>5. Rounds(s, k, g)
    <3>1. g = [j \in 0..k |-> g[j]]
      OBVIOUS
    <3> HIDE DEF g
    <3> QED
      BY <2>4, <3>1 DEF Rounds
  <2> QED
    BY <1>2, <2>5
<1> QED
  BY <1>3, <1>4

\* What Balance computes is the last iteration of it.
LEMMA RoundIs ==
  ASSUME NEW s
  PROVE  \E h : Rounds(s, BalanceRate, h) /\ BalanceRound(s) = h[BalanceRate]
<1>1. \E h : Rounds(s, BalanceRate, h)
  BY RoundsExist, ConfigAssumption
<1>2. \E h : h = [k \in 0..BalanceRate |->
        IF k = 0 THEN [num |-> s.num, owner |-> s.owner, min |-> 1, max |-> 1,
                       count |-> 0, moves |-> <<>>, done |-> FALSE]
                 ELSE BalanceStep(s, h[k - 1])]
  BY <1>1 DEF Rounds, FirstRound
<1> QED
  BY <1>2 DEF BalanceRound, Rounds, FirstRound

\* A list of loads has a least and a greatest one.
LEMMA HasLeast ==
  ASSUME NEW q \in Seq(Int), q # <<>>
  PROVE  /\ \E k \in DOMAIN q : \A l \in DOMAIN q : q[k] <= q[l]
         /\ \E k \in DOMAIN q : \A l \in DOMAIN q : q[k] >= q[l]
<1> DEFINE Low(n)  == \E k \in 1..n : \A l \in 1..n : q[k] <= q[l]
           High(n) == \E k \in 1..n : \A l \in 1..n : q[k] >= q[l]
           Bad == {n \in Nat \ {0} : n <= Len(q) /\ ~(Low(n) /\ High(n))}
<1>1. Len(q) \in Nat \ {0} /\ DOMAIN q = 1..Len(q) /\ \A k \in 1..Len(q) : q[k] \in Int
  OBVIOUS
<1>2. Bad = {}
  <2> SUFFICES ASSUME Bad # {} PROVE FALSE
    OBVIOUS
  <2> DEFINE n == Min(Bad)
  <2>1. n \in Bad /\ \A j \in Bad : n <= j
    <3>1. Bad \in SUBSET Nat
      OBVIOUS
    <3> HIDE DEF Bad
    <3> QED
      BY <3>1, HasMin
  <2> HIDE DEF n
  <2>2. CASE n = 1
    <3>1. \E k \in 1..1 : \A l \in 1..1 : q[k] <= q[l] /\ q[k] >= q[l]
      BY <1>1
    <3> QED
      BY <2>1, <2>2, <3>1
  <2>3. CASE n # 1
    <3>0. n \in Nat /\ n - 1 \in Nat \ {0} /\ n <= Len(q) /\ n - 1 <= Len(q) /\ n - 1 \notin Bad
      <4>1. n \in Nat \ {0} /\ n <= Len(q) /\ Len(q) \in Nat
        BY <1>1, <2>1
      <4>2. n - 1 \in Nat \ {0} /\ n - 1 < n /\ n - 1 <= Len(q)
        BY <2>3, <4>1
      <4>3. n - 1 \notin Bad
        <5> HIDE DEF Bad
        <5> QED
          BY <2>1, <4>1, <4>2
      <4> QED
        BY <4>1, <4>2, <4>3
    <3>1. n \in Nat /\ n - 1 \in Nat /\ n <= Len(q) /\ Low(n - 1) /\ High(n - 1)
      <4> HIDE DEF Low, High
      <4> QED
        BY <3>0
    <3>2. PICK a \in 1..(n - 1) : \A l \in 1..(n - 1) : q[a] <= q[l]
      BY <3>1
    <3>3. PICK b \in 1..(n - 1) : \A l \in 1..(n - 1) : q[b] >= q[l]
      BY <3>1
    <3>4. /\ q[a] \in Int /\ q[b] \in Int /\ q[n] \in Int
          /\ \A l \in 1..n : q[l] \in Int /\ (l = n \/ l \in 1..(n - 1))
      BY <1>1, <3>1
    <3>7. a \in 1..n /\ b \in 1..n /\ n \in 1..n
      BY <3>0, <3>2, <3>3
    <3>5. Low(n)
      <4>1. CASE q[a] <= q[n]
        <5>1. \A l \in 1..n : q[a] <= q[l]
          BY <3>2, <3>4, <4>1
        <5> QED
          BY <3>7, <5>1
      <4>2. CASE ~(q[a] <= q[n])
        <5>1. ASSUME NEW l \in 1..n PROVE q[n] <= q[l]
          <6>1. q[a] \in Int /\ q[n] \in Int /\ q[l] \in Int
            BY <3>4
          <6>2. l = n \/ q[a] <= q[l]
            BY <3>2, <3>4
          <6> QED
            BY <4>2, <6>1, <6>2
        <5> QED
          BY <3>7, <5>1
      <4> QED
        BY <4>1, <4>2
    <3>6. High(n)
      <4>1. CASE q[b] >= q[n]
        <5>1. \A l \in 1..n : q[b] >= q[l]
          BY <3>3, <3>4, <4>1
        <5> QED
          BY <3>7, <5>1
      <4>2. CASE ~(q[b] >= q[n])
        <5>1. ASSUME NEW l \in 1..n PROVE q[n] >= q[l]
          <6>1. q[b] \in Int /\ q[n] \in Int /\ q[l] \in Int
            BY <3>4
          <6>2. l = n \/ q[b] >= q[l]
            BY <3>3, <3>4
          <6> QED
            BY <4>2, <6>1, <6>2
        <5> QED
          BY <3>7, <5>1
      <4> QED
        BY <4>1, <4>2
    <3> HIDE DEF Low, High
    <3> QED
      BY <2>1, <3>5, <3>6
  <2> QED
    BY <2>2, <2>3
<1>3. Len(q) \notin Bad
  BY <1>2
<1>4. Low(Len(q)) /\ High(Len(q))
  <2> HIDE DEF Low, High
  <2> QED
    BY <1>1, <1>3
<1> QED
  BY <1>1, <1>4

\* The member with the fewest and the one with the most are members.
LEMMA IndexTypes ==
  ASSUME NEW num \in Seq(Int), NEW i \in DOMAIN num
  PROVE  Fewest(num, i) \in DOMAIN num /\ Fullest(num, i) \in DOMAIN num
<1> DEFINE few  == {k \in DOMAIN num : \A l \in DOMAIN num : num[k] <= num[l]}
           full == {k \in DOMAIN num : \A l \in DOMAIN num : num[k] >= num[l]}
<1>1. few # {} /\ full # {}
  BY HasLeast
<1>2. few \in SUBSET Nat /\ full \in SUBSET Nat /\ few \subseteq DOMAIN num /\ full \subseteq DOMAIN num
  OBVIOUS
<1>3. Min(few) \in DOMAIN num /\ Min(full) \in DOMAIN num
  <2> HIDE DEF few, full
  <2> QED
    BY <1>1, <1>2, HasMin
<1> QED
  BY <1>3 DEF Fewest, Fullest

\* The owners after the moves.
Leaves(s, moves, owner) ==
  \A v \in Vip : owner[v] = IF MovesOf(moves, v) = {} THEN s.owner[v]
                            ELSE moves[Max(MovesOf(moves, v))].to

\* A list of moves that could be a message of s, and the owners after it.
Plays(s, moves, owner) ==
  /\ moves \in Seq(Move) /\ owner \in [Vip -> AnyAddress]
  /\ Leaves(s, moves, owner) /\ Moving(s, moves) /\ Aimed(s, moves)

\* One move more.
LEMMA PlaysMore ==
  ASSUME NEW s, NEW moves, NEW owner, Plays(s, moves, owner), NEW v \in Vip, NEW k \in DOMAIN s.ip,
         s.ip[k] \in Address, owner[v] # s.ip[k]
  PROVE  Plays(s, Append(moves, [vip |-> v, to |-> s.ip[k]]), [owner EXCEPT ![v] = s.ip[k]])
<1> DEFINE e     == [vip |-> v, to |-> s.ip[k]]
           more  == Append(moves, e)
           after == [owner EXCEPT ![v] = s.ip[k]]
           n     == Len(moves)
<1>1. moves \in Seq(Move) /\ n \in Nat /\ e \in Move /\ e.vip = v /\ e.to = s.ip[k]
  BY DEF Plays, Move
<1> HIDE DEF e
<1>2. /\ more \in Seq(Move) /\ Len(more) = n + 1 /\ more[n + 1] = e
      /\ \A i \in 1..n : more[i] = moves[i]
  BY <1>1
<1> HIDE DEF more, n
<1>3. /\ owner \in [Vip -> AnyAddress] /\ Leaves(s, moves, owner) /\ Moving(s, moves) /\ Aimed(s, moves)
      /\ n = Len(moves)
  BY DEF Plays, n
<1>4. after \in [Vip -> AnyAddress]
  BY <1>3 DEF AnyAddress
<1>5. \A i \in 1..(n + 1) : i = n + 1 \/ i \in 1..n
  BY <1>1
<1>6. \A u \in Vip : MovesOf(more, u) = IF u = v THEN MovesOf(moves, u) \cup {n + 1} ELSE MovesOf(moves, u)
  BY <1>1, <1>2, <1>3, <1>5 DEF MovesOf
<1>7. Leaves(s, more, after)
  <2> SUFFICES ASSUME NEW u \in Vip
               PROVE  after[u] = IF MovesOf(more, u) = {} THEN s.owner[u]
                                 ELSE more[Max(MovesOf(more, u))].to
    BY DEF Leaves
  <2>1. CASE u = v
    <3> DEFINE M == MovesOf(more, u)
    <3>1. n + 1 \in M /\ M \in SUBSET (1..(n + 1)) /\ n + 1 \in Nat
      BY <1>1, <1>2, <1>6, <2>1 DEF MovesOf
    <3> HIDE DEF M
    <3>2. Max(M) \in M /\ Max(M) >= n + 1
      BY <3>1, HasMax
    <3>3. Max(M) = n + 1
      <4> DEFINE x == Max(M)
      <4>1. x \in 1..(n + 1) /\ x >= n + 1
        BY <3>1, <3>2
      <4> HIDE DEF x
      <4>2. x = n + 1
        BY <1>1, <4>1
      <4> QED
        BY <4>2 DEF x
    <3>4. after[u] = s.ip[k]
      BY <1>3, <2>1
    <3> QED
      BY <1>1, <1>2, <3>1, <3>3, <3>4 DEF M
  <2>2. CASE u # v
    <3>1. after[u] = owner[u] /\ MovesOf(more, u) = MovesOf(moves, u)
      BY <1>3, <1>6, <2>2
    <3>2. CASE MovesOf(moves, u) = {}
      BY <1>3, <3>1, <3>2 DEF Leaves
    <3>3. CASE MovesOf(moves, u) # {}
      <4> DEFINE last == Max(MovesOf(moves, u))
      <4>1. MovesOf(moves, u) \in SUBSET (1..n)
        BY <1>3 DEF MovesOf
      <4>2. last \in 1..n
        BY <1>1, <3>3, <4>1, HasMax
      <4> HIDE DEF last
      <4>3. more[last] = moves[last]
        BY <1>2, <4>2
      <4> QED
        BY <1>3, <3>1, <3>3, <4>3 DEF Leaves, last
    <3> QED
      BY <3>2, <3>3
  <2> QED
    BY <2>1, <2>2
<1>8. Moving(s, more)
  <2> SUFFICES ASSUME NEW i \in 1..(n + 1) PROVE OwnerFound(s, more, i) # more[i].to
    BY <1>2 DEF Moving
  <2>1. CASE i \in 1..n
    <3>1. Earlier(more, i) = Earlier(moves, i)
      BY <1>1, <1>2, <2>1 DEF Earlier
    <3>2. Earlier(moves, i) # {} => Max(Earlier(moves, i)) \in 1..n
      <4>1. Earlier(moves, i) \in SUBSET (1..n)
        BY <1>1, <2>1 DEF Earlier
      <4> QED
        BY <1>1, <4>1, HasMax
    <3>3. OwnerFound(s, more, i) = OwnerFound(s, moves, i)
      BY <1>2, <2>1, <3>1, <3>2 DEF OwnerFound
    <3> QED
      BY <1>2, <1>3, <2>1, <3>3 DEF Moving
  <2>2. CASE i = n + 1
    <3>1. more[i] = e
      BY <1>2, <2>2
    <3>2. Earlier(more, i) = MovesOf(moves, v)
      <4>1. 1..(i - 1) = 1..n
        BY <1>1, <2>2
      <4> QED
        BY <1>1, <1>2, <1>3, <3>1, <4>1 DEF Earlier, MovesOf
    <3>3. CASE MovesOf(moves, v) = {}
      <4>1. OwnerFound(s, more, i) = s.owner[v]
        BY <1>1, <3>1, <3>2, <3>3 DEF OwnerFound
      <4>2. owner[v] = s.owner[v]
        BY <1>3, <3>3 DEF Leaves
      <4> QED
        BY <1>1, <3>1, <4>1, <4>2
    <3>4. CASE MovesOf(moves, v) # {}
      <4> DEFINE last == Max(MovesOf(moves, v))
      <4>1. MovesOf(moves, v) \in SUBSET (1..n)
        BY <1>3 DEF MovesOf
      <4>2. last \in 1..n
        BY <1>1, <3>4, <4>1, HasMax
      <4>3. OwnerFound(s, more, i) = more[last].to
        BY <3>2, <3>4 DEF OwnerFound
      <4>4. owner[v] = moves[last].to
        BY <1>3, <3>4 DEF Leaves
      <4> HIDE DEF last
      <4> QED
        BY <1>1, <1>2, <3>1, <4>2, <4>3, <4>4
    <3> QED
      BY <3>3, <3>4
  <2> QED
    BY <1>5, <2>1, <2>2
<1>9. Aimed(s, more)
  BY <1>1, <1>2, <1>3, <1>5 DEF Aimed
<1> QED
  BY <1>2, <1>4, <1>7, <1>8, <1>9 DEF Plays, more, e

\* A round, after some iterations.
RoundType ==
  [num : Seq(Int), owner : [Vip -> AnyAddress], min : Nat, max : Nat,
   count : Nat, moves : Seq(Move), done : BOOLEAN]
InRound(s, b) ==
  /\ b \in RoundType /\ DOMAIN b.num = DOMAIN s.ip /\ b.min \in DOMAIN s.ip /\ b.max \in DOMAIN s.ip
  /\ Len(b.moves) <= b.count /\ Plays(s, b.moves, b.owner)

\* No two members have the same address.
OneToOne(s) == \A k, l \in DOMAIN s.ip : s.ip[k] = s.ip[l] => k = l

\* An iteration of Balance: an interface goes to another member than the one that has it.
LEMMA BalanceStepPlays ==
  ASSUME NEW self, NEW s, Shape(self, s), Heard(s), OneToOne(s), NEW b, InRound(s, b)
  PROVE  InRound(s, BalanceStep(s, b))
<1> DEFINE min     == Fewest(b.num, b.min)
           max     == Fullest(b.num, b.max)
           movable == {v \in Vip : b.owner[v] = s.ip[max] /\ s.prio[v] < PREFER}
           v       == Min(movable)
           found   == [b EXCEPT !.min = min, !.max = max]
           ended   == [found EXCEPT !.done = TRUE]
           count   == b.count + 1
           counted == [found EXCEPT !.count = count]
           num     == [b.num EXCEPT ![min] = @ + 1, ![max] = @ - 1]
           owner   == [b.owner EXCEPT ![v] = s.ip[min]]
           moves   == Append(b.moves, [vip |-> v, to |-> s.ip[min]])
           moved   == [found EXCEPT !.count = count, !.num = num, !.owner = owner, !.moves = moves]
<1>1. /\ b \in RoundType /\ b.num \in Seq(Int) /\ DOMAIN b.num = DOMAIN s.ip
      /\ b.min \in DOMAIN b.num /\ b.max \in DOMAIN b.num /\ b.count \in Nat
      /\ b.moves \in Seq(Move) /\ Len(b.moves) \in Nat /\ Len(b.moves) <= b.count
      /\ Plays(s, b.moves, b.owner)
  BY DEF InRound, RoundType
<1>2. min \in DOMAIN s.ip /\ max \in DOMAIN s.ip /\ min \in Nat /\ max \in Nat
  <2>1. min \in DOMAIN b.num /\ max \in DOMAIN b.num
    BY <1>1, IndexTypes
  <2>2. DOMAIN b.num \subseteq Nat
    BY <1>1
  <2> HIDE DEF min, max
  <2> QED
    BY <1>1, <2>1, <2>2
<1> HIDE DEF min, max
<1>3. /\ found \in RoundType /\ found.min = min /\ found.max = max /\ found.num = b.num
      /\ found.owner = b.owner /\ found.moves = b.moves /\ found.count = b.count
  BY <1>1, <1>2 DEF RoundType
<1>4. InRound(s, found)
  BY <1>1, <1>2, <1>3 DEF InRound
<1>5. InRound(s, ended)
  <2>1. /\ ended \in RoundType /\ ended.min = found.min /\ ended.max = found.max
        /\ ended.num = found.num /\ ended.owner = found.owner /\ ended.moves = found.moves
        /\ ended.count = found.count
    BY <1>3 DEF RoundType
  <2> HIDE DEF found, ended
  <2> QED
    BY <1>4, <2>1 DEF InRound
<1>6. InRound(s, counted)
  <2>1. /\ counted \in RoundType /\ counted.min = found.min /\ counted.max = found.max
        /\ counted.num = found.num /\ counted.owner = found.owner /\ counted.moves = found.moves
        /\ counted.count = count
    <3>1. count \in Nat
      BY <1>1
    <3> HIDE DEF found, count
    <3> QED
      BY <1>3, <3>1 DEF RoundType
  <2>2. Len(found.moves) <= counted.count
    BY <1>1, <1>3, <2>1
  <2> HIDE DEF found, counted
  <2> QED
    BY <1>4, <2>1, <2>2 DEF InRound
<1>7. ASSUME movable # {}, ~(b.num[max] - b.num[min] <= 1)
      PROVE  InRound(s, moved)
  <2>1. v \in Vip /\ b.owner[v] = s.ip[max]
    <3>1. movable \in SUBSET Nat
      BY DEF Vip
    <3>2. v \in movable
      <4> HIDE DEF movable
      <4> QED
        BY <1>7, <3>1, HasMin
    <3> HIDE DEF v
    <3> QED
      BY <3>2
  <2> HIDE DEF v
  <2>2. b.num[max] \in Int /\ b.num[min] \in Int
    BY <1>1, <1>2
  <2>3. min # max
    BY <1>7, <2>2
  <2>4. s.ip[min] # s.ip[max]
    BY <1>2, <2>3 DEF OneToOne
  <2>5. s.ip[min] \in Address
    BY <1>2 DEF Heard, Shape, DaemonType, AnyAddress
  <2>6. Plays(s, moves, owner)
    BY <1>1, <1>2, <2>1, <2>4, <2>5, PlaysMore
  <2>7. moves \in Seq(Move) /\ owner \in [Vip -> AnyAddress]
    BY <2>6 DEF Plays
  <2>8. num \in Seq(Int) /\ DOMAIN num = DOMAIN b.num
    <3>1. /\ b.num \in Seq(Int) /\ min \in DOMAIN b.num /\ max \in DOMAIN b.num
          /\ b.num[max] - 1 \in Int /\ b.num[min] + 1 \in Int
      <4>1. b.num[max] - 1 \in Int /\ b.num[min] + 1 \in Int
        BY <2>2
      <4> QED
        BY <1>1, <1>2, <4>1
    <3>2. ASSUME NEW q \in Seq(Int), NEW j \in DOMAIN q, NEW x \in Int
          PROVE  [q EXCEPT ![j] = x] \in Seq(Int) /\ DOMAIN [q EXCEPT ![j] = x] = DOMAIN q
      <4>1. Len(q) \in Nat /\ DOMAIN q = 1..Len(q) /\ \A k \in 1..Len(q) : q[k] \in Int
        OBVIOUS
      <4>2. [q EXCEPT ![j] = x] = [k \in 1..Len(q) |-> IF k = j THEN x ELSE q[k]]
        BY <4>1
      <4>3. \A k \in 1..Len(q) : (IF k = j THEN x ELSE q[k]) \in Int
        BY <4>1
      <4>4. [k \in 1..Len(q) |-> IF k = j THEN x ELSE q[k]] \in Seq(Int)
        BY <4>1, <4>3
      <4> QED
        BY <4>1, <4>2, <4>4
    <3> DEFINE given == [b.num EXCEPT ![min] = b.num[min] + 1]
    <3>3. given \in Seq(Int) /\ DOMAIN given = DOMAIN b.num
      BY <3>1, <3>2
    <3>4. num = [given EXCEPT ![max] = b.num[max] - 1]
      <4>1. given[max] = b.num[max]
        BY <2>3
      <4> QED
        BY <4>1
    <3> HIDE DEF given
    <3> QED
      BY <1>1, <3>1, <3>2, <3>3, <3>4
  <2>9. Len(moves) = Len(b.moves) + 1
    BY <1>1
  <2> HIDE DEF moves, owner, num
  <2>10. /\ moved \in RoundType /\ moved.min = min /\ moved.max = max /\ moved.num = num
         /\ moved.owner = owner /\ moved.moves = moves /\ moved.count = count
    <3>1. count \in Nat
      BY <1>1
    <3> HIDE DEF found, count
    <3> QED
      BY <1>3, <2>7, <2>8, <3>1 DEF RoundType
  <2> HIDE DEF moved, found
  <2>11. Len(moved.moves) <= moved.count
    BY <1>1, <2>9, <2>10
  <2> QED
    BY <1>1, <1>2, <2>6, <2>8, <2>10, <2>11 DEF InRound
<1>8. BalanceStep(s, b) \in {b, ended, counted}
      \/ (BalanceStep(s, b) = moved /\ movable # {} /\ ~(b.num[max] - b.num[min] <= 1))
  <2>1. found.count = b.count /\ found.moves = b.moves
    BY <1>3
  <2>2. counted = [found EXCEPT !.count = @ + 1]
    BY <1>3 DEF RoundType
  <2>3. moved = [found EXCEPT !.count = @ + 1,
              !.num   = [b.num EXCEPT ![min] = @ + 1, ![max] = @ - 1],
              !.owner = [b.owner EXCEPT ![v] = s.ip[min]],
              !.moves = Append(@, [vip |-> v, to |-> s.ip[min]])]
    <3> HIDE DEF found, v, num, owner
    <3> QED
      BY <1>3 DEF RoundType, num, owner
  <2>4. BalanceStep(s, b) =
          IF b.done THEN b
          ELSE IF b.num[max] - b.num[min] <= 1 THEN ended
          ELSE IF movable = {} THEN [found EXCEPT !.count = @ + 1]
          ELSE [found EXCEPT !.count = @ + 1,
              !.num   = [b.num EXCEPT ![min] = @ + 1, ![max] = @ - 1],
              !.owner = [b.owner EXCEPT ![v] = s.ip[min]],
              !.moves = Append(@, [vip |-> v, to |-> s.ip[min]])]
    BY DEF BalanceStep, min, max
  <2> HIDE DEF ended, counted, moved, movable, found, v
  <2> QED
    BY <2>2, <2>3, <2>4
<1> HIDE DEF ended, counted, moved, movable
<1> QED
  BY <1>5, <1>6, <1>7, <1>8

\* Balance: the moves of its message give no interface to the member that has it, and all
\* go to members.
LEMMA BalanceMessagesPlay ==
  ASSUME NEW self, NEW s, Shape(self, s), s.ip # <<>>, Heard(s), OneToOne(s),
         NEW m \in BalanceMessages(s)
  PROVE  /\ MovesRead(m) \in Seq(Move) /\ Moving(s, MovesRead(m)) /\ Aimed(s, MovesRead(m))
<1>1. PICK h : Rounds(s, BalanceRate, h) /\ BalanceRound(s) = h[BalanceRate]
  BY RoundIs
<1>2. /\ BalanceRate \in Nat
      /\ \A k \in 0..BalanceRate : h[k] = IF k = 0 THEN FirstRound(s) ELSE BalanceStep(s, h[k - 1])
  BY <1>1, ConfigAssumption DEF Rounds
<1>3. InRound(s, FirstRound(s))
  <2> DEFINE b == FirstRound(s)
  <2>1. 1 \in DOMAIN s.ip /\ DOMAIN s.num = DOMAIN s.ip /\ s.num \in Seq(Int) /\ s.owner \in [Vip -> AnyAddress]
    BY DEF Shape, DaemonType
  <2>2. <<>> \in Seq(Move) /\ Len(<<>>) = 0
    OBVIOUS
  <2>3. /\ b \in RoundType /\ b.num = s.num /\ b.owner = s.owner /\ b.min = 1 /\ b.max = 1
        /\ b.count = 0 /\ b.moves = <<>>
    BY <2>1, <2>2 DEF FirstRound, RoundType
  <2>4. Plays(s, <<>>, s.owner)
    <3>1. \A v \in Vip : MovesOf(<<>>, v) = {}
      BY DEF MovesOf
    <3> QED
      BY <2>1, <2>2, <3>1 DEF Plays, Leaves, Moving, Aimed
  <2> QED
    BY <2>1, <2>2, <2>3, <2>4 DEF InRound
<1>4. \A k \in 0..BalanceRate : InRound(s, h[k])
  <2> DEFINE Bad == {k \in Nat : k <= BalanceRate /\ ~InRound(s, h[k])}
  <2> SUFFICES ASSUME Bad # {} PROVE FALSE
    BY <1>2
  <2> DEFINE k == Min(Bad)
  <2>1. k \in Bad /\ \A j \in Bad : k <= j
    <3>1. Bad \in SUBSET Nat
      OBVIOUS
    <3> HIDE DEF Bad
    <3> QED
      BY <3>1, HasMin
  <2> HIDE DEF k
  <2>2. k # 0
    BY <1>2, <1>3, <2>1
  <2>3. k \in 0..BalanceRate /\ k - 1 \in Nat /\ k - 1 <= BalanceRate /\ ~(k <= k - 1)
    BY <1>2, <2>1, <2>2
  <2>4. InRound(s, h[k - 1])
    <3>1. k - 1 \notin Bad
      <4> HIDE DEF Bad
      <4> QED
        BY <2>1, <2>3
    <3> QED
      BY <2>3, <3>1
  <2>5. InRound(s, h[k])
    BY <1>2, <2>2, <2>3, <2>4, BalanceStepPlays
  <2> QED
    BY <2>1, <2>5
<1>5. m.count = h[BalanceRate].count /\ m.moves = h[BalanceRate].moves
  BY <1>1 DEF BalanceMessages
<1>6. InRound(s, h[BalanceRate])
  BY <1>2, <1>4
<1> DEFINE b == h[BalanceRate]
<1> HIDE DEF b
<1>7. /\ b.moves \in Seq(Move) /\ Len(b.moves) \in Nat /\ b.count \in Nat /\ Len(b.moves) <= b.count
      /\ Moving(s, b.moves) /\ Aimed(s, b.moves)
  BY <1>6 DEF InRound, RoundType, Plays, b
<1>8. MovesRead(m) = b.moves
  BY <1>5, <1>7 DEF MovesRead, b
<1> QED
  BY <1>7, <1>8
=============================================================================
