-------------------------- MODULE WackamoleProofs ---------------------------
(***************************************************************************)
(* What the handlers of module Wackamole do to a daemon, whatever it is    *)
(* among: for every number of interfaces and every set of addresses.       *)
(* Modules DaemonProofs and ClusterProofs use these facts.                 *)
(*                                                                         *)
(* The first part is that every handler keeps the types of the daemon,     *)
(* one lemma for each operator in the order of that module.  The second    *)
(* part sorts what a handler may do to the session and the automaton: end  *)
(* the session (Ended), leave the automaton alone (Kept), take up a view   *)
(* (Gathers), decide (Decides) or count (Counts).  The third part is what  *)
(* the tables become where nothing is preferred: a function of what they   *)
(* were and of the message received.                                       *)
(***************************************************************************)
EXTENDS Wackamole, FiniteSetTheorems, WellFoundedInduction, TLAPS

\* A daemon at address self whose fields have their types.
Shape(self, s) == s \in DaemonType /\ s.me = self /\ DOMAIN s.num = DOMAIN s.ip

\* A set of virtual interfaces is finite, so its size is a number.
LEMMA VipFinite ==
  ASSUME NEW V \in SUBSET Vip
  PROVE  IsFiniteSet(V) /\ Cardinality(V) \in Nat
<1>1. IsFiniteSet(Vip)
  BY VipAssumption, FS_Interval DEF Vip
<1> QED
  BY <1>1, FS_Subset, FS_CardinalityType

\* How many interfaces of a set a table gives to one owner is a natural number.
LEMMA LoadNat ==
  ASSUME NEW table, NEW V \in SUBSET Vip, NEW a
  PROVE  Load(table, V, a) \in Nat
<1>1. {v \in V : table[v] = a} \in SUBSET Vip
  OBVIOUS
<1> QED
  BY <1>1, VipFinite DEF Load

\* A function on the indices of a list is a list of the same length (Members[]).
LEMMA FunctionSeq ==
  ASSUME NEW S, NEW T, NEW q \in Seq(S), NEW f \in [DOMAIN q -> T]
  PROVE  f \in Seq(T) /\ DOMAIN f = DOMAIN q
  OBVIOUS

\* A list is a function on its indices.
LEMMA SeqFunction ==
  ASSUME NEW S, NEW q \in Seq(S)
  PROVE  q \in [DOMAIN q -> S]
  OBVIOUS

\* A set of natural numbers that is not empty has a least element, and Min is it.
LEMMA HasMin ==
  ASSUME NEW S \in SUBSET Nat, S # {}
  PROVE  Min(S) \in S /\ \A y \in S : Min(S) <= y
<1>1. PICK x \in S : \A y \in S : ~ (<<y, x>> \in OpToRel(<, Nat))
  BY WFMin, NatLessThanWellFounded
<1>2. ASSUME NEW y \in S PROVE x <= y
  <2>1. ASSUME y < x PROVE FALSE
    <3>1. <<y, x>> \in Nat \X Nat
      OBVIOUS
    <3>2. <<y, x>> \in OpToRel(<, Nat)
      BY <2>1, <3>1, Zenon DEF OpToRel
    <3> QED
      BY <1>1, <3>2
  <2> QED
    BY <2>1
<1> QED
  BY <1>2 DEF Min

\* A set of indices up to n that is not empty has a greatest one, and Max is it
\* (the last move of an interface in a balance message).
LEMMA HasMax ==
  ASSUME NEW n \in Nat, NEW S \in SUBSET (1..n), S # {}
  PROVE  Max(S) \in S /\ \A y \in S : Max(S) >= y
<1> DEFINE T == {n - x : x \in S}
<1>1. T \in SUBSET Nat /\ T # {}
  <2>1. \A x \in S : x \in Int /\ n - x \in Nat
    OBVIOUS
  <2> QED
    BY <2>1
<1>2. Min(T) \in T /\ \A y \in T : Min(T) <= y
  <2> HIDE DEF T
  <2> QED
    BY <1>1, HasMin
<1>3. PICK x \in S : Min(T) = n - x
  BY <1>2
<1>4. ASSUME NEW y \in S PROVE x >= y
  <2>1. n - y \in T
    OBVIOUS
  <2>2. n - x <= n - y
    BY <1>2, <1>3, <2>1
  <2> QED
    BY <2>2
<1> QED
  BY <1>4 DEF Max

-----------------------------------------------------------------------------
(* Records: what a handler assigns has the type of the field. *)

\* Acquire and ReleaseAddress write the interfaces up and My.num_allocated.
LEMMA InterfacesShape ==
  ASSUME NEW self, NEW s, Shape(self, s), NEW up \in SUBSET Vip, NEW mine \in Int
  PROVE  Shape(self, [s EXCEPT !.up = up, !.mine = mine])
  BY DEF Shape, DaemonType

\* The claim rules write Allocation_table and Members[].num_allocated.
LEMMA TablesShape ==
  ASSUME NEW self, NEW s, Shape(self, s),
         NEW owner \in [Vip -> AnyAddress], NEW prio \in [Vip -> Priority],
         NEW num \in [DOMAIN s.num -> Int]
  PROVE  Shape(self, [s EXCEPT !.owner = owner, !.prio = prio, !.num = num])
<1>1. num \in Seq(Int) /\ DOMAIN num = DOMAIN s.num
  BY FunctionSeq DEF Shape, DaemonType
<1> QED
  BY <1>1 DEF Shape, DaemonType

\* Acquire and Release keep the types of what they write.
LEMMA AcquireShape ==
  ASSUME NEW self, NEW s, Shape(self, s), NEW V \in SUBSET Vip
  PROVE  Shape(self, Acquire(s, V)) /\ Shape(self, Release(s, V))
<1>1. Cardinality(V) \in Int
  BY VipFinite
<1>2. /\ s.up \cup V \in SUBSET Vip /\ s.mine + Cardinality(V) \in Int
      /\ s.up \ V \in SUBSET Vip /\ s.mine - Cardinality(V) \in Int
  BY <1>1 DEF Shape, DaemonType
<1> QED
  BY <1>2, InterfacesShape DEF Acquire, Release

\* The static variables start with values of their types.
LEMMA InitialShape ==
  ASSUME NEW self \in Address
  PROVE  Shape(self, InitialDaemon(self))
  BY DEF Shape, InitialDaemon, DaemonType, Nobody, AnyAddress, UNCLAIMED, Priority,
      DaemonState, ExitReason, MessageKind, Buffer

\* Handle_Post_Release, with or without NEEDS_FORCE_REUP, keeps every type.
LEMMA PostReleaseShape ==
  ASSUME NEW self, NEW s, Shape(self, s), NEW released
  PROVE  Shape(self, PostRelease(s, released))
  BY SMTT(60) DEF Shape, PostRelease, DaemonType

\* Clean_up keeps every type.
LEMMA CleanUpShape ==
  ASSUME NEW self, NEW s, Shape(self, s)
  PROVE  Shape(self, CleanUp(s))
<1>1. Shape(self, Release(s, Vip))
  BY AcquireShape
<1>2. Nobody \in [Vip -> AnyAddress]
  BY DEF Nobody, AnyAddress
<1> QED
  BY <1>1, <1>2 DEF Shape, CleanUp, DaemonType

-----------------------------------------------------------------------------
(* The Spread session. *)

\* Leaving and joining the group are calls to Spread.
LEMMA SessionOutputs == <<Leave>> \in Seq(Output) /\ <<Join>> \in Seq(Output)
  BY DEF Output

\* Spread_reconnect keeps every type, connected or refused.
LEMMA SpreadReconnectShape ==
  ASSUME NEW self, NEW s, Shape(self, s), NEW t \in SpreadReconnect(s)
  PROVE  Shape(self, t)
<1> DEFINE gone == [CleanUp(s) EXCEPT !.mbox = FALSE, !.out = <<Leave>>]
           retry == [gone EXCEPT !.tRetry = TRUE]
           joined == [gone EXCEPT !.mbox = TRUE, !.out = <<Join>>, !.state = "BOOT",
                                  !.mat = FALSE, !.oldMat = FALSE,
                                  !.tMature = TRUE, !.mine = 0]
<1>1. Shape(self, gone)
  <2>1. Shape(self, CleanUp(s))
    BY CleanUpShape
  <2> QED
    BY <2>1, SessionOutputs DEF Shape, DaemonType
<1>2. Shape(self, retry)
  BY ZenonT(60), <1>1 DEF Shape, DaemonType
<1>3. Shape(self, joined)
  <2>1. "BOOT" \in DaemonState /\ FALSE \in BOOLEAN /\ TRUE \in BOOLEAN /\ 0 \in Int
    BY DEF DaemonState
  <2> HIDE DEF gone
  <2> QED
    BY <1>1, <2>1, SessionOutputs DEF Shape, DaemonType
<1>4. t \in {retry, joined}
  BY DEF SpreadReconnect
<1> QED
  BY <1>2, <1>3, <1>4

\* wack_alarm(EXIT) keeps every type.
LEMMA FatalExitShape ==
  ASSUME NEW self, NEW s, Shape(self, s)
  PROVE  Shape(self, FatalExit(s))
  BY SessionOutputs DEF Shape, DaemonType, FatalExit, ExitReason

\* The error branch behind every call to Spread keeps every type.
LEMMA AfterSpreadErrorShape ==
  ASSUME NEW self, NEW s, Shape(self, s), NEW t \in AfterSpreadError(s)
  PROVE  Shape(self, t)
  BY SpreadReconnectShape, FatalExitShape DEF AfterSpreadError

\* Sending a message keeps every type, sent or refused.
LEMMA MulticastShape ==
  ASSUME NEW self, NEW s, Shape(self, s), NEW m \in Message, NEW t \in Multicast(s, m)
  PROVE  Shape(self, t)
<1>1. Append(s.out, m) \in Seq(Output)
  BY DEF Shape, DaemonType, Output
<1>2. Shape(self, [s EXCEPT !.out = Append(s.out, m)])
  BY <1>1 DEF Shape, DaemonType
<1> QED
  BY <1>2, SpreadReconnectShape, AfterSpreadErrorShape DEF Multicast

\* Send_local_arp_cache keeps every type.
LEMMA SendLocalArpCacheShape ==
  ASSUME NEW self, NEW s, Shape(self, s), NEW t \in SendLocalArpCache(s)
  PROVE  Shape(self, t)
<1>1. Shape(self, [s EXCEPT !.mess = Junk])
  BY DEF Shape, DaemonType, Buffer
<1>2. ArpMessage \in Message
  BY DEF Message
<1> QED
  BY <1>1, <1>2, MulticastShape DEF SendLocalArpCache

\* Send_state_message builds a well-formed state message from any tables: the
\* claims are a function on the interfaces held and Old_table has a priority for each.
LEMMA StateMessageType ==
  ASSUME NEW self, NEW s, Shape(self, s)
  PROVE  StateMessageOf(s) \in StateMessage
<1>1. [v \in Held(s) |-> s.oldPrio[v]] \in Claims
  <2>1. Held(s) \in SUBSET Vip
    BY DEF Held
  <2>2. [v \in Held(s) |-> s.oldPrio[v]] \in [Held(s) -> Priority]
    BY <2>1 DEF Shape, DaemonType
  <2> QED
    BY <2>1, <2>2 DEF Claims
<1>2. Prefer[s.me] \in SUBSET Vip
  BY ConfigAssumption DEF Shape, DaemonType
<1> QED
  BY <1>1, <1>2 DEF Shape, DaemonType, StateMessageOf, StateMessage

\* Send_state_message keeps every type, also when its assertion fails.
LEMMA SendStateMessageShape ==
  ASSUME NEW self, NEW s, Shape(self, s), NEW t \in SendStateMessage(s)
  PROVE  Shape(self, t)
<1>1. Shape(self, [s EXCEPT !.exit = "assert", !.mbox = FALSE, !.out = <<Leave>>])
  BY SessionOutputs DEF Shape, DaemonType, ExitReason
<1>2. Shape(self, [s EXCEPT !.mess = Junk])
  BY DEF Shape, DaemonType, Buffer
<1>3. StateMessageOf(s) \in Message
  BY StateMessageType DEF Message
<1> QED
  BY <1>1, <1>2, <1>3, MulticastShape DEF SendStateMessage

-----------------------------------------------------------------------------
(* Claiming addresses. *)

\* The claim priorities are the four that wackamole.c names.
LEMMA PriorityType == {UNCLAIMED, CLAIMED, PREFER, PREFER_CLAIMED} = Priority
  BY DEF Priority

\* Priority_claim keeps every type; the loads it counts are integers.
LEMMA PriorityClaimShape ==
  ASSUME NEW self, NEW s, Shape(self, s)
  PROVE  Shape(self, PriorityClaim(s))
<1> DEFINE P        == {v \in Vip : s.prio[v] = PREFER}
           acquired == {v \in P : s.owner[v] = s.me /\ s.oldOwner[v] # s.me}
           released == {v \in P : s.oldOwner[v] = s.me /\ s.owner[v] # s.me}
           moved    == {v \in P : s.owner[v] # s.oldOwner[v]}
           base     == Release(Acquire(s, acquired), released)
           load(k)  == IF s.mat /\ ~s.oldMat THEN Load(s.owner, Vip, s.ip[k])
                       ELSE s.num[k] - Load(s.oldOwner, moved, s.ip[k])
                                     + Load(s.owner, moved, s.ip[k])
           num      == [k \in DOMAIN s.num |-> load(k)]
           prio     == [v \in Vip |-> IF v \in P THEN PREFER_CLAIMED ELSE s.prio[v]]
           oldMat   == s.oldMat \/ s.mat
<1>1. acquired \in SUBSET Vip /\ released \in SUBSET Vip /\ moved \in SUBSET Vip
  OBVIOUS
<1>2. Shape(self, base) /\ DOMAIN base.num = DOMAIN s.num
  <2>1. Shape(self, Acquire(s, acquired))
    BY <1>1, AcquireShape
  <2>2. Shape(self, base)
    BY <1>1, <2>1, AcquireShape
  <2>3. base.num = s.num
    BY DEF Shape, DaemonType, Acquire, Release
  <2> QED
    BY <2>2, <2>3
<1>3. num \in Seq(Int) /\ DOMAIN num = DOMAIN s.num
  <2>1. \A k \in DOMAIN s.num : load(k) \in Int
    <3>1. ASSUME NEW k \in DOMAIN s.num PROVE s.num[k] \in Int
      BY DEF Shape, DaemonType
    <3>2. ASSUME NEW k
          PROVE  /\ Load(s.oldOwner, moved, s.ip[k]) \in Int
                 /\ Load(s.owner, moved, s.ip[k]) \in Int
                 /\ Load(s.owner, Vip, s.ip[k]) \in Int
      BY <1>1, LoadNat
    <3> HIDE DEF moved
    <3> QED
      BY <3>1, <3>2
  <2> HIDE DEF load
  <2>2. num \in [DOMAIN s.num -> Int]
    BY <2>1
  <2> QED
    BY <2>2, FunctionSeq DEF Shape, DaemonType
<1>4. prio \in [Vip -> Priority] /\ oldMat \in BOOLEAN
  BY PriorityType DEF Shape, DaemonType
<1>5. Shape(self, [base EXCEPT !.num = num, !.prio = prio, !.oldMat = oldMat])
  <2> HIDE DEF base, num, prio, oldMat
  <2> QED
    BY <1>2, <1>3, <1>4 DEF Shape, DaemonType
<1>6. PriorityClaim(s) =
        PostRelease([base EXCEPT !.num = num, !.prio = prio, !.oldMat = oldMat], released)
  BY DEF PriorityClaim
<1> QED
  BY <1>5, <1>6, PostReleaseShape

\* Claim_unclaimed keeps every type: the owner it writes is a member's address.
LEMMA ClaimUnclaimedShape ==
  ASSUME NEW self, NEW s, Shape(self, s), NEW t \in ClaimUnclaimed(s)
  PROVE  Shape(self, t)
<1> DEFINE U == {v \in Vip : s.prio[v] = UNCLAIMED}
<1>1. PICK f \in [U -> DOMAIN s.num] :
         t = [Acquire(s, {v \in U : f[v] = s.idx}) EXCEPT
                !.num   = [k \in DOMAIN @ |-> @[k] + Load(f, U, k)],
                !.owner = [v \in Vip |-> IF v \in U THEN s.ip[f[v]] ELSE @[v]],
                !.prio  = [v \in Vip |-> IF v \in U THEN CLAIMED ELSE @[v]]]
  BY DEF ClaimUnclaimed
<1> DEFINE mine  == {v \in U : f[v] = s.idx}
           base  == Acquire(s, mine)
           num   == [k \in DOMAIN s.num |-> s.num[k] + Load(f, U, k)]
           owner == [v \in Vip |-> IF v \in U THEN s.ip[f[v]] ELSE s.owner[v]]
           prio  == [v \in Vip |-> IF v \in U THEN CLAIMED ELSE s.prio[v]]
<1>2. mine \in SUBSET Vip /\ U \in SUBSET Vip
  OBVIOUS
<1>3. Shape(self, base) /\ base.owner = s.owner /\ base.num = s.num /\ base.prio = s.prio
  BY ZenonT(60), <1>2, AcquireShape DEF Shape, DaemonType, Acquire
<1>4. num \in [DOMAIN s.num -> Int]
  <2>1. \A k \in DOMAIN s.num : Load(f, U, k) \in Int /\ s.num[k] \in Int
    BY <1>2, LoadNat DEF Shape, DaemonType
  <2> QED
    BY <2>1
<1>5. owner \in [Vip -> AnyAddress]
  <2>1. \A v \in U : s.ip[f[v]] \in AnyAddress
    BY DEF Shape, DaemonType
  <2> QED
    BY <2>1 DEF Shape, DaemonType
<1>6. prio \in [Vip -> Priority]
  BY PriorityType DEF Shape, DaemonType
<1>7. t = [base EXCEPT !.owner = owner, !.prio = prio, !.num = num]
  <2> HIDE DEF base
  <2>1. t = [base EXCEPT !.num = num, !.owner = owner, !.prio = prio]
    BY <1>1, <1>3 DEF base
  <2> QED
    BY <2>1, <1>3 DEF Shape, DaemonType
<1> QED
  BY <1>3, <1>4, <1>5, <1>6, <1>7, TablesShape

\* The shift to RUN of Handle_mature and Handle_state keeps every type.
LEMMA ShiftToRunShape ==
  ASSUME NEW self, NEW s, Shape(self, s), NEW t \in ShiftToRun(s)
  PROVE  Shape(self, t)
<1>1. PICK u \in ClaimUnclaimed(PriorityClaim(s)) :
         t = [u EXCEPT !.state = "RUN", !.tBalance = TRUE]
  BY DEF ShiftToRun
<1>2. Shape(self, u)
  BY PriorityClaimShape, ClaimUnclaimedShape
<1> QED
  BY <1>1, <1>2 DEF Shape, DaemonType, DaemonState

\* Handle_mature keeps every type.
LEMMA HandleMatureShape ==
  ASSUME NEW self, NEW s, Shape(self, s), NEW t \in HandleMature(s)
  PROVE  Shape(self, t)
<1>1. Shape(self, [s EXCEPT !.mat = TRUE, !.tMature = FALSE])
  BY DEF Shape, DaemonType
<1> QED
  BY <1>1, ShiftToRunShape DEF HandleMature

-----------------------------------------------------------------------------
(* Message handlers. *)

ViewMessage == [kind : {"view"}, gid : Nat, n : Nat, idx : Nat \ {0}]

\* Handle_membership keeps every type: the lists of members get the new length.
LEMMA HandleMembershipShape ==
  ASSUME NEW self, NEW s, Shape(self, s), NEW m \in ViewMessage, NEW t \in HandleMembership(s, m)
  PROVE  Shape(self, t)
<1> DEFINE kept     == s.state \in {"GATHER", "BOOT"}
           ip       == [k \in 1..m.n |-> NoAddr]
           num      == [k \in 1..m.n |-> 0]
           oldOwner == IF kept THEN s.oldOwner ELSE s.owner
           oldPrio  == IF kept THEN s.oldPrio ELSE s.prio
           prio     == [v \in Vip |-> UNCLAIMED]
           viewed   == [s EXCEPT !.gid = m.gid, !.pending = m.n, !.idx = m.idx,
                          !.ip = ip, !.num = num, !.oldOwner = oldOwner,
                          !.oldPrio = oldPrio, !.owner = Nobody, !.prio = prio]
<1>1. m.gid \in Nat /\ m.n \in Int /\ m.n \in Nat /\ m.idx \in Nat \ {0}
  BY DEF ViewMessage
<1>2. ip \in Seq(AnyAddress) /\ num \in Seq(Int) /\ DOMAIN num = DOMAIN ip
  BY <1>1 DEF AnyAddress
<1>3. /\ oldOwner \in [Vip -> AnyAddress] /\ oldPrio \in [Vip -> Priority]
      /\ Nobody \in [Vip -> AnyAddress] /\ prio \in [Vip -> Priority]
  BY PriorityType DEF Shape, DaemonType, Nobody, AnyAddress
<1>4. Shape(self, viewed)
  <2> HIDE DEF ip, num, oldOwner, oldPrio, prio
  <2> QED
    BY <1>1, <1>2, <1>3 DEF Shape, DaemonType
<1>5. PICK u \in SendStateMessage(viewed) :
         t = IF u.exit = "no" THEN [u EXCEPT !.state = "GATHER", !.tBalance = FALSE] ELSE u
  BY DEF HandleMembership
<1>6. Shape(self, u)
  BY <1>4, SendStateMessageShape
<1>7. Shape(self, [u EXCEPT !.state = "GATHER", !.tBalance = FALSE])
  BY <1>6 DEF Shape, DaemonType, DaemonState
<1> QED
  BY <1>5, <1>6, <1>7

\* The membership branch of Handle_network keeps every type.
LEMMA HandleViewShape ==
  ASSUME NEW self, NEW s, Shape(self, s), NEW m \in ViewMessage, NEW t \in HandleView(s, m)
  PROVE  Shape(self, t)
<1>1. PICK u \in HandleMembership(s, m) :
         t \in IF u.exit = "no" THEN SendLocalArpCache(u) ELSE {u}
  BY DEF HandleView
<1> QED
  BY <1>1, HandleMembershipShape, SendLocalArpCacheShape

\* The claims and preferences of any well-formed state message, from whatever
\* member index, leave tables and lists of members of their types.
LEMMA MergeClaimsShape ==
  ASSUME NEW self, NEW s, Shape(self, s), NEW m \in StateMessage
  PROVE  Shape(self, MergeClaims(s, m))
<1> DEFINE C     == DOMAIN m.claims
           fresh == {v \in C : s.owner[v] = NoAddr}
           lost  == {v \in C \ fresh : s.prio[v] \in {PREFER_CLAIMED, m.claims[v]}}
           won   == {v \in C \ (fresh \cup lost) :
                       s.prio[v] = CLAIMED /\ m.claims[v] > PREFER}
           released == (IF m.from = s.me THEN lost ELSE {})
                         \cup {v \in won : s.owner[v] = s.me}
           ip    == [s.ip EXCEPT ![m.idx] = m.from]
           owner == [v \in Vip |-> IF v \in fresh \cup won THEN m.from ELSE s.owner[v]]
           prio  == [v \in Vip |-> IF v \in fresh \cup won THEN m.claims[v] ELSE s.prio[v]]
           load(k) == (IF k = m.idx THEN Cardinality(C) - Cardinality(lost) ELSE s.num[k])
                        - Load(s.owner, won, ip[k])
           num   == [k \in DOMAIN s.num |-> load(k)]
           oldOwner == [v \in Vip |-> IF v \in lost \cup won THEN owner[v] ELSE s.oldOwner[v]]
           oldPrio  == [v \in Vip |-> IF v \in lost \cup won THEN prio[v] ELSE s.oldPrio[v]]
           base    == Release(s, released)
           claimed == [base EXCEPT !.ip = ip, !.num = num, !.owner = owner, !.prio = prio,
                                   !.oldOwner = oldOwner, !.oldPrio = oldPrio]
           posted  == PostRelease(claimed, released)
           wanted  == {v \in m.prefer : prio[v] < PREFER}
           owner2  == [v \in Vip |-> IF v \in wanted THEN m.from ELSE owner[v]]
           prio2   == [v \in Vip |-> IF v \in wanted THEN PREFER ELSE prio[v]]
<1>1. m.from \in AnyAddress /\ m.claims \in [C -> Priority] /\ C \in SUBSET Vip
  BY DEF StateMessage, Claims, AnyAddress
<1>2. /\ lost \in SUBSET Vip /\ won \in SUBSET Vip /\ released \in SUBSET Vip
  BY <1>1
<1>3. ip \in Seq(AnyAddress) /\ DOMAIN ip = DOMAIN s.ip
  <2>1. s.ip \in [DOMAIN s.ip -> AnyAddress]
    BY SeqFunction DEF Shape, DaemonType
  <2>2. ip \in [DOMAIN s.ip -> AnyAddress]
    BY <1>1, <2>1
  <2> QED
    BY <2>2, FunctionSeq DEF Shape, DaemonType
<1>4. owner \in [Vip -> AnyAddress] /\ prio \in [Vip -> Priority]
  BY <1>1 DEF Shape, DaemonType
<1>5. oldOwner \in [Vip -> AnyAddress] /\ oldPrio \in [Vip -> Priority]
  <2> HIDE DEF owner, prio
  <2> QED
    BY <1>4 DEF Shape, DaemonType
<1>6. num \in Seq(Int) /\ DOMAIN num = DOMAIN s.num
  <2>1. \A k \in DOMAIN s.num : load(k) \in Int
    <3>1. ASSUME NEW k \in DOMAIN s.num PROVE s.num[k] \in Int
      BY DEF Shape, DaemonType
    <3>2. Cardinality(C) \in Int /\ Cardinality(lost) \in Int
      BY <1>1, <1>2, VipFinite
    <3>3. ASSUME NEW k PROVE Load(s.owner, won, ip[k]) \in Int
      BY <1>2, LoadNat
    <3> HIDE DEF C, lost, won, ip
    <3> QED
      BY <3>1, <3>2, <3>3
  <2> HIDE DEF load
  <2>2. num \in [DOMAIN s.num -> Int]
    BY <2>1
  <2> QED
    BY <2>2, FunctionSeq DEF Shape, DaemonType
<1>7. Shape(self, base) /\ base.ip = s.ip /\ base.num = s.num
  BY ZenonT(60), <1>2, AcquireShape DEF Release, Shape, DaemonType
<1>8. Shape(self, claimed)
  <2> HIDE DEF base, ip, num, owner, prio, oldOwner, oldPrio
  <2> QED
    BY <1>3, <1>4, <1>5, <1>6, <1>7 DEF Shape, DaemonType
<1>9. Shape(self, posted)
  BY <1>8, PostReleaseShape
<1>10. owner2 \in [Vip -> AnyAddress] /\ prio2 \in [Vip -> Priority]
  <2> HIDE DEF owner, prio
  <2> QED
    BY <1>1, <1>4, PriorityType
<1>11. Shape(self, [posted EXCEPT !.owner = owner2, !.prio = prio2])
  <2> HIDE DEF posted, owner2, prio2
  <2> QED
    BY <1>9, <1>10 DEF Shape, DaemonType
<1>12. MergeClaims(s, m) = [posted EXCEPT !.owner = owner2, !.prio = prio2]
  BY DEF MergeClaims
<1> QED
  BY <1>11, <1>12

\* The end of Handle_state, after the claims, keeps every type.
LEMMA CountStateShape ==
  ASSUME NEW self, NEW s, Shape(self, s), NEW t \in CountState(s)
  PROVE  Shape(self, t)
<1>1. Shape(self, [s EXCEPT !.pending = @ - 1])
  <2>1. s.pending - 1 \in Int
    BY DEF Shape, DaemonType
  <2> QED
    BY <2>1 DEF Shape, DaemonType
<1>2. Shape(self, [[s EXCEPT !.pending = @ - 1] EXCEPT !.state = "BOOT"])
  BY <1>1 DEF Shape, DaemonType, DaemonState
<1> QED
  BY <1>1, <1>2, ShiftToRunShape DEF CountState

\* Handle_state keeps every type, for state messages of this view and of others.
LEMMA HandleStateShape ==
  ASSUME NEW self, NEW s, Shape(self, s), NEW m \in StateMessage, NEW t \in HandleState(s, m)
  PROVE  Shape(self, t)
<1> DEFINE merged == MergeClaims(s, m)
<1>1. Shape(self, merged)
  BY MergeClaimsShape
<1>2. CASE m.gid # s.gid
  BY <1>2 DEF HandleState
<1>3. CASE m.gid = s.gid
  <2>1. PICK u \in IF ~s.mat /\ m.mat THEN HandleMature(merged) ELSE {merged} :
           t \in CountState(u)
    BY <1>3 DEF HandleState
  <2>2. Shape(self, u)
    BY <1>1, <2>1, HandleMatureShape
  <2> QED
    BY <2>1, <2>2, CountStateShape
<1> QED
  BY <1>2, <1>3

-----------------------------------------------------------------------------
(* Balancing. *)

\* An interface that some move names has a last move, an index of the message.
LEMMA MovesOfLast ==
  ASSUME NEW moves \in Seq(Move), NEW v, MovesOf(moves, v) # {}
  PROVE  /\ Max(MovesOf(moves, v)) \in MovesOf(moves, v)
         /\ Max(MovesOf(moves, v)) \in 1..Len(moves)
<1>1. Len(moves) \in Nat /\ MovesOf(moves, v) \in SUBSET (1..Len(moves))
  BY DEF MovesOf
<1> QED
  BY <1>1, HasMax

\* The loop of Handle_balance keeps every type, for any sequence of moves.
LEMMA ApplyMovesShape ==
  ASSUME NEW self, NEW s, Shape(self, s), NEW moves \in Seq(Move)
  PROVE  Shape(self, ApplyMoves(s, moves))
<1> DEFINE touched == {v \in Vip : MovesOf(moves, v) # {}}
           final(v) == moves[Max(MovesOf(moves, v))].to
           owner   == [v \in Vip |-> IF v \in touched THEN final(v) ELSE s.owner[v]]
           concern(v) == {i \in MovesOf(moves, v) :
                            s.me \in {moves[i].to, OwnerFound(s, moves, i)}}
           leftUp(v) == IF concern(v) = {} THEN v \in s.up
                        ELSE OwnerFound(s, moves, Max(concern(v))) # s.me
           taken   == {i \in 1..Len(moves) : OwnerFound(s, moves, i) = s.me}
           given   == {i \in 1..Len(moves) : moves[i].to = s.me}
           up      == {v \in Vip : leftUp(v)}
           mine    == s.mine + Cardinality(given) - Cardinality(taken)
           load(k) == s.num[k] + Load(owner, touched, s.ip[k])
                               - Load(s.owner, touched, s.ip[k])
           num     == [k \in DOMAIN s.num |-> load(k)]
           moved   == [s EXCEPT !.owner = owner, !.up = up, !.mine = mine, !.num = num]
<1>1. owner \in [Vip -> AnyAddress]
  <2>1. ASSUME NEW v \in touched PROVE final(v) \in AnyAddress
    <3>1. Max(MovesOf(moves, v)) \in 1..Len(moves)
      BY MovesOfLast
    <3>2. moves[Max(MovesOf(moves, v))] \in Move
      BY <3>1
    <3> QED
      BY <3>2 DEF Move, AnyAddress
  <2> HIDE DEF final
  <2> QED
    BY <2>1 DEF Shape, DaemonType
<1>2. mine \in Int
  <2>1. IsFiniteSet(1..Len(moves)) /\ given \in SUBSET (1..Len(moves))
         /\ taken \in SUBSET (1..Len(moves))
    BY FS_Interval
  <2>2. Cardinality(given) \in Int /\ Cardinality(taken) \in Int
    <3> HIDE DEF given, taken
    <3>1. IsFiniteSet(given) /\ IsFiniteSet(taken)
      BY <2>1, FS_Subset
    <3> QED
      BY <3>1, FS_CardinalityType
  <2> HIDE DEF given, taken
  <2> QED
    BY <2>2 DEF Shape, DaemonType
<1>3. num \in Seq(Int) /\ DOMAIN num = DOMAIN s.num
  <2>1. \A k \in DOMAIN s.num : load(k) \in Int
    <3>1. ASSUME NEW k \in DOMAIN s.num PROVE s.num[k] \in Int
      BY DEF Shape, DaemonType
    <3>2. touched \in SUBSET Vip
      OBVIOUS
    <3>3. ASSUME NEW k
          PROVE  /\ Load(owner, touched, s.ip[k]) \in Int
                 /\ Load(s.owner, touched, s.ip[k]) \in Int
      BY <3>2, LoadNat
    <3> HIDE DEF touched, owner
    <3> QED
      BY <3>1, <3>3
  <2> HIDE DEF load
  <2>2. num \in [DOMAIN s.num -> Int]
    BY <2>1
  <2> QED
    BY <2>2, FunctionSeq DEF Shape, DaemonType
<1>4. up \in SUBSET Vip
  OBVIOUS
<1>5. Shape(self, moved)
  <2> HIDE DEF owner, up, mine, num
  <2> QED
    BY <1>1, <1>2, <1>3, <1>4 DEF Shape, DaemonType
<1>6. ApplyMoves(s, moves) = PostRelease(moved, taken)
  BY DEF ApplyMoves
<1> QED
  BY <1>5, <1>6, PostReleaseShape

\* Handle_balance keeps every type, for any message, however short its count.
LEMMA HandleBalanceShape ==
  ASSUME NEW self, NEW s, Shape(self, s), NEW m \in BalanceMessage
  PROVE  Shape(self, HandleBalance(s, m))
<1>1. m.moves \in Seq(Move) /\ m.count \in Nat
  BY DEF BalanceMessage
<1>2. m.count < Len(m.moves) => SubSeq(m.moves, 1, m.count) \in Seq(Move)
  BY <1>1
<1> QED
  BY <1>1, <1>2, ApplyMovesShape DEF HandleBalance

\* Balance builds a well-formed balance message.
LEMMA BalanceMessagesType ==
  ASSUME NEW self, NEW s, Shape(self, s), NEW m \in BalanceMessages(s)
  PROVE  m \in BalanceMessage
<1>1. PICK c \in 0..BalanceRate, p \in UNION {[1..k -> Move] : k \in 0..BalanceRate} :
         m = [kind |-> "balance", count |-> c, moves |-> p]
  BY DEF BalanceMessages
<1>. PICK k \in 0..BalanceRate : p \in [1..k -> Move]
  OBVIOUS
<1>2. c \in Nat /\ k \in Nat
  BY ConfigAssumption
<1>3. p \in Seq(Move)
  BY <1>2
<1> QED
  BY <1>1, <1>2, <1>3 DEF BalanceMessage

\* A balance message that leaves the tail of an older one behind it in Mess is
\* still a list of moves.
LEMMA InBufferType ==
  ASSUME NEW self, NEW s, Shape(self, s), NEW m \in BalanceMessage
  PROVE  InBuffer(s, m) \in BalanceMessage
<1>1. m.moves \in Seq(Move) /\ m \in [kind : {"balance"}, count : Nat, moves : Seq(Move)]
  BY DEF BalanceMessage
<1>2. s.mess.kind = "balance" => s.mess.moves \in Seq(Move)
  BY DEF Shape, DaemonType, Buffer, BalanceMessage, StateMessage, Junk
<1>3. ASSUME s.mess.kind = "balance", Len(s.mess.moves) > Len(m.moves)
      PROVE  m.moves \o SubSeq(s.mess.moves, Len(m.moves) + 1, Len(s.mess.moves)) \in Seq(Move)
  BY <1>1, <1>2, <1>3
<1> QED
  BY <1>1, <1>3 DEF InBuffer, BalanceMessage

-----------------------------------------------------------------------------
(* Handle_network. *)

GroupMessage == ViewMessage \cup Message

\* Handle_network keeps every type for every kind of message.
LEMMA DispatchShape ==
  ASSUME NEW self, NEW s, Shape(self, s), NEW m \in GroupMessage, NEW t \in Dispatch(s, m)
  PROVE  Shape(self, t)
<1>1. CASE m \in ViewMessage
  <2>1. m.kind = "view"
    BY <1>1 DEF ViewMessage
  <2> QED
    BY <1>1, <2>1, HandleViewShape DEF Dispatch
<1>2. CASE m \in StateMessage
  <2>1. m.kind = "state"
    BY <1>2 DEF StateMessage
  <2> QED
    BY <1>2, <2>1, HandleStateShape DEF Dispatch
<1>3. CASE m \in BalanceMessage
  <2>1. m.kind = "balance"
    BY <1>3 DEF BalanceMessage
  <2> QED
    BY <1>3, <2>1, HandleBalanceShape DEF Dispatch
<1>4. CASE m = MaturingMessage
  BY <1>4, HandleMatureShape DEF Dispatch, MaturingMessage
<1>5. CASE m = ArpMessage
  BY <1>5 DEF Dispatch, ArpMessage
<1> QED
  BY <1>1, <1>2, <1>3, <1>4, <1>5 DEF GroupMessage, Message

\* What SP_receive puts into Mess is a message that the handlers know.
LEMMA BodyType ==
  ASSUME NEW self, NEW s, Shape(self, s), NEW m \in GroupMessage
  PROVE  /\ InBuffer(s, m) \in GroupMessage
         /\ m.kind \in MessageKind
         /\ m.kind \in StaleKinds => InBuffer(s, m) \in Buffer
<1>1. CASE m \in ViewMessage
  <2>1. m.kind = "view" /\ "view" \notin StaleKinds
    BY <1>1, ConfigAssumption DEF ViewMessage
  <2> QED
    BY <1>1, <2>1 DEF InBuffer, GroupMessage, MessageKind
<1>2. CASE m \in StateMessage
  <2>1. m.kind = "state"
    BY <1>2 DEF StateMessage
  <2> QED
    BY <1>2, <2>1 DEF InBuffer, GroupMessage, Message, MessageKind, Buffer
<1>3. CASE m \in BalanceMessage
  <2>1. m.kind = "balance"
    BY <1>3 DEF BalanceMessage
  <2>2. InBuffer(s, m) \in BalanceMessage
    BY <1>3, InBufferType
  <2> QED
    BY <2>1, <2>2 DEF GroupMessage, Message, MessageKind, Buffer
<1>4. CASE m = MaturingMessage
  <2>1. m.kind = "mature" /\ "mature" \notin StaleKinds
    BY <1>4, ConfigAssumption DEF MaturingMessage
  <2> QED
    BY <1>4, <2>1 DEF InBuffer, GroupMessage, Message, MessageKind
<1>5. CASE m = ArpMessage
  <2>1. m.kind = "arp" /\ "arp" \notin StaleKinds
    BY <1>5, ConfigAssumption DEF ArpMessage
  <2> QED
    BY <1>5, <2>1 DEF InBuffer, GroupMessage, Message, MessageKind
<1> QED
  BY <1>1, <1>2, <1>3, <1>4, <1>5 DEF GroupMessage, Message

\* What SP_receive leaves in Service_type, Mess_type and Mess.
Received(s, m) ==
  [s EXCEPT !.last = m.kind,
            !.mess = CASE m.kind = "mature"     -> @
                       [] m.kind \in StaleKinds -> InBuffer(s, m)
                       [] OTHER                 -> Junk]

\* SP_receive keeps every type.
LEMMA ReceivedShape ==
  ASSUME NEW self, NEW s, Shape(self, s), NEW m \in GroupMessage
  PROVE  Shape(self, Received(s, m))
<1> DEFINE mess == CASE m.kind = "mature"     -> s.mess
                     [] m.kind \in StaleKinds -> InBuffer(s, m)
                     [] OTHER                 -> Junk
<1>1. mess \in Buffer
  <2>1. s.mess \in Buffer /\ Junk \in Buffer
    BY DEF Shape, DaemonType, Buffer
  <2>2. m.kind \in StaleKinds => InBuffer(s, m) \in Buffer
    BY BodyType
  <2> QED
    BY <2>1, <2>2
<1>2. m.kind \in MessageKind
  BY BodyType
<1>3. Received(s, m) = [s EXCEPT !.last = m.kind, !.mess = mess]
  BY DEF Received, Shape, DaemonType
<1> HIDE DEF mess
<1> QED
  BY ZenonT(60), <1>1, <1>2, <1>3 DEF Shape, DaemonType

\* Receiving and handling a message keeps every type.
LEMMA ReceiveShape ==
  ASSUME NEW self, NEW s, Shape(self, s), NEW m \in GroupMessage, NEW t \in Receive(s, m)
  PROVE  Shape(self, t)
<1>1. t \in Dispatch(Received(s, m), InBuffer(s, m))
  BY DEF Receive, Received
<1> QED
  BY <1>1, ReceivedShape, BodyType, DispatchShape

\* Sig_handler keeps every type.
LEMMA SignalShape ==
  ASSUME NEW self, NEW s, Shape(self, s)
  PROVE  Shape(self, Signal(s))
<1>1. Shape(self, CleanUp(s))
  BY CleanUpShape
<1> QED
  BY <1>1, SessionOutputs DEF Shape, DaemonType, Signal, ExitReason

\* The dispatch after an error of SP_receive, on the globals of the message
\* before, keeps every type.
LEMMA DispatchStaleShape ==
  ASSUME NEW self, NEW s, Shape(self, s), NEW t \in DispatchStale(s)
  PROVE  Shape(self, t)
<1>0. s.mess.kind \notin {"none", "view", "mature", "arp"}
  BY DEF Shape, DaemonType, Buffer, StateMessage, BalanceMessage, Junk
<1>1. CASE s.last = "none"
  BY <1>0, <1>1, FatalExitShape DEF DispatchStale
<1>2. CASE s.last = "view"
  <2>1. [kind |-> "view", gid |-> 0, n |-> Len(s.ip), idx |-> s.idx] \in ViewMessage
    BY DEF ViewMessage, Shape, DaemonType
  <2> QED
    BY <1>0, <1>2, <2>1, HandleViewShape DEF DispatchStale
<1>3. CASE s.last = "mature"
  BY <1>0, <1>3, HandleMatureShape DEF DispatchStale
<1>4. CASE s.last \notin {"none", "view", "mature", "arp"} /\ s.last = s.mess.kind
  <2>1. s.mess \in GroupMessage
    BY <1>4 DEF Shape, DaemonType, MessageKind, Buffer, Junk, GroupMessage, Message
  <2> QED
    BY <1>4, <2>1, DispatchShape DEF DispatchStale
<1>5. CASE s.last \notin {"none", "view", "mature", "arp"} /\ s.last # s.mess.kind
  BY <1>5 DEF DispatchStale
<1>6. CASE s.last = "arp"
  BY <1>0, <1>6, FatalExitShape, SignalShape DEF DispatchStale
<1> QED
  BY <1>1, <1>2, <1>3, <1>4, <1>5, <1>6

\* The error branch of Handle_network keeps every type.
LEMMA ReceiveErrorShape ==
  ASSUME NEW self, NEW s, Shape(self, s), NEW t \in ReceiveError(s)
  PROVE  Shape(self, t)
<1>1. PICK u \in AfterSpreadError(s) : t \in IF u.exit = "no" THEN DispatchStale(u) ELSE {u}
  BY DEF ReceiveError
<1> QED
  BY <1>1, AfterSpreadErrorShape, DispatchStaleShape

-----------------------------------------------------------------------------
(* Timers, the operator and signals. *)

\* Taking an event out of the queue keeps every type.
LEMMA TimersOff ==
  ASSUME NEW self, NEW s, Shape(self, s)
  PROVE  /\ Shape(self, [s EXCEPT !.tMature = FALSE]) /\ Shape(self, [s EXCEPT !.tRetry = FALSE])
         /\ Shape(self, [s EXCEPT !.tArp = FALSE])    /\ Shape(self, [s EXCEPT !.tBalance = FALSE])
  BY DEF Shape, DaemonType

\* Turn_mature, the retry of Spread_reconnect and the ARP timer keep every type.
LEMMA TimerShape ==
  ASSUME NEW self, NEW s, Shape(self, s), NEW t \in TurnMature(s) \cup RetryTimer(s) \cup ArpTimer(s)
  PROVE  Shape(self, t)
<1>1. MaturingMessage \in Message
  BY DEF Message
<1> QED
  BY <1>1, TimersOff, MulticastShape, SpreadReconnectShape, SendLocalArpCacheShape
  DEF TurnMature, RetryTimer, ArpTimer

\* Queueing Balance again keeps every type.
LEMMA BalanceAgainShape ==
  ASSUME NEW self, NEW s, Shape(self, s)
  PROVE  Shape(self, BalanceAgain(s))
  BY ConfigAssumption DEF Shape, DaemonType, BalanceAgain

\* Balance keeps every type.
LEMMA BalanceTimerShape ==
  ASSUME NEW self, NEW s, Shape(self, s), NEW t \in BalanceTimer(s)
  PROVE  Shape(self, t)
<1> DEFINE fired == [s EXCEPT !.tBalance = FALSE]
           buffer(m) == IF "balance" \in StaleKinds THEN InBuffer(s, m) ELSE Junk
           filled(m) == [fired EXCEPT !.mess = buffer(m)]
<1>1. Shape(self, fired)
  BY TimersOff
<1>2. CASE s.idx # 1 \/ s.state # "RUN" \/ BalanceMessages(s) = {}
  BY <1>1, <1>2, BalanceAgainShape DEF BalanceTimer
<1>3. CASE s.idx = 1 /\ s.state = "RUN" /\ BalanceMessages(s) # {}
  <2>0. PICK m \in BalanceMessages(s) :
           \E u \in Multicast(filled(m), m) :
             t = IF u.exit = "no" THEN BalanceAgain([u EXCEPT !.state = "RUN"]) ELSE u
    BY <1>3 DEF BalanceTimer
  <2>1. PICK u \in Multicast(filled(m), m) :
           t = IF u.exit = "no" THEN BalanceAgain([u EXCEPT !.state = "RUN"]) ELSE u
    BY <2>0
  <2>2. m \in BalanceMessage /\ m \in Message
    BY BalanceMessagesType DEF Message
  <2>3. buffer(m) \in Buffer
    BY <2>2, InBufferType DEF Buffer
  <2>4. Shape(self, filled(m))
    <3> HIDE DEF fired, buffer
    <3> QED
      BY <1>1, <2>3 DEF Shape, DaemonType
  <2>5. Shape(self, u)
    BY <2>1, <2>2, <2>4, MulticastShape
  <2>6. Shape(self, [u EXCEPT !.state = "RUN"])
    BY <2>5 DEF Shape, DaemonType, DaemonState
  <2> QED
    BY <2>1, <2>5, <2>6, BalanceAgainShape
<1> QED
  BY <1>2, <1>3

\* The start of main keeps every type.
LEMMA StartShape ==
  ASSUME NEW self, NEW s, Shape(self, s), NEW t \in Start(s)
  PROVE  Shape(self, t)
<1>0. PICK c \in SpreadReconnect(s) :
         \E u \in SendLocalArpCache(c) : t = [u EXCEPT !.tArp = (u.exit = "no")]
  BY DEF Start
<1>1. PICK u \in SendLocalArpCache(c) : t = [u EXCEPT !.tArp = (u.exit = "no")]
  BY <1>0
<1>2. Shape(self, u)
  BY SpreadReconnectShape, SendLocalArpCacheShape
<1> QED
  BY ZenonT(60), <1>1, <1>2 DEF Shape, DaemonType

\* The service state changes of wackatrl keep every type.
LEMMA ServiceShape ==
  ASSUME NEW self, NEW s, Shape(self, s), NEW t \in ServiceFailure(s) \cup ServiceSuccess(s)
  PROVE  Shape(self, t)
<1>1. /\ Shape(self, [s EXCEPT !.lock = TRUE, !.mbox = FALSE])
      /\ Shape(self, [s EXCEPT !.lock = FALSE])
  BY DEF Shape, DaemonType
<1> QED
  BY <1>1, CleanUpShape, SpreadReconnectShape DEF ServiceFailure, ServiceSuccess

-----------------------------------------------------------------------------

\* The outputs of a step are handed over at its end.
LEMMA OutboxOff ==
  ASSUME NEW self, NEW s, Shape(self, s)
  PROVE  Shape(self, [s EXCEPT !.out = <<>>])
<1>1. <<>> \in Seq(Output)
  OBVIOUS
<1> QED
  BY <1>1 DEF Shape, DaemonType

\* What a handler sent as its state message is one.
LEMMA SentStateType ==
  ASSUME NEW self, NEW t, Shape(self, t), Sent(t, "state") # {}
  PROVE  t.out[CHOOSE i \in Sent(t, "state") : TRUE] \in StateMessage
<1> DEFINE i == CHOOSE i \in Sent(t, "state") : TRUE
<1>1. i \in Sent(t, "state")
  OBVIOUS
<1> HIDE DEF i
<1>2. t.out[i] \in Output /\ t.out[i].kind = "state"
  BY <1>1 DEF Sent, Shape, DaemonType
<1>3. t.out[i] \in StateMessage
  BY <1>2 DEF Output, Message, BalanceMessage, MaturingMessage, ArpMessage, Leave, Join
<1> QED
  BY <1>3 DEF i

-----------------------------------------------------------------------------
(* What the helpers of the handlers leave alone. *)

\* The session, the view and the automaton are the same.
Same(s, t) ==
  /\ t.mbox = s.mbox /\ t.exit = s.exit /\ t.out = s.out
  /\ t.gid = s.gid /\ t.idx = s.idx /\ DOMAIN t.ip = DOMAIN s.ip
  /\ t.mat = s.mat /\ t.state = s.state /\ t.pending = s.pending

\* The allocation tables and the count of the interfaces are the same.
SameTables(s, t) ==
  /\ t.owner = s.owner /\ t.prio = s.prio /\ t.mine = s.mine
  /\ t.oldOwner = s.oldOwner /\ t.oldPrio = s.oldPrio

\* The static variables that the lemmas below speak of exist.
Named(s) == {"mbox", "exit", "out", "gid", "idx", "ip", "mat", "state", "pending",
             "up", "mine", "num", "prio", "owner", "oldMat", "oldOwner", "oldPrio"}
              \subseteq DOMAIN s

\* A daemon has its variables.
LEMMA ShapeNamed == ASSUME NEW self, NEW s, Shape(self, s) PROVE Named(s)
  BY DEF Shape, Named, DaemonType

\* Acquire and Release touch the interfaces and their count only.
LEMMA AcquireSame ==
  ASSUME NEW s, Named(s), NEW V
  PROVE  /\ Named(Acquire(s, V)) /\ Same(s, Acquire(s, V))
         /\ Named(Release(s, V)) /\ Same(s, Release(s, V))
         /\ Release(s, V).up = s.up \ V
         /\ Acquire(s, V).ip = s.ip /\ Release(s, V).ip = s.ip
  BY DEF Same, Named, Acquire, Release

\* Handle_Post_Release touches the interfaces only, and only with NEEDS_FORCE_REUP.
LEMMA PostReleaseSame ==
  ASSUME NEW s, Named(s), NEW released
  PROVE  /\ Named(PostRelease(s, released)) /\ Same(s, PostRelease(s, released))
         /\ ~ForceReup => PostRelease(s, released).up = s.up
         /\ PostRelease(s, released).ip = s.ip
  BY DEF Same, Named, PostRelease

\* Priority_claim neither leaves the session nor changes the automaton.
LEMMA PriorityClaimSame ==
  ASSUME NEW s, Named(s)
  PROVE  Same(s, PriorityClaim(s)) /\ PriorityClaim(s).ip = s.ip
<1> DEFINE P        == {v \in Vip : s.prio[v] = PREFER}
           acquired == {v \in P : s.owner[v] = s.me /\ s.oldOwner[v] # s.me}
           released == {v \in P : s.oldOwner[v] = s.me /\ s.owner[v] # s.me}
           base     == Release(Acquire(s, acquired), released)
<1>1. PICK num, prio, oldMat :
        PriorityClaim(s) =
          PostRelease([base EXCEPT !.num = num, !.prio = prio, !.oldMat = oldMat], released)
  BY Zenon DEF PriorityClaim
<1>2. Named(base) /\ Same(s, base) /\ base.ip = s.ip
  BY AcquireSame DEF Same
<1> DEFINE claimed == [base EXCEPT !.num = num, !.prio = prio, !.oldMat = oldMat]
<1>3. Named(claimed) /\ Same(base, claimed) /\ claimed.ip = base.ip
  <2> HIDE DEF base
  <2> QED
    BY <1>2 DEF Named, Same
<1> HIDE DEF base, claimed
<1>4. /\ Same(claimed, PostRelease(claimed, released))
      /\ PostRelease(claimed, released).ip = claimed.ip
  BY <1>3, PostReleaseSame
<1> QED
  BY <1>1, <1>2, <1>3, <1>4 DEF Same, claimed

\* Claim_unclaimed neither leaves the session nor changes the automaton.
LEMMA ClaimUnclaimedSame ==
  ASSUME NEW s, Named(s), NEW t \in ClaimUnclaimed(s)
  PROVE  Same(s, t) /\ t.ip = s.ip
<1> DEFINE U == {v \in Vip : s.prio[v] = UNCLAIMED}
<1>1. PICK f \in [U -> DOMAIN s.num] :
         t = [Acquire(s, {v \in U : f[v] = s.idx}) EXCEPT
                !.num   = [k \in DOMAIN @ |-> @[k] + Load(f, U, k)],
                !.owner = [v \in Vip |-> IF v \in U THEN s.ip[f[v]] ELSE @[v]],
                !.prio  = [v \in Vip |-> IF v \in U THEN CLAIMED ELSE @[v]]]
  BY DEF ClaimUnclaimed
<1> DEFINE base  == Acquire(s, {v \in U : f[v] = s.idx})
           num   == [k \in DOMAIN base.num |-> base.num[k] + Load(f, U, k)]
           owner == [v \in Vip |-> IF v \in U THEN s.ip[f[v]] ELSE base.owner[v]]
           prio  == [v \in Vip |-> IF v \in U THEN CLAIMED ELSE base.prio[v]]
<1>2. Named(base) /\ Same(s, base) /\ base.ip = s.ip
  BY AcquireSame
<1>3. t = [base EXCEPT !.num = num, !.owner = owner, !.prio = prio]
  <2>1. {"num", "owner", "prio"} \subseteq DOMAIN base
    BY <1>2 DEF Named
  <2> HIDE DEF U
  <2> QED
    BY <1>1, <2>1
<1> HIDE DEF base, num, owner, prio
<1> QED
  BY <1>2, <1>3 DEF Named, Same

\* The shift to RUN changes the state of the automaton and nothing else of it.
LEMMA ShiftToRunSame ==
  ASSUME NEW self, NEW s, Shape(self, s), NEW t \in ShiftToRun(s)
  PROVE  t.state = "RUN" /\ Same([s EXCEPT !.state = "RUN"], t) /\ t.ip = s.ip
<1>1. PICK u \in ClaimUnclaimed(PriorityClaim(s)) :
         t = [u EXCEPT !.state = "RUN", !.tBalance = TRUE]
  BY DEF ShiftToRun
<1>2. Shape(self, PriorityClaim(s)) /\ Shape(self, u)
  BY PriorityClaimShape, ClaimUnclaimedShape
<1>3. /\ Same(s, PriorityClaim(s)) /\ Same(PriorityClaim(s), u)
      /\ PriorityClaim(s).ip = s.ip /\ u.ip = PriorityClaim(s).ip
  BY <1>2, ShapeNamed, PriorityClaimSame, ClaimUnclaimedSame
<1>4. Named(u) /\ Named(s)
  BY <1>2, ShapeNamed
<1> QED
  BY <1>1, <1>3, <1>4 DEF Same, Named

\* Merging the claims of a state message leaves the automaton alone and, without
\* NEEDS_FORCE_REUP, only takes interfaces down.
LEMMA MergeClaimsSame ==
  ASSUME NEW s, Named(s), NEW m
  PROVE  /\ Same(s, MergeClaims(s, m))
         /\ ~ForceReup => MergeClaims(s, m).up \subseteq s.up
         /\ MergeClaims(s, m).ip = [s.ip EXCEPT ![m.idx] = m.from]
<1> DEFINE C     == DOMAIN m.claims
           fresh == {v \in C : s.owner[v] = NoAddr}
           lost  == {v \in C \ fresh : s.prio[v] \in {PREFER_CLAIMED, m.claims[v]}}
           won   == {v \in C \ (fresh \cup lost) :
                       s.prio[v] = CLAIMED /\ m.claims[v] > PREFER}
           released == (IF m.from = s.me THEN lost ELSE {})
                         \cup {v \in won : s.owner[v] = s.me}
           ip    == [s.ip EXCEPT ![m.idx] = m.from]
           owner == [v \in Vip |-> IF v \in fresh \cup won THEN m.from ELSE s.owner[v]]
           prio  == [v \in Vip |-> IF v \in fresh \cup won THEN m.claims[v] ELSE s.prio[v]]
           num   == [k \in DOMAIN s.num |->
                       (IF k = m.idx THEN Cardinality(C) - Cardinality(lost) ELSE s.num[k])
                         - Load(s.owner, won, ip[k])]
           oldOwner == [v \in Vip |-> IF v \in lost \cup won THEN owner[v] ELSE s.oldOwner[v]]
           oldPrio  == [v \in Vip |-> IF v \in lost \cup won THEN prio[v] ELSE s.oldPrio[v]]
           base    == Release(s, released)
           claimed == [base EXCEPT !.ip = ip, !.num = num, !.owner = owner, !.prio = prio,
                                   !.oldOwner = oldOwner, !.oldPrio = oldPrio]
           posted  == PostRelease(claimed, released)
           wanted  == {v \in m.prefer : prio[v] < PREFER}
           owner2  == [v \in Vip |-> IF v \in wanted THEN m.from ELSE owner[v]]
           prio2   == [v \in Vip |-> IF v \in wanted THEN PREFER ELSE prio[v]]
<1>1. MergeClaims(s, m) = [posted EXCEPT !.owner = owner2, !.prio = prio2]
  BY DEF MergeClaims
<1>2. DOMAIN ip = DOMAIN s.ip
  OBVIOUS
<1>3. Named(base) /\ Same(s, base) /\ base.up \subseteq s.up
  BY AcquireSame
<1>4. Named(claimed) /\ Same(base, claimed) /\ claimed.up = base.up /\ claimed.ip = ip
  <2> HIDE DEF base, ip, num, owner, prio, oldOwner, oldPrio
  <2> QED
    BY <1>2, <1>3 DEF Named, Same
<1>5. /\ Named(posted) /\ Same(claimed, posted)
      /\ ~ForceReup => posted.up = claimed.up
      /\ posted.ip = claimed.ip
  <2> HIDE DEF claimed
  <2> QED
    BY <1>4, PostReleaseSame
<1> HIDE DEF base, claimed, posted, owner2, prio2
<1> QED
  BY <1>1, <1>3, <1>4, <1>5 DEF Same, Named

\* The moves of a balance message leave the automaton alone.
LEMMA ApplyMovesSame ==
  ASSUME NEW s, Named(s), NEW moves
  PROVE  Same(s, ApplyMoves(s, moves)) /\ ApplyMoves(s, moves).ip = s.ip
<1>1. PICK owner, up, mine, num, taken :
        ApplyMoves(s, moves) =
          PostRelease([s EXCEPT !.owner = owner, !.up = up, !.mine = mine, !.num = num], taken)
  BY Zenon DEF ApplyMoves
<1> DEFINE moved == [s EXCEPT !.owner = owner, !.up = up, !.mine = mine, !.num = num]
<1>2. Named(moved) /\ Same(s, moved) /\ moved.ip = s.ip
  BY DEF Named, Same
<1> HIDE DEF moved
<1>3. Same(moved, PostRelease(moved, taken)) /\ PostRelease(moved, taken).ip = moved.ip
  BY <1>2, PostReleaseSame
<1> QED
  BY <1>1, <1>2, <1>3 DEF Same, moved

-----------------------------------------------------------------------------
(* Sessions.  A handler that ended or began a session has nothing up, unless it  *)
(* crashed, nothing in its tables, and no maturity in the new session.           *)

Ended(s, t) ==
  /\ t.out # <<>> /\ t.out[1] \in {Leave, Join}
  /\ t.exit = "no" => t.owner = Nobody /\ t.oldOwner = Nobody
  /\ t.exit \in {"no", "clean"} => t.up = {}
  /\ t.up \in {{}, s.up}
  /\ t.mbox => ~t.mat /\ t.mine = 0

\* Clean_up leaves no interface up and nothing in the tables.
LEMMA CleanUpDown ==
  ASSUME NEW self, NEW s, Shape(self, s)
  PROVE  CleanUp(s).up = {} /\ CleanUp(s).owner = Nobody /\ CleanUp(s).oldOwner = Nobody
  BY DEF Shape, DaemonType, CleanUp, Release

\* Spread_reconnect leaves through Clean_up, whether it connects or not.
LEMMA ReconnectEnds ==
  ASSUME NEW self, NEW s, Shape(self, s), NEW t \in SpreadReconnect(s), NEW r
  PROVE  Ended(r, t)
<1> DEFINE base == CleanUp(s)
<1>1. Shape(self, base) /\ base.up = {} /\ base.owner = Nobody /\ base.oldOwner = Nobody
  BY CleanUpShape, CleanUpDown
<1> DEFINE gone   == [base EXCEPT !.mbox = FALSE, !.out = <<Leave>>]
           retry  == [gone EXCEPT !.tRetry = TRUE]
           joined == [gone EXCEPT !.mbox = TRUE, !.out = <<Join>>, !.state = "BOOT",
                                  !.mat = FALSE, !.oldMat = FALSE,
                                  !.tMature = TRUE, !.mine = 0]
<1>2. t \in {retry, joined}
  BY DEF SpreadReconnect
<1>3. Ended(r, retry) /\ Ended(r, joined)
  <2> HIDE DEF base
  <2> QED
    BY <1>1 DEF Ended, Shape, DaemonType
<1> QED
  BY <1>2, <1>3

\* So does the error branch, unless it exits at once.
LEMMA ErrorEnds ==
  ASSUME NEW self, NEW s, Shape(self, s), NEW t \in AfterSpreadError(s)
  PROVE  Ended(s, t)
<1>1. Ended(s, FatalExit(s))
  BY DEF FatalExit, Ended, Shape, DaemonType
<1> QED
  BY <1>1, ReconnectEnds DEF AfterSpreadError

\* A multicast appends its message or ends the session.
LEMMA MulticastEnds ==
  ASSUME NEW self, NEW s, Shape(self, s), NEW m, NEW t \in Multicast(s, m)
  PROVE  Ended(s, t) \/ (s.mbox /\ t = [s EXCEPT !.out = Append(s.out, m)])
<1>1. CASE ~s.mbox
  BY <1>1, ReconnectEnds DEF Multicast
<1>2. CASE s.mbox /\ t = [s EXCEPT !.out = Append(@, m)]
  BY <1>2 DEF Shape, DaemonType
<1>3. CASE s.mbox /\ t \in AfterSpreadError(s)
  BY <1>3, ErrorEnds
<1> QED
  BY <1>1, <1>2, <1>3 DEF Multicast

\* A handler that goes on to send does not take the end of the session back.
LEMMA EndedStays ==
  ASSUME NEW self, NEW s, NEW u, Shape(self, u), Ended(s, u), NEW m \in Message, NEW t \in Multicast(u, m)
  PROVE  Ended(s, t)
<1>1. ASSUME t = [u EXCEPT !.out = Append(u.out, m)] PROVE Ended(s, t)
  <2>1. u.out \in Seq(Output) /\ u.out # <<>> /\ m \in Output
    BY DEF Ended, Shape, DaemonType, Output
  <2>2. Append(u.out, m) # <<>> /\ Append(u.out, m)[1] = u.out[1]
    BY <2>1
  <2> QED
    BY <1>1, <2>2 DEF Ended, Shape, DaemonType
<1>2. ASSUME Ended(u, t) PROVE Ended(s, t)
  BY <1>2 DEF Ended
<1> QED
  BY <1>1, <1>2, MulticastEnds

\* What a handler did first does not matter as long as it left the interfaces alone.
LEMMA EndedFrom ==
  ASSUME NEW s, NEW u, u.up = s.up, NEW t, Ended(u, t)
  PROVE  Ended(s, t)
  BY DEF Ended

(***************************************************************************)
(* What a timer or a command leaves: the session ended, or the tables, the *)
(* automaton and what is up are as before, no state message was sent, and  *)
(* what is in the buffer was there before, unless balance messages stay.   *)
(***************************************************************************)
Kept(s, t) ==
  /\ SameSession(t) /\ Sent(t, "state") = {}
  /\ t.up = s.up /\ t.ip = s.ip
  /\ Same([s EXCEPT !.out = t.out], t)
  /\ SameTables(s, t) /\ t.num = s.num
  /\ "balance" \notin StaleKinds => t.mess \in {s.mess, Junk}

\* The first message a handler sends is neither a Leave nor a Join.
LEMMA FirstSend ==
  ASSUME NEW self, NEW s, Shape(self, s), s.out = <<>>, NEW m \in Message
  PROVE  LET t == [s EXCEPT !.out = Append(s.out, m)]
         IN  /\ SameSession(t) /\ t.out = <<m>>
             /\ m.kind # "state" => Sent(t, "state") = {}
<1> DEFINE t == [s EXCEPT !.out = Append(s.out, m)]
<1>1. t.out = <<m>>
  BY DEF Shape, DaemonType
<1>2. m.kind \notin {"leave", "join"}
  BY DEF Message, StateMessage, BalanceMessage, MaturingMessage, ArpMessage
<1>3. m # Leave /\ m # Join
  BY <1>2 DEF Leave, Join
<1> HIDE DEF t
<1>4. SameSession(t)
  BY <1>1, <1>3 DEF SameSession
<1>5. m.kind # "state" => Sent(t, "state") = {}
  BY <1>1 DEF Sent
<1> QED
  BY <1>1, <1>4, <1>5 DEF t

\* What a handler has sent stays sent, and appending neither ends nor begins a
\* session.
LEMMA AppendSends ==
  ASSUME NEW self, NEW s, Shape(self, s), NEW m \in Message
  PROVE  LET t == [s EXCEPT !.out = Append(s.out, m)]
         IN  /\ Sent(s, "mature") # {} \/ m.kind = "mature" => Sent(t, "mature") # {}
             /\ SameSession(t) <=> SameSession(s)
<1> DEFINE t == [s EXCEPT !.out = Append(s.out, m)]
<1>1. s.out \in Seq(Output) /\ m \in Output
  BY DEF Shape, DaemonType, Output
<1>2. t.out = Append(s.out, m)
  BY DEF Shape, DaemonType
<1>3. /\ DOMAIN t.out = 1..(Len(s.out) + 1) /\ DOMAIN s.out = 1..Len(s.out)
      /\ Len(s.out) \in Nat /\ t.out[Len(s.out) + 1] = m
      /\ \A i \in DOMAIN s.out : t.out[i] = s.out[i]
  BY <1>1, <1>2
<1> HIDE DEF t
<1>4. Sent(s, "mature") # {} \/ m.kind = "mature" => Sent(t, "mature") # {}
  BY <1>3 DEF Sent
<1>5. SameSession(t) <=> SameSession(s)
  <2>1. CASE s.out = <<>>
    <3>1. t.out[1] = m
      BY <1>3, <2>1
    <3>2. m.kind \notin {"leave", "join"}
      BY DEF Message, StateMessage, BalanceMessage, MaturingMessage, ArpMessage
    <3> QED
      BY <2>1, <3>1, <3>2 DEF SameSession, Leave, Join
  <2>2. CASE s.out # <<>>
    <3>1. 1 \in DOMAIN s.out
      BY <1>1, <2>2
    <3> QED
      BY <1>3, <2>2, <3>1 DEF SameSession
  <2> QED
    BY <2>1, <2>2
<1> QED
  BY <1>4, <1>5 DEF t

\* A handler that only sends keeps everything else.
LEMMA SendKeeps ==
  ASSUME NEW self, NEW s, Shape(self, s), s.out = <<>>, NEW m \in Message, m.kind # "state",
         NEW t \in Multicast(s, m)
  PROVE  Ended(s, t) \/ Kept(s, t)
<1>1. ASSUME t = [s EXCEPT !.out = Append(s.out, m)] PROVE Kept(s, t)
  <2>1. SameSession(t) /\ Sent(t, "state") = {}
    BY <1>1, FirstSend
  <2>2. t.up = s.up /\ t.ip = s.ip /\ Same([s EXCEPT !.out = t.out], t)
    BY <1>1 DEF Same, Shape, DaemonType
  <2>3. SameTables(s, t) /\ t.num = s.num /\ t.mess = s.mess
    BY <1>1 DEF SameTables, Shape, DaemonType
  <2> QED
    BY <2>1, <2>2, <2>3 DEF Kept
<1> QED
  BY <1>1, MulticastEnds

\* Taking a timer out of the queue or filling the buffer first makes no difference.
LEMMA KeptFrom ==
  ASSUME NEW self, NEW s, Shape(self, s), NEW u, Shape(self, u), Same(s, u), u.up = s.up, u.ip = s.ip,
         SameTables(s, u), u.num = s.num, "balance" \notin StaleKinds => u.mess \in {s.mess, Junk},
         NEW t, Kept(u, t)
  PROVE  Kept(s, t)
<1>1. SameTables(s, t) /\ t.num = s.num /\ ("balance" \notin StaleKinds => t.mess \in {s.mess, Junk})
  BY DEF Kept, SameTables
<1> QED
  BY <1>1 DEF Kept, Same, Shape, DaemonType

\* The maturing timer, the retry and the ARP timer.
LEMMA TimerKeeps ==
  ASSUME NEW self, NEW s, Shape(self, s), s.out = <<>>,
         NEW t \in TurnMature(s) \cup RetryTimer(s) \cup ArpTimer(s)
  PROVE  Ended(s, t) \/ Kept(s, t)
<1>1. CASE t \in TurnMature(s)
  <2> DEFINE u == [s EXCEPT !.tMature = FALSE]
  <2>1. Shape(self, u) /\ Same(s, u) /\ u.up = s.up /\ u.ip = s.ip /\ u.out = <<>>
    BY DEF Shape, DaemonType, Same
  <2>4. SameTables(s, u) /\ u.num = s.num /\ u.mess = s.mess
    BY DEF Shape, DaemonType, SameTables
  <2>2. MaturingMessage \in Message /\ MaturingMessage.kind # "state"
    BY DEF Message, MaturingMessage
  <2>3. t \in Multicast(u, MaturingMessage)
    BY <1>1 DEF TurnMature
  <2> HIDE DEF u
  <2> QED
    BY <2>1, <2>2, <2>3, <2>4, SendKeeps, KeptFrom, EndedFrom
<1>2. CASE t \in RetryTimer(s)
  BY <1>2, TimersOff, ReconnectEnds DEF RetryTimer
<1>3. CASE t \in ArpTimer(s)
  <2> DEFINE u == [[s EXCEPT !.tArp = FALSE] EXCEPT !.mess = Junk]
  <2>1. Shape(self, u) /\ Same(s, u) /\ u.up = s.up /\ u.ip = s.ip /\ u.out = <<>>
    BY DEF Shape, DaemonType, Same, Buffer
  <2>4. SameTables(s, u) /\ u.num = s.num /\ u.mess = Junk
    BY DEF Shape, DaemonType, SameTables
  <2>2. ArpMessage \in Message /\ ArpMessage.kind # "state"
    BY DEF Message, ArpMessage
  <2>3. t \in Multicast(u, ArpMessage)
    BY <1>3 DEF ArpTimer, SendLocalArpCache
  <2> HIDE DEF u
  <2> QED
    BY <2>1, <2>2, <2>3, <2>4, SendKeeps, KeptFrom, EndedFrom
<1> QED
  BY <1>1, <1>2, <1>3

\* Queueing Balance again.
LEMMA BalanceAgainKeeps ==
  ASSUME NEW self, NEW s, Shape(self, s), NEW u, Shape(self, u)
  PROVE  /\ Ended(s, u) => Ended(s, BalanceAgain(u))
         /\ Kept(s, u) => Kept(s, BalanceAgain(u))
<1>1. /\ BalanceAgain(u).num = u.num /\ BalanceAgain(u).mess = u.mess
      /\ SameTables(u, BalanceAgain(u))
  BY DEF BalanceAgain, SameTables, Shape, DaemonType
<1>2. Ended(s, u) => Ended(s, BalanceAgain(u))
  BY DEF BalanceAgain, Ended, Shape, DaemonType
<1>3. Kept(s, u) => SameTables(s, BalanceAgain(u))
  BY <1>1 DEF Kept, SameTables
<1>4. ASSUME Kept(s, u)
      PROVE  /\ SameSession(BalanceAgain(u)) /\ Sent(BalanceAgain(u), "state") = {}
             /\ BalanceAgain(u).up = s.up /\ BalanceAgain(u).ip = s.ip
             /\ Same([s EXCEPT !.out = BalanceAgain(u).out], BalanceAgain(u))
  BY <1>4 DEF BalanceAgain, Kept, Same, Shape, DaemonType, SameSession, Sent
<1> QED
  BY <1>1, <1>2, <1>3, <1>4 DEF Kept

\* Balance only sends: the moves are made when the message comes back.
LEMMA BalanceTimerKeeps ==
  ASSUME NEW self, NEW s, Shape(self, s), s.out = <<>>, NEW t \in BalanceTimer(s)
  PROVE  Ended(s, t) \/ Kept(s, t)
<1> DEFINE fired == [s EXCEPT !.tBalance = FALSE]
           buffer(m) == IF "balance" \in StaleKinds THEN InBuffer(s, m) ELSE Junk
           filled(m) == [fired EXCEPT !.mess = buffer(m)]
<1>1. Shape(self, fired)
  BY TimersOff
<1>2. Kept(s, fired)
  <2>1. SameTables(s, fired) /\ fired.num = s.num /\ fired.mess = s.mess
    BY DEF SameTables, Shape, DaemonType
  <2>2. /\ SameSession(fired) /\ Sent(fired, "state") = {} /\ fired.up = s.up /\ fired.ip = s.ip
        /\ Same([s EXCEPT !.out = fired.out], fired)
    BY DEF Same, SameSession, Sent, Shape, DaemonType
  <2> QED
    BY <2>1, <2>2 DEF Kept
<1>3. CASE s.idx # 1 \/ s.state # "RUN" \/ BalanceMessages(s) = {}
  <2>1. t \in {fired, BalanceAgain(fired)}
    BY <1>3 DEF BalanceTimer
  <2> HIDE DEF fired
  <2>2. Kept(s, BalanceAgain(fired))
    BY <1>1, <1>2, BalanceAgainKeeps
  <2> QED
    BY <1>2, <2>1, <2>2
<1>4. CASE s.idx = 1 /\ s.state = "RUN" /\ BalanceMessages(s) # {}
  <2>0. PICK m \in BalanceMessages(s) :
           \E u \in Multicast(filled(m), m) :
             t = IF u.exit = "no" THEN BalanceAgain([u EXCEPT !.state = "RUN"]) ELSE u
    BY <1>4 DEF BalanceTimer
  <2>1. PICK u \in Multicast(filled(m), m) :
           t = IF u.exit = "no" THEN BalanceAgain([u EXCEPT !.state = "RUN"]) ELSE u
    BY <2>0
  <2>2. m \in Message /\ m \in BalanceMessage /\ m.kind # "state"
    BY BalanceMessagesType DEF Message, BalanceMessage
  <2>3. /\ Shape(self, filled(m)) /\ Same(s, filled(m)) /\ filled(m).out = <<>>
        /\ filled(m).up = s.up /\ filled(m).ip = s.ip
    <3>1. buffer(m) \in Buffer
      BY <2>2, InBufferType DEF Buffer
    <3> HIDE DEF buffer
    <3> QED
      BY <3>1 DEF Shape, DaemonType, Same
  <2>9. /\ SameTables(s, filled(m)) /\ filled(m).num = s.num
        /\ "balance" \notin StaleKinds => filled(m).mess = Junk
    BY DEF SameTables, Shape, DaemonType
  <2>4. Shape(self, u) /\ (Ended(s, u) \/ Kept(s, u))
    <3> HIDE DEF filled
    <3> QED
      BY <2>1, <2>2, <2>3, <2>9, MulticastShape, SendKeeps, KeptFrom, EndedFrom
  <2> DEFINE run == [u EXCEPT !.state = "RUN"]
  <2>5. Shape(self, run)
    BY <2>4 DEF Shape, DaemonType, DaemonState
  <2>6. Ended(s, u) => Ended(s, run)
    BY <2>4 DEF Ended, Shape, DaemonType
  <2>7. ASSUME Kept(s, u) PROVE Kept(s, run)
    <3>1. SameTables(u, run) /\ run.num = u.num /\ run.mess = u.mess
      BY <2>4 DEF SameTables, Shape, DaemonType
    <3>2. SameTables(s, run) /\ run.num = s.num /\ ("balance" \notin StaleKinds => run.mess \in {s.mess, Junk})
      BY <2>7, <3>1 DEF Kept, SameTables
    <3>3. /\ SameSession(run) /\ Sent(run, "state") = {} /\ run.up = s.up /\ run.ip = s.ip
          /\ Same([s EXCEPT !.out = run.out], run)
      BY <1>4, <2>4, <2>7 DEF Kept, Same, Shape, DaemonType, SameSession, Sent
    <3> QED
      BY <3>2, <3>3 DEF Kept
  <2> HIDE DEF run
  <2>8. t = u \/ t = BalanceAgain(run)
    BY <2>1 DEF run
  <2> QED
    BY <2>4, <2>5, <2>6, <2>7, <2>8, BalanceAgainKeeps
<1> QED
  BY <1>3, <1>4

\* The start of main, wackatrl -f and -s, and Sig_handler.
LEMMA CommandsEnd ==
  ASSUME NEW self, NEW s, Shape(self, s),
         NEW t \in Start(s) \cup ServiceFailure(s) \cup ServiceSuccess(s) \cup {Signal(s)}
  PROVE  Ended(s, t)
<1>1. CASE t \in Start(s)
  <2>1. PICK c \in SpreadReconnect(s) :
           \E u \in SendLocalArpCache(c) : t = [u EXCEPT !.tArp = (u.exit = "no")]
    BY <1>1 DEF Start
  <2>2. PICK u \in SendLocalArpCache(c) : t = [u EXCEPT !.tArp = (u.exit = "no")]
    BY <2>1
  <2> DEFINE empty == [c EXCEPT !.mess = Junk]
  <2>3. Shape(self, c) /\ Ended(s, c)
    BY SpreadReconnectShape, ReconnectEnds
  <2>4. Shape(self, empty) /\ Ended(s, empty)
    BY <2>3 DEF Shape, DaemonType, Buffer, Ended
  <2>5. ArpMessage \in Message /\ u \in Multicast(empty, ArpMessage)
    BY DEF Message, SendLocalArpCache
  <2> HIDE DEF empty
  <2>6. Shape(self, u) /\ Ended(s, u)
    BY <2>4, <2>5, EndedStays, MulticastShape
  <2> QED
    BY <2>2, <2>6 DEF Ended, Shape, DaemonType
<1>2. CASE t \in ServiceFailure(s) \cup ServiceSuccess(s)
  <2>1. /\ Shape(self, [s EXCEPT !.lock = TRUE, !.mbox = FALSE])
        /\ Shape(self, [s EXCEPT !.lock = FALSE])
    BY DEF Shape, DaemonType
  <2> QED
    BY <1>2, <2>1, CleanUpShape, ReconnectEnds DEF ServiceFailure, ServiceSuccess
<1>3. CASE t = Signal(s)
  <2> DEFINE base == CleanUp(s)
  <2>1. Shape(self, base) /\ base.up = {} /\ base.owner = Nobody /\ base.oldOwner = Nobody
    BY CleanUpShape, CleanUpDown
  <2>2. Signal(s) = [base EXCEPT !.exit = "clean", !.mbox = FALSE, !.out = <<Leave>>]
    BY DEF Signal
  <2> HIDE DEF base
  <2> QED
    BY <1>3, <2>1, <2>2 DEF Ended, Shape, DaemonType
<1> QED
  BY <1>1, <1>2, <1>3

\* An error of SP_receive that follows no message, or one of the ARP cache, ends the
\* session: it ends the process, or Spread_reconnect has.
LEMMA ReceiveErrorEnds ==
  ASSUME NEW self, NEW s, Shape(self, s), s.last \in {"none", "arp"}, NEW t \in ReceiveError(s)
  PROVE  Ended(s, t)
<1>1. PICK u \in AfterSpreadError(s) : t \in IF u.exit = "no" THEN DispatchStale(u) ELSE {u}
  BY DEF ReceiveError
<1>2. Shape(self, u) /\ Ended(s, u)
  BY AfterSpreadErrorShape, ErrorEnds
<1>3. u.last = s.last
  <2>1. FatalExit(s).last = s.last
    BY DEF FatalExit, Shape, DaemonType
  <2>2. u \in SpreadReconnect(s) => u.last = s.last
    BY DEF SpreadReconnect, CleanUp, Release, Shape, DaemonType
  <2> QED
    BY <2>1, <2>2 DEF AfterSpreadError
<1>4. u.mess.kind \notin {"none", "view", "mature", "arp"}
  BY <1>2 DEF Shape, DaemonType, Buffer, StateMessage, BalanceMessage, Junk
<1>5. CASE t = u
  BY <1>2, <1>5
<1>6. CASE t \in DispatchStale(u)
  <2>1. Ended(s, FatalExit(u))
    BY <1>2 DEF FatalExit, Ended, Shape, DaemonType
  <2>2. u.last = "none" => DispatchStale(u) = {FatalExit(u)}
    BY <1>4 DEF DispatchStale
  <2>3. u.last = "arp" => DispatchStale(u) = {Signal(u), FatalExit(u)}
    BY <1>4 DEF DispatchStale
  <2>4. Ended(s, Signal(u))
    <3>1. Ended(u, Signal(u))
      BY <1>2, CommandsEnd
    <3>2. Signal(u).exit = "clean"
      BY <1>2, CleanUpShape DEF Signal, Shape, DaemonType
    <3> QED
      BY <3>1, <3>2 DEF Ended
  <2> QED
    BY <1>2, <1>3, <1>6, <2>1, <2>2, <2>3, <2>4
<1> QED
  BY <1>1, <1>5, <1>6

-----------------------------------------------------------------------------
(* Messages. *)

\* The state message o claims what t holds.
Claiming(t, o) == o.from = t.me /\ o.claims = [v \in Held(t) |-> t.oldPrio[v]]

\* It says all that a state message says of t.
Announces(t, o) == Claiming(t, o) /\ o.mat = t.mat /\ o.prefer = Prefer[t.me]

\* The tables of t are those with which s goes into a new view.
Froze(s, t) ==
  /\ t.owner = Nobody /\ t.prio = [v \in Vip |-> UNCLAIMED] /\ t.mine = s.mine
  /\ IF s.state \in {"GATHER", "BOOT"} THEN t.oldOwner = s.oldOwner /\ t.oldPrio = s.oldPrio
                                        ELSE t.oldOwner = s.owner /\ t.oldPrio = s.prio

\* A view is taken up: the daemon waits for the state messages of all its members
\* and has sent its own, in this view, under its index, with what it holds; the table
\* is empty, and that of a settled view is kept as Old_table.
Gathers(s, m, t) ==
  /\ SameSession(t) /\ t.mbox /\ t.exit = "no"
  /\ t.up = s.up /\ t.mat = s.mat /\ t.state = "GATHER"
  /\ t.gid = m.gid /\ t.pending = m.n /\ t.idx = m.idx /\ t.ip = [k \in 1..m.n |-> NoAddr]
  /\ t.num = [k \in 1..m.n |-> 0] /\ Froze(s, t) /\ t.mess = Junk
  /\ Cardinality(Held(t)) = t.mine
  /\ Sent(t, "state") # {} /\ Sent(t, "mature") = {} /\ Sent(t, "balance") = {}
  /\ \A i \in Sent(t, "state") :
       t.out[i].idx = m.idx /\ t.out[i].gid = m.gid /\ Announces(t, t.out[i])

\* Handle_membership, with its state message sent, or with the session ended.
LEMMA HandleMembershipGathers ==
  ASSUME NEW self, NEW s, Shape(self, s), s.out = <<>>, s.exit = "no", NEW m \in ViewMessage,
         NEW t \in HandleMembership(s, m)
  PROVE  \/ Ended(s, t)
         \/ /\ t.mbox /\ t.exit = "no" /\ t.up = s.up /\ t.mat = s.mat
            /\ t.state = "GATHER" /\ t.gid = m.gid /\ t.pending = m.n /\ t.idx = m.idx
            /\ t.ip = [k \in 1..m.n |-> NoAddr] /\ t.num = [k \in 1..m.n |-> 0]
            /\ Froze(s, t) /\ Cardinality(Held(t)) = t.mine
            /\ \E o \in StateMessage :
                 t.out = <<o>> /\ o.idx = m.idx /\ o.gid = m.gid /\ Announces(t, o)
<1> DEFINE kept     == s.state \in {"GATHER", "BOOT"}
           ip       == [k \in 1..m.n |-> NoAddr]
           num      == [k \in 1..m.n |-> 0]
           oldOwner == IF kept THEN s.oldOwner ELSE s.owner
           oldPrio  == IF kept THEN s.oldPrio ELSE s.prio
           prio     == [v \in Vip |-> UNCLAIMED]
           viewed   == [s EXCEPT !.gid = m.gid, !.pending = m.n, !.idx = m.idx,
                          !.ip = ip, !.num = num, !.oldOwner = oldOwner,
                          !.oldPrio = oldPrio, !.owner = Nobody, !.prio = prio]
<1>1. m.gid \in Nat /\ m.n \in Int /\ m.n \in Nat /\ m.idx \in Nat \ {0}
  BY DEF ViewMessage
<1>2. ip \in Seq(AnyAddress) /\ num \in Seq(Int) /\ DOMAIN num = DOMAIN ip /\ DOMAIN ip = 1..m.n
  BY <1>1 DEF AnyAddress
<1>3. /\ oldOwner \in [Vip -> AnyAddress] /\ oldPrio \in [Vip -> Priority]
      /\ Nobody \in [Vip -> AnyAddress] /\ prio \in [Vip -> Priority]
  BY PriorityType DEF Shape, DaemonType, Nobody, AnyAddress
<1>4. /\ Shape(self, viewed) /\ viewed.out = <<>> /\ viewed.exit = "no" /\ viewed.mbox = s.mbox
      /\ viewed.up = s.up /\ viewed.mat = s.mat /\ viewed.gid = m.gid
      /\ viewed.pending = m.n /\ viewed.idx = m.idx /\ viewed.ip = ip /\ viewed.num = num
      /\ Froze(s, viewed)
  <2>1. /\ Shape(self, viewed) /\ viewed.out = <<>> /\ viewed.exit = "no" /\ viewed.mbox = s.mbox
        /\ viewed.up = s.up /\ viewed.mat = s.mat /\ viewed.gid = m.gid
        /\ viewed.pending = m.n /\ viewed.idx = m.idx /\ viewed.ip = ip /\ viewed.num = num
        /\ viewed.owner = Nobody /\ viewed.prio = prio /\ viewed.mine = s.mine
        /\ viewed.oldOwner = oldOwner /\ viewed.oldPrio = oldPrio
    <3> HIDE DEF ip, num, oldOwner, oldPrio, prio
    <3> QED
      BY <1>1, <1>2, <1>3 DEF Shape, DaemonType
  <2> HIDE DEF viewed
  <2> QED
    BY <2>1 DEF Froze
<1>5. PICK u \in SendStateMessage(viewed) :
         t = IF u.exit = "no" THEN [u EXCEPT !.state = "GATHER", !.tBalance = FALSE] ELSE u
  BY DEF HandleMembership
<1> HIDE DEF viewed
<1> DEFINE empty == [viewed EXCEPT !.mess = Junk]
           o     == StateMessageOf(viewed)
<1>6. /\ o \in StateMessage /\ o \in Message /\ o.idx = m.idx /\ o.gid = m.gid
      /\ Announces(viewed, o)
  BY <1>4, StateMessageType DEF Message, StateMessageOf, Announces, Claiming
<1>7. /\ Shape(self, empty) /\ empty.out = <<>> /\ empty.exit = "no" /\ empty.mbox = s.mbox
      /\ empty.up = s.up /\ empty.mat = s.mat /\ empty.gid = m.gid
      /\ empty.pending = m.n /\ empty.idx = m.idx /\ empty.ip = ip /\ empty.num = num
      /\ Froze(s, empty) /\ Announces(empty, o)
      /\ Held(empty) = Held(viewed) /\ empty.mine = viewed.mine
  <2>1. /\ Shape(self, empty) /\ empty.out = viewed.out /\ empty.exit = viewed.exit
        /\ empty.mbox = viewed.mbox /\ empty.up = viewed.up /\ empty.mat = viewed.mat
        /\ empty.gid = viewed.gid /\ empty.pending = viewed.pending
        /\ empty.idx = viewed.idx /\ empty.ip = viewed.ip /\ empty.me = viewed.me
        /\ empty.num = viewed.num
        /\ SameTables(viewed, empty)
    BY <1>4 DEF Shape, DaemonType, Buffer, SameTables
  <2> HIDE DEF empty, o
  <2> QED
    BY <1>4, <1>6, <2>1 DEF Froze, Announces, Claiming, Held, SameTables
<1>8. Shape(self, u)
  BY <1>4, <1>5, SendStateMessageShape
<1>9. CASE u = [viewed EXCEPT !.exit = "assert", !.mbox = FALSE, !.out = <<Leave>>]
  BY <1>4, <1>5, <1>9 DEF Ended, Shape, DaemonType
<1>10. CASE Cardinality(Held(viewed)) = viewed.mine /\ u \in Multicast(empty, o)
  <2> HIDE DEF empty, o, ip, num
  <2>1. CASE Ended(s, u)
    BY <1>5, <1>8, <2>1 DEF Ended, Shape, DaemonType
  <2>2. CASE empty.mbox /\ u = [empty EXCEPT !.out = Append(empty.out, o)]
    <3>1. u.out = <<o>>
      BY <1>6, <1>7, <2>2, FirstSend
    <3>2. /\ u.mbox /\ u.exit = "no" /\ u.up = s.up /\ u.mat = s.mat /\ u.gid = m.gid
          /\ u.pending = m.n /\ u.idx = m.idx /\ u.ip = ip /\ u.num = num /\ u.me = empty.me
          /\ SameTables(empty, u)
      BY <1>7, <2>2 DEF Shape, DaemonType, SameTables
    <3>3. t = [u EXCEPT !.state = "GATHER", !.tBalance = FALSE]
      BY <1>5, <3>2
    <3>4. /\ t.mbox /\ t.exit = "no" /\ t.up = s.up /\ t.mat = s.mat /\ t.gid = m.gid
          /\ t.pending = m.n /\ t.idx = m.idx /\ t.ip = ip /\ t.num = num /\ t.me = u.me
          /\ t.out = <<o>> /\ t.state = "GATHER" /\ SameTables(u, t)
      BY <1>8, <3>1, <3>2, <3>3 DEF Shape, DaemonType, SameTables
    <3>5. Froze(s, t) /\ Announces(t, o)
      BY <1>7, <3>2, <3>4 DEF SameTables, Froze, Announces, Claiming, Held
    <3>6. Held(t) = Held(viewed) /\ t.mine = viewed.mine
      BY <1>7, <3>2, <3>4 DEF SameTables, Held
    <3> QED
      BY <1>6, <1>10, <3>4, <3>5, <3>6 DEF ip, num
  <2>3. Ended(empty, u) \/ (empty.mbox /\ u = [empty EXCEPT !.out = Append(empty.out, o)])
    <3>1. Shape(self, empty)
      BY <1>7
    <3> QED
      BY <1>10, <3>1, MulticastEnds
  <2>4. Ended(empty, u) => Ended(s, u)
    BY <1>7, EndedFrom
  <2> QED
    BY <2>1, <2>2, <2>3, <2>4
<1>11. u = [viewed EXCEPT !.exit = "assert", !.mbox = FALSE, !.out = <<Leave>>]
       \/ (Cardinality(Held(viewed)) = viewed.mine /\ u \in Multicast(empty, o))
  BY <1>5 DEF SendStateMessage
<1> QED
  BY <1>9, <1>10, <1>11

\* The membership branch of Handle_network: the ARP message follows the state message.
LEMMA HandleViewGathers ==
  ASSUME NEW self, NEW s, Shape(self, s), s.out = <<>>, s.exit = "no", NEW m \in ViewMessage,
         NEW t \in HandleView(s, m)
  PROVE  Ended(s, t) \/ Gathers(s, m, t)
<1>1. PICK u \in HandleMembership(s, m) :
         t \in IF u.exit = "no" THEN SendLocalArpCache(u) ELSE {u}
  BY DEF HandleView
<1>2. Shape(self, u)
  BY HandleMembershipShape
<1> DEFINE empty == [u EXCEPT !.mess = Junk]
<1>3. Shape(self, empty)
  BY <1>2 DEF Shape, DaemonType, Buffer
<1>4. ArpMessage \in Message
  BY DEF Message
<1>5. CASE Ended(s, u)
  <2>1. Ended(s, empty)
    BY <1>2, <1>5 DEF Ended, Shape, DaemonType
  <2> HIDE DEF empty
  <2>2. t = u \/ t \in Multicast(empty, ArpMessage)
    BY <1>1 DEF SendLocalArpCache, empty
  <2> QED
    BY <1>3, <1>4, <1>5, <2>1, <2>2, EndedStays
<1>6. CASE ~Ended(s, u)
  <2>1. /\ u.mbox /\ u.exit = "no" /\ u.up = s.up /\ u.mat = s.mat
        /\ u.state = "GATHER" /\ u.gid = m.gid /\ u.pending = m.n /\ u.idx = m.idx
        /\ u.ip = [k \in 1..m.n |-> NoAddr] /\ u.num = [k \in 1..m.n |-> 0]
        /\ Froze(s, u) /\ Cardinality(Held(u)) = u.mine
        /\ \E o \in StateMessage :
             u.out = <<o>> /\ o.idx = m.idx /\ o.gid = m.gid /\ Announces(u, o)
    BY <1>6, HandleMembershipGathers
  <2>2. PICK o \in StateMessage :
           u.out = <<o>> /\ o.idx = m.idx /\ o.gid = m.gid /\ Announces(u, o)
    BY <2>1
  <2>3. t \in Multicast(empty, ArpMessage)
    BY <1>1, <2>1 DEF SendLocalArpCache
  <2>4. ASSUME t = [empty EXCEPT !.out = Append(empty.out, ArpMessage)]
        PROVE  Gathers(s, m, t)
    <3>0. empty.out = <<o>> /\ t.out = Append(empty.out, ArpMessage)
      BY <1>2, <2>2, <2>4 DEF Shape, DaemonType
    <3>1. DOMAIN t.out = 1..2 /\ t.out[1] = o /\ t.out[2] = ArpMessage
      <4>1. <<o>> \in Seq({o, ArpMessage}) /\ Len(<<o>>) = 1 /\ <<o>>[1] = o
        OBVIOUS
      <4> DEFINE q == <<o>>
      <4> HIDE DEF q
      <4>2. /\ Len(Append(q, ArpMessage)) = 2 /\ Append(q, ArpMessage) \in Seq({o, ArpMessage})
            /\ Append(q, ArpMessage)[1] = o /\ Append(q, ArpMessage)[2] = ArpMessage
        BY <4>1 DEF q
      <4> QED
        BY <3>0, <4>2 DEF q
    <3>2. /\ t.mbox /\ t.exit = "no" /\ t.up = s.up /\ t.mat = s.mat
          /\ t.state = "GATHER" /\ t.gid = m.gid /\ t.pending = m.n /\ t.idx = m.idx
          /\ t.ip = [k \in 1..m.n |-> NoAddr] /\ t.num = [k \in 1..m.n |-> 0]
          /\ t.me = u.me /\ SameTables(u, t)
      BY <1>2, <2>1, <2>4 DEF Shape, DaemonType, SameTables
    <3>7. t.mess = Junk
      BY <1>2, <2>4 DEF Shape, DaemonType
    <3>6. Froze(s, t) /\ Announces(t, o)
      BY <2>1, <2>2, <3>2 DEF SameTables, Froze, Announces, Claiming, Held
    <3>8. Cardinality(Held(t)) = t.mine
      BY <2>1, <3>2 DEF SameTables, Held
    <3>3. o.kind = "state" /\ o # Leave /\ o # Join /\ ArpMessage.kind = "arp"
      BY DEF StateMessage, Leave, Join, ArpMessage
    <3>4. SameSession(t)
      BY <3>1, <3>3 DEF SameSession
    <3>5. Sent(t, "state") = {1} /\ Sent(t, "mature") = {} /\ Sent(t, "balance") = {}
      BY <3>1, <3>3 DEF Sent
    <3> QED
      BY <2>2, <3>1, <3>2, <3>4, <3>5, <3>6, <3>7, <3>8 DEF Gathers
  <2>5. empty.up = s.up
    BY <1>2, <2>1 DEF Shape, DaemonType
  <2> HIDE DEF empty
  <2> QED
    BY <1>3, <2>3, <2>4, <2>5, MulticastEnds, EndedFrom
<1> QED
  BY <1>5, <1>6

\* A message other than a view or a state message of this view: the daemon may mature
\* and then decides, unless a view is being gathered.  (Nothing comes up before.)
Decides(s, t) ==
  /\ Same([s EXCEPT !.mat = t.mat, !.state = t.state], t) /\ t.ip = s.ip
  /\ t.state = "GATHER" <=> s.state = "GATHER"
  /\ IF t.mat = s.mat THEN t.state = s.state
                      ELSE t.mat /\ t.state \in {"GATHER", "RUN"}
  /\ (t.state = "RUN" /\ t.mat) \/ t.up = s.up

\* Handle_mature.
LEMMA HandleMatureDecides ==
  ASSUME NEW self, NEW s, Shape(self, s), NEW t \in HandleMature(s)
  PROVE  Decides(s, t)
<1> DEFINE matured == [s EXCEPT !.mat = TRUE, !.tMature = FALSE]
<1>1. /\ Shape(self, matured) /\ matured.mat /\ matured.state = s.state /\ matured.up = s.up
      /\ matured.ip = s.ip
      /\ Same([s EXCEPT !.mat = TRUE], matured)
  BY DEF Shape, DaemonType, Same
<1>2. CASE t = s
  BY <1>2 DEF Decides, Same, Shape, DaemonType
<1>3. CASE ~s.mat /\ s.state = "GATHER" /\ t = matured
  BY <1>1, <1>3 DEF Decides, Same, Shape, DaemonType
<1>4. CASE ~s.mat /\ s.state # "GATHER" /\ t \in ShiftToRun(matured)
  <2> HIDE DEF matured
  <2>1. t.state = "RUN" /\ Same([matured EXCEPT !.state = "RUN"], t) /\ t.ip = matured.ip
    BY <1>1, <1>4, ShiftToRunSame
  <2> QED
    BY <1>1, <1>4, <2>1 DEF Decides, Same, Shape, DaemonType
<1> QED
  BY <1>2, <1>3, <1>4 DEF HandleMature

\* Handle_balance: it acts in RUN only, where the daemon is mature.
LEMMA HandleBalanceDecides ==
  ASSUME NEW self, NEW s, Shape(self, s), s.state = "RUN" => s.mat, NEW m \in BalanceMessage
  PROVE  Decides(s, HandleBalance(s, m))
<1> DEFINE moves == IF m.count < Len(m.moves) THEN SubSeq(m.moves, 1, m.count) ELSE m.moves
<1>1. CASE s.state # "RUN"
  BY <1>1 DEF HandleBalance, Decides, Same, Shape, DaemonType
<1>2. CASE s.state = "RUN"
  <2>1. HandleBalance(s, m) = ApplyMoves(s, moves)
    BY <1>2 DEF HandleBalance
  <2> HIDE DEF moves
  <2>2. Same(s, ApplyMoves(s, moves)) /\ ApplyMoves(s, moves).ip = s.ip
    BY ShapeNamed, ApplyMovesSame
  <2> QED
    BY <1>2, <2>1, <2>2 DEF Decides, Same, Shape, DaemonType
<1> QED
  BY <1>1, <1>2

\* A state message of this view, while it is gathered: one less to wait for, and with
\* the last one the daemon runs if it is mature and goes back to BOOT if it is not.
Counts(s, t) ==
  /\ Same([s EXCEPT !.mat = t.mat, !.state = t.state, !.pending = s.pending - 1], t)
  /\ t.state = "GATHER" <=> t.pending # 0
  /\ s.mat => t.mat
  /\ t.state # "GATHER" => (t.state = "RUN" <=> t.mat)
  /\ ForceReup \/ t.state = "RUN" \/ t.up \subseteq s.up

\* The end of Handle_state.
LEMMA CountStateCounts ==
  ASSUME NEW self, NEW s, Shape(self, s), s.state = "GATHER", NEW t \in CountState(s)
  PROVE  Counts(s, t) /\ t.ip = s.ip
<1> DEFINE counted == [s EXCEPT !.pending = s.pending - 1]
<1>0. s.pending - 1 \in Int
  BY DEF Shape, DaemonType
<1>1. /\ Shape(self, counted) /\ counted.pending = s.pending - 1 /\ counted.state = "GATHER"
      /\ counted.mat = s.mat /\ counted.up = s.up /\ counted.ip = s.ip
      /\ Same([s EXCEPT !.pending = s.pending - 1], counted)
  BY <1>0 DEF Shape, DaemonType, Same
<1>2. /\ [s EXCEPT !.pending = @ - 1] = counted
  BY DEF Shape, DaemonType
<1> HIDE DEF counted
<1>3. CASE counted.pending # 0
  <2>1. t = counted
    BY <1>2, <1>3 DEF CountState
  <2> QED
    BY <1>1, <1>3, <2>1 DEF Counts, Same, Shape, DaemonType
<1>4. CASE counted.pending = 0 /\ s.mat
  <2>1. t \in ShiftToRun(counted)
    BY <1>2, <1>4 DEF CountState
  <2>2. t.state = "RUN" /\ Same([counted EXCEPT !.state = "RUN"], t) /\ t.ip = counted.ip
    BY <1>1, <2>1, ShiftToRunSame
  <2> QED
    BY <1>1, <1>4, <2>2 DEF Counts, Same, Shape, DaemonType
<1>5. CASE counted.pending = 0 /\ ~s.mat
  <2>1. t = [counted EXCEPT !.state = "BOOT"]
    BY <1>2, <1>5 DEF CountState
  <2> QED
    BY <1>1, <1>5, <2>1 DEF Counts, Same, Shape, DaemonType
<1> QED
  BY <1>3, <1>4, <1>5

\* Handle_state: the claims are merged, a mature peer makes the daemon mature, and the
\* message is counted.
LEMMA HandleStateCounts ==
  ASSUME NEW self, NEW s, Shape(self, s), s.state = "GATHER", NEW m \in StateMessage, m.gid = s.gid,
         NEW t \in HandleState(s, m)
  PROVE  Counts(s, t) /\ t.ip = [s.ip EXCEPT ![m.idx] = m.from]
<1> DEFINE merged == MergeClaims(s, m)
<1>1. /\ Shape(self, merged) /\ Same(s, merged) /\ (~ForceReup => merged.up \subseteq s.up)
      /\ merged.ip = [s.ip EXCEPT ![m.idx] = m.from]
  BY MergeClaimsShape, ShapeNamed, MergeClaimsSame
<1> HIDE DEF merged
<1>2. PICK u \in IF ~s.mat /\ m.mat THEN HandleMature(merged) ELSE {merged} :
         t \in CountState(u)
  BY DEF HandleState, merged
<1>3. u = merged \/ (u \in HandleMature(merged) /\ ~s.mat)
  BY <1>2
<1>4. /\ Shape(self, u) /\ u.state = "GATHER" /\ u.up = merged.up /\ u.ip = merged.ip
      /\ (s.mat => u.mat)
      /\ Same([s EXCEPT !.mat = u.mat], u)
  <2>1. CASE u = merged
    BY <1>1, <2>1 DEF Same, Shape, DaemonType
  <2>2. CASE u \in HandleMature(merged)
    <3>1. Shape(self, u) /\ Decides(merged, u)
      BY <1>1, <2>2, HandleMatureShape, HandleMatureDecides
    <3> QED
      BY <1>1, <3>1 DEF Decides, Same, Shape, DaemonType, DaemonState
  <2> QED
    BY <1>3, <2>1, <2>2
<1>5. Counts(u, t) /\ t.ip = u.ip
  BY <1>2, <1>4, CountStateCounts
<1> QED
  BY <1>1, <1>4, <1>5 DEF Counts, Same, Shape, DaemonType

-----------------------------------------------------------------------------
(* Handle_network. *)

\* SP_receive only fills the globals of the last message.
LEMMA ReceivedSame ==
  ASSUME NEW self, NEW s, Shape(self, s), NEW m \in GroupMessage
  PROVE  LET r == Received(s, m)
         IN  Shape(self, r) /\ Same(s, r) /\ SameTables(s, r) /\ r.up = s.up /\ r.ip = s.ip
<1>1. Shape(self, Received(s, m))
  BY ReceivedShape
<1>2. PICK last, mess : Received(s, m) = [s EXCEPT !.last = last, !.mess = mess]
  <2> DEFINE mess == CASE m.kind = "mature"     -> s.mess
                       [] m.kind \in StaleKinds -> InBuffer(s, m)
                       [] OTHER                 -> Junk
  <2>1. Received(s, m) = [s EXCEPT !.last = m.kind, !.mess = mess]
    BY DEF Received, Shape, DaemonType
  <2> QED
    BY <2>1
<1> QED
  BY <1>1, <1>2 DEF Same, SameTables, Shape, DaemonType

\* A view is received.
LEMMA ReceiveGathers ==
  ASSUME NEW self, NEW s, Shape(self, s), s.out = <<>>, s.exit = "no", NEW m \in ViewMessage,
         NEW t \in Receive(s, m)
  PROVE  Ended(s, t) \/ Gathers(s, m, t)
<1> DEFINE r == Received(s, m)
<1>1. m \in GroupMessage /\ m.kind = "view"
  BY DEF GroupMessage, ViewMessage
<1>2. Shape(self, r) /\ Same(s, r) /\ SameTables(s, r) /\ r.up = s.up
  BY <1>1, ReceivedSame
<1>3. t \in HandleView(r, m)
  BY <1>1 DEF Receive, Received, InBuffer, Dispatch
<1> HIDE DEF r
<1>4. Ended(s, t) \/ Gathers(r, m, t)
  BY <1>2, <1>3, HandleViewGathers, EndedFrom DEF Same
<1> QED
  BY <1>2, <1>4 DEF Gathers, Froze, Same, SameTables

\* A message that is neither a view nor a state message of this view is received.
LEMMA ReceiveDecides ==
  ASSUME NEW self, NEW s, Shape(self, s), s.state = "RUN" => s.mat,
         NEW m \in Message, m \in StateMessage => m.gid # s.gid, NEW t \in Receive(s, m)
  PROVE  Decides(s, t)
<1> DEFINE r == Received(s, m)
           b == InBuffer(s, m)
<1>1. Shape(self, r) /\ Same(s, r) /\ r.up = s.up /\ r.ip = s.ip
  BY ReceivedSame DEF GroupMessage
<1>2. t \in Dispatch(r, b)
  BY DEF Receive, Received
<1> HIDE DEF r
<1>3. Decides(r, t)
  <2>1. CASE m \in StateMessage
    <3>1. m.kind = "state"
      BY <2>1 DEF StateMessage
    <3>2. t \in HandleState(r, m)
      BY <1>2, <3>1 DEF Dispatch, InBuffer
    <3>3. t = r
      BY <1>1, <2>1, <3>2 DEF HandleState, Same
    <3> QED
      BY <1>1, <3>3 DEF Decides, Same, Shape, DaemonType
  <2>2. CASE m \in BalanceMessage
    <3>1. b \in BalanceMessage /\ b.kind = "balance"
      BY <2>2, InBufferType DEF BalanceMessage
    <3> HIDE DEF b
    <3>2. t = HandleBalance(r, b)
      BY <1>2, <3>1 DEF Dispatch
    <3> QED
      BY <1>1, <3>1, <3>2, HandleBalanceDecides DEF Same
  <2>3. CASE m = MaturingMessage
    <3>1. t \in HandleMature(r)
      BY <1>2, <2>3 DEF Dispatch, InBuffer, MaturingMessage
    <3> QED
      BY <1>1, <3>1, HandleMatureDecides
  <2>4. CASE m = ArpMessage
    <3>1. t = r
      BY <1>2, <2>4 DEF Dispatch, InBuffer, ArpMessage
    <3> QED
      BY <1>1, <3>1 DEF Decides, Same, Shape, DaemonType
  <2> QED
    BY <2>1, <2>2, <2>3, <2>4 DEF Message
<1> QED
  BY <1>1, <1>3 DEF Decides, Same, Shape, DaemonType

\* A state message of this view is received while the view is gathered.
LEMMA ReceiveCounts ==
  ASSUME NEW self, NEW s, Shape(self, s), s.state = "GATHER", NEW m \in StateMessage, m.gid = s.gid,
         NEW t \in Receive(s, m)
  PROVE  Counts(s, t) /\ t.ip = [s.ip EXCEPT ![m.idx] = m.from]
<1> DEFINE r == Received(s, m)
<1>1. m \in GroupMessage /\ m.kind = "state"
  BY DEF GroupMessage, Message, StateMessage
<1>2. Shape(self, r) /\ Same(s, r) /\ r.up = s.up /\ r.ip = s.ip
  BY <1>1, ReceivedSame
<1>3. t \in HandleState(r, m)
  BY <1>1 DEF Receive, Received, InBuffer, Dispatch
<1> HIDE DEF r
<1>4. Counts(r, t) /\ t.ip = [r.ip EXCEPT ![m.idx] = m.from]
  BY <1>2, <1>3, HandleStateCounts DEF Same
<1> QED
  BY <1>2, <1>4 DEF Counts, Same, Shape, DaemonType
-----------------------------------------------------------------------------
(* The identifier of the view: only a view changes it, and the end of a session *)
(* does not.                                                                    *)

\* Spread_reconnect.
LEMMA ReconnectGid ==
  ASSUME NEW self, NEW s, Shape(self, s), NEW t \in SpreadReconnect(s)
  PROVE  t.gid = s.gid
<1> DEFINE base == CleanUp(s)
<1>1. Shape(self, base) /\ base.gid = s.gid
  BY CleanUpShape DEF CleanUp, Release, Shape, DaemonType
<1> DEFINE gone   == [base EXCEPT !.mbox = FALSE, !.out = <<Leave>>]
           retry  == [gone EXCEPT !.tRetry = TRUE]
           joined == [gone EXCEPT !.mbox = TRUE, !.out = <<Join>>, !.state = "BOOT",
                                  !.mat = FALSE, !.oldMat = FALSE,
                                  !.tMature = TRUE, !.mine = 0]
<1>2. t \in {retry, joined}
  BY DEF SpreadReconnect
<1> HIDE DEF base
<1> QED
  BY ZenonT(60), <1>1, <1>2 DEF Shape, DaemonType

\* A multicast, sent or refused.
LEMMA MulticastGid ==
  ASSUME NEW self, NEW s, Shape(self, s), NEW m, NEW t \in Multicast(s, m)
  PROVE  t.gid = s.gid
<1>1. FatalExit(s).gid = s.gid /\ [s EXCEPT !.out = Append(@, m)].gid = s.gid
  BY DEF FatalExit, Shape, DaemonType
<1> QED
  BY <1>1, ReconnectGid DEF Multicast, AfterSpreadError

\* Send_local_arp_cache.
LEMMA SendLocalArpCacheGid ==
  ASSUME NEW self, NEW s, Shape(self, s), NEW t \in SendLocalArpCache(s)
  PROVE  t.gid = s.gid
<1> DEFINE empty == [s EXCEPT !.mess = Junk]
<1>1. Shape(self, empty) /\ empty.gid = s.gid
  BY DEF Shape, DaemonType, Buffer
<1>2. t \in Multicast(empty, ArpMessage)
  BY DEF SendLocalArpCache
<1> HIDE DEF empty
<1> QED
  BY <1>1, <1>2, MulticastGid

\* The timers of the automaton and of the session.
LEMMA TimerGid ==
  ASSUME NEW self, NEW s, Shape(self, s), NEW t \in TurnMature(s) \cup RetryTimer(s)
  PROVE  t.gid = s.gid
<1>1. /\ [s EXCEPT !.tMature = FALSE].gid = s.gid
      /\ [s EXCEPT !.tRetry = FALSE].gid = s.gid
  BY DEF Shape, DaemonType
<1>2. CASE t \in TurnMature(s)
  BY <1>1, <1>2, TimersOff, MulticastGid DEF TurnMature
<1>3. CASE t \in RetryTimer(s)
  BY <1>1, <1>3, TimersOff, ReconnectGid DEF RetryTimer
<1> QED
  BY <1>2, <1>3

\* Balance.
LEMMA BalanceTimerGid ==
  ASSUME NEW self, NEW s, Shape(self, s), NEW t \in BalanceTimer(s)
  PROVE  t.gid = s.gid
<1> DEFINE fired == [s EXCEPT !.tBalance = FALSE]
           buffer(m) == IF "balance" \in StaleKinds THEN InBuffer(s, m) ELSE Junk
           filled(m) == [fired EXCEPT !.mess = buffer(m)]
<1>1. \A r : Shape(self, r) => BalanceAgain(r).gid = r.gid
  BY DEF BalanceAgain, Shape, DaemonType
<1>2. Shape(self, fired) /\ fired.gid = s.gid
  <2>1. Shape(self, fired)
    BY TimersOff
  <2>2. fired.gid = s.gid
    BY DEF Shape, DaemonType
  <2> QED
    BY <2>1, <2>2
<1>3. CASE s.idx # 1 \/ s.state # "RUN" \/ BalanceMessages(s) = {}
  <2>1. t \in {fired, BalanceAgain(fired)}
    BY <1>3 DEF BalanceTimer
  <2> HIDE DEF fired
  <2> QED
    BY <1>1, <1>2, <2>1
<1>4. CASE s.idx = 1 /\ s.state = "RUN" /\ BalanceMessages(s) # {}
  <2>0. PICK m \in BalanceMessages(s) :
           \E c \in Multicast(filled(m), m) :
             t = IF c.exit = "no" THEN BalanceAgain([c EXCEPT !.state = "RUN"]) ELSE c
    BY <1>4 DEF BalanceTimer
  <2>1. PICK c \in Multicast(filled(m), m) :
           t = IF c.exit = "no" THEN BalanceAgain([c EXCEPT !.state = "RUN"]) ELSE c
    BY <2>0
  <2>2. m \in Message
    BY BalanceMessagesType DEF Message
  <2>3. Shape(self, filled(m)) /\ filled(m).gid = s.gid
    <3>1. buffer(m) \in Buffer
      BY BalanceMessagesType, InBufferType DEF Buffer
    <3> HIDE DEF buffer
    <3> QED
      BY <1>2, <3>1 DEF Shape, DaemonType
  <2>4. Shape(self, c) /\ c.gid = s.gid
    <3> HIDE DEF filled
    <3> QED
      BY <2>1, <2>2, <2>3, MulticastShape, MulticastGid
  <2> DEFINE run == [c EXCEPT !.state = "RUN"]
  <2>5. Shape(self, run) /\ run.gid = c.gid
    BY <2>4 DEF Shape, DaemonType, DaemonState
  <2>6. t = c \/ t = BalanceAgain(run)
    BY <2>1
  <2> HIDE DEF run
  <2> QED
    BY <1>1, <2>4, <2>5, <2>6
<1> QED
  BY <1>3, <1>4

\* The start of main, wackatrl -f and -s, and Sig_handler.
LEMMA CommandsGid ==
  ASSUME NEW self, NEW s, Shape(self, s),
         NEW t \in Start(s) \cup ServiceFailure(s) \cup ServiceSuccess(s) \cup {Signal(s)}
  PROVE  t.gid = s.gid
<1>1. CASE t \in Start(s)
  <2>1. PICK c \in SpreadReconnect(s) :
           \E u \in SendLocalArpCache(c) : t = [u EXCEPT !.tArp = (u.exit = "no")]
    BY <1>1 DEF Start
  <2>2. PICK u \in SendLocalArpCache(c) : t = [u EXCEPT !.tArp = (u.exit = "no")]
    BY <2>1
  <2>3. Shape(self, c) /\ c.gid = s.gid
    BY SpreadReconnectShape, ReconnectGid
  <2>4. Shape(self, u) /\ u.gid = c.gid
    BY <2>3, SendLocalArpCacheShape, SendLocalArpCacheGid
  <2> QED
    BY <2>2, <2>3, <2>4 DEF Shape, DaemonType
<1>2. CASE t \in ServiceFailure(s)
  <2> DEFINE locked == [s EXCEPT !.lock = TRUE, !.mbox = FALSE]
  <2>1. Shape(self, locked) /\ locked.gid = s.gid
    BY DEF Shape, DaemonType
  <2>2. t \in SpreadReconnect(CleanUp(locked))
    BY <1>2 DEF ServiceFailure
  <2> HIDE DEF locked
  <2>3. Shape(self, CleanUp(locked)) /\ CleanUp(locked).gid = s.gid
    BY <2>1, CleanUpShape DEF CleanUp, Release, Shape, DaemonType
  <2> QED
    BY <2>2, <2>3, ReconnectGid
<1>3. CASE t \in ServiceSuccess(s)
  <2>1. /\ Shape(self, [s EXCEPT !.lock = FALSE])
        /\ [s EXCEPT !.lock = FALSE].gid = s.gid
    BY DEF Shape, DaemonType
  <2> QED
    BY <1>3, <2>1, ReconnectGid DEF ServiceSuccess
<1>4. CASE t = Signal(s)
  <2>1. Shape(self, CleanUp(s)) /\ CleanUp(s).gid = s.gid
    BY CleanUpShape DEF CleanUp, Release, Shape, DaemonType
  <2> DEFINE base == CleanUp(s)
  <2>2. t = [base EXCEPT !.exit = "clean", !.mbox = FALSE, !.out = <<Leave>>]
    BY <1>4 DEF Signal
  <2> HIDE DEF base
  <2> QED
    BY <2>1, <2>2 DEF Shape, DaemonType, base
<1> QED
  BY <1>1, <1>2, <1>3, <1>4

\* A view gives its identifier, also to a daemon whose session ends in the handler.
LEMMA ReceiveViewGid ==
  ASSUME NEW self, NEW s, Shape(self, s), s.out = <<>>, s.exit = "no", NEW m \in ViewMessage,
         NEW t \in Receive(s, m)
  PROVE  t.gid = m.gid
<1> DEFINE r == Received(s, m)
<1>1. m \in GroupMessage /\ m.kind = "view" /\ m.gid \in Nat /\ m.n \in Nat /\ m.n \in Int /\ m.idx \in Nat \ {0}
  BY DEF GroupMessage, ViewMessage
<1>2. Shape(self, r)
  BY <1>1, ReceivedSame
<1>3. t \in HandleView(r, m)
  BY <1>1 DEF Receive, Received, InBuffer, Dispatch
<1> HIDE DEF r
<1>4. PICK u \in HandleMembership(r, m) :
         t \in IF u.exit = "no" THEN SendLocalArpCache(u) ELSE {u}
  BY <1>3 DEF HandleView
<1> DEFINE ip       == [k \in 1..m.n |-> NoAddr]
           num      == [k \in 1..m.n |-> 0]
           oldOwner == IF r.state \in {"GATHER", "BOOT"} THEN r.oldOwner ELSE r.owner
           oldPrio  == IF r.state \in {"GATHER", "BOOT"} THEN r.oldPrio ELSE r.prio
           prio     == [v \in Vip |-> UNCLAIMED]
           viewed   == [r EXCEPT !.gid = m.gid, !.pending = m.n, !.idx = m.idx,
                          !.ip = ip, !.num = num, !.oldOwner = oldOwner,
                          !.oldPrio = oldPrio, !.owner = Nobody, !.prio = prio]
<1>5. Shape(self, viewed) /\ viewed.gid = m.gid
  <2>1. ip \in Seq(AnyAddress) /\ num \in Seq(Int) /\ DOMAIN num = DOMAIN ip /\ DOMAIN ip = 1..m.n
    BY <1>1 DEF AnyAddress
  <2>2. /\ oldOwner \in [Vip -> AnyAddress] /\ oldPrio \in [Vip -> Priority]
        /\ Nobody \in [Vip -> AnyAddress] /\ prio \in [Vip -> Priority]
    BY <1>2, PriorityType DEF Shape, DaemonType, Nobody, AnyAddress
  <2> HIDE DEF ip, num, oldOwner, oldPrio, prio
  <2> QED
    BY <1>1, <1>2, <2>1, <2>2 DEF Shape, DaemonType
<1>6. PICK c \in SendStateMessage(viewed) :
         u = IF c.exit = "no" THEN [c EXCEPT !.state = "GATHER", !.tBalance = FALSE] ELSE c
  BY <1>4 DEF HandleMembership
<1> HIDE DEF viewed
<1>7. Shape(self, c) /\ c.gid = m.gid
  <2>1. CASE c = [viewed EXCEPT !.exit = "assert", !.mbox = FALSE, !.out = <<Leave>>]
    BY <1>5, <1>6, <2>1, SendStateMessageShape DEF Shape, DaemonType
  <2>2. CASE c \in Multicast([viewed EXCEPT !.mess = Junk], StateMessageOf(viewed))
    <3> DEFINE empty == [viewed EXCEPT !.mess = Junk]
    <3>1. Shape(self, empty) /\ empty.gid = m.gid
      BY <1>5 DEF Shape, DaemonType, Buffer
    <3> HIDE DEF empty
    <3> QED
      BY <1>5, <1>6, <2>2, <3>1, SendStateMessageShape, MulticastGid DEF empty
  <2> QED
    BY <1>6, <2>1, <2>2 DEF SendStateMessage
<1>8. Shape(self, u) /\ u.gid = m.gid
  BY ZenonT(60), <1>6, <1>7 DEF Shape, DaemonType, DaemonState
<1> QED
  BY <1>4, <1>8, SendLocalArpCacheGid

-----------------------------------------------------------------------------
(* What the tables become as long as nothing is preferred: a function of what they *)
(* were and of the message, the same at every member.                              *)

\* The tables that a member's later decisions are computed from.
TableType ==
  [owner : [Vip -> AnyAddress], prio : [Vip -> Priority], num : Seq(Int), ip : Seq(AnyAddress)]
TableOf(s) == [owner |-> s.owner, prio |-> s.prio, num |-> s.num, ip |-> s.ip]

\* The old table and the buffer are the same.
SameRest(s, t) == t.oldOwner = s.oldOwner /\ t.oldPrio = s.oldPrio /\ t.mess = s.mess

\* What is owned is claimed, and not by preference; and so it was in the last view.
Firm(s) ==
  \A v \in Vip : /\ s.owner[v] # NoAddr => s.prio[v] = CLAIMED
                 /\ s.oldOwner[v] # NoAddr => s.oldPrio[v] = CLAIMED
Unpreferred(s) == \A v \in Vip : s.prio[v] \in {UNCLAIMED, CLAIMED}

\* A state message of a member that prefers nothing.
PlainState(m) == m.prefer = {} /\ \A v \in DOMAIN m.claims : m.claims[v] = CLAIMED

\* Members[] counts what the table gives to the members that have been heard of, and only
\* they own anything.
LoadsTold(s) ==
  /\ \A k \in DOMAIN s.ip : s.ip[k] # NoAddr => s.num[k] = Load(s.owner, Vip, s.ip[k])
  /\ \A v \in Vip : s.owner[v] # NoAddr => \E k \in DOMAIN s.ip : s.ip[k] = s.owner[v]

Unclaimed(x) == {v \in Vip : x.prio[v] = UNCLAIMED}

\* The unclaimed interfaces are assigned by f.
Given(x, f) ==
  [owner |-> [v \in Vip |-> IF v \in Unclaimed(x) THEN x.ip[f[v]] ELSE x.owner[v]],
   prio  |-> [v \in Vip |-> IF v \in Unclaimed(x) THEN CLAIMED ELSE x.prio[v]],
   num   |-> [k \in DOMAIN x.num |-> x.num[k] + Load(f, Unclaimed(x), k)],
   ip    |-> x.ip]
Allots(x, y) ==
  \E f \in [Unclaimed(x) -> DOMAIN x.num] : IsClaimOrder(x, f) /\ y = Given(x, f)

\* The claims of state message m are merged.
Merged(x, m) ==
  LET fresh == {v \in DOMAIN m.claims : x.owner[v] = NoAddr}
  IN  [owner |-> [v \in Vip |-> IF v \in fresh THEN m.from ELSE x.owner[v]],
       prio  |-> [v \in Vip |-> IF v \in fresh THEN CLAIMED ELSE x.prio[v]],
       num   |-> [x.num EXCEPT ![m.idx] = Cardinality(fresh)],
       ip    |-> [x.ip EXCEPT ![m.idx] = m.from]]

\* The moves of a balance message are made.
Moved(x, moves) ==
  LET touched == {v \in Vip : MovesOf(moves, v) # {}}
      owner   == [v \in Vip |-> IF v \in touched THEN moves[Max(MovesOf(moves, v))].to
                                                 ELSE x.owner[v]]
  IN  [owner |-> owner, prio |-> x.prio,
       num   |-> [k \in DOMAIN x.num |-> x.num[k] + Load(owner, touched, x.ip[k])
                                                  - Load(x.owner, touched, x.ip[k])],
       ip    |-> x.ip]

\* Nothing is loaded by no interface.
LEMMA LoadNone == ASSUME NEW table, NEW a PROVE Load(table, {}, a) = 0
<1>1. {v \in {} : table[v] = a} = {}
  OBVIOUS
<1> QED
  BY <1>1, FS_EmptySet DEF Load

\* Handle_Post_Release leaves the tables alone.
LEMMA PostReleaseRest ==
  ASSUME NEW self, NEW s, Shape(self, s), NEW released
  PROVE  TableOf(PostRelease(s, released)) = TableOf(s) /\ SameRest(s, PostRelease(s, released))
<1> DEFINE r == PostRelease(s, released)
<1>1. /\ r.owner = s.owner /\ r.prio = s.prio /\ r.num = s.num /\ r.ip = s.ip
      /\ SameRest(s, r)
  BY DEF PostRelease, SameRest, Shape, DaemonType
<1> HIDE DEF r
<1> QED
  BY <1>1 DEF TableOf, r

\* Priority_claim leaves the tables alone when nothing is preferred, also where it counts
\* the loads again.
LEMMA PriorityClaimRest ==
  ASSUME NEW self, NEW s, Shape(self, s), Unpreferred(s),
         \A k \in DOMAIN s.num : s.num[k] = Load(s.owner, Vip, s.ip[k])
  PROVE  TableOf(PriorityClaim(s)) = TableOf(s) /\ SameRest(s, PriorityClaim(s))
<1> DEFINE P        == {v \in Vip : s.prio[v] = PREFER}
           acquired == {v \in P : s.owner[v] = s.me /\ s.oldOwner[v] # s.me}
           released == {v \in P : s.oldOwner[v] = s.me /\ s.owner[v] # s.me}
           moved    == {v \in P : s.owner[v] # s.oldOwner[v]}
           base     == Release(Acquire(s, acquired), released)
           load(k)  == IF s.mat /\ ~s.oldMat THEN Load(s.owner, Vip, s.ip[k])
                       ELSE s.num[k] - Load(s.oldOwner, moved, s.ip[k])
                                     + Load(s.owner, moved, s.ip[k])
           num      == [k \in DOMAIN s.num |-> load(k)]
           prio     == [v \in Vip |-> IF v \in P THEN PREFER_CLAIMED ELSE s.prio[v]]
           oldMat   == s.oldMat \/ s.mat
           claimed  == [base EXCEPT !.num = num, !.prio = prio, !.oldMat = oldMat]
<1>1. PriorityClaim(s) = PostRelease(claimed, released)
  BY DEF PriorityClaim
<1>2. P = {}
  BY DEF Unpreferred, UNCLAIMED, CLAIMED, PREFER
<1>3. acquired = {} /\ released = {} /\ moved = {}
  BY <1>2
<1>4. num = s.num
  <2>1. ASSUME NEW k \in DOMAIN s.num PROVE load(k) = s.num[k]
    <3>1. s.num[k] \in Int /\ s.num[k] = Load(s.owner, Vip, s.ip[k])
      BY DEF Shape, DaemonType
    <3>2. Load(s.oldOwner, moved, s.ip[k]) = 0 /\ Load(s.owner, moved, s.ip[k]) = 0
      BY <1>3, LoadNone
    <3> HIDE DEF moved
    <3> QED
      BY <3>1, <3>2
  <2>2. s.num = [k \in DOMAIN s.num |-> s.num[k]]
    BY DEF Shape, DaemonType
  <2> HIDE DEF load
  <2> QED
    BY <2>1, <2>2
<1>5. prio = s.prio
  BY <1>2 DEF Shape, DaemonType
<1>6. /\ Shape(self, base) /\ base.owner = s.owner /\ base.ip = s.ip /\ base.num = s.num
      /\ base.prio = s.prio /\ SameRest(s, base)
  <2>1. Shape(self, Acquire(s, acquired))
    BY <1>3, AcquireShape
  <2>2. Shape(self, base)
    BY <1>3, <2>1, AcquireShape
  <2> HIDE DEF acquired, released
  <2>3. /\ base.owner = s.owner /\ base.ip = s.ip /\ base.num = s.num /\ base.prio = s.prio
        /\ SameRest(s, base)
    BY DEF Release, Acquire, SameRest, Shape, DaemonType
  <2> QED
    BY <2>2, <2>3
<1> HIDE DEF base, num, prio
<1>7. /\ Shape(self, claimed) /\ claimed.owner = s.owner /\ claimed.ip = s.ip
      /\ claimed.num = s.num /\ claimed.prio = s.prio /\ SameRest(s, claimed)
  <2>1. oldMat \in BOOLEAN
    BY DEF Shape, DaemonType
  <2> HIDE DEF oldMat
  <2> QED
    BY ZenonT(60), <1>4, <1>5, <1>6, <2>1 DEF SameRest, Shape, DaemonType
<1> HIDE DEF claimed
<1>8. TableOf(claimed) = TableOf(s)
  BY <1>7 DEF TableOf
<1>9. /\ TableOf(PostRelease(claimed, released)) = TableOf(claimed)
      /\ SameRest(claimed, PostRelease(claimed, released))
  BY <1>7, PostReleaseRest
<1> QED
  BY <1>1, <1>7, <1>8, <1>9 DEF SameRest

\* Claim_unclaimed assigns what is unclaimed, and then everything is claimed.
LEMMA ClaimUnclaimedAllots ==
  ASSUME NEW self, NEW s, Shape(self, s), NEW t \in ClaimUnclaimed(s)
  PROVE  Allots(TableOf(s), TableOf(t)) /\ SameRest(s, t)
<1> DEFINE U == {v \in Vip : s.prio[v] = UNCLAIMED}
<1>1. PICK f \in {g \in [U -> DOMAIN s.num] : IsClaimOrder(s, g)} :
         t = [Acquire(s, {v \in U : f[v] = s.idx}) EXCEPT
                !.num   = [k \in DOMAIN @ |-> @[k] + Load(f, U, k)],
                !.owner = [v \in Vip |-> IF v \in U THEN s.ip[f[v]] ELSE @[v]],
                !.prio  = [v \in Vip |-> IF v \in U THEN CLAIMED ELSE @[v]]]
  BY DEF ClaimUnclaimed
<1> DEFINE mine  == {v \in U : f[v] = s.idx}
           base  == Acquire(s, mine)
           num   == [k \in DOMAIN s.num |-> s.num[k] + Load(f, U, k)]
           owner == [v \in Vip |-> IF v \in U THEN s.ip[f[v]] ELSE s.owner[v]]
           prio  == [v \in Vip |-> IF v \in U THEN CLAIMED ELSE s.prio[v]]
           x     == TableOf(s)
<1>2. /\ Shape(self, base) /\ base.owner = s.owner /\ base.num = s.num /\ base.prio = s.prio
      /\ base.ip = s.ip /\ SameRest(s, base)
  <2>1. mine \in SUBSET Vip
    OBVIOUS
  <2>2. Shape(self, base)
    BY <2>1, AcquireShape
  <2> HIDE DEF mine
  <2>3. /\ base.owner = s.owner /\ base.num = s.num /\ base.prio = s.prio
        /\ base.ip = s.ip /\ SameRest(s, base)
    BY DEF Acquire, SameRest, Shape, DaemonType
  <2> QED
    BY <2>2, <2>3
<1>3. t = [base EXCEPT !.num = num, !.owner = owner, !.prio = prio]
  <2> HIDE DEF base
  <2> QED
    BY <1>1, <1>2 DEF base
<1>4. x.owner = s.owner /\ x.prio = s.prio /\ x.num = s.num /\ x.ip = s.ip
  BY DEF TableOf
<1>5. Unclaimed(x) = U /\ IsClaimOrder(x, f) /\ f \in [Unclaimed(x) -> DOMAIN x.num]
  <2>1. Unclaimed(x) = U
    BY <1>4 DEF Unclaimed
  <2>2. IsClaimOrder(s, f) /\ f \in [U -> DOMAIN s.num]
    BY <1>1
  <2>3. IsClaimOrder(x, f)
    BY <1>4, <2>2 DEF IsClaimOrder
  <2> QED
    BY <1>4, <2>1, <2>2, <2>3
<1>6. t.owner = owner /\ t.prio = prio /\ t.num = num /\ t.ip = s.ip /\ SameRest(s, t)
  <2> HIDE DEF base, num, owner, prio
  <2> QED
    BY <1>2, <1>3 DEF SameRest, Shape, DaemonType
<1>7. TableOf(t) = Given(x, f)
  <2> HIDE DEF x, U
  <2> QED
    BY <1>4, <1>5, <1>6 DEF TableOf, Given
<1> HIDE DEF x
<1> QED
  BY <1>5, <1>6, <1>7 DEF Allots, x

\* The shift to RUN.
LEMMA ShiftToRunAllots ==
  ASSUME NEW self, NEW s, Shape(self, s), Unpreferred(s),
         \A k \in DOMAIN s.num : s.num[k] = Load(s.owner, Vip, s.ip[k]),
         NEW t \in ShiftToRun(s)
  PROVE  Allots(TableOf(s), TableOf(t)) /\ SameRest(s, t)
<1> DEFINE c == PriorityClaim(s)
<1>1. PICK u \in ClaimUnclaimed(c) : t = [u EXCEPT !.state = "RUN", !.tBalance = TRUE]
  BY DEF ShiftToRun
<1>2. Shape(self, c) /\ TableOf(c) = TableOf(s) /\ SameRest(s, c)
  BY PriorityClaimShape, PriorityClaimRest
<1> HIDE DEF c
<1>3. Shape(self, u) /\ Allots(TableOf(c), TableOf(u)) /\ SameRest(c, u)
  BY <1>2, ClaimUnclaimedShape, ClaimUnclaimedAllots
<1>4. t.owner = u.owner /\ t.prio = u.prio /\ t.num = u.num /\ t.ip = u.ip /\ SameRest(u, t)
  BY <1>1, <1>3 DEF SameRest, Shape, DaemonType
<1>5. TableOf(t) = TableOf(u)
  BY <1>4 DEF TableOf
<1> QED
  BY <1>2, <1>3, <1>4, <1>5 DEF SameRest

\* A daemon that has heard of every member.
Heard(s) == \A k \in DOMAIN s.ip : s.ip[k] # NoAddr

\* A daemon whose tables are decided.
Decided(s) == \A v \in Vip : s.prio[v] = CLAIMED

\* Nothing is preferred, and the tables are in order: decided in RUN, told by the members
\* heard of before.
Tidy(s) ==
  /\ Firm(s) /\ Unpreferred(s) /\ s.mess.kind # "balance"
  /\ IF s.state = "RUN" THEN Decided(s) ELSE LoadsTold(s)

\* The shift to RUN decides the tables.
LEMMA ShiftToRunDecides ==
  ASSUME NEW self, NEW s, Shape(self, s), Firm(s), Unpreferred(s), LoadsTold(s), Heard(s),
         NEW t \in ShiftToRun(s)
  PROVE  /\ Allots(TableOf(s), TableOf(t)) /\ t.mess = s.mess
         /\ Firm(t) /\ Unpreferred(t) /\ Decided(t)
<1>1. \A k \in DOMAIN s.num : s.num[k] = Load(s.owner, Vip, s.ip[k])
  BY DEF LoadsTold, Heard, Shape
<1>2. Allots(TableOf(s), TableOf(t)) /\ SameRest(s, t)
  BY <1>1, ShiftToRunAllots
<1>3. t.prio = [v \in Vip |-> IF s.prio[v] = UNCLAIMED THEN CLAIMED ELSE s.prio[v]]
  BY <1>2 DEF Allots, Given, Unclaimed, TableOf
<1>4. Decided(t)
  BY <1>3 DEF Decided, Unpreferred
<1>5. Firm(t)
  BY <1>2, <1>4 DEF Firm, Decided, SameRest
<1> QED
  BY <1>2, <1>4, <1>5 DEF Unpreferred, Decided, SameRest

\* Merging the claims of a member that prefers nothing: it gets what nobody had claimed.
LEMMA MergeClaimsPlain ==
  ASSUME NEW self, NEW s, Shape(self, s), NEW m \in StateMessage, PlainState(m),
         Firm(s), Unpreferred(s), m.idx \in DOMAIN s.ip
  PROVE  LET t == MergeClaims(s, m)
         IN  /\ TableOf(t) = Merged(TableOf(s), m) /\ t.mess = s.mess /\ t.state = s.state
             /\ Firm(t) /\ Unpreferred(t)
<1> DEFINE C     == DOMAIN m.claims
           fresh == {v \in C : s.owner[v] = NoAddr}
           lost  == {v \in C \ fresh : s.prio[v] \in {PREFER_CLAIMED, m.claims[v]}}
           won   == {v \in C \ (fresh \cup lost) :
                       s.prio[v] = CLAIMED /\ m.claims[v] > PREFER}
           released == (IF m.from = s.me THEN lost ELSE {})
                         \cup {v \in won : s.owner[v] = s.me}
           ip    == [s.ip EXCEPT ![m.idx] = m.from]
           owner == [v \in Vip |-> IF v \in fresh \cup won THEN m.from ELSE s.owner[v]]
           prio  == [v \in Vip |-> IF v \in fresh \cup won THEN m.claims[v] ELSE s.prio[v]]
           load(k) == (IF k = m.idx THEN Cardinality(C) - Cardinality(lost) ELSE s.num[k])
                        - Load(s.owner, won, ip[k])
           num   == [k \in DOMAIN s.num |-> load(k)]
           oldOwner == [v \in Vip |-> IF v \in lost \cup won THEN owner[v] ELSE s.oldOwner[v]]
           oldPrio  == [v \in Vip |-> IF v \in lost \cup won THEN prio[v] ELSE s.oldPrio[v]]
           base    == Release(s, released)
           claimed == [base EXCEPT !.ip = ip, !.num = num, !.owner = owner, !.prio = prio,
                                   !.oldOwner = oldOwner, !.oldPrio = oldPrio]
           posted  == PostRelease(claimed, released)
           wanted  == {v \in m.prefer : prio[v] < PREFER}
           owner2  == [v \in Vip |-> IF v \in wanted THEN m.from ELSE owner[v]]
           prio2   == [v \in Vip |-> IF v \in wanted THEN PREFER ELSE prio[v]]
           t       == MergeClaims(s, m)
<1>0. t = [posted EXCEPT !.owner = owner2, !.prio = prio2]
  BY DEF MergeClaims
<1>1. C \in SUBSET Vip /\ \A v \in C : m.claims[v] = CLAIMED
  BY DEF StateMessage, Claims, PlainState
<1>2. lost = C \ fresh
  BY <1>1 DEF Firm
<1>3. won = {} /\ wanted = {}
  BY <1>1, <1>2 DEF PlainState
<1>4. /\ owner = [v \in Vip |-> IF v \in fresh THEN m.from ELSE s.owner[v]]
      /\ prio = [v \in Vip |-> IF v \in fresh THEN CLAIMED ELSE s.prio[v]]
  BY <1>1, <1>3
<1>5. owner2 = owner /\ prio2 = prio
  BY <1>3
<1>6. Cardinality(C) - Cardinality(lost) = Cardinality(fresh)
  <2>1. IsFiniteSet(C) /\ fresh \in SUBSET C
    BY <1>1, VipFinite
  <2>2. IsFiniteSet(fresh) /\ IsFiniteSet(lost)
    BY <1>2, <2>1, FS_Subset, FS_Difference
  <2>3. Cardinality(C \ fresh) = Cardinality(C) - Cardinality(C \cap fresh)
    BY <2>1, FS_Difference
  <2>4. C \cap fresh = fresh
    BY <2>1
  <2>5. Cardinality(C) \in Nat /\ Cardinality(fresh) \in Nat
    BY <2>1, <2>2, FS_CardinalityType
  <2> HIDE DEF C, fresh, lost
  <2> QED
    BY <1>2, <2>3, <2>4, <2>5
<1>7. num = [s.num EXCEPT ![m.idx] = Cardinality(fresh)]
  <2>1. \A k : Load(s.owner, won, ip[k]) = 0
    BY <1>3, LoadNone
  <2>2. \A k \in DOMAIN s.num : s.num[k] \in Int
    BY DEF Shape, DaemonType
  <2>3. Cardinality(fresh) \in Int
    BY <1>1, VipFinite
  <2>4. \A k \in DOMAIN s.num : load(k) = IF k = m.idx THEN Cardinality(fresh) ELSE s.num[k]
    <3> HIDE DEF C, fresh, lost, won, ip
    <3> QED
      BY <1>6, <2>1, <2>2, <2>3
  <2> HIDE DEF load, fresh
  <2> QED
    BY <2>4 DEF Shape, DaemonType
<1>8. Named(base) /\ base.mess = s.mess /\ base.state = s.state /\ "mess" \in DOMAIN base
  <2>1. Shape(self, base)
    BY <1>1, <1>2, <1>3, AcquireShape
  <2>2. base.mess = s.mess /\ base.state = s.state
    BY DEF Release, Shape, DaemonType
  <2> HIDE DEF base
  <2> QED
    BY <2>1, <2>2, ShapeNamed DEF Shape, DaemonType
<1>9. /\ claimed.ip = ip /\ claimed.num = num /\ claimed.owner = owner /\ claimed.prio = prio
      /\ claimed.oldOwner = oldOwner /\ claimed.oldPrio = oldPrio
      /\ claimed.mess = s.mess /\ claimed.state = s.state
      /\ Named(claimed) /\ "mess" \in DOMAIN claimed
  <2> HIDE DEF base, ip, num, owner, prio, oldOwner, oldPrio
  <2> QED
    BY <1>8 DEF Named
<1>10. /\ posted.ip = ip /\ posted.num = num
       /\ posted.oldOwner = oldOwner /\ posted.oldPrio = oldPrio
       /\ posted.mess = s.mess /\ posted.state = s.state
       /\ Named(posted) /\ "mess" \in DOMAIN posted
  <2> HIDE DEF claimed, released, ip, num, owner, prio, oldOwner, oldPrio
  <2> QED
    BY <1>9 DEF PostRelease, Named
<1>11. /\ t.ip = ip /\ t.num = num /\ t.owner = owner /\ t.prio = prio
       /\ t.oldOwner = oldOwner /\ t.oldPrio = oldPrio
       /\ t.mess = s.mess /\ t.state = s.state
  <2> HIDE DEF t, posted, ip, num, owner, prio, oldOwner, oldPrio, owner2, prio2
  <2> QED
    BY <1>0, <1>5, <1>10 DEF Named
<1>12. TableOf(t) = Merged(TableOf(s), m)
  <2>1. TableOf(s).owner = s.owner /\ TableOf(s).prio = s.prio /\ TableOf(s).num = s.num
        /\ TableOf(s).ip = s.ip
    BY DEF TableOf
  <2> HIDE DEF t, owner, prio, num
  <2> QED
    BY <1>4, <1>7, <1>11, <2>1 DEF TableOf, Merged
<1>13. Unpreferred(t)
  <2>1. \A v \in Vip : prio[v] = IF v \in fresh THEN CLAIMED ELSE s.prio[v]
    BY <1>4
  <2>2. t.prio = prio
    BY <1>11
  <2> HIDE DEF t, prio, fresh
  <2>3. \A v \in Vip : s.prio[v] \in {UNCLAIMED, CLAIMED}
    BY DEF Unpreferred
  <2>4. \A v \in Vip : prio[v] \in {UNCLAIMED, CLAIMED}
    BY <2>1, <2>3
  <2> QED
    BY <2>2, <2>4 DEF Unpreferred
<1>14. Firm(t)
  <2>1. \A v \in Vip : owner[v] # NoAddr => prio[v] = CLAIMED
    <3> HIDE DEF owner, prio
    <3> QED
      BY <1>4 DEF Firm
  <2>2. \A v \in Vip : oldOwner[v] # NoAddr => oldPrio[v] = CLAIMED
    <3> HIDE DEF owner, prio, lost
    <3> QED
      BY <1>3, <2>1 DEF Firm
  <2> HIDE DEF t, owner, prio, oldOwner, oldPrio
  <2> QED
    BY <1>11, <2>1, <2>2 DEF Firm
<1> QED
  BY <1>11, <1>12, <1>13, <1>14

\* The member whose claims are merged had not been heard of; then the table tells its load.
LEMMA MergeClaimsTold ==
  ASSUME NEW self, NEW s, Shape(self, s), NEW m \in StateMessage, PlainState(m), LoadsTold(s),
         m.idx \in DOMAIN s.ip, s.ip[m.idx] = NoAddr, m.from # NoAddr,
         \A k \in DOMAIN s.ip : s.ip[k] # m.from,
         NEW t, DOMAIN t.ip = DOMAIN s.ip, TableOf(t) = Merged(TableOf(s), m)
  PROVE  LoadsTold(t)
<1> DEFINE C     == DOMAIN m.claims
           fresh == {v \in C : s.owner[v] = NoAddr}
<1>1. C \in SUBSET Vip
  BY DEF StateMessage, Claims
<1>2. /\ t.owner = [v \in Vip |-> IF v \in fresh THEN m.from ELSE s.owner[v]]
      /\ t.num = [s.num EXCEPT ![m.idx] = Cardinality(fresh)]
      /\ t.ip = [s.ip EXCEPT ![m.idx] = m.from]
  <2>1. TableOf(s).owner = s.owner /\ TableOf(s).num = s.num /\ TableOf(s).ip = s.ip
    BY DEF TableOf
  <2>2. TableOf(t).owner = t.owner /\ TableOf(t).num = t.num /\ TableOf(t).ip = t.ip
    BY DEF TableOf
  <2> QED
    BY <2>1, <2>2 DEF Merged
<1> HIDE DEF C
<1>3. t.ip[m.idx] = m.from /\ \A k \in DOMAIN s.ip : k # m.idx => t.ip[k] = s.ip[k]
  BY <1>2 DEF Shape, DaemonType
<1>4. t.num[m.idx] = Cardinality(fresh) /\ \A k \in DOMAIN s.ip : k # m.idx => t.num[k] = s.num[k]
  BY <1>2 DEF Shape, DaemonType
<1>5. \A v \in Vip : s.owner[v] # m.from
  BY DEF LoadsTold
<1>6. {v \in Vip : t.owner[v] = m.from} = fresh
  BY <1>1, <1>2, <1>5
<1>7. ASSUME NEW k \in DOMAIN s.ip, k # m.idx, s.ip[k] # NoAddr
      PROVE  {v \in Vip : t.owner[v] = s.ip[k]} = {v \in Vip : s.owner[v] = s.ip[k]}
  BY <1>2, <1>7
<1>8. ASSUME NEW k \in DOMAIN t.ip, t.ip[k] # NoAddr PROVE t.num[k] = Load(t.owner, Vip, t.ip[k])
  <2>1. CASE k = m.idx
    <3> HIDE DEF fresh
    <3> QED
      BY <1>3, <1>4, <1>6, <2>1 DEF Load
  <2>2. CASE k # m.idx
    <3>1. /\ t.ip[k] = s.ip[k] /\ t.num[k] = s.num[k] /\ s.ip[k] # NoAddr /\ k \in DOMAIN s.ip
      BY <1>3, <1>4, <1>8, <2>2
    <3>2. s.num[k] = Load(s.owner, Vip, s.ip[k])
      BY <3>1 DEF LoadsTold
    <3>3. {v \in Vip : t.owner[v] = s.ip[k]} = {v \in Vip : s.owner[v] = s.ip[k]}
      BY <1>7, <2>2, <3>1
    <3> QED
      BY <3>1, <3>2, <3>3 DEF Load
  <2> QED
    BY <2>1, <2>2
<1>9. ASSUME NEW v \in Vip, t.owner[v] # NoAddr PROVE \E k \in DOMAIN t.ip : t.ip[k] = t.owner[v]
  <2>1. CASE t.owner[v] = m.from
    BY <1>3, <2>1
  <2>2. CASE t.owner[v] = s.owner[v]
    <3>1. PICK k \in DOMAIN s.ip : s.ip[k] = s.owner[v]
      BY <1>9, <2>2 DEF LoadsTold
    <3>2. k # m.idx
      BY <1>9, <2>2, <3>1
    <3> QED
      BY <1>3, <2>2, <3>1, <3>2
  <2>3. t.owner[v] \in {m.from, s.owner[v]}
    <3> HIDE DEF fresh
    <3> QED
      BY <1>2
  <2> QED
    BY <2>1, <2>2, <2>3
<1> QED
  BY <1>8, <1>9 DEF LoadsTold

\* Handle_mature, in a view: the tables are decided by the daemon that has heard of all
\* members and becomes mature with it.
LEMMA HandleMatureTidy ==
  ASSUME NEW self, NEW s, Shape(self, s), Tidy(s), s.state = "RUN" => s.mat,
         s.state = "GATHER" \/ Heard(s), NEW t \in HandleMature(s)
  PROVE  /\ Tidy(t) /\ t.mat
         /\ IF t.state = "RUN" /\ s.state # "RUN" THEN Allots(TableOf(s), TableOf(t))
                                                  ELSE TableOf(t) = TableOf(s)
<1> DEFINE matured == [s EXCEPT !.mat = TRUE, !.tMature = FALSE]
<1>1. /\ Shape(self, matured) /\ matured.mat /\ matured.state = s.state /\ matured.mess = s.mess
      /\ matured.owner = s.owner /\ matured.prio = s.prio /\ matured.num = s.num
      /\ matured.ip = s.ip /\ matured.oldOwner = s.oldOwner /\ matured.oldPrio = s.oldPrio
  BY DEF Shape, DaemonType
<1>2. CASE t = s /\ s.mat
  BY <1>2
<1>3. CASE s.state = "GATHER" /\ t = matured
  <2> HIDE DEF matured
  <2>1. Firm(t) /\ Unpreferred(t) /\ LoadsTold(t)
    BY <1>1, <1>3 DEF Tidy, Firm, Unpreferred, LoadsTold
  <2>2. TableOf(t) = TableOf(s)
    BY <1>1, <1>3 DEF TableOf
  <2> QED
    BY <1>1, <1>3, <2>1, <2>2 DEF Tidy
<1>4. CASE ~s.mat /\ s.state # "GATHER" /\ t \in ShiftToRun(matured)
  <2>0. s.state # "RUN"
    BY <1>4
  <2> HIDE DEF matured
  <2>1. Firm(matured) /\ Unpreferred(matured) /\ LoadsTold(matured) /\ Heard(matured)
    BY <1>1, <1>4, <2>0 DEF Tidy, Firm, Unpreferred, LoadsTold, Heard
  <2>2. TableOf(matured) = TableOf(s)
    BY <1>1 DEF TableOf
  <2>3. /\ Allots(TableOf(matured), TableOf(t)) /\ t.mess = matured.mess
        /\ Firm(t) /\ Unpreferred(t) /\ Decided(t)
    BY <1>1, <1>4, <2>1, ShiftToRunDecides
  <2>4. t.state = "RUN" /\ Same([matured EXCEPT !.state = "RUN"], t)
    BY <1>1, <1>4, ShiftToRunSame
  <2>5. t.mat
    BY <1>1, <2>4 DEF Same, Shape, DaemonType
  <2> QED
    BY <1>1, <2>0, <2>2, <2>3, <2>4, <2>5 DEF Tidy
<1> QED
  BY <1>2, <1>3, <1>4 DEF HandleMature

\* The end of Handle_state: with the last message a mature daemon decides.
LEMMA CountStateTidy ==
  ASSUME NEW self, NEW s, Shape(self, s), Tidy(s), s.state = "GATHER",
         s.pending - 1 = 0 => Heard(s), NEW t \in CountState(s)
  PROVE  /\ Tidy(t) /\ t.mat = s.mat
         /\ IF t.state = "RUN" THEN Allots(TableOf(s), TableOf(t)) ELSE TableOf(t) = TableOf(s)
<1> DEFINE counted == [s EXCEPT !.pending = s.pending - 1]
<1>0. s.pending - 1 \in Int
  BY DEF Shape, DaemonType
<1>1. /\ Shape(self, counted) /\ counted.pending = s.pending - 1 /\ counted.state = "GATHER"
      /\ counted.mat = s.mat /\ counted.mess = s.mess
      /\ counted.owner = s.owner /\ counted.prio = s.prio /\ counted.num = s.num
      /\ counted.ip = s.ip /\ counted.oldOwner = s.oldOwner /\ counted.oldPrio = s.oldPrio
  BY <1>0 DEF Shape, DaemonType
<1>2. [s EXCEPT !.pending = @ - 1] = counted
  BY DEF Shape, DaemonType
<1> HIDE DEF counted
<1>3. Firm(counted) /\ Unpreferred(counted) /\ LoadsTold(counted) /\ counted.mess.kind # "balance"
  BY <1>1 DEF Tidy, Firm, Unpreferred, LoadsTold
<1>4. TableOf(counted) = TableOf(s)
  BY <1>1 DEF TableOf
<1>5. CASE counted.pending # 0
  <2>1. t = counted
    BY <1>2, <1>5 DEF CountState
  <2> QED
    BY <1>1, <1>3, <1>4, <2>1 DEF Tidy
<1>6. CASE counted.pending = 0 /\ s.mat
  <2>1. t \in ShiftToRun(counted)
    BY <1>2, <1>6 DEF CountState
  <2>2. Heard(counted)
    BY <1>1, <1>6 DEF Heard
  <2>3. /\ Allots(TableOf(counted), TableOf(t)) /\ t.mess = counted.mess
        /\ Firm(t) /\ Unpreferred(t) /\ Decided(t)
    BY <1>1, <1>3, <2>1, <2>2, ShiftToRunDecides
  <2>4. t.state = "RUN" /\ Same([counted EXCEPT !.state = "RUN"], t)
    BY <1>1, <2>1, ShiftToRunSame
  <2>5. t.mat = s.mat
    BY <1>1, <2>4 DEF Same, Shape, DaemonType
  <2> QED
    BY <1>3, <1>4, <2>3, <2>4, <2>5 DEF Tidy
<1>7. CASE counted.pending = 0 /\ ~s.mat
  <2>1. t = [counted EXCEPT !.state = "BOOT"]
    BY <1>2, <1>7 DEF CountState
  <2>2. /\ t.state = "BOOT" /\ t.mat = s.mat /\ t.mess = counted.mess
        /\ t.owner = counted.owner /\ t.prio = counted.prio /\ t.num = counted.num
        /\ t.ip = counted.ip /\ t.oldOwner = counted.oldOwner /\ t.oldPrio = counted.oldPrio
    BY <1>1, <2>1 DEF Shape, DaemonType
  <2>3. Firm(t) /\ Unpreferred(t) /\ LoadsTold(t)
    BY <1>3, <2>2 DEF Firm, Unpreferred, LoadsTold
  <2>4. TableOf(t) = TableOf(counted)
    BY <2>2 DEF TableOf
  <2> QED
    BY <1>3, <1>4, <2>2, <2>3, <2>4 DEF Tidy
<1> QED
  BY <1>5, <1>6, <1>7

\* The state message m comes from a member that had not been heard of, and who else had not
\* is still waited for.
Awaited(s, m) ==
  /\ m.idx \in DOMAIN s.ip /\ s.ip[m.idx] = NoAddr /\ m.from # NoAddr
  /\ \A k \in DOMAIN s.ip : s.ip[k] # m.from
  /\ s.pending - 1 = 0 => \A k \in DOMAIN s.ip : k # m.idx => s.ip[k] # NoAddr

\* Handle_state in the view of the message.
LEMMA HandleStateTidy ==
  ASSUME NEW self, NEW s, Shape(self, s), Tidy(s), s.state = "GATHER",
         NEW m \in StateMessage, PlainState(m), m.gid = s.gid, Awaited(s, m),
         NEW t \in HandleState(s, m)
  PROVE  /\ Tidy(t) /\ (t.mat <=> s.mat \/ m.mat)
         /\ IF t.state = "RUN" THEN Allots(Merged(TableOf(s), m), TableOf(t))
                               ELSE TableOf(t) = Merged(TableOf(s), m)
<1> DEFINE merged == MergeClaims(s, m)
<1>1. /\ Shape(self, merged) /\ TableOf(merged) = Merged(TableOf(s), m) /\ merged.mess = s.mess
      /\ merged.state = "GATHER" /\ Firm(merged) /\ Unpreferred(merged)
  BY MergeClaimsShape, MergeClaimsPlain DEF Tidy, Awaited
<1>2. /\ merged.ip = [s.ip EXCEPT ![m.idx] = m.from] /\ merged.mat = s.mat
      /\ merged.pending = s.pending
  BY ShapeNamed, MergeClaimsSame DEF Same
<1> HIDE DEF merged
<1>3. DOMAIN merged.ip = DOMAIN s.ip
  BY <1>2
<1>4. LoadsTold(merged)
  BY <1>1, <1>3, MergeClaimsTold DEF Tidy, Awaited
<1>5. merged.pending - 1 = 0 => Heard(merged)
  BY <1>2 DEF Awaited, Heard
<1>6. Tidy(merged)
  BY <1>1, <1>4 DEF Tidy
<1>7. PICK u \in IF ~s.mat /\ m.mat THEN HandleMature(merged) ELSE {merged} :
         t \in CountState(u)
  BY DEF HandleState, merged
<1>8. /\ Shape(self, u) /\ Tidy(u) /\ u.state = "GATHER" /\ (u.mat <=> s.mat \/ m.mat)
      /\ TableOf(u) = TableOf(merged) /\ u.pending = merged.pending /\ u.ip = merged.ip
  <2>1. CASE ~(~s.mat /\ m.mat)
    <3>1. u = merged
      BY <1>7, <2>1
    <3>2. merged.mat <=> s.mat \/ m.mat
      BY <1>2, <2>1
    <3> QED
      BY <1>1, <1>6, <3>1, <3>2
  <2>2. CASE ~s.mat /\ m.mat
    <3>0. u \in HandleMature(merged)
      BY <1>7, <2>2
    <3>1. Shape(self, u) /\ Decides(merged, u)
      BY <1>1, <3>0, HandleMatureShape, HandleMatureDecides
    <3>2. u.state = "GATHER" /\ u.ip = merged.ip
      BY <1>1, <3>1 DEF Decides
    <3>3. u.pending = merged.pending
      BY <1>1, <3>1 DEF Decides, Same, Shape, DaemonType
    <3>4. /\ Tidy(u) /\ u.mat /\ TableOf(u) = TableOf(merged)
      BY <1>1, <1>6, <3>0, <3>2, HandleMatureTidy
    <3> QED
      BY <2>2, <3>1, <3>2, <3>3, <3>4
  <2> QED
    BY <2>1, <2>2
<1>9. u.pending - 1 = 0 => Heard(u)
  BY <1>5, <1>8 DEF Heard
<1>10. /\ Tidy(t) /\ t.mat = u.mat
       /\ IF t.state = "RUN" THEN Allots(TableOf(u), TableOf(t)) ELSE TableOf(t) = TableOf(u)
  BY <1>7, <1>8, <1>9, CountStateTidy
<1> QED
  BY <1>1, <1>8, <1>10

\* The moves that Handle_balance reads of a message.
MovesRead(m) == IF m.count < Len(m.moves) THEN SubSeq(m.moves, 1, m.count) ELSE m.moves

\* They are moves.
LEMMA MovesReadType ==
  ASSUME NEW m \in BalanceMessage
  PROVE  MovesRead(m) \in Seq(Move)
<1>1. m.moves \in Seq(Move) /\ m.count \in Nat
  BY DEF BalanceMessage
<1>2. m.count < Len(m.moves) => SubSeq(m.moves, 1, m.count) \in Seq(Move)
  BY <1>1
<1> QED
  BY <1>1, <1>2 DEF MovesRead

\* The moves of a balance message change owners and loads only.
LEMMA ApplyMovesTable ==
  ASSUME NEW self, NEW s, Shape(self, s), NEW moves \in Seq(Move)
  PROVE  /\ TableOf(ApplyMoves(s, moves)) = Moved(TableOf(s), moves)
         /\ SameRest(s, ApplyMoves(s, moves))
<1> DEFINE touched == {v \in Vip : MovesOf(moves, v) # {}}
           final(v) == moves[Max(MovesOf(moves, v))].to
           owner   == [v \in Vip |-> IF v \in touched THEN final(v) ELSE s.owner[v]]
           concern(v) == {i \in MovesOf(moves, v) :
                            s.me \in {moves[i].to, OwnerFound(s, moves, i)}}
           leftUp(v) == IF concern(v) = {} THEN v \in s.up
                        ELSE OwnerFound(s, moves, Max(concern(v))) # s.me
           taken   == {i \in 1..Len(moves) : OwnerFound(s, moves, i) = s.me}
           given   == {i \in 1..Len(moves) : moves[i].to = s.me}
           up      == {v \in Vip : leftUp(v)}
           mine    == s.mine + Cardinality(given) - Cardinality(taken)
           num     == [k \in DOMAIN s.num |-> s.num[k] + Load(owner, touched, s.ip[k])
                                                       - Load(s.owner, touched, s.ip[k])]
           moved   == [s EXCEPT !.owner = owner, !.up = up, !.mine = mine, !.num = num]
           t       == ApplyMoves(s, moves)
<1>1. t = PostRelease(moved, taken)
  BY DEF ApplyMoves
<1>2. /\ moved.owner = owner /\ moved.prio = s.prio /\ moved.num = num /\ moved.ip = s.ip
      /\ SameRest(s, moved)
      /\ {"owner", "prio", "num", "ip", "oldOwner", "oldPrio", "mess", "up"} \subseteq DOMAIN moved
  <2> HIDE DEF owner, up, mine, num
  <2> QED
    BY DEF SameRest, Shape, DaemonType
<1>3. /\ t.owner = owner /\ t.prio = s.prio /\ t.num = num /\ t.ip = s.ip
      /\ SameRest(s, t)
  <2> HIDE DEF moved, taken, owner, num, t
  <2> QED
    BY <1>1, <1>2 DEF PostRelease, SameRest
<1>4. TableOf(t) = Moved(TableOf(s), moves)
  <2>1. TableOf(s).owner = s.owner /\ TableOf(s).prio = s.prio /\ TableOf(s).num = s.num
        /\ TableOf(s).ip = s.ip
    BY DEF TableOf
  <2> HIDE DEF t
  <2> QED
    BY <1>3, <2>1 DEF TableOf, Moved
<1> QED
  BY <1>3, <1>4

\* What SP_receive leaves in Mess is no balance message, unless those stay there.
LEMMA ReceivedTidy ==
  ASSUME NEW self, NEW s, Shape(self, s), Tidy(s), "balance" \notin StaleKinds,
         NEW m \in GroupMessage
  PROVE  LET r == Received(s, m)
         IN  /\ Tidy(r) /\ TableOf(r) = TableOf(s) /\ InBuffer(s, m) = m
             /\ r.num = s.num
<1> DEFINE mess == CASE m.kind = "mature"     -> s.mess
                     [] m.kind \in StaleKinds -> InBuffer(s, m)
                     [] OTHER                 -> Junk
           r    == Received(s, m)
<1>1. InBuffer(s, m) = m
  BY DEF InBuffer, Tidy
<1>2. r = [s EXCEPT !.last = m.kind, !.mess = mess]
  BY DEF Received, Shape, DaemonType
<1>3. mess.kind # "balance"
  <2>1. CASE m.kind = "mature"
    <3>1. mess = s.mess
      BY <2>1, ConfigAssumption
    <3> HIDE DEF mess
    <3> QED
      BY <3>1 DEF Tidy
  <2>2. CASE m.kind # "mature" /\ m.kind \in StaleKinds
    BY <1>1, <2>2
  <2>3. CASE m.kind # "mature" /\ m.kind \notin StaleKinds
    <3>1. mess = Junk
      BY <2>3
    <3> HIDE DEF mess
    <3> QED
      BY <3>1 DEF Junk
  <2> QED
    BY <2>1, <2>2, <2>3
<1> HIDE DEF mess, r
<1>4. /\ r.owner = s.owner /\ r.prio = s.prio /\ r.num = s.num /\ r.ip = s.ip
      /\ r.oldOwner = s.oldOwner /\ r.oldPrio = s.oldPrio /\ r.mess = mess /\ r.state = s.state
  BY <1>2 DEF Shape, DaemonType
<1>5. Tidy(r)
  BY <1>3, <1>4 DEF Tidy, Firm, Unpreferred, LoadsTold, Decided
<1>6. TableOf(r) = TableOf(s)
  BY <1>4 DEF TableOf
<1> QED
  BY <1>1, <1>4, <1>5, <1>6 DEF r

\* A state message of this view is received.
LEMMA ReceiveStateTidy ==
  ASSUME NEW self, NEW s, Shape(self, s), Tidy(s), "balance" \notin StaleKinds,
         s.state = "GATHER", NEW m \in StateMessage, PlainState(m), m.gid = s.gid, Awaited(s, m),
         NEW t \in Receive(s, m)
  PROVE  /\ Tidy(t) /\ (t.mat <=> s.mat \/ m.mat)
         /\ IF t.state = "RUN" THEN Allots(Merged(TableOf(s), m), TableOf(t))
                               ELSE TableOf(t) = Merged(TableOf(s), m)
<1> DEFINE r == Received(s, m)
<1>1. m \in GroupMessage /\ m.kind = "state"
  BY DEF GroupMessage, Message, StateMessage
<1>2. Shape(self, r) /\ Same(s, r) /\ r.ip = s.ip
  BY <1>1, ReceivedSame
<1>3. Tidy(r) /\ TableOf(r) = TableOf(s)
  BY <1>1, ReceivedTidy
<1>4. t \in HandleState(r, m)
  BY <1>1 DEF Receive, Received, InBuffer, Dispatch
<1> HIDE DEF r
<1>5. Awaited(r, m) /\ r.state = "GATHER" /\ m.gid = r.gid /\ r.mat = s.mat
  BY <1>2 DEF Awaited, Same
<1>6. /\ Tidy(t) /\ (t.mat <=> r.mat \/ m.mat)
      /\ IF t.state = "RUN" THEN Allots(Merged(TableOf(r), m), TableOf(t))
                            ELSE TableOf(t) = Merged(TableOf(r), m)
  BY <1>2, <1>3, <1>4, <1>5, HandleStateTidy
<1> QED
  BY <1>3, <1>5, <1>6

\* The maturing message is received.
LEMMA ReceiveMatureTidy ==
  ASSUME NEW self, NEW s, Shape(self, s), Tidy(s), "balance" \notin StaleKinds,
         s.state = "RUN" => s.mat, s.state = "GATHER" \/ Heard(s),
         NEW t \in Receive(s, MaturingMessage)
  PROVE  /\ Tidy(t) /\ t.mat
         /\ IF t.state = "RUN" /\ s.state # "RUN" THEN Allots(TableOf(s), TableOf(t))
                                                  ELSE TableOf(t) = TableOf(s)
<1> DEFINE m == MaturingMessage
           r == Received(s, m)
<1>1. m \in GroupMessage /\ m.kind = "mature"
  BY DEF GroupMessage, Message, MaturingMessage
<1>2. Shape(self, r) /\ Same(s, r) /\ r.ip = s.ip
  BY <1>1, ReceivedSame
<1>3. Tidy(r) /\ TableOf(r) = TableOf(s)
  BY <1>1, ReceivedTidy
<1>4. t \in HandleMature(r)
  BY DEF Receive, Received, InBuffer, Dispatch, MaturingMessage
<1> HIDE DEF r
<1>5. r.state = s.state /\ r.mat = s.mat /\ (r.state = "GATHER" \/ Heard(r))
  BY <1>2 DEF Heard, Same
<1> QED
  BY <1>2, <1>3, <1>4, <1>5, HandleMatureTidy

\* A balance message is received: in RUN its moves are made, and all stays decided.
LEMMA ReceiveBalanceTidy ==
  ASSUME NEW self, NEW s, Shape(self, s), Tidy(s), "balance" \notin StaleKinds,
         NEW m \in BalanceMessage, NEW t \in Receive(s, m)
  PROVE  /\ Tidy(t) /\ t.mat = s.mat /\ t.state = s.state
         /\ TableOf(t) = IF s.state = "RUN" THEN Moved(TableOf(s), MovesRead(m)) ELSE TableOf(s)
<1> DEFINE r == Received(s, m)
<1>1. m \in GroupMessage /\ m.kind = "balance"
  BY DEF GroupMessage, Message, BalanceMessage
<1>2. Shape(self, r) /\ Same(s, r) /\ r.ip = s.ip
  BY <1>1, ReceivedSame
<1>3. Tidy(r) /\ TableOf(r) = TableOf(s) /\ InBuffer(s, m) = m
  BY <1>1, ReceivedTidy
<1>4. t \in Dispatch(r, m)
  BY <1>3 DEF Receive, Received
<1> HIDE DEF r
<1>5. t = HandleBalance(r, m)
  BY <1>1, <1>4 DEF Dispatch
<1>6. CASE s.state # "RUN"
  <2>1. t = r
    BY <1>2, <1>5, <1>6 DEF HandleBalance, Same
  <2> QED
    BY <1>2, <1>3, <1>6, <2>1 DEF Same
<1>7. CASE s.state = "RUN"
  <2>1. t = ApplyMoves(r, MovesRead(m))
    BY <1>2, <1>5, <1>7 DEF HandleBalance, Same, MovesRead
  <2>2. MovesRead(m) \in Seq(Move)
    <3>1. m.moves \in Seq(Move) /\ m.count \in Nat
      BY DEF BalanceMessage
    <3> QED
      BY <3>1 DEF MovesRead
  <2>3. TableOf(t) = Moved(TableOf(r), MovesRead(m)) /\ SameRest(r, t)
    BY <1>2, <2>1, <2>2, ApplyMovesTable
  <2>4. Same(r, t)
    BY <1>2, <2>1, ShapeNamed, ApplyMovesSame
  <2>5. t.prio = r.prio
    BY <2>3 DEF Moved, TableOf
  <2>6. Decided(r) /\ Firm(r) /\ r.mess.kind # "balance"
    BY <1>2, <1>3, <1>7 DEF Tidy, Same
  <2>7. Decided(t)
    BY <2>5, <2>6 DEF Decided
  <2>8. Firm(t) /\ Unpreferred(t)
    BY <2>3, <2>6, <2>7 DEF Firm, Unpreferred, Decided, SameRest
  <2> QED
    BY <1>2, <1>3, <1>7, <2>3, <2>4, <2>6, <2>7, <2>8 DEF Tidy, Same, SameRest
<1> QED
  BY <1>6, <1>7

\* A state message of another view, or one of the ARP cache, is received.
LEMMA ReceiveIdleTidy ==
  ASSUME NEW self, NEW s, Shape(self, s), Tidy(s), "balance" \notin StaleKinds,
         NEW m \in StateMessage \cup {ArpMessage}, m.kind = "state" => m.gid # s.gid,
         NEW t \in Receive(s, m)
  PROVE  /\ Tidy(t) /\ t.mat = s.mat /\ t.state = s.state /\ TableOf(t) = TableOf(s)
<1> DEFINE r == Received(s, m)
<1>1. m \in GroupMessage /\ m.kind \in {"state", "arp"}
  BY DEF GroupMessage, Message, StateMessage, ArpMessage
<1>2. Shape(self, r) /\ Same(s, r) /\ r.ip = s.ip
  BY <1>1, ReceivedSame
<1>3. Tidy(r) /\ TableOf(r) = TableOf(s) /\ InBuffer(s, m) = m
  BY <1>1, ReceivedTidy
<1>4. t \in Dispatch(r, m)
  BY <1>3 DEF Receive, Received
<1> HIDE DEF r
<1>5. t = r
  <2>1. CASE m.kind = "state"
    BY <1>2, <1>4, <2>1 DEF Dispatch, HandleState, Same
  <2>2. CASE m.kind = "arp"
    BY <1>4, <2>2 DEF Dispatch
  <2> QED
    BY <1>1, <2>1, <2>2
<1> QED
  BY <1>2, <1>3, <1>5 DEF Same

\* Claim_unclaimed leaves it open to nobody: the order of the table and of the members
\* settles who gets what.
LEMMA AllotsUnique ==
  ASSUME NEW x, DOMAIN x.num \subseteq Nat, \A k \in DOMAIN x.num : x.num[k] \in Int,
         NEW y, Allots(x, y), NEW z, Allots(x, z)
  PROVE  y = z
<1> DEFINE U == Unclaimed(x)
           before(f, v, k) == {u \in U : u < v /\ f[u] = k}
           load(f, v, k) == x.num[k] + Cardinality(before(f, v, k))
<1>1. PICK f \in [U -> DOMAIN x.num] : IsClaimOrder(x, f) /\ y = Given(x, f)
  BY DEF Allots
<1>2. PICK g \in [U -> DOMAIN x.num] : IsClaimOrder(x, g) /\ z = Given(x, g)
  BY DEF Allots
<1>3. U \in SUBSET Vip /\ \A v \in U : v \in Nat
  BY DEF Unclaimed, Vip
<1>4. ASSUME NEW h \in [U -> DOMAIN x.num], IsClaimOrder(x, h), NEW v \in U, NEW k \in DOMAIN x.num
      PROVE  load(h, v, h[v]) <= load(h, v, k) /\ (k < h[v] => load(h, v, h[v]) < load(h, v, k))
  BY <1>4 DEF IsClaimOrder
<1>5. \A h, v, k : k \in DOMAIN x.num => load(h, v, k) \in Int
  <2> SUFFICES ASSUME NEW h, NEW v, NEW k \in DOMAIN x.num PROVE load(h, v, k) \in Int
    OBVIOUS
  <2>1. before(h, v, k) \in SUBSET Vip
    BY <1>3
  <2>2. Cardinality(before(h, v, k)) \in Nat
    BY <2>1, VipFinite
  <2> HIDE DEF before
  <2> QED
    BY <2>2
<1>6. f = g
  <2> SUFFICES ASSUME f # g PROVE FALSE
    OBVIOUS
  <2> DEFINE D == {v \in U : f[v] # g[v]}
             v == Min(D)
  <2>1. D \in SUBSET Nat /\ D # {}
    BY <1>3
  <2> HIDE DEF D
  <2>2. v \in D /\ \A u \in D : v <= u
    BY <2>1, HasMin
  <2> HIDE DEF v
  <2>3. v \in U /\ f[v] # g[v]
    BY <2>2 DEF D
  <2>4. \A u \in U : u < v => f[u] = g[u]
    BY <1>3, <2>2, <2>3 DEF D
  <2>5. \A k : before(f, v, k) = before(g, v, k)
    BY <2>4
  <2>6. \A k : load(f, v, k) = load(g, v, k)
    <3> HIDE DEF before
    <3> QED
      BY <2>5
  <2>7. f[v] \in DOMAIN x.num /\ g[v] \in DOMAIN x.num /\ f[v] \in Nat /\ g[v] \in Nat
    BY <2>3
  <2> HIDE DEF load
  <2>8. /\ load(f, v, f[v]) <= load(f, v, g[v])
        /\ g[v] < f[v] => load(f, v, f[v]) < load(f, v, g[v])
    BY <1>1, <1>4, <2>3, <2>7
  <2>9. /\ load(g, v, g[v]) <= load(g, v, f[v])
        /\ f[v] < g[v] => load(g, v, g[v]) < load(g, v, f[v])
    BY <1>2, <1>4, <2>3, <2>7
  <2>10. load(f, v, f[v]) \in Int /\ load(f, v, g[v]) \in Int
    BY <1>5, <2>7
  <2>11. load(g, v, f[v]) = load(f, v, f[v]) /\ load(g, v, g[v]) = load(f, v, g[v])
    BY <2>6
  <2>12. f[v] < g[v] \/ g[v] < f[v]
    BY <2>3, <2>7
  <2> QED
    BY <2>8, <2>9, <2>10, <2>11, <2>12
<1> QED
  BY <1>1, <1>2, <1>6
=============================================================================
