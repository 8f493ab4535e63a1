---------------------------- MODULE DaemonTables ----------------------------
(***************************************************************************)
(* The interfaces and the tables of module Daemon: what is up is what the  *)
(* tables give to the daemon (UpCorrect), My.num_allocated counts it       *)
(* (CountCorrect), and the assertion of Send_state_message never fails     *)
(* (AssertCorrect).                                                        *)
(*                                                                         *)
(* They follow from one invariant, TableInv, which says what the two       *)
(* tables have to do with each other in each phase of a view: before the   *)
(* state message of the daemon has come back no entry is its own           *)
(* (Waiting), then an entry that nobody prefers is its own exactly if it  *)
(* was before the view (Gathered), and after the decision Old_table does   *)
(* not matter (Served).                                                   *)
(***************************************************************************)
EXTENDS DaemonProofs, WackamoleTables

-----------------------------------------------------------------------------
(* The invariant. *)

\* In a view: the daemon is in the list of members from its own state message on, and
\* the tables are those of the phase.
PhaseInv ==
  /\ \A k \in DOMAIN d.ip : d.ip[k] = Me <=> (k = d.idx /\ own = NoMessage)
  /\ IF own # NoMessage THEN Waiting(d) /\ Claiming(d, own)
     ELSE IF d.state = "RUN" THEN Served(d) ELSE Gathered(d)

TableInv ==
  /\ d.exit # "assert"
  /\ Running => /\ HeldClaimed(d)
                /\ d.mbox => Counted(d)
                /\ inView => d.state # "ZERO" /\ PhaseInv
                /\ ~inView => Owned(d) = {} /\ Held(d) = {}

\* A daemon that still waits for its own message gathers.
LEMMA WaitingGathers ==
  ASSUME TypeOK, SafetyInv, Running, inView, own # NoMessage
  PROVE  d.state = "GATHER" /\ d.idx \in DOMAIN d.ip \ heard /\ own.idx = d.idx
<1>1. IsFiniteSet(DOMAIN d.ip \ heard)
  <2>1. DOMAIN d.ip = 1..Len(d.ip) /\ Len(d.ip) \in Nat
    BY DEF TypeOK, DaemonType
  <2>2. IsFiniteSet(DOMAIN d.ip)
    BY <2>1, FS_Interval
  <2> QED
    BY <2>2, FS_Subset
<1>2. d.idx \in DOMAIN d.ip \ heard /\ own.idx = d.idx
  BY DEF SafetyInv, CountInv
<1>3. Cardinality(DOMAIN d.ip \ heard) # 0
  BY <1>1, <1>2, FS_EmptySet
<1> QED
  BY <1>2, <1>3 DEF SafetyInv, CountInv

\* What is up is what a new view would freeze.
LEMMA FrozenUp ==
  ASSUME TypeOK, SafetyInv, TableInv, Running
  PROVE  /\ d.up = Frozen(d)
         /\ \A v \in Frozen(d) :
              (IF d.state \in {"GATHER", "BOOT"} THEN d.oldPrio[v] ELSE d.prio[v])
                \in {CLAIMED, PREFER_CLAIMED}
<1>1. CASE ~inView
  <2>1. d.up = {} /\ Owned(d) = {} /\ Held(d) = {}
    BY <1>1 DEF SafetyInv, OutsideInv, Running, TableInv
  <2> QED
    BY <2>1 DEF Frozen
<1>2. CASE inView /\ d.state \in {"GATHER", "BOOT"}
  <2>1. d.up = Held(d)
    BY <1>2 DEF TableInv, PhaseInv, Waiting, Gathered
  <2> QED
    BY <1>2, <2>1 DEF Frozen, TableInv, HeldClaimed
<1>3. CASE inView /\ d.state \notin {"GATHER", "BOOT"}
  <2>1. d.state = "RUN"
    BY <1>3 DEF TypeOK, DaemonType, DaemonState, TableInv
  <2>2. own = NoMessage
    BY <1>3, <2>1, WaitingGathers
  <2>3. Served(d)
    BY <1>3, <2>1, <2>2 DEF TableInv, PhaseInv
  <2> QED
    BY <1>3, <2>3 DEF Frozen, Served, Owned
<1> QED
  BY <1>1, <1>2, <1>3

\* A session that has ended leaves nothing to relate.
LEMMA EndedTables ==
  ASSUME NEW t, Shape(Me, t), NEW x, Holds(t, x), ~SameSession(t),
         NEW v, NEW h, NEW o, Outcome(t, v, h, o)
  PROVE  TableInv'
<1>1. d' = [t EXCEPT !.out = <<>>] /\ ~inView'
  BY DEF Outcome
<1>2. /\ d'.exit = t.exit /\ d'.mbox = t.mbox /\ d'.up = t.up /\ d'.mine = t.mine
      /\ d'.owner = t.owner /\ d'.oldOwner = t.oldOwner /\ d'.me = Me
  BY <1>1 DEF Shape, DaemonType
<1>3. t.exit # "assert" /\ (t.exit = "no" => Cleared(t))
  BY DEF Holds
<1>4. ASSUME Running'
      PROVE  Owned(d') = {} /\ Held(d') = {} /\ (d'.mbox => Counted(d'))
  <2>1. /\ d'.owner = Nobody /\ d'.oldOwner = Nobody /\ d'.up = {}
        /\ d'.mbox => d'.mine = 0
    BY <1>2, <1>3, <1>4 DEF Running, Cleared
  <2>2. \A v1 \in Vip : Nobody[v1] # Me
    BY MeAssumption, AddressAssumption DEF Nobody
  <2>3. Cardinality({}) = 0
    BY FS_EmptySet
  <2> QED
    BY <1>2, <2>1, <2>2, <2>3 DEF Owned, Held, Counted
<1>5. ASSUME Running' PROVE HeldClaimed(d')
  BY <1>4, <1>5 DEF HeldClaimed
<1> QED
  BY <1>1, <1>2, <1>3, <1>4, <1>5 DEF TableInv

\* A timer or a command ends the session or keeps everything.
LEMMA LocalTables ==
  ASSUME TypeOK, SafetyInv, TableInv, NEW S, Local(S),
         \A t \in S : Shape(Me, t) /\ (Ended(d, t) \/ Kept(d, t)) /\ Holds(t, d)
  PROVE  TableInv'
<1>1. Running /\ Shape(Me, d) /\ d.out = <<>>
  BY DEF Local, TypeOK, Shape, SafetyInv, SessionInv
<1>2. PICK t \in S : Outcome(t, inView, heard, own)
  BY HandleOutcome DEF Local
<1>3. CASE ~SameSession(t)
  BY <1>2, <1>3, EndedTables
<1>4. CASE SameSession(t)
  <2>1. Shape(Me, t) /\ Kept(d, t) /\ SameTables(d, t)
    BY <1>4 DEF Ended, SameSession, Holds
  <2>2. d' = [t EXCEPT !.out = <<>>] /\ inView' = inView /\ own' = own
    BY <1>2, <1>4, <2>1 DEF Outcome, Kept, TypeOK
  <2>3. t.up = d.up /\ t.ip = d.ip /\ t.idx = d.idx /\ t.state = d.state
        /\ t.exit = d.exit /\ t.mbox = d.mbox
    BY <1>1, <2>1 DEF Kept, Same, Shape, DaemonType
  <2>4. /\ Untouched(d, d') /\ Shape(Me, d') /\ d'.state = d.state /\ d'.exit = d.exit
        /\ d'.mbox = d.mbox /\ d'.me = d.me
    <3>1. Shape(Me, d')
      BY <2>1, <2>2, OutboxOff
    <3>2. d'.me = d.me
      BY <1>1, <3>1 DEF Shape
    <3>3. /\ d'.state = d.state /\ d'.exit = d.exit /\ d'.mbox = d.mbox
          /\ d'.up = d.up /\ d'.ip = d.ip /\ d'.idx = d.idx
      BY <2>1, <2>2, <2>3 DEF Shape, DaemonType
    <3>4. SameTables(d, d')
      BY <2>1, <2>2 DEF SameTables, Shape, DaemonType
    <3> QED
      BY <3>1, <3>2, <3>3, <3>4 DEF Untouched
  <2>5. /\ Counted(d) => Counted(d')
        /\ Waiting(d) => Waiting(d')
        /\ Gathered(d) => Gathered(d')
        /\ Served(d) => Served(d')
        /\ HeldClaimed(d) => HeldClaimed(d')
        /\ Held(d') = Held(d) /\ Owned(d') = Owned(d)
    BY <1>1, <2>4, UntouchedPhases
  <2>6. Claiming(d, own) => Claiming(d', own')
    BY <2>2, <2>4, <2>5 DEF Claiming, Untouched, SameTables
  <2>7. PhaseInv => PhaseInv'
    BY <2>2, <2>4, <2>5, <2>6 DEF PhaseInv, Untouched
  <2> QED
    BY <1>1, <2>2, <2>4, <2>5, <2>7 DEF TableInv, Running
<1> QED
  BY <1>3, <1>4

\* A new view freezes the tables; the assertion holds.
LEMMA ViewTables ==
  ASSUME TypeOK, SafetyInv, TableInv, Running, d.mbox, NEW m \in ViewMessage,
         NEW t \in Receive(d, m), Outcome(t, TRUE, {}, NoMessage)
  PROVE  TableInv'
<1>1. Shape(Me, d) /\ d.out = <<>> /\ d.exit = "no" /\ Counted(d)
  BY DEF TypeOK, Shape, SafetyInv, SessionInv, Running, TableInv
<1>2. d.up = Frozen(d) /\ Cardinality(Frozen(d)) = d.mine
  BY <1>1, FrozenUp DEF Counted
<1>3. Shape(Me, t) /\ (Ended(d, t) \/ Gathers(d, m, t))
  BY <1>1, ReceiveShape, ReceiveGathers DEF GroupMessage
<1>4. PICK x : Holds(t, x)
  BY <1>1, <1>2, ReceiveViewHolds
<1>5. CASE ~SameSession(t)
  BY <1>3, <1>4, <1>5, EndedTables
<1>6. CASE SameSession(t)
  <2>1. Gathers(d, m, t)
    BY <1>3, <1>6 DEF Ended, SameSession
  <2>2. d' = [t EXCEPT !.out = <<>>] /\ inView'
    BY <1>6 DEF Outcome
  <2>3. own'.kind = "state" /\ Claiming(t, own')
    <3> DEFINE i == CHOOSE i \in Sent(t, "state") : TRUE
    <3>1. i \in Sent(t, "state") /\ own' = t.out[i]
      BY <2>1 DEF Outcome, Gathers
    <3> HIDE DEF i
    <3> QED
      BY <2>1, <3>1 DEF Gathers, Sent, Announces
  <2>4. /\ d'.me = Me /\ d'.exit = "no" /\ d'.state = "GATHER" /\ d'.up = d.up
        /\ d'.mine = d.mine /\ d'.ip = [k \in 1..m.n |-> NoAddr]
        /\ d'.owner = Nobody /\ d'.prio = [v \in Vip |-> UNCLAIMED]
        /\ d'.oldOwner = t.oldOwner /\ d'.oldPrio = t.oldPrio /\ t.me = Me
    BY <1>3, <2>1, <2>2 DEF Gathers, Froze, Shape, DaemonType
  <2>5. Held(d') = Held(t) /\ Claiming(d', own')
    BY <2>3, <2>4 DEF Held, Claiming
  <2>6. Held(d') = Frozen(d)
    BY <1>1, <2>1, <2>4 DEF Gathers, Froze, Frozen, Held, Owned, Shape
  <2>7. HeldClaimed(d')
    <3>1. d'.oldPrio = IF d.state \in {"GATHER", "BOOT"} THEN d.oldPrio ELSE d.prio
      BY <2>1, <2>4 DEF Gathers, Froze
    <3> QED
      BY <2>6, <3>1, FrozenUp DEF HeldClaimed
  <2>8. \A v \in Vip : d'.owner[v] = NoAddr /\ d'.prio[v] = UNCLAIMED
    BY <2>4 DEF Nobody
  <2>9. Waiting(d')
    BY <1>2, <2>4, <2>6, <2>8, MeAssumption, AddressAssumption DEF Waiting, Free, Owned
  <2>10. Counted(d')
    BY <1>1, <2>4 DEF Counted
  <2>11. PhaseInv'
    <3>1. own' # NoMessage
      BY <2>3 DEF NoMessage
    <3>2. \A k \in DOMAIN d'.ip : d'.ip[k] # Me
      BY <2>4, MeAssumption, AddressAssumption
    <3> QED
      BY <2>5, <2>9, <3>1, <3>2 DEF PhaseInv
  <2> QED
    BY <2>2, <2>4, <2>7, <2>10, <2>11 DEF TableInv, Running
<1> QED
  BY <1>5, <1>6

\* A message that is neither a view nor a state message of this view.
LEMMA OtherTables ==
  ASSUME ~ForceReup, TypeOK, SafetyInv, TableInv,
         NEW m \in Message, m \in StateMessage => m.gid # d.gid,
         m \in BalanceMessage => m.count = Len(m.moves) /\ Moving(d, m.moves),
         NEW r, Deliver(m, heard, own, r)
  PROVE  TableInv'
<1>1. Running /\ inView /\ Shape(Me, d) /\ d.out = <<>> /\ d.mbox
  BY DEF Deliver, TypeOK, Shape, SafetyInv, SessionInv
<1>2. PICK t \in Receive(d, m) : Outcome(t, TRUE, heard, own)
  BY HandleOutcome DEF Deliver
<1>3. Shape(Me, t) /\ Decides(d, t)
  BY <1>1, ReceiveShape, ReceiveDecides DEF GroupMessage, SafetyInv, MatureInv
<1>4. own # NoMessage => d.state = "GATHER"
  BY <1>1, WaitingGathers
<1>5. d.state # "GATHER" /\ ~d.mat => Ready(d)
  <2> SUFFICES ASSUME d.state # "GATHER", ~d.mat PROVE Ready(d)
    OBVIOUS
  <2>1. own = NoMessage /\ d.state # "RUN"
    BY <1>1, <1>4 DEF SafetyInv, MatureInv
  <2> QED
    BY <1>1, <2>1 DEF TableInv, PhaseInv, Ready, AtIndex, Shape
<1>6. d.state = "RUN" => Counted(d) /\ Served(d)
  BY <1>1, <1>4 DEF TableInv, PhaseInv
<1>7. (Untouched(d, t) /\ t.state = d.state) \/ Shifted(d, t)
  BY <1>1, <1>5, <1>6, ReceiveTables
<1>8. t.out = <<>> /\ t.exit = d.exit /\ t.mbox = d.mbox
      /\ (t.state = "GATHER" <=> d.state = "GATHER")
  BY <1>1, <1>3 DEF Decides, Same, Shape, DaemonType
<1>9. d' = t /\ inView' /\ own' = own
  <2>1. SameSession(t) /\ Sent(t, "state") = {}
    BY <1>8 DEF SameSession, Sent
  <2>2. [t EXCEPT !.out = <<>>] = t
    BY <1>3, <1>8 DEF Shape, DaemonType
  <2> QED
    BY <1>2, <2>1, <2>2 DEF Outcome
<1>10. CASE Untouched(d, t) /\ t.state = d.state
  <2>1. /\ Counted(d) => Counted(t)
        /\ Waiting(d) => Waiting(t)
        /\ Gathered(d) => Gathered(t)
        /\ Served(d) => Served(t)
        /\ HeldClaimed(d) => HeldClaimed(t)
        /\ Held(t) = Held(d)
    BY <1>1, <1>3, <1>10, UntouchedPhases
  <2>2. Claiming(d, own) => Claiming(t, own)
    BY <1>1, <1>3, <1>10, <2>1 DEF Claiming, Untouched, SameTables, Shape
  <2>3. PhaseInv'
    BY <1>1, <1>9, <1>10, <2>1, <2>2 DEF TableInv, PhaseInv, Untouched
  <2> QED
    BY <1>1, <1>8, <1>9, <1>10, <2>1, <2>3 DEF TableInv, Running
<1>11. CASE Shifted(d, t)
  <2>1. own = NoMessage
    BY <1>4, <1>8, <1>11 DEF Shifted
  <2>2. HeldClaimed(t)
    BY <1>1, <1>3, <1>11 DEF TableInv, HeldClaimed, Held, Shifted, Shape
  <2>3. PhaseInv'
    BY <1>1, <1>9, <1>11, <2>1 DEF TableInv, PhaseInv, Shifted
  <2> QED
    BY <1>1, <1>8, <1>9, <1>11, <2>2, <2>3 DEF TableInv, Running, Shifted
<1> QED
  BY <1>7, <1>10, <1>11

\* A state message of this view, from a member not heard before.
LEMMA StateTables ==
  ASSUME ~ForceReup, TypeOK, SafetyInv, TableInv,
         NEW m \in StateMessage, m.gid = d.gid, m.idx \in DOMAIN d.ip \ heard,
         NEW o, NEW r, Deliver(m, heard \cup {m.idx}, o, r),
         \/ m = own /\ own # NoMessage /\ o = NoMessage
         \/ /\ m.from # Me /\ ClaimsClaimed(m) /\ m.idx # d.idx /\ o = own
            /\ \A v \in DOMAIN m.claims : ~Rivalled(v)
  PROVE  TableInv'
<1>1. Running /\ inView /\ Shape(Me, d) /\ d.out = <<>> /\ d.mbox
  BY DEF Deliver, TypeOK, Shape, SafetyInv, SessionInv
<1>2. PICK t \in Receive(d, m) : Outcome(t, TRUE, heard \cup {m.idx}, o)
  BY HandleOutcome DEF Deliver
<1>3. /\ Counted(d) /\ HeldClaimed(d) /\ PhaseInv
      /\ own # NoMessage => Waiting(d) /\ Claiming(d, own)
  BY <1>1 DEF TableInv, PhaseInv
<1>4. IsFiniteSet(DOMAIN d.ip \ heard)
  <2>1. DOMAIN d.ip = 1..Len(d.ip) /\ Len(d.ip) \in Nat
    BY <1>1 DEF Shape, DaemonType
  <2>2. IsFiniteSet(DOMAIN d.ip)
    BY <2>1, FS_Interval
  <2> QED
    BY <2>2, FS_Subset
<1>5. d.state = "GATHER"
  <2>1. Cardinality(DOMAIN d.ip \ heard) # 0
    BY <1>4, FS_EmptySet
  <2> QED
    BY <1>1, <2>1 DEF SafetyInv, CountInv
<1>6. Shape(Me, t) /\ Counts(d, t)
  BY <1>1, <1>5, ReceiveShape, ReceiveCounts DEF GroupMessage, Message
<1>7. /\ t.out = <<>> /\ t.exit = d.exit /\ t.mbox = d.mbox /\ t.pending = d.pending - 1
      /\ t.state = "GATHER" <=> t.pending # 0
  BY <1>1, <1>6 DEF Counts, Same, Shape, DaemonType
<1>8. d' = t /\ inView' /\ own' = o
  <2>1. SameSession(t) /\ Sent(t, "state") = {}
    BY <1>7 DEF SameSession, Sent
  <2>2. [t EXCEPT !.out = <<>>] = t
    BY <1>6, <1>7 DEF Shape, DaemonType
  <2> QED
    BY <1>2, <2>1, <2>2 DEF Outcome
<1>9. PICK r1 : /\ Shape(Me, r1) /\ Merges(d, m, r1) /\ r1.idx = d.idx
                /\ (d.pending = 1 => Ready(r1)) =>
                     (Untouched(r1, t) /\ t.state \in {"GATHER", "BOOT"}) \/ Shifted(r1, t)
  BY <1>1, <1>5, ReceiveStateTables DEF NoReup
<1>10. r1.ip = [d.ip EXCEPT ![m.idx] = m.from] /\ r1.me = d.me /\ d.me = Me /\ t.me = Me
  BY <1>1, <1>6, <1>9 DEF Merges, Shape

\* The claims of the daemon are in the table, and it decides if this was the last message.
<1>11. ASSUME Ready(r1), HeldClaimed(r1), o = NoMessage
       PROVE  TableInv'
  <2>1. (Untouched(r1, t) /\ t.state \in {"GATHER", "BOOT"}) \/ Shifted(r1, t)
    BY <1>9, <1>11
  <2>2. Counted(t) /\ HeldClaimed(t) /\ t.ip = r1.ip /\ t.idx = r1.idx
        /\ IF t.state = "RUN" THEN Served(t) ELSE Gathered(t)
    <3>1. CASE Untouched(r1, t) /\ t.state \in {"GATHER", "BOOT"}
      <4>1. Counted(t) /\ HeldClaimed(t) /\ Gathered(t)
        BY <1>6, <1>9, <1>11, <3>1, UntouchedPhases DEF Ready
      <4> QED
        BY <3>1, <4>1 DEF Untouched
    <3>2. CASE Shifted(r1, t)
      BY <1>10, <1>11, <3>2 DEF Shifted, HeldClaimed, Held
    <3> QED
      BY <2>1, <3>1, <3>2
  <2>3. t.state # "ZERO"
    BY <2>1 DEF Shifted
  <2>4. PhaseInv'
    BY <1>8, <1>10, <1>11, <2>2 DEF PhaseInv, Ready, AtIndex
  <2> QED
    BY <1>1, <1>7, <1>8, <2>2, <2>3, <2>4 DEF TableInv, Running
<1>12. CASE m = own /\ own # NoMessage /\ o = NoMessage
  <2>1. m.from = Me /\ m.claims = [v \in Held(d) |-> d.oldPrio[v]]
    BY <1>3, <1>10, <1>12 DEF Claiming
  <2>2. Counted(r1) /\ Gathered(r1) /\ HeldClaimed(r1)
    BY <1>1, <1>3, <1>9, <1>12, <2>1, OwnMerged
  <2>3. m.idx = d.idx
    BY <1>1, <1>12, WaitingGathers
  <2>4. AtIndex(r1)
    BY <1>3, <1>9, <1>10, <1>12, <2>1, <2>3 DEF PhaseInv, AtIndex
  <2> QED
    BY <1>11, <1>12, <2>2, <2>4 DEF Ready
<1>13. CASE /\ m.from # Me /\ ClaimsClaimed(m) /\ m.idx # d.idx /\ o = own
            /\ own = NoMessage
  <2>1. Gathered(d)
    BY <1>3, <1>5, <1>13 DEF PhaseInv
  <2>2. Counted(r1) /\ Gathered(r1) /\ HeldClaimed(r1)
    BY <1>1, <1>3, <1>9, <1>13, <2>1, PeerMergedGathered
  <2>3. AtIndex(r1)
    BY <1>3, <1>9, <1>10, <1>13 DEF PhaseInv, AtIndex
  <2> QED
    BY <1>11, <1>13, <2>2, <2>3 DEF Ready
<1>14. CASE /\ m.from # Me /\ ClaimsClaimed(m) /\ m.idx # d.idx /\ o = own
            /\ own # NoMessage /\ \A v \in DOMAIN m.claims : ~Rivalled(v)
  <2>1. \A v \in DOMAIN m.claims : v \in Held(d) => d.prio[v] \in {UNCLAIMED, PREFER}
    BY <1>14 DEF Rivalled
  <2>2. /\ Counted(r1) /\ Waiting(r1) /\ HeldClaimed(r1) /\ Held(r1) = Held(d)
        /\ \A v \in Held(d) : r1.oldPrio[v] = d.oldPrio[v]
    BY <1>1, <1>3, <1>9, <1>14, <2>1, PeerMergedWaiting
  <2>3. d.idx \in DOMAIN d.ip \ heard
    BY <1>1, <1>14, WaitingGathers
  <2>4. d.pending # 1
    <3>1. Cardinality((DOMAIN d.ip \ heard) \ {m.idx}) = Cardinality(DOMAIN d.ip \ heard) - 1
      BY <1>4, FS_RemoveElement
    <3>2. IsFiniteSet((DOMAIN d.ip \ heard) \ {m.idx})
      BY <1>4, FS_Subset
    <3>3. d.idx \in (DOMAIN d.ip \ heard) \ {m.idx}
      BY <1>14, <2>3
    <3>4. Cardinality((DOMAIN d.ip \ heard) \ {m.idx}) # 0
      BY <3>2, <3>3, FS_EmptySet
    <3>5. Cardinality(DOMAIN d.ip \ heard) \in Nat
      BY <1>4, FS_CardinalityType
    <3> QED
      BY <1>1, <3>1, <3>4, <3>5 DEF SafetyInv, CountInv
  <2>5. t.state = "GATHER"
    <3>1. d.pending \in Int
      BY <1>1 DEF Shape, DaemonType
    <3> QED
      BY <1>7, <2>4, <3>1
  <2>6. Untouched(r1, t)
    BY <1>9, <2>4, <2>5 DEF Shifted
  <2>7. Counted(t) /\ Waiting(t) /\ HeldClaimed(t) /\ Held(t) = Held(d)
    BY <1>6, <1>9, <2>2, <2>6, UntouchedPhases
  <2>8. [v \in Held(t) |-> t.oldPrio[v]] = [v \in Held(d) |-> d.oldPrio[v]]
    BY <2>2, <2>6, <2>7 DEF Untouched, SameTables
  <2>9. Claiming(t, own)
    BY <1>3, <1>10, <1>14, <2>8 DEF Claiming
  <2>10. PhaseInv'
    BY <1>3, <1>8, <1>10, <1>14, <2>6, <2>7, <2>9 DEF PhaseInv, Untouched
  <2> QED
    BY <1>1, <1>7, <1>8, <2>5, <2>7, <2>10 DEF TableInv, Running
<1> QED
  BY <1>12, <1>13, <1>14

\* The invariant holds at the start.
LEMMA TableInit == Init => TableInv
<1> SUFFICES ASSUME Init PROVE TableInv
  OBVIOUS
<1>1. /\ d.exit = "no" /\ ~d.mbox /\ ~inView /\ d.me = Me
      /\ d.owner = Nobody /\ d.oldOwner = Nobody
  BY DEF Init, InitialDaemon
<1>2. \A v \in Vip : Nobody[v] # Me
  BY MeAssumption, AddressAssumption DEF Nobody
<1>3. Owned(d) = {} /\ Held(d) = {}
  BY <1>1, <1>2 DEF Owned, Held
<1> QED
  BY <1>1, <1>3 DEF TableInv, HeldClaimed

\* Every action preserves it.
LEMMA TableStep ==
  ASSUME ErrorAfter \subseteq {"none", "arp"}, OneRival, FreshMoves, ~ForceReup
  PROVE  TypeOK /\ SafetyInv /\ TableInv /\ [Next]_vars => TableInv'
<1> SUFFICES ASSUME TypeOK, SafetyInv, TableInv, [Next]_vars PROVE TableInv'
  OBVIOUS
<1>1. Shape(Me, d) /\ d.out = <<>> /\ d.gid \in Nat /\ views \in Nat
  BY DEF TypeOK, Shape, DaemonType, SafetyInv, SessionInv
<1>2. CASE \E n \in 1..MaxMembers : \E idx \in 1..n : View(n, idx)
  <2>1. PICK n \in 1..MaxMembers, idx \in 1..MaxMembers : idx \in 1..n /\ View(n, idx)
    BY <1>2, BoundAssumption
  <2> DEFINE m == [kind |-> "view", gid |-> views + 1, n |-> n, idx |-> idx]
  <2>2. m \in ViewMessage
    BY <1>1, <2>1, BoundAssumption DEF ViewMessage
  <2>3. Running /\ d.mbox /\ Handle(Receive(d, m), TRUE, {}, NoMessage, maturing)
    BY <2>1 DEF View
  <2> HIDE DEF m
  <2>4. PICK t \in Receive(d, m) : Outcome(t, TRUE, {}, NoMessage)
    BY <2>3, HandleOutcome
  <2> QED
    BY <2>2, <2>3, <2>4, ViewTables
<1>3. CASE OwnState
  <2>1. own # NoMessage /\ Deliver(own, heard \cup {own.idx}, NoMessage, maturing)
    BY <1>3 DEF OwnState
  <2>2. own \in StateMessage /\ Running /\ inView
    BY <2>1 DEF TypeOK, Deliver
  <2>3. own.gid = d.gid /\ own.idx \in DOMAIN d.ip \ heard
    BY <2>1, <2>2 DEF SafetyInv, CountInv
  <2> QED
    BY <2>1, <2>2, <2>3, StateTables
<1>4. CASE \E idx \in 1..MaxMembers : PeerState(idx)
  <2>1. PICK idx \in 1..MaxMembers : PeerState(idx)
    BY <1>4
  <2>2. PICK from \in Address \ {Me} : \E m \in PeerMessages(idx, from) :
           /\ OneRival => \A v \in DOMAIN m.claims : ~Rivalled(v)
           /\ Deliver(m, heard \cup {idx}, own, maturing)
    BY <2>1 DEF PeerState
  <2>3. PICK m \in PeerMessages(idx, from) :
           /\ OneRival => \A v \in DOMAIN m.claims : ~Rivalled(v)
           /\ Deliver(m, heard \cup {idx}, own, maturing)
    BY <2>2
  <2>4. idx \in DOMAIN d.ip \ heard /\ idx # d.idx
    BY <2>1 DEF PeerState
  <2>5. m \in StateMessage
    BY <1>1, BoundAssumption, PeerMessagesType
  <2>6. m.gid = d.gid /\ m.from # Me /\ m.idx = idx
    BY DEF PeerMessages
  <2>7. ClaimsClaimed(m)
    <3>1. PICK V \in SUBSET Vip : m.claims \in [V -> {CLAIMED, PREFER_CLAIMED}]
      BY DEF PeerMessages
    <3> QED
      BY <3>1 DEF ClaimsClaimed
  <2> QED
    BY <2>3, <2>4, <2>5, <2>6, <2>7, StateTables
<1>5. CASE LateState
  <2>1. PICK from \in Address :
           Deliver([kind |-> "state", gid |-> d.gid - 1, from |-> from, idx |-> 1,
                    mat |-> TRUE, claims |-> [v \in Vip |-> PREFER_CLAIMED],
                    prefer |-> Prefer[from]], heard, own, maturing)
    BY <1>5 DEF LateState
  <2> DEFINE m == [kind |-> "state", gid |-> d.gid - 1, from |-> from, idx |-> 1,
                   mat |-> TRUE, claims |-> [v \in Vip |-> PREFER_CLAIMED],
                   prefer |-> Prefer[from]]
  <2>2. d.gid - 1 \in Nat /\ d.gid - 1 # d.gid
    BY <1>1, <1>5 DEF LateState
  <2>3. [v \in Vip |-> PREFER_CLAIMED] \in Claims
    <3>1. [v \in Vip |-> PREFER_CLAIMED] \in [Vip -> Priority]
      BY PriorityType
    <3> QED
      BY <3>1 DEF Claims
  <2>4. Prefer[from] \in SUBSET Vip
    BY ConfigAssumption
  <2>5. m \in Message /\ m.gid # d.gid /\ m \notin BalanceMessage
    BY <2>2, <2>3, <2>4 DEF StateMessage, Message, BalanceMessage
  <2> QED
    BY <2>1, <2>5, OtherTables
<1>6. CASE Mature \/ OwnMature \/ ArpDelivered
  <2>1. /\ MaturingMessage \in Message /\ ArpMessage \in Message
        /\ MaturingMessage \notin StateMessage \cup BalanceMessage
        /\ ArpMessage \notin StateMessage \cup BalanceMessage
    BY DEF Message, StateMessage, BalanceMessage, MaturingMessage, ArpMessage
  <2> QED
    BY <1>6, <2>1, OtherTables DEF Mature, OwnMature, ArpDelivered
<1>7. CASE BalanceDelivered
  <2>1. PICK k \in 0..BalanceRate : \E moves \in [1..k -> Move] :
           /\ Deliverable(moves)
           /\ Deliver([kind |-> "balance", count |-> k, moves |-> moves], heard, own, maturing)
    BY <1>7 DEF BalanceDelivered
  <2>2. PICK moves \in [1..k -> Move] :
           /\ Deliverable(moves)
           /\ Deliver([kind |-> "balance", count |-> k, moves |-> moves], heard, own, maturing)
    BY <2>1
  <2> DEFINE m == [kind |-> "balance", count |-> k, moves |-> moves]
  <2>3. k \in Nat
    BY ConfigAssumption
  <2>4. moves \in Seq(Move) /\ Len(moves) = k /\ DOMAIN moves = 1..Len(moves)
    BY <2>3
  <2>5. m \in Message /\ m \notin StateMessage /\ m.count = Len(m.moves)
    BY <2>3, <2>4 DEF Message, BalanceMessage, StateMessage
  <2>6. Moving(d, m.moves)
    BY <2>2, <2>4 DEF Moving, Deliverable
  <2> QED
    BY <2>2, <2>5, <2>6, OtherTables
<1>8. CASE ReceiveFails
  <2>1. Running /\ d.last \in {"none", "arp"}
    BY <1>8 DEF ReceiveFails, Local
  <2>2. \A t \in ReceiveError(d) : Shape(Me, t) /\ Ended(d, t) /\ Holds(t, d)
    BY <1>1, <2>1, ReceiveErrorShape, ReceiveErrorEnds, ReceiveErrorHolds DEF Running
  <2> QED
    BY <1>8, <2>2, LocalTables DEF ReceiveFails
<1>9. Holds(d, d)
  BY <1>1 DEF Holds, SameSession, SameTables, TableInv
<1>10. CASE Boot \/ Fail \/ Recover \/ Kill
  <2>1. d.exit = "no"
    BY <1>10 DEF Boot, Fail, Recover, Kill, Local, Running
  <2>2. \A t \in Start(d) \cup ServiceFailure(d) \cup ServiceSuccess(d) \cup {Signal(d)} :
           Shape(Me, t) /\ Ended(d, t) /\ Holds(t, d)
    BY <1>1, <2>1, StartShape, ServiceShape, SignalShape, CommandsEnd, CommandsHold
  <2> QED
    BY <1>10, <2>2, LocalTables DEF Boot, Fail, Recover, Kill
<1>11. CASE TurnMatureFires \/ RetryFires \/ ArpFires
  <2>1. \A t \in TurnMature(d) \cup RetryTimer(d) \cup ArpTimer(d) :
           Shape(Me, t) /\ (Ended(d, t) \/ Kept(d, t)) /\ Holds(t, d)
    BY <1>1, <1>9, TimerShape, TimerKeeps, TimerHolds
  <2> QED
    BY <1>11, <2>1, LocalTables DEF TurnMatureFires, RetryFires, ArpFires
<1>12. CASE BalanceFires
  <2>1. \A t \in BalanceTimer(d) : Shape(Me, t) /\ (Ended(d, t) \/ Kept(d, t)) /\ Holds(t, d)
    BY <1>1, <1>9, BalanceTimerShape, BalanceTimerKeeps, BalanceTimerHolds
  <2> QED
    BY <1>12, <2>1, LocalTables DEF BalanceFires
<1>13. CASE UNCHANGED vars
  BY <1>13 DEF vars, TableInv, PhaseInv, Running
<1> QED
  BY <1>2, <1>3, <1>4, <1>5, <1>6, <1>7, <1>8, <1>10, <1>11, <1>12, <1>13 DEF Next

-----------------------------------------------------------------------------
(* The theorems. *)

\* The invariants hold in every state.
LEMMA TableCorrect ==
  ASSUME ErrorAfter \subseteq {"none", "arp"}, OneRival, FreshMoves, ~ForceReup
  PROVE  Spec => [](TypeOK /\ SafetyInv /\ TableInv)
<1>1. TypeOK /\ SafetyInv /\ TableInv /\ [Next]_vars => TableInv'
  BY TableStep
<1> QED
  BY <1>1, TableInit, SafetyCorrect, TypeCorrect, PTL DEF Spec

\* While the daemon runs, the interfaces that are up are those its tables say it serves.
LEMMA ServingUp == TypeOK /\ SafetyInv /\ TableInv => UpMatchesTable
<1> SUFFICES ASSUME TypeOK, SafetyInv, TableInv, Running PROVE d.up = Serving
  BY DEF UpMatchesTable
<1>1. d.me = Me
  BY DEF TypeOK
<1>2. CASE ~inView
  <2>1. d.up = {} /\ Owned(d) = {} /\ Held(d) = {}
    BY <1>2 DEF SafetyInv, OutsideInv, Running, TableInv
  <2> QED
    BY <1>1, <2>1 DEF Serving, Owned
<1>3. CASE inView /\ d.state = "RUN"
  <2>1. own = NoMessage
    BY <1>3, WaitingGathers
  <2>2. d.up = Owned(d)
    BY <1>3, <2>1 DEF TableInv, PhaseInv, Served
  <2> QED
    BY <1>1, <1>3, <2>2 DEF Serving, Owned
<1>4. CASE inView /\ d.state # "RUN"
  BY <1>4 DEF Serving, TableInv, PhaseInv, Waiting, Gathered
<1> QED
  BY <1>2, <1>3, <1>4

\* In every state of a run without NEEDS_FORCE_REUP, in which at most one peer of a view
\* claims what is held here and no move goes to the owner, the interfaces up are exactly
\* those of the tables: no order of state messages, no maturing, no list of moves and no
\* loss of a session leaves an interface up that is another's, or one down that is its own.
THEOREM UpCorrect ==
  ASSUME ErrorAfter \subseteq {"none", "arp"}, OneRival, FreshMoves, ~ForceReup
  PROVE  Spec => []UpMatchesTable
<1> QED
  BY ServingUp, TableCorrect, PTL

\* My.num_allocated, which handlers change by one at a time and in many places, is the
\* number of those interfaces whenever there is a session.
THEOREM CountCorrect ==
  ASSUME ErrorAfter \subseteq {"none", "arp"}, OneRival, FreshMoves, ~ForceReup
  PROVE  Spec => []CountMatchesTable
<1>1. TypeOK /\ SafetyInv /\ TableInv => CountMatchesTable
  BY ServingUp DEF UpMatchesTable, CountMatchesTable, TableInv, Counted
<1> QED
  BY <1>1, TableCorrect, PTL

\* So the assertion of Send_state_message never stops the daemon, whenever the next view
\* comes.
THEOREM AssertCorrect ==
  ASSUME ErrorAfter \subseteq {"none", "arp"}, OneRival, FreshMoves, ~ForceReup
  PROVE  Spec => []AssertHolds
<1>1. TableInv => AssertHolds
  BY DEF TableInv, AssertHolds
<1> QED
  BY <1>1, TableCorrect, PTL
=============================================================================
