---------------------------- MODULE DaemonProofs ----------------------------
(***************************************************************************)
(* Type correctness and safety of module Daemon, for every number of       *)
(* interfaces, every set of addresses and every bound: what is up where    *)
(* (ServesInViewCorrect, ImmatureCorrect), the count of the state messages *)
(* (PendingCorrect), the promises of module Service, and the event queue   *)
(* (MatureArmedCorrect, BalanceArmedCorrect).                              *)
(*                                                                         *)
(* The invariant of the types is TypeOK itself.  The others follow from    *)
(* one invariant, SafetyInv, which needs the state and the count to be     *)
(* followed together: a daemon acquires only in steps that end in RUN, RUN *)
(* is entered with maturity or when the count is at zero, and the count is *)
(* exact because the own state message and those of the peers come once    *)
(* each.  Module WackamoleProofs sorts what a handler may do.              *)
(***************************************************************************)
EXTENDS Daemon, WackamoleProofs

-----------------------------------------------------------------------------
(* Types. *)

\* A handler that keeps the daemon's types keeps those of the environment.
LEMMA HandleType ==
  ASSUME TypeOK, NEW S, \A t \in S : Shape(Me, t),
         NEW v \in BOOLEAN, NEW h \in SUBSET (Nat \ {0}),
         NEW o \in StateMessage \cup {NoMessage}, NEW m \in BOOLEAN,
         Handle(S, v, h, o, m), views' \in Nat
  PROVE  TypeOK'
<1>1. PICK t \in S :
        /\ d' = [t EXCEPT !.out = <<>>]
        /\ faults' = IF SessionLost(t) THEN faults + 1 ELSE faults
        /\ inView' = (v /\ SameSession(t))
        /\ heard' = IF SameSession(t) THEN h ELSE {}
        /\ own' = CASE ~SameSession(t) -> NoMessage
                    [] SameSession(t) /\ Sent(t, "state") = {} -> o
                    [] OTHER -> t.out[CHOOSE i \in Sent(t, "state") : TRUE]
        /\ maturing' = (Sent(t, "mature") # {} \/ (m /\ SameSession(t)))
  BY DEF Handle
<1>2. Shape(Me, d')
  BY <1>1, OutboxOff
<1>3. own' \in StateMessage \cup {NoMessage}
  BY <1>1, SentStateType
<1>4. /\ inView' \in BOOLEAN /\ maturing' \in BOOLEAN
      /\ heard' \in SUBSET (Nat \ {0}) /\ faults' \in Nat
  BY <1>1 DEF TypeOK
<1> QED
  BY <1>2, <1>3, <1>4 DEF TypeOK, Shape

\* A timer or a command, as an action, preserves TypeOK.
LEMMA LocalType ==
  ASSUME TypeOK, NEW S, \A t \in S : Shape(Me, t), Local(S)
  PROVE  TypeOK'
<1>1. Handle(S, inView, heard, own, maturing) /\ views' \in Nat
  BY DEF Local, TypeOK
<1> QED
  BY <1>1, HandleType DEF TypeOK

\* A delivered message of the group, as an action, preserves TypeOK.
LEMMA DeliverType ==
  ASSUME TypeOK, NEW m \in GroupMessage, NEW h \in SUBSET (Nat \ {0}),
         NEW o \in StateMessage \cup {NoMessage}, NEW r \in BOOLEAN,
         Deliver(m, h, o, r)
  PROVE  TypeOK'
<1>1. \A t \in Receive(d, m) : Shape(Me, t)
  BY ReceiveShape DEF TypeOK, Shape
<1>2. Handle(Receive(d, m), TRUE, h, o, r) /\ views' \in Nat
  BY DEF Deliver, TypeOK
<1> QED
  BY <1>1, <1>2, HandleType

\* The initial state has its types.
LEMMA TypeInit == Init => TypeOK
<1> SUFFICES ASSUME Init PROVE TypeOK
  OBVIOUS
<1>1. Shape(Me, d)
  BY InitialShape, MeAssumption DEF Init
<1> QED
  BY <1>1 DEF Init, TypeOK, Shape

\* The state messages assumed of peers are well formed.
LEMMA PeerMessagesType ==
  ASSUME NEW idx \in Nat \ {0}, NEW from \in Address, NEW m \in PeerMessages(idx, from),
         d.gid \in Nat
  PROVE  m \in StateMessage
<1>1. PICK V \in SUBSET Vip : m.claims \in [V -> {CLAIMED, PREFER_CLAIMED}]
  BY DEF PeerMessages
<1>2. m.claims \in [V -> Priority]
  BY <1>1, PriorityType
<1>3. m.claims \in Claims
  BY <1>2 DEF Claims
<1>4. Prefer[from] \in SUBSET Vip
  BY ConfigAssumption
<1> QED
  BY <1>3, <1>4 DEF PeerMessages, StateMessage

\* Every action preserves TypeOK.
LEMMA TypeStep == TypeOK /\ [Next]_vars => TypeOK'
<1> SUFFICES ASSUME TypeOK, [Next]_vars PROVE TypeOK'
  OBVIOUS
<1>1. Shape(Me, d)
  BY DEF TypeOK, Shape
<1>2. /\ heard \in SUBSET (Nat \ {0}) /\ inView \in BOOLEAN /\ maturing \in BOOLEAN
      /\ own \in StateMessage \cup {NoMessage} /\ views \in Nat /\ d.gid \in Nat
  BY DEF TypeOK, DaemonType
<1>3. CASE \E n \in 1..MaxMembers : \E idx \in 1..n : View(n, idx)
  <2>1. PICK n \in 1..MaxMembers, idx \in 1..MaxMembers : View(n, idx)
    BY <1>3, BoundAssumption
  <2> DEFINE m == [kind |-> "view", gid |-> views + 1, n |-> n, idx |-> idx]
  <2>2. m \in GroupMessage
    BY <1>2, BoundAssumption DEF GroupMessage, ViewMessage
  <2>3. \A t \in Receive(d, m) : Shape(Me, t)
    BY <1>1, <2>2, ReceiveShape
  <2>4. views' \in Nat
    BY <1>2, <2>1 DEF View
  <2>5. Handle(Receive(d, m), TRUE, {}, NoMessage, maturing)
    BY <2>1 DEF View
  <2> QED
    BY <1>2, <2>3, <2>4, <2>5, HandleType
<1>4. CASE OwnState
  <2>1. own \in StateMessage
    BY <1>2, <1>4 DEF OwnState
  <2>2. own \in GroupMessage
    BY <2>1 DEF GroupMessage, Message
  <2>3. heard \cup {own.idx} \in SUBSET (Nat \ {0})
    BY <1>2, <2>1 DEF StateMessage
  <2> QED
    BY <1>2, <1>4, <2>2, <2>3, DeliverType DEF OwnState
<1>5. CASE \E idx \in 1..MaxMembers : PeerState(idx)
  <2>1. PICK idx \in 1..MaxMembers : PeerState(idx)
    BY <1>5
  <2>2. PICK from \in Address : \E m \in PeerMessages(idx, from) :
                                   Deliver(m, heard \cup {idx}, own, maturing)
    BY <2>1 DEF PeerState
  <2>3. PICK m \in PeerMessages(idx, from) : Deliver(m, heard \cup {idx}, own, maturing)
    BY <2>2
  <2>4. idx \in Nat \ {0} /\ heard \cup {idx} \in SUBSET (Nat \ {0})
    BY <1>2, BoundAssumption
  <2>5. m \in GroupMessage
    BY <1>2, <2>4, PeerMessagesType DEF GroupMessage, Message
  <2> QED
    BY <1>2, <2>3, <2>4, <2>5, DeliverType
<1>6. CASE LateState
  <2>1. PICK from \in Address :
           Deliver([kind |-> "state", gid |-> d.gid - 1, from |-> from, idx |-> 1,
                    mat |-> TRUE, claims |-> [v \in Vip |-> PREFER_CLAIMED],
                    prefer |-> Prefer[from]], heard, own, maturing)
    BY <1>6 DEF LateState
  <2>2. d.gid - 1 \in Nat
    BY <1>2, <1>6 DEF LateState
  <2>3. [v \in Vip |-> PREFER_CLAIMED] \in Claims
    <3>1. [v \in Vip |-> PREFER_CLAIMED] \in [Vip -> Priority]
      BY PriorityType
    <3> QED
      BY <3>1 DEF Claims
  <2>4. Prefer[from] \in SUBSET Vip
    BY ConfigAssumption
  <2> DEFINE m == [kind |-> "state", gid |-> d.gid - 1, from |-> from, idx |-> 1,
                   mat |-> TRUE, claims |-> [v \in Vip |-> PREFER_CLAIMED],
                   prefer |-> Prefer[from]]
  <2>5. m \in StateMessage
    BY <2>2, <2>3, <2>4 DEF StateMessage
  <2>6. m \in GroupMessage
    BY <2>5 DEF GroupMessage, Message
  <2> QED
    BY <1>2, <2>1, <2>6, DeliverType
<1>7. CASE Mature \/ OwnMature \/ ArpDelivered
  <2>1. MaturingMessage \in GroupMessage /\ ArpMessage \in GroupMessage
    BY DEF GroupMessage, Message
  <2> QED
    BY <1>2, <1>7, <2>1, DeliverType DEF Mature, OwnMature, ArpDelivered
<1>8. CASE BalanceDelivered
  <2>1. PICK k \in 0..BalanceRate : \E moves \in [1..k -> Move] :
           Deliver([kind |-> "balance", count |-> k, moves |-> moves], heard, own, maturing)
    BY <1>8 DEF BalanceDelivered
  <2>2. PICK moves \in [1..k -> Move] :
           Deliver([kind |-> "balance", count |-> k, moves |-> moves], heard, own, maturing)
    BY <2>1
  <2>3. k \in Nat
    BY ConfigAssumption
  <2>4. moves \in Seq(Move)
    BY <2>3
  <2>5. [kind |-> "balance", count |-> k, moves |-> moves] \in GroupMessage
    BY <2>3, <2>4 DEF GroupMessage, Message, BalanceMessage
  <2> QED
    BY <1>2, <2>2, <2>5, DeliverType
<1>9. CASE ReceiveFails
  BY <1>1, <1>9, LocalType, ReceiveErrorShape DEF ReceiveFails
<1>10. CASE Boot
  BY <1>1, <1>10, LocalType, StartShape DEF Boot
<1>11. CASE TurnMatureFires \/ RetryFires \/ ArpFires
  BY <1>1, <1>11, LocalType, TimerShape DEF TurnMatureFires, RetryFires, ArpFires
<1>12. CASE BalanceFires
  BY <1>1, <1>12, LocalType, BalanceTimerShape DEF BalanceFires
<1>13. CASE Fail \/ Recover
  BY <1>1, <1>13, LocalType, ServiceShape DEF Fail, Recover
<1>14. CASE Kill
  BY <1>1, <1>14, LocalType, SignalShape DEF Kill
<1>15. CASE UNCHANGED vars
  BY <1>15 DEF vars, TypeOK
<1> QED
  BY <1>3, <1>4, <1>5, <1>6, <1>7, <1>8, <1>9, <1>10, <1>11, <1>12, <1>13, <1>14,
     <1>15 DEF Next

\* Every variable keeps its type: no handler can build a message or a table that
\* another handler does not expect, whatever is delivered and whatever fails.
THEOREM TypeCorrect == Spec => []TypeOK
  BY TypeInit, TypeStep, PTL DEF Spec

-----------------------------------------------------------------------------
(* The invariant. *)

\* What was sent has been handed to Spread, and a view belongs to a session.
SessionInv == d.out = <<>> /\ (inView => d.mbox)

\* Outside a view nothing is up, however the daemon came there.
OutsideInv == ~inView /\ d.exit \in {"no", "clean"} => d.up = {}

\* A session begins without maturity.
FreshInv == ~inView /\ d.mbox => ~d.mat

\* Outside RUN an immature daemon has nothing up, and in a view RUN is for the mature.
MatureInv ==
  Running => /\ ForceReup \/ d.mat \/ d.up = {}
             /\ inView /\ d.state = "RUN" => d.mat

\* In a view the daemon waits for the members not heard from, itself among them as
\* long as its own state message has not come back.
CountInv ==
  Running /\ inView =>
    /\ d.pending = Cardinality(DOMAIN d.ip \ heard)
    /\ d.state = "GATHER" <=> d.pending # 0
    /\ own # NoMessage => /\ own.gid = d.gid /\ own.idx = d.idx
                          /\ d.idx \in DOMAIN d.ip \ heard

SafetyInv == SessionInv /\ OutsideInv /\ FreshInv /\ MatureInv /\ CountInv

\* What Handle makes of the daemon t that a handler left.
Outcome(t, v, h, o) ==
  /\ d' = [t EXCEPT !.out = <<>>]
  /\ inView' = (v /\ SameSession(t))
  /\ heard' = IF SameSession(t) THEN h ELSE {}
  /\ own' = CASE ~SameSession(t) -> NoMessage
              [] SameSession(t) /\ Sent(t, "state") = {} -> o
              [] OTHER -> t.out[CHOOSE i \in Sent(t, "state") : TRUE]

\* Handle chooses one of the daemons that the handler may leave.
LEMMA HandleOutcome ==
  ASSUME NEW S, NEW v, NEW h, NEW o, NEW m, Handle(S, v, h, o, m)
  PROVE  \E t \in S : Outcome(t, v, h, o)
  BY DEF Handle, Outcome

\* The end of a session restores the invariant.
LEMMA EndedStep ==
  ASSUME NEW t, Shape(Me, t), Ended(d, t), NEW v, NEW h, NEW o, Outcome(t, v, h, o)
  PROVE  SafetyInv'
<1>1. ~SameSession(t)
  BY DEF Ended, SameSession
<1>2. d' = [t EXCEPT !.out = <<>>] /\ ~inView'
  BY <1>1 DEF Outcome
<1>3. d'.out = <<>> /\ d'.up = t.up /\ d'.exit = t.exit
      /\ d'.mbox = t.mbox /\ d'.mat = t.mat
  BY <1>2 DEF Shape, DaemonType
<1> QED
  BY <1>2, <1>3 DEF Ended, SafetyInv, SessionInv, OutsideInv, FreshInv, MatureInv, CountInv, Running

\* So does a handler that keeps everything the invariant speaks of.
LEMMA KeptStep ==
  ASSUME TypeOK, SafetyInv, Running, NEW t, Shape(Me, t), Kept(d, t),
         Outcome(t, inView, heard, own)
  PROVE  SafetyInv'
<1>1. Shape(Me, d)
  BY DEF TypeOK, Shape
<1>2. d' = [t EXCEPT !.out = <<>>] /\ inView' = inView /\ heard' = heard /\ own' = own
  BY DEF Outcome, Kept, TypeOK
<1>3. /\ d'.out = <<>> /\ d'.up = d.up /\ d'.exit = d.exit /\ d'.mbox = d.mbox
      /\ d'.mat = d.mat /\ d'.state = d.state /\ d'.pending = d.pending
      /\ d'.ip = d.ip /\ d'.gid = d.gid /\ d'.idx = d.idx
  BY <1>1, <1>2 DEF Kept, Same, Shape, DaemonType
<1> QED
  BY <1>2, <1>3 DEF SafetyInv, SessionInv, OutsideInv, FreshInv, MatureInv, CountInv, Running

\* A view begins with everybody to be heard.
LEMMA GatherStep ==
  ASSUME TypeOK, SafetyInv, Running, d.mbox, NEW t, Shape(Me, t),
         NEW m \in ViewMessage, m.n # 0, m.idx \in 1..m.n, Gathers(d, m, t),
         Outcome(t, TRUE, {}, NoMessage)
  PROVE  SafetyInv'
<1>1. d' = [t EXCEPT !.out = <<>>] /\ inView' /\ heard' = {}
  BY DEF Outcome, Gathers
<1>2. own'.idx = m.idx /\ own'.gid = m.gid
  <2> DEFINE i == CHOOSE i \in Sent(t, "state") : TRUE
  <2>1. i \in Sent(t, "state") /\ own' = t.out[i]
    BY DEF Outcome, Gathers
  <2> HIDE DEF i
  <2> QED
    BY <2>1 DEF Gathers
<1>3. /\ d'.out = <<>> /\ d'.up = d.up /\ d'.exit = "no" /\ d'.mbox
      /\ d'.mat = d.mat /\ d'.state = "GATHER" /\ d'.pending = m.n
      /\ DOMAIN d'.ip = 1..m.n /\ d'.gid = m.gid /\ d'.idx = m.idx
  BY <1>1 DEF Gathers, Shape, DaemonType
<1>4. m.n \in Nat /\ Cardinality((1..m.n) \ {}) = m.n
  <2>1. m.n \in Nat /\ (1..m.n) \ {} = 1..m.n
    BY DEF ViewMessage
  <2> QED
    BY <2>1, FS_Interval
<1>5. (DOMAIN d.ip \ heard)' = (1..m.n) \ {}
  BY <1>1, <1>3
<1> QED
  BY <1>1, <1>2, <1>3, <1>4, <1>5
  DEF SafetyInv, SessionInv, OutsideInv, FreshInv, MatureInv, CountInv, Running

\* A message that may only mature the daemon and make it decide.
LEMMA DecideStep ==
  ASSUME TypeOK, SafetyInv, Running, inView, NEW t, Shape(Me, t), Decides(d, t),
         Outcome(t, TRUE, heard, own)
  PROVE  SafetyInv'
<1>1. Shape(Me, d) /\ d.out = <<>>
  BY DEF TypeOK, Shape, SafetyInv, SessionInv
<1>2. t.out = <<>>
  BY <1>1 DEF Decides, Same, Shape, DaemonType
<1>3. SameSession(t) /\ Sent(t, "state") = {}
  BY <1>2 DEF SameSession, Sent
<1>4. d' = [t EXCEPT !.out = <<>>] /\ inView' /\ heard' = heard /\ own' = own
  BY <1>3 DEF Outcome
<1>5. /\ d'.out = <<>> /\ d'.exit = d.exit /\ d'.mbox = d.mbox /\ d'.up = t.up
      /\ d'.mat = t.mat /\ d'.state = t.state /\ d'.pending = d.pending
      /\ DOMAIN d'.ip = DOMAIN d.ip /\ d'.gid = d.gid /\ d'.idx = d.idx
  BY <1>1, <1>4 DEF Decides, Same, Shape, DaemonType
<1>6. (DOMAIN d.ip \ heard)' = DOMAIN d.ip \ heard
  BY <1>4, <1>5
<1> QED
  BY <1>4, <1>5, <1>6
  DEF Decides, SafetyInv, SessionInv, OutsideInv, FreshInv, MatureInv, CountInv, Running

\* The state message of member k, who was not heard before.
LEMMA CountStep ==
  ASSUME TypeOK, SafetyInv, Running, inView, NEW t, Shape(Me, t), Counts(d, t),
         NEW k \in DOMAIN d.ip \ heard, NEW o,
         o = NoMessage \/ (o = own /\ k # d.idx),
         Outcome(t, TRUE, heard \cup {k}, o)
  PROVE  SafetyInv'
<1>1. Shape(Me, d) /\ d.out = <<>>
  BY DEF TypeOK, Shape, SafetyInv, SessionInv
<1>2. t.out = <<>>
  BY <1>1 DEF Counts, Same, Shape, DaemonType
<1>3. SameSession(t) /\ Sent(t, "state") = {}
  BY <1>2 DEF SameSession, Sent
<1>4. d' = [t EXCEPT !.out = <<>>] /\ inView' /\ heard' = heard \cup {k} /\ own' = o
  BY <1>3 DEF Outcome
<1>5. /\ d'.out = <<>> /\ d'.exit = d.exit /\ d'.mbox = d.mbox /\ d'.up = t.up
      /\ d'.mat = t.mat /\ d'.state = t.state /\ d'.pending = d.pending - 1
      /\ d'.pending = t.pending
      /\ DOMAIN d'.ip = DOMAIN d.ip /\ d'.gid = d.gid /\ d'.idx = d.idx
  BY <1>1, <1>4 DEF Counts, Same, Shape, DaemonType
<1>6. (DOMAIN d.ip \ heard)' = (DOMAIN d.ip \ heard) \ {k}
  BY <1>4, <1>5
<1>7. Cardinality((DOMAIN d.ip \ heard) \ {k}) = Cardinality(DOMAIN d.ip \ heard) - 1
  <2>1. IsFiniteSet(DOMAIN d.ip)
    <3>1. DOMAIN d.ip = 1..Len(d.ip) /\ Len(d.ip) \in Nat
      BY <1>1 DEF Shape, DaemonType
    <3> QED
      BY <3>1, FS_Interval
  <2>2. IsFiniteSet(DOMAIN d.ip \ heard)
    BY <2>1, FS_Subset
  <2> QED
    BY <2>2, FS_RemoveElement
<1> QED
  BY <1>4, <1>5, <1>6, <1>7
  DEF Counts, SafetyInv, SessionInv, OutsideInv, FreshInv, MatureInv, CountInv, Running

\* The invariant holds at the start.
LEMMA SafetyInit == Init => SafetyInv
  BY DEF Init, InitialDaemon, SafetyInv, SessionInv, OutsideInv, FreshInv, MatureInv, CountInv

(***************************************************************************)
(* What a step of the daemon is: a handler leaves a daemon t of one of the *)
(* five classes, and Handle carries out what t did to its session.         *)
(***************************************************************************)
Ending(t)    == Ended(d, t) /\ \E v, h, o : Outcome(t, v, h, o)
Keeping(t)   == Kept(d, t) /\ Outcome(t, inView, heard, own)

Gathering(t) == d.mbox /\ \E m \in ViewMessage :
  m.n # 0 /\ m.idx \in 1..m.n /\ Gathers(d, m, t) /\ Outcome(t, TRUE, {}, NoMessage)
Deciding(t)  == inView /\ Decides(d, t) /\ Outcome(t, TRUE, heard, own)
Counting(t)  == inView /\ d.state = "GATHER" /\ Counts(d, t) /\
  \E k \in DOMAIN d.ip \ heard : \E o :
    (o = NoMessage \/ (o = own /\ k # d.idx)) /\ Outcome(t, TRUE, heard \cup {k}, o)

Classified ==
  Running /\ \E t : Shape(Me, t) /\ (\/ Ending(t) \/ Keeping(t) \/ Gathering(t)
                                 \/ Deciding(t) \/ Counting(t))

\* A timer or a command.
LEMMA LocalClass ==
  ASSUME TypeOK, SafetyInv, NEW S,
         \A t \in S : Shape(Me, t) /\ (Ended(d, t) \/ Kept(d, t)), Local(S)
  PROVE  Classified
<1>1. Running /\ Handle(S, inView, heard, own, maturing)
  BY DEF Local
<1>2. PICK t \in S : Outcome(t, inView, heard, own)
  BY <1>1, HandleOutcome
<1> QED
  BY <1>1, <1>2 DEF Classified, Ending, Keeping

\* A message that is no state message of this view.
LEMMA DeliverClass ==
  ASSUME TypeOK, SafetyInv, NEW m \in Message, m \in StateMessage => m.gid # d.gid,
         NEW r, Deliver(m, heard, own, r)
  PROVE  Classified
<1>1. Running /\ inView /\ Handle(Receive(d, m), TRUE, heard, own, r)
  BY DEF Deliver
<1>2. PICK t \in Receive(d, m) : Outcome(t, TRUE, heard, own)
  BY <1>1, HandleOutcome
<1>3. Shape(Me, d) /\ (d.state = "RUN" => d.mat)
  BY <1>1 DEF TypeOK, Shape, SafetyInv, MatureInv
<1>4. Shape(Me, t) /\ Decides(d, t)
  BY <1>3, ReceiveShape, ReceiveDecides DEF GroupMessage
<1> QED
  BY <1>1, <1>2, <1>4 DEF Classified, Deciding

\* A state message of this view.
LEMMA StateClass ==
  ASSUME TypeOK, SafetyInv, NEW m \in StateMessage, m.gid = d.gid,
         NEW k \in DOMAIN d.ip \ heard, NEW o,
         o = NoMessage \/ (o = own /\ k # d.idx),
         NEW r, Deliver(m, heard \cup {k}, o, r)
  PROVE  Classified
<1>1. Running /\ inView /\ Handle(Receive(d, m), TRUE, heard \cup {k}, o, r)
  BY DEF Deliver
<1>2. PICK t \in Receive(d, m) : Outcome(t, TRUE, heard \cup {k}, o)
  BY <1>1, HandleOutcome
<1>3. Shape(Me, d)
  BY DEF TypeOK, Shape
<1>4. d.state = "GATHER"
  <2>1. DOMAIN d.ip = 1..Len(d.ip) /\ Len(d.ip) \in Nat
    BY <1>3 DEF Shape, DaemonType
  <2>2. IsFiniteSet(DOMAIN d.ip \ heard)
    <3>1. IsFiniteSet(DOMAIN d.ip)
      BY <2>1, FS_Interval
    <3> QED
      BY <3>1, FS_Subset
  <2>3. Cardinality(DOMAIN d.ip \ heard) # 0
    BY <2>2, FS_EmptySet
  <2> QED
    BY <1>1, <2>3 DEF SafetyInv, CountInv
<1>5. Shape(Me, t) /\ Counts(d, t)
  BY <1>3, <1>4, ReceiveShape, ReceiveCounts DEF GroupMessage, Message
<1> QED
  BY <1>1, <1>2, <1>4, <1>5 DEF Classified, Counting

\* Every action is in one of the classes, unless SP_receive fails after a message that
\* its error branch would handle once more.
LEMMA StepClass ==
  ASSUME ErrorAfter \subseteq {"none", "arp"}, TypeOK, SafetyInv, Next
  PROVE  Classified
<1>1. Shape(Me, d) /\ d.out = <<>> /\ d.gid \in Nat /\ views \in Nat
  BY DEF TypeOK, Shape, DaemonType, SafetyInv, SessionInv
<1>2. CASE \E n \in 1..MaxMembers : \E idx \in 1..n : View(n, idx)
  <2>1. PICK n \in 1..MaxMembers, idx \in 1..MaxMembers : idx \in 1..n /\ View(n, idx)
    BY <1>2, BoundAssumption
  <2> DEFINE m == [kind |-> "view", gid |-> views + 1, n |-> n, idx |-> idx]
  <2>2. m \in ViewMessage /\ m \in GroupMessage /\ m.n # 0 /\ m.idx \in 1..m.n
    BY <1>1, <2>1, BoundAssumption DEF ViewMessage, GroupMessage
  <2>3. Running /\ d.mbox /\ Handle(Receive(d, m), TRUE, {}, NoMessage, maturing)
    BY <2>1 DEF View
  <2> HIDE DEF m
  <2>4. PICK t \in Receive(d, m) : Outcome(t, TRUE, {}, NoMessage)
    BY <2>3, HandleOutcome
  <2>5. Shape(Me, t) /\ (Ended(d, t) \/ Gathers(d, m, t))
    BY <1>1, <2>2, <2>3, ReceiveShape, ReceiveGathers DEF Running
  <2> QED
    BY <2>2, <2>3, <2>4, <2>5 DEF Classified, Ending, Gathering
<1>3. CASE OwnState
  <2>1. own # NoMessage /\ Deliver(own, heard \cup {own.idx}, NoMessage, maturing)
    BY <1>3 DEF OwnState
  <2>2. own \in StateMessage /\ Running /\ inView
    BY <2>1 DEF TypeOK, Deliver
  <2>3. own.gid = d.gid /\ own.idx \in DOMAIN d.ip \ heard
    BY <2>1, <2>2 DEF SafetyInv, CountInv
  <2> QED
    BY <2>1, <2>2, <2>3, StateClass
<1>4. CASE \E idx \in 1..MaxMembers : PeerState(idx)
  <2>1. PICK idx \in 1..MaxMembers : PeerState(idx)
    BY <1>4
  <2>2. PICK from \in Address : \E m \in PeerMessages(idx, from) :
                                   Deliver(m, heard \cup {idx}, own, maturing)
    BY <2>1 DEF PeerState
  <2>3. PICK m \in PeerMessages(idx, from) : Deliver(m, heard \cup {idx}, own, maturing)
    BY <2>2
  <2>4. idx \in DOMAIN d.ip \ heard /\ idx # d.idx
    BY <2>1 DEF PeerState
  <2>5. m \in StateMessage /\ m.gid = d.gid
    BY <1>1, BoundAssumption, PeerMessagesType DEF PeerMessages
  <2> QED
    BY <2>3, <2>4, <2>5, StateClass
<1>5. CASE LateState
  <2>1. PICK from \in Address :
           Deliver([kind |-> "state", gid |-> d.gid - 1, from |-> from, idx |-> 1,
                    mat |-> TRUE, claims |-> [v \in Vip |-> PREFER_CLAIMED],
                    prefer |-> Prefer[from]], heard, own, maturing)
    BY <1>5 DEF LateState
  <2> DEFINE m == [kind |-> "state", gid |-> d.gid - 1, from |-> from, idx |-> 1,
                   mat |-> TRUE, claims |-> [v \in Vip |-> PREFER_CLAIMED],
                   prefer |-> Prefer[from]]
  <2>2. d.gid - 1 \in Nat /\ d.gid - 1 # d.gid
    BY <1>1, <1>5 DEF LateState
  <2>3. [v \in Vip |-> PREFER_CLAIMED] \in Claims
    <3>1. [v \in Vip |-> PREFER_CLAIMED] \in [Vip -> Priority]
      BY PriorityType
    <3> QED
      BY <3>1 DEF Claims
  <2>4. Prefer[from] \in SUBSET Vip
    BY ConfigAssumption
  <2>5. m \in StateMessage /\ m \in Message /\ m.gid # d.gid
    BY <2>2, <2>3, <2>4 DEF StateMessage, Message
  <2> QED
    BY <2>1, <2>5, DeliverClass
<1>6. CASE Mature \/ OwnMature \/ ArpDelivered
  <2>1. /\ MaturingMessage \in Message /\ ArpMessage \in Message
        /\ MaturingMessage \notin StateMessage /\ ArpMessage \notin StateMessage
    BY DEF Message, StateMessage, MaturingMessage, ArpMessage
  <2> QED
    BY <1>6, <2>1, DeliverClass DEF Mature, OwnMature, ArpDelivered
<1>7. CASE BalanceDelivered
  <2>1. PICK k \in 0..BalanceRate : \E moves \in [1..k -> Move] :
           Deliver([kind |-> "balance", count |-> k, moves |-> moves], heard, own, maturing)
    BY <1>7 DEF BalanceDelivered
  <2>2. PICK moves \in [1..k -> Move] :
           Deliver([kind |-> "balance", count |-> k, moves |-> moves], heard, own, maturing)
    BY <2>1
  <2> DEFINE m == [kind |-> "balance", count |-> k, moves |-> moves]
  <2>3. k \in Nat
    BY ConfigAssumption
  <2>4. moves \in Seq(Move)
    BY <2>3
  <2>5. m \in Message /\ m \notin StateMessage
    BY <2>3, <2>4 DEF Message, BalanceMessage, StateMessage
  <2> QED
    BY <2>2, <2>5, DeliverClass
<1>8. CASE ReceiveFails
  <2>1. \A t \in ReceiveError(d) : Shape(Me, t) /\ Ended(d, t)
    BY <1>1, <1>8, ReceiveErrorShape, ReceiveErrorEnds DEF ReceiveFails
  <2> QED
    BY <1>8, <2>1, LocalClass DEF ReceiveFails
<1>9. CASE Boot \/ Fail \/ Recover \/ Kill
  <2>1. \A t \in Start(d) \cup ServiceFailure(d) \cup ServiceSuccess(d) \cup {Signal(d)} :
           Shape(Me, t) /\ Ended(d, t)
    BY <1>1, StartShape, ServiceShape, SignalShape, CommandsEnd
  <2> QED
    BY <1>9, <2>1, LocalClass DEF Boot, Fail, Recover, Kill
<1>10. CASE TurnMatureFires \/ RetryFires \/ ArpFires
  <2>1. \A t \in TurnMature(d) \cup RetryTimer(d) \cup ArpTimer(d) :
           Shape(Me, t) /\ (Ended(d, t) \/ Kept(d, t))
    BY <1>1, TimerShape, TimerKeeps
  <2> QED
    BY <1>10, <2>1, LocalClass DEF TurnMatureFires, RetryFires, ArpFires
<1>11. CASE BalanceFires
  <2>1. \A t \in BalanceTimer(d) : Shape(Me, t) /\ (Ended(d, t) \/ Kept(d, t))
    BY <1>1, BalanceTimerShape, BalanceTimerKeeps
  <2> QED
    BY <1>11, <2>1, LocalClass DEF BalanceFires
<1> QED
  BY <1>2, <1>3, <1>4, <1>5, <1>6, <1>7, <1>8, <1>9, <1>10, <1>11 DEF Next

\* Every class preserves the invariant.
LEMMA SafetyStep ==
  ASSUME ErrorAfter \subseteq {"none", "arp"}
  PROVE  TypeOK /\ SafetyInv /\ [Next]_vars => SafetyInv'
<1> SUFFICES ASSUME TypeOK, SafetyInv, [Next]_vars PROVE SafetyInv'
  OBVIOUS
<1>1. CASE Next
  <2>1. PICK t : /\ Running /\ Shape(Me, t)
                 /\ Ending(t) \/ Keeping(t) \/ Gathering(t) \/ Deciding(t) \/ Counting(t)
    BY <1>1, StepClass DEF Classified
  <2>2. CASE Ending(t)
    BY <2>1, <2>2, EndedStep DEF Ending
  <2>3. CASE Keeping(t)
    BY <2>1, <2>3, KeptStep DEF Keeping
  <2>4. CASE Gathering(t)
    BY <2>1, <2>4, GatherStep DEF Gathering
  <2>5. CASE Deciding(t)
    BY <2>1, <2>5, DecideStep DEF Deciding
  <2>6. CASE Counting(t)
    BY <2>1, <2>6, CountStep DEF Counting
  <2> QED
    BY <2>1, <2>2, <2>3, <2>4, <2>5, <2>6
<1>2. CASE UNCHANGED vars
  BY <1>2 DEF vars, SafetyInv, SessionInv, OutsideInv, FreshInv, MatureInv, CountInv, Running
<1> QED
  BY <1>1, <1>2

-----------------------------------------------------------------------------
(* The theorems. *)

\* The invariant holds in every state of a daemon whose SP_receive does not fail right
\* after a view, a state, maturing or balance message.
LEMMA SafetyCorrect ==
  ASSUME ErrorAfter \subseteq {"none", "arp"}
  PROVE  Spec => []SafetyInv
<1>1. TypeOK /\ SafetyInv /\ [Next]_vars => SafetyInv'
  BY SafetyStep
<1> QED
  BY <1>1, SafetyInit, TypeCorrect, PTL DEF Spec

\* A daemon has interfaces up only as a member of a view that Spread has delivered in
\* the session it is in, also when that session began in the middle of a handler; no
\* handler, timer, operator or failing call leaves one up at a daemon without a session,
\* or at one that exits through Clean_up.
THEOREM ServesInViewCorrect ==
  ASSUME ErrorAfter \subseteq {"none", "arp"}
  PROVE  Spec => []ServesInView
<1>1. SafetyInv => ServesInView
  BY DEF SafetyInv, SessionInv, OutsideInv, ServesInView
<1> QED
  BY <1>1, SafetyCorrect, PTL

\* On builds without NEEDS_FORCE_REUP a daemon that is not mature has nothing up.
THEOREM ImmatureCorrect ==
  ASSUME ErrorAfter \subseteq {"none", "arp"}, ~ForceReup
  PROVE  Spec => []ImmatureServesNothing
<1>1. SafetyInv => ImmatureServesNothing
  BY DEF SafetyInv, MatureInv, ImmatureServesNothing
<1> QED
  BY <1>1, SafetyCorrect, PTL

\* Num_pending_states is at all times the number of members of the view whose state
\* message has not been received, and the daemon gathers exactly as long as there are
\* any, whatever is received in between and whichever order it comes in.
THEOREM PendingCorrect ==
  ASSUME ErrorAfter \subseteq {"none", "arp"}
  PROVE  Spec => []PendingCountsMissing
<1>1. SafetyInv => PendingCountsMissing
  BY DEF SafetyInv, CountInv, PendingCountsMissing
<1> QED
  BY <1>1, SafetyCorrect, PTL

-----------------------------------------------------------------------------
(* What the service sees of the state before and after a step. *)

missing == IF inView THEN DOMAIN d.ip \ heard ELSE {}

Seen == <<Phase, inView /\ d.mat, missing, d.up>>

\* After the step the daemon gathers as long as there is somebody to hear from.
LEMMA MissingCountNext ==
  ASSUME TypeOK', SafetyInv', Running', inView'
  PROVE  /\ missing' \subseteq Nat \ {0}
         /\ missing' = {} <=> d'.state # "GATHER"
<1>1. DOMAIN d'.ip = 1..Len(d'.ip) /\ Len(d'.ip) \in Nat
  BY DEF TypeOK, DaemonType
<1>2. IsFiniteSet(DOMAIN d'.ip \ heard')
  <2>1. IsFiniteSet(DOMAIN d'.ip)
    BY <1>1, FS_Interval
  <2> QED
    BY <2>1, FS_Subset
<1>3. Cardinality(DOMAIN d'.ip \ heard') = 0 <=> DOMAIN d'.ip \ heard' = {}
  BY <1>2, FS_EmptySet
<1> QED
  BY <1>1, <1>3 DEF missing, SafetyInv, CountInv

-----------------------------------------------------------------------------
(* The steps. *)

\* A session that ends is left; a process that exits stops.
LEMMA EndingServes ==
  ASSUME TypeOK, SafetyInv, Running, NEW t, Shape(Me, t), Ending(t)
  PROVE  Abstract!Leave \/ Abstract!Stop \/ UNCHANGED Seen
<1>1. PICK v, h, o : Outcome(t, v, h, o)
  BY DEF Ending
<1>2. ~SameSession(t)
  BY DEF Ending, Ended, SameSession
<1>3. d' = [t EXCEPT !.out = <<>>] /\ inView' = FALSE
  BY <1>1, <1>2 DEF Outcome
<1>4. /\ d'.up = t.up /\ d'.exit = t.exit
      /\ t.up \in {{}, d.up} /\ (t.exit = "no" => t.up = {})
  BY <1>3 DEF Shape, DaemonType, Ending, Ended
<1>5. (inView /\ d.mat)' = FALSE /\ missing' = {}
  BY <1>3 DEF missing
<1>6. CASE ~Running'
  <2>1. Phase # "gone" /\ Phase' = "gone"
    BY <1>6 DEF Phase
  <2> QED
    BY <1>4, <1>5, <2>1 DEF Abstract!Stop, Abstract!Dropped, missing
<1>7. CASE Running' /\ inView
  <2>1. Phase \in {"gathering", "waiting", "serving"} /\ Phase' = "away"
    BY <1>3, <1>7 DEF Phase
  <2>2. d'.up = {}
    BY <1>4, <1>7 DEF Running
  <2> QED
    BY <1>5, <2>1, <2>2 DEF Abstract!Leave, Abstract!Present, Abstract!Dropped, missing
<1>8. CASE Running' /\ ~inView
  <2>1. Phase = "away" /\ Phase' = "away"
    BY <1>3, <1>8 DEF Phase
  <2>2. d'.up = {} /\ d.up = {}
    BY <1>4, <1>8 DEF Running, SafetyInv, OutsideInv
  <2>3. (inView /\ d.mat) = FALSE /\ missing = {}
    BY <1>8 DEF missing
  <2> QED
    BY <1>5, <2>1, <2>2, <2>3 DEF Seen
<1> QED
  BY <1>6, <1>7, <1>8

\* A timer or a command that keeps the session shows nothing.
LEMMA KeepingServes ==
  ASSUME TypeOK, SafetyInv, Running, NEW t, Shape(Me, t), Keeping(t)
  PROVE  UNCHANGED Seen
<1>1. Shape(Me, d)
  BY DEF TypeOK, Shape
<1>2. d' = [t EXCEPT !.out = <<>>] /\ inView' = inView /\ heard' = heard
  BY DEF Keeping, Outcome, Kept, TypeOK
<1>3. /\ d'.up = d.up /\ d'.exit = d.exit /\ d'.mat = d.mat /\ d'.state = d.state
      /\ d'.ip = d.ip
  BY <1>1, <1>2 DEF Keeping, Kept, Same, Shape, DaemonType
<1> QED
  BY <1>2, <1>3 DEF Seen, Phase, Running, missing

\* A view is joined: nothing comes up or goes down, and nobody has been heard.
LEMMA GatheringServes ==
  ASSUME TypeOK, SafetyInv, TypeOK', SafetyInv', Running, NEW t, Shape(Me, t), Gathering(t)
  PROVE  Abstract!Join
<1>1. PICK m \in ViewMessage : m.n # 0 /\ m.idx \in 1..m.n /\ Gathers(d, m, t)
                                 /\ Outcome(t, TRUE, {}, NoMessage)
  BY DEF Gathering
<1>2. d' = [t EXCEPT !.out = <<>>] /\ inView'
  BY <1>1 DEF Outcome, Gathers
<1>3. d'.up = d.up /\ d'.exit = "no" /\ d'.mat = d.mat /\ d'.state = "GATHER"
  BY <1>1, <1>2 DEF Gathers, Shape, DaemonType
<1>4. missing' # {} /\ missing' \subseteq Nat \ {0}
  BY <1>2, <1>3, MissingCountNext DEF Running
<1>5. Phase # "gone" /\ Phase' = "gathering"
  BY <1>2, <1>3 DEF Phase, Running
<1>6. (inView /\ d.mat)' = (inView /\ d.mat)
  <2>1. inView \/ ~d.mat
    BY DEF Gathering, SafetyInv, FreshInv
  <2> QED
    BY <1>2, <1>3, <2>1
<1> QED
  BY <1>3, <1>4, <1>5, <1>6 DEF Abstract!Join, missing

\* A message that is not counted matures the daemon, moves interfaces while it serves,
\* or shows nothing.
LEMMA DecidingServes ==
  ASSUME TypeOK, SafetyInv, TypeOK', SafetyInv', Running, NEW t, Shape(Me, t), Deciding(t)
  PROVE  Abstract!Mature \/ Abstract!Rebalance \/ UNCHANGED Seen
<1>1. Shape(Me, d) /\ d.out = <<>>
  BY DEF TypeOK, Shape, SafetyInv, SessionInv
<1>2. t.out = <<>>
  BY <1>1 DEF Deciding, Decides, Same, Shape, DaemonType
<1>3. SameSession(t) /\ inView
  BY <1>2 DEF SameSession, Deciding
<1>4. d' = [t EXCEPT !.out = <<>>] /\ inView' /\ heard' = heard
  BY <1>3 DEF Deciding, Outcome
<1>5. /\ d'.exit = d.exit /\ d'.up = t.up /\ d'.mat = t.mat /\ d'.state = t.state
      /\ DOMAIN d'.ip = DOMAIN d.ip
  BY <1>1, <1>4 DEF Deciding, Decides, Same, Shape, DaemonType
<1>6. missing' = missing /\ d'.up \subseteq Vip /\ Running'
  BY <1>3, <1>4, <1>5 DEF missing, TypeOK, DaemonType, Running
<1>7. d.state = "RUN" => d.mat
  BY <1>3 DEF SafetyInv, MatureInv
<1>8. /\ (inView /\ d.mat) = d.mat /\ (inView /\ d.mat)' = d'.mat
      /\ d.mat \in BOOLEAN /\ d'.mat \in BOOLEAN
  BY <1>3, <1>4 DEF TypeOK, DaemonType
<1>9. CASE d'.mat = d.mat /\ d'.state = "RUN"
  <2>1. d.state = "RUN"
    BY <1>5, <1>9 DEF Deciding, Decides
  <2>2. Phase = "serving" /\ Phase' = "serving"
    BY <1>3, <1>4, <1>6, <1>9, <2>1 DEF Phase
  <2> QED
    BY <1>6, <1>8, <1>9, <2>2 DEF Abstract!Rebalance, missing
<1>10. CASE d'.mat = d.mat /\ d'.state # "RUN"
  <2>1. d'.state = d.state /\ d'.up = d.up
    BY <1>5, <1>10 DEF Deciding, Decides
  <2>2. Phase' = Phase
    BY <1>3, <1>4, <1>6, <2>1 DEF Phase
  <2> QED
    BY <1>6, <1>8, <1>10, <2>1, <2>2 DEF Seen
<1>11. CASE d'.mat # d.mat /\ d'.state = "GATHER"
  <2>1. d.state = "GATHER" /\ d'.up = d.up /\ ~d.mat /\ d'.mat
    BY <1>5, <1>8, <1>11 DEF Deciding, Decides
  <2>2. Phase = "gathering" /\ Phase' = "gathering"
    BY <1>3, <1>4, <1>6, <1>11, <2>1 DEF Phase
  <2> QED
    BY <1>6, <1>8, <2>1, <2>2 DEF Abstract!Mature, missing
<1>12. CASE d'.mat # d.mat /\ d'.state # "GATHER"
  <2>1. d.state # "GATHER" /\ d'.state = "RUN" /\ ~d.mat /\ d'.mat
    BY <1>5, <1>8, <1>12 DEF Deciding, Decides
  <2>2. Phase = "waiting" /\ Phase' = "serving"
    BY <1>3, <1>4, <1>6, <1>7, <2>1 DEF Phase
  <2> QED
    BY <1>6, <1>8, <2>1, <2>2 DEF Abstract!Mature, missing
<1> QED
  BY <1>9, <1>10, <1>11, <1>12

\* A member is heard: the last one makes the daemon decide, and before that the daemon
\* may only take interfaces down.
LEMMA CountingServes ==
  ASSUME ~ForceReup,
         TypeOK, SafetyInv, TypeOK', SafetyInv', Running, NEW t, Shape(Me, t), Counting(t)
  PROVE  Abstract!Hear \/ Abstract!Decide
<1>1. Shape(Me, d) /\ d.out = <<>>
  BY DEF TypeOK, Shape, SafetyInv, SessionInv
<1>2. PICK k \in DOMAIN d.ip \ heard : \E o : Outcome(t, TRUE, heard \cup {k}, o)
  BY DEF Counting
<1>3. t.out = <<>>
  BY <1>1 DEF Counting, Counts, Same, Shape, DaemonType
<1>4. SameSession(t) /\ inView /\ d.state = "GATHER"
  BY <1>3 DEF SameSession, Counting
<1>5. d' = [t EXCEPT !.out = <<>>] /\ inView' /\ heard' = heard \cup {k}
  BY <1>2, <1>4 DEF Outcome
<1>6. /\ d'.exit = d.exit /\ d'.up = t.up /\ d'.mat = t.mat /\ d'.state = t.state
      /\ DOMAIN d'.ip = DOMAIN d.ip
  BY <1>1, <1>5 DEF Counting, Counts, Same, Shape, DaemonType
<1>7. Running' /\ k \in missing /\ missing' = missing \ {k}
  BY <1>4, <1>5, <1>6 DEF missing, Running
<1>8. /\ (inView /\ d.mat) = d.mat /\ (inView /\ d.mat)' = d'.mat
      /\ d.mat \in BOOLEAN /\ d'.mat \in BOOLEAN
      /\ d.mat => d'.mat
  BY <1>4, <1>5, <1>6 DEF TypeOK, DaemonType, Counting, Counts
<1>9. Phase = "gathering"
  BY <1>4 DEF Phase
<1>10. CASE d'.state = "GATHER"
  <2>1. Phase' = "gathering"
    BY <1>5, <1>7, <1>10 DEF Phase
  <2>2. missing' # {}
    BY <1>5, <1>7, <1>10, MissingCountNext
  <2>3. d'.up \subseteq d.up
    BY <1>6, <1>10 DEF Counting, Counts
  <2> QED
    BY <1>7, <1>8, <1>9, <2>1, <2>2, <2>3 DEF Abstract!Hear, missing
<1>11. CASE d'.state # "GATHER"
  <2>1. missing' = {} /\ missing = {k}
    BY <1>5, <1>7, <1>11, MissingCountNext
  <2>2. d'.state = "RUN" <=> d'.mat
    BY <1>6, <1>11 DEF Counting, Counts
  <2>3. Phase' = IF d'.mat THEN "serving" ELSE "waiting"
    BY <1>5, <1>7, <1>11, <2>2 DEF Phase
  <2>4. d'.up \subseteq IF d'.mat THEN Vip ELSE {}
    BY <1>7 DEF TypeOK, DaemonType, SafetyInv, MatureInv
  <2> QED
    BY <1>8, <1>9, <2>1, <2>3, <2>4 DEF Abstract!Decide, missing
<1> QED
  BY <1>10, <1>11

-----------------------------------------------------------------------------
(* The refinement. *)

\* A daemon starts away from the group.
LEMMA ServiceInit == Init => Abstract!Init
  BY DEF Init, InitialDaemon, Abstract!Init, Phase, Running

\* Every step is a step of the service or shows nothing of it.
LEMMA ServiceStep ==
  ASSUME ErrorAfter \subseteq {"none", "arp"}, ~ForceReup
  PROVE  TypeOK /\ SafetyInv /\ TypeOK' /\ SafetyInv' /\ [Next]_vars
           => [Abstract!Next]_Abstract!vars
<1> SUFFICES ASSUME TypeOK, SafetyInv, TypeOK', SafetyInv', [Next]_vars
             PROVE  Abstract!Next \/ UNCHANGED Seen
  BY DEF Seen, Abstract!vars, missing
<1>1. CASE Next
  <2>1. PICK t : /\ Running /\ Shape(Me, t)
                 /\ Ending(t) \/ Keeping(t) \/ Gathering(t) \/ Deciding(t) \/ Counting(t)
    BY <1>1, StepClass DEF Classified
  <2> QED
    BY <2>1, EndingServes, KeepingServes, GatheringServes, DecidingServes, CountingServes
    DEF Abstract!Next
<1>2. CASE UNCHANGED vars
  BY <1>2 DEF vars, Seen, Phase, Running, missing
<1> QED
  BY <1>1, <1>2

\* Module Daemon implements module Service on builds without NEEDS_FORCE_REUP: whatever
\* peers, operators and failing calls do, interfaces come up only when the daemon decides
\* or serves, are kept while a view is gathered, and are gone with the session.
THEOREM ServiceCorrect ==
  ASSUME ErrorAfter \subseteq {"none", "arp"}, ~ForceReup
  PROVE  Spec => KeepsService
<1>1. TypeOK /\ SafetyInv /\ TypeOK' /\ SafetyInv' /\ [Next]_vars
        => [Abstract!Next]_Abstract!vars
  BY ServiceStep
<1> QED
  BY <1>1, ServiceInit, TypeCorrect, SafetyCorrect, PTL DEF Spec, KeepsService, Abstract!Spec
-----------------------------------------------------------------------------
(***************************************************************************)
(* The event queue: Turn_mature and Balance are never forgotten            *)
(* (MatureArmedCorrect, BalanceArmedCorrect), whatever fails and whatever  *)
(* the error branch of Handle_network handles once more.                   *)
(*                                                                         *)
(* Neither property is inductive.  A handler that loses its session may    *)
(* have sent the maturing message before or after, so maturity is followed *)
(* through the calls a handler makes (Armed); and Balance is in the queue  *)
(* whenever State is RUN, in a view or not (Queued), because the daemon    *)
(* may come to a view in any state.                                        *)
(***************************************************************************)

\* A daemon with a session that is not mature will be: the timer is queued, the handler
\* has sent the message, or one sent before (u) is under way in the same session.
Armed(t, u) ==
  t.exit = "no" /\ t.mbox /\ ~t.mat =>
    t.tMature \/ Sent(t, "mature") # {} \/ (u /\ SameSession(t))

\* A daemon in RUN will balance again, unless a configuration has one round only.
Queued(t) == t.exit = "no" /\ t.state = "RUN" /\ ~CompleteBalance => t.tBalance

Timed(t, u) == Armed(t, u) /\ Queued(t)

\* The fields that these speak of.
SameTimers(s, t) ==
  /\ t.exit = s.exit /\ t.mbox = s.mbox /\ t.out = s.out
  /\ t.mat = s.mat /\ t.state = s.state
  /\ t.tMature = s.tMature /\ t.tBalance = s.tBalance

\* What is armed depends on the fields that SameTimers names.
LEMMA TimedFrom ==
  ASSUME NEW s, NEW t, SameTimers(s, t), NEW u
  PROVE  (Armed(s, u) => Armed(t, u)) /\ (Queued(s) => Queued(t))
  BY DEF SameTimers, Armed, Queued, Sent, SameSession

-----------------------------------------------------------------------------
(* The Spread session. *)

\* Spread_reconnect queues Turn_mature with every session that it begins.
LEMMA ReconnectTimed ==
  ASSUME NEW s, Shape(Me, s), NEW u, NEW t \in SpreadReconnect(s)
  PROVE  Armed(t, u) /\ (Queued(s) => Queued(t))
<1> DEFINE base == CleanUp(s)
<1>1. Shape(Me, base) /\ SameTimers(s, base)
  BY ZenonT(60), CleanUpShape DEF Shape, DaemonType, CleanUp, Release, SameTimers
<1> DEFINE gone   == [base EXCEPT !.mbox = FALSE, !.out = <<Leave>>]
           retry  == [gone EXCEPT !.tRetry = TRUE]
           joined == [gone EXCEPT !.mbox = TRUE, !.out = <<Join>>, !.state = "BOOT",
                                  !.mat = FALSE, !.oldMat = FALSE,
                                  !.tMature = TRUE, !.mine = 0]
<1>2. t \in {retry, joined}
  BY DEF SpreadReconnect
<1> HIDE DEF base
<1>3. Armed(retry, u) /\ (Queued(s) => Queued(retry))
  BY <1>1 DEF Armed, Queued, SameTimers, Shape, DaemonType
<1>4. Armed(joined, u) /\ Queued(joined)
  BY <1>1 DEF Armed, Queued, Shape, DaemonType
<1> QED
  BY <1>2, <1>3, <1>4

\* So does the error branch of every call.
LEMMA ErrorTimed ==
  ASSUME NEW s, Shape(Me, s), NEW u, NEW t \in AfterSpreadError(s)
  PROVE  Armed(t, u) /\ (Queued(s) => Queued(t))
<1>1. Armed(FatalExit(s), u) /\ Queued(FatalExit(s))
  BY DEF FatalExit, Armed, Queued, Shape, DaemonType
<1> QED
  BY <1>1, ReconnectTimed DEF AfterSpreadError

\* Sending forgets no timer.
LEMMA MulticastTimed ==
  ASSUME NEW s, Shape(Me, s), NEW u, NEW m \in Message, NEW t \in Multicast(s, m)
  PROVE  /\ Armed(s, u) \/ m.kind = "mature" => Armed(t, u)
         /\ Queued(s) => Queued(t)
<1> DEFINE sent == [s EXCEPT !.out = Append(s.out, m)]
<1>1. /\ sent.exit = s.exit /\ sent.mbox = s.mbox /\ sent.mat = s.mat
      /\ sent.state = s.state /\ sent.tMature = s.tMature /\ sent.tBalance = s.tBalance
  BY DEF Shape, DaemonType
<1>2. /\ Sent(s, "mature") # {} \/ m.kind = "mature" => Sent(sent, "mature") # {}
      /\ SameSession(s) => SameSession(sent)
  BY AppendSends
<1>3. t = sent \/ t \in SpreadReconnect(s) \/ t \in AfterSpreadError(s)
  BY DEF Multicast
<1> HIDE DEF sent
<1>4. /\ Armed(s, u) \/ m.kind = "mature" => Armed(sent, u)
      /\ Queued(s) => Queued(sent)
  BY <1>1, <1>2 DEF Armed, Queued
<1> QED
  BY <1>3, <1>4, ReconnectTimed, ErrorTimed

\* Send_local_arp_cache.
LEMMA SendLocalArpCacheTimed ==
  ASSUME NEW s, Shape(Me, s), NEW u, Timed(s, u), NEW t \in SendLocalArpCache(s)
  PROVE  Timed(t, u)
<1> DEFINE empty == [s EXCEPT !.mess = Junk]
<1>1. Shape(Me, empty) /\ SameTimers(s, empty)
  BY DEF Shape, DaemonType, Buffer, SameTimers
<1>2. ArpMessage \in Message /\ t \in Multicast(empty, ArpMessage)
  BY DEF Message, SendLocalArpCache
<1> HIDE DEF empty
<1> QED
  BY <1>1, <1>2, TimedFrom, MulticastTimed DEF Timed

\* Send_state_message, also when its assertion fails.
LEMMA SendStateMessageTimed ==
  ASSUME NEW s, Shape(Me, s), NEW u, Timed(s, u), NEW t \in SendStateMessage(s)
  PROVE  Timed(t, u)
<1> DEFINE empty  == [s EXCEPT !.mess = Junk]
           failed == [s EXCEPT !.exit = "assert", !.mbox = FALSE, !.out = <<Leave>>]
<1>1. Shape(Me, empty) /\ SameTimers(s, empty)
  BY DEF Shape, DaemonType, Buffer, SameTimers
<1>2. StateMessageOf(s) \in Message
  BY StateMessageType DEF Message
<1>3. Timed(failed, u)
  BY DEF Timed, Armed, Queued, Shape, DaemonType
<1>4. t = failed \/ t \in Multicast(empty, StateMessageOf(s))
  BY DEF SendStateMessage
<1> HIDE DEF empty, failed
<1> QED
  BY <1>1, <1>2, <1>3, <1>4, TimedFrom, MulticastTimed DEF Timed

-----------------------------------------------------------------------------
(* The handlers. *)

\* Handle_Post_Release and Acquire touch no timer.
LEMMA HelpersSameTimers ==
  ASSUME NEW s, Shape(Me, s), NEW V
  PROVE  /\ SameTimers(s, PostRelease(s, V))
         /\ SameTimers(s, Acquire(s, V)) /\ SameTimers(s, Release(s, V))
  BY DEF SameTimers, PostRelease, Acquire, Release, Shape, DaemonType

\* The shift to RUN queues Balance; the daemon that makes it is mature.
LEMMA ShiftToRunTimed ==
  ASSUME NEW s, Shape(Me, s), s.mat, NEW u, NEW t \in ShiftToRun(s)
  PROVE  Timed(t, u)
<1>1. PICK c \in ClaimUnclaimed(PriorityClaim(s)) :
         t = [c EXCEPT !.state = "RUN", !.tBalance = TRUE]
  BY DEF ShiftToRun
<1>2. Shape(Me, c)
  BY PriorityClaimShape, ClaimUnclaimedShape
<1>3. t.tBalance
  BY <1>1, <1>2 DEF Shape, DaemonType
<1>4. t.mat
  BY ShiftToRunSame DEF Same, Shape, DaemonType
<1> QED
  BY <1>3, <1>4 DEF Timed, Armed, Queued

\* Handle_mature.
LEMMA HandleMatureTimed ==
  ASSUME NEW s, Shape(Me, s), NEW u, Timed(s, u), NEW t \in HandleMature(s)
  PROVE  Timed(t, u) /\ t.mat
<1> DEFINE matured == [s EXCEPT !.mat = TRUE, !.tMature = FALSE]
<1>1. Shape(Me, matured) /\ matured.mat /\ matured.state = s.state
  BY DEF Shape, DaemonType
<1>2. CASE t = s /\ s.mat
  BY <1>2
<1>3. CASE s.state = "GATHER" /\ t = matured
  BY <1>1, <1>3 DEF Timed, Armed, Queued
<1>4. CASE t \in ShiftToRun(matured)
  <2> HIDE DEF matured
  <2>0. Same([matured EXCEPT !.state = "RUN"], t)
    BY <1>1, <1>4, ShiftToRunSame
  <2>1. t.mat
    BY <1>1, <2>0 DEF Same, Shape, DaemonType
  <2> QED
    BY <1>1, <1>4, <2>1, ShiftToRunTimed
<1> QED
  BY <1>2, <1>3, <1>4 DEF HandleMature

\* Handle_membership takes Balance out of the queue with the state it was queued for.
LEMMA HandleMembershipTimed ==
  ASSUME NEW s, Shape(Me, s), NEW u, Timed(s, u), NEW m \in ViewMessage,
         NEW t \in HandleMembership(s, m)
  PROVE  Timed(t, u)
<1> DEFINE kept     == s.state \in {"GATHER", "BOOT"}
           ip       == [k \in 1..m.n |-> NoAddr]
           num      == [k \in 1..m.n |-> 0]
           oldOwner == IF kept THEN s.oldOwner ELSE s.owner
           oldPrio  == IF kept THEN s.oldPrio ELSE s.prio
           prio     == [v \in Vip |-> UNCLAIMED]
           viewed   == [s EXCEPT !.gid = m.gid, !.pending = m.n, !.idx = m.idx,
                          !.ip = ip, !.num = num, !.oldOwner = oldOwner,
                          !.oldPrio = oldPrio, !.owner = Nobody, !.prio = prio]
<1>1. m.gid \in Nat /\ m.n \in Int /\ m.n \in Nat /\ m.idx \in Nat \ {0}
  BY DEF ViewMessage
<1>2. ip \in Seq(AnyAddress) /\ num \in Seq(Int) /\ DOMAIN num = DOMAIN ip
  BY <1>1 DEF AnyAddress
<1>3. /\ oldOwner \in [Vip -> AnyAddress] /\ oldPrio \in [Vip -> Priority]
      /\ Nobody \in [Vip -> AnyAddress] /\ prio \in [Vip -> Priority]
  BY PriorityType DEF Shape, DaemonType, Nobody, AnyAddress
<1>4. Shape(Me, viewed) /\ SameTimers(s, viewed)
  <2> HIDE DEF ip, num, oldOwner, oldPrio, prio
  <2> QED
    BY <1>1, <1>2, <1>3 DEF Shape, DaemonType, SameTimers
<1>5. PICK c \in SendStateMessage(viewed) :
         t = IF c.exit = "no" THEN [c EXCEPT !.state = "GATHER", !.tBalance = FALSE] ELSE c
  BY DEF HandleMembership
<1> HIDE DEF viewed
<1>6. Shape(Me, c) /\ Timed(c, u)
  BY <1>4, <1>5, TimedFrom, SendStateMessageShape, SendStateMessageTimed DEF Timed
<1> DEFINE gathering == [c EXCEPT !.state = "GATHER", !.tBalance = FALSE]
<1>7. Timed(gathering, u)
  BY <1>6 DEF Timed, Armed, Queued, Sent, SameSession, Shape, DaemonType
<1> QED
  BY <1>5, <1>6, <1>7

\* The membership branch of Handle_network.
LEMMA HandleViewTimed ==
  ASSUME NEW s, Shape(Me, s), NEW u, Timed(s, u), NEW m \in ViewMessage,
         NEW t \in HandleView(s, m)
  PROVE  Timed(t, u)
<1>1. PICK c \in HandleMembership(s, m) :
         t \in IF c.exit = "no" THEN SendLocalArpCache(c) ELSE {c}
  BY DEF HandleView
<1> QED
  BY <1>1, HandleMembershipShape, HandleMembershipTimed, SendLocalArpCacheTimed

\* Merging claims touches no timer.
LEMMA MergeClaimsSameTimers ==
  ASSUME NEW s, Shape(Me, s), NEW m
  PROVE  SameTimers(s, MergeClaims(s, m))
<1> DEFINE C     == DOMAIN m.claims
           fresh == {v \in C : s.owner[v] = NoAddr}
           lost  == {v \in C \ fresh : s.prio[v] \in {PREFER_CLAIMED, m.claims[v]}}
           won   == {v \in C \ (fresh \cup lost) :
                       s.prio[v] = CLAIMED /\ m.claims[v] > PREFER}
           released == (IF m.from = s.me THEN lost ELSE {})
                         \cup {v \in won : s.owner[v] = s.me}
           ip    == [s.ip EXCEPT ![m.idx] = m.from]
           owner == [v \in Vip |-> IF v \in fresh \cup won THEN m.from ELSE s.owner[v]]
           prio  == [v \in Vip |-> IF v \in fresh \cup won THEN m.claims[v] ELSE s.prio[v]]
           num   == [k \in DOMAIN s.num |->
                       (IF k = m.idx THEN Cardinality(C) - Cardinality(lost) ELSE s.num[k])
                         - Load(s.owner, won, ip[k])]
           oldOwner == [v \in Vip |-> IF v \in lost \cup won THEN owner[v] ELSE s.oldOwner[v]]
           oldPrio  == [v \in Vip |-> IF v \in lost \cup won THEN prio[v] ELSE s.oldPrio[v]]
           base    == Release(s, released)
           claimed == [base EXCEPT !.ip = ip, !.num = num, !.owner = owner, !.prio = prio,
                                   !.oldOwner = oldOwner, !.oldPrio = oldPrio]
           posted  == PostRelease(claimed, released)
           wanted  == {v \in m.prefer : prio[v] < PREFER}
           owner2  == [v \in Vip |-> IF v \in wanted THEN m.from ELSE owner[v]]
           prio2   == [v \in Vip |-> IF v \in wanted THEN PREFER ELSE prio[v]]
<1>1. MergeClaims(s, m) = [posted EXCEPT !.owner = owner2, !.prio = prio2]
  BY DEF MergeClaims
<1>2. SameTimers(s, base) /\ DOMAIN base = DOMAIN s
  <2> HIDE DEF released
  <2> QED
    BY HelpersSameTimers DEF Release
<1>3. SameTimers(base, claimed) /\ DOMAIN claimed = DOMAIN s
  <2> HIDE DEF base, ip, num, owner, prio, oldOwner, oldPrio
  <2> QED
    BY <1>2 DEF SameTimers, Shape, DaemonType
<1>4. SameTimers(claimed, posted) /\ DOMAIN posted = DOMAIN s
  <2> HIDE DEF claimed, released
  <2> QED
    BY <1>3 DEF SameTimers, PostRelease, Shape, DaemonType
<1> HIDE DEF base, claimed, posted, owner2, prio2
<1> QED
  BY <1>1, <1>2, <1>3, <1>4 DEF SameTimers, Shape, DaemonType

\* The end of Handle_state.
LEMMA CountStateTimed ==
  ASSUME NEW s, Shape(Me, s), NEW u, Timed(s, u), NEW t \in CountState(s)
  PROVE  Timed(t, u)
<1> DEFINE counted == [s EXCEPT !.pending = @ - 1]
           waiting == [counted EXCEPT !.state = "BOOT"]
<1>1. Shape(Me, counted) /\ SameTimers(s, counted) /\ (s.mat => counted.mat)
  <2>1. s.pending - 1 \in Int
    BY DEF Shape, DaemonType
  <2> QED
    BY <2>1 DEF Shape, DaemonType, SameTimers
<1>2. t = counted \/ (s.mat /\ t \in ShiftToRun(counted)) \/ t = waiting
  BY DEF CountState
<1> HIDE DEF counted
<1>3. Timed(counted, u)
  BY <1>1, TimedFrom DEF Timed
<1>4. Timed(waiting, u)
  BY <1>1, <1>3 DEF Timed, Armed, Queued, Sent, SameSession, Shape, DaemonType
<1> QED
  BY <1>1, <1>2, <1>3, <1>4, ShiftToRunTimed

\* Handle_state, in any state.
LEMMA HandleStateTimed ==
  ASSUME NEW s, Shape(Me, s), NEW u, Timed(s, u), NEW m \in StateMessage,
         NEW t \in HandleState(s, m)
  PROVE  Timed(t, u)
<1> DEFINE merged == MergeClaims(s, m)
<1>1. Shape(Me, merged) /\ Timed(merged, u)
  BY MergeClaimsShape, MergeClaimsSameTimers, TimedFrom DEF Timed
<1> HIDE DEF merged
<1>2. CASE t = s
  BY <1>2
<1>3. CASE \E c \in IF ~s.mat /\ m.mat THEN HandleMature(merged) ELSE {merged} :
             t \in CountState(c)
  <2>1. PICK c : c \in HandleMature(merged) \cup {merged} /\ t \in CountState(c)
    BY <1>3
  <2>2. Shape(Me, c) /\ Timed(c, u)
    BY <1>1, <2>1, HandleMatureShape, HandleMatureTimed
  <2> QED
    BY <2>1, <2>2, CountStateTimed
<1> QED
  BY <1>2, <1>3 DEF HandleState, merged

\* Handle_balance touches no timer.
LEMMA HandleBalanceTimed ==
  ASSUME NEW s, Shape(Me, s), NEW u, Timed(s, u), NEW m
  PROVE  Timed(HandleBalance(s, m), u)
<1>1. ASSUME NEW moves PROVE SameTimers(s, ApplyMoves(s, moves))
  <2>1. PICK owner, up, mine, num, taken :
          ApplyMoves(s, moves) =
            PostRelease([s EXCEPT !.owner = owner, !.up = up, !.mine = mine, !.num = num], taken)
    BY Zenon DEF ApplyMoves
  <2> QED
    BY <2>1 DEF SameTimers, PostRelease, Shape, DaemonType
<1>2. HandleBalance(s, m) = s \/ \E moves : HandleBalance(s, m) = ApplyMoves(s, moves)
  BY Zenon DEF HandleBalance
<1>3. CASE HandleBalance(s, m) = s
  BY <1>3
<1>4. CASE \E moves : HandleBalance(s, m) = ApplyMoves(s, moves)
  BY <1>1, <1>4, TimedFrom DEF Timed
<1> QED
  BY <1>2, <1>3, <1>4

-----------------------------------------------------------------------------
(* Handle_network. *)

\* Every kind of message, received or handled once more after an error.
LEMMA DispatchTimed ==
  ASSUME NEW s, Shape(Me, s), NEW u, Timed(s, u), NEW m \in GroupMessage,
         NEW t \in Dispatch(s, m)
  PROVE  Timed(t, u) /\ (m.kind = "mature" => t.mat)
<1>1. CASE m \in ViewMessage
  <2>1. m.kind = "view"
    BY <1>1 DEF ViewMessage
  <2> QED
    BY <1>1, <2>1, HandleViewTimed DEF Dispatch
<1>2. CASE m \in StateMessage
  <2>1. m.kind = "state"
    BY <1>2 DEF StateMessage
  <2> QED
    BY <1>2, <2>1, HandleStateTimed DEF Dispatch
<1>3. CASE m \in BalanceMessage
  <2>1. m.kind = "balance"
    BY <1>3 DEF BalanceMessage
  <2> QED
    BY <1>3, <2>1, HandleBalanceTimed DEF Dispatch
<1>4. CASE m = MaturingMessage
  BY <1>4, HandleMatureTimed DEF Dispatch, MaturingMessage
<1>5. CASE m = ArpMessage
  BY <1>5 DEF Dispatch, ArpMessage
<1> QED
  BY <1>1, <1>2, <1>3, <1>4, <1>5 DEF GroupMessage, Message

\* SP_receive takes no timer out of the queue, and MATURING matures.
LEMMA ReceiveTimed ==
  ASSUME NEW s, Shape(Me, s), NEW u, Timed(s, u), NEW m \in GroupMessage,
         NEW t \in Receive(s, m)
  PROVE  Timed(t, u) /\ (m = MaturingMessage => t.mat)
<1> DEFINE r == Received(s, m)
           b == InBuffer(s, m)
<1>1. Shape(Me, r)
  BY ReceivedShape
<1>2. SameTimers(s, r)
  BY DEF Received, SameTimers, Shape, DaemonType
<1>3. t \in Dispatch(r, b)
  BY DEF Receive, Received
<1>4. b \in GroupMessage
  BY BodyType
<1>5. m = MaturingMessage => b.kind = "mature"
  BY DEF InBuffer, MaturingMessage
<1> HIDE DEF r, b
<1>6. Timed(r, u)
  BY <1>2, TimedFrom DEF Timed
<1> QED
  BY <1>1, <1>3, <1>4, <1>5, <1>6, DispatchTimed

\* The start of main, wackatrl -f and -s, and Sig_handler.
LEMMA CommandsTimed ==
  ASSUME NEW s, Shape(Me, s), NEW u, Timed(s, u),
         NEW t \in Start(s) \cup ServiceFailure(s) \cup ServiceSuccess(s) \cup {Signal(s)}
  PROVE  Timed(t, u)
<1>1. CASE t \in Start(s)
  <2>1. PICK c \in SpreadReconnect(s) :
           \E e \in SendLocalArpCache(c) : t = [e EXCEPT !.tArp = (e.exit = "no")]
    BY <1>1 DEF Start
  <2>2. PICK e \in SendLocalArpCache(c) : t = [e EXCEPT !.tArp = (e.exit = "no")]
    BY <2>1
  <2>3. Shape(Me, c) /\ Timed(c, u)
    BY SpreadReconnectShape, ReconnectTimed DEF Timed
  <2>4. Shape(Me, e) /\ Timed(e, u)
    BY <2>3, SendLocalArpCacheShape, SendLocalArpCacheTimed
  <2>5. SameTimers(e, t)
    BY <2>2, <2>4 DEF SameTimers, Shape, DaemonType
  <2> QED
    BY <2>4, <2>5, TimedFrom DEF Timed
<1>2. CASE t \in ServiceFailure(s)
  <2> DEFINE locked == [s EXCEPT !.lock = TRUE, !.mbox = FALSE]
  <2>1. Shape(Me, locked) /\ Queued(locked)
    BY DEF Timed, Queued, Shape, DaemonType
  <2> HIDE DEF locked
  <2>2. Shape(Me, CleanUp(locked)) /\ Queued(CleanUp(locked))
    <3>1. Shape(Me, CleanUp(locked))
      BY <2>1, CleanUpShape
    <3>2. Queued(CleanUp(locked))
      BY <2>1 DEF CleanUp, Release, Queued, Shape, DaemonType
    <3> QED
      BY <3>1, <3>2
  <2>3. t \in SpreadReconnect(CleanUp(locked))
    BY <1>2 DEF ServiceFailure, locked
  <2> QED
    BY <2>2, <2>3, ReconnectTimed DEF Timed
<1>3. CASE t \in ServiceSuccess(s)
  <2> DEFINE freed == [s EXCEPT !.lock = FALSE]
  <2>1. Shape(Me, freed) /\ Queued(freed)
    BY DEF Timed, Queued, Shape, DaemonType
  <2>2. t \in SpreadReconnect(freed)
    BY <1>3 DEF ServiceSuccess
  <2> HIDE DEF freed
  <2> QED
    BY <2>1, <2>2, ReconnectTimed DEF Timed
<1>4. CASE t = Signal(s)
  <2>1. Shape(Me, CleanUp(s))
    BY CleanUpShape
  <2> QED
    BY <1>4, <2>1 DEF Signal, Timed, Armed, Queued, Shape, DaemonType
<1> QED
  BY <1>1, <1>2, <1>3, <1>4

\* The error branch of SP_receive, after a message of any kind.
LEMMA ReceiveErrorTimed ==
  ASSUME NEW s, Shape(Me, s), NEW u, Timed(s, u), NEW t \in ReceiveError(s)
  PROVE  Timed(t, u)
<1>1. PICK c \in AfterSpreadError(s) : t \in IF c.exit = "no" THEN DispatchStale(c) ELSE {c}
  BY DEF ReceiveError
<1>2. Shape(Me, c) /\ Timed(c, u)
  BY AfterSpreadErrorShape, ErrorTimed DEF Timed
<1>3. CASE t = c
  BY <1>2, <1>3
<1>4. CASE t \in DispatchStale(c)
  <2>0. c.mess.kind \notin {"none", "view", "mature", "arp"}
    BY <1>2 DEF Shape, DaemonType, Buffer, StateMessage, BalanceMessage, Junk
  <2>1. CASE c.last = "none"
    <3>1. t = FatalExit(c)
      BY <1>4, <2>0, <2>1 DEF DispatchStale
    <3> QED
      BY <1>2, <3>1 DEF FatalExit, Timed, Armed, Queued, Shape, DaemonType
  <2>2. CASE c.last = "view"
    <3>1. [kind |-> "view", gid |-> 0, n |-> Len(c.ip), idx |-> c.idx] \in ViewMessage
      BY <1>2 DEF ViewMessage, Shape, DaemonType
    <3> QED
      BY <1>2, <1>4, <2>0, <2>2, <3>1, HandleViewTimed DEF DispatchStale
  <2>3. CASE c.last = "mature"
    BY <1>2, <1>4, <2>0, <2>3, HandleMatureTimed DEF DispatchStale
  <2>4. CASE c.last \notin {"none", "view", "mature", "arp"} /\ c.last = c.mess.kind
    <3>1. c.mess \in GroupMessage
      BY <1>2, <2>4 DEF Shape, DaemonType, MessageKind, Buffer, Junk, GroupMessage, Message
    <3> QED
      BY <1>2, <1>4, <2>4, <3>1, DispatchTimed DEF DispatchStale
  <2>5. CASE c.last \notin {"none", "view", "mature", "arp"} /\ c.last # c.mess.kind
    BY <1>2, <1>4, <2>5 DEF DispatchStale
  <2>6. CASE c.last = "arp"
    <3>1. t \in {Signal(c), FatalExit(c)}
      BY <1>4, <2>0, <2>6 DEF DispatchStale
    <3>2. CASE t = Signal(c)
      BY <1>2, <3>2, CommandsTimed
    <3>3. CASE t = FatalExit(c)
      BY <1>2, <3>3 DEF FatalExit, Timed, Armed, Queued, Shape, DaemonType
    <3> QED
      BY <3>1, <3>2, <3>3
  <2> QED
    BY <2>1, <2>2, <2>3, <2>4, <2>5, <2>6
<1> QED
  BY <1>1, <1>3, <1>4

-----------------------------------------------------------------------------
(* Timers, the operator and signals. *)

\* Turn_mature leaves the queue when its message is sent or its session ends.
LEMMA TimerTimed ==
  ASSUME NEW s, Shape(Me, s), NEW u, Timed(s, u),
         NEW t \in TurnMature(s) \cup RetryTimer(s) \cup ArpTimer(s)
  PROVE  Timed(t, u)
<1>1. CASE t \in TurnMature(s)
  <2> DEFINE fired == [s EXCEPT !.tMature = FALSE]
  <2>1. Shape(Me, fired) /\ Queued(fired)
    BY DEF Timed, Queued, Shape, DaemonType
  <2>2. MaturingMessage \in Message /\ MaturingMessage.kind = "mature"
    BY DEF Message, MaturingMessage
  <2>3. t \in Multicast(fired, MaturingMessage)
    BY <1>1 DEF TurnMature
  <2> HIDE DEF fired
  <2> QED
    BY <2>1, <2>2, <2>3, MulticastTimed DEF Timed
<1>2. CASE t \in RetryTimer(s)
  <2> DEFINE fired == [s EXCEPT !.tRetry = FALSE]
  <2>1. Shape(Me, fired) /\ Queued(fired)
    BY DEF Timed, Queued, Shape, DaemonType
  <2>2. t \in SpreadReconnect(fired)
    BY <1>2 DEF RetryTimer
  <2> HIDE DEF fired
  <2> QED
    BY <2>1, <2>2, ReconnectTimed DEF Timed
<1>3. CASE t \in ArpTimer(s)
  <2> DEFINE fired == [s EXCEPT !.tArp = FALSE]
  <2>1. Shape(Me, fired) /\ SameTimers(s, fired)
    BY DEF SameTimers, Shape, DaemonType
  <2>2. t \in SendLocalArpCache(fired)
    BY <1>3 DEF ArpTimer
  <2> HIDE DEF fired
  <2> QED
    BY <2>1, <2>2, TimedFrom, SendLocalArpCacheTimed DEF Timed
<1> QED
  BY <1>1, <1>2, <1>3

\* Balance leaves the queue and is put back, or State is not RUN.
LEMMA BalanceTimerTimed ==
  ASSUME NEW s, Shape(Me, s), NEW u, Timed(s, u), NEW t \in BalanceTimer(s)
  PROVE  Timed(t, u)
<1> DEFINE fired == [s EXCEPT !.tBalance = FALSE]
           buffer(m) == IF "balance" \in StaleKinds THEN InBuffer(s, m) ELSE Junk
           filled(m) == [fired EXCEPT !.mess = buffer(m)]
<1>1. Shape(Me, fired) /\ Armed(fired, u) /\ (s.state # "RUN" => Queued(fired))
  <2>1. /\ fired.exit = s.exit /\ fired.mbox = s.mbox /\ fired.mat = s.mat
        /\ fired.out = s.out /\ fired.tMature = s.tMature /\ fired.state = s.state
    BY DEF Shape, DaemonType
  <2>2. Shape(Me, fired)
    BY TimersOff
  <2> HIDE DEF fired
  <2> QED
    BY <2>1, <2>2 DEF Timed, Armed, Queued, Sent, SameSession
<1>2. ASSUME NEW r, Shape(Me, r), Armed(r, u) PROVE Timed(BalanceAgain(r), u)
  BY <1>2 DEF BalanceAgain, Timed, Armed, Queued, Sent, SameSession, Shape, DaemonType
<1>3. CASE t = BalanceAgain(fired)
  BY <1>1, <1>2, <1>3
<1>4. CASE t = fired /\ s.state # "RUN"
  BY <1>1, <1>4 DEF Timed
<1>5. CASE \E m \in BalanceMessages(s) : \E c \in Multicast(filled(m), m) :
             t = IF c.exit = "no" THEN BalanceAgain([c EXCEPT !.state = "RUN"]) ELSE c
  <2>1. PICK m \in BalanceMessages(s) : \E c \in Multicast(filled(m), m) :
             t = IF c.exit = "no" THEN BalanceAgain([c EXCEPT !.state = "RUN"]) ELSE c
    BY <1>5
  <2>2. PICK c \in Multicast(filled(m), m) :
             t = IF c.exit = "no" THEN BalanceAgain([c EXCEPT !.state = "RUN"]) ELSE c
    BY <2>1
  <2>3. m \in Message
    BY BalanceMessagesType DEF Message
  <2>4. Shape(Me, filled(m)) /\ Armed(filled(m), u)
    <3>1. buffer(m) \in Buffer
      BY BalanceMessagesType, InBufferType DEF Buffer
    <3> HIDE DEF buffer
    <3> QED
      BY ZenonT(60), <3>1, <1>1 DEF Armed, Sent, SameSession, Shape, DaemonType
  <2> HIDE DEF filled
  <2>5. Shape(Me, c) /\ Armed(c, u)
    BY <2>2, <2>3, <2>4, MulticastShape, MulticastTimed
  <2> DEFINE run == [c EXCEPT !.state = "RUN"]
  <2>6. Shape(Me, run) /\ Armed(run, u)
    BY ZenonT(60), <2>5 DEF Armed, Sent, SameSession, Shape, DaemonType, DaemonState
  <2>7. c.exit # "no" => Timed(c, u)
    BY DEF Timed, Armed, Queued
  <2> HIDE DEF run
  <2>8. t = BalanceAgain(run) \/ (t = c /\ c.exit # "no")
    BY <2>2 DEF run
  <2> QED
    BY <1>2, <2>6, <2>7, <2>8
<1> QED
  BY <1>3, <1>4, <1>5 DEF BalanceTimer

-----------------------------------------------------------------------------
(* The theorems. *)

TimerInv == d.out = <<>> /\ MatureArmed /\ Queued(d)

\* Handle carries out what a timed handler did; m: a maturing message is still under
\* way, unless the daemon is mature.
LEMMA HandleTimed ==
  ASSUME NEW S, NEW v, NEW h, NEW o, NEW m, Handle(S, v, h, o, m),
         \A t \in S : Shape(Me, t) /\ Queued(t) /\ (Armed(t, m) \/ t.mat)
  PROVE  TimerInv'
<1>1. PICK t \in S : /\ d' = [t EXCEPT !.out = <<>>]
                     /\ maturing' = (Sent(t, "mature") # {} \/ (m /\ SameSession(t)))
  BY DEF Handle
<1>2. Shape(Me, t) /\ Queued(t) /\ (Armed(t, m) \/ t.mat)
  OBVIOUS
<1>3. /\ d'.out = <<>> /\ d'.exit = t.exit /\ d'.mbox = t.mbox /\ d'.mat = t.mat
      /\ d'.state = t.state /\ d'.tMature = t.tMature /\ d'.tBalance = t.tBalance
  BY <1>1, <1>2 DEF Shape, DaemonType
<1> QED
  BY <1>1, <1>2, <1>3 DEF TimerInv, MatureArmed, Running, Armed, Queued

\* A message of the group.
LEMMA DeliverTimed ==
  ASSUME TypeOK, TimerInv, NEW m \in Message, NEW h, NEW o,
         NEW r, r = maturing \/ m = MaturingMessage, Deliver(m, h, o, r)
  PROVE  TimerInv'
<1>1. Running /\ Handle(Receive(d, m), TRUE, h, o, r)
  BY DEF Deliver
<1>2. Shape(Me, d) /\ Timed(d, maturing)
  BY <1>1 DEF TypeOK, Shape, TimerInv, MatureArmed, Timed, Armed, SameSession
<1>3. \A t \in Receive(d, m) : Shape(Me, t) /\ Timed(t, maturing) /\ (m = MaturingMessage => t.mat)
  BY <1>2, ReceiveShape, ReceiveTimed DEF GroupMessage
<1>4. \A t \in Receive(d, m) : Shape(Me, t) /\ Queued(t) /\ (Armed(t, r) \/ t.mat)
  BY <1>3 DEF Timed
<1> QED
  BY <1>1, <1>4, HandleTimed

\* A timer or a command.
LEMMA LocalTimed ==
  ASSUME TypeOK, TimerInv, NEW S, Local(S),
         \A t \in S : Shape(Me, t) /\ (Timed(d, maturing) => Timed(t, maturing))
  PROVE  TimerInv'
<1>1. Handle(S, inView, heard, own, maturing) /\ Running
  BY DEF Local
<1>2. Timed(d, maturing)
  BY <1>1 DEF TimerInv, MatureArmed, Timed, Armed, SameSession
<1> QED
  BY <1>1, <1>2, HandleTimed DEF Timed

\* Every action preserves the invariant.
LEMMA TimerStep == TypeOK /\ TimerInv /\ [Next]_vars => TimerInv'
<1> SUFFICES ASSUME TypeOK, TimerInv, [Next]_vars PROVE TimerInv'
  OBVIOUS
<1>1. Shape(Me, d) /\ d.out = <<>> /\ d.gid \in Nat /\ views \in Nat
  BY DEF TypeOK, Shape, DaemonType, TimerInv
<1>2. CASE \E n \in 1..MaxMembers : \E idx \in 1..n : View(n, idx)
  <2>1. PICK n \in 1..MaxMembers, idx \in 1..MaxMembers : idx \in 1..n /\ View(n, idx)
    BY <1>2, BoundAssumption
  <2> DEFINE m == [kind |-> "view", gid |-> views + 1, n |-> n, idx |-> idx]
  <2>2. m \in GroupMessage
    BY <1>1, <2>1, BoundAssumption DEF ViewMessage, GroupMessage
  <2>3. Running /\ Handle(Receive(d, m), TRUE, {}, NoMessage, maturing)
    BY <2>1 DEF View
  <2>4. Timed(d, maturing)
    BY <2>3 DEF TimerInv, MatureArmed, Timed, Armed, SameSession
  <2> HIDE DEF m
  <2>5. \A t \in Receive(d, m) : Shape(Me, t) /\ Timed(t, maturing)
    BY <1>1, <2>2, <2>4, ReceiveShape, ReceiveTimed
  <2> QED
    BY <2>3, <2>5, HandleTimed DEF Timed
<1>3. CASE OwnState
  <2>1. own \in StateMessage
    BY <1>3 DEF OwnState, TypeOK
  <2> QED
    BY <1>3, <2>1, DeliverTimed DEF OwnState, Message
<1>4. CASE \E idx \in 1..MaxMembers : PeerState(idx)
  <2>1. PICK idx \in 1..MaxMembers : PeerState(idx)
    BY <1>4
  <2>2. PICK from \in Address : \E m \in PeerMessages(idx, from) :
                                   Deliver(m, heard \cup {idx}, own, maturing)
    BY <2>1 DEF PeerState
  <2>3. PICK m \in PeerMessages(idx, from) : Deliver(m, heard \cup {idx}, own, maturing)
    BY <2>2
  <2>4. m \in Message
    BY <1>1, BoundAssumption, PeerMessagesType DEF Message
  <2> QED
    BY <2>3, <2>4, DeliverTimed
<1>5. CASE LateState
  <2>1. PICK from \in Address :
           Deliver([kind |-> "state", gid |-> d.gid - 1, from |-> from, idx |-> 1,
                    mat |-> TRUE, claims |-> [v \in Vip |-> PREFER_CLAIMED],
                    prefer |-> Prefer[from]], heard, own, maturing)
    BY <1>5 DEF LateState
  <2> DEFINE m == [kind |-> "state", gid |-> d.gid - 1, from |-> from, idx |-> 1,
                   mat |-> TRUE, claims |-> [v \in Vip |-> PREFER_CLAIMED],
                   prefer |-> Prefer[from]]
  <2>2. d.gid - 1 \in Nat
    BY <1>1, <1>5 DEF LateState
  <2>3. [v \in Vip |-> PREFER_CLAIMED] \in Claims
    <3>1. [v \in Vip |-> PREFER_CLAIMED] \in [Vip -> Priority]
      BY PriorityType
    <3> QED
      BY <3>1 DEF Claims
  <2>4. Prefer[from] \in SUBSET Vip
    BY ConfigAssumption
  <2>5. m \in Message
    BY <2>2, <2>3, <2>4 DEF StateMessage, Message
  <2> QED
    BY <2>1, <2>5, DeliverTimed
<1>6. CASE Mature \/ OwnMature \/ ArpDelivered
  BY <1>6, DeliverTimed DEF Mature, OwnMature, ArpDelivered, Message
<1>7. CASE BalanceDelivered
  <2>1. PICK k \in 0..BalanceRate : \E moves \in [1..k -> Move] :
           Deliver([kind |-> "balance", count |-> k, moves |-> moves], heard, own, maturing)
    BY <1>7 DEF BalanceDelivered
  <2>2. PICK moves \in [1..k -> Move] :
           Deliver([kind |-> "balance", count |-> k, moves |-> moves], heard, own, maturing)
    BY <2>1
  <2>3. k \in Nat
    BY ConfigAssumption
  <2>4. [kind |-> "balance", count |-> k, moves |-> moves] \in Message
    BY <2>3 DEF Message, BalanceMessage
  <2> QED
    BY <2>2, <2>4, DeliverTimed
<1>8. CASE ReceiveFails
  BY <1>1, <1>8, ReceiveErrorShape, ReceiveErrorTimed, LocalTimed DEF ReceiveFails
<1>9. CASE Boot \/ Fail \/ Recover \/ Kill
  <2>1. \A t \in Start(d) \cup ServiceFailure(d) \cup ServiceSuccess(d) \cup {Signal(d)} :
           Shape(Me, t) /\ (Timed(d, maturing) => Timed(t, maturing))
    BY <1>1, StartShape, ServiceShape, SignalShape, CommandsTimed
  <2> QED
    BY <1>9, <2>1, LocalTimed DEF Boot, Fail, Recover, Kill
<1>10. CASE TurnMatureFires \/ RetryFires \/ ArpFires
  <2>1. \A t \in TurnMature(d) \cup RetryTimer(d) \cup ArpTimer(d) :
           Shape(Me, t) /\ (Timed(d, maturing) => Timed(t, maturing))
    BY <1>1, TimerShape, TimerTimed
  <2> QED
    BY <1>10, <2>1, LocalTimed DEF TurnMatureFires, RetryFires, ArpFires
<1>11. CASE BalanceFires
  BY <1>1, <1>11, BalanceTimerShape, BalanceTimerTimed, LocalTimed DEF BalanceFires
<1>12. CASE UNCHANGED vars
  BY <1>12 DEF vars, TimerInv, MatureArmed, Queued, Running
<1> QED
  BY <1>2, <1>3, <1>4, <1>5, <1>6, <1>7, <1>8, <1>9, <1>10, <1>11, <1>12 DEF Next

\* The timers are as they should be in every state, whatever ErrorAfter, Faults and the
\* messages of the peers are.
LEMMA TimerCorrect == Spec => []TimerInv
<1>1. Init => TimerInv
  BY DEF Init, InitialDaemon, TimerInv, MatureArmed, Queued
<1> QED
  BY <1>1, TimerStep, TypeCorrect, PTL DEF Spec

\* A daemon with a session that is not mature has Turn_mature in its queue or its
\* maturing message on the way, through every loss of a session and every retry: it
\* cannot stay immature because an event was forgotten.
THEOREM MatureArmedCorrect == Spec => []MatureArmed
<1>1. TimerInv => MatureArmed
  BY DEF TimerInv
<1> QED
  BY <1>1, TimerCorrect, PTL

\* A daemon in RUN has Balance in its queue, unless AcquisitionsPerRound is all: no
\* error branch that puts State back to RUN, or keeps it, leaves the timer out.
THEOREM BalanceArmedCorrect == Spec => []BalanceArmed
<1>1. TimerInv => BalanceArmed
  BY DEF TimerInv, Queued, BalanceArmed, Running
<1> QED
  BY <1>1, TimerCorrect, PTL
=============================================================================
