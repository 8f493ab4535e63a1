----------------------------- MODULE ControlProofs -----------------------------
(***************************************************************************)
(* What TLAPS proves of the operator's sessions, for any number of runs of *)
(* wackatrl, any interfaces and any room of a connection.                  *)
(*                                                                         *)
(* FailedServesNothing is inductive by itself: a step that sets the lock   *)
(* drops everything, and a step that gives the daemon something needs a    *)
(* session.  TypeOK and ShowsOneMoment are not.  They follow from an       *)
(* invariant that says of every connection where its two ends are: which   *)
(* of the words of one reply, to one table V, the run has read, which are  *)
(* in the connection and which the session has still to write.             *)
(***************************************************************************)
EXTENDS Control, FiniteSetTheorems, SequenceTheorems, TLAPS

\* The property of one daemon.
Down(e) == e.lock => e.session = "none" /\ e.held = {}

\* The type of the daemon, as far as the steps below need it.
Shape(e) == e \in [session : {"none", "even", "odd"}, lock : BOOLEAN, held : SUBSET Vip, retry : BOOLEAN]

DaemonDown == Shape(d) /\ Down(d)

\* At first there is no lock.
LEMMA InitShape == Init => Shape(d) /\ Down(d)
  BY DEF Init, Shape, Down

\* Spread_reconnect leaves a locked daemon with nothing, and no daemon locked.
LEMMA ReconnectDown ==
  ASSUME NEW e, Shape(e), NEW o \in SpreadReconnect(e)
  PROVE  Shape(o.d) /\ Down(o.d)
  <1> DEFINE retry  == [e EXCEPT !.held = {}, !.session = "none", !.retry = TRUE]
             joined == [e EXCEPT !.held = {}, !.session = Another(@)]
  <1>1. Shape(retry) /\ Down(retry)
    BY DEF Shape, Down
  <1>2. Shape(joined) /\ (~e.lock => Down(joined))
    BY DEF Shape, Down, Another
  <1>3. o = Outcome(retry, 0) \/ o = Outcome(retry, 1) \/ (~e.lock /\ o = Outcome(joined, 0))
    BY DEF SpreadReconnect
  <1>4. o.d = retry \/ (~e.lock /\ o.d = joined)
    <2> HIDE DEF retry, joined
    <2> QED BY <1>3 DEF Outcome
  <1> HIDE DEF retry, joined
  <1> QED BY <1>1, <1>2, <1>4

\* What becomes of a daemon after Spread_reconnect.
LEMMA BecomeDown ==
  ASSUME NEW e, Shape(e), Become(SpreadReconnect(e))
  PROVE  Shape(d') /\ Down(d')
  BY ReconnectDown DEF Become

\* The locked daemon of set_state_wack_service_state.
LEMMA ServiceDown ==
  ASSUME NEW s, NEW e, Shape(e), Become(ServiceState(s, e))
  PROVE  Shape(d') /\ Down(d')
  <1>1. CASE s.operation = "WACK_SERVICE_FAILURE"
    <2> DEFINE failing == [e EXCEPT !.lock = TRUE, !.session = "none", !.held = {}]
    <2>1. Shape(failing)
      BY DEF Shape
    <2>2. Become(SpreadReconnect(failing))
      BY <1>1 DEF ServiceState
    <2> HIDE DEF failing
    <2> QED BY <2>1, <2>2, BecomeDown
  <1>2. CASE s.operation # "WACK_SERVICE_FAILURE"
    <2> DEFINE serving == [e EXCEPT !.lock = FALSE]
    <2>1. Shape(serving)
      BY DEF Shape
    <2>2. Become(SpreadReconnect(serving))
      BY <1>2 DEF ServiceState
    <2> HIDE DEF serving
    <2> QED BY <2>1, <2>2, BecomeDown
  <1> QED BY <1>1, <1>2

\* Every step keeps a locked daemon down.
LEMMA StepDown == Shape(d) /\ Down(d) /\ [Next]_vars => Shape(d') /\ Down(d')
  <1> SUFFICES ASSUME Shape(d), Down(d), [Next]_vars PROVE Shape(d') /\ Down(d')
    OBVIOUS
  <1>1. CASE Retry
    <2> DEFINE tried == [d EXCEPT !.retry = FALSE]
    <2>1. Shape(tried)
      BY DEF Shape
    <2>2. Become(SpreadReconnect(tried))
      BY <1>1 DEF Retry
    <2> HIDE DEF tried
    <2> QED BY <2>1, <2>2, BecomeDown
  <1>2. CASE SessionLost
    <2>1. PICK o \in SpreadReconnect(d) : d' = Outcome(o.d, o.events + 1).d
      BY <1>2 DEF SessionLost, Become
    <2>2. d' = o.d
      BY <2>1 DEF Outcome
    <2> QED BY <2>2, ReconnectDown
  <1>3. CASE Allocate
    BY <1>3 DEF Allocate, Shape, Down
  <1>4. CASE Die
    BY <1>4 DEF Die, Shape, Down
  <1>5. ASSUME NEW c \in Client, HandleControlSession(c)
        PROVE  Shape(d') /\ Down(d')
    <2>1. CASE ReadCommand(c)
      <3> DEFINE s == [sess[c] EXCEPT !.operation = Head(conn[c].commands)]
      <3>1. d' = d \/ Become(ServiceState(s, d))
        BY <2>1 DEF ReadCommand, CloseSession
      <3> HIDE DEF s
      <3> QED BY <3>1, ServiceDown
    <2>2. CASE WriteReply(c)
      <3>1. d' = d
        BY <2>2 DEF WriteReply, CloseSession
      <3> QED BY <3>1
    <2> QED BY <1>5, <2>1, <2>2 DEF HandleControlSession
  <1>6. ASSUME NEW c \in Client, HandleControlConnect(c) \/ Wackatrl(c) \/ Interrupt(c)
        PROVE  Shape(d') /\ Down(d')
    <2>1. d' = d
      BY <1>6 DEF HandleControlConnect, Wackatrl, Interrupt, CliConn, PostService, AskState,
                  Post, ReadWord, ReadTable, Show, Move
    <2> QED BY <2>1
  <1>7. CASE UNCHANGED vars
    BY <1>7 DEF vars
  <1> QED BY <1>1, <1>2, <1>3, <1>4, <1>5, <1>6, <1>7 DEF Next

\* While wackatrl -f is in force the daemon has no session and holds no interface,
\* whatever runs of wackatrl, queued attempts (handle_reconnect) and lost sessions
\* meet: set_state_wack_service_state and Spread_reconnect of wackamole.c.
THEOREM FailureLasts == Spec => []FailedServesNothing
  <1>1. Init => DaemonDown
    BY InitShape DEF DaemonDown
  <1>2. DaemonDown /\ [Next]_vars => DaemonDown'
    BY StepDown DEF DaemonDown
  <1>3. DaemonDown => FailedServesNothing
    BY DEF DaemonDown, Down, FailedServesNothing
  <1> QED BY <1>1, <1>2, <1>3, PTL DEF Spec

-----------------------------------------------------------------------------
(* The two ends of a connection.  A predicate of one connection is stated of *)
(* the values it is about: s is the daemon's session, r the run of wackatrl   *)
(* and k the connection between them.                                         *)

N == Cardinality(Vip)

Pcs == {"start", "connected", "get", "result", "size", "table", "shown", "error"}

SessionType == [open : BOOLEAN, state : {"READ_FD", "WRITE_FD"}, mask : {"READ_FD", "WRITE_FD"},
                operation : Command \cup {"READ_COMMAND"}, buffer : Seq(Reply), written : Nat]
RunType == [op : Command, pc : Pcs, got : Seq(Reply)]
ConnType == [open : BOOLEAN, accepted : BOOLEAN, commands : Seq(Command), replies : Seq(Reply)]

Types ==
  /\ alive \in BOOLEAN /\ events \in 0..MaxEvents
  /\ sess \in [Client -> SessionType] /\ trl \in [Client -> RunType] /\ conn \in [Client -> ConnType]

\* A session is waited on for what it does next; there is none before the connection
\* is accepted, and none when the daemon has exited.
Sound(a, s, r, k) ==
  /\ s.mask = s.state
  /\ s.state = "READ_FD" <=> s.operation = "READ_COMMAND"
  /\ ~s.open => s = NoSession
  /\ ~a \/ ~k.accepted => ~s.open
  /\ k.commands \in {<<>>, <<r.op>>, <<"GET_WACK_STATE">>}
  /\ Len(k.replies) <= Room
  /\ s.operation = "GET_WACK_STATE" => s.written < Len(s.buffer)

\* Nothing is asked and nothing answered.
Silent(s, k) == k.commands = <<>> /\ k.replies = <<>> /\ s.operation = "READ_COMMAND"

\* The command is on its way, is carried out, has been answered, or never will be.
Answering(a, s, r, k) ==
  \/ k.commands = <<r.op>> /\ k.replies = <<>> /\ s.operation = "READ_COMMAND"
  \/ k.commands = <<>> /\ k.replies = <<>> /\ s.operation = r.op
  \/ k.commands = <<>> /\ k.replies = <<Word("result", {})>> /\ s.operation = "READ_COMMAND"
  \/ ~a /\ Silent(s, k)

\* The i-th word of a reply that tells V, and its words after the m-th up to the n-th.
ReplyWord(V, i) == IF i = 1 THEN Word("size", {}) ELSE Word("entry", V)
Part(V, m, n) == [i \in 1..(n - m) |-> ReplyWord(V, m + i)]

\* m words of a reply that tells V are read, n are written.
Telling(a, s, k, V, m, n) ==
  /\ k.commands = <<>> /\ k.replies = Part(V, m, n)
  /\ \/ s.operation = "GET_WACK_STATE" /\ s.buffer = TableReply(V) /\ s.written = n
     \/ s.operation = "READ_COMMAND" /\ (n = N + 1 \/ ~a)

\* What was read of the table.
Told(r, V) == r.got = [i \in 1..Len(r.got) |-> Word("entry", V)]
Entries(q, V) == q = [i \in 1..Len(q) |-> Word("entry", V)]

Talk(a, s, r, k, V) ==
  /\ Told(r, V)
  /\ r.pc \notin {"table", "shown", "error"} => r.got = <<>>
  /\ r.pc = "start" => ~k.open /\ ~k.accepted /\ Silent(s, k)
  /\ r.pc \in {"connected", "get"} => k.open /\ Silent(s, k)
  /\ r.pc = "result" => k.open /\ r.op # "GET_WACK_STATE" /\ Answering(a, s, r, k)
  /\ r.pc = "size" =>
       /\ k.open
       /\ \/ k.commands = <<"GET_WACK_STATE">> /\ k.replies = <<>> /\ s.operation = "READ_COMMAND"
          \/ \E n \in 0..N + 1 : Telling(a, s, k, V, 0, n)
  /\ r.pc = "table" => k.open /\ \E n \in 1 + Len(r.got)..N + 1 : Telling(a, s, k, V, 1 + Len(r.got), n)
  /\ r.pc = "shown" => ~k.open /\ Len(r.got) = N
  /\ r.pc = "error" => (~k.open \/ ~a) /\ k.replies = <<>>

\* A connection is where the daemon and the run say it is.
Linked(a, s, r, k, V) ==
  /\ s \in SessionType /\ r \in RunType /\ k \in ConnType
  /\ Sound(a, s, r, k) /\ Talk(a, s, r, k, V)

\* Nobody ends the failure that a run simulates.
Failing(c) == trl[c].op = "WACK_SERVICE_FAILURE" /\ \A b \in Client : trl[b].op # "WACK_SERVICE_SUCCESS"

\* The daemon has carried the command out.
CarriedOut(r, k) == r.pc \in {"get", "size", "table", "shown"} \/ (r.pc = "result" /\ k.commands = <<>>)

Conversation(c) ==
  /\ \E V \in SUBSET Vip :
       Linked(alive, sess[c], trl[c], conn[c], V) /\ (Failing(c) => V = {})
  /\ Failing(c) /\ CarriedOut(trl[c], conn[c]) => d.lock

Conversations == \A c \in Client : Conversation(c)

ControlInv == Shape(d) /\ Down(d) /\ Types /\ Conversations

-----------------------------------------------------------------------------
(* Replies in pieces. *)

\* There is an interface, and there are not infinitely many.
LEMMA SizeOfTable == N \in Nat /\ N >= 1
  <1>1. N \in Nat
    BY ControlAssumption, FS_CardinalityType DEF N
  <1>2. N # 0
    BY ControlAssumption, FS_EmptySet DEF N
  <1> QED BY <1>1, <1>2

\* The words of a reply are words.
LEMMA WordType ==
  ASSUME NEW V \in SUBSET Vip, NEW i \in Nat
  PROVE  ReplyWord(V, i) \in Reply /\ Word("entry", V) \in Reply /\ Word("result", {}) \in Reply
  BY DEF ReplyWord, Word, Reply

\* What a part of a reply is, word by word.
LEMMA PartType ==
  ASSUME NEW V \in SUBSET Vip, NEW m \in Nat, NEW n \in Nat, m <= n
  PROVE  /\ Part(V, m, n) \in Seq(Reply) /\ Len(Part(V, m, n)) = n - m
         /\ \A i \in 1..(n - m) : Part(V, m, n)[i] = ReplyWord(V, m + i)
  <1>1. n - m \in Nat
    OBVIOUS
  <1>2. \A i \in 1..(n - m) : ReplyWord(V, m + i) \in Reply
    BY WordType
  <1>3. Part(V, m, n) \in [1..(n - m) -> Reply]
    BY <1>2 DEF Part
  <1>4. Part(V, m, n) \in Seq(Reply) /\ Len(Part(V, m, n)) = n - m
    BY <1>1, <1>3
  <1> QED BY <1>4 DEF Part

\* What a part of a reply is as a sequence.
LEMMA PartSize ==
  ASSUME NEW V \in SUBSET Vip, NEW m \in Nat, NEW n \in Nat, m <= n
  PROVE  Part(V, m, n) \in Seq(Reply) /\ Len(Part(V, m, n)) = n - m
  BY PartType

\* A part of a reply is known by its words.
LEMMA IsPart ==
  ASSUME NEW V \in SUBSET Vip, NEW m \in Nat, NEW n \in Nat, m <= n,
         NEW q \in Seq(Reply), Len(q) = n - m, \A i \in 1..(n - m) : q[i] = ReplyWord(V, m + i)
  PROVE  q = Part(V, m, n)
  <1> DEFINE p == Part(V, m, n)
  <1>1. p \in Seq(Reply) /\ Len(p) = n - m /\ \A i \in 1..(n - m) : p[i] = ReplyWord(V, m + i)
    BY PartType
  <1> HIDE DEF p
  <1>2. Len(q) = Len(p) /\ \A i \in 1..Len(q) : q[i] = p[i]
    BY <1>1
  <1>3. q = p
    BY <1>1, <1>2, SeqEqual
  <1> QED BY <1>3 DEF p

\* The reply as set_state_wack_state makes it is its words from the first to the last.
LEMMA WholeReply ==
  ASSUME NEW V \in SUBSET Vip
  PROVE  TableReply(V) = Part(V, 0, N + 1)
  <1> DEFINE head    == <<Word("size", {})>>
             entries == [i \in 1..N |-> Word("entry", V)]
  <1>1. N \in Nat
    BY SizeOfTable
  <1>2. head \in Seq(Reply) /\ Len(head) = 1 /\ head[1] = Word("size", {})
    BY DEF Word, Reply
  <1>3. entries \in [1..N -> Reply]
    BY WordType
  <1>4. entries \in Seq(Reply) /\ Len(entries) = N
    BY <1>1, <1>3
  <1>5. \A i \in 1..N : entries[i] = Word("entry", V)
    OBVIOUS
  <1>6. TableReply(V) = head \o entries
    BY DEF TableReply, N
  <1> HIDE DEF head, entries
  <1>7. /\ head \o entries \in Seq(Reply) /\ Len(head \o entries) = N + 1
        /\ \A i \in 1..N + 1 : (head \o entries)[i] = IF i <= 1 THEN head[i] ELSE entries[i - 1]
    BY <1>1, <1>2, <1>4, ConcatProperties
  <1>8. ASSUME NEW i \in 1..((N + 1) - 0) PROVE (head \o entries)[i] = ReplyWord(V, 0 + i)
    <2>1. i \in 1..N + 1 /\ 0 + i = i
      BY <1>1
    <2>2. CASE i = 1
      BY <1>2, <1>7, <2>1, <2>2 DEF ReplyWord
    <2>3. CASE i # 1
      <3>1. i - 1 \in 1..N /\ ~(i <= 1)
        BY <1>1, <2>1, <2>3
      <3>2. (head \o entries)[i] = entries[i - 1]
        BY <1>7, <2>1, <3>1
      <3> QED BY <1>5, <2>1, <2>3, <3>1, <3>2 DEF ReplyWord
    <2> QED BY <2>2, <2>3
  <1>9. Len(head \o entries) = (N + 1) - 0 /\ N + 1 \in Nat /\ 0 <= N + 1
    BY <1>1, <1>7
  <1>10. head \o entries = Part(V, 0, N + 1)
    BY <1>7, <1>8, <1>9, IsPart
  <1> QED BY <1>6, <1>10

\* What is written next follows what is written already.
LEMMA PieceFollows ==
  ASSUME NEW V \in SUBSET Vip, NEW m \in Nat, NEW n \in Nat, NEW k \in Nat, m <= n, n + k <= N + 1
  PROVE  Part(V, m, n) \o SubSeq(TableReply(V), n + 1, n + k) = Part(V, m, n + k)
  <1> DEFINE p == Part(V, m, n)
             w == Part(V, 0, N + 1)
             q == SubSeq(w, n + 1, n + k)
  <1>1. N \in Nat
    BY SizeOfTable
  <1>2. p \in Seq(Reply) /\ Len(p) = n - m /\ \A i \in 1..(n - m) : p[i] = ReplyWord(V, m + i)
    BY PartType
  <1>3. /\ w \in Seq(Reply) /\ Len(w) = (N + 1) - 0
        /\ \A i \in 1..((N + 1) - 0) : w[i] = ReplyWord(V, 0 + i)
    BY <1>1, PartType
  <1> HIDE DEF p, w
  <1>4. \A i \in (n + 1)..(n + k) : w[i] \in Reply
    BY <1>1, <1>3
  <1>5. /\ q \in Seq(Reply) /\ Len(q) = k
        /\ \A i \in 1..k : q[i] = w[n + i]
    BY <1>4, SubSeqProperties
  <1> HIDE DEF q
  <1>6. /\ p \o q \in Seq(Reply) /\ Len(p \o q) = (n + k) - m
        /\ \A i \in 1..((n + k) - m) : (p \o q)[i] = IF i <= n - m THEN p[i] ELSE q[i - (n - m)]
    <2>1. /\ p \o q \in Seq(Reply) /\ Len(p \o q) = Len(p) + Len(q)
          /\ \A i \in 1..Len(p) + Len(q) : (p \o q)[i] = IF i <= Len(p) THEN p[i] ELSE q[i - Len(p)]
      BY <1>2, <1>5, ConcatProperties
    <2>2. Len(p) + Len(q) = (n + k) - m
      BY <1>2, <1>5
    <2> QED BY <1>2, <2>1, <2>2
  <1>7. ASSUME NEW i \in 1..((n + k) - m) PROVE (p \o q)[i] = ReplyWord(V, m + i)
    <2>1. CASE i <= n - m
      BY <1>2, <1>6, <2>1
    <2>2. CASE ~(i <= n - m)
      <3>1. (p \o q)[i] = q[i - (n - m)] /\ i - (n - m) \in 1..k
        BY <1>6, <2>2
      <3>2. q[i - (n - m)] = w[n + (i - (n - m))] /\ n + (i - (n - m)) = m + i
        BY <1>5, <3>1
      <3>3. m + i \in 1..N + 1 /\ w[m + i] = ReplyWord(V, 0 + (m + i))
        BY <1>1, <1>3, <3>1
      <3> QED BY <3>1, <3>2, <3>3
    <2> QED BY <2>1, <2>2
  <1>8. n + k \in Nat /\ m <= n + k
    OBVIOUS
  <1>9. p \o q = Part(V, m, n + k)
    BY <1>6, <1>7, <1>8, IsPart
  <1> QED BY <1>9, WholeReply DEF p, q, w

\* The size is read first, and the words of the table are left.
LEMMA SizeIsFirst ==
  ASSUME NEW V \in SUBSET Vip, NEW n \in Nat, n >= 1
  PROVE  Head(Part(V, 0, n)) = Word("size", {}) /\ Tail(Part(V, 0, n)) = Part(V, 1, n)
  <1> DEFINE p == Part(V, 0, n)
  <1>1. p \in Seq(Reply) /\ Len(p) = n - 0 /\ \A i \in 1..(n - 0) : p[i] = ReplyWord(V, 0 + i)
    BY PartType
  <1> HIDE DEF p
  <1>2. Head(p) = Word("size", {})
    BY <1>1 DEF ReplyWord
  <1>3. /\ Tail(p) \in Seq(Reply) /\ Len(Tail(p)) = n - 1
        /\ \A i \in 1..(n - 1) : Tail(p)[i] = p[i + 1]
    BY <1>1, HeadTailProperties
  <1>4. \A i \in 1..(n - 1) : Tail(p)[i] = ReplyWord(V, 1 + i)
    BY <1>1, <1>3
  <1>5. Tail(p) = Part(V, 1, n)
    BY <1>3, <1>4, IsPart
  <1> QED BY <1>2, <1>5 DEF p

\* After the size a part of a reply is a part of the table.
LEMMA TablePart ==
  ASSUME NEW V \in SUBSET Vip, NEW m \in Nat, NEW n \in Nat, 1 <= m, m <= n
  PROVE  Part(V, m, n) = [i \in 1..(n - m) |-> Word("entry", V)]
  BY DEF Part, ReplyWord

\* Nothing is left of a reply that is read as far as it is written.
LEMMA NothingLeft ==
  ASSUME NEW V \in SUBSET Vip, NEW n \in Nat
  PROVE  Part(V, n, n) = <<>>
  BY PartType

\* A part that is not empty is not.
LEMMA SomethingLeft ==
  ASSUME NEW V \in SUBSET Vip, NEW m \in Nat, NEW n \in Nat, m <= n, Part(V, m, n) # <<>>
  PROVE  m < n
  BY PartType, NothingLeft

\* A reply that is prepared is a list of words.
LEMMA ReplyType ==
  ASSUME NEW V \in SUBSET Vip
  PROVE  TableReply(V) \in Seq(Reply) /\ Len(TableReply(V)) = N + 1
  <1> DEFINE w == Part(V, 0, N + 1)
  <1>1. N + 1 \in Nat /\ 0 <= N + 1 /\ (N + 1) - 0 = N + 1
    BY SizeOfTable
  <1>2. w \in Seq(Reply) /\ Len(w) = (N + 1) - 0
    BY <1>1, PartType
  <1> HIDE DEF w
  <1> QED BY <1>1, <1>2, WholeReply DEF w

-----------------------------------------------------------------------------
(* What the daemon does with a connection leaves its ends where they belong. *)

\* A session that begins reads, and nothing is written to it yet.
LEMMA NoSessionType == NoSession \in SessionType /\ [NoSession EXCEPT !.open = TRUE] \in SessionType
  <1>1. <<>> \in Seq(Reply)
    OBVIOUS
  <1> QED BY <1>1 DEF NoSession, SessionType

\* handle_control_connect
LEMMA ConnectLinked ==
  ASSUME NEW s, NEW r, NEW k, NEW V \in SUBSET Vip, Linked(TRUE, s, r, k, V),
         ~k.accepted, r.pc # "start",
         NEW s2, s2 = [NoSession EXCEPT !.open = TRUE],
         NEW k2, k2 = [k EXCEPT !.accepted = TRUE]
  PROVE  Linked(TRUE, s2, r, k2, V)
  <1>1. s = NoSession /\ s.operation = "READ_COMMAND"
    BY DEF Linked, Sound, NoSession
  <1>2. /\ s2.open /\ s2.mask = "READ_FD" /\ s2.state = "READ_FD" /\ s2.operation = "READ_COMMAND"
        /\ s2 \in SessionType
    BY NoSessionType DEF NoSession
  <1>3. /\ k2 \in ConnType /\ k2.accepted /\ k2.open = k.open
        /\ k2.commands = k.commands /\ k2.replies = k.replies
    BY DEF Linked, ConnType
  <1>4. Sound(TRUE, s2, r, k2)
    BY <1>2, <1>3 DEF Linked, Sound
  <1>5. r.op # "READ_COMMAND"
    BY DEF Linked, RunType, Command
  <1>6. Talk(TRUE, s2, r, k2, V)
    BY <1>1, <1>2, <1>3, <1>5 DEF Linked, Talk, Told, Silent, Answering, Telling
  <1> QED BY <1>2, <1>3, <1>4, <1>6 DEF Linked

\* Only a command that is on its way is read.
LEMMA OnItsWay ==
  ASSUME NEW a, NEW s, NEW r, NEW k, NEW V, Linked(a, s, r, k, V), k.commands # <<>>
  PROVE  /\ Head(k.commands) \in Command /\ Tail(k.commands) = <<>>
         /\ k.commands = <<Head(k.commands)>> /\ Head(k.commands) \in {r.op, "GET_WACK_STATE"}
         /\ r.pc \in {"result", "size", "shown", "error"}
         /\ r.pc = "result" => Head(k.commands) = r.op /\ r.op # "GET_WACK_STATE"
         /\ r.pc = "size" => Head(k.commands) = "GET_WACK_STATE"
         /\ r.pc \in {"result", "size"} => k.replies = <<>>
  <1>1. k.commands = <<r.op>> \/ k.commands = <<"GET_WACK_STATE">>
    BY DEF Linked, Sound
  <1>2. r.op \in Command /\ r.pc \in Pcs
    BY DEF Linked, RunType
  <1>3. PICK op \in Command : k.commands = <<op>> /\ op \in {r.op, "GET_WACK_STATE"}
    BY <1>1, <1>2 DEF Command
  <1>4. Head(k.commands) = op /\ Tail(k.commands) = <<>>
    BY <1>3
  <1>5. r.pc \in {"result", "size", "shown", "error"}
    BY <1>2 DEF Linked, Talk, Silent, Telling, Pcs
  <1>6. r.pc = "result" => k.commands = <<r.op>> /\ r.op # "GET_WACK_STATE" /\ k.replies = <<>>
    BY DEF Linked, Talk, Answering, Silent
  <1>7. r.pc = "size" => k.commands = <<"GET_WACK_STATE">> /\ k.replies = <<>>
    BY DEF Linked, Talk, Telling
  <1> QED BY <1>3, <1>4, <1>5, <1>6, <1>7

\* READ_FD of handle_control_session: the state is asked for.
LEMMA ReadStateLinked ==
  ASSUME NEW s, NEW r, NEW k, NEW V \in SUBSET Vip, Linked(TRUE, s, r, k, V),
         s.open, s.state = "READ_FD", k.commands # <<>>, Head(k.commands) = "GET_WACK_STATE",
         NEW e, e.held \subseteq Vip,
         NEW s2, s2 = SetEventMask(SetStateWackState([s EXCEPT !.operation = Head(k.commands)], e)),
         NEW k2, k2 = [k EXCEPT !.commands = Tail(@)]
  PROVE  Linked(TRUE, s2, r, k2, IF r.pc = "size" THEN e.held ELSE V)
  <1> DEFINE W == IF r.pc = "size" THEN e.held ELSE V
  <1>1. N \in Nat
    BY SizeOfTable
  <1>2. TableReply(e.held) \in Seq(Reply) /\ Len(TableReply(e.held)) = N + 1
    BY ReplyType
  <1>3. s \in SessionType /\ r \in RunType /\ k \in ConnType
    BY DEF Linked
  <1>9. /\ Tail(k.commands) = <<>> /\ r.pc \in {"size", "shown", "error"}
        /\ r.pc = "size" => k.replies = <<>>
    <2>1. Linked(TRUE, s, r, k, V) /\ k.commands # <<>>
      OBVIOUS
    <2>2. Tail(k.commands) = <<>> /\ r.pc \in {"result", "size", "shown", "error"}
      BY ONLY <2>1, OnItsWay
    <2>3. /\ r.pc = "result" => Head(k.commands) # "GET_WACK_STATE"
          /\ r.pc = "size" => k.replies = <<>>
      BY ONLY <2>1, OnItsWay
    <2> QED BY <2>2, <2>3
  <1>4. /\ s2 \in SessionType /\ s2.open /\ s2.mask = "WRITE_FD" /\ s2.state = "WRITE_FD"
        /\ s2.operation = "GET_WACK_STATE" /\ s2.buffer = TableReply(e.held) /\ s2.written = 0
    <2> DEFINE b == TableReply(e.held)
    <2>1. b \in Seq(Reply)
      BY <1>2
    <2> DEFINE s0 == [s EXCEPT !.operation = "GET_WACK_STATE"]
               s1 == [s0 EXCEPT !.state = "WRITE_FD", !.buffer = b, !.written = 0]
    <2>2. s2 = [s1 EXCEPT !.mask = s1.state]
      BY DEF SetEventMask, SetStateWackState
    <2> HIDE DEF b
    <2>3. s0 \in SessionType /\ s0.open = s.open /\ s0.operation = "GET_WACK_STATE"
      BY <1>3 DEF SessionType, Command
    <2> HIDE DEF s0
    <2>4. /\ s1 \in SessionType /\ s1.open = s.open /\ s1.operation = "GET_WACK_STATE"
          /\ s1.state = "WRITE_FD" /\ s1.buffer = b /\ s1.written = 0
      BY <2>1, <2>3 DEF SessionType
    <2> HIDE DEF s1
    <2>5. /\ s2 \in SessionType /\ s2.open = s.open /\ s2.operation = s1.operation
          /\ s2.state = s1.state /\ s2.mask = s1.state /\ s2.buffer = s1.buffer /\ s2.written = s1.written
      BY <2>2, <2>4 DEF SessionType
    <2> QED BY <2>4, <2>5 DEF b
  <1>5. /\ k2 \in ConnType /\ k2.open = k.open /\ k2.accepted = k.accepted
        /\ k2.commands = <<>> /\ k2.replies = k.replies
    BY <1>3, <1>9, EmptySeq DEF ConnType
  <1>6. Sound(TRUE, s2, r, k2)
    BY <1>1, <1>2, <1>4, <1>5 DEF Linked, Sound
  <1>7. CASE r.pc = "size"
    <2>1. W = e.held /\ k.replies = <<>> /\ k.open
      BY <1>7, <1>9 DEF Linked, Talk
    <2>2. Telling(TRUE, s2, k2, W, 0, 0)
      BY <1>4, <1>5, <2>1, NothingLeft DEF Telling
    <2>3. r.got = <<>>
      BY <1>7 DEF Linked, Talk
    <2>4. Told(r, W)
      BY <2>3 DEF Told
    <2>5. Talk(TRUE, s2, r, k2, W)
      <3>1. \E n \in 0..N + 1 : Telling(TRUE, s2, k2, W, 0, n)
        <4>1. 0 \in 0..N + 1
          BY <1>1
        <4> HIDE DEF W
        <4> QED BY <4>1, <2>2
      <3>2. k2.open
        BY <1>5, <2>1
      <3> HIDE DEF W
      <3> QED BY <1>7, <2>3, <2>4, <3>1, <3>2 DEF Talk
    <2> QED BY <1>3, <1>4, <1>5, <1>6, <2>5 DEF Linked
  <1>8. CASE r.pc # "size"
    <2>1. r.pc \in {"shown", "error"} /\ W = V
      BY <1>8, <1>9
    <2>2. Talk(TRUE, s2, r, k2, W)
      BY <1>5, <2>1 DEF Linked, Talk, Told
    <2> QED BY <1>3, <1>4, <1>5, <1>6, <2>2 DEF Linked
  <1> QED BY <1>7, <1>8

\* READ_FD of handle_control_session: a failure is simulated or ended.
LEMMA ReadServiceLinked ==
  ASSUME NEW s, NEW r, NEW k, NEW V \in SUBSET Vip, Linked(TRUE, s, r, k, V),
         s.open, s.state = "READ_FD", k.commands # <<>>, Head(k.commands) # "GET_WACK_STATE",
         NEW s2, s2 = SetEventMask([[s EXCEPT !.operation = Head(k.commands)] EXCEPT !.state = "WRITE_FD"]),
         NEW k2, k2 = [k EXCEPT !.commands = Tail(@)]
  PROVE  Linked(TRUE, s2, r, k2, V)
  <1>1. s \in SessionType /\ r \in RunType /\ k \in ConnType /\ Head(k.commands) \in Command
    BY OnItsWay DEF Linked
  <1>8. /\ Tail(k.commands) = <<>> /\ r.pc \in {"result", "shown", "error"}
        /\ r.pc = "result" => k.replies = <<>> /\ Head(k.commands) = r.op
    BY OnItsWay
  <1>2. s2 = [s EXCEPT !.operation = Head(k.commands), !.state = "WRITE_FD", !.mask = "WRITE_FD"]
    BY <1>1 DEF SetEventMask, SessionType
  <1>3. /\ s2 \in SessionType /\ s2.open /\ s2.mask = "WRITE_FD" /\ s2.state = "WRITE_FD"
        /\ s2.operation = Head(k.commands) /\ s2.operation # "READ_COMMAND"
    BY <1>1, <1>2 DEF SessionType, Command
  <1>4. /\ k2 \in ConnType /\ k2.open = k.open /\ k2.accepted = k.accepted
        /\ k2.commands = <<>> /\ k2.replies = k.replies
    BY <1>1, <1>8, EmptySeq DEF ConnType
  <1>5. Sound(TRUE, s2, r, k2)
    BY <1>3, <1>4 DEF Linked, Sound
  <1>6. r.pc \in {"result", "shown", "error"} /\ (r.pc = "result" => s2.operation = r.op /\ k.replies = <<>>)
    BY <1>3, <1>8
  <1>7. Talk(TRUE, s2, r, k2, V)
    BY <1>4, <1>6 DEF Linked, Talk, Told, Answering
  <1> QED BY <1>1, <1>3, <1>4, <1>5, <1>7 DEF Linked

\* close_clean, when the run has closed its end.
LEMMA CloseLinked ==
  ASSUME NEW s, NEW r, NEW k, NEW V \in SUBSET Vip, Linked(TRUE, s, r, k, V), ~k.open
  PROVE  Linked(TRUE, NoSession, r, k, V)
  <1>1. r.pc \in {"start", "shown", "error"}
    BY DEF Linked, Talk, RunType, Pcs
  <1>2. Sound(TRUE, NoSession, r, k)
    BY DEF Linked, Sound, NoSession
  <1>3. Talk(TRUE, NoSession, r, k, V)
    BY <1>1 DEF Linked, Talk, Told, Silent, NoSession
  <1> QED BY <1>2, <1>3, NoSessionType DEF Linked

\* What is written to a run that waits for it is a reply to what it asked.
LEMMA WritesTable ==
  ASSUME NEW s, NEW r, NEW k, NEW V \in SUBSET Vip, Linked(TRUE, s, r, k, V),
         k.open, s.operation = "GET_WACK_STATE"
  PROVE  \/ r.pc = "size" /\ \E n \in 0..N + 1 : Telling(TRUE, s, k, V, 0, n)
         \/ r.pc = "table" /\ \E n \in 1 + Len(r.got)..N + 1 : Telling(TRUE, s, k, V, 1 + Len(r.got), n)
  <1>1. r.pc \in Pcs
    BY DEF Linked, RunType
  <1>2. r.pc \in {"result", "size", "table"}
    BY <1>1 DEF Linked, Talk, Silent, Pcs
  <1>3. r.pc # "result"
    BY DEF Linked, Talk, Answering, Silent
  <1>4. r.pc = "size" => \E n \in 0..N + 1 : Telling(TRUE, s, k, V, 0, n)
    BY DEF Linked, Talk
  <1>5. r.pc = "table" => \E n \in 1 + Len(r.got)..N + 1 : Telling(TRUE, s, k, V, 1 + Len(r.got), n)
    BY DEF Linked, Talk
  <1> QED BY <1>2, <1>3, <1>4, <1>5

\* What becomes of a session and of its connection when j words more are written.
Wrote(s, j) == IF j < Len(s.buffer) - s.written THEN [s EXCEPT !.written = @ + j]
               ELSE SetEventMask(Finished(s))
Taken(s, k, j) == [k EXCEPT !.replies = @ \o Piece(s, j)]

MoreWritten(s, k, s2, k2, V, m, n) ==
  /\ n \in m..N + 1 /\ Telling(TRUE, s2, k2, V, m, n)
  /\ k2 \in ConnType /\ Len(k2.replies) <= Room
  /\ s2 \in SessionType /\ s2.open = s.open
  /\ k2.open = k.open /\ k2.accepted = k.accepted /\ k2.commands = k.commands
  /\ \/ s2.state = s.state /\ s2.mask = s.mask /\ s2.operation = s.operation
        /\ s2.written < Len(s2.buffer)
     \/ s2.state = "READ_FD" /\ s2.mask = "READ_FD" /\ s2.operation = "READ_COMMAND"

\* A piece more of a reply is written.
LEMMA MoreTold ==
  ASSUME NEW s \in SessionType, NEW k \in ConnType, NEW V \in SUBSET Vip,
         NEW m \in Nat, NEW n \in m..N + 1, Telling(TRUE, s, k, V, m, n), s.operation = "GET_WACK_STATE",
         NEW j \in 1..(Room - Len(k.replies)), j <= Len(s.buffer) - s.written
  PROVE  MoreWritten(s, k, Wrote(s, j), Taken(s, k, j), V, m, n + j)
  <1> DEFINE s2 == Wrote(s, j)
             k2 == Taken(s, k, j)
             w == TableReply(V)
             p == Part(V, m, n)
             more == SubSeq(w, n + 1, n + j)
  <1> SUFFICES MoreWritten(s, k, s2, k2, V, m, n + j)
    OBVIOUS
  <1>1. N \in Nat /\ Room \in Nat /\ m \in Nat /\ n \in Nat /\ m <= n
    BY SizeOfTable, ControlAssumption
  <1>2. w \in Seq(Reply) /\ Len(w) = N + 1
    BY ReplyType
  <1>3. k.commands = <<>> /\ k.replies = p /\ s.buffer = w /\ s.written = n
    BY DEF Telling
  <1>4. p \in Seq(Reply) /\ Len(p) = n - m
    BY <1>1, PartSize
  <1> HIDE DEF w, p
  <1>5. j \in Nat /\ n + j <= N + 1 /\ (j < Len(s.buffer) - s.written <=> n + j < N + 1)
    BY <1>1, <1>2, <1>3, <1>4
  <1>6. p \o more = Part(V, m, n + j)
    <2>1. /\ V \in SUBSET Vip /\ m \in Nat /\ n \in Nat /\ m <= n
          /\ j \in Nat /\ n + j <= N + 1
      BY <1>1, <1>5
    <2>2. Part(V, m, n) \o SubSeq(TableReply(V), n + 1, n + j) = Part(V, m, n + j)
      BY ONLY <2>1, PieceFollows
    <2> QED BY ONLY <2>2 DEF p, w, more
  <1>7. Part(V, m, n + j) \in Seq(Reply) /\ Len(Part(V, m, n + j)) = (n + j) - m
    <2>1. n + j \in Nat /\ m <= n + j
      BY <1>1, <1>5
    <2> QED BY <1>1, <2>1, PartSize
  <1>8. k2 = [k EXCEPT !.replies = p \o more]
    BY <1>3 DEF Piece, Taken
  <1> HIDE DEF more, s2, k2
  <1>9. /\ k2 \in ConnType /\ k2.replies = Part(V, m, n + j) /\ k2.open = k.open
        /\ k2.accepted = k.accepted /\ k2.commands = k.commands
    BY <1>6, <1>7, <1>8 DEF ConnType
  <1>10. Len(k2.replies) <= Room
    BY <1>1, <1>3, <1>4, <1>7, <1>9
  <1>11. n + j \in m..N + 1
    BY <1>1, <1>5
  <1>12. CASE n + j < N + 1
    <2>1. s2 = [s EXCEPT !.written = n + j]
      BY <1>3, <1>5, <1>12 DEF s2, Wrote
    <2>2. /\ s2 \in SessionType /\ s2.open = s.open /\ s2.state = s.state /\ s2.mask = s.mask
          /\ s2.operation = s.operation /\ s2.buffer = w /\ s2.written = n + j
      <3>1. n + j \in Nat
        BY <1>1, <1>5
      <3>2. s2 \in SessionType /\ s2.written = n + j
        BY <2>1, <3>1 DEF SessionType
      <3> QED BY <1>3, <2>1, <3>2 DEF SessionType
    <2>3. Telling(TRUE, s2, k2, V, m, n + j)
      BY <1>3, <1>9, <2>2 DEF Telling, w
    <2>4. s2.written < Len(s2.buffer)
      BY <1>2, <1>12, <2>2
    <2> QED BY <1>9, <1>10, <1>11, <2>2, <2>3, <2>4 DEF MoreWritten
  <1>13. CASE ~(n + j < N + 1)
    <2>1. s2 = SetEventMask(Finished(s)) /\ n + j = N + 1
      BY <1>1, <1>5, <1>13 DEF s2, Wrote
    <2>2. <<>> \in Seq(Reply)
      OBVIOUS
    <2>3. /\ s2 \in SessionType /\ s2.open = s.open /\ s2.state = "READ_FD" /\ s2.mask = "READ_FD"
          /\ s2.operation = "READ_COMMAND"
      <3> DEFINE t == Finished(s)
      <3>1. /\ t \in SessionType /\ t.open = s.open /\ t.state = "READ_FD"
            /\ t.operation = "READ_COMMAND"
        BY <2>2 DEF Finished, SessionType
      <3>2. s2 = [t EXCEPT !.mask = t.state]
        BY <2>1 DEF SetEventMask
      <3> HIDE DEF t
      <3> QED BY <3>1, <3>2 DEF SessionType
    <2>4. Telling(TRUE, s2, k2, V, m, n + j)
      BY <1>3, <1>9, <2>1, <2>3 DEF Telling
    <2> QED BY <1>9, <1>10, <1>11, <2>3, <2>4 DEF MoreWritten
  <1> QED BY <1>12, <1>13

\* WRITE_FD of handle_control_session: the table.
LEMMA WriteTableLinked ==
  ASSUME NEW s, NEW r, NEW k, NEW V \in SUBSET Vip, Linked(TRUE, s, r, k, V),
         k.open, s.open, s.operation = "GET_WACK_STATE",
         NEW j \in 1..(Room - Len(k.replies)), j <= Len(s.buffer) - s.written,
         NEW s2, s2 = Wrote(s, j), NEW k2, k2 = Taken(s, k, j)
  PROVE  Linked(TRUE, s2, r, k2, V)
  <1> DEFINE m == IF r.pc = "size" THEN 0 ELSE 1 + Len(r.got)
  <1>1. s \in SessionType /\ k \in ConnType /\ r \in RunType
    BY DEF Linked
  <1>2. Len(r.got) \in Nat /\ m \in Nat
    BY <1>1 DEF RunType
  <1>3. r.pc \in {"size", "table"} /\ \E n \in m..N + 1 : Telling(TRUE, s, k, V, m, n)
    BY WritesTable
  <1>4. PICK n \in m..N + 1 : Telling(TRUE, s, k, V, m, n)
    BY <1>3
  <1> HIDE DEF m
  <1>8. MoreWritten(s, k, Wrote(s, j), Taken(s, k, j), V, m, n + j)
    BY <1>1, <1>2, <1>4, MoreTold
  <1>5. MoreWritten(s, k, s2, k2, V, m, n + j)
    BY <1>8
  <1>6. Sound(TRUE, s2, r, k2)
    BY <1>5 DEF Linked, Sound, MoreWritten
  <1>7. Talk(TRUE, s2, r, k2, V)
    <2>1. CASE r.pc = "size"
      <3>1. \E i \in 0..N + 1 : Telling(TRUE, s2, k2, V, 0, i)
        BY <1>5, <2>1 DEF m, MoreWritten
      <3> QED BY <1>5, <2>1, <3>1 DEF Linked, Talk, MoreWritten
    <2>2. CASE r.pc = "table"
      <3>1. \E i \in 1 + Len(r.got)..N + 1 : Telling(TRUE, s2, k2, V, 1 + Len(r.got), i)
        BY <1>5, <2>2 DEF m, MoreWritten
      <3> QED BY <1>5, <2>2, <3>1 DEF Linked, Talk, MoreWritten
    <2> QED BY <1>3, <2>1, <2>2
  <1> QED BY <1>1, <1>5, <1>6, <1>7 DEF Linked, MoreWritten

\* WRITE_FD of handle_control_session: the result.
LEMMA WriteResultLinked ==
  ASSUME NEW s, NEW r, NEW k, NEW V \in SUBSET Vip, Linked(TRUE, s, r, k, V),
         k.open, s.open, s.state = "WRITE_FD", s.operation # "GET_WACK_STATE", Room - Len(k.replies) > 0,
         NEW s2, s2 = SetEventMask(Finished(s)),
         NEW k2, k2 = [k EXCEPT !.replies = Append(@, Word("result", {}))]
  PROVE  Linked(TRUE, s2, r, k2, V)
  <1>1. s \in SessionType /\ k \in ConnType /\ r \in RunType /\ r.pc \in Pcs
    BY DEF Linked, RunType
  <1>2. s.operation # "READ_COMMAND"
    BY DEF Linked, Sound
  <1>3. r.pc = "result"
    BY <1>1, <1>2 DEF Linked, Talk, Silent, Telling, Pcs
  <1>4. k.commands = <<>> /\ k.replies = <<>>
    BY <1>2, <1>3 DEF Linked, Talk, Silent, Answering
  <1>5. <<>> \in Seq(Reply) /\ Word("result", {}) \in Reply
    BY DEF Word, Reply
  <1>6. /\ s2 \in SessionType /\ s2.open /\ s2.state = "READ_FD" /\ s2.mask = "READ_FD"
        /\ s2.operation = "READ_COMMAND"
    BY <1>1, <1>5 DEF SetEventMask, Finished, SessionType
  <1>7. Append(k.replies, Word("result", {})) = <<Word("result", {})>>
    BY <1>4
  <1>11. <<Word("result", {})>> \in Seq(Reply)
    BY <1>5
  <1>8. /\ k2 \in ConnType /\ k2.replies = <<Word("result", {})>> /\ k2.open
        /\ k2.accepted = k.accepted /\ k2.commands = <<>> /\ Len(k2.replies) = 1
    BY <1>1, <1>4, <1>7, <1>11 DEF ConnType
  <1>9. Sound(TRUE, s2, r, k2)
    BY <1>6, <1>8, ControlAssumption DEF Linked, Sound
  <1>10. Talk(TRUE, s2, r, k2, V)
    BY <1>3, <1>6, <1>8 DEF Linked, Talk, Answering
  <1> QED BY <1>1, <1>6, <1>8, <1>9, <1>10 DEF Linked

\* The daemon exits.
LEMMA DieLinked ==
  ASSUME NEW s, NEW r, NEW k, NEW V \in SUBSET Vip, Linked(TRUE, s, r, k, V)
  PROVE  Linked(FALSE, NoSession, r, k, V)
  <1>1. Sound(FALSE, NoSession, r, k)
    BY DEF Linked, Sound, NoSession
  <1>2. NoSession.operation = "READ_COMMAND"
    BY DEF NoSession
  <1>3. \A m, n : Telling(TRUE, s, k, V, m, n) => Telling(FALSE, NoSession, k, V, m, n)
    BY <1>2 DEF Telling
  <1>4. Silent(s, k) => Silent(NoSession, k)
    BY <1>2 DEF Silent
  <1>5. r.op \in Command /\ (Answering(TRUE, s, r, k) => Answering(FALSE, NoSession, r, k))
    BY <1>2 DEF Linked, RunType, Answering, Silent
  <1>6. Talk(FALSE, NoSession, r, k, V)
    BY <1>2, <1>3, <1>4, <1>5 DEF Linked, Talk
  <1> QED BY <1>1, <1>6, NoSessionType DEF Linked

-----------------------------------------------------------------------------
(* What wackatrl does with a connection leaves its ends where they belong. *)

\* cli_conn, while there is a daemon.
LEMMA OpenLinked ==
  ASSUME NEW a, NEW s, NEW r, NEW k, NEW V \in SUBSET Vip, Linked(a, s, r, k, V), r.pc = "start",
         NEW r2, r2 = [r EXCEPT !.pc = "connected"],
         NEW k2, k2 = [k EXCEPT !.open = TRUE]
  PROVE  Linked(a, s, r2, k2, V)
  <1>1. r2 \in RunType /\ r2.op = r.op /\ r2.got = r.got /\ r2.pc = "connected"
    BY DEF Linked, RunType, Pcs
  <1>2. /\ k2 \in ConnType /\ k2.open /\ k2.accepted = k.accepted
        /\ k2.commands = k.commands /\ k2.replies = k.replies
    BY DEF Linked, ConnType
  <1>3. Sound(a, s, r2, k2)
    BY <1>1, <1>2 DEF Linked, Sound
  <1>4. Talk(a, s, r2, k2, V)
    BY <1>1, <1>2 DEF Linked, Talk, Told, Silent
  <1> QED BY <1>1, <1>2, <1>3, <1>4 DEF Linked

\* wackatrl gives up, with nothing of a reply left to it.
LEMMA ErrorLinked ==
  ASSUME NEW a, NEW s, NEW r, NEW k, NEW V \in SUBSET Vip, Linked(a, s, r, k, V),
         k.replies = <<>> /\ (~k.open \/ ~a),
         NEW r2, r2 = [r EXCEPT !.pc = "error"]
  PROVE  Linked(a, s, r2, k, V)
  <1>1. r2 \in RunType /\ r2.op = r.op /\ r2.got = r.got /\ r2.pc = "error"
    BY DEF Linked, RunType, Pcs
  <1>2. Sound(a, s, r2, k)
    BY <1>1 DEF Linked, Sound
  <1>3. Talk(a, s, r2, k, V)
    BY <1>1 DEF Linked, Talk, Told
  <1> QED BY <1>1, <1>2, <1>3 DEF Linked

\* post_failure and post_success.
LEMMA ServiceLinked ==
  ASSUME NEW a, NEW s, NEW r, NEW k, NEW V \in SUBSET Vip, Linked(a, s, r, k, V),
         r.pc = "connected", r.op # "GET_WACK_STATE",
         NEW r2, r2 = [r EXCEPT !.pc = "result"],
         NEW k2, k2 = [k EXCEPT !.commands = Append(@, r.op)]
  PROVE  Linked(a, s, r2, k2, V)
  <1>1. r2 \in RunType /\ r2.op = r.op /\ r2.got = r.got /\ r2.pc = "result"
    BY DEF Linked, RunType, Pcs
  <1>2. k.open /\ k.commands = <<>> /\ k.replies = <<>> /\ s.operation = "READ_COMMAND" /\ r.op \in Command
    BY DEF Linked, RunType, Talk, Silent
  <1>3. Append(k.commands, r.op) = <<r.op>> /\ <<r.op>> \in Seq(Command)
    BY <1>2
  <1>4. /\ k2 \in ConnType /\ k2.open /\ k2.accepted = k.accepted
        /\ k2.commands = <<r.op>> /\ k2.replies = <<>>
    BY <1>2, <1>3 DEF Linked, ConnType
  <1>5. Sound(a, s, r2, k2)
    BY <1>1, <1>2, <1>4 DEF Linked, Sound
  <1>6. Talk(a, s, r2, k2, V)
    BY <1>1, <1>2, <1>4 DEF Linked, Talk, Told, Answering
  <1> QED BY <1>1, <1>4, <1>5, <1>6 DEF Linked

\* get_state
LEMMA AskLinked ==
  ASSUME NEW a, NEW s, NEW r, NEW k, NEW V \in SUBSET Vip, Linked(a, s, r, k, V),
         r.pc \in {"connected", "get"},
         NEW r2, r2 = [r EXCEPT !.pc = "size"],
         NEW k2, k2 = [k EXCEPT !.commands = Append(@, "GET_WACK_STATE")]
  PROVE  Linked(a, s, r2, k2, V)
  <1>1. r2 \in RunType /\ r2.op = r.op /\ r2.got = r.got /\ r2.pc = "size"
    BY DEF Linked, RunType, Pcs
  <1>2. /\ k.open /\ k.commands = <<>> /\ k.replies = <<>> /\ s.operation = "READ_COMMAND"
        /\ "GET_WACK_STATE" \in Command
    BY DEF Linked, Command, Talk, Silent
  <1>3. /\ Append(k.commands, "GET_WACK_STATE") = <<"GET_WACK_STATE">>
        /\ <<"GET_WACK_STATE">> \in Seq(Command)
    BY <1>2
  <1>4. /\ k2 \in ConnType /\ k2.open /\ k2.accepted = k.accepted
        /\ k2.commands = <<"GET_WACK_STATE">> /\ k2.replies = <<>>
    BY <1>2, <1>3 DEF Linked, ConnType
  <1>5. Sound(a, s, r2, k2)
    BY <1>1, <1>2, <1>4 DEF Linked, Sound
  <1>6. Talk(a, s, r2, k2, V)
    BY <1>1, <1>2, <1>4 DEF Linked, Talk, Told
  <1> QED BY <1>1, <1>4, <1>5, <1>6 DEF Linked

OneRead(k, k2) ==
  /\ k2 \in ConnType /\ k2.open = k.open /\ k2.accepted = k.accepted
  /\ k2.commands = k.commands /\ k2.replies = Tail(k.replies) /\ Len(k2.replies) <= Room

\* A word of a connection is read.
LEMMA WordRead ==
  ASSUME NEW a, NEW s, NEW r, NEW k, Sound(a, s, r, k), k \in ConnType, k.replies # <<>>,
         NEW k2, k2 = [k EXCEPT !.replies = Tail(@)]
  PROVE  OneRead(k, k2)
  <1>1. /\ k.replies \in Seq(Reply) /\ Len(k.replies) \in Nat
        /\ Tail(k.replies) \in Seq(Reply) /\ Len(Tail(k.replies)) = Len(k.replies) - 1
    BY HeadTailProperties DEF ConnType
  <1>2. Len(k.replies) <= Room /\ Room \in Nat
    BY ControlAssumption DEF Sound
  <1>3. /\ k2 \in ConnType /\ k2.open = k.open /\ k2.accepted = k.accepted
        /\ k2.commands = k.commands /\ k2.replies = Tail(k.replies)
    BY <1>1 DEF ConnType
  <1> QED BY <1>1, <1>2, <1>3 DEF OneRead

\* The result of a command is read.
LEMMA ResultLinked ==
  ASSUME NEW a, NEW s, NEW r, NEW k, NEW V \in SUBSET Vip, Linked(a, s, r, k, V),
         r.pc = "result", k.replies # <<>>,
         NEW r2, r2 = [r EXCEPT !.pc = "get"],
         NEW k2, k2 = [k EXCEPT !.replies = Tail(@)]
  PROVE  Linked(a, s, r2, k2, V)
  <1>1. r2 \in RunType /\ r2.op = r.op /\ r2.got = r.got /\ r2.pc = "get"
    BY DEF Linked, RunType, Pcs
  <1>2. /\ k.open /\ k.commands = <<>> /\ k.replies = <<Word("result", {})>>
        /\ s.operation = "READ_COMMAND"
    BY DEF Linked, Talk, Silent, Answering
  <1>3. Tail(k.replies) = <<>>
    BY <1>2
  <1>4. /\ k2 \in ConnType /\ k2.open = k.open /\ k2.accepted = k.accepted
        /\ k2.commands = k.commands /\ k2.replies = Tail(k.replies) /\ Len(k2.replies) <= Room
    <2>1. Sound(a, s, r, k) /\ k \in ConnType
      BY DEF Linked
    <2>2. OneRead(k, k2)
      BY <2>1, WordRead
    <2> QED BY <2>2 DEF OneRead
  <1>5. Sound(a, s, r2, k2)
    BY <1>1, <1>4 DEF Linked, Sound
  <1>6. Talk(a, s, r2, k2, V)
    BY <1>1, <1>2, <1>3, <1>4 DEF Linked, Talk, Told, Silent
  <1> QED BY <1>1, <1>4, <1>5, <1>6 DEF Linked

\* What a run that waits for the size of the table finds is the size.
LEMMA SizeRead ==
  ASSUME NEW a, NEW s, NEW r, NEW k, NEW V \in SUBSET Vip, Linked(a, s, r, k, V),
         r.pc = "size", k.replies # <<>>
  PROVE  \E n \in 1..N + 1 : Telling(a, s, k, V, 0, n)
  <1>1. PICK n \in 0..N + 1 : Telling(a, s, k, V, 0, n)
    BY DEF Linked, Talk
  <1>2. n \in Nat /\ 0 <= n /\ N \in Nat
    BY SizeOfTable
  <1>3. Part(V, 0, n) # <<>>
    BY <1>1 DEF Telling
  <1>4. 0 < n
    BY <1>2, <1>3, SomethingLeft
  <1>5. n \in 1..N + 1
    BY <1>2, <1>4
  <1> QED BY <1>1, <1>5

\* The size of the table is read.
LEMMA SizeLinked ==
  ASSUME NEW a, NEW s, NEW r, NEW k, NEW V \in SUBSET Vip, Linked(a, s, r, k, V),
         r.pc = "size", k.replies # <<>>,
         NEW r2, r2 = [r EXCEPT !.pc = "table"],
         NEW k2, k2 = [k EXCEPT !.replies = Tail(@)]
  PROVE  Linked(a, s, r2, k2, V)
  <1>1. r2 \in RunType /\ r2.op = r.op /\ r2.got = r.got /\ r2.pc = "table"
    BY DEF Linked, RunType, Pcs
  <1>2. PICK n \in 1..N + 1 : Telling(a, s, k, V, 0, n)
    BY SizeRead
  <1>3. n \in Nat /\ n >= 1 /\ N \in Nat
    BY SizeOfTable
  <1>4. k.replies = Part(V, 0, n)
    BY <1>2 DEF Telling
  <1>5. Tail(k.replies) = Part(V, 1, n)
    BY <1>3, <1>4, SizeIsFirst
  <1>6. /\ k2 \in ConnType /\ k2.open = k.open /\ k2.accepted = k.accepted
        /\ k2.commands = k.commands /\ k2.replies = Tail(k.replies) /\ Len(k2.replies) <= Room
    <2>1. Sound(a, s, r, k) /\ k \in ConnType
      BY DEF Linked
    <2>2. OneRead(k, k2)
      BY <2>1, WordRead
    <2> QED BY <2>2 DEF OneRead
  <1>7. Sound(a, s, r2, k2)
    BY <1>1, <1>6 DEF Linked, Sound
  <1>8. Telling(a, s, k2, V, 1, n)
    BY <1>2, <1>5, <1>6 DEF Telling
  <1>9. r2.got = <<>> /\ k2.open
    BY <1>1, <1>6 DEF Linked, Talk
  <1>10. 1 + Len(r2.got) = 1
    BY <1>9
  <1>11. \E i \in 1 + Len(r2.got)..N + 1 : Telling(a, s, k2, V, 1 + Len(r2.got), i)
    BY <1>8, <1>10
  <1>12. Talk(a, s, r2, k2, V)
    BY <1>1, <1>9, <1>11 DEF Talk, Told
  <1> QED BY <1>1, <1>6, <1>7, <1>12 DEF Linked

\* A part of the table read after the entries before it is the table as far as
\* it is read.
LEMMA TableGrows ==
  ASSUME NEW V \in SUBSET Vip, NEW g \in Seq(Reply), NEW m \in Nat, m = 1 + Len(g),
         NEW n \in Nat, m <= n, Entries(g, V),
         NEW p, p = Part(V, m, n)
  PROVE  /\ g \o p \in Seq(Reply) /\ 1 + Len(g \o p) = n
         /\ Entries(g \o p, V)
  <1> DEFINE q == g \o p
  <1>1. Len(g) \in Nat /\ m \in Nat /\ 1 <= m /\ m <= n /\ m = 1 + Len(g)
    OBVIOUS
  <1> HIDE DEF q
  <1>2. p = Part(V, m, n)
    OBVIOUS
  <1>3. p \in Seq(Reply) /\ Len(p) = n - m
    <2>1. V \in SUBSET Vip /\ m \in Nat /\ n \in Nat /\ m <= n
      BY <1>1
    <2>2. Part(V, m, n) \in Seq(Reply) /\ Len(Part(V, m, n)) = n - m
      BY ONLY <2>1, PartSize
    <2> QED BY ONLY <1>2, <2>2
  <1>4. p = [i \in 1..(n - m) |-> Word("entry", V)]
    BY <1>1, <1>2, TablePart
  <1>5. /\ q \in Seq(Reply) /\ Len(q) = Len(g) + Len(p)
        /\ \A i \in 1..Len(g) + Len(p) : q[i] = IF i <= Len(g) THEN g[i] ELSE p[i - Len(g)]
    BY <1>3, ConcatProperties DEF q
  <1>6. Len(q) \in Nat /\ 1 + Len(q) = n
    BY <1>1, <1>3, <1>5
  <1>7. ASSUME NEW i \in 1..Len(q) PROVE q[i] = Word("entry", V)
    <2>1. CASE i <= Len(g)
      <3>1. q[i] = g[i] /\ i \in 1..Len(g)
        BY <1>1, <1>5, <2>1
      <3> QED BY <3>1 DEF Entries
    <2>2. CASE ~(i <= Len(g))
      <3>1. q[i] = p[i - Len(g)] /\ i - Len(g) \in 1..(n - m)
        BY <1>1, <1>3, <1>5, <2>2
      <3> QED BY <1>4, <3>1
    <2> QED BY <2>1, <2>2
  <1>8. q \in [1..Len(q) -> Reply]
    BY <1>5, LenProperties
  <1>9. q = [i \in 1..Len(q) |-> Word("entry", V)]
    BY <1>7, <1>8
  <1> QED BY <1>5, <1>6, <1>9 DEF q, Entries

\* As much of the table as there is is read.
LEMMA TableLinked ==
  ASSUME NEW a, NEW s, NEW r, NEW k, NEW V \in SUBSET Vip, Linked(a, s, r, k, V),
         r.pc = "table",
         NEW r2, r2 = [r EXCEPT !.got = @ \o k.replies],
         NEW k2, k2 = [k EXCEPT !.replies = <<>>]
  PROVE  Linked(a, s, r2, k2, V)
  <1> DEFINE g == r.got
             p == k.replies
             m == 1 + Len(g)
  <1>1. g \in Seq(Reply) /\ Len(g) \in Nat /\ m \in Nat /\ 1 <= m
    BY DEF Linked, RunType
  <1>2. PICK n \in m..N + 1 : Telling(a, s, k, V, m, n)
    BY DEF Linked, Talk
  <1>3. n \in Nat /\ m <= n /\ n <= N + 1 /\ N \in Nat
    BY <1>1, SizeOfTable
  <1>4. p = Part(V, m, n)
    BY <1>2 DEF Telling
  <1>5. Entries(g, V)
    BY DEF Linked, Talk, Told, Entries
  <1>6. k.open /\ k \in ConnType /\ r \in RunType
    BY DEF Linked, Talk
  <1>7. r2 = [r EXCEPT !.got = g \o p] /\ m = 1 + Len(g)
    OBVIOUS
  <1> HIDE DEF g, p, m
  <1>8. /\ g \o p \in Seq(Reply) /\ 1 + Len(g \o p) = n
        /\ Entries(g \o p, V)
    <2>1. /\ V \in SUBSET Vip /\ g \in Seq(Reply) /\ m \in Nat /\ m = 1 + Len(g)
          /\ n \in Nat /\ m <= n
          /\ Entries(g, V) /\ p = Part(V, m, n)
      BY <1>1, <1>3, <1>4, <1>5, <1>7
    <2> QED BY ONLY <2>1, TableGrows
  <1>9. /\ r2 \in RunType /\ r2.op = r.op /\ r2.pc = r.pc /\ r2.got = g \o p
    <2> DEFINE q == g \o p
    <2>1. q \in Seq(Reply) /\ r2 = [r EXCEPT !.got = q] /\ r \in RunType
      BY <1>6, <1>7, <1>8
    <2> HIDE DEF q
    <2>2. r2 \in RunType /\ r2.op = r.op /\ r2.pc = r.pc /\ r2.got = q
      BY <2>1 DEF RunType
    <2> QED BY <2>2 DEF q
  <1>10. /\ k2 \in ConnType /\ k2.open /\ k2.accepted = k.accepted
         /\ k2.commands = k.commands /\ k2.replies = <<>> /\ Len(k2.replies) = 0
    BY <1>6, EmptySeq DEF ConnType
  <1>11. Sound(a, s, r2, k2)
    BY <1>9, <1>10, ControlAssumption DEF Linked, Sound
  <1>12. Telling(a, s, k2, V, n, n)
    BY <1>2, <1>3, <1>10, NothingLeft DEF Telling
  <1>13. \E i \in 1 + Len(r2.got)..N + 1 : Telling(a, s, k2, V, 1 + Len(r2.got), i)
    <2>1. n \in n..N + 1
      BY <1>3
    <2>2. r2.got = g \o p
      BY <1>9
    <2>3. 1 + Len(r2.got) = n
      BY ONLY <1>8, <2>2
    <2> QED BY <1>12, <2>1, <2>3
  <1>14. Talk(a, s, r2, k2, V)
    BY <1>8, <1>9, <1>10, <1>13 DEF Talk, Told, Entries
  <1> QED BY <1>9, <1>10, <1>11, <1>14 DEF Linked

\* wackatrl closes its end: with the table, or interrupted.
LEMMA EndLinked ==
  ASSUME NEW a, NEW s, NEW r, NEW k, NEW V \in SUBSET Vip, Linked(a, s, r, k, V),
         NEW pc, pc = "error" \/ (pc = "shown" /\ r.pc = "table" /\ Len(r.got) >= N),
         NEW r2, r2 = [r EXCEPT !.pc = pc],
         NEW k2, k2 = [k EXCEPT !.open = FALSE, !.replies = <<>>]
  PROVE  Linked(a, s, r2, k2, V)
  <1>1. r2 \in RunType /\ r2.op = r.op /\ r2.got = r.got /\ r2.pc = pc
    BY DEF Linked, RunType, Pcs
  <1>2. /\ k2 \in ConnType /\ ~k2.open /\ k2.accepted = k.accepted
        /\ k2.commands = k.commands /\ k2.replies = <<>> /\ Len(k2.replies) = 0
    BY EmptySeq DEF Linked, ConnType
  <1>3. Sound(a, s, r2, k2)
    BY <1>1, <1>2, ControlAssumption DEF Linked, Sound
  <1>4. pc = "shown" => Len(r.got) = N
    <2> SUFFICES ASSUME r.pc = "table", Len(r.got) >= N PROVE Len(r.got) = N
      OBVIOUS
    <2>1. Len(r.got) \in Nat /\ N \in Nat
      BY SizeOfTable DEF Linked, RunType
    <2>2. \E n \in 1 + Len(r.got)..N + 1 : TRUE
      BY DEF Linked, Talk
    <2> QED BY <2>1, <2>2
  <1>5. Talk(a, s, r2, k2, V)
    BY <1>1, <1>2, <1>4 DEF Linked, Talk, Told
  <1> QED BY <1>1, <1>2, <1>3, <1>5 DEF Linked

-----------------------------------------------------------------------------
(* The steps of the whole. *)

\* Spread_reconnect leaves the lock as it is and takes one event at most.
LEMMA ReconnectLock ==
  ASSUME NEW e, Shape(e), NEW o \in SpreadReconnect(e)
  PROVE  o.d.lock = e.lock /\ o.events \in 0..1
  <1> DEFINE retry  == [e EXCEPT !.held = {}, !.session = "none", !.retry = TRUE]
             joined == [e EXCEPT !.held = {}, !.session = Another(@)]
  <1>1. retry.lock = e.lock /\ joined.lock = e.lock
    BY DEF Shape
  <1>2. o = Outcome(retry, 0) \/ o = Outcome(retry, 1) \/ o = Outcome(joined, 0)
    BY DEF SpreadReconnect
  <1> HIDE DEF retry, joined
  <1>3. (o.d = retry \/ o.d = joined) /\ o.events \in 0..1
    BY <1>2 DEF Outcome
  <1> QED BY <1>1, <1>3

\* What Become leaves of the lock and the events.
LEMMA BecomeLock ==
  ASSUME Types, NEW e, Shape(e), Become(SpreadReconnect(e))
  PROVE  d'.lock = e.lock /\ events' \in 0..MaxEvents
  <1>1. PICK o \in SpreadReconnect(e) :
          d' = o.d /\ events' = events + o.events /\ events' <= MaxEvents
    BY DEF Become
  <1>2. o.d.lock = e.lock /\ o.events \in 0..1
    BY ReconnectLock
  <1>3. events \in 0..MaxEvents /\ MaxEvents \in Nat
    BY ControlAssumption DEF Types
  <1> QED BY <1>1, <1>2, <1>3

\* set_state_wack_service_state sets the lock for a failure and clears it otherwise.
LEMMA ServiceLock ==
  ASSUME Types, NEW s, NEW e, Shape(e), Become(ServiceState(s, e))
  PROVE  d'.lock = (s.operation = "WACK_SERVICE_FAILURE") /\ events' \in 0..MaxEvents
  <1>1. CASE s.operation = "WACK_SERVICE_FAILURE"
    <2> DEFINE failing == [e EXCEPT !.lock = TRUE, !.session = "none", !.held = {}]
    <2>1. Shape(failing) /\ failing.lock = TRUE
      BY DEF Shape
    <2>2. Become(SpreadReconnect(failing))
      BY <1>1 DEF ServiceState
    <2> HIDE DEF failing
    <2>3. d'.lock = failing.lock /\ events' \in 0..MaxEvents
      BY <2>1, <2>2, BecomeLock
    <2> QED BY <1>1, <2>1, <2>3
  <1>2. CASE s.operation # "WACK_SERVICE_FAILURE"
    <2> DEFINE serving == [e EXCEPT !.lock = FALSE]
    <2>1. Shape(serving) /\ serving.lock = FALSE
      BY DEF Shape
    <2>2. Become(SpreadReconnect(serving))
      BY <1>2 DEF ServiceState
    <2> HIDE DEF serving
    <2>3. d'.lock = serving.lock /\ events' \in 0..MaxEvents
      BY <2>1, <2>2, BecomeLock
    <2> QED BY <1>2, <2>1, <2>3
  <1> QED BY <1>1, <1>2

\* A step at one connection, and only there.
Only(c) ==
  /\ alive' = alive /\ events' \in 0..MaxEvents
  /\ sess' \in [Client -> SessionType] /\ trl' \in [Client -> RunType] /\ conn' \in [Client -> ConnType]
  /\ \A b \in Client : trl'[b].op = trl[b].op
  /\ \A b \in Client \ {c} : sess'[b] = sess[b] /\ trl'[b] = trl[b] /\ conn'[b] = conn[b]
  /\ \A b \in Client : Failing(b) /\ d.lock => d'.lock

\* A conversation goes on as long as nothing of it changes.
LEMMA Undisturbed ==
  ASSUME NEW c \in Client, Conversation(c), alive' = alive,
         sess'[c] = sess[c], trl'[c] = trl[c], conn'[c] = conn[c],
         \A b \in Client : trl'[b].op = trl[b].op, Failing(c) /\ d.lock => d'.lock
  PROVE  Conversation(c)'
  <1>1. Failing(c)' <=> Failing(c)
    BY DEF Failing
  <1>2. PICK V \in SUBSET Vip :
          Linked(alive, sess[c], trl[c], conn[c], V) /\ (Failing(c) => V = {})
    BY DEF Conversation
  <1>3. Linked(alive', sess'[c], trl'[c], conn'[c], V)
    BY <1>2
  <1>4. Failing(c) /\ CarriedOut(trl'[c], conn'[c]) => d'.lock
    BY DEF Conversation
  <1> QED BY <1>1, <1>2, <1>3, <1>4 DEF Conversation

\* A step at one connection leaves the others as they are.
LEMMA StepAt ==
  ASSUME ControlInv, NEW c \in Client, Only(c), NEW V \in SUBSET Vip,
         Linked(alive, sess'[c], trl'[c], conn'[c], V),
         Failing(c) => V = {},
         Failing(c) /\ CarriedOut(trl'[c], conn'[c]) => d'.lock
  PROVE  Types' /\ Conversations'
  <1>1. Types'
    BY DEF Only, ControlInv, Types
  <1>2. ASSUME NEW b \in Client \ {c} PROVE Conversation(b)'
    <2>1. Conversation(b)
      BY DEF ControlInv, Conversations
    <2>2. /\ alive' = alive /\ sess'[b] = sess[b] /\ trl'[b] = trl[b] /\ conn'[b] = conn[b]
          /\ \A x \in Client : trl'[x].op = trl[x].op
          /\ Failing(b) /\ d.lock => d'.lock
      BY DEF Only
    <2> QED BY <2>1, <2>2, Undisturbed
  <1>3. Conversation(c)'
    <2>1. Failing(c)' <=> Failing(c)
      BY DEF Failing, Only
    <2>2. Linked(alive', sess'[c], trl'[c], conn'[c], V)
      BY DEF Only
    <2> QED BY <2>1, <2>2 DEF Conversation
  <1> QED BY <1>1, <1>2, <1>3 DEF Conversations

\* What the invariant says of one connection.
LEMMA Here ==
  ASSUME ControlInv, NEW c \in Client
  PROVE  /\ \E V \in SUBSET Vip : Linked(alive, sess[c], trl[c], conn[c], V) /\ (Failing(c) => V = {})
         /\ Failing(c) /\ CarriedOut(trl[c], conn[c]) => d.lock
         /\ sess \in [Client -> SessionType] /\ trl \in [Client -> RunType] /\ conn \in [Client -> ConnType]
         /\ alive \in BOOLEAN /\ events \in 0..MaxEvents
  BY DEF ControlInv, Conversations, Conversation, Types

\* A connection is accepted: what its run has written waits for it.
LEMMA ConnectStep ==
  ASSUME ControlInv, NEW c \in Client, HandleControlConnect(c)
  PROVE  Types' /\ Conversations'
  <1> USE Here
  <1>1. PICK V \in SUBSET Vip : Linked(alive, sess[c], trl[c], conn[c], V) /\ (Failing(c) => V = {})
    OBVIOUS
  <1>2. alive = TRUE
    BY DEF HandleControlConnect
  <1>3. /\ ~conn[c].accepted /\ trl[c].pc # "start"
        /\ sess'[c] = [NoSession EXCEPT !.open = TRUE] /\ trl'[c] = trl[c]
        /\ conn'[c] = [conn[c] EXCEPT !.accepted = TRUE]
    BY DEF HandleControlConnect
  <1>4. Linked(TRUE, sess'[c], trl[c], conn'[c], V)
    BY <1>1, <1>2, <1>3, ConnectLinked
  <1>5. Linked(alive, sess'[c], trl'[c], conn'[c], V)
    BY <1>2, <1>3, <1>4
  <1>6. sess'[c] \in SessionType /\ conn'[c] \in ConnType
    BY <1>4 DEF Linked
  <1>7. Only(c)
    <2>1. sess' \in [Client -> SessionType] /\ conn' \in [Client -> ConnType]
      BY <1>3, <1>6 DEF HandleControlConnect
    <2> QED BY <2>1 DEF HandleControlConnect, Only
  <1>8. CarriedOut(trl'[c], conn'[c]) => CarriedOut(trl[c], conn[c])
    <2>1. conn'[c].commands = conn[c].commands
      BY <1>3 DEF ConnType
    <2> QED BY <1>3, <2>1 DEF CarriedOut
  <1>9. d' = d
    BY DEF HandleControlConnect
  <1> QED BY <1>1, <1>5, <1>7, <1>8, <1>9, StepAt

\* The session is closed.
LEMMA CloseStep ==
  ASSUME ControlInv, NEW c \in Client, alive, ~conn[c].open, CloseSession(c), UNCHANGED <<alive, trl>>
  PROVE  Types' /\ Conversations'
  <1> USE Here
  <1>1. PICK V \in SUBSET Vip : Linked(alive, sess[c], trl[c], conn[c], V) /\ (Failing(c) => V = {})
    OBVIOUS
  <1>2. alive = TRUE
    OBVIOUS
  <1>3. Linked(TRUE, NoSession, trl[c], conn[c], V)
    BY <1>1, <1>2, CloseLinked
  <1>4. sess'[c] = NoSession /\ trl'[c] = trl[c] /\ conn'[c] = conn[c]
    BY DEF CloseSession
  <1>5. Linked(alive, sess'[c], trl'[c], conn'[c], V)
    BY <1>2, <1>3, <1>4
  <1>6. Only(c)
    BY NoSessionType DEF CloseSession, Only
  <1>7. CarriedOut(trl'[c], conn'[c]) => CarriedOut(trl[c], conn[c])
    BY <1>4
  <1>8. d' = d
    BY DEF CloseSession
  <1> QED BY <1>1, <1>5, <1>6, <1>7, <1>8, StepAt

\* A command is read and carried out.
LEMMA CommandStep ==
  ASSUME ControlInv, NEW c \in Client, alive, sess[c].open, sess[c].state = "READ_FD",
         conn[c].commands # <<>>, ReadCommand(c), UNCHANGED <<alive, trl>>
  PROVE  Types' /\ Conversations'
  <1> USE Here
  <1> DEFINE op == Head(conn[c].commands)
             s  == [sess[c] EXCEPT !.operation = op]
  <1>1. PICK V \in SUBSET Vip : Linked(alive, sess[c], trl[c], conn[c], V) /\ (Failing(c) => V = {})
    OBVIOUS
  <1>2. alive = TRUE /\ alive' = TRUE /\ trl' = trl
    OBVIOUS
  <1>3. Linked(TRUE, sess[c], trl[c], conn[c], V)
    BY <1>1, <1>2
  <1>4. /\ op \in Command /\ op \in {trl[c].op, "GET_WACK_STATE"}
        /\ trl[c].pc \in {"result", "size", "shown", "error"}
        /\ trl[c].pc = "result" => op = trl[c].op /\ trl[c].op # "GET_WACK_STATE"
        /\ trl[c].pc = "size" => op = "GET_WACK_STATE"
    <2> DEFINE k  == conn[c]
               r  == trl[c]
               s0 == sess[c]
    <2>1. Linked(TRUE, s0, r, k, V) /\ k.commands # <<>>
      BY <1>3
    <2> HIDE DEF k, r, s0
    <2>2. /\ Head(k.commands) \in Command /\ Head(k.commands) \in {r.op, "GET_WACK_STATE"}
          /\ r.pc \in {"result", "size", "shown", "error"}
      BY ONLY <2>1, OnItsWay
    <2>3. /\ r.pc = "result" => Head(k.commands) = r.op /\ r.op # "GET_WACK_STATE"
          /\ r.pc = "size" => Head(k.commands) = "GET_WACK_STATE"
      BY ONLY <2>1, OnItsWay
    <2> QED BY <2>2, <2>3 DEF k, r
  <1>5. conn' = [conn EXCEPT ![c].commands = Tail(@)] /\ conn'[c] = [conn[c] EXCEPT !.commands = Tail(@)]
    BY DEF ReadCommand
  <1>6. CASE op = "GET_WACK_STATE"
    <2> DEFINE s2 == SetEventMask(SetStateWackState(s, d))
               W  == IF trl[c].pc = "size" THEN d.held ELSE V
    <2>1. sess' = [sess EXCEPT ![c] = s2] /\ d' = d /\ events' = events
      BY <1>6 DEF ReadCommand
    <2>2. sess'[c] = s2
      BY <2>1
    <2>3. d.held \in SUBSET Vip
      BY DEF ControlInv, Shape
    <2>4. Linked(TRUE, s2, trl[c], conn'[c], W)
      BY <1>3, <1>5, <1>6, <2>3, ReadStateLinked
    <2>5. W \in SUBSET Vip
      BY <2>3
    <2>6. Failing(c) => W = {}
      <3>1. Failing(c) /\ trl[c].pc = "size" => d.lock
        BY DEF CarriedOut
      <3>2. d.lock => d.held = {}
        BY DEF ControlInv, Down
      <3> QED BY <1>1, <3>1, <3>2
    <2> HIDE DEF s2, W
    <2>7. Linked(alive, sess'[c], trl'[c], conn'[c], W)
      BY <1>2, <2>2, <2>4
    <2>8. s2 \in SessionType /\ conn'[c] \in ConnType
      BY <2>4 DEF Linked
    <2>9. Only(c)
      <3>1. sess' \in [Client -> SessionType] /\ conn' \in [Client -> ConnType]
        BY <1>5, <2>1, <2>8
      <3> QED BY <1>2, <1>5, <2>1, <3>1 DEF Only
    <2>10. CarriedOut(trl'[c], conn'[c]) => CarriedOut(trl[c], conn[c])
      <3>1. trl[c].pc # "result"
        BY <1>4, <1>6
      <3> QED BY <1>2, <3>1 DEF CarriedOut
    <2> QED BY <2>1, <2>5, <2>6, <2>7, <2>9, <2>10, StepAt
  <1>7. CASE op # "GET_WACK_STATE"
    <2> DEFINE s2 == SetEventMask([s EXCEPT !.state = "WRITE_FD"])
    <2>1. sess' = [sess EXCEPT ![c] = s2] /\ Become(ServiceState(s, d))
      BY <1>7 DEF ReadCommand
    <2>2. sess'[c] = s2
      BY <2>1
    <2>3. Linked(TRUE, s2, trl[c], conn'[c], V)
      BY <1>3, <1>5, <1>7, ReadServiceLinked
    <2>4. s.operation = op /\ Types /\ Shape(d)
      BY DEF SessionType, ControlInv
    <2>5. d'.lock = (op = "WACK_SERVICE_FAILURE") /\ events' \in 0..MaxEvents
      <3> HIDE DEF s
      <3>1. d'.lock = (s.operation = "WACK_SERVICE_FAILURE") /\ events' \in 0..MaxEvents
        BY <2>1, <2>4, ServiceLock
      <3> QED BY <2>4, <3>1
    <2> HIDE DEF s2
    <2>6. Linked(alive, sess'[c], trl'[c], conn'[c], V)
      BY <1>2, <2>2, <2>3
    <2>7. s2 \in SessionType /\ conn'[c] \in ConnType
      BY <2>3 DEF Linked
    <2>8. \A b \in Client : Failing(b) => d'.lock
      <3> SUFFICES ASSUME NEW b \in Client, Failing(b) PROVE d'.lock
        OBVIOUS
      <3>1. trl[c].op # "WACK_SERVICE_SUCCESS" /\ op = trl[c].op
        BY <1>4, <1>7 DEF Failing
      <3>2. op = "WACK_SERVICE_FAILURE"
        BY <1>4, <1>7, <3>1 DEF Command
      <3> QED BY <2>5, <3>2
    <2>9. Only(c)
      <3>1. sess' \in [Client -> SessionType] /\ conn' \in [Client -> ConnType]
        BY <1>5, <2>1, <2>7
      <3> QED BY <1>2, <1>5, <2>1, <2>5, <2>8, <3>1 DEF Only
    <2> QED BY <1>1, <2>6, <2>8, <2>9, StepAt
  <1> QED BY <1>6, <1>7

\* A piece of a reply is written.
LEMMA WriteStep ==
  ASSUME ControlInv, NEW c \in Client, alive, sess[c].open, sess[c].state = "WRITE_FD",
         conn[c].open, WriteReply(c), UNCHANGED <<alive, trl>>
  PROVE  Types' /\ Conversations'
  <1> USE Here
  <1> DEFINE s == sess[c]
             k == conn[c]
  <1>1. PICK V \in SUBSET Vip : Linked(alive, s, trl[c], k, V) /\ (Failing(c) => V = {})
    OBVIOUS
  <1>2. alive = TRUE /\ alive' = TRUE /\ trl' = trl
    OBVIOUS
  <1>3. Linked(TRUE, s, trl[c], k, V)
    BY <1>1, <1>2
  <1>4. /\ d' = d /\ events' = events
        /\ sess' = [sess EXCEPT ![c] = sess'[c]] /\ conn' = [conn EXCEPT ![c] = conn'[c]]
        /\ Linked(TRUE, sess'[c], trl[c], conn'[c], V)
        /\ conn'[c].commands = conn[c].commands
    <2>1. CASE s.operation = "GET_WACK_STATE"
      <3>1. PICK j \in 1..(Room - Len(k.replies)) :
              /\ j <= Len(s.buffer) - s.written
              /\ conn' = [conn EXCEPT ![c].replies = @ \o Piece(s, j)]
              /\ sess' = [sess EXCEPT ![c] = Wrote(s, j)]
              /\ d' = d /\ events' = events
        BY <2>1 DEF WriteReply, Wrote
      <3>2. sess'[c] = Wrote(s, j) /\ conn'[c] = Taken(s, k, j)
        BY <3>1 DEF Taken
      <3>3. Linked(TRUE, sess'[c], trl[c], conn'[c], V)
        <4> HIDE DEF s, k
        <4>1. j <= Len(s.buffer) - s.written /\ k.open /\ s.open
          BY <3>1 DEF s, k
        <4> QED BY <1>3, <2>1, <3>2, <4>1, WriteTableLinked
      <3>4. conn'[c].commands = conn[c].commands
        BY <3>2 DEF Taken, ConnType
      <3>5. sess' = [sess EXCEPT ![c] = sess'[c]] /\ conn' = [conn EXCEPT ![c] = conn'[c]]
        BY <3>1, <3>2 DEF Taken
      <3> QED BY <3>1, <3>3, <3>4, <3>5
    <2>2. CASE s.operation # "GET_WACK_STATE"
      <3>1. /\ Room - Len(k.replies) > 0
            /\ conn' = [conn EXCEPT ![c].replies = Append(@, Word("result", {}))]
            /\ sess' = [sess EXCEPT ![c] = SetEventMask(Finished(s))]
            /\ d' = d /\ events' = events
        BY <2>2 DEF WriteReply
      <3>2. /\ sess'[c] = SetEventMask(Finished(s))
            /\ conn'[c] = [k EXCEPT !.replies = Append(@, Word("result", {}))]
        BY <3>1
      <3>3. Linked(TRUE, sess'[c], trl[c], conn'[c], V)
        <4> HIDE DEF s, k
        <4>1. s.state = "WRITE_FD" /\ k.open /\ s.open
          BY DEF s, k
        <4> QED BY <1>3, <2>2, <3>1, <3>2, <4>1, WriteResultLinked
      <3>4. conn'[c].commands = conn[c].commands
        BY <3>2 DEF ConnType
      <3>5. sess' = [sess EXCEPT ![c] = sess'[c]] /\ conn' = [conn EXCEPT ![c] = conn'[c]]
        BY <3>1, <3>2
      <3> QED BY <3>1, <3>3, <3>4, <3>5
    <2> QED BY <2>1, <2>2
  <1>5. sess'[c] \in SessionType /\ conn'[c] \in ConnType
    BY <1>4 DEF Linked
  <1>6. Only(c)
    BY <1>2, <1>4, <1>5 DEF Only
  <1>7. Linked(alive, sess'[c], trl'[c], conn'[c], V)
    BY <1>2, <1>4
  <1>8. CarriedOut(trl'[c], conn'[c]) => CarriedOut(trl[c], conn[c])
    BY <1>2, <1>4 DEF CarriedOut
  <1> QED BY <1>1, <1>4, <1>6, <1>7, <1>8, StepAt

\* handle_control_session, by what the session does next.
LEMMA SessionStep ==
  ASSUME ControlInv, NEW c \in Client, HandleControlSession(c)
  PROVE  Types' /\ Conversations'
  <1>1. alive /\ sess[c].open /\ UNCHANGED <<alive, trl>>
    BY DEF HandleControlSession
  <1>2. sess[c].state \in {"READ_FD", "WRITE_FD"}
    BY Here DEF SessionType
  <1>3. CASE sess[c].state = "READ_FD" /\ conn[c].commands # <<>>
    BY <1>1, <1>3, CommandStep DEF HandleControlSession
  <1>4. CASE sess[c].state = "READ_FD" /\ conn[c].commands = <<>>
    <2>1. ~conn[c].open /\ CloseSession(c)
      BY <1>4 DEF HandleControlSession, ReadCommand
    <2> QED BY <1>1, <2>1, CloseStep
  <1>5. CASE sess[c].state = "WRITE_FD" /\ conn[c].open
    BY <1>1, <1>5, WriteStep DEF HandleControlSession
  <1>6. CASE sess[c].state = "WRITE_FD" /\ ~conn[c].open
    <2>1. CloseSession(c)
      BY <1>6 DEF HandleControlSession, WriteReply
    <2> QED BY <1>1, <1>6, <2>1, CloseStep
  <1> QED BY <1>2, <1>3, <1>4, <1>5, <1>6

\* The daemon exits: every conversation stops where it is.
LEMMA DieStep ==
  ASSUME ControlInv, Die
  PROVE  Types' /\ Conversations'
  <1>1. /\ alive = TRUE /\ alive' = FALSE /\ trl' = trl /\ conn' = conn /\ events' = events
        /\ d'.lock = d.lock /\ sess' = [c \in Client |-> NoSession]
    BY DEF Die, ControlInv, Shape, Types
  <1>2. Types'
    BY <1>1, NoSessionType DEF ControlInv, Types
  <1>3. ASSUME NEW c \in Client PROVE Conversation(c)'
    <2>1. PICK V \in SUBSET Vip : Linked(alive, sess[c], trl[c], conn[c], V) /\ (Failing(c) => V = {})
      BY Here
    <2>2. Linked(FALSE, NoSession, trl[c], conn[c], V)
      BY <1>1, <2>1, DieLinked
    <2>3. Linked(alive', sess'[c], trl'[c], conn'[c], V)
      BY <1>1, <2>2
    <2>4. Failing(c)' <=> Failing(c)
      BY <1>1 DEF Failing
    <2>5. Failing(c) /\ CarriedOut(trl'[c], conn'[c]) => d'.lock
      BY <1>1, Here
    <2> QED BY <2>1, <2>3, <2>4, <2>5 DEF Conversation
  <1> QED BY <1>2, <1>3 DEF Conversations

\* A step of the daemon with Spread: the connections see nothing of it.
LEMMA SpreadStep ==
  ASSUME ControlInv, Retry \/ SessionLost \/ Allocate
  PROVE  Types' /\ Conversations'
  <1>1. UNCHANGED <<alive, sess, trl, conn>>
    BY DEF Retry, SessionLost, Allocate
  <1>2. d'.lock = d.lock /\ events' \in 0..MaxEvents
    <2>1. CASE Retry
      <3> DEFINE tried == [d EXCEPT !.retry = FALSE]
      <3>1. Shape(tried) /\ tried.lock = d.lock /\ Types
        BY DEF Shape, ControlInv
      <3>2. Become(SpreadReconnect(tried))
        BY <2>1 DEF Retry
      <3> HIDE DEF tried
      <3>3. d'.lock = tried.lock /\ events' \in 0..MaxEvents
        BY <3>1, <3>2, BecomeLock
      <3> QED BY <3>1, <3>3
    <2>2. CASE SessionLost
      <3>1. PICK o \in SpreadReconnect(d) :
              /\ d' = Outcome(o.d, o.events + 1).d
              /\ events' = events + Outcome(o.d, o.events + 1).events /\ events' <= MaxEvents
        BY <2>2 DEF SessionLost, Become
      <3>2. d' = o.d /\ events' = events + (o.events + 1)
        BY <3>1 DEF Outcome
      <3>3. Shape(d) /\ events \in 0..MaxEvents /\ MaxEvents \in Nat
        BY ControlAssumption DEF ControlInv, Types
      <3>4. o.d.lock = d.lock /\ o.events \in 0..1
        BY <3>3, ReconnectLock
      <3> QED BY <3>1, <3>2, <3>3, <3>4
    <2>3. CASE Allocate
      BY <2>3, ControlAssumption DEF Allocate, ControlInv, Shape, Types
    <2> QED BY <2>1, <2>2, <2>3
  <1>3. Types'
    BY <1>1, <1>2 DEF ControlInv, Types
  <1>4. ASSUME NEW c \in Client PROVE Conversation(c)'
    <2>1. Conversation(c)
      BY DEF ControlInv, Conversations
    <2> QED BY <1>1, <1>2, <2>1, Undisturbed
  <1> QED BY <1>3, <1>4 DEF Conversations

\* A step of a run of wackatrl: what it leaves of its own connection decides.
LEMMA RunStep ==
  ASSUME ControlInv, NEW c \in Client, UNCHANGED <<d, alive, events, sess>>,
         NEW r2, trl' = [trl EXCEPT ![c] = r2], NEW k2, conn' = [conn EXCEPT ![c] = k2],
         NEW V \in SUBSET Vip, Failing(c) => V = {},
         Linked(alive, sess[c], r2, k2, V), r2.op = trl[c].op,
         Failing(c) /\ CarriedOut(r2, k2) => d.lock
  PROVE  Types' /\ Conversations'
  <1> USE Here
  <1>1. r2 \in RunType /\ k2 \in ConnType
    BY DEF Linked
  <1>2. trl'[c] = r2 /\ conn'[c] = k2
    OBVIOUS
  <1>3. Only(c)
    BY <1>1, <1>2 DEF Only
  <1>4. Linked(alive, sess'[c], trl'[c], conn'[c], V)
    BY <1>2
  <1>5. Failing(c) /\ CarriedOut(trl'[c], conn'[c]) => d'.lock
    BY <1>2
  <1> QED BY <1>3, <1>4, <1>5, StepAt

\* A step of wackatrl.
LEMMA WackatrlStep ==
  ASSUME ControlInv, NEW c \in Client, Wackatrl(c) \/ Interrupt(c)
  PROVE  Types' /\ Conversations'
  <1> USE Here
  <1> DEFINE s == sess[c]
             r == trl[c]
             k == conn[c]
             To(pc) == [r EXCEPT !.pc = pc]
  <1>1. PICK V \in SUBSET Vip : Linked(alive, s, r, k, V) /\ (Failing(c) => V = {})
    OBVIOUS
  <1>2. /\ UNCHANGED <<d, alive, events, sess>>
        /\ r \in RunType /\ k \in ConnType /\ Talk(alive, s, r, k, V)
        /\ \A pc : To(pc).op = r.op /\ To(pc).pc = pc
    BY <1>1 DEF Wackatrl, Interrupt, CliConn, PostService, AskState, Post, ReadWord, ReadTable, Show,
                Move, Linked, RunType
  <1>3. conn = [conn EXCEPT ![c] = k]
    OBVIOUS
  \* wackatrl gives up
  <1>4. ASSUME trl' = [trl EXCEPT ![c].pc = "error"], conn' = conn, k.replies = <<>>, ~k.open \/ ~alive
        PROVE  Types' /\ Conversations'
    <2> DEFINE r2 == To("error")
    <2>1. trl' = [trl EXCEPT ![c] = r2] /\ conn' = [conn EXCEPT ![c] = k]
      BY <1>3, <1>4
    <2>2. r2.op = r.op /\ ~CarriedOut(r2, k)
      BY <1>2 DEF CarriedOut
    <2>3. Linked(alive, s, r2, k, V)
      <3> HIDE DEF s, k, r
      <3> QED BY <1>1, <1>4, ErrorLinked
    <2> HIDE DEF r2
    <2> QED BY <1>1, <1>2, <2>1, <2>2, <2>3, RunStep
  <1>5. CASE CliConn(c) /\ alive
    <2> DEFINE r2 == To("connected")
               k2 == [k EXCEPT !.open = TRUE]
    <2>1. trl' = [trl EXCEPT ![c] = r2] /\ conn' = [conn EXCEPT ![c] = k2] /\ r.pc = "start"
      BY <1>5 DEF CliConn, Move, At
    <2>2. r2.op = r.op /\ ~CarriedOut(r2, k2)
      BY <1>2 DEF CarriedOut
    <2>3. Linked(alive, s, r2, k2, V)
      <3> HIDE DEF s, k, r
      <3> QED BY <1>1, <2>1, OpenLinked
    <2> HIDE DEF r2, k2
    <2> QED BY <1>1, <1>2, <2>1, <2>2, <2>3, RunStep
  <1>6. CASE CliConn(c) /\ ~alive
    <2>1. k.replies = <<>> /\ trl' = [trl EXCEPT ![c].pc = "error"] /\ conn' = conn
      BY <1>2, <1>6 DEF CliConn, Move, At, Talk, Silent
    <2> QED BY <1>4, <1>6, <2>1
  <1>7. CASE PostService(c) /\ alive
    <2> DEFINE r2 == To("result")
               k2 == [k EXCEPT !.commands = Append(@, r.op)]
    <2>1. /\ trl' = [trl EXCEPT ![c] = r2] /\ conn' = [conn EXCEPT ![c] = k2]
          /\ r.pc = "connected" /\ r.op # "GET_WACK_STATE"
      BY <1>7 DEF PostService, Post, Move, At
    <2>2. r2.op = r.op /\ ~CarriedOut(r2, k2)
      <3>1. k.commands = <<>>
        BY <1>2, <2>1 DEF Talk, Silent
      <3>2. k2.commands = Append(k.commands, r.op)
        BY <1>2 DEF ConnType
      <3>3. k2.commands # <<>>
        BY <3>1, <3>2
      <3> QED BY <1>2, <3>3 DEF CarriedOut
    <2>3. Linked(alive, s, r2, k2, V)
      <3> HIDE DEF s, k, r
      <3> QED BY <1>1, <2>1, ServiceLinked
    <2> HIDE DEF r2, k2
    <2> QED BY <1>1, <1>2, <2>1, <2>2, <2>3, RunStep
  <1>8. CASE AskState(c) /\ alive
    <2> DEFINE r2 == To("size")
               k2 == [k EXCEPT !.commands = Append(@, "GET_WACK_STATE")]
    <2>1. /\ trl' = [trl EXCEPT ![c] = r2] /\ conn' = [conn EXCEPT ![c] = k2]
          /\ r.pc = "get" \/ (r.pc = "connected" /\ r.op = "GET_WACK_STATE")
      BY <1>8 DEF AskState, Post, Move, At
    <2>2. r2.op = r.op
      BY <1>2
    <2>3. Failing(c) => d.lock
      BY <2>1 DEF CarriedOut, Failing
    <2>4. Linked(alive, s, r2, k2, V)
      <3> HIDE DEF s, k, r
      <3>1. r.pc \in {"connected", "get"}
        BY <2>1
      <3> QED BY <1>1, <3>1, AskLinked
    <2> HIDE DEF r2, k2
    <2> QED BY <1>1, <1>2, <2>1, <2>2, <2>3, <2>4, RunStep
  <1>9. CASE (PostService(c) \/ AskState(c)) /\ ~alive
    <2>1. r.pc \in {"connected", "get"} /\ trl' = [trl EXCEPT ![c].pc = "error"] /\ conn' = conn
      BY <1>9 DEF PostService, AskState, Post, Move, At
    <2>2. k.replies = <<>>
      BY <1>2, <2>1 DEF Talk, Silent
    <2> QED BY <1>4, <1>9, <2>1, <2>2
  <1>10. CASE ReadWord(c) /\ conn[c].replies = <<>>
    <2>1. ~alive /\ trl' = [trl EXCEPT ![c].pc = "error"] /\ conn' = conn
      BY <1>10 DEF ReadWord, Move
    <2> QED BY <1>4, <1>10, <2>1
  <1>11. CASE ReadWord(c) /\ conn[c].replies # <<>>
    <2> DEFINE r2 == To(IF r.pc = "result" THEN "get" ELSE "table")
               k2 == [k EXCEPT !.replies = Tail(@)]
    <2>1. /\ trl' = [trl EXCEPT ![c] = r2] /\ conn' = [conn EXCEPT ![c] = k2]
          /\ r.pc \in {"result", "size"}
      BY <1>11 DEF ReadWord, Move, At
    <2>2. r2.op = r.op
      BY <1>2
    <2>3. Failing(c) => d.lock
      <3>1. r.pc = "result" => k.commands = <<>>
        BY <1>2, <1>11 DEF Talk, Answering, Silent
      <3> QED BY <2>1, <3>1 DEF CarriedOut
    <2>4. Linked(alive, s, r2, k2, V)
      <3> HIDE DEF s, k, r
      <3>1. k.replies # <<>>
        BY <1>11 DEF k
      <3>2. CASE r.pc = "result"
        BY <1>1, <3>1, <3>2, ResultLinked
      <3>3. CASE r.pc = "size"
        BY <1>1, <3>1, <3>3, SizeLinked
      <3> QED BY <2>1, <3>2, <3>3
    <2> HIDE DEF r2, k2
    <2> QED BY <1>1, <1>2, <2>1, <2>2, <2>3, <2>4, RunStep
  <1>12. CASE ReadTable(c)
    <2> DEFINE r2 == [r EXCEPT !.got = @ \o k.replies]
               k2 == [k EXCEPT !.replies = <<>>]
    <2>1. trl' = [trl EXCEPT ![c] = r2] /\ conn' = [conn EXCEPT ![c] = k2] /\ r.pc = "table"
      BY <1>12 DEF ReadTable, At
    <2>2. r2.op = r.op /\ r2.pc = "table"
      BY <1>2, <2>1 DEF RunType
    <2>3. Failing(c) => d.lock
      BY <2>1 DEF CarriedOut
    <2>4. Linked(alive, s, r2, k2, V)
      <3> HIDE DEF s, k, r
      <3> QED BY <1>1, <2>1, TableLinked
    <2> HIDE DEF r2, k2
    <2> QED BY <1>1, <1>2, <2>1, <2>2, <2>3, <2>4, RunStep
  <1>13. CASE Show(c) \/ Interrupt(c)
    <2> DEFINE pc == IF Show(c) THEN "shown" ELSE "error"
               r2 == To(pc)
               k2 == [k EXCEPT !.open = FALSE, !.replies = <<>>]
    <2>1. /\ trl' = [trl EXCEPT ![c] = r2] /\ conn' = [conn EXCEPT ![c] = k2]
          /\ pc = "error" \/ (pc = "shown" /\ r.pc = "table" /\ Len(r.got) >= N)
      BY <1>13 DEF Show, Interrupt, Move, At, N
    <2>2. r2.op = r.op /\ r2.pc = pc
      BY <1>2
    <2>3. Failing(c) /\ CarriedOut(r2, k2) => d.lock
      BY <2>1, <2>2 DEF CarriedOut
    <2>4. Linked(alive, s, r2, k2, V)
      <3> HIDE DEF s, k, r, pc
      <3> QED BY <1>1, <2>1, EndLinked
    <2> HIDE DEF r2, k2, pc
    <2> QED BY <1>1, <1>2, <2>1, <2>2, <2>3, <2>4, RunStep
  <1> QED BY <1>5, <1>6, <1>7, <1>8, <1>9, <1>10, <1>11, <1>12, <1>13 DEF Wackatrl

\* Nothing is asked before wackatrl runs.
LEMMA InitControl == Init => ControlInv
  <1> SUFFICES ASSUME Init PROVE ControlInv
    OBVIOUS
  <1>1. Shape(d) /\ Down(d)
    BY InitShape
  <1>2. PICK f \in Asked : trl = [c \in Client |-> [op |-> f[c], pc |-> "start", got |-> <<>>]]
    BY DEF Init
  <1>3. f \in [Client -> Command]
    BY AskedAssumption
  <1>4. <<>> \in Seq(Reply) /\ <<>> \in Seq(Command)
    OBVIOUS
  <1>5. ASSUME NEW c \in Client
        PROVE  /\ alive = TRUE /\ sess[c] = NoSession /\ sess[c] \in SessionType
               /\ trl[c] \in RunType /\ trl[c].pc = "start" /\ trl[c].got = <<>>
               /\ conn[c] \in ConnType /\ ~conn[c].open /\ ~conn[c].accepted
               /\ conn[c].commands = <<>> /\ conn[c].replies = <<>>
    BY <1>2, <1>3, <1>4, NoSessionType DEF Init, RunType, ConnType, Pcs
  <1>6. Types
    <2>1. alive = TRUE /\ events = 0 /\ MaxEvents \in Nat
      BY ControlAssumption DEF Init
    <2>2. /\ sess \in [Client -> SessionType] /\ trl \in [Client -> RunType]
          /\ conn \in [Client -> ConnType]
      BY <1>2, <1>5 DEF Init
    <2> QED BY <2>1, <2>2 DEF Types
  <1>7. ASSUME NEW c \in Client PROVE Conversation(c)
    <2>5. /\ alive = TRUE /\ sess[c] = NoSession
          /\ trl[c].pc = "start" /\ trl[c].got = <<>>
          /\ ~conn[c].open /\ ~conn[c].accepted
          /\ conn[c].commands = <<>> /\ conn[c].replies = <<>>
      BY <1>5
    <2>1. Sound(alive, sess[c], trl[c], conn[c])
      <3>1. Len(conn[c].replies) = 0 /\ Room \in Nat
        BY <2>5, ControlAssumption
      <3>2. /\ NoSession.state = "READ_FD" /\ NoSession.mask = "READ_FD"
            /\ NoSession.operation = "READ_COMMAND" /\ ~NoSession.open
        BY DEF NoSession
      <3> QED BY <2>5, <3>1, <3>2 DEF Sound
    <2>2. Talk(alive, sess[c], trl[c], conn[c], {})
      <3>1. Told(trl[c], {})
        BY ONLY <2>5 DEF Told
      <3>2. Silent(sess[c], conn[c])
        BY <2>5 DEF Silent, NoSession
      <3> QED BY <2>5, <3>1, <3>2 DEF Talk
    <2>3. Linked(alive, sess[c], trl[c], conn[c], {})
      BY <1>5, <2>1, <2>2 DEF Linked
    <2>4. ~CarriedOut(trl[c], conn[c])
      BY <1>5 DEF CarriedOut
    <2> QED BY <2>3, <2>4 DEF Conversation
  <1> QED BY <1>1, <1>6, <1>7 DEF ControlInv, Conversations

\* Every step keeps the two ends of every connection together.
LEMMA StepControl == ControlInv /\ [Next]_vars => ControlInv'
  <1> SUFFICES ASSUME ControlInv, [Next]_vars PROVE ControlInv'
    OBVIOUS
  <1>1. Shape(d') /\ Down(d')
    BY StepDown DEF ControlInv
  <1>2. Types' /\ Conversations'
    <2>1. CASE Retry \/ SessionLost \/ Allocate
      BY <2>1, SpreadStep
    <2>2. CASE Die
      BY <2>2, DieStep
    <2>3. ASSUME NEW c \in Client, HandleControlConnect(c) PROVE Types' /\ Conversations'
      BY <2>3, ConnectStep
    <2>4. ASSUME NEW c \in Client, HandleControlSession(c) PROVE Types' /\ Conversations'
      BY <2>4, SessionStep
    <2>5. ASSUME NEW c \in Client, Wackatrl(c) \/ Interrupt(c) PROVE Types' /\ Conversations'
      BY <2>5, WackatrlStep
    <2>6. CASE UNCHANGED vars
      <3>1. Types'
        BY <2>6 DEF vars, ControlInv, Types
      <3>2. ASSUME NEW c \in Client PROVE Conversation(c)'
        <4>1. Conversation(c)
          BY DEF ControlInv, Conversations
        <4>2. UNCHANGED <<d, alive, sess, trl, conn>>
          BY <2>6 DEF vars
        <4> QED BY <4>1, <4>2, Undisturbed
      <3> QED BY <3>1, <3>2 DEF Conversations
    <2> QED BY <2>1, <2>2, <2>3, <2>4, <2>5, <2>6 DEF Next
  <1> QED BY <1>1, <1>2 DEF ControlInv

\* What a run has to read, by where it is.
LEMMA InPlace ==
  ASSUME ControlInv, NEW c \in Client
  PROVE  /\ sess[c].operation = "GET_WACK_STATE" => sess[c].written < Len(sess[c].buffer)
         /\ Len(conn[c].replies) <= Room /\ Len(conn[c].commands) <= 1
         /\ At(c, "connected") \/ At(c, "get") => conn[c].replies = <<>>
         /\ At(c, "result") => Kinds(c) \subseteq {"result"}
         /\ At(c, "size") /\ conn[c].replies # <<>> => Head(conn[c].replies).kind = "size"
         /\ At(c, "table") => Kinds(c) \subseteq {"entry"}
  <1> DEFINE s == sess[c]
             r == trl[c]
             k == conn[c]
  <1>1. PICK V \in SUBSET Vip : Linked(alive, s, r, k, V)
    BY Here
  <1>2. r \in RunType /\ k \in ConnType /\ Talk(alive, s, r, k, V) /\ Sound(alive, s, r, k)
    BY <1>1 DEF Linked
  <1>3. s.operation = "GET_WACK_STATE" => s.written < Len(s.buffer)
    BY <1>2 DEF Sound
  <1>4. Len(k.replies) <= Room
    BY <1>2 DEF Sound
  <1>5. Len(k.commands) <= 1
    <2>1. k.commands = <<>> \/ k.commands = <<r.op>> \/ k.commands = <<"GET_WACK_STATE">>
      BY <1>2 DEF Sound
    <2> HIDE DEF k, r
    <2>2. CASE k.commands = <<>>
      BY <2>2
    <2>3. CASE k.commands = <<r.op>>
      BY <2>3
    <2>4. CASE k.commands = <<"GET_WACK_STATE">>
      BY <2>4
    <2> QED BY <2>1, <2>2, <2>3, <2>4
  <1>6. At(c, "connected") \/ At(c, "get") => k.replies = <<>>
    BY <1>2 DEF At, Talk, Silent
  <1>7. At(c, "result") => Kinds(c) \subseteq {"result"}
    <2>1. At(c, "result") => k.replies = <<>> \/ k.replies = <<Word("result", {})>>
      BY <1>2 DEF At, Talk, Silent, Answering
    <2> QED BY <2>1 DEF Kinds, Word
  <1>8. At(c, "size") /\ k.replies # <<>> => Head(k.replies).kind = "size"
    <2> SUFFICES ASSUME At(c, "size"), k.replies # <<>> PROVE Head(k.replies).kind = "size"
      OBVIOUS
    <2>1. PICK n \in 1..N + 1 : Telling(alive, s, k, V, 0, n)
      <3> HIDE DEF s, k
      <3>1. r.pc = "size"
        BY DEF At
      <3> HIDE DEF r
      <3> QED BY <1>1, <3>1, SizeRead
    <2>2. n \in Nat /\ n >= 1 /\ N \in Nat
      BY SizeOfTable
    <2>3. Head(k.replies) = Word("size", {})
      BY <2>1, <2>2, SizeIsFirst DEF Telling
    <2> QED BY <2>3 DEF Word
  <1>9. At(c, "table") => Kinds(c) \subseteq {"entry"}
    <2> SUFFICES ASSUME At(c, "table") PROVE Kinds(c) \subseteq {"entry"}
      OBVIOUS
    <2>1. PICK n \in 1 + Len(r.got)..N + 1 : Telling(alive, s, k, V, 1 + Len(r.got), n)
      BY <1>2 DEF At, Talk
    <2>2. Len(r.got) \in Nat /\ n \in Nat /\ 1 + Len(r.got) <= n
      BY <1>2, SizeOfTable DEF RunType
    <2> DEFINE m == 1 + Len(r.got)
    <2>3. m \in Nat /\ 1 <= m /\ m <= n /\ k.replies = Part(V, m, n)
      BY <2>1, <2>2 DEF Telling
    <2> HIDE DEF m
    <2>4. k.replies = [i \in 1..(n - m) |-> Word("entry", V)]
      BY <2>2, <2>3, TablePart
    <2>5. \A i \in DOMAIN k.replies : k.replies[i].kind = "entry"
      BY <2>4 DEF Word
    <2> QED BY <2>5 DEF Kinds
  <1> QED BY <1>3, <1>4, <1>5, <1>6, <1>7, <1>8, <1>9

\* What a run has read of the table.
LEMMA OneTable ==
  ASSUME ControlInv, NEW c \in Client
  PROVE  /\ Cardinality(Tables(c)) <= 1
         /\ At(c, "shown") =>
              /\ Len(trl[c].got) = Cardinality(Vip)
              /\ Failing(c) => Tables(c) = {{}}
  <1> DEFINE r == trl[c]
  <1>1. PICK V \in SUBSET Vip : Linked(alive, sess[c], r, conn[c], V) /\ (Failing(c) => V = {})
    BY Here
  <1>2. r \in RunType /\ Talk(alive, sess[c], r, conn[c], V)
    BY <1>1 DEF Linked
  <1>3. r.got = [i \in 1..Len(r.got) |-> Word("entry", V)] /\ Len(r.got) \in Nat
    BY <1>2 DEF Talk, Told, RunType
  <1>4. \A i \in DOMAIN r.got : r.got[i].table = V
    BY <1>3 DEF Word
  <1>5. Tables(c) \subseteq {V}
    BY <1>4 DEF Tables
  <1>6. Cardinality(Tables(c)) <= 1
    <2>1. Tables(c) = {} \/ Tables(c) = {V}
      BY <1>5
    <2>2. Cardinality({V}) = 1 /\ Cardinality({}) = 0
      BY FS_Singleton, FS_EmptySet
    <2> QED BY <2>1, <2>2
  <1>7. ASSUME At(c, "shown") PROVE Len(r.got) = N /\ V \in Tables(c)
    <2>1. Len(r.got) = N
      BY <1>2, <1>7 DEF At, Talk
    <2>2. 1 \in DOMAIN r.got
      BY <1>3, <2>1, SizeOfTable
    <2> QED BY <1>4, <2>1, <2>2 DEF Tables
  <1>8. At(c, "shown") /\ Failing(c) => Tables(c) = {{}}
    BY <1>1, <1>5, <1>7
  <1> QED BY <1>6, <1>7, <1>8 DEF N

-----------------------------------------------------------------------------
(* The theorems. *)

\* The two ends of every connection agree where in a reply they are: what a run of
\* wackatrl reads is the part it waits for (get_state, post_failure and post_success),
\* whatever pieces handle_control_session writes it in and whoever ends first.
THEOREM TypeCorrect == Spec => []TypeOK
  <1>1. Init => ControlInv
    BY InitControl
  <1>2. ControlInv /\ [Next]_vars => ControlInv'
    BY StepControl
  <1>3. ControlInv => TypeOK
    <2> SUFFICES ASSUME ControlInv PROVE TypeOK
      OBVIOUS
    <2>1. d.held \subseteq Vip /\ events \in 0..MaxEvents
      BY DEF ControlInv, Shape, Types
    <2> QED BY <2>1, InPlace DEF TypeOK
  <1> QED BY <1>1, <1>2, <1>3, PTL DEF Spec

\* A table that is shown is whole and of one moment, although set_state_wack_state
\* prepares it once and handle_control_session writes it in pieces while the daemon
\* goes on; and after a failure nobody ends it shows that nothing is held.
THEOREM ShowsCorrect == Spec => []ShowsOneMoment
  <1>1. Init => ControlInv
    BY InitControl
  <1>2. ControlInv /\ [Next]_vars => ControlInv'
    BY StepControl
  <1>3. ControlInv => ShowsOneMoment
    BY OneTable DEF ShowsOneMoment, Failing
  <1> QED BY <1>1, <1>2, <1>3, PTL DEF Spec
=============================================================================
