-------------------------------- MODULE Control --------------------------------
(***************************************************************************)
(* Sessions of the operator: wackatrl -l, -f and -s, each with one         *)
(* connection to the control socket, and the handlers of control.c, which  *)
(* write a reply in pieces while the daemon goes on.  The daemon is what   *)
(* Daemon.tla says of it, reduced to its session with Spread, spread_lock  *)
(* and the interfaces it holds.                                            *)
(***************************************************************************)
EXTENDS Integers, Sequences, FiniteSets

CONSTANTS
  Client,    \* runs of wackatrl
  Asked,     \* what they may be run for: functions from Client to Command
  Vip,       \* virtual interfaces
  Room,      \* bytes of a connection, counted in words of a reply
  MaxEvents  \* bound: sessions with Spread lost or refused, and changes of the group

ASSUME ControlAssumption ==
  /\ Room \in Nat \ {0} /\ MaxEvents \in Nat
  /\ IsFiniteSet(Vip) /\ Vip # {}

Command == {"GET_WACK_STATE", "WACK_SERVICE_FAILURE", "WACK_SERVICE_SUCCESS"}

ASSUME AskedAssumption == Asked \subseteq [Client -> Command]

VARIABLES
  d,       \* the daemon
  alive,   \* its process runs
  events,
  sess,    \* its sessions with wackatrl, by connection
  trl,     \* the runs of wackatrl
  conn     \* the connections

vars == <<d, alive, events, sess, trl, conn>>

\* A reply: a word before the table (its size, or the result), and the table.
Word(kind, table) == [kind |-> kind, table |-> table]
Reply == [kind : {"size", "result", "entry"}, table : SUBSET Vip]

NoSession == [open |-> FALSE, state |-> "READ_FD", mask |-> "READ_FD", operation |-> "READ_COMMAND",
              buffer |-> <<>>, written |-> 0]

\* The daemon has made its first attempt to connect; it knows its interfaces.
Init ==
  /\ d \in [session : {"none"}, lock : {FALSE}, held : {{}}, retry : {TRUE}]
             \cup [session : {"even"}, lock : {FALSE}, held : {{}}, retry : {FALSE}]
  /\ alive = TRUE /\ events = 0
  /\ sess = [c \in Client |-> NoSession]
  /\ trl \in {[c \in Client |-> [op |-> f[c], pc |-> "start", got |-> <<>>]] : f \in Asked}
  /\ conn = [c \in Client |-> [open |-> FALSE, accepted |-> FALSE, commands |-> <<>>, replies |-> <<>>]]

-----------------------------------------------------------------------------
(* The daemon (wackamole.c), the outcomes of a call with the events it takes. *)

Outcome(e, n) == [d |-> e, events |-> n]

Another(session) == IF session = "even" THEN "odd" ELSE "even"

\* Mutant: the lock is not looked at.
SpreadReconnectUnlocked(e) ==
  {Outcome([e EXCEPT !.held = {}, !.session = Another(@)], 0),
   Outcome([e EXCEPT !.held = {}, !.session = "none", !.retry = TRUE], 1)}

\* Spread_reconnect: everything is dropped, then another session is tried for; an
\* attempt that is already in the event queue stays there.
SpreadReconnect(e) ==
  LET retry == [e EXCEPT !.held = {}, !.session = "none", !.retry = TRUE]
  IN  IF e.lock THEN {Outcome(retry, 0)}
      ELSE {Outcome([e EXCEPT !.held = {}, !.session = Another(@)], 0), Outcome(retry, 1)}

Become(S) ==
  \E o \in S :
    /\ d' = o.d /\ events' = events + o.events
    /\ events' <= MaxEvents

\* Mutant: an attempt that is made stays in the queue.
RetryForever == alive /\ d.retry /\ Become(SpreadReconnect(d)) /\ UNCHANGED <<alive, sess, trl, conn>>

\* The queued attempt is made.
Retry ==
  /\ alive /\ d.retry /\ Become(SpreadReconnect([d EXCEPT !.retry = FALSE]))
  /\ UNCHANGED <<alive, sess, trl, conn>>

\* The session with Spread is lost.
SessionLost ==
  /\ alive /\ d.session # "none"
  /\ Become({Outcome(o.d, o.events + 1) : o \in SpreadReconnect(d)})
  /\ UNCHANGED <<alive, sess, trl, conn>>

\* The group gives the daemon other interfaces, while it has a session.
Allocate ==
  /\ alive /\ d.session # "none" /\ events < MaxEvents /\ events' = events + 1
  /\ \E V \in SUBSET Vip : V # d.held /\ d' = [d EXCEPT !.held = V]
  /\ UNCHANGED <<alive, sess, trl, conn>>

\* The daemon exits; what was written to a connection can still be read from it.
Die ==
  /\ alive /\ alive' = FALSE
  /\ d' = [d EXCEPT !.held = {}, !.session = "none", !.retry = FALSE]
  /\ sess' = [c \in Client |-> NoSession]
  /\ UNCHANGED <<events, trl, conn>>

-----------------------------------------------------------------------------
(* The handlers of control.c. *)

\* handle_control_connect
HandleControlConnect(c) ==
  /\ alive /\ trl[c].pc # "start" /\ ~conn[c].accepted
  /\ sess' = [sess EXCEPT ![c] = [NoSession EXCEPT !.open = TRUE]]
  /\ conn' = [conn EXCEPT ![c].accepted = TRUE]
  /\ UNCHANGED <<d, alive, events, trl>>

\* Mutant: the connection is never waited on for writing.
SetEventMaskOnce(s) == [s EXCEPT !.mask = "READ_FD"]

SetEventMask(s) == [s EXCEPT !.mask = s.state]

\* Mutant: the reply does not begin with its size.
TableReplyBare(held) == [i \in 1..Cardinality(Vip) |-> Word("entry", held)]

\* The table, one word for each interface: all of it as it is now.
TableReply(held) ==
  <<Word("size", {})>> \o [i \in 1..Cardinality(Vip) |-> Word("entry", held)]

\* set_state_wack_state
SetStateWackState(s, e) ==
  [s EXCEPT !.state = "WRITE_FD", !.buffer = TableReply(e.held), !.written = 0]

\* set_state_wack_service_state: the lock, and a new session unless it is set.
ServiceState(s, e) ==
  SpreadReconnect(IF s.operation = "WACK_SERVICE_FAILURE"
                  THEN [e EXCEPT !.lock = TRUE, !.session = "none", !.held = {}]
                  ELSE [e EXCEPT !.lock = FALSE])

\* Mutant: the connection is waited on for good.
CloseSessionDetached(c) == sess' = [sess EXCEPT ![c].state = "READ_FD"] /\ UNCHANGED <<d, events, conn>>

\* close_clean
CloseSession(c) == sess' = [sess EXCEPT ![c] = NoSession] /\ UNCHANGED <<d, events, conn>>

\* READ_FD: a command is read and carried out, and its reply prepared; at the end of
\* the connection the session is closed.
ReadCommand(c) ==
  LET s == [sess[c] EXCEPT !.operation = Head(conn[c].commands)] IN
  IF conn[c].commands = <<>> THEN ~conn[c].open /\ CloseSession(c)
  ELSE
    /\ conn' = [conn EXCEPT ![c].commands = Tail(@)]
    /\ IF s.operation = "GET_WACK_STATE"
       THEN /\ sess' = [sess EXCEPT ![c] = SetEventMask(SetStateWackState(s, d))]
            /\ UNCHANGED <<d, events>>
       ELSE /\ sess' = [sess EXCEPT ![c] = SetEventMask([s EXCEPT !.state = "WRITE_FD"])]
            /\ Become(ServiceState(s, d))

\* Mutant: what is still to be written is taken from the table again.
PieceNow(s, k) == SubSeq(TableReply(d.held), s.written + 1, s.written + k)

Piece(s, k) == SubSeq(s.buffer, s.written + 1, s.written + k)

Finished(s) == [s EXCEPT !.operation = "READ_COMMAND", !.state = "READ_FD", !.buffer = <<>>, !.written = 0]

\* WRITE_FD: as much of the reply as there is room for is written; when all of it is,
\* the next command is waited for.  A connection that was closed is an error.
WriteReply(c) ==
  LET s    == sess[c]
      room == Room - Len(conn[c].replies)
      all  == Len(s.buffer) - s.written
  IN  IF ~conn[c].open THEN CloseSession(c)
      ELSE IF s.operation = "GET_WACK_STATE"
      THEN \E k \in 1..room :
             /\ k <= all
             /\ conn' = [conn EXCEPT ![c].replies = @ \o Piece(s, k)]
             /\ sess' = [sess EXCEPT ![c] = IF k < all THEN [s EXCEPT !.written = @ + k]
                                            ELSE SetEventMask(Finished(s))]
             /\ UNCHANGED <<d, events>>
      ELSE /\ room > 0
           /\ conn' = [conn EXCEPT ![c].replies = Append(@, Word("result", {}))]
           /\ sess' = [sess EXCEPT ![c] = SetEventMask(Finished(s))]
           /\ UNCHANGED <<d, events>>

\* handle_control_session, run for what the connection is waited on.
HandleControlSession(c) ==
  /\ alive /\ sess[c].open
  /\ \/ sess[c].mask = "READ_FD"  /\ (conn[c].commands # <<>> \/ ~conn[c].open)
     \/ sess[c].mask = "WRITE_FD" /\ (Len(conn[c].replies) < Room \/ ~conn[c].open)
  /\ IF sess[c].state = "READ_FD" THEN ReadCommand(c) ELSE WriteReply(c)
  /\ UNCHANGED <<alive, trl>>

-----------------------------------------------------------------------------
(* wackatrl. *)

At(c, pc) == trl[c].pc = pc
Move(c, pc) == trl' = [trl EXCEPT ![c].pc = pc] /\ UNCHANGED <<d, alive, events, sess>>

\* cli_conn: the connection is there, accepted or not, if there is a daemon.
CliConn(c) ==
  /\ At(c, "start")
  /\ IF alive THEN Move(c, "connected") /\ conn' = [conn EXCEPT ![c].open = TRUE]
              ELSE Move(c, "error") /\ UNCHANGED conn

Post(c, operation, pc) ==
  IF alive THEN Move(c, pc) /\ conn' = [conn EXCEPT ![c].commands = Append(@, operation)]
           ELSE Move(c, "error") /\ UNCHANGED conn

\* post_failure and post_success write the command and wait for the result.
PostService(c) == At(c, "connected") /\ trl[c].op # "GET_WACK_STATE" /\ Post(c, trl[c].op, "result")

\* get_state: at once, or after the result.
AskState(c) ==
  /\ At(c, "get") \/ (At(c, "connected") /\ trl[c].op = "GET_WACK_STATE")
  /\ Post(c, "GET_WACK_STATE", "size")

\* The first word of a reply is read; at the end of the connection that is an error.
ReadWord(c) ==
  /\ At(c, "result") \/ At(c, "size")
  /\ IF conn[c].replies = <<>> THEN ~alive /\ Move(c, "error") /\ UNCHANGED conn
     ELSE /\ Move(c, IF At(c, "result") THEN "get" ELSE "table")
          /\ conn' = [conn EXCEPT ![c].replies = Tail(@)]

\* The table is read until there is nothing to read of it.  At the end of the
\* connection read returns 0, and the loop goes on.
ReadTable(c) ==
  /\ At(c, "table") /\ Len(trl[c].got) < Cardinality(Vip) /\ conn[c].replies # <<>>
  /\ trl' = [trl EXCEPT ![c].got = @ \o conn[c].replies]
  /\ conn' = [conn EXCEPT ![c].replies = <<>>]
  /\ UNCHANGED <<d, alive, events, sess>>

\* The table is shown and the connection closed.
Show(c) ==
  /\ At(c, "table") /\ Len(trl[c].got) >= Cardinality(Vip)
  /\ Move(c, "shown") /\ conn' = [conn EXCEPT ![c].open = FALSE, ![c].replies = <<>>]

\* wackatrl is interrupted.
Interrupt(c) ==
  /\ ~At(c, "start") /\ conn[c].open
  /\ Move(c, "error") /\ conn' = [conn EXCEPT ![c].open = FALSE, ![c].replies = <<>>]

Wackatrl(c) == CliConn(c) \/ PostService(c) \/ AskState(c) \/ ReadWord(c) \/ ReadTable(c) \/ Show(c)

Next ==
  \/ Retry \/ SessionLost \/ Allocate \/ Die
  \/ \E c \in Client : HandleControlConnect(c) \/ HandleControlSession(c)
  \/ \E c \in Client : Wackatrl(c) \/ Interrupt(c)

Spec == Init /\ [][Next]_vars

\* E_handle_events serves every connection and timer that is ready; processes run.
Fairness ==
  /\ WF_vars(Retry)
  /\ \A c \in Client :
       WF_vars(HandleControlConnect(c)) /\ WF_vars(HandleControlSession(c)) /\ WF_vars(Wackatrl(c))

FairSpec == Spec /\ Fairness

-----------------------------------------------------------------------------
(* Properties. *)

Kinds(c) == {conn[c].replies[i].kind : i \in DOMAIN conn[c].replies}

\* What a run of wackatrl reads next is the part of the reply it waits for: the two
\* ends of a connection agree where in a reply they are, however it was written.
TypeOK ==
  /\ d.held \subseteq Vip /\ events \in 0..MaxEvents
  /\ \A c \in Client :
       /\ sess[c].operation = "GET_WACK_STATE" => sess[c].written < Len(sess[c].buffer)
       /\ Len(conn[c].replies) <= Room /\ Len(conn[c].commands) <= 1
       /\ At(c, "connected") \/ At(c, "get") => conn[c].replies = <<>>
       /\ At(c, "result") => Kinds(c) \subseteq {"result"}
       /\ At(c, "size") /\ conn[c].replies # <<>> => Head(conn[c].replies).kind = "size"
       /\ At(c, "table") => Kinds(c) \subseteq {"entry"}

\* While a failure is simulated the daemon has no session and holds nothing: no
\* attempt queued before it, no other fault and no other run of wackatrl ends it.
FailedServesNothing == d.lock => d.session = "none" /\ d.held = {}

\* The tables a run of wackatrl is shown, one for each word it has read.
Tables(c) == {trl[c].got[i].table : i \in DOMAIN trl[c].got}

\* The table that is shown is whole and the table of one moment, also when it was
\* written in pieces while the daemon's changed; after a simulated failure that nobody
\* ends it shows that nothing is held.
ShowsOneMoment ==
  \A c \in Client :
    /\ Cardinality(Tables(c)) <= 1
    /\ At(c, "shown") =>
         /\ Len(trl[c].got) = Cardinality(Vip)
         /\ (trl[c].op = "WACK_SERVICE_FAILURE" /\ \A b \in Client : trl[b].op # "WACK_SERVICE_SUCCESS")
              => Tables(c) = {{}}

Ended(c) == At(c, "shown") \/ At(c, "error")

\* Every run of wackatrl ends, but for one that is reading the table when the daemon
\* exits.
ClientEnds == \A c \in Client : <>(Ended(c) \/ (~alive /\ At(c, "table")))

\* The daemon frees the session of every run that has ended.
SessionsEnd == \A c \in Client : [](Ended(c) => <>~sess[c].open)

\* A daemon that runs on after failures are no longer simulated takes part again, in
\* one session: no attempt left in the queue goes on breaking the sessions off.
Participates ==
  <>[](alive /\ ~d.lock) => <>[](d.session # "none") /\ <>[][d'.session = d.session]_d
=============================================================================
