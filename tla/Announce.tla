-------------------------------- MODULE Announce --------------------------------
(***************************************************************************)
(* How a daemon tells its neighbours that an address has moved             *)
(* (spoofmanager.c), and the ARP cache it does this from (arpcache.c): a   *)
(* daemon samples its own cache and multicasts it, everything received     *)
(* goes into the shared table of module Abt, and whenever a virtual        *)
(* interface comes up a copy of that table is worked off in rounds.        *)
(*                                                                         *)
(* This is the build without threads, the default of configure.in: a round *)
(* is an event of the queue, (0, entry) at once and (1, entry) a second    *)
(* later.  Events interleave with messages, add_abt runs to its end.       *)
(***************************************************************************)
EXTENDS Abt, Sequences, FiniteSets

CONSTANTS
  Vif,          \* the virtual interfaces, indices of Allocation_table
  Vips,         \* Vif -> Seq(Interface): pseudo_if, then the extra_ifs in use
  Notification, \* Notification_table, a sequence
  ArpSource,    \* the kernel interface that configure found, see Sampled
  MaxReport,    \* entries that fit in a message
  KernelCache,  \* bound: caches the kernel may show
  Report,       \* bound: messages of the other daemons
  Overrun,      \* bound: what lies behind the message buffer, read as entries
  MaxReports,   \* bound: messages received
  MaxInvokes    \* bound: calls of invoke_spoofer

\* An address with the physical interface it is on and the size of its network.
Interface == [ip : Nat, dev : STRING, span : Nat \ {0}]

\* "arp" stands for the entries of the ARP cache, "block" for the addresses of a
\* network; throttle is the number of requests in a round, 0 for all of them.
NotificationType ==
  [kind : {"arp", "block"}, net : Interface, throttle : Nat]

ASSUME AnnounceAssumption ==
  /\ 0 \notin Ip
  /\ Vips \in [Vif -> Seq(Interface)] /\ Notification \in Seq(NotificationType)
  /\ ArpSource \in {"proc", "sysctl", "none"}
  /\ MaxReport \in Nat /\ KernelCache \subseteq Seq(Entry) /\ Report \subseteq Seq(Entry)
  /\ Overrun \subseteq Seq(Entry)
  /\ MaxReports \in Nat /\ MaxInvokes \in Nat

VARIABLES
  private,   \* arpcache_private, NoCache before the first sample
  wire,      \* the daemon's last report, until it is delivered to itself
  arps,      \* entries of the report being handled that are still to be added
  astray,    \* the report being handled goes on behind the message buffer
  spoof,     \* arp_spoof_data of each virtual interface
  queue,     \* the codes with which its arp_spoof_notifier is in the event queue
  told,      \* history: requests sent for the last invocation
  due,       \* history: the ARP cache at the last invocation
  clean,     \* history: no round of an earlier invocation was queued then
  reports, invokes   \* number of messages received and of invocations

vars == <<table, private, wire, arps, astray, spoof, queue, told, due, clean, reports, invokes>>

NoCache == <<NoEntry>>
Zero == [ip |-> 0]   \* an entry of the copy that needs no announcement any more

NewSpoof == [cache |-> <<>>, lvif |-> <<>>, todo |-> [i \in DOMAIN Notification |-> 0]]

Init ==
  /\ TableInit
  /\ private = NoCache /\ wire = <<>> /\ arps = <<>> /\ astray = FALSE
  /\ spoof = [v \in Vif |-> NewSpoof] /\ queue = [v \in Vif |-> {}]
  /\ told = [v \in Vif |-> {}] /\ due = [v \in Vif |-> {}]
  /\ clean = [v \in Vif |-> FALSE]
  /\ reports = 0 /\ invokes = 0

-----------------------------------------------------------------------------
(* The ARP cache. *)

\* Mutant: the cache is copied to its end, however long it is.
PrefixUnbounded(s, k) == s

Prefix(s, k) == SubSeq(s, 1, IF Len(s) < k THEN Len(s) ELSE k)

Beginnings(s) == {SubSeq(s, 1, k) : k \in 0..Len(s)}
ReadLines == UNION {Beginnings(c) : c \in KernelCache}

\* sample_arp_cache: /proc/net/arp is read up to the first line that is too short,
\* or cannot be opened and leaves what is known; sysctl shows all entries.  It is
\* assumed that the first sample succeeds (without one the sender has no cache).
Sampled ==
  CASE ArpSource = "proc"   -> ReadLines \cup ({private} \ {NoCache})
    [] ArpSource = "sysctl" -> KernelCache
    [] OTHER                -> {IF private = NoCache THEN <<>> ELSE private}

\* The daemon does one thing at a time, and nothing more after a stray read.
Free == Idle /\ arps = <<>> /\ ~astray

\* Send_local_arp_cache
ShareCache ==
  /\ Free /\ reports < MaxReports /\ wire = <<>>
  /\ private' \in Sampled
  /\ wire' = Prefix(private', MaxReport)
  /\ UNCHANGED <<table, arps, astray, spoof, queue, told, due, clean, reports, invokes>>

\* Handle_arp_cache: the group's reports, one's own among them.
Receive(r) ==
  /\ Free /\ reports < MaxReports
  /\ arps' = r /\ reports' = reports + 1
  /\ UNCHANGED <<table, private, spoof, queue, told, due, clean, invokes>>

ReceiveOwn  == wire # <<>> /\ Receive(wire) /\ wire' = <<>> /\ UNCHANGED astray
ReceivePeer == \E r \in Report : Receive(r) /\ UNCHANGED <<wire, astray>>

\* SP_receive fails after a report: Handle_arp_cache is called once more and takes the
\* error, divided as an unsigned number, for a huge number of entries.  It adds what
\* lies behind the buffer to the table until a signal ends the process.
ReceiveFails ==
  /\ reports > 0 /\ \E r \in Overrun : Receive(r)
  /\ astray' = TRUE
  /\ UNCHANGED wire

\* insert_arp_cache_shared for the next entry of the report.
AddNext ==
  /\ arps # <<>> /\ BeginAdd(Head(arps)) /\ arps' = Tail(arps)
  /\ UNCHANGED <<private, wire, astray, spoof, queue, told, due, clean, reports, invokes>>

Adding ==
  /\ TableStep
  /\ UNCHANGED <<private, wire, arps, astray, spoof, queue, told, due, clean, reports, invokes>>

\* fetch_shared_arp_cache
SharedCopy == [k \in 1..size |-> data[k - 1]]

-----------------------------------------------------------------------------
(* Rounds of announcements. *)

\* The addresses of an interface's network.
Base(a) == a.ip - (a.ip % a.span)
Net(a)  == Base(a)..(Base(a) + a.span - 1)

\* calc_new_cidr: the addresses of two networks, one of which contains the other.
Common(a, b) == Net(a) \cap Net(b)

CountOf(cache) ==
  Cardinality({k \in DOMAIN cache : \A j \in 1..k : cache[j] # Zero})

Quota(n, left) == IF n.throttle = 0 \/ left < n.throttle THEN left ELSE n.throttle

\* Mutant: entries that were announced stay in the copy.
SendArpCacheKeeping(e, a, i) ==
  LET n     == Notification[i]
      count == IF e.todo[i] = -1 THEN CountOf(e.cache) ELSE e.todo[i]
      near  == {k \in 1..count : e.cache[k] # Zero /\ e.cache[k].ip \in Net(a)}
      now   == {k \in near : Cardinality({j \in near : j <= k})
                               <= Quota(n, Cardinality(near))}
  IN  [e EXCEPT !.todo[i] = count, !.sent = @ + Cardinality(now),
                !.told = @ \cup {[from |-> a.ip, to |-> e.cache[k]] : k \in now}]

\* send_arp_spoof_arp_cache: the entries in reach of address a that are left, each
\* with its hardware address; what has been announced is zeroed in the copy.
SendArpCache(e, a, i) ==
  LET n     == Notification[i]
      count == IF e.todo[i] = -1 THEN CountOf(e.cache) ELSE e.todo[i]
      near  == {k \in 1..count : e.cache[k] # Zero /\ e.cache[k].ip \in Net(a)}
      now   == {k \in near : Cardinality({j \in near : j <= k})
                               <= Quota(n, Cardinality(near))}
  IN  [e EXCEPT !.todo[i] = count, !.sent = @ + Cardinality(now),
                !.cache = [k \in DOMAIN @ |-> IF k \in now THEN Zero ELSE @[k]],
                !.told = @ \cup {[from |-> a.ip, to |-> e.cache[k]] : k \in now}]

\* send_arp_spoof_netblock: the addresses of the block in reach of a, counted down.
\* When there are none the block to send to is an uninitialized variable: nothing
\* is sent if its name is empty, and else requests that reach nobody are counted.
SendBlock(e, a, i) ==
  LET n     == Notification[i]
      reach == Common(a, n.net)
      left  == IF e.todo[i] = -1 THEN Cardinality(reach) ELSE e.todo[i]
      k     == Quota(n, left)
      next  == {ip \in reach : Cardinality({j \in reach : j >= ip}) \in (left - k + 1)..left}
      sent  == [e EXCEPT !.todo[i] = left - k, !.sent = @ + k,
                         !.told = @ \cup {[from |-> a.ip, to |-> [ip |-> ip]] : ip \in next}]
  IN  IF e.todo[i] = 0 \/ a.dev # n.net.dev THEN {e}
      ELSE IF reach = {} THEN {e, sent} ELSE {sent}

\* One round: every address of the entry to every notification.
Round(s) ==
  LET N == Len(Notification)
      after[k \in 0..(Len(s.lvif) * N)] ==
        IF k = 0 THEN {[cache |-> s.cache, todo |-> s.todo, sent |-> 0, told |-> {}]}
        ELSE LET a == s.lvif[((k - 1) \div N) + 1]
                 i == ((k - 1) % N) + 1
             IN  UNION {IF Notification[i].kind = "arp" THEN {SendArpCache(e, a, i)}
                                                        ELSE SendBlock(e, a, i) :
                          e \in after[k - 1]}
  IN  after[Len(s.lvif) * N]

\* The first round counts the addresses (after those counted in earlier invocations)
\* and what there is to do.
Begun(s, v) ==
  [s EXCEPT !.lvif = @ \o Vips[v], !.todo = [i \in DOMAIN Notification |-> -1]]

\* Mutant: another round only if this one began with the first.
QueuedOnce(Q, code, sent) == IF sent > 0 /\ code = 0 THEN Q \cup {1} ELSE Q

\* The queue after a round that sent something; an event is there at most once.
Requeued(Q, code, sent) == IF sent > 0 THEN Q \cup {1} ELSE Q

\* arp_spoof_notifier(code, VE) is due.
Notify(v, code) ==
  /\ Free /\ code \in queue[v]
  /\ LET s == IF code = 0 THEN Begun(spoof[v], v) ELSE spoof[v]
     IN  \E e \in Round(s) :
           /\ spoof' = [spoof EXCEPT ![v] = [s EXCEPT !.cache = e.cache, !.todo = e.todo]]
           /\ queue' = [queue EXCEPT ![v] = Requeued(@ \ {code}, code, e.sent)]
           /\ told' = [told EXCEPT ![v] = @ \cup e.told]
  /\ UNCHANGED <<table, private, wire, arps, astray, due, clean, reports, invokes>>

\* invoke_spoofer, for Acquire and force_reup.  cancel_spoofer takes a first round
\* out of the queue that has not begun, a later one stays.
Invoke(v) ==
  /\ Free /\ invokes < MaxInvokes
  /\ invokes' = invokes + 1
  /\ spoof' = [spoof EXCEPT ![v].cache = SharedCopy]
  /\ queue' = [queue EXCEPT ![v] = @ \cup {0}]
  /\ told' = [told EXCEPT ![v] = {}]
  /\ due' = [due EXCEPT ![v] = {data[i] : i \in 0..(size - 1)}]
  /\ clean' = [clean EXCEPT ![v] = 1 \notin queue[v]]
  /\ UNCHANGED <<table, private, wire, arps, astray, reports>>

Next ==
  \/ ShareCache \/ ReceiveOwn \/ ReceivePeer \/ ReceiveFails \/ AddNext \/ Adding
  \/ \E v \in Vif : Invoke(v) \/ \E code \in {0, 1} : Notify(v, code)

Spec == Init /\ [][Next]_vars

\* The event loop fires what is due, and add_abt returns.
Fairness ==
  /\ WF_vars(AddNext) /\ WF_vars(Adding)
  /\ \A v \in Vif, code \in {0, 1} : WF_vars(Notify(v, code))

FairSpec == Spec /\ Fairness

-----------------------------------------------------------------------------
(* Properties. *)

\* The variables have their types, a report fits in the buffer Mess, and no count of
\* entries left goes beyond the copy it counts, which a later invocation may replace.
TypeOK ==
  /\ private \in Seq(Entry) \cup {NoCache} /\ wire \in Seq(Entry) /\ arps \in Seq(Entry)
  /\ Len(wire) <= MaxReport /\ astray \in BOOLEAN
  /\ queue \in [Vif -> SUBSET {0, 1}]
  /\ \A v \in Vif :
       /\ spoof[v].cache \in Seq(Entry \cup {Zero}) /\ spoof[v].lvif \in Seq(Interface)
       /\ spoof[v].todo \in [DOMAIN Notification -> Nat \cup {-1}]
       /\ \A i \in DOMAIN Notification :
            Notification[i].kind = "arp" => spoof[v].todo[i] <= Len(spoof[v].cache)

\* What address a of a virtual interface with ARP cache C has to announce to n.
Targets(a, n, C) ==
  IF n.kind = "arp" THEN {e \in C : e.ip \in Net(a)}
  ELSE IF a.dev = n.net.dev THEN {[ip |-> ip] : ip \in Common(a, n.net)} ELSE {}

\* "do notifications for all VIPs in the VIF.  We iterate across each notification
\* and spoofs each VIP for that notification" (spoofmanager.c:64-66): when the rounds
\* of an invocation are over, every address has been announced to every neighbour it
\* can reach, however few requests a round may send.
EachVipTold ==
  \A v \in Vif : clean[v] /\ queue[v] = {} =>
    \A k \in DOMAIN Vips[v], i \in DOMAIN Notification :
      \A t \in Targets(Vips[v][k], Notification[i], due[v]) :
        [from |-> Vips[v][k].ip, to |-> t] \in told[v]

\* The rounds come to an end: what is announced is not announced again.
RoundsEnd == \A v \in Vif : queue[v] # {} ~> queue[v] = {} \/ astray
=============================================================================
