# A verification development for wackamole

Wackamole keeps a set of public ("virtual") IP addresses served by a cluster of hosts.  One
daemon runs on each host.  The daemons are members of one Spread group; from the membership
changes and messages that Spread delivers in the same order to everybody, each daemon computes,
without further negotiation, the table that says which daemon serves which address, and brings
its own interfaces up and down accordingly.

This directory models the daemon's allocation automaton, the cluster made of several of them, the
machine and the operator's sessions below and beside one daemon, its configuration, and the
announcements it makes to its neighbours, in TLA+; checks them with TLC on small instances; and proves
facts about them, for every value of their constants, with TLAPS.  `PROJECT.json` is the index: components, runs, mutants,
the source lines of every definition, findings, hazards and theorems.

- [1. The system](#1-the-system)
- [2. Modules](#2-modules)
- [3. What is abstracted](#3-what-is-abstracted)
- [4. Runs](#4-runs)
- [5. Fairness](#5-fairness)
- [6. Proofs](#6-proofs)
- [7. Findings](#7-findings)
- [8. Not modelled](#8-not-modelled)

## 1. The system

| component | source | state | operations | talks to |
|---|---|---|---|---|
| allocation automaton | `wackamole.c`, `defines.h` | `State` (BOOT, RUN, GATHER), `Maturity`, `Old_maturity`, `Gid`, `My_index`, `Num_pending_states`, `Members[]`, `Allocation_table`, `Old_table`, `My.num_allocated`, `Mbox`, `spread_lock` | `Handle_network`, `Handle_membership`, `Handle_state`, `Handle_mature`, `Handle_balance`, `Priority_claim`, `Claim_unclaimed`, `Acquire`, `Release`, `Handle_Post_Release`, `Clean_up`, `Spread_reconnect`, `Turn_mature`, `Balance`, `Send_state_message`, `Send_local_arp_cache`, `Sig_handler` | Spread, the event queue, the interface drivers, the notifier, user functions |
| control session | `control.c`, `apue.c` | one `control_state` per connection: what it waits for, the command, the reply and how much of it is written | accept, read a command (`-f`, `-s`, state report), write the reply in pieces, close | the automaton (`Spread_reconnect`, `Allocation_table`), `wackatrl` |
| `wackatrl` client | `wackatrl.c`, `apue.c` | how much of a reply it has read | connect, send a command, read the reply, show it | control session |
| ARP spoofing notifier | `spoofmanager.c` | `arp_spoof_data` of each virtual interface: addresses, a copy of the ARP cache, what is left for each notification; its events | invoke, cancel, round | the automaton (`Acquire`, `Clean_up`), the shared ARP cache, the neighbours |
| shared ARP cache | `arpcache.c`, `abt.c` | the daemon's own cache; a sorted table of the group's | sample, send, add (binary search), copy | the kernel, the automaton (messages), the notifier |
| interface drivers | `ife*.c` | none of its own: the kernel's addresses | list, up, down; send a request | the kernel |
| configuration | `configuration.c`, `config_gram.y`, `config_gram.l` | `Allocation_table` (addresses), `Num_pseudo`, `Prefer_address`, `Notification_table`, intervals; `iplistn` | read a file at start | everybody reads it |
| hooks | `userloader.c`, `perl.c` | the registered functions | register, run those of an event | `Acquire`, `Release` call them |
| alarms, options, platform | `alarm.c`, `getopt_long.c`, `win32.c` | - | logging, `wack_alarm(EXIT)` | everybody calls them |
| Spread (external) | used by `wackamole.c` | views, queued messages, the event queue | connect, join, multicast, receive, disconnect | the automaton |

**How a configuration is agreed.**  A membership message puts the daemon in GATHER: it freezes
what it served as `Old_table` (unless it is already gathering), clears the allocation table and
multicasts a state message with what it held.  Everybody's state messages come in one order; an
address claimed twice goes to the claim with the higher priority, or to the later of two
preferences, and whoever lost it releases it while it handles the message.  With the last state
message a mature daemon claims the preferred and the unclaimed addresses by a deterministic rule
(`Priority_claim`, `Claim_unclaimed`) and runs; an immature one waits in BOOT for its timer or
for the maturity of another.  While it runs, the first member of the view moves addresses, a few
per round, from the fullest member to the emptiest (`Balance`), by a message everybody applies.

**What is hard.**  All decisions are local computations that must agree, from tables filled while
messages come in; a new view may come at any point of a round, also before one's own state
message; `Old_table` has to survive such cascades; maturity arrives in any state; sessions
are lost in the middle of a handler, which goes on in another session than it began in; three
timers (maturing, balancing, retry) must never be lost and never fire in the wrong state; an
operator disconnects the daemon between any two messages; globals of the last message are
looked at after a receive that failed.

**What makes each component correct.**

- *automaton*: what is up is what the tables say (`UpMatchesTable`), and is counted
  (`CountMatchesTable`, the `assert` of `Send_state_message`); every step keeps the promises of an
  abstract service (`KeepsService`): nothing is acquired before the decision; nothing is held by an
  immature daemon (`ImmatureServesNothing`) or outside a view (`ServesInView`); the
  count of pending state messages is exact (`PendingCountsMissing`); timers are queued exactly when
  they have to be (`MatureArmed`, `BalanceArmed`).
- *cluster*: members agree on the table (`Agreement`), every address of a settled component is
  served exactly once (`CoveredOnce`), no balance message is applied to another view's table
  (`BalanceInItsView`), components settle and balance (`EventuallySettles`,
  `EventuallyBalanced`).
- *machine*: the kernel has exactly the addresses of the interfaces the daemon owns, whatever was
  refused, interrupted or crashed before (`KernelMatches`, `ExitLeavesNothing`); the machine's own
  addresses are never touched (`BystandersKept`); user functions have heard the truth last
  (`HooksFollow`).
- *configuration*: every interface has the addresses written for it (`VifsRead`), and the other tables
  say what was written, or what they said before the file was read (`ReadsAsWritten`).
- *control session*: both ends agree where in a reply they are (`TypeOK`), a table is shown whole and
  of one moment (`ShowsOneMoment`), every session ends at both ends (`ClientEnds`, `SessionsEnd`), a
  simulated failure lasts until it is ended and then ends (`FailedServesNothing`, `Participates`).
- *notifier*: every address is announced to every neighbour it can reach (`EachVipTold`), and rounds
  come to an end (`RoundsEnd`).
- *ARP cache*: the sorted table is a finite map (`Sorted`, `HoldsAdded`), until the memory before it is
  taken in; addresses are kept even then.

## 2. Modules

| module | what it is |
|---|---|
| `Service` | What one daemon promises to its cluster: the abstract specification that `Daemon` implements. |
| `Wackamole` | The handlers of `wackamole.c` as operators. No variables of its own. |
| `Daemon`, `MCDaemon` | One daemon among arbitrary peers: the operators as actions, an adversarial environment, the daemon's properties; its instances for TLC. |
| `Cluster`, `MCCluster` | Several daemons over Spread's ordered views, and the cluster's properties; instances, with a start from a formed cluster. |
| `Abt` | The sorted table of `abt.c`, one step for each turn of the search. |
| `Announce`, `MCAnnounce` | Sharing the ARP cache and announcing virtual interfaces; extends `Abt`. |
| `Config` | What the actions of the grammar make of a file, statement by statement. |
| `Host`, `MCHost` | The machine under one daemon: the kernel, the drivers, and the calls that acquire and release; extends `Config`. |
| `Control`, `MCControl` | Runs of `wackatrl` against the handlers of `control.c`. |
| `WackamoleProofs`, `WackamoleTables` | Lemmas about the operators of `Wackamole`, for any daemon: types, classes of handlers; claims, moves and tables. |
| `DaemonProofs` | Theorems about `Daemon`: its type invariant, three safety properties from one invariant, that it implements `Service`, and that no timer is lost. |
| `DaemonTables` | Theorems about `Daemon`: what is up is what the tables say. |
| `ClusterProofs` | Theorems about `Cluster`: members agree, what is up is what the tables give, every interface is served once; balance messages keep to their view. |
| `AnnounceProofs` | The table of `abt.c` is a map, and so is the daemon's shared ARP cache; rounds leave nobody out. |
| `HostProofs` | Interfaces are read as they are written, user functions hear the truth last, the machine keeps its own addresses, and the kernel ends up with what was decided, whatever it refuses. |
| `ControlProofs` | A simulated failure lasts; what `wackatrl` reads is one moment's table. |

**`Wackamole`.**  The static variables of `wackamole.c` are the fields of one record
(`DaemonType` names the variable of each).  A handler is an operator from the record before to
the *set* of records it may leave; there is more than one where a call to Spread may succeed or
fail, so the error branch of every `SP_multicast`, which reconnects in the middle of the handler
and lets the handler go on, is part of the handler.  What a handler sends, and whether
it ended or began a session, is logged in the field `out`, which the calling module turns into
messages under way.  C arrays of `Num_members` entries are functions on `1..Num_members`;
indices are counted from 1.  Loops whose iterations depend on each other
(`Claim_unclaimed`, the moves of `Handle_balance`, `Balance`) are a predicate on their result
(`IsClaimOrder`), a "last earlier move of the same interface" (`OwnerFound`) and a recursive
function (`BalanceRound`): no `RECURSIVE` operator, which the provers could not handle.  The
operators whose comment begins with "Mutant" are not part of the model; they are the plausible
bugs that the properties are tested against.

**`Daemon`.**  Variables: the daemon `d`; `inView` (the session has delivered a view), `own`
(the daemon's own state message until it is delivered), `heard` (members whose state message
was delivered), `maturing` (a MATURING message under way), and two counters for the bounds.  One
action for each thing that can reach the event loop: a view, the own state message, a peer's, one
of an earlier view, a MATURING message (own or not), a balance message, an ARP message, an error of
`SP_receive`, the four timers, `main`'s first connection, `wackatrl -f` and `-s`, and a signal.
Peers are arbitrary up to three assumptions, each a constant:

- `OneRival`: of two peers in one view at most one claims an address that this daemon holds, at
  least until the daemon's own state message has been delivered (relaxed in `ThreeWayMerge`);
- `FreshMoves`: no move of a balance message gives an address to its owner (rounds that do not
  overlap compute no such move; section 7 has the case that they do);
- `ErrorAfter`: the kinds of message after which `SP_receive` may fail (section 7 has what happens after the others).

An immature peer claims nothing; that is what `ImmatureServesNothing` shows of the daemon itself.

`Service` is the specification of one daemon that the documentation suggests: it is away from the group,
gathers, waits or serves, and what it holds changes only as its phase allows.  `Daemon!Abstract` is the
refinement mapping: the phase follows from the session and `State`, `missing` is the set of members
not heard from, `held` is `up`.

**`Cluster`.**  Variables: the daemons `node`; for each session the last view Spread has queued
(`view`) and what is queued and not yet received (`inbox`).  Any set of `Components` of connected
daemons may form the next view at any time; a new view is a message in the inboxes of its members,
after the messages of the view before.  Daemon actions are those of the event loop.

**`Abt`, `Announce`.**  `data` and `size` are the array of `abt.c`, `f`, `l` and `arg` the locals and the
argument of `add_abt`; `Probe`, `Replace` and `Insert` are one turn of its loop and its two ends.  A new address
below all others is compared with `data[-1]`, the memory before the array: `InsertBefore` is what happens when that
is not lower.  The whole array moves up by one, what was read becomes its first entry, and the new entry is written
where it was read, and `lost` remembers its address.  (With the 64-bit glibc the word read is the upper half of the size that
`malloc` keeps there, zero, on little-endian machines; nothing in the code ensures it.)
`Announce` adds the daemon's cache (`private`), its report until it comes back (`wire`), the report
being handled (`arps`), `arp_spoof_data` of each virtual interface (`spoof`) and the codes with which
`arp_spoof_notifier` is in the event queue (`queue`).  `Notify` is a whole round: every address to every
notification, `SendArpCache` and `SendBlock` being the two loops.  `Sampled` is what `sample_arp_cache` may come back with: from
`/proc` any beginning of the kernel's cache, however long, or what was known; only `ShareCache` cuts it to the size of a message.
`ReceiveFails` is an error of `SP_receive` after a report: `Handle_arp_cache` divides it as an unsigned number and adds
what lies behind the message buffer (`Overrun`) until the process ends, so the daemon does nothing else any more (`astray`).  `told`, `due` and `clean` are history.

**`Config`, `Host`.**  `text` is a file, `cf` the variables of `config_gram.y`, `Read` the actions of the
grammar for one statement (`Apply`).  `VifsAsWritten` and the definitions before it say what a file means,
without the parser; `VariablesAsWritten`, `NotifiedAsWritten`, `PreferredAsWritten` and `HandlersAsWritten` do the same for
times, texts and counts, notifications (destination, throttle, ping), preferences and functions.  What they say of a
variable that is not in the file is what `Usage` and `Wackamole_init` set before the file is read.  `Host` runs a daemon on what was read: `kernel` is the machine, `todo` the calls
that a handler still has to make (`Acquire`, `Release`, `ForceReup`, `CleanUp` are sequences of calls),
`mine` the interfaces whose `real_if` is this daemon's.  `Call` makes one call, `CallFails` is the kernel
refusing it or, in `if_up` on Linux, one of its later requests, which leaves the address up with its netmask or one of the kernel's
choice (`ClassMasks`); `Execute` runs user functions; `Batch` is any decision of the automaton: interfaces that are
released and acquired in some order, and force_reup if any was released.  `Signal` and `Crash` may come
between any two calls.  `ListIps` lists device by device, as `SIOCGIFCONF` does, and stops at `ListLimit` addresses.
`slots` is what earlier calls left in the array of `if_down` on the stack: those of `if_down`, and those of `if_up` if the
compiler puts its array at the same place (`Leaves`).

**`Control`.**  `trl` is where each run of `wackatrl` is and what it has read, `conn` the two directions
of its connection, `sess` the daemon's `control_state` (`mask` is what the event loop waits for).  The
daemon is reduced to its session with Spread, `spread_lock`, the retry in the queue and the interfaces it
holds; module `Daemon` has the rest of it with the same two commands.

## 3. What is abstracted

- *Handlers are atomic.*  Without threads in the notifier (the default of `configure.in`) wackamole is
  single-threaded but for signals.  A signal that interrupts a handler half way is modelled in `Host`, where
  handlers are sequences of calls, and not in `Daemon`.
- *Ordering.*  In `Cluster` a message is put in order when it is sent, in the last view queued for
  the sender's session.  Spread may order it later; the sender's handlers do not depend on when.
  A message sent before Spread has queued the first view is excluded; messages sent by a daemon
  whose session ends afterwards are still delivered or, if posted in the same handler that ends the
  session, lost.
- *Spread's membership causes.*  Regular membership messages are views; transitional ones and
  self-leave have no branch in `Handle_network` that changes state.
- *Errors.*  A call that fails returns either a code that reconnecting handles (-8, -11, -2) or one
  that it does not ("fatal").  `SP_receive` that fails leaves the globals of the last
  message as they were; `ReceiveError` dispatches them again, as the code does.  After an ARP message that is the
  end of the process (`DispatchStale`): it reads on behind its buffer until it gets `SIGSEGV`, whose handler cleans up, or until the
  heap aborts it.
  Whether content is left in `Mess` is tracked for the kinds in `StaleKinds`.
- *Timers.*  `E_queue` replaces an event with the same function, code and data, so a
  timer is a flag.  Intervals are not modelled: a queued timer fires at any time.
- *Interfaces.*  In `Daemon` and `Cluster`, `up` is what was last commanded, and a virtual interface is
  one index; calls that fail, several addresses of an interface and aliases are the subject of `Host`.
- *ARP cache messages* have no content in `Daemon` (no decision reads what they fill) and are left out of
  `Cluster`; `Announce` has them.
- *The notifier.*  An entry of the ARP cache is an address and a hardware address; requests are sent and
  not lost on the way.  The first sample of the cache succeeds (without one `Send_local_arp_cache`
  follows a null pointer).  What lies before the array and behind the message buffer is read as entries with any
  addresses, out of two small sets in the run and any entries in the theorems.  When a block cannot be reached from an address,
  `newcidr` is uninitialized: `SendBlock` allows both what an empty and what another name leads to.
- *Octets and tables* are small by constants in `Config` (`OctetBits`, two octets; `MaxPseudo`, `MaxDep`).
  Broadcast addresses follow from the others and are left out.  A text is a sequence of statements; it is
  well formed.
- *The kernel* is modelled from what the drivers rely on: labels of aliases, secondary addresses of one
  subnet that go with their first (Linux, the reason for `NEEDS_FORCE_REUP`), flags of devices.  `if_up`
  is one step, although it makes five requests to the kernel: signals and crashes between them are left out, failures are
  `CallFails`.  Of what is on the stack below `if_down` only what earlier calls of `if_up` and `if_down` put there is modelled.
- *A connection* carries words, a reply being one word and one more for each interface; at most `Room` are
  on their way to `wackatrl`.  A command is one byte and is read whole.  Writing to a connection that the client has closed
  is an error that ends the session.  `main` neither handles nor ignores `SIGPIPE`; unless libspread ignores it, that write ends the
  process instead, which `Die` allows at any time.
- *Formatting, byte order on the wire, alarms, the pid file* are left out.

## 4. Runs

Runs that pass:

| run | instance | states | what it shows |
|---|---|---|---|
| `DaemonViews` | 1 daemon, views of up to 3 members, 2 interfaces, 2 views, no fault | 711,801 | One daemon and up to two peers per view, two views: the interfaces up are always those the tables give, the state messages are counted exactly, an immature daemon serves nothing, and every step keeps the promises of module Service. Properties: `UpMatchesTable`, `PendingCountsMissing`, `ImmatureServesNothing`, `KeepsService`. |
| `DaemonFaults` | 1 daemon, views of up to 2 members, 2 interfaces, 2 views, 2 faults of any kind | 309,223 | One daemon and a peer, with any two calls to Spread failing (send, connect, fatal code, SP_receive), wackatrl -f/-s and signals at any moment: types, counts, the assertion, cleaning up, the timers, and the promises of module Service. Properties: `TypeOK`, `CountMatchesTable`, `AssertHolds`, `ServesInView`, `MatureArmed`, `BalanceArmed`, `KeepsService`. |
| `DaemonLive` | 1 daemon, views of up to 2 members, 1 interface, 2 views, 2 faults, fairness | 73,673 | One daemon and a peer under fairness, with two faults: a gathered view ends, a lost session is taken up again, and a daemon that keeps its session runs. Properties: `GatherEnds`, `EventuallyRuns`, `Reconnects`. |
| `ClusterThree` | 3 daemons, formed or the third joining, 3 interfaces, any second view | 488,365 | Three daemons in a formed view, or two that the third joins, through maturing, any second view and one balance message under way per daemon: members that received the same messages hold the same tables, and every interface is served exactly once in every settled component. Properties: `TypeOK`, `Agreement`, `CoveredOnce`. |
| `ClusterFair` | 2 daemons, formed, 4 interfaces, one preferred by both, 3 views and events, 1 fault, fairness | 46,188 | Two daemons that prefer the same interface, under fairness, cut, merged, stopped or failing once: a component that stays intact settles, every interface is then served exactly once, no balance message is applied in a view it was not computed in, and the loads come within one of each other. Properties: `UpMatchesTable`, `CoveredOnce`, `BalanceInItsView`, `EventuallySettles`, `EventuallyBalanced`. |
| `Announce` | 1 interface with addresses on 2 networks, 2 reports, 2 invocations, fairness | 209,263 | ARP caches longer than a report are sampled and shared, the memory before the table and behind the message buffer is read as entries, and SP_receive fails after a report, while a virtual interface on two networks is announced twice, one request per round: reports fit in a message, the shared table is ordered and the map of what was received until memory before it is taken in, and when the rounds of an invocation are over every address has been announced to every neighbour, once. Properties: `TypeOK`, `Sorted`, `HoldsAdded`, `EachVipTold`, `RoundsEnd`. |
| `Host` | 2 cards, files of up to 3 interfaces, 4 builds, 2 batches of decisions, 2 faults | 586,557 | The machine under a daemon, on Linux and BPF builds of either byte order: configurations are read, interfaces are acquired, released, brought up again and cleaned up call by call, while the kernel refuses calls or breaks them off, signals interrupt handlers and the process crashes and starts again. Properties: `TypeOK`, `VifsRead`, `ReadsAsWritten`, `KernelMatches`, `ExitLeavesNothing`, `BystandersKept`, `HooksFollow`. |
| `Control` | 2 runs of `wackatrl`, 2 interfaces, 2 events, fairness | 264,793 | Two runs of wackatrl with each pair of commands that meets, over connections that take two words at a time, while sessions with Spread are lost and refused, interfaces change hands, and either side may end: replies, simulated failures and the end of every session. Properties: `TypeOK`, `FailedServesNothing`, `ShowsOneMoment`, `ClientEnds`, `SessionsEnd`, `Participates`. |

Runs that end in a violation (section 7 has what they mean):

| run | property | what it relaxes |
|---|---|---|
| `ThreeWayMerge` | `AssertHolds` | `OneRival` = FALSE: two peers of one view claim the same address |
| `ShortBalance` | `CoveredOnce` | a daemon prefers all addresses but two (`GreedyWish`), rounds of two moves, the sender's buffer is kept (`StaleKinds`) |
| `CutAndMerge` | `CoveredOnce` | three daemons, two of which prefer one address; one is cut off, then merged (`Components`) |
| `SameNetwork` | `EachVipTold` | both addresses of the interface are on one network (`Vips` = `OneNetwork`) |

**Bounds.**  `MaxViews` covers every order of events between two configurations: two views for
the daemon (one that is gathered to the end or not, and one that interrupts or follows it, with
whatever the daemon then holds), three for the cluster (form, cut, merge).  Longer histories
can matter where tables outlive a configuration: `ThreeWayMerge` needs a third view, and the theorems
of section 6 hold for any number.
`MaxMembers = 3` gives a daemon two peers, the least with which two of them can be in conflict
over it.  `NumVip` is the least with which the loads of the instance's members can
differ by two, so that a round has something to move; preference needs one interface more.
`MaxFaults` counts lost or refused sessions: two for the daemon, since a second failure in the
middle of recovering from the first is the interesting one.  `MaxBalances = 1` lets one balance
message be under way from one daemon, which is what `Balance_timeout` normally ensures;
section 7 says what
happens otherwise.  `BalanceRate` is one half or less of the interfaces
(`ConfigAssumption`), as `Wackamole_init` forces it.  `CompleteBalance` (all in one round) is FALSE in
every run: rounds are then repeated, which is the superset of behaviours.  `FormedSpec` starts
from the state that `Init` reaches when all daemons have joined and exchanged state messages and
none is mature: it saves the interleavings of the first view; `JoiningSpec` also
starts with two such daemons, and the third from `Init`.  Addresses of `MCDaemon` are model values; `Cluster` needs an order on
them (Spread lists members in one order), so they are numbers there.  No symmetry is used.
Deadlock is not checked: an exited daemon, a run of `wackatrl` that has ended, or a model at its
bounds, really stops; that nothing stops before is what the liveness properties say.

`Announce`: two networks of four addresses, one virtual interface with an address on each, the caches of
the group one entry and half a network one address at a time; a kernel's cache of two entries where a report takes one
(`MaxReport`), so that the own report is cut off and a peer's, of two entries, is not; two reports, in which an address may be
repeated with another hardware address; one entry to be found before the array, which is above some addresses and below others, and one behind the
buffer; two invocations, so that one meets the rounds of
the other.  Larger tables of `abt.c` are covered by the proofs.  `Host`: octets of two bits, two cards with
an alias of their own below a free one; two daemons' files (three interfaces of which one is a set over
both cards; two sets) and every order of three of fifteen other statements, which are only read;
two batches of decisions, two refusals, calls broken off or crashes, one netmask of the kernel's choice; all four builds for what is read, and one byte order of each
system for what is run (`MCSpec`: nothing in those two files depends on it).  Two batches are what a release after an
acquisition of every pair takes; restarts count as batches.  The listing has room for everything
(`ListLimit`), and sets are shorter than `MaxDep`; section 7 has what happens beyond.  `Control`: a table
of two interfaces is a reply of three words in a connection for two, so that every reply is written in
pieces; two runs of `wackatrl`, and two events (lost or refused sessions, changes of the table).

**Mutants.**  For every property of every passing run `PROJECT.json` names one operator
and a mutated form of it under which the run must fail: a reset that is dropped, a
guard that is lost, a timer that is not queued, a release left out, a table frozen at the wrong
time, a search that skips, a reply taken from the table again.

## 5. Fairness

`Daemon!Fairness`: Spread delivers what was sent in a view that lasts, that is the own state
message, one state message of each peer, and the own MATURING message; the event loop fires the
maturing and retry timers.  `Cluster!Fairness`: a daemon with a message reads it (its `select` loop
runs), and its timers fire.  Views, faults, operators and signals are owed nothing: they
occur or not, finitely often because of the bounds.  That an attempt to connect succeeds in the end
follows only from the bound on refusals: with a Spread daemon that is never there,
`Reconnects` would not hold, nor should it.

- `GatherEnds`: a view is gathered to the end or replaced, whatever else is delivered.
- `Reconnects`: a daemon without a session gets one, unless an operator keeps it away.
- `EventuallyRuns`: a daemon that keeps its session and its view runs for good.
- `EventuallySettles`, `EventuallyBalanced`: a component that stays intact settles, again and
  again, and its members' loads stay within one of each other in the end.
- `Announce!Fairness`: the event loop fires the rounds that are queued, and `add_abt` returns.  `RoundsEnd`
  needs nothing of those who send reports.
- `Control!Fairness`: `E_handle_events` serves every connection and timer that is ready, and a run of
  `wackatrl` goes on while it can.  Operators who interrupt it and whatever ends a session of Spread are
  owed nothing.  `Participates` says what follows if the daemon lives on and nobody simulates failures.

## 6. Proofs

TLAPS checks the proofs of `WackamoleProofs`, `WackamoleTables`, `DaemonProofs`, `DaemonTables`,
`ClusterProofs`, `AnnounceProofs`, `HostProofs` and `ControlProofs`.  Those about the daemon hold for every value of the
constants that satisfies the named assumptions: there is at least one interface
(`VipAssumption`), nobody has no address (`AddressAssumption`), preferences are sets of interfaces and
at most half of them move in a round (`ConfigAssumption`), the daemon's address is one of the
cluster's (`MeAssumption`), the bounds are numbers (`BoundAssumption`; the theorems hold for all of
them, hence for behaviours of any length) and the assumptions about the peers are of their types
(`RelyAssumption`).  Only the theorems of `DaemonTables` need `OneRival` and `FreshMoves`.

What an operator of `Wackamole` does to a daemon is said once, in lemmas about any daemon (`Shape(self, s)`:
`s` has the types and is the daemon of address `self`), and used for `Daemon`'s one daemon.

**`TypeCorrect`: `Spec => []TypeOK`.**  `TypeOK` is inductive.  Its part about the
daemon, `Shape(Me, d)`, is preserved by every operator of `Wackamole`: one lemma for each, in the order of
that module (`SpreadReconnectShape`, `MulticastShape`, ..., `ReceiveErrorShape`, `BalanceTimerShape`).
The delicate ones build functions and lists: the claims of a state message are a function on the
interfaces held; `MergeClaims` writes at the index a message names, which need not be a member's;
an assignment of `Claim_unclaimed` gives an interface to a member that exists; the last move of an
interface is an index of the message (`MovesOfLast`, from `HasMax`); `Balance` names members
that exist.  `TypeStep` then goes through `Next` action by action.

**Three safety properties (`DaemonProofs`).**  One invariant, `SafetyInv`, proves them; `ErrorAfter` is assumed to be
within {"none", "arp"} in all of them: `SP_receive` may fail before any message and after an ARP message, and either may end the
process.  Section 7 has what happens after other messages: the properties fail then, so the assumption cannot be dropped.

| theorem | property |
|---|---|
| `ServesInViewCorrect` | `ServesInView`: what is up is served in a view of the present session; without one, or after an exit through `Clean_up`, nothing is |
| `ImmatureCorrect` | `ImmatureServesNothing`, assuming `~ForceReup` |
| `PendingCorrect` | `PendingCountsMissing`: the count of state messages is exact |

None of the three is inductive.  `SafetyInv` adds what they rest on:

- `SessionInv`: a view belongs to a session, and nothing sent is forgotten between steps;
- `OutsideInv`: outside a view nothing is up, whether or not there is a session.  A handler
  that is cut off by a failing call goes on, sends again and may begin another session; what has to be
  carried through it is that the *first* thing the handler did to the session was to end or begin one,
  and that nothing has come up since (`Ended`, `EndedStays`);
- `FreshInv`: a session begins without maturity;
- `MatureInv`: an immature daemon has nothing up, and in a view RUN means mature.  The second part
  is needed because `Handle_balance` acquires in RUN without looking at `Maturity`;
- `CountInv`: `PendingCountsMissing`, and the daemon's own state message, until it comes back,
  carries the present view and index and its index is among those not heard.  Without that the own
  message could be one the handler ignores, and the count would stop.

Handlers are classified by what they do to the daemon: end its session (`Ended`), keep what the
invariant speaks of (`Kept`: timers and commands), take up a view (`Gathers`), decide (`Decides`:
maturing, balance and late messages) or count (`Counts`: state messages; the set of members not heard
loses one element).  `StepClass` puts every action into its class, and one lemma for each class says that it
preserves the invariant.

**`ServiceCorrect` (`DaemonProofs`).**  `Daemon` implements `Service`: `Spec => KeepsService`,
for `ErrorAfter` within {"none", "arp"} and without `ForceReup`.  The classes are
the actions of `Service`: a session that ends is `Leave` or `Stop` (`EndingServes`), a view that is taken up
is `Join`, a message that decides is `Mature`, `Rebalance` or shows nothing, and a state message is `Hear` or,
when it is the last, `Decide`.  `SafetyInv` gives what the promises are about: the set of members
missing is empty exactly when the daemon does not gather (`MissingCountNext`), what is joined is joined
immature, and an immature daemon ends the gathering with nothing up.

`TypeCorrect`, `ServesInViewCorrect` are checked by TLC in `DaemonFaults`,
`ImmatureCorrect` and `PendingCorrect` in `DaemonViews`, `ServiceCorrect` in both.

**`DaemonProofs`: `MatureArmedCorrect`, `BalanceArmedCorrect`.**  No hypotheses: every kind of error of
`SP_receive`, every peer.  A handler that is cut off by a failing call may go through several sessions, so what is
carried through it (`Armed`) is that an immature daemon with a session has its timer queued, has sent the MATURING
message in the session that it is in at the end, or had sent it before and has not changed the session.  `Queued` is
that RUN comes with the balancing timer; it holds with or without a session, since `Balance` sets RUN again after a
failed multicast.

**`DaemonTables`: `UpCorrect`, `CountCorrect`, `AssertCorrect`.**  For `ErrorAfter` within {"none", "arp"},
`OneRival`, `FreshMoves` and no `ForceReup`; each hypothesis has a run or a finding that shows what happens without it
(`ThreeWayMerge`; section 7).  The three are one argument, `TableInv`:

- `Waiting`: until the own state message comes back what is up is what `Old_table` gives this daemon, no
  entry of the allocation table is its own, and the message on its way claims exactly that (`Claiming`);
- `Gathered`: afterwards an entry that is not a mere preference is its own exactly when it is held;
- `Settled`: when it has decided what is up is its share of the table, and every entry is claimed;
- `Counted`: `My.num_allocated` is the number of interfaces up.  `Release` counts interfaces that are not up, so
  this needs that what is released is up in each phase, and the count is reset where it is not (a new session).

`OwnMerged`, `PeerMergedWaiting` and `PeerMergedGathered` are the delicate lemmas: a state message may give an interface to a new owner, take it from one, and mark a
preference, in the same call in which the daemon's own claims are compared.  `ApplyMoves` is a chain of moves
of which only the last for each interface shows in the table; that what is up follows is
`ApplyMovesSettles`, by the last move that concerns this daemon, and `TurnsBalance` counts the turns.

**`ClusterProofs`: `TypeCorrect`, `BalanceInItsViewCorrect`.**  No hypotheses: for any finite set of daemons and all bounds
(`ClusterAssumption`).  The state of `Cluster` has lost what has been delivered, so the invariant recovers it: there are, by `Inv`,
the members `S[g]` and the log `L[g]` of every view `g`, in which the letters of the view stand in Spread's order, and for each
daemon a list of positions, where it stands and where the letters of its inbox stand (`Delivers`, `Attached`, `Ordered`).  What a
daemon has heard is then read off the log (`Hearing`): it has an entry of `Members[]` exactly under the index of each member
whose state message stands before it, and gathers until it has all.  A member answers a view once, and what it sends after its answer it sends
in this view (`Answers`), because a daemon that has answered the last view ordered for it is in it (`AnsweredGid`).  A daemon in RUN has
heard everybody, so whatever comes next in the log was sent in its view (`HeardAll`): a balance message that was computed in
an earlier view arrives before the answer of its sender, when the receiver still gathers and ignores it.  `HandleCore` is the step of
the composition: a handler changes one daemon, and then its letter goes to every daemon with the same last view.

**`ClusterProofs`: `AgreementCorrect`.**  `Agreement` under `Plain`: no address is preferred, and "balance" is not in
`StaleKinds`, so that a packet that is too short is not read as the last balance message.  Both hypotheses are needed and each has a
run: with a preference members of one view count different loads (`CutAndMerge`; `Agreement` itself fails in
`ClusterFair` as soon as two daemons prefer the same address), and `ShortBalance` is what the buffer does.  Nothing is assumed of the number of daemons, interfaces, views,
faults and balance messages under way.  The argument is replication by a common log.  `TableStep` says what one letter makes
of a table: a state message of the view is merged (`Merged`), a balance message is applied while the member runs (`Moved`), and
when all members have been heard of and somebody is mature (`Runs`) what is unclaimed is given out (`Allots`).  That these
depend on the table and the letter only is the content of the proof, and not on who applies it: the handlers also look at `Old_table`, at
the interfaces held, at `My.preferred` and at what is left in the buffer.  `Tidy` is the invariant of one daemon under which they do
not matter: what has an owner is claimed firmly (`Firm`), nothing is marked as a preference, before RUN the loads are those of the table
(`LoadsTold`), in RUN everything is claimed, and the buffer holds no balance message.  `ReceiveStateTidy`,
`ReceiveMatureTidy`, `ReceiveBalanceTidy` and `ReceiveIdleTidy` (`WackamoleProofs`) are these facts for each kind of message.  `Reaches` chains
the steps from the empty table of a view up to a position, and `Tabled` says of each daemon that its tables are what the log reaches where it stands.
When a member begins to run must be read off the log too: `Matured` says that a member is mature
exactly when a letter up to its position says so, or when it was mature before the view and says so itself in its own state message, which it must receive before
it can run (`TabledRuns`).  Given out is determined by the table (`AllotsUnique`), so all that stand at
one position have one table (`ReachesUnique`), and members of one view with equal inboxes stand at one position (`StandsBefore`).

**`ClusterProofs`: `UpInClusterCorrect`, `CoveredCorrect`.**  `UpMatchesTable` and `CoveredOnce` under `Simple`: `Plain`, and at most one
balance message of a daemon under way (`MaxBalances` <= 1).  The last is needed: the moves of a second message are computed from
a table in which those of the first do not show yet, the first move for an interface may then name the member that has it, and section 7 has the run that
fails.  Nothing is assumed of `ForceReup`.  What a daemon has up depends on its past, which its peers' tables do not show, so what `Serves` adds
to the history is about one daemon in three phases, as in `DaemonTables` but with what `Plain` makes of them: until its own answer comes back, what
it holds in `Old_table` is up and what is up and still free is held (`Expecting`), and the answer that is in the log
claims what is up (`ClaimsUp`); afterwards what is up is what both tables give it (`Holding`); in RUN it is what the table gives it.  An interface that two members claim goes to the one whose
answer stands first in the log, and the other takes it down at its own answer (`OwnExpecting`).  `Balances` says of each balance message of a view that
stands in the log that its moves were computed from the table that the log reaches where it stands (`Computed`): nothing that changes a
table comes between the sending and the place in the log, because what the sender has not received when it sends is no answer (`HeardAll`), no balance message (those of the view are its own, and the bound
allows for none), and a MATURING message changes nothing in RUN.  That such moves bring nothing up that is up is
`BalanceMessagesPlay`: `Balance` is a function that recurses over the moves, and `RoundsExist` and `HasLeast` prove by a least counterexample what would otherwise be induction.
`Backed` (whatever is claimed has an owner in the view) then gives `CoveredOnce`: in a settled component all have one table
(`Agreement`'s argument), each interface has one owner in it, and it is up there and nowhere else.

**`AnnounceProofs`: `TableOrdered`, `TableIsMap`.**  `add_abt` is a state machine of one step per turn of its
loop, so that the search needs no induction.  `TableInv` is inductive: the type of the array,
`Sorted`, what a search that is not over knows (every entry below `f` has a smaller address than the
argument, every entry above `l` a greater one) and `HoldsAdded` between calls.  `InsertKeeps` is the
delicate step: the position that the comparison after the loop chooses divides the table
(`PlaceDivides`), also when `f` or `l` is at an end of it.  `InsertBefore`, the branch in which the memory before the array is not lower than
the new address, is a step like the others: it sets `lost`, after which only that no address disappears remains to be shown
(`AddressesKept`; an array out of order may be searched in vain, and then has an address twice).  Assumed: addresses are numbers, what lies before the array is
read as an entry (`EntryAssumption`), and no entry is not an entry (`NoEntryAssumption`).

**`AnnounceProofs`: `SharedCacheOrdered`, `SharedCacheIsMap`.**  With the types of the reports
(`ReportType`; what lies behind the message buffer is one) every step of `Announce` is a step of `Abt` or changes nothing of the table
(`TableStepOrNone`), so that `TableInv` carries over (`AnnounceAssumption`).

**`AnnounceProofs`: `TypeCorrect`, `EachVipToldCorrect`.**  For any number of interfaces, of addresses of each, of notifications and of
requests in a round, and whatever is sampled and received meanwhile.  A round is a function that recurses over its turns (an address and a notification
each), which a block that cannot be reached makes nondeterministic.  That there is such a function, and that what holds at
its start and is kept by every turn holds at its end, is `AfterExists` and `RoundKeeps`, each by the first turn after which it were
otherwise (`HasLeast`, as the numbers are well-founded).  `Turning` is what holds after `k` turns: what is due is told already or
still in the copy of the cache (`Kept`); the addresses of a block above the count of what is left are told (`CountedDown`); and
if nothing has been sent so far in this round, the turns up to `k` had nothing left to send (`Over`).  So the last round of an invocation,
which is the one that sends nothing, has found everything told (`RoundDone`): every address has its turn with every notification
(`HasTurn`, about `\div` and `%`).  `ToldInv` says which part of this each phase of an invocation has reached.  `EachVipToldCorrect` assumes
`Apart`: two addresses of one virtual interface share no network to which the cache is announced, and no
block that is announced on the device of both.  That holds in the run `Announce`, and `SameNetwork` is what happens otherwise.  An invocation that meets a
later round of the one before is exempt, as in the property (`clean`).

**`HostProofs`: `HooksCorrect`.**  `HooksFollow` for every behaviour in which what was read gives each interface an address
(`EachHasAddress`; an address of zero would end the loops of `Acquire` and `Release` before their first turn, and nothing would be
told).  That condition is a part of `TypeOK` in the run `Host`, for all its texts; it is assumed here, and `RunsApart` below derives it from the text.
Nothing is assumed of the machine, the driver, the number of decisions, refusals and crashes.
A handler is a sequence of calls that are made one at a time, so the invariant `HooksInv` speaks of the calls that are left: for each
interface the last of them that tells anything tells the truth (`Final`), or none tells anything more (`Silent`) and the truth was told last.  That a
loop over interfaces, a concatenation of any number of sequences (`FlattenSeq`), keeps what its turns keep is `FlattensExists` and
`FlattenKeeps`, by the first turn for which it were otherwise (`HasLeast`); `FlattenSilent` and `FlattenFinal` are what follows for the loops of a
handler, and `BatchTells` and `CleaningTells` are the handlers: a decision that releases an interface and acquires it again tells of it twice, in this order.

**`HostProofs`: `BystandersCorrect`.**  `BystandersKept` for any number of addresses of the machine and of the group, on Linux and elsewhere.
It is a consequence of `GroupInv` below, of which the part about the machine is `BystandersInv`: it says that the machine's own addresses stand first in the kernel's list, in their order and on devices
that are up (`OwnFirst`); that what stands behind them is never theirs, and on Linux has none of their names (`Added`); that the calls
that are left are about the group's addresses (`HooksInv`); and that what an earlier call of `if_down` left in its array is the machine's own or
an address that was added once (`Harmless`).  This last part is why the search of the whole array does no harm: an entry that matches carries an address of the group,
so it was added, so its name is none of the machine's.  Two lemmas are about the driver: of `n` addresses that are listed one alias up to `n + 1` is free
(`AliasFree`), and the alias that `if_up` chooses is apart from the machine's own (`AliasApart`), because the listing holds all of those: as long as it is not longer than `ListLimit` it has everything, in whatever order the devices come
(`ListIpsMade`, `Counted`), and it is not, as the kernel has at most one entry for each address (`RoomForAll`).  What the kernel
keeps of its list is `Entries`, the elements at given places; `EntriesKept` says that it keeps a front that is to stay in its place.
Two things are assumed, and each holds in the run `Host`: every device on which the machine has an address has one without an alias (`PrimaryFirst`; `if_up`
takes a device without any for free and would give its own name away); and `GroupFine` of the text: no address
of the group is one of the machine's (such an address would be released with its interface), each belongs to one interface, and the listing has room for the machine's
addresses and the group's together.  Room for the machine's alone is not enough: the group's addresses on one device are listed before the machine's on
the next, and `if_up` takes for free what is cut off.

**`HostProofs`: `VifsCorrect`.**  `VifsRead` for texts of every length and sets of every size.  One thing is assumed, `TextFine`: statements are of
the grammar's kinds, a set has at most `MAX_DEP_IF` addresses, none of them zero (a zero ends the array), and there are at most `MAX_PSEUDO`
interfaces.  It is a part of `TypeOK` in the run `Host`, for all its texts.  The invariant `ParseInv` says where the parser is: of the
interfaces that the text lists (`Listed`), it has read those of the statements before `pos`.  Each of these has the addresses that are written
for it and a zero behind the last (`Holds`), `iplistn` is zero again, and every later interface is still as it was
initialized (`Reads`), which is what keeps a set from inheriting anything.  A statement is a fold over its interfaces; the library's fold is a
function over subsets, so there is first such a function (`FoldsExists`), and then a sequence of intermediate results (`FoldSteps`), of which
`StatementReads` shows by the first one for which it were otherwise that each has read one interface more (`UpFromZero`).
`SetPseudoSets`, `AddExtrasSets` and `CloseGroupSets` are the actions of the grammar, `ReadVifHolds` one interface, `OthersApart` says that the other
statements leave the interfaces alone.  What the text lists grows with the statements in the same way (`ListedExists`, `ListedBegins`).
At the end the loops of `Acquire` and `Release`, which go until a zero or `MAX_DEP_IF`, go through exactly what an interface holds
(`HoldsAddresses`).

**`HostProofs`: `KernelCorrect`, `ExitCorrect`, `TypeCorrect`.**  `KernelMatches`, `ExitLeavesNothing` and `TypeOK` for any number of interfaces and
addresses, on Linux and elsewhere.  Two things are assumed.  `PrimaryFirst` is as above (`TypeCorrect` assumes also that the machine's addresses differ: `OwnFine`).
`GroupFine` is about the text alone: the tables can hold it (`TextFine`), each address belongs to one interface and one device and is not the machine's,
on Linux its device has an address of the machine's (or the first of the group's would take the name of the device, which `if_down` cannot remove but takes the
device down), and `if_list_ips` has room.  `TypeOK` checks `OwnFine` and `GroupFine` in the run `Host`.  That the daemon has the addresses of the
text when it runs is `VifsCorrect`.
From these follows first that a running daemon has interfaces with addresses, and none of the machine's (`RunsApart`): a daemon runs only when it has read its text to the end, so it has the addresses of the text
in this process and in every one after a crash, which is why addresses an earlier process left are this one's to take down (`RunsAsWritten`, `SameTable`).

The invariant `GroupInv` adds to `BystandersInv` that the kernel is `Tidy` (behind the machine's own it has addresses of the group, each once and on
Linux each under a name of its own, so a call of `if_down` that finds one takes that one) and that every address of the group is `Fated`: one that the daemon owns has still
to be brought up with nothing behind that call that could take it (`BringsLast`), or it is there, or refused, and nothing to come could take it (`Unthreatened`); one that it does not
own is not to be brought up and is gone, refused or still to be taken (`StillTakes`).  What could take an address is on Linux *every* call of `if_down`
(`Threatens`): a first address takes the secondary ones of its subnet with it, and a stale entry of the array may name another address than the one asked for.
So the weakest fact that is true is the right one, and the order in which `force_reup` comes behind all releases of a batch is what makes it enough (`BringsLastBehind`).
About the rest of a sequence only which calls it contains matters (`Made`, `MadeFlatten`); `UpMakes`, `AcquireMakes`, `ReleaseMakes`,
`CleanUpMakes` and `ForceReupMakes` say this of the handlers, `BatchFates` and `CleanUpFates` what follows for the fates, and `CallsFate` that a call, made or
refused, leaves every address its fate: `IfUpAdds`, `IfDownBpfRemoves` and `IfDownLinuxRemoves` are the driver, `RoomForAll` (at most as many entries as addresses, by
cardinality) and `ListsAll` that the listing is complete.  A signal or a lost session makes the fate of everything a clean-up, and a clean-up needs no history.
At the end nothing is left to be made, and the fate of an address is its state (`IdleMatches`, `GoneLeavesNothing`).

**`ControlProofs`: `FailureLasts`.**  `Down(d)`, that a daemon under `wackatrl -f` has no session and holds nothing, is inductive with
the types of the daemon's fields (`Shape`).  It does not depend on how many clients there are or on what they send.

**`ControlProofs`: `TypeCorrect`, `ShowsCorrect`.**  For any number of runs of `wackatrl`, of interfaces
(finitely many, at least one: `ControlAssumption`) and of words on their way (`Room`).  `ControlInv` says of each
connection where it is in its conversation (`Conversation`): nothing is asked, the command is on its way or carried
out (`Answering`), or a table is being told (`Telling`): there is one set `V` of interfaces, what the daemon held at one
moment, such that the words read, the words on their way and the words still to be written are the reply that tells `V`,
each in its place.  `V` exists by the invariant and is no variable: a step that carries the command out chooses it.

**What stays with TLC.**  Liveness (fairness and ENABLED are beyond the prover); `Agreement`, `CoveredOnce` and
`UpMatchesTable` of the cluster where addresses are preferred, as far as they hold; and what the parser makes of the
rest of a file, the preferred addresses, notifications and times (`ReadsAsWritten`): the addresses of a block are the counting of a
machine word against a mask of `2^n`, and what they are compared with is a sorting, both beyond the provers' arithmetic.  What
a daemon does after `SP_receive` has failed after a view, a state, a maturing or a balance message is neither proved nor checked beyond
`TypeOK`, `MatureArmed` and `BalanceArmed` (theorems): its promises break then, see section 7.

## 7. Findings

Each is a run that ends in a violation of what the repository's own text says.

- **`ShortBalance`** (`wackamole.c:1034`, code bug): The branch for a member without a movable interface tests j == Num_pseudo inside a loop that ends before it, so the iteration is counted in the message without a move and the receivers read stale bytes of Mess as moves. README:46-48 says "all of the public IP addresses served by the cluster will be covered by exactly one Wackamole instance"; the run ends with interfaces nobody serves.
- **`CutAndMerge`** (`wackamole.c:799`, code bug): Priority_claim adjusts Members[].num_allocated by Old_table, which holds what each member saw in its own last configuration, so two members of one view compute different loads and Claim_unclaimed gives an interface to nobody. README:46-48 says "all of the public IP addresses served by the cluster will be covered by exactly one Wackamole instance".
- **`ThreeWayMerge`** (`wackamole.c:596`, code bug): A losing claim of a peer overwrites Old_table of an interface this daemon still holds without releasing it; a view that arrives before its own state message then aborts the daemon at wackamole.c:724, "assert(ret == My.num_allocated);".
- **`SameNetwork`** (`spoofmanager.c:145`, code bug): left_todo[i], the count of what is left for notification i, and the copy of the ARP cache are shared by all addresses of a virtual interface: the first address on a network counts the block down to zero and zeroes the entries, and the others on that network announce nothing. spoofmanager.c:64-66 says "Spawn a pthread to do notifications for all VIPs in the VIF. We iterate across each notification and spoofs each VIP for that notification".

Further disagreements that the model reproduces but no run is kept for; the constants to change are
given for whoever wants to see the trace.  The automaton:

- `wackamole.c:302`: the dispatch after a failed `SP_receive` repeats the last message.  A repeated
  MATURING matures a daemon that has not waited, against `wackamole.conf.5:58-59` "time interval required before
  an new node becomes mature" (`DaemonFaults` with `ErrorAfter` = {"mature"}, `ServesInView`).  A
  repeated membership, when the reconnection was refused, fails the assertion of
  `Send_state_message` (`ErrorAfter` = {"view"}, `AssertHolds`).  A repeated ARP message ends the process (`wackamole.c:386`,
  `size /= sizeof(arp_entry)` of a negative size), which the runs contain.
- `wackamole.c:799`: members of one view count different loads (`Agreement` fails in `ClusterFair`
  as soon as two daemons prefer the same address).  This is the cause of `CutAndMerge`.
- `wackamole.c:1264`: a call to Spread that fails with another code than -8, -11 and -2 ends the process
  before `Clean_up`, with the interfaces up, although ChangeLog:9 says "Now brings down all its
  virtual interfaces when when it dies." (`DaemonFaults`, `d.exit # "no" => d.up = {}`.)
- `wackamole.c:1260`: a queued retry stays queued when `wackatrl -s` has connected in the meantime,
  fires, and drops the session.  It costs one more reconnection (`Participates` in `Control` shows that it
  ends there).
- `wackamole.c:747`: `Send_local_arp_cache_repeat` queues `Send_local_arp_cache`, which queues nothing: the
  ARP cache is shared twice, and not at the interval of `wackamole.conf.5:62-63` (`DaemonFaults`,
  `ArpArmed`).
- `wackamole.c:972`: with `NEEDS_FORCE_REUP` a release in the middle of a merge brings up every address
  that the half-filled table gives to this daemon (`DaemonViews` with `ForceReup` = TRUE,
  `KeepsService`).
- `wackamole.c:1007`: a round that begins before the message of the last one is back computes its
  moves from a table that the first will change; an address moved twice ends with nobody
  (`ClusterThree` with `MaxBalances` = 2, `CoveredOnce`).

The notifier and the ARP cache:

- `abt.c:66`: an address below all others is compared with `data[-1]`; if that is not lower, it is taken in and the new entry written
  before the array (`Announce`, `lost = {}`).

- `spoofmanager.c:119-129`: `ifcount` is not reset, so the second invocation writes the addresses of the
  interface behind those of the first (`Announce`, `Len(spoof[v].lvif) <= Len(Vips[v])`); with enough
  invocations it leaves the array.
- `spoofmanager.c:54-57`, `:208-210`: later rounds are queued with another code than the one that is
  cancelled; the rounds of a cancelled invocation go on into the next one (`EachVipTold` without the
  conjunct `clean`).

The configuration and the machine:

- `ife-bpf.c:128`, `ife-sockpacket.c:107`: the listing of the kernel's interfaces has room for about 102 entries, and the
  tables for 254 addresses: with more the daemon does not find what it has brought up (`Host` with
  `ListLimit` = 3, `KernelMatches`); and as the devices are listed one after the other, `if_up` can then take for free, and overwrite,
  a name of the machine's own on a later one (`BystandersKept`).
- a card without an address of its own gets the first virtual address on its own name; `if_down` then
  takes the card down, and `if_up` never brings it up again (`Host` without `eth1` in `Own`,
  `KernelMatches`).
- a virtual interface of more than 30 addresses loses the others, while wackamole.conf:39 says "you are
  ensured to get ALL the ips in the set" (`Host` with `MaxDep` = 1, `VifsRead`).
- `wackamole.c:1082-1085`: `Wackamole_init` sets both times to five minutes just before it reads the file, over the 5 and 4 seconds
  that `config_gram.y:32-33` declares.  wackamole.conf.5:59-60 says of `Mature` "The default value is 5s" and
  wackamole.conf.5:44-45 of `Interval` "The default is 4s" (`Host`, `DefaultsAsDocumented`: violated by every file that
  leaves one of them out).
- the unit `h` counts seconds (a text with it, `ReadsAsWritten`).
- a block in `Prefer` is read in the byte order of the machine: on a little-endian one the single form
  prefers the network address only and the brace form compares the wrong octets (wackamole.conf:18-19
  `prefer eth0:10.3.4.5/8`); `Prefer` of a name uses a value the scanner does not set; "AcquisitionsPerRound
  = all" cannot be taken back by a later statement.
- functions for `ON_DOWN` are run once for each address, and also for interfaces that were not up.

The control session:

- the reply that is not yet written is not freed when the client closes in the middle of it.
- `wackatrl` reads for ever when the daemon ends in the middle of a reply (the exemption in
  `ClientEnds`).

## 8. Not modelled

| part | why not |
|---|---|
| notifier with threads | `pthread_cancel` with asynchronous cancellation, of a thread known through copies of its entry, has no defined behaviour to model; `configure.in` builds without threads |
| ARP cache from STREAMS (`arpcache.c:163-259`) | reads uninitialized buffers; which messages the system sends is not in the sources |
| `ife-dlpi.c`, `ife-win32.c`, `win32.c`, the Windows half of `apue.c` | the kernel chooses the aliases or the addresses; what it does is not in the sources |
| packets (`if_send_spoof_request`, `ife-icmp-support.c`), the command `ife` | pure I/O |
| `chk_abt` | nothing calls it |
| tokens of the configuration (`config_gram.l`), host name, options, alarms, the embedded Perl | text, I/O, third-party code |
| build, `t/arptest.c` | no state |

What could follow: the cluster where addresses are preferred.  `CutAndMerge` and `ClusterFair` show that members may then hold different
tables, so that the common log that `Agreement` is proved with is not enough; what can be said is about components that
nobody left or joined since they settled.
