--------------------------------- MODULE Host ---------------------------------
(***************************************************************************)
(* The machine under one daemon: the addresses its kernel has, and the     *)
(* calls of Acquire, Release, force_reup and Clean_up that change them,    *)
(* address by address, for the interfaces read from the configuration.     *)
(* Linux is ife-sockpacket.c, the other build ife-bpf.c.  What the daemon  *)
(* decides (Daemon.tla) is any order of acquisitions and releases here; a  *)
(* signal or a crash may come between any two calls.                       *)
(***************************************************************************)
EXTENDS Config

CONSTANTS
  Own,         \* the addresses of the machine itself: [dev, alias, ip, mask]
  ListLimit,   \* addresses that fit in the buffer of if_list_ips
  ClassMasks,  \* netmasks that the kernel gives an address by itself
  MaxBatches,  \* bound: batches of acquisitions and releases
  MaxFaults,   \* bound: calls to the kernel that fail, and crashes
  Runs         \* bound: the texts of which a daemon is run; the others are only read

ASSUME HostAssumption ==
  /\ Own \in Seq({Own[j] : j \in DOMAIN Own})
  /\ {ListLimit, MaxBatches, MaxFaults} \subseteq Nat /\ Runs \subseteq Texts

VARIABLES
  kernel,  \* external: [list |-> the addresses, down |-> the devices taken down]
  slots,   \* what earlier calls left where if_down has its array ifs
  todo,    \* the calls still to be made
  mine,    \* the interfaces whose real_if is this daemon's in Allocation_table
  phase,   \* "start", "run", "exit" in the signal handler, "gone"
  clean,   \* the process ended by itself, through Clean_up
  last,    \* the last event a user function was told for each interface
  failed,  \* history: addresses whose last call failed in the kernel
  batches, faults

hostVars == <<kernel, slots, todo, mine, phase, clean, last, failed, batches, faults>>
vars == <<build, text, pos, cf, hostVars>>

Vif == 1..cf.n

-----------------------------------------------------------------------------
(* The kernel (external). *)

Subnet(e) == <<e.dev, e.mask, Masked(e.ip, e.mask)>>
Label(e)  == <<e.dev, e.alias>>
Known(k) == {k.list[j] : j \in DOMAIN k.list}

\* What is at the places J, in its order.
Entries(s, J) == FlattenSeq([j \in DOMAIN s |-> IF j \in J THEN <<s[j]>> ELSE <<>>])

\* SIOCSIFADDR and SIOCSIFNETMASK: a label has one address.  Elsewhere (SIOCAIFADDR)
\* every address has a place of its own.
SetAddress(k, e) ==
  [k EXCEPT !.list = Append(IF build.linux THEN Entries(@, {j \in DOMAIN @ : Label(@[j]) # Label(e)}) ELSE @, e)]

\* On Linux the later addresses of a subnet are secondary and go with the first.
Casualties(k, j) ==
  {i \in DOMAIN k.list :
     /\ Subnet(k.list[i]) = Subnet(k.list[j])
     /\ \A h \in 1..(j - 1) : Subnet(k.list[h]) # Subnet(k.list[j])}

Without(k, J) == [k EXCEPT !.list = Entries(@, DOMAIN @ \ J)]

\* SIOCSIFFLAGS without IFF_UP: an alias is removed, a device is taken down.
TakeDown(k, label) ==
  IF label[2] = 0 THEN [k EXCEPT !.down = @ \cup {label[1]}]
  ELSE LET j == CHOOSE i \in DOMAIN k.list : Label(k.list[i]) = label
       IN  Without(k, {j} \cup Casualties(k, j))

Shown(k) == {e \in Known(k) : e.dev \notin k.down}

-----------------------------------------------------------------------------
(* The interface driver. *)

\* SIOCGIFCONF goes device by device, in the order in which the devices got addresses: the
\* places whose entries it has before the one at place j.
Before(k, j) ==
  {i \in DOMAIN k.list :
     \/ k.list[i].dev = k.list[j].dev /\ i < j
     \/ \E h \in 1..i : k.list[h].dev = k.list[i].dev /\ \A l \in 1..h : k.list[l].dev # k.list[j].dev}

\* if_list_ips: of the addresses that the buffer takes those of devices that are up.
ListIps(k) ==
  LET J == {j \in DOMAIN k.list : Cardinality(Before(k, j)) < ListLimit /\ k.list[j].dev \notin k.down}
      ofDevice(j) == {i \in J : /\ k.list[i].dev = k.list[j].dev
                                /\ \A h \in 1..(j - 1) : k.list[h].dev # k.list[j].dev}
  IN  FlattenSeq([j \in DOMAIN k.list |-> Entries(k.list, ofDevice(j))])

Have(list, ip) == \E j \in DOMAIN list : list[j].ip = ip
Aliases(list, dev) == {list[j].alias : j \in {i \in DOMAIN list : list[i].dev = dev}}

\* Mutant: the aliases that are listed are counted, not looked at.
AliasCounted(list, dev) == Cardinality(Aliases(list, dev))

\* The first alias of the device that is not listed, alias 0 apart; the device
\* itself if it has no address.
Alias(list, dev) ==
  LET taken == Aliases(list, dev)
  IN  IF 0 \in taken THEN CHOOSE n \in 1..(Len(list) + 1) : n \notin taken /\ (1..(n - 1)) \subseteq taken
      ELSE 0

Address(ifc, alias) == [dev |-> ifc.dev, alias |-> alias, ip |-> ifc.ip, mask |-> ifc.mask]

\* if_up: nothing is done for an address that is listed.
IfUpLinux(k, ifc) ==
  IF Have(ListIps(k), ifc.ip) THEN k
  ELSE SetAddress(k, Address(ifc, Alias(ListIps(k), ifc.dev)))

IfUpBpf(k, ifc) ==
  IF Have(ListIps(k), ifc.ip) THEN k ELSE SetAddress(k, Address(ifc, 0))

\* Mutant: an address that is there is set again.
IfUpAgain(k, ifc) ==
  SetAddress(k, Address(ifc, IF build.linux THEN Alias(ListIps(k), ifc.dev) ELSE 0))

IfUp(k, ifc) == IF build.linux THEN IfUpLinux(k, ifc) ELSE IfUpBpf(k, ifc)

\* The array that if_down searches to its end: the listing, and behind it what the
\* call before this one left on the stack.
Searched(k) == LET L == ListIps(k) IN L \o SubSeq(slots, Len(L) + 1, Len(slots))

Matches(e, ifc) == e.dev = ifc.dev /\ e.ip = ifc.ip

\* if_down: the first entry of the array that matches and that the kernel knows by
\* its name is taken down.
IfDownLinux(k, ifc) ==
  LET array == Searched(k)
      hits  == {j \in DOMAIN array : Matches(array[j], ifc) /\ \E e \in Known(k) : Label(e) = Label(array[j])}
      first == CHOOSE j \in hits : \A i \in hits : j <= i
  IN  IF hits = {} THEN k ELSE TakeDown(k, Label(array[first]))

\* Elsewhere the first address that is listed is removed, whatever device it is on.
IfDownBpf(k, ifc) ==
  LET there == {j \in DOMAIN k.list : k.list[j].ip = ifc.ip}
  IN  IF ~Have(ListIps(k), ifc.ip) THEN k
      ELSE Without(k, {CHOOSE j \in there : \A i \in there : j <= i})

IfDown(k, ifc) == IF build.linux THEN IfDownLinux(k, ifc) ELSE IfDownBpf(k, ifc)

-----------------------------------------------------------------------------
(* Sequences of calls. *)

Up(i)   == [j \in DOMAIN Addresses(i) |-> [call |-> "up", vif |-> i, ifc |-> Addresses(i)[j]]]
Down(i) == [j \in DOMAIN Addresses(i) |-> [call |-> "down", vif |-> i, ifc |-> Addresses(i)[j]]]
Tell(i, event) == [call |-> event, vif |-> i, ifc |-> NoInterface]

Acquire(i) == Up(i) \o <<Tell(i, "on up")>>

\* Release tells the user functions after every address.
Release(i) == FlattenSeq([j \in DOMAIN Down(i) |-> <<Down(i)[j], Tell(i, "on down")>>])

\* The loops over Allocation_table.
Each(Calls(_), S) == FlattenSeq([i \in Vif |-> IF i \in S THEN Calls(i) ELSE <<>>])

\* Mutant: what goes down with an address is not looked after.
NoReup(M) == <<>>

\* force_reup: what this daemon owns after the batch is brought up again.
ForceReup(M) == IF build.linux THEN Each(Up, M) ELSE <<>>

\* Mutant: what is released while a signal comes is taken for released.
CleanUpMine == Each(Release, mine)

CleanUp == Each(Release, Vif)

-----------------------------------------------------------------------------
(* The process. *)

Init ==
  /\ ConfigInit
  /\ kernel = [list |-> Own, down |-> {}]
  /\ slots = <<>> /\ todo = <<>> /\ mine = {} /\ phase = "start" /\ clean = FALSE
  /\ last = <<>> /\ failed = {} /\ batches = 0 /\ faults = 0

ReadConfig == phase = "start" /\ Read /\ UNCHANGED hostVars

\* Spread_reconnect, called by main, begins with Clean_up.
Start ==
  /\ phase = "start" /\ AllRead /\ text \in Runs
  /\ phase' = "run" /\ todo' = CleanUp
  /\ last' = [i \in Vif |-> "none"]
  /\ UNCHANGED <<build, text, pos, cf, kernel, slots, mine, clean, failed, batches, faults>>

Now == Head(todo)
Idle  == phase = "run" /\ todo = <<>>

\* A call leaves its array on the stack; whether that of if_up is where if_down will have
\* its own is up to the compiler.
Leaves ==
  \/ build.linux /\ slots' = Searched(kernel)
  \/ (Now.call = "up" \/ ~build.linux) /\ slots' = slots

\* The next call is made; what it returns is printed and no more.
Call ==
  /\ todo # <<>> /\ Now.call \in {"up", "down"} /\ todo' = Tail(todo)
  /\ kernel' = IF Now.call = "up" THEN IfUp(kernel, Now.ifc) ELSE IfDown(kernel, Now.ifc)
  /\ Leaves
  /\ failed' = failed \ {Now.ifc.ip}
  /\ UNCHANGED <<build, text, pos, cf, mine, phase, clean, last, batches, faults>>

\* The kernel refuses: if_up and if_down return -1.  On Linux if_up is five requests, and
\* one behind the first that is refused, or a device that is not running, leaves the
\* address up, with its netmask or one of the kernel's choice.
CallFails ==
  /\ todo # <<>> /\ Now.call \in {"up", "down"} /\ todo' = Tail(todo)
  /\ IF Now.call = "up" THEN ~Have(ListIps(kernel), Now.ifc.ip)
                          ELSE Have(ListIps(kernel), Now.ifc.ip)
  /\ faults < MaxFaults /\ faults' = faults + 1
  /\ \/ kernel' = kernel
     \/ /\ Now.call = "up" /\ build.linux
        /\ \E m \in {Now.ifc.mask} \cup ClassMasks : kernel' = IfUp(kernel, [Now.ifc EXCEPT !.mask = m])
  /\ Leaves
  /\ failed' = failed \cup {Now.ifc.ip}
  /\ UNCHANGED <<build, text, pos, cf, mine, phase, clean, last, batches>>

\* execute_all_user: every function registered for the event is run.
Execute ==
  /\ todo # <<>> /\ Now.call \in {"on up", "on down"} /\ todo' = Tail(todo)
  /\ last' = IF \E h \in DOMAIN cf.handlers : cf.handlers[h] = Now.call
             THEN [last EXCEPT ![Now.vif] = Now.call] ELSE last
  /\ UNCHANGED <<build, text, pos, cf, kernel, slots, mine, phase, clean, failed, batches, faults>>

\* The moves of a balance message, or what two claims come to, in their order.
Batch ==
  /\ Idle /\ batches < MaxBatches /\ batches' = batches + 1
  /\ \E n \in 1..cf.n : \E s \in [1..n -> Vif] :
       LET V == {s[j] : j \in 1..n}
           after == (mine \ V) \cup (V \ mine)
       IN  /\ \A j, k \in 1..n : s[j] = s[k] => j = k
           /\ mine' = after
           /\ todo' = FlattenSeq([j \in 1..n |-> IF s[j] \in mine THEN Release(s[j]) ELSE Acquire(s[j])])
                        \o (IF V \cap mine # {} THEN ForceReup(after) ELSE <<>>)
  /\ UNCHANGED <<build, text, pos, cf, kernel, slots, phase, clean, last, failed, faults>>

\* Spread_reconnect.
Reconnect ==
  /\ Idle /\ mine # {} /\ mine' = {} /\ todo' = CleanUp
  /\ UNCHANGED <<build, text, pos, cf, kernel, slots, phase, clean, last, failed, batches, faults>>

\* Sig_handler: whatever was being done is left, also the handler of another signal.
Signal ==
  /\ phase \in {"run", "exit"} /\ phase' = "exit"
  /\ mine' = {} /\ todo' = CleanUp
  /\ UNCHANGED <<build, text, pos, cf, kernel, slots, clean, last, failed, batches, faults>>

Exit ==
  /\ phase = "exit" /\ todo = <<>> /\ phase' = "gone" /\ clean' = TRUE
  /\ UNCHANGED <<build, text, pos, cf, kernel, slots, todo, mine, last, failed, batches, faults>>

\* The process ends where it is: a fatal code of Spread, the assertion, a kill.
Crash ==
  /\ phase \in {"run", "exit"} /\ faults < MaxFaults /\ faults' = faults + 1
  /\ phase' = "gone" /\ clean' = FALSE /\ todo' = <<>> /\ mine' = {}
  /\ UNCHANGED <<build, text, pos, cf, kernel, slots, last, failed, batches>>

\* The daemon is started again, with the same file.
Restart ==
  /\ phase = "gone" /\ batches < MaxBatches
  /\ phase' = "start" /\ slots' = <<>> /\ clean' = FALSE /\ last' = <<>>
  /\ pos' = 1 /\ cf' = EmptyConfig
  /\ UNCHANGED <<build, text, kernel, todo, mine, failed, batches, faults>>

Next ==
  \/ ReadConfig \/ Start \/ Call \/ CallFails \/ Execute \/ Batch
  \/ Reconnect \/ Signal \/ Exit \/ Crash \/ Restart

Spec == Init /\ [][Next]_vars

-----------------------------------------------------------------------------
(* Properties. *)

IpsOf(V) == UNION {{Addresses(i)[j].ip : j \in DOMAIN Addresses(i)} : i \in V}
Served == {e.ip : e \in Shown(kernel)}
OwnIps == {Own[j].ip : j \in DOMAIN Own}

\* What has been read gives every interface an address, and none of the machine's own.
EachHasAddress == cf.n \in Nat /\ \A i \in Vif : cf.vif[i].pseudo.ip # NoIp
GroupApart == IpsOf(Vif) \cap OwnIps = {}

\* Of a device with addresses of the machine one has no alias; they are all different.
OwnLabels == {Label(Own[j]) : j \in DOMAIN Own}
PrimaryFirst == \A j \in DOMAIN Own : <<Own[j].dev, 0>> \in OwnLabels
OwnFine == PrimaryFirst /\ \A i, j \in DOMAIN Own : i # j => Own[i].ip # Own[j].ip

\* The addresses that the text gives the interfaces.
GroupAddresses == UNION {{AddressTable[i][x] : x \in DOMAIN AddressTable[i]} : i \in DOMAIN AddressTable}
GroupIps == {a.ip : a \in GroupAddresses}

\* A text that a group can be run with: the tables can hold it, no address of the group
\* is the machine's own, each belongs to one interface, on one device, on Linux one with
\* an address of the machine's; and if_list_ips has room for them all.
GroupFine ==
  /\ TextFine /\ GroupIps \cap OwnIps = {}
  /\ \A i, j \in DOMAIN AddressTable : \A x \in DOMAIN AddressTable[i] : \A y \in DOMAIN AddressTable[j] :
       AddressTable[i][x].ip = AddressTable[j][y].ip => i = j /\ AddressTable[i][x].dev = AddressTable[j][y].dev
  /\ build.linux => \A a \in GroupAddresses : <<a.dev, 0>> \in OwnLabels
  /\ IsFiniteSet(GroupIps) /\ Len(Own) + Cardinality(GroupIps) <= ListLimit

\* Types; the kernel has no address twice; machine and text are as they should be.
TypeOK ==
  /\ \A i, j \in DOMAIN kernel.list : i # j => kernel.list[i].ip # kernel.list[j].ip
  /\ mine \subseteq Vif /\ phase \in {"start", "run", "exit", "gone"}
  /\ clean \in BOOLEAN /\ failed \subseteq Ip
  /\ batches \in 0..MaxBatches /\ faults \in 0..MaxFaults
  /\ \A j \in DOMAIN todo : todo[j].vif \in Vif
  /\ phase = "run" => EachHasAddress /\ GroupApart
  /\ OwnFine /\ (pos = 1 => TextFine /\ (text \in Runs => GroupFine))

\* When no call is under way the machine has the addresses of the interfaces the
\* daemon owns, all of them and no other of the group's, whatever was brought up and
\* down before, in this process or in one that crashed; an address is exempt from the
\* last call the kernel refused for it to the next.
KernelMatches == Idle => Served \ (OwnIps \cup failed) = IpsOf(mine) \ failed

\* A process that ends by its own hand leaves no address of the group behind,
\* wherever the signal met it.
ExitLeavesNothing == phase = "gone" /\ clean => Served \ OwnIps \subseteq failed

\* The machine's own addresses are never touched.
BystandersKept == \A j \in DOMAIN Own : Own[j] \in Shown(kernel)

\* The user functions have last heard of an interface what became of it, if they hear
\* of both; an interface acquired after a failure, too.
HooksFollow ==
  Idle /\ {"on up", "on down"} \subseteq {cf.handlers[h] : h \in DOMAIN cf.handlers} =>
    \A i \in Vif : last[i] = IF i \in mine THEN "on up" ELSE "on down"
=============================================================================
