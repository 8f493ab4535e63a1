------------------------------- MODULE MCAnnounce -------------------------------
(***************************************************************************)
(* Instances of Announce for TLC.  Addresses are numbers; networks have    *)
(* four of them: 4-7 and 8-11.                                             *)
(***************************************************************************)
EXTENDS Announce

MCIp == {5, 6, 9}
MCMac == {"a", "b"}
MCVif == {1}

On(dev, ip) == [ip |-> ip, dev |-> dev, span |-> 4]

\* A virtual interface with addresses on two networks, or two addresses on one.
TwoNetworks == <<<<On("eth0", 4), On("eth1", 8)>>>>
OneNetwork  == <<<<On("eth0", 4), On("eth0", 5)>>>>

\* The caches of the group one entry at a time, and the router's half of a network.
MCNotification ==
  <<[kind |-> "arp", net |-> On("arp-cache", 0), throttle |-> 1],
    [kind |-> "block", net |-> [ip |-> 6, dev |-> "eth0", span |-> 2], throttle |-> 1]>>

\* Every address has one hardware address but the last, which changes its own.
MCEntry == {e \in [ip : MCIp, mac : MCMac] : e.mac = "b" => e.ip = 9}

\* Reports of two different entries.
MCReport == {r \in [1..2 -> MCEntry] : r[1] # r[2]}

\* Before the array lies what can be taken for an entry, behind the buffer one that may
\* be below all others.
MCGarbage == {[ip |-> 6, mac |-> "b"]}
MCOverrun == {<<[ip |-> 5, mac |-> "b"]>>}

\* More than fits in a report.
MCKernelCache == {<<[ip |-> 6, mac |-> "a"], [ip |-> 5, mac |-> "a"]>>}
=============================================================================
