-------------------------------- MODULE MCHost --------------------------------
(* Texts and a machine for Host: octets of two bits, one network card with an   *)
(* alias of its own and a second card.                                          *)
EXTENDS Host

A(dev, ip, mask) == [dev |-> dev, ip |-> ip, mask |-> mask, net |-> Written]
One(a) == [braces |-> FALSE, ips |-> <<a>>]
Set(s) == [braces |-> TRUE, ips |-> s]
Vifs(list) == [k |-> "vifs", list |-> list]
Hooks == <<[k |-> "hook", type |-> "on up", loads |-> TRUE],
           [k |-> "hook", type |-> "on down", loads |-> TRUE],
           [k |-> "hook", type |-> "on up", loads |-> FALSE]>>

\* The first addresses of one subnet, and a set over two cards.
a1 == A("eth0", <<2, 1>>, 2)
a2 == A("eth0", <<2, 2>>, 2)
a3 == A("eth0", <<2, 3>>, 4)
b1 == A("eth1", <<3, 1>>, 2)
b2 == A("eth1", <<3, 2>>, 2)

MCOwn == <<[dev |-> "eth0", alias |-> 0, ip |-> <<1, 1>>, mask |-> 2],
           [dev |-> "eth0", alias |-> 2, ip |-> <<1, 2>>, mask |-> 2],
           [dev |-> "eth1", alias |-> 0, ip |-> <<3, 3>>, mask |-> 2]>>

\* What a daemon is run with.
Served3 == <<Vifs(<<One(a1), One(a2), Set(<<a3, b1>>)>>)>> \o Hooks
Served2 == Hooks \o <<Vifs(<<Set(<<a1, b1>>)>>), Vifs(<<Set(<<a2, b2>>)>>)>>

\* What is only read: statements without an interface, in every order.
P(ip, mask) == A("eth0", ip, mask)
Only == {
  [k |-> "prefer", braces |-> FALSE, list |-> <<P(<<2, 1>>, 4)>>],
  [k |-> "prefer", braces |-> TRUE,  list |-> <<P(<<1, 2>>, 4), P(<<3, 1>>, 4)>>],
  [k |-> "prefer", braces |-> FALSE, list |-> <<P(<<2, 3>>, 3)>>],
  [k |-> "prefer", braces |-> TRUE,  list |-> <<P(<<1, 1>>, 2)>>],
  [k |-> "time", name |-> "Mature", n |-> 2, unit |-> "m"],
  [k |-> "time", name |-> "Mature", n |-> 9, unit |-> "s"],
  [k |-> "time", name |-> "Interval", n |-> 1, unit |-> "s"],
  [k |-> "text", name |-> "Group", value |-> "wack1"],
  [k |-> "rate", n |-> 3], [k |-> "all"], [k |-> "noprefer"],
  [k |-> "notify", list |-> <<[cache |-> TRUE, ping |-> TRUE],
                              [cache |-> FALSE, dst |-> P(<<1, 3>>, 4), throttle |-> 2, ping |-> FALSE]>>],
  [k |-> "notify", list |-> <<[cache |-> FALSE, dst |-> [P(<<1, 3>>, 3) EXCEPT !.net = 2], throttle |-> 0, ping |-> TRUE]>>],
  [k |-> "vifs", list |-> <<Set(<<a3, b1>>), One(a1)>>],
  [k |-> "vifs", list |-> <<Set(<<a2, b2>>)>>]}
Reads == {t \in [1..3 -> Only] : \A i, j \in 1..3 : i # j => t[i] # t[j]}

MCRuns  == {Served3, Served2}
MCTexts == MCRuns \cup Reads

\* Nothing that depends on the byte order is in the texts of which a daemon is run: one
\* order is enough for these.
MCInit == Init /\ (text \in MCRuns => ~build.bigEndian)
MCSpec == MCInit /\ [][Next]_vars
=============================================================================
