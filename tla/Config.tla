-------------------------------- MODULE Config --------------------------------
(***************************************************************************)
(* Reading wackamole.conf: what the actions of the grammar make of a text, *)
(* statement by statement.  An address has two octets; octets are narrower *)
(* than eight bits, and the tables shorter, by constants.                  *)
(***************************************************************************)
EXTENDS Integers, SequencesExt

CONSTANTS
  OctetBits,  \* bits of an octet
  MaxPseudo,  \* MAX_PSEUDO: virtual interfaces, and preferred addresses
  MaxDep,     \* MAX_DEP_IF: addresses of a group after the first
  DefaultNet, \* the network of an address that names none (24 of 32 bits)
  Texts       \* the texts a daemon may be started with

ASSUME ConfigAssumption ==
  /\ {OctetBits, MaxPseudo, MaxDep} \subseteq Nat \ {0}
  /\ DefaultNet \in 0..2 * OctetBits

VARIABLES
  build, \* the build: [linux, bigEndian |-> BOOLEAN]
  text,  \* the statements of the file
  pos,   \* the statement read next
  cf     \* what has been read: the variables of config_gram.y

Base  == 2 ^ OctetBits
Octet == 0..(Base - 1)
Ip    == Octet \X Octet
NoIp  == <<0, 0>>
Full  == 2 * OctetBits

\* The octets of an address of which a netmask of so many bits keeps the first ones.
Least(a, b) == IF a < b THEN a ELSE b
Keep(octet, bits) == octet - (octet % 2 ^ (OctetBits - bits))
KeptOf(bits, k) == IF bits <= (k - 1) * OctetBits THEN 0 ELSE Least(OctetBits, bits - (k - 1) * OctetBits)
Masked(ip, bits) == <<Keep(ip[1], KeptOf(bits, 1)), Keep(ip[2], KeptOf(bits, 2))>>

\* An address as the machine counts it, the word s_addr, and back.
Word(ip)  == IF build.bigEndian THEN ip[1] * Base + ip[2] ELSE ip[2] * Base + ip[1]
Bytes(n)  == IF build.bigEndian THEN <<n \div Base, n % Base>> ELSE <<n % Base, n \div Base>>

\* An address of the text, [dev, ip, mask, net], and the interface made of it; the
\* broadcast address follows from these.  NoInterface is a zeroed one.
NoDev       == ""
Written     == 0   \* net of an address that names no network
NoInterface == [dev |-> NoDev, ip |-> NoIp, mask |-> 0, net |-> 0]
Interface(a) == [a EXCEPT !.net = IF a.net = Written THEN DefaultNet ELSE a.net]

\* A time of the text in seconds: the lexer also takes h, for seconds.
Seconds(n, unit) == IF unit = "m" THEN n * 60 ELSE n

TimeName == {"SpreadRetryInterval", "Mature", "Arp-Cache", "Interval"}
TextName == {"Spread", "Group", "Control", "ModuleDir"}

\* The variables before the file is read: what Usage and Wackamole_init set, and what
\* they leave as it is declared.
DefaultSeconds == [SpreadRetryInterval |-> 5, Mature |-> 300, Interval |-> 300] @@ ("Arp-Cache" :> 60)
DefaultTexts == [Spread |-> "4803", Group |-> "", Control |-> "", ModuleDir |-> "."]

EmptyVif == [pseudo |-> NoInterface, extra |-> [k \in 0..(MaxDep - 1) |-> NoInterface]]
EmptyConfig ==
  [secs |-> DefaultSeconds, texts |-> DefaultTexts, rate |-> 1, complete |-> FALSE,
   notify |-> <<>>, prefer |-> <<>>, handlers |-> <<>>,
   vif |-> [i \in 1..MaxPseudo |-> EmptyVif],   \* Allocation_table, pseudo_if and extra_ifs
   n |-> 0,                                     \* Num_pseudo
   iplistn |-> 0]

-----------------------------------------------------------------------------
(* VirtualInterfaces. *)

SetPseudo(c, a) == [c EXCEPT !.vif[c.n + 1].pseudo = Interface(a)]

\* Addresses go where iplistn counts; beyond the end of extra_ifs no field of this model is.
AddExtras(c, ips) ==
  [c EXCEPT !.vif[c.n + 1].extra =
              [k \in DOMAIN @ |-> LET j == k + 1 - c.iplistn IN IF j \in DOMAIN ips THEN Interface(ips[j]) ELSE @[k]],
            !.iplistn = @ + Len(ips)]

\* Mutant: the next group goes on counting where this one ended.
CloseGroupCounting(c) == [c EXCEPT !.vif[c.n + 1].extra[c.iplistn].ip = NoIp]

\* The address after the last one of a group is made zero.
CloseGroup(c) == [c EXCEPT !.vif[c.n + 1].extra[c.iplistn].ip = NoIp, !.iplistn = 0]

\* One virtual interface: an address, or addresses in braces.
ReadVif(c, g) ==
  LET first == SetPseudo(c, g.ips[1])
      vif   == IF g.braces THEN CloseGroup(AddExtras(first, Tail(g.ips))) ELSE first
  IN  [vif EXCEPT !.n = @ + 1]

ReadVifs(c, list) == FoldLeft(ReadVif, c, list)

(* Prefer. *)

\* Mutant: the bound of Prefer_address is not looked at.
AddPrefersAll(c, ips) == [c EXCEPT !.prefer = @ \o ips]

\* add_prefer takes as many as there is room for.
AddPrefers(c, ips) == [c EXCEPT !.prefer = SubSeq(@ \o ips, 1, Least(Len(@) + Len(ips), MaxPseudo))]

\* The mask of a block is turned into network order outside braces only: inside,
\* a little-endian machine masks the octets from the wrong end.
BlockMasked(ip, bits, braces) ==
  IF braces /\ ~build.bigEndian THEN Reverse(Masked(Reverse(ip), bits)) ELSE Masked(ip, bits)

\* Addresses are counted up as words for as long as their masked part stays.
Block(a, braces) ==
  LET first == BlockMasked(a.ip, a.mask, braces)
      at(k) == Bytes((Word(first) + k) % (Base * Base))
      goes(n) == \A k \in 0..(n - 1) : BlockMasked(at(k), a.mask, braces) = first
      n == CHOOSE k \in 1..(Base * Base) :
             goes(k) /\ (k = Base * Base \/ BlockMasked(at(k), a.mask, braces) # first)
  IN  [k \in 1..n |-> at(k - 1)]

Blocks(list, braces) == FlattenSeq([j \in DOMAIN list |-> Block(list[j], braces)])

(* Notify. *)

ArpCacheEntry == [NoInterface EXCEPT !.dev = "arp-cache"]
Notification(i) ==
  [destination |-> IF i.cache THEN ArpCacheEntry ELSE Interface(i.dst),
   throttle |-> IF i.cache THEN 0 ELSE i.throttle, ping |-> i.ping]
AddNotifications(c, list) == [c EXCEPT !.notify = @ \o [i \in DOMAIN list |-> Notification(list[i])]]

(* RunDynamic. *)

\* A handler that cannot be loaded is not counted, and its slot is used again.
Register(c, h) == IF h.loads THEN [c EXCEPT !.handlers = Append(@, h.type)] ELSE c

-----------------------------------------------------------------------------

\* What the grammar does with one statement.
Apply(c, s) ==
  CASE s.k = "text"     -> [c EXCEPT !.texts[s.name] = s.value]
    [] s.k = "time"     -> [c EXCEPT !.secs[s.name] = Seconds(s.n, s.unit)]
    [] s.k = "rate"     -> [c EXCEPT !.rate = s.n]
    [] s.k = "all"      -> [c EXCEPT !.complete = TRUE]
    [] s.k = "notify"   -> AddNotifications(c, s.list)
    [] s.k = "noprefer" -> AddPrefers(c, <<NoIp>>)
    [] s.k = "prefer"   -> AddPrefers(c, Blocks(s.list, s.braces))
    [] s.k = "hook"     -> Register(c, s)
    [] s.k = "vifs"     -> ReadVifs(c, s.list)

ConfigInit ==
  /\ build \in [linux : BOOLEAN, bigEndian : BOOLEAN]
  /\ text \in Texts /\ pos = 1 /\ cf = EmptyConfig

\* yyparse reads the next statement.
Read ==
  /\ pos <= Len(text)
  /\ cf' = Apply(cf, text[pos]) /\ pos' = pos + 1
  /\ UNCHANGED <<build, text>>

AllRead == pos > Len(text)

\* The addresses of a virtual interface that the loops of Acquire, Release and
\* force_reup go through: they end at a zero address, and after MAX_DEP_IF.
Addresses(i) ==
  LET at(k) == IF k = 1 THEN cf.vif[i].pseudo ELSE cf.vif[i].extra[k - 2]
      n == CHOOSE k \in 0..MaxDep :
             /\ \A j \in 1..k : at(j).ip # NoIp
             /\ k = MaxDep \/ at(k + 1).ip = NoIp
  IN  [k \in 1..n |-> at(k)]

-----------------------------------------------------------------------------
(* What the texts mean, from the manual page, not from the parser. *)

Listed(k) == FlattenSeq([p \in DOMAIN text |-> IF text[p].k = k THEN text[p].list ELSE <<>>])

\* The addresses of a block, in increasing order.
AddressesOfBlock(a) ==
  SetToSortSeq({ip \in Ip : Masked(ip, a.mask) = Masked(a.ip, a.mask)},
               LAMBDA x, y : x[1] * Base + x[2] < y[1] * Base + y[2])

\* An address, an interface or a set of them, and a text, that the tables can hold.
WrittenAddress == [dev : STRING, ip : Ip \ {NoIp}, mask : 0..Full, net : Nat]
WrittenVif == {g \in [braces : BOOLEAN, ips : Seq(WrittenAddress)] :
                 Len(g.ips) \in 1..MaxDep /\ (g.braces \/ Len(g.ips) = 1)}
TextFine ==
  /\ text \in Seq({text[p] : p \in DOMAIN text})
  /\ \A p \in DOMAIN text :
       /\ text[p].k \in {"text", "time", "rate", "all", "notify", "noprefer", "prefer", "hook", "vifs"}
       /\ text[p].k = "vifs" => text[p].list \in Seq(WrittenVif)
  /\ Len(Listed("vifs")) <= MaxPseudo

\* The addresses written for each virtual interface, in their order.
AddressTable ==
  [i \in 1..Len(Listed("vifs")) |->
     [k \in DOMAIN Listed("vifs")[i].ips |-> Interface(Listed("vifs")[i].ips[k])]]

\* Every virtual interface has them.
VifsAsWritten ==
  /\ cf.n = Len(Listed("vifs"))
  /\ \A i \in 1..cf.n : Addresses(i) = AddressTable[i]

\* The preferred addresses are those of the blocks, and one that no interface has for
\* each None, as many as there is room for.
PreferredAsWritten ==
  LET block(list)  == FlattenSeq([j \in DOMAIN list |-> AddressesOfBlock(list[j])])
      preferences  == SelectSeq(text, LAMBDA s : s.k \in {"prefer", "noprefer"})
      wanted == FlattenSeq([i \in DOMAIN preferences |->
                  IF preferences[i].k = "prefer" THEN block(preferences[i].list) ELSE <<NoIp>>])
  IN  cf.prefer = SubSeq(wanted, 1, Least(Len(wanted), MaxPseudo))

\* Every notification goes to the destination written for it, as often as written.
NotifiedAsWritten ==
  /\ Len(cf.notify) = Len(Listed("notify"))
  /\ \A i \in DOMAIN cf.notify :
       LET n == cf.notify[i]
           w == Listed("notify")[i]
       IN  /\ n.ping = w.ping
           /\ w.cache => n.destination.dev = "arp-cache" /\ n.throttle = 0
           /\ ~w.cache =>
                /\ n.destination.dev = w.dst.dev /\ n.destination.ip = w.dst.ip
                /\ n.destination.mask = w.dst.mask /\ n.throttle = w.throttle
                /\ n.destination.net \in (IF w.dst.net = Written THEN {DefaultNet} ELSE {w.dst.net})

\* Of the statements that set a variable the last one counts; without any it stays as it was.
Statements(k) == SelectSeq(text, LAMBDA s : s.k = k)
Naming(k, name) == SelectSeq(Statements(k), LAMBDA s : s.name = name)
SetByLast(S, Value(_), now, before) == now = IF S = <<>> THEN before ELSE Value(Last(S))

VariablesAsWritten ==
  LET seconds(s) == s.n * [s |-> 1, m |-> 60][s.unit]
      value(s)   == s.value
      rate(s)    == s.n
  IN  /\ \A name \in TimeName : SetByLast(Naming("time", name), seconds, cf.secs[name], EmptyConfig.secs[name])
      /\ \A name \in TextName : SetByLast(Naming("text", name), value, cf.texts[name], EmptyConfig.texts[name])
      /\ SetByLast(Statements("rate"), rate, cf.rate, EmptyConfig.rate)
      /\ cf.complete <=> Statements("all") # <<>>

\* The functions to be run are those that could be loaded, in their order.
HandlersAsWritten ==
  LET loaded == SelectSeq(Statements("hook"), LAMBDA s : s.loads)
  IN  cf.handlers = [h \in DOMAIN loaded |-> loaded[h].type]

\* Once the file is read, every virtual interface has the addresses written for it,
\* however statements, sets and single addresses follow each other.
VifsRead == AllRead => VifsAsWritten

\* And the other variables and tables say what was written, whatever stands between the
\* statements that fill them (blocks of preferred addresses where octets are counted in
\* network order; single addresses on every machine).
ReadsAsWritten ==
  AllRead =>
    /\ NotifiedAsWritten /\ VariablesAsWritten /\ HandlersAsWritten
    /\ (build.bigEndian \/ \A i \in DOMAIN Listed("prefer") : Listed("prefer")[i].mask = Full)
         => PreferredAsWritten

\* The times that the manual page promises to a file that does not set them.
DocumentedSeconds == [SpreadRetryInterval |-> 5, Mature |-> 5, Interval |-> 4] @@ ("Arp-Cache" :> 60)

\* A time that the file leaves out is the documented one (wackamole.conf.5:27, 45, 60, 64).
\* It is not: Wackamole_init overwrites the values that config_gram.y:32-33 declares.
DefaultsAsDocumented ==
  AllRead => \A name \in TimeName : Naming("time", name) = <<>> => cf.secs[name] = DocumentedSeconds[name]
=============================================================================
