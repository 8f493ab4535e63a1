------------------------------- MODULE HostProofs -------------------------------
(***************************************************************************)
(* What the user functions hear of the interfaces of a daemon, for every   *)
(* configuration in which an interface has an address, whatever the kernel *)
(* refuses and whatever interrupts a handler.                              *)
(*                                                                         *)
(* A handler is a sequence of calls made one by one.  What matters of the  *)
(* rest of it is the last call that tells the user functions of an         *)
(* interface (Final), or that there is none any more (Silent): either the  *)
(* truth is still to be told or it was told last (HooksInv).               *)
(*                                                                         *)
(* And that the machine keeps its own addresses.  They stand first in the  *)
(* kernel's list (OwnFirst), what is added behind them never gets one of   *)
(* their names (Added), and whatever if_down finds in its array, left over *)
(* from an earlier call or not, is harmless to them (Harmless).            *)
(*                                                                         *)
(* And that the text is read as it is written, as far as interfaces go.    *)
(* What the statements before pos list (ListedUpTo) is in the tables, each *)
(* interface with a zero behind its last address, and the rest of the      *)
(* tables is as it was at the beginning (Reads, ParseInv).                 *)
(*                                                                         *)
(* And that the kernel ends up with what was decided.  Behind the          *)
(* machine's own addresses it has those of the group, each once (Tidy);    *)
(* each is as the last call made about it left it, or a call to come will  *)
(* make it what it ought to be (Fated).  On Linux any call of if_down may  *)
(* take any address with it; what the daemon keeps is brought up behind    *)
(* them all.                                                               *)
(***************************************************************************)
EXTENDS Host, FiniteSetTheorems, WellFoundedInduction, TLAPS

Event == {"on up", "on down"}
Heard == Event \cup {"none"}

\* Calls about interfaces, with the addresses that these have.
Given == UNION {{Addresses(i)[j] : j \in DOMAIN Addresses(i)} : i \in Vif}
CallType == [call : {"up", "down"}, vif : Vif, ifc : Given] \cup [call : Event, vif : Vif, ifc : {NoInterface}]

\* Nothing is told of interface i; the last that is told of it is e.
Silent(q, i) == \A x \in DOMAIN q : q[x].vif = i => q[x].call \notin Event

Final(q, i, e) ==
  \E x \in DOMAIN q :
    /\ q[x].vif = i /\ q[x].call = e
    /\ \A y \in DOMAIN q : x < y /\ q[y].vif = i => q[y].call \notin Event

-----------------------------------------------------------------------------
(* Sequences. *)

\* Of some numbers one is the least.
LEMMA HasLeast ==
  ASSUME NEW S \in SUBSET Nat, S # {}
  PROVE  \E x \in S : \A y \in S : x <= y
<1>1. PICK x \in S : \A y \in S : ~ (<<y, x>> \in OpToRel(<, Nat))
  BY WFMin, NatLessThanWellFounded, Zenon
<1>2. ASSUME NEW y \in S PROVE x <= y
  <2>1. ASSUME y < x PROVE FALSE
    <3>1. <<y, x>> \in Nat \X Nat
      OBVIOUS
    <3>2. <<y, x>> \in OpToRel(<, Nat)
      BY <2>1, <3>1, Zenon DEF OpToRel
    <3> QED
      BY <1>1, <3>2, Zenon
  <2> QED
    BY <2>1
<1> QED
  BY <1>2

\* The numbers from 1 to n, one after the other.
LEMMA UpTo ==
  ASSUME NEW n \in Nat, NEW S, 1 \in S, \A k \in 2..n : k - 1 \in S => k \in S
  PROVE  \A k \in 1..n : k \in S
<1> DEFINE Bad == {k \in 1..n : k \notin S}
<1>1. SUFFICES ASSUME Bad # {} PROVE FALSE
  OBVIOUS
<1>2. PICK k \in Bad : \A j \in Bad : k <= j
  <2>1. Bad \in SUBSET Nat
    OBVIOUS
  <2> HIDE DEF Bad
  <2> QED
    BY <1>1, <2>1, HasLeast
<1>3. k \in 2..n /\ k - 1 \notin Bad /\ k - 1 \in 1..n
  BY <1>2
<1> QED
  BY <1>2, <1>3

\* The sequences of s one after the other.
Flattens(s, n, h) == h = [k \in 1..n |-> IF k = 1 THEN s[1] ELSE h[k - 1] \o s[k]]

\* There is such a function.
LEMMA FlattensExists ==
  ASSUME NEW s, NEW n \in Nat
  PROVE  \E h : Flattens(s, n, h)
<1> DEFINE Good == {k \in 1..n : \E h : Flattens(s, k, h)}
<1>1. CASE n = 0
  <2>1. Flattens(s, 0, [k \in 1..0 |-> s[1]])
    BY DEF Flattens
  <2> QED
    BY <1>1, <2>1
<1>2. CASE n # 0
  <2>1. 1 \in Good
    <3>1. Flattens(s, 1, [k \in 1..1 |-> s[1]])
      BY DEF Flattens
    <3> QED
      BY <1>2, <3>1
  <2>2. ASSUME NEW k \in 2..n, k - 1 \in Good PROVE k \in Good
    <3>1. PICK h : Flattens(s, k - 1, h)
      BY <2>2
    <3> DEFINE joined == h[k - 1] \o s[k]
               g == [j \in 1..k |-> IF j = k THEN joined ELSE h[j]]
    <3>2. \A j \in 1..(k - 1) : h[j] = IF j = 1 THEN s[1] ELSE h[j - 1] \o s[j]
      BY <3>1 DEF Flattens
    <3>3. \A j \in 1..k : g[j] = IF j = 1 THEN s[1] ELSE g[j - 1] \o s[j]
      <4> SUFFICES ASSUME NEW j \in 1..k
                   PROVE  g[j] = IF j = 1 THEN s[1] ELSE g[j - 1] \o s[j]
        OBVIOUS
      <4>1. CASE j = k
        <5>1. j \in 1..k /\ j - 1 \in 1..k /\ j - 1 # k /\ j # 1 /\ j - 1 = k - 1
          BY <4>1
        <5> HIDE DEF joined
        <5>2. g[j] = joined /\ g[j - 1] = h[j - 1]
          BY <4>1, <5>1
        <5> HIDE DEF g
        <5> QED
          BY <4>1, <5>1, <5>2 DEF joined
      <4>2. CASE j # k
        <5>1. j \in 1..(k - 1) /\ (j # 1 => j - 1 \in 1..k /\ j - 1 # k)
          BY <4>2
        <5>2. g[j] = h[j] /\ (j # 1 => g[j - 1] = h[j - 1])
          BY <4>2, <5>1
        <5> HIDE DEF g
        <5> QED
          BY <3>2, <5>1, <5>2
      <4> QED
        BY <4>1, <4>2
    <3>4. Flattens(s, k, g)
      <4>1. g = [j \in 1..k |-> g[j]]
        OBVIOUS
      <4> HIDE DEF g
      <4> QED
        BY <3>3, <4>1 DEF Flattens
    <3> QED
      BY <3>4
  <2>3. n \in Good
    <3> HIDE DEF Good
    <3> QED
      BY <1>2, <2>1, <2>2, UpTo
  <2> QED
    BY <2>3
<1> QED
  BY <1>1, <1>2

\* What the sequences come to is in G[n] if each leads from G[k - 1] to G[k].
LEMMA FlattenKeeps ==
  ASSUME NEW n \in Nat \ {0}, NEW s, Len(s) = n, NEW G, s[1] \in G[1],
         \A k \in 2..n : \A q \in G[k - 1] : q \o s[k] \in G[k]
  PROVE  FlattenSeq(s) \in G[n]
<1>1. \E h : Flattens(s, n, h)
  BY FlattensExists
<1>2. \E h : h = [k \in 1..Len(s) |-> IF k = 1 THEN s[k] ELSE h[k - 1] \o s[k]]
  BY <1>1 DEF Flattens
<1>3. PICK h : /\ h = [k \in 1..Len(s) |-> IF k = 1 THEN s[k] ELSE h[k - 1] \o s[k]]
               /\ FlattenSeq(s) = h[Len(s)]
  BY <1>2 DEF FlattenSeq
<1> DEFINE Good == {k \in 1..n : h[k] \in G[k]}
<1>4. h[1] = s[1] /\ \A k \in 2..n : h[k] = h[k - 1] \o s[k]
  <2>1. ASSUME NEW k \in 1..n PROVE h[k] = IF k = 1 THEN s[k] ELSE h[k - 1] \o s[k]
    BY <1>3, Zenon
  <2>2. \A k \in 2..n : k \in 1..n /\ k # 1
    OBVIOUS
  <2>3. h[1] = s[1]
    BY <2>1
  <2>4. ASSUME NEW k \in 2..n PROVE h[k] = h[k - 1] \o s[k]
    BY <2>1, <2>2, Zenon
  <2> QED
    BY <2>3, <2>4
<1>5. 1 \in Good
  BY <1>4
<1>6. ASSUME NEW k \in 2..n, k - 1 \in Good PROVE k \in Good
  <2>1. k \in 1..n /\ h[k - 1] \in G[k - 1]
    BY <1>6
  <2>2. h[k - 1] \o s[k] \in G[k]
    BY <2>1, Zenon
  <2>3. h[k] \in G[k]
    BY <1>4, <2>2, Zenon
  <2> QED
    BY <2>1, <2>3
<1>7. n \in Good
  <2> HIDE DEF Good
  <2> QED
    BY <1>5, <1>6, UpTo
<1> QED
  BY <1>3, <1>7
-----------------------------------------------------------------------------
(* A fold over the interfaces of a statement. *)

\* The numbers from 0 to n, one after the other.
LEMMA UpFromZero ==
  ASSUME NEW n \in Nat, NEW S, 0 \in S, \A k \in 1..n : k - 1 \in S => k \in S
  PROVE  n \in S
<1> DEFINE Bad == {k \in 0..n : k \notin S}
<1>1. SUFFICES ASSUME Bad # {} PROVE FALSE
  OBVIOUS
<1>2. PICK k \in Bad : \A j \in Bad : k <= j
  <2>1. Bad \in SUBSET Nat
    OBVIOUS
  <2> HIDE DEF Bad
  <2> QED
    BY <1>1, <2>1, HasLeast
<1>3. k \in 1..n /\ k - 1 \notin Bad /\ k - 1 \in 0..n
  BY <1>2
<1> QED
  BY <1>2, <1>3

\* Of some numbers up to n one is the greatest.
LEMMA MaxOf ==
  ASSUME NEW n \in Nat, NEW s \in SUBSET (1..n), s # {}
  PROVE  Max(s) \in s /\ \A x \in s : x <= Max(s)
<1> DEFINE D == {d \in 0..n : n - d \in s}
<1>0. \A x \in s : x \in 1..n /\ n - x \in 0..n /\ n - (n - x) = x
  OBVIOUS
<1>1. PICK d \in D : \A e \in D : d <= e
  <2>1. PICK x \in s : TRUE
    OBVIOUS
  <2>2. n - x \in D
    BY <1>0, <2>1
  <2>3. D \in SUBSET Nat
    OBVIOUS
  <2> HIDE DEF D
  <2>4. D # {}
    BY <2>2
  <2> QED
    BY <2>3, <2>4, HasLeast
<1>2. PICK x \in s : x = n - d
  OBVIOUS
<1>3. ASSUME NEW y \in s PROVE x >= y
  <2>1. n - y \in D
    BY <1>0
  <2>2. d <= n - y
    BY <1>1, <2>1
  <2> QED
    BY <1>0, <1>2, <2>2
<1>4. \E z \in s : \A y \in s : z >= y
  BY <1>3
<1>5. Max(s) \in s /\ \A y \in s : Max(s) >= y
  BY <1>4, Zenon DEF Max
<1> QED
  BY <1>5

\* What the fold of ReadVif over a list comes to for the places s.
Folds(c, list, n, f) ==
  f = [s \in SUBSET (1..n) |-> IF s = {} THEN c ELSE ReadVif(f[s \ {Max(s)}], list[Max(s)])]

\* There is such a function.
LEMMA FoldsExists ==
  ASSUME NEW c, NEW list, NEW n \in Nat
  PROVE  \E f : Folds(c, list, n, f)
<1> DEFINE Good == {k \in 0..n : \E f : Folds(c, list, k, f)}
<1>1. 0 \in Good
  <2> DEFINE f == [s \in SUBSET (1..0) |-> c]
  <2>1. \A s \in SUBSET (1..0) : s = {}
    OBVIOUS
  <2>2. f = [s \in SUBSET (1..0) |-> IF s = {} THEN c ELSE ReadVif(f[s \ {Max(s)}], list[Max(s)])]
    BY <2>1, Zenon
  <2> QED
    BY <2>2 DEF Folds
<1>2. ASSUME NEW k \in 1..n, k - 1 \in Good PROVE k \in Good
  <2>1. PICK f : Folds(c, list, k - 1, f)
    BY <1>2
  <2>2. \A s \in SUBSET (1..(k - 1)) : f[s] = IF s = {} THEN c ELSE ReadVif(f[s \ {Max(s)}], list[Max(s)])
    BY <2>1, Zenon DEF Folds
  <2> DEFINE g == [s \in SUBSET (1..k) |-> IF k \in s THEN ReadVif(f[s \ {k}], list[k]) ELSE f[s]]
  <2>3. ASSUME NEW s \in SUBSET (1..k)
        PROVE  g[s] = IF s = {} THEN c ELSE ReadVif(g[s \ {Max(s)}], list[Max(s)])
    <3>1. CASE k \in s
      <4>1. Max(s) = k
        <5>1. s # {} /\ k \in Nat
          BY <3>1
        <5>2. Max(s) \in s /\ k <= Max(s)
          BY <3>1, <5>1, MaxOf
        <5>3. Max(s) \in 1..k
          BY <5>2
        <5> QED
          BY <5>2, <5>3
      <4>2. s \ {k} \in SUBSET (1..k) /\ k \notin s \ {k}
        OBVIOUS
      <4>3. g[s \ {k}] = f[s \ {k}] /\ g[s] = ReadVif(f[s \ {k}], list[k])
        BY <3>1, <4>2, Zenon
      <4> HIDE DEF g
      <4> QED
        BY <3>1, <4>1, <4>3
    <3>2. CASE k \notin s
      <4>0. \A x \in s : x \in 1..k /\ x # k
        BY <3>2
      <4>1. s \in SUBSET (1..(k - 1)) /\ s \ {Max(s)} \in SUBSET (1..k) /\ k \notin s \ {Max(s)}
        <5>1. \A x \in s : x \in 1..(k - 1)
          BY <4>0
        <5> QED
          BY <4>0, <5>1
      <4>2. g[s] = f[s] /\ g[s \ {Max(s)}] = f[s \ {Max(s)}]
        BY <3>2, <4>1, Zenon
      <4> HIDE DEF g
      <4> QED
        BY <2>2, <4>1, <4>2
    <3> QED
      BY <3>1, <3>2
  <2>4. Folds(c, list, k, g)
    <3>1. g = [s \in SUBSET (1..k) |-> g[s]]
      OBVIOUS
    <3> HIDE DEF g
    <3> QED
      BY <2>3, <3>1 DEF Folds
  <2> QED
    BY <2>4
<1> QED
  <2>1. n \in Good
    <3> HIDE DEF Good
    <3> QED
      BY <1>1, <1>2, UpFromZero
  <2> QED
    BY <2>1

\* The interfaces of a statement are read one after the other.
LEMMA FoldSteps ==
  ASSUME NEW c, NEW list, NEW n \in Nat, DOMAIN list = 1..n
  PROVE  \E h : /\ h[0] = c /\ ReadVifs(c, list) = h[n]
                /\ \A k \in 1..n : h[k] = ReadVif(h[k - 1], list[k])
<1>1. \E f : f = [s \in SUBSET DOMAIN list |-> IF s = {} THEN c ELSE ReadVif(f[s \ {Max(s)}], list[Max(s)])]
  <2>1. \E f : Folds(c, list, n, f)
    BY FoldsExists
  <2> QED
    BY <2>1, Zenon DEF Folds
<1>2. PICK f : /\ f = [s \in SUBSET DOMAIN list |-> IF s = {} THEN c ELSE ReadVif(f[s \ {Max(s)}], list[Max(s)])]
               /\ ReadVifs(c, list) = f[DOMAIN list]
  BY <1>1, Zenon DEF ReadVifs, FoldLeft, MapThenFoldSet
<1>3. \A s \in SUBSET (1..n) : f[s] = IF s = {} THEN c ELSE ReadVif(f[s \ {Max(s)}], list[Max(s)])
  BY <1>2, Zenon
<1> DEFINE h == [k \in 0..n |-> f[1..k]]
<1>4. h[0] = c
  <2>1. 0 \in 0..n /\ 1..0 = {} /\ {} \in SUBSET (1..n)
    OBVIOUS
  <2>2. h[0] = f[{}]
    BY <2>1
  <2> HIDE DEF h
  <2> QED
    BY <1>3, <2>1, <2>2, Zenon
<1>5. ASSUME NEW k \in 1..n PROVE h[k] = ReadVif(h[k - 1], list[k])
  <2>1. k \in 1..k /\ k \in 0..n /\ k - 1 \in 0..n /\ k \in Nat /\ (1..k) \in SUBSET (1..k)
    OBVIOUS
  <2>5. (1..k) \in SUBSET (1..n) /\ (1..k) # {}
    <3>1. \A x \in 1..k : x \in 1..n
      OBVIOUS
    <3> QED
      BY <2>1, <3>1
  <2>2. Max(1..k) = k
    <3>1. Max(1..k) \in 1..k /\ k <= Max(1..k)
      BY <2>1, <2>5, MaxOf
    <3> QED
      BY <2>1, <3>1
  <2>3. (1..k) \ {k} = 1..(k - 1)
    OBVIOUS
  <2>4. f[1..k] = ReadVif(f[1..(k - 1)], list[k])
    BY <1>3, <2>2, <2>3, <2>5
  <2> QED
    BY <2>1, <2>4
<1>6. h[n] = ReadVifs(c, list)
  BY <1>2
<1> QED
  <2> HIDE DEF h
  <2> QED
    BY <1>4, <1>5, <1>6

-----------------------------------------------------------------------------
(* The tables of the parser. *)

InterfaceType == [dev : STRING \cup {NoDev}, ip : Ip \cup {NoIp}, mask : 0..Full, net : Nat]
VifType == [pseudo : InterfaceType, extra : [0..(MaxDep - 1) -> InterfaceType]]

\* The variables of the parser, as far as interfaces are read into them.
Tables(c) ==
  /\ c = [secs |-> c.secs, texts |-> c.texts, rate |-> c.rate, complete |-> c.complete, notify |-> c.notify,
          prefer |-> c.prefer, handlers |-> c.handlers, vif |-> c.vif, n |-> c.n, iplistn |-> c.iplistn]
  /\ c.vif \in [1..MaxPseudo -> VifType]

\* An interface has the addresses of g, and a zero behind them.
Holds(v, g) ==
  /\ v.pseudo = Interface(g.ips[1])
  /\ \A j \in 2..Len(g.ips) : v.extra[j - 2] = Interface(g.ips[j])
  /\ v.extra[Len(g.ips) - 1].ip = NoIp

\* Of what is written (W) the first m interfaces have been read.
Reads(c, W, m) ==
  /\ Tables(c) /\ c.n = m /\ c.iplistn = 0
  /\ \A i \in 1..m : Holds(c.vif[i], W[i])
  /\ \A i \in (m + 1)..MaxPseudo : c.vif[i] = EmptyVif

\* An address that is written makes an interface with that address.
LEMMA InterfaceOf ==
  ASSUME NEW a \in WrittenAddress
  PROVE  Interface(a) \in InterfaceType /\ Interface(a).ip = a.ip /\ a.ip # NoIp
<1>1. DefaultNet \in Nat
  BY ConfigAssumption
<1>2. Interface(a) = [dev |-> a.dev, ip |-> a.ip, mask |-> a.mask, net |-> IF a.net = Written THEN DefaultNet ELSE a.net]
  BY DEF Interface, WrittenAddress
<1>3. a.dev \in STRING /\ a.ip \in Ip /\ a.ip # NoIp /\ a.mask \in 0..Full /\ a.net \in Nat
  BY DEF WrittenAddress
<1> QED
  BY <1>1, <1>2, <1>3 DEF InterfaceType

\* An interface in which nothing is written, and a zero address, are of their types.
LEMMA NothingType ==
  NoInterface \in InterfaceType /\ NoInterface.ip = NoIp /\ EmptyVif \in VifType
<1>1. MaxDep \in Nat \ {0} /\ 0 \in 0..Full
  BY ConfigAssumption DEF Full
<1>2. NoInterface \in InterfaceType /\ NoInterface.ip = NoIp
  BY <1>1 DEF NoInterface, InterfaceType
<1>3. EmptyVif \in VifType
  BY <1>2 DEF EmptyVif, VifType
<1> QED
  BY <1>2, <1>3

\* The first address of an interface.
LEMMA SetPseudoSets ==
  ASSUME NEW c, Tables(c), c.n \in 0..(MaxPseudo - 1), NEW a \in WrittenAddress,
         NEW d, d = SetPseudo(c, a)
  PROVE  /\ Tables(d) /\ d.n = c.n /\ d.iplistn = c.iplistn
         /\ d.vif[c.n + 1].pseudo = Interface(a) /\ d.vif[c.n + 1].extra = c.vif[c.n + 1].extra
         /\ \A i \in 1..MaxPseudo : i # c.n + 1 => d.vif[i] = c.vif[i]
<1> DEFINE m == c.n + 1
           v == [c.vif[m] EXCEPT !.pseudo = Interface(a)]
<1>1. MaxPseudo \in Nat /\ m \in 1..MaxPseudo /\ c.vif[m] \in VifType
  BY ConfigAssumption DEF Tables
<1>2. v \in VifType /\ v.pseudo = Interface(a) /\ v.extra = c.vif[m].extra
  BY <1>1, InterfaceOf DEF VifType
<1>3. d.vif = [c.vif EXCEPT ![m] = v] /\ d.n = c.n /\ d.iplistn = c.iplistn
  BY DEF SetPseudo, Tables
<1>4. d = [secs |-> d.secs, texts |-> d.texts, rate |-> d.rate, complete |-> d.complete, notify |-> d.notify,
          prefer |-> d.prefer, handlers |-> d.handlers, vif |-> d.vif, n |-> d.n, iplistn |-> d.iplistn]
  BY DEF SetPseudo, Tables
<1> HIDE DEF v, m
<1>5. d.vif \in [1..MaxPseudo -> VifType] /\ d.vif[m] = v /\ \A i \in 1..MaxPseudo : i # m => d.vif[i] = c.vif[i]
  BY <1>1, <1>2, <1>3 DEF Tables
<1>6. Tables(d)
  BY <1>4, <1>5 DEF Tables
<1> QED
  BY <1>2, <1>3, <1>5, <1>6 DEF m

\* The others, from where iplistn counts.
LEMMA AddExtrasSets ==
  ASSUME NEW c, Tables(c), c.n \in 0..(MaxPseudo - 1), c.iplistn = 0,
         NEW ips \in Seq(WrittenAddress), NEW d, d = AddExtras(c, ips)
  PROVE  /\ Tables(d) /\ d.n = c.n /\ d.iplistn = Len(ips)
         /\ d.vif[c.n + 1].pseudo = c.vif[c.n + 1].pseudo
         /\ \A k \in 0..(MaxDep - 1) : k + 1 \in DOMAIN ips => d.vif[c.n + 1].extra[k] = Interface(ips[k + 1])
         /\ \A i \in 1..MaxPseudo : i # c.n + 1 => d.vif[i] = c.vif[i]
<1> DEFINE m == c.n + 1
           x == [k \in DOMAIN c.vif[m].extra |->
                   LET j == k + 1 - c.iplistn IN IF j \in DOMAIN ips THEN Interface(ips[j]) ELSE c.vif[m].extra[k]]
           v == [c.vif[m] EXCEPT !.extra = x]
<1>1. MaxPseudo \in Nat /\ m \in 1..MaxPseudo /\ c.vif[m] \in VifType
  BY ConfigAssumption DEF Tables
<1>2. c.vif[m].extra \in [0..(MaxDep - 1) -> InterfaceType]
  BY <1>1 DEF VifType
<1>3. \A j \in DOMAIN ips : Interface(ips[j]) \in InterfaceType
  BY InterfaceOf
<1>4. ASSUME NEW k \in 0..(MaxDep - 1)
      PROVE  x[k] = IF k + 1 \in DOMAIN ips THEN Interface(ips[k + 1]) ELSE c.vif[m].extra[k]
  <2>1. k \in DOMAIN c.vif[m].extra
    BY <1>2
  <2>2. k + 1 - c.iplistn = k + 1
    OBVIOUS
  <2> QED
    BY <2>1, <2>2
<1>5. x \in [0..(MaxDep - 1) -> InterfaceType]
  <2>1. DOMAIN x = 0..(MaxDep - 1) /\ x = [k \in DOMAIN x |-> x[k]]
    BY <1>2
  <2> HIDE DEF x
  <2>2. ASSUME NEW k \in 0..(MaxDep - 1) PROVE x[k] \in InterfaceType
    <3>1. CASE k + 1 \in DOMAIN ips
      BY <1>3, <1>4, <3>1
    <3>2. CASE k + 1 \notin DOMAIN ips
      BY <1>2, <1>4, <3>2
    <3> QED
      BY <3>1, <3>2
  <2>3. x = [k \in 0..(MaxDep - 1) |-> x[k]]
    BY <2>1
  <2> QED
    BY <2>2, <2>3
<1> HIDE DEF x
<1>6. v \in VifType /\ v.pseudo = c.vif[m].pseudo /\ v.extra = x
  BY <1>1, <1>5 DEF VifType
<1>7. d.vif = [c.vif EXCEPT ![m] = v] /\ d.n = c.n /\ d.iplistn = Len(ips)
  BY DEF AddExtras, Tables, x
<1>8. d = [secs |-> d.secs, texts |-> d.texts, rate |-> d.rate, complete |-> d.complete, notify |-> d.notify,
          prefer |-> d.prefer, handlers |-> d.handlers, vif |-> d.vif, n |-> d.n, iplistn |-> d.iplistn]
  BY DEF AddExtras, Tables
<1> HIDE DEF v, m
<1>9. d.vif \in [1..MaxPseudo -> VifType] /\ d.vif[m] = v /\ \A i \in 1..MaxPseudo : i # m => d.vif[i] = c.vif[i]
  BY <1>1, <1>6, <1>7 DEF Tables
<1>10. Tables(d)
  BY <1>8, <1>9 DEF Tables
<1> QED
  BY <1>4, <1>6, <1>7, <1>9, <1>10 DEF m

\* And the zero behind them.
LEMMA CloseGroupSets ==
  ASSUME NEW c, Tables(c), c.n \in 0..(MaxPseudo - 1), c.iplistn \in 0..(MaxDep - 1),
         NEW d, d = CloseGroup(c)
  PROVE  /\ Tables(d) /\ d.n = c.n /\ d.iplistn = 0
         /\ d.vif[c.n + 1].pseudo = c.vif[c.n + 1].pseudo
         /\ d.vif[c.n + 1].extra[c.iplistn].ip = NoIp
         /\ \A k \in 0..(MaxDep - 1) : k # c.iplistn => d.vif[c.n + 1].extra[k] = c.vif[c.n + 1].extra[k]
         /\ \A i \in 1..MaxPseudo : i # c.n + 1 => d.vif[i] = c.vif[i]
<1> DEFINE m == c.n + 1
           l == c.iplistn
           e == [c.vif[m].extra[l] EXCEPT !.ip = NoIp]
           x == [c.vif[m].extra EXCEPT ![l] = e]
           v == [c.vif[m] EXCEPT !.extra = x]
<1>1. MaxPseudo \in Nat /\ m \in 1..MaxPseudo /\ c.vif[m] \in VifType
  BY ConfigAssumption DEF Tables
<1>2. c.vif[m].extra \in [0..(MaxDep - 1) -> InterfaceType] /\ c.vif[m].extra[l] \in InterfaceType
  BY <1>1 DEF VifType
<1>3. e \in InterfaceType /\ e.ip = NoIp
  BY <1>2 DEF InterfaceType
<1>4. d.vif = [c.vif EXCEPT ![m] = v] /\ d.n = c.n /\ d.iplistn = 0
  BY DEF CloseGroup, Tables
<1>5. d = [secs |-> d.secs, texts |-> d.texts, rate |-> d.rate, complete |-> d.complete, notify |-> d.notify,
          prefer |-> d.prefer, handlers |-> d.handlers, vif |-> d.vif, n |-> d.n, iplistn |-> d.iplistn]
  BY DEF CloseGroup, Tables
<1> HIDE DEF e
<1>6. /\ x \in [0..(MaxDep - 1) -> InterfaceType] /\ x[l] = e
      /\ \A k \in 0..(MaxDep - 1) : k # l => x[k] = c.vif[m].extra[k]
  BY <1>2, <1>3
<1> HIDE DEF x
<1>7. v \in VifType /\ v.pseudo = c.vif[m].pseudo /\ v.extra = x
  BY <1>1, <1>6 DEF VifType
<1> HIDE DEF v, m
<1>8. d.vif \in [1..MaxPseudo -> VifType] /\ d.vif[m] = v /\ \A i \in 1..MaxPseudo : i # m => d.vif[i] = c.vif[i]
  BY <1>1, <1>4, <1>7 DEF Tables
<1>9. Tables(d)
  BY <1>5, <1>8 DEF Tables
<1> QED
  BY <1>3, <1>4, <1>6, <1>7, <1>8, <1>9 DEF m

-----------------------------------------------------------------------------
(* Reading interfaces. *)

\* A single address or a set of them is read into the next interface.
LEMMA ReadVifHolds ==
  ASSUME NEW c, Tables(c), c.n \in 0..(MaxPseudo - 1), c.iplistn = 0, c.vif[c.n + 1] = EmptyVif,
         NEW g \in WrittenVif, NEW r, r = ReadVif(c, g)
  PROVE  /\ Tables(r) /\ r.n = c.n + 1 /\ r.iplistn = 0 /\ Holds(r.vif[c.n + 1], g)
         /\ \A i \in 1..MaxPseudo : i # c.n + 1 => r.vif[i] = c.vif[i]
<1> DEFINE m == c.n + 1
           len == Len(g.ips)
           a == SetPseudo(c, g.ips[1])
           b == AddExtras(a, Tail(g.ips))
           d == IF g.braces THEN CloseGroup(b) ELSE a
<1>0. MaxPseudo \in Nat /\ MaxDep \in Nat \ {0} /\ m \in 1..MaxPseudo
  BY ConfigAssumption
<1>1. /\ g.ips \in Seq(WrittenAddress) /\ len \in 1..MaxDep /\ (g.braces \/ len = 1)
      /\ g.ips[1] \in WrittenAddress
  <2>1. g.ips \in Seq(WrittenAddress) /\ len \in 1..MaxDep /\ (g.braces \/ len = 1)
    BY DEF WrittenVif
  <2> QED
    BY <2>1
<1>2. r = [d EXCEPT !.n = @ + 1]
  BY DEF ReadVif
<1>3. /\ Tables(a) /\ a.n = c.n /\ a.iplistn = 0 /\ a.vif[m].pseudo = Interface(g.ips[1])
      /\ a.vif[m].extra = EmptyVif.extra
      /\ \A i \in 1..MaxPseudo : i # m => a.vif[i] = c.vif[i]
  <2> HIDE DEF a
  <2>1. a = SetPseudo(c, g.ips[1])
    BY DEF a
  <2> QED
    BY <1>1, <2>1, SetPseudoSets
<1>4. /\ Tables(d) /\ d.n = c.n /\ d.iplistn = 0 /\ Holds(d.vif[m], g)
      /\ \A i \in 1..MaxPseudo : i # m => d.vif[i] = c.vif[i]
  <2>1. CASE ~g.braces
    <3>1. d = a /\ len = 1
      BY <1>1, <2>1
    <3> HIDE DEF a, d
    <3>2. d.vif[m].extra[0] = NoInterface
      <4>1. 0 \in 0..(MaxDep - 1)
        BY <1>0
      <4> QED
        BY <1>3, <3>1, <4>1 DEF EmptyVif
    <3>3. Holds(d.vif[m], g)
      BY <1>3, <3>1, <3>2, NothingType DEF Holds
    <3> QED
      BY <1>3, <3>1, <3>3
  <2>2. CASE g.braces
    <3>1. d = CloseGroup(b)
      BY <2>2
    <3>2. Tail(g.ips) \in Seq(WrittenAddress) /\ Len(Tail(g.ips)) = len - 1
          /\ \A j \in 1..(len - 1) : Tail(g.ips)[j] = g.ips[j + 1]
      <4>1. g.ips # <<>>
        BY <1>1
      <4> QED
        BY <1>1, <4>1
    <3> DEFINE t == Tail(g.ips)
    <3> HIDE DEF a, d, t
    <3>3. b = AddExtras(a, t)
      BY DEF t
    <3> HIDE DEF b
    <3>4. /\ Tables(b) /\ b.n = c.n /\ b.iplistn = Len(t) /\ b.vif[m].pseudo = a.vif[m].pseudo
          /\ \A k \in 0..(MaxDep - 1) : k + 1 \in DOMAIN t => b.vif[m].extra[k] = Interface(t[k + 1])
          /\ \A i \in 1..MaxPseudo : i # m => b.vif[i] = a.vif[i]
      <4>1. t \in Seq(WrittenAddress)
        BY <3>2 DEF t
      <4>2. a.n \in 0..(MaxPseudo - 1) /\ a.n + 1 = m /\ a.iplistn = 0 /\ Tables(a)
        BY <1>3
      <4> HIDE DEF m
      <4> QED
        BY <1>3, <3>3, <4>1, <4>2, AddExtrasSets
    <3>5. b.iplistn = len - 1 /\ len - 1 \in 0..(MaxDep - 1) /\ DOMAIN t = 1..(len - 1)
      <4>1. Len(t) = len - 1 /\ t \in Seq(WrittenAddress)
        BY <3>2 DEF t
      <4>2. DOMAIN t = 1..(len - 1)
        BY <4>1
      <4>3. len - 1 \in 0..(MaxDep - 1)
        BY <1>0, <1>1
      <4> QED
        BY <3>4, <4>1, <4>2, <4>3
    <3>6. /\ Tables(d) /\ d.n = c.n /\ d.iplistn = 0 /\ d.vif[m].pseudo = b.vif[m].pseudo
          /\ d.vif[m].extra[len - 1].ip = NoIp
          /\ \A k \in 0..(MaxDep - 1) : k # len - 1 => d.vif[m].extra[k] = b.vif[m].extra[k]
          /\ \A i \in 1..MaxPseudo : i # m => d.vif[i] = b.vif[i]
      <4>1. b.n \in 0..(MaxPseudo - 1) /\ b.n + 1 = m
        BY <3>4
      <4>2. b.iplistn \in 0..(MaxDep - 1)
        BY <3>5
      <4>3. Tables(b)
        BY <3>4
      <4> HIDE DEF m, len
      <4>4. /\ Tables(d) /\ d.n = b.n /\ d.iplistn = 0 /\ d.vif[m].pseudo = b.vif[m].pseudo
            /\ d.vif[m].extra[b.iplistn].ip = NoIp
            /\ \A k \in 0..(MaxDep - 1) : k # b.iplistn => d.vif[m].extra[k] = b.vif[m].extra[k]
            /\ \A i \in 1..MaxPseudo : i # m => d.vif[i] = b.vif[i]
        BY <3>1, <4>1, <4>2, <4>3, CloseGroupSets
      <4> QED
        BY <3>4, <3>5, <4>4
    <3>7. ASSUME NEW j \in 2..len PROVE d.vif[m].extra[j - 2] = Interface(g.ips[j])
      <4>1. j - 2 \in 0..(MaxDep - 1) /\ j - 2 # len - 1 /\ (j - 2) + 1 \in 1..(len - 1) /\ (j - 2) + 1 = j - 1
        BY <1>0, <1>1
      <4>2. t[j - 1] = g.ips[j]
        BY <3>2, <4>1 DEF t
      <4>3. b.vif[m].extra[j - 2] = Interface(t[j - 1])
        BY <3>4, <3>5, <4>1
      <4> QED
        BY <3>6, <4>1, <4>2, <4>3
    <3>8. Holds(d.vif[m], g)
      BY <1>3, <3>4, <3>6, <3>7 DEF Holds
    <3>9. \A i \in 1..MaxPseudo : i # m => d.vif[i] = c.vif[i]
      BY <1>3, <3>4, <3>6
    <3> QED
      BY <3>6, <3>8, <3>9
  <2> QED
    BY <2>1, <2>2
<1> HIDE DEF d, m
<1>5. r.vif = d.vif /\ r.iplistn = d.iplistn /\ r.n = d.n + 1 /\ Tables(r)
  BY <1>2, <1>4 DEF Tables
<1> QED
  BY <1>4, <1>5 DEF m

\* So one interface more of what is written has been read.
LEMMA ReadVifReads ==
  ASSUME NEW W, NEW m \in 0..(MaxPseudo - 1), W[m + 1] \in WrittenVif, NEW c, Reads(c, W, m)
  PROVE  Reads(ReadVif(c, W[m + 1]), W, m + 1)
<1> DEFINE r == ReadVif(c, W[m + 1])
<1>0. MaxPseudo \in Nat
  BY ConfigAssumption
<1>1. Tables(c) /\ c.n = m /\ c.iplistn = 0 /\ c.vif[m + 1] = EmptyVif
  BY <1>0 DEF Reads
<1> HIDE DEF r
<1>2. /\ Tables(r) /\ r.n = m + 1 /\ r.iplistn = 0 /\ Holds(r.vif[m + 1], W[m + 1])
      /\ \A i \in 1..MaxPseudo : i # m + 1 => r.vif[i] = c.vif[i]
  BY <1>1, ReadVifHolds DEF r
<1>3. ASSUME NEW i \in 1..(m + 1) PROVE Holds(r.vif[i], W[i])
  <2>1. CASE i = m + 1
    BY <1>2, <2>1
  <2>2. CASE i # m + 1
    <3>1. i \in 1..m /\ i \in 1..MaxPseudo
      BY <1>0, <2>2
    <3> QED
      BY <1>2, <2>2, <3>1 DEF Reads
  <2> QED
    BY <2>1, <2>2
<1>4. ASSUME NEW i \in ((m + 1) + 1)..MaxPseudo PROVE r.vif[i] = EmptyVif
  <2>1. i \in (m + 1)..MaxPseudo /\ i # m + 1 /\ i \in 1..MaxPseudo
    BY <1>0
  <2> QED
    BY <1>2, <2>1 DEF Reads
<1> QED
  BY <1>2, <1>3, <1>4 DEF Reads, r

\* And after a statement all of it.
LEMMA StatementReads ==
  ASSUME NEW W, NEW m \in Nat, NEW list \in Seq(WrittenVif), m + Len(list) <= MaxPseudo,
         \A k \in 1..Len(list) : W[m + k] = list[k], NEW c, Reads(c, W, m)
  PROVE  Reads(ReadVifs(c, list), W, m + Len(list))
<1> DEFINE n == Len(list)
<1>0. n \in Nat /\ DOMAIN list = 1..n /\ MaxPseudo \in Nat
  BY ConfigAssumption
<1>1. PICK h : /\ h[0] = c /\ ReadVifs(c, list) = h[n]
               /\ \A k \in 1..n : h[k] = ReadVif(h[k - 1], list[k])
  <2> HIDE DEF n
  <2>1. \E h : /\ h[0] = c /\ ReadVifs(c, list) = h[n]
               /\ \A k \in 1..n : h[k] = ReadVif(h[k - 1], list[k])
    BY <1>0, FoldSteps
  <2> QED
    BY <2>1
<1> DEFINE Good == {k \in 0..n : Reads(h[k], W, m + k)}
<1>2. 0 \in Good
  BY <1>0, <1>1
<1>3. ASSUME NEW k \in 1..n, k - 1 \in Good PROVE k \in Good
  <2> DEFINE e == h[k - 1]
             p == m + (k - 1)
  <2>1. p \in 0..(MaxPseudo - 1) /\ p + 1 = m + k
    BY <1>0
  <2>2. W[p + 1] = list[k] /\ list[k] \in WrittenVif
    BY <1>0, <2>1
  <2>3. Reads(e, W, p)
    BY <1>3
  <2>4. h[k] = ReadVif(e, W[p + 1])
    BY <1>1, <2>2
  <2> HIDE DEF e, p
  <2>5. Reads(ReadVif(e, W[p + 1]), W, p + 1)
    BY <2>1, <2>2, <2>3, ReadVifReads
  <2>6. Reads(h[k], W, m + k)
    BY <2>1, <2>4, <2>5
  <2> QED
    BY <2>6
<1>4. n \in Good
  <2> HIDE DEF Good, n
  <2> QED
    BY <1>0, <1>2, <1>3, UpFromZero
<1> QED
  BY <1>1, <1>4

-----------------------------------------------------------------------------
(* What is written before a place of the text. *)

Chunk(p) == IF text[p].k = "vifs" THEN text[p].list ELSE <<>>

\* h[p] is the interfaces that the first p statements list.
ListedUpTo(h) ==
  /\ h \in [0..Len(text) -> Seq(WrittenVif)]
  /\ h[0] = <<>> /\ h[Len(text)] = Listed("vifs")
  /\ \A p \in 1..Len(text) : h[p] = h[p - 1] \o Chunk(p)

\* A text is a sequence, and lists interfaces by the statement.
LEMMA TextType ==
  ASSUME TextFine
  PROVE  /\ Len(text) \in Nat /\ DOMAIN text = 1..Len(text)
         /\ \A p \in DOMAIN text : Chunk(p) \in Seq(WrittenVif)
<1>1. Len(text) \in Nat /\ DOMAIN text = 1..Len(text)
  BY DEF TextFine
<1>2. ASSUME NEW p \in DOMAIN text PROVE Chunk(p) \in Seq(WrittenVif)
  <2>1. text[p].k = "vifs" => text[p].list \in Seq(WrittenVif)
    BY DEF TextFine
  <2>2. <<>> \in Seq(WrittenVif)
    OBVIOUS
  <2> QED
    BY <2>1, <2>2, Zenon DEF Chunk
<1> QED
  BY <1>1, <1>2

\* What a text lists is listed statement by statement.
LEMMA ListedExists ==
  ASSUME TextFine
  PROVE  \E h : ListedUpTo(h)
<1> DEFINE n == Len(text)
           s == [p \in DOMAIN text |-> Chunk(p)]
<1>1. n \in Nat /\ DOMAIN text = 1..n /\ \A p \in 1..n : Chunk(p) \in Seq(WrittenVif)
  BY TextType
<1>2. Listed("vifs") = FlattenSeq(s)
  BY Zenon DEF Listed, Chunk
<1>3. s = [p \in 1..n |-> Chunk(p)]
  BY <1>1
<1>4. s \in Seq(Seq(WrittenVif)) /\ Len(s) = n
  BY <1>1, <1>3
<1> HIDE DEF s
<1>5. CASE n = 0
  <2>1. Listed("vifs") = <<>>
    <3>1. FlattenSeq(s) = s
      BY <1>4, <1>5 DEF FlattenSeq
    <3>2. s = <<>>
      BY <1>4, <1>5
    <3> QED
      BY <1>2, <3>1, <3>2
  <2> DEFINE h == [p \in 0..n |-> <<>>]
  <2>2. h \in [0..n -> Seq(WrittenVif)] /\ h[0] = <<>> /\ h[n] = <<>>
    BY <1>1
  <2>3. \A p \in 1..n : FALSE
    BY <1>5
  <2> HIDE DEF h
  <2>4. ListedUpTo(h)
    BY <2>1, <2>2, <2>3 DEF ListedUpTo
  <2> QED
    BY <2>4
<1>6. CASE n # 0
  <2>1. \E f : Flattens(s, n, f)
    BY <1>1, FlattensExists
  <2>2. \E f : f = [k \in 1..Len(s) |-> IF k = 1 THEN s[k] ELSE f[k - 1] \o s[k]]
    BY <1>4, <2>1 DEF Flattens
  <2>3. PICK f : /\ f = [k \in 1..Len(s) |-> IF k = 1 THEN s[k] ELSE f[k - 1] \o s[k]]
                 /\ FlattenSeq(s) = f[Len(s)]
    BY <1>4, <1>6, <2>2 DEF FlattenSeq
  <2>4. ASSUME NEW k \in 1..n PROVE f[k] = IF k = 1 THEN s[k] ELSE f[k - 1] \o s[k]
    BY <1>4, <2>3, Zenon
  <2>5. \A k \in 1..n : s[k] = Chunk(k)
    BY <1>3
  <2> DEFINE h == [p \in 0..n |-> IF p = 0 THEN <<>> ELSE f[p]]
  <2>6. h[0] = <<>> /\ \A p \in 1..n : h[p] = f[p]
    BY <1>1
  <2>7. h[n] = Listed("vifs")
    <3>1. n \in 1..n
      BY <1>1, <1>6
    <3>2. h[n] = f[n]
      BY <2>6, <3>1
    <3> HIDE DEF h
    <3> QED
      BY <1>2, <1>4, <2>3, <3>2, Zenon
  <2>10. DOMAIN h = 0..n /\ h = [p \in DOMAIN h |-> h[p]]
    OBVIOUS
  <2> HIDE DEF h
  <2>8. ASSUME NEW p \in 1..n PROVE h[p] = h[p - 1] \o Chunk(p)
    <3>1. CASE p = 1
      <4>1. h[p] = Chunk(p) /\ h[p - 1] = <<>> /\ Chunk(p) \in Seq(WrittenVif)
        BY <1>1, <2>4, <2>5, <2>6, <3>1
      <4> HIDE DEF n
      <4> QED
        BY <4>1
    <3>2. CASE p # 1
      <4>1. p - 1 \in 1..n
        BY <1>1, <3>2
      <4> QED
        BY <2>4, <2>5, <2>6, <3>2, <4>1
    <3> QED
      BY <3>1, <3>2
  <2>9. \A p \in 0..n : h[p] \in Seq(WrittenVif)
    <3> SUFFICES ASSUME NEW q \in 0..n PROVE h[q] \in Seq(WrittenVif)
      OBVIOUS
    <3> DEFINE Good == {p \in 0..q : h[p] \in Seq(WrittenVif)}
    <3>1. 0 \in Good
      <4>1. <<>> \in Seq(WrittenVif) /\ 0 \in 0..q
        BY <1>1
      <4> QED
        BY <2>6, <4>1
    <3>2. ASSUME NEW p \in 1..q, p - 1 \in Good PROVE p \in Good
      <4>1. p \in 1..n /\ p \in 0..q
        BY <1>1
      <4>2. h[p - 1] \in Seq(WrittenVif) /\ Chunk(p) \in Seq(WrittenVif)
        BY <1>1, <3>2, <4>1
      <4>3. h[p] \in Seq(WrittenVif)
        <5> DEFINE u == h[p - 1]
                   w == Chunk(p)
        <5>1. h[p] = u \o w /\ u \in Seq(WrittenVif) /\ w \in Seq(WrittenVif)
          BY <2>8, <4>1, <4>2
        <5> HIDE DEF u, w
        <5> QED
          BY <5>1
      <4> QED
        BY <4>1, <4>3
    <3>3. q \in Nat
      BY <1>1
    <3> HIDE DEF Good
    <3>4. q \in Good
      BY <3>1, <3>2, <3>3, UpFromZero
    <3> QED
      BY <3>4 DEF Good
  <2>11. h \in [0..n -> Seq(WrittenVif)]
    BY <2>9, <2>10
  <2>12. ListedUpTo(h)
    BY <2>6, <2>7, <2>8, <2>11 DEF ListedUpTo
  <2> QED
    BY <2>12
<1> QED
  BY <1>5, <1>6

\* It is the beginning of what the whole text lists.
LEMMA ListedBegins ==
  ASSUME TextFine, NEW h, ListedUpTo(h), NEW p \in 0..Len(text)
  PROVE  /\ Len(h[p]) <= Len(Listed("vifs"))
         /\ \A x \in 1..Len(h[p]) : Listed("vifs")[x] = h[p][x]
<1> DEFINE n == Len(text)
           Good == {d \in 0..(n - p) : Len(h[p]) <= Len(h[p + d]) /\ \A x \in 1..Len(h[p]) : h[p + d][x] = h[p][x]}
<1>1. n \in Nat /\ DOMAIN text = 1..n /\ \A q \in 1..n : Chunk(q) \in Seq(WrittenVif)
  BY TextType
<1>2. \A q \in 0..n : h[q] \in Seq(WrittenVif)
  BY DEF ListedUpTo
<1>3. 0 \in Good
  <2>1. p + 0 = p /\ h[p] \in Seq(WrittenVif) /\ 0 \in 0..(n - p)
    BY <1>1, <1>2
  <2>2. Len(h[p]) \in Nat
    BY <2>1
  <2> QED
    BY <2>1, <2>2
<1>4. ASSUME NEW d \in 1..(n - p), d - 1 \in Good PROVE d \in Good
  <2> DEFINE q == p + d
             b == h[q - 1]
             e == Chunk(q)
  <2>1. q \in 1..n /\ p + (d - 1) = q - 1 /\ q - 1 \in 0..n /\ d \in 0..(n - p)
    BY <1>1
  <2>2. b \in Seq(WrittenVif) /\ e \in Seq(WrittenVif) /\ h[q] = b \o e /\ h[p] \in Seq(WrittenVif)
    BY <1>1, <1>2, <2>1 DEF ListedUpTo
  <2>3. Len(h[p]) <= Len(b) /\ \A x \in 1..Len(h[p]) : b[x] = h[p][x]
    BY <1>4, <2>1
  <2> HIDE DEF q, b, e
  <2>4. Len(h[q]) = Len(b) + Len(e) /\ \A x \in 1..Len(b) : h[q][x] = b[x]
    BY <2>2
  <2>5. Len(h[p]) \in Nat /\ Len(b) \in Nat /\ Len(e) \in Nat
    BY <2>2
  <2>6. Len(h[p]) <= Len(h[q])
    BY <2>3, <2>4, <2>5
  <2>7. \A x \in 1..Len(h[p]) : h[q][x] = h[p][x]
    BY <2>3, <2>4, <2>5
  <2> QED
    BY <2>1, <2>6, <2>7 DEF q
<1>5. n - p \in Nat /\ p + (n - p) = n
  BY <1>1
<1> HIDE DEF Good
<1>6. n - p \in Good
  BY <1>3, <1>4, <1>5, UpFromZero
<1> QED
  BY <1>5, <1>6 DEF Good, ListedUpTo

\* What the text gives the interfaces: to each a first address, and none that is zero.
LEMMA TableType ==
  ASSUME TextFine
  PROVE  /\ Len(Listed("vifs")) \in Nat /\ DOMAIN AddressTable = 1..Len(Listed("vifs"))
         /\ \A i \in DOMAIN AddressTable :
              /\ 1 \in DOMAIN AddressTable[i]
              /\ \A x \in DOMAIN AddressTable[i] : AddressTable[i][x].ip \in Ip \ {NoIp}
<1> DEFINE W == Listed("vifs")
<1>1. W \in Seq(WrittenVif)
  <2>1. PICK h : ListedUpTo(h)
    BY ListedExists
  <2>2. Len(text) \in 0..Len(text)
    BY TextType
  <2>3. W = h[Len(text)] /\ \A x \in 0..Len(text) : h[x] \in Seq(WrittenVif)
    BY <2>1 DEF ListedUpTo
  <2> HIDE DEF W
  <2> QED
    BY <2>2, <2>3
<1>2. AddressTable = [i \in 1..Len(W) |-> [k \in DOMAIN W[i].ips |-> Interface(W[i].ips[k])]]
  BY DEF AddressTable
<1> HIDE DEF W
<1>3. Len(W) \in Nat /\ \A i \in 1..Len(W) : W[i] \in WrittenVif
  BY <1>1
<1>4. ASSUME NEW i \in 1..Len(W)
      PROVE  /\ 1 \in DOMAIN AddressTable[i]
             /\ \A x \in DOMAIN AddressTable[i] : AddressTable[i][x].ip \in Ip \ {NoIp}
  <2>1. W[i].ips \in Seq(WrittenAddress) /\ Len(W[i].ips) \in 1..MaxDep
    BY <1>3 DEF WrittenVif
  <2>2. 1 \in DOMAIN W[i].ips /\ \A x \in DOMAIN W[i].ips : W[i].ips[x] \in WrittenAddress
    BY <2>1, ConfigAssumption
  <2>3. \A x \in DOMAIN W[i].ips : Interface(W[i].ips[x]).ip \in Ip \ {NoIp}
    <3> SUFFICES ASSUME NEW x \in DOMAIN W[i].ips PROVE Interface(W[i].ips[x]).ip \in Ip \ {NoIp}
      OBVIOUS
    <3>1. W[i].ips[x] \in WrittenAddress
      BY <2>2
    <3>2. W[i].ips[x].ip \in Ip
      BY <3>1 DEF WrittenAddress
    <3> QED
      BY <3>1, <3>2, InterfaceOf
  <2>4. AddressTable[i] = [k \in DOMAIN W[i].ips |-> Interface(W[i].ips[k])]
    BY <1>2
  <2> QED
    BY <2>2, <2>3, <2>4
<1> QED
  BY <1>2, <1>3, <1>4 DEF W

-----------------------------------------------------------------------------
(* Reading the text. *)

\* The loops over an interface go through what it holds.
LEMMA HoldsAddresses ==
  ASSUME NEW i, cf.vif[i] \in VifType, NEW g \in WrittenVif, Holds(cf.vif[i], g)
  PROVE  Addresses(i) = [k \in DOMAIN g.ips |-> Interface(g.ips[k])]
<1> DEFINE at(k) == IF k = 1 THEN cf.vif[i].pseudo ELSE cf.vif[i].extra[k - 2]
           len == Len(g.ips)
           Ends(k) == (\A j \in 1..k : at(j).ip # NoIp) /\ (k = MaxDep \/ at(k + 1).ip = NoIp)
<1>1. /\ MaxDep \in Nat \ {0} /\ g.ips \in Seq(WrittenAddress) /\ len \in 1..MaxDep
      /\ DOMAIN g.ips = 1..len /\ \A k \in 1..len : g.ips[k] \in WrittenAddress
  BY ConfigAssumption DEF WrittenVif
<1>2. ASSUME NEW k \in 1..len PROVE at(k) = Interface(g.ips[k])
  <2>1. CASE k = 1
    BY <2>1 DEF Holds
  <2>2. CASE k # 1
    <3>1. k \in 2..len
      BY <1>1, <2>2
    <3> QED
      BY <2>2, <3>1 DEF Holds
  <2> QED
    BY <2>1, <2>2
<1>3. ASSUME NEW k \in 1..len PROVE at(k).ip # NoIp
  <2>1. at(k) = Interface(g.ips[k]) /\ g.ips[k] \in WrittenAddress
    BY <1>1, <1>2
  <2> HIDE DEF at, len
  <2>2. Interface(g.ips[k]).ip # NoIp
    BY <2>1, InterfaceOf
  <2> QED
    BY <2>1, <2>2
<1>4. at(len + 1).ip = NoIp
  <2>1. len + 1 # 1 /\ (len + 1) - 2 = len - 1
    BY <1>1
  <2> QED
    BY <2>1 DEF Holds
<1> HIDE DEF at
<1>5. len \in 0..MaxDep /\ Ends(len)
  BY <1>1, <1>3, <1>4
<1>6. ASSUME NEW k \in 0..MaxDep, Ends(k) PROVE k = len
  <2>1. ~(k < len)
    <3> SUFFICES ASSUME k < len PROVE FALSE
      OBVIOUS
    <3>1. k # MaxDep /\ k + 1 \in 1..len
      BY <1>1
    <3> QED
      BY <1>3, <1>6, <3>1
  <2>2. ~(len < k)
    <3> SUFFICES ASSUME len < k PROVE FALSE
      OBVIOUS
    <3>1. len + 1 \in 1..k
      BY <1>1
    <3> QED
      BY <1>4, <1>6, <3>1
  <2> QED
    BY <1>1, <2>1, <2>2
<1> DEFINE n == CHOOSE k \in 0..MaxDep : Ends(k)
<1>7. Addresses(i) = [k \in 1..n |-> at(k)]
  BY DEF Addresses, at
<1> HIDE DEF Ends
<1>8. n = len
  BY <1>5, <1>6
<1> HIDE DEF n, len
<1>9. Addresses(i) = [k \in 1..len |-> at(k)]
  BY <1>7, <1>8
<1> QED
  BY <1>1, <1>2, <1>9

\* What is read of other statements is read elsewhere.
LEMMA OthersApart ==
  ASSUME NEW c, NEW W, NEW m, Reads(c, W, m), NEW s, s.k # "vifs",
         s.k \in {"text", "time", "rate", "all", "notify", "noprefer", "prefer", "hook"}
  PROVE  Reads(Apply(c, s), W, m)
<1> DEFINE d == Apply(c, s)
<1>1. Tables(c)
  BY DEF Reads
<1>2. /\ d.vif = c.vif /\ d.n = c.n /\ d.iplistn = c.iplistn
      /\ d = [secs |-> d.secs, texts |-> d.texts, rate |-> d.rate, complete |-> d.complete, notify |-> d.notify,
              prefer |-> d.prefer, handlers |-> d.handlers, vif |-> d.vif, n |-> d.n, iplistn |-> d.iplistn]
  <2>1. CASE s.k = "text"
    <3>1. d = [c EXCEPT !.texts[s.name] = s.value]
      BY <2>1 DEF Apply
    <3> HIDE DEF d
    <3> QED
      BY <1>1, <3>1 DEF Tables
  <2>2. CASE s.k = "time"
    <3>1. d = [c EXCEPT !.secs[s.name] = Seconds(s.n, s.unit)]
      BY <2>2 DEF Apply
    <3> HIDE DEF d
    <3> QED
      BY <1>1, <3>1 DEF Tables
  <2>3. CASE s.k = "rate"
    <3>1. d = [c EXCEPT !.rate = s.n]
      BY <2>3 DEF Apply
    <3> HIDE DEF d
    <3> QED
      BY <1>1, <3>1 DEF Tables
  <2>4. CASE s.k = "all"
    <3>1. d = [c EXCEPT !.complete = TRUE]
      BY <2>4 DEF Apply
    <3> HIDE DEF d
    <3> QED
      BY <1>1, <3>1 DEF Tables
  <2>5. CASE s.k = "notify"
    <3>1. d = AddNotifications(c, s.list)
      BY <2>5 DEF Apply
    <3> HIDE DEF d
    <3> QED
      BY <1>1, <3>1 DEF Tables, AddNotifications
  <2>6. CASE s.k = "noprefer"
    <3>1. d = AddPrefers(c, <<NoIp>>)
      BY <2>6 DEF Apply
    <3> HIDE DEF d
    <3> QED
      BY <1>1, <3>1 DEF Tables, AddPrefers
  <2>7. CASE s.k = "prefer"
    <3>1. d = AddPrefers(c, Blocks(s.list, s.braces))
      BY <2>7 DEF Apply
    <3> HIDE DEF d
    <3> QED
      BY <1>1, <3>1 DEF Tables, AddPrefers
  <2>8. CASE s.k = "hook"
    <3>1. d = IF s.loads THEN [c EXCEPT !.handlers = Append(@, s.type)] ELSE c
      BY <2>8 DEF Apply, Register
    <3> HIDE DEF d
    <3> QED
      BY <1>1, <3>1 DEF Tables
  <2> QED
    BY <2>1, <2>2, <2>3, <2>4, <2>5, <2>6, <2>7, <2>8
<1> HIDE DEF d
<1>3. Tables(d)
  BY <1>1, <1>2 DEF Tables
<1> QED
  BY <1>2, <1>3 DEF Reads, d

\* What the statements before this one list has been read.
ParseInv ==
  /\ TextFine /\ pos \in 1..(Len(text) + 1)
  /\ \E h : ListedUpTo(h) /\ Reads(cf, Listed("vifs"), Len(h[pos - 1]))

\* One statement more.
LEMMA ApplyReads ==
  ASSUME TextFine, NEW p \in 1..Len(text), NEW h, ListedUpTo(h), NEW c, Reads(c, Listed("vifs"), Len(h[p - 1]))
  PROVE  Reads(Apply(c, text[p]), Listed("vifs"), Len(h[p]))
<1> DEFINE W == Listed("vifs")
           q == h[p - 1]
           e == Chunk(p)
           m == Len(q)
<1>1. /\ Len(text) \in Nat /\ p \in DOMAIN text /\ p - 1 \in 0..Len(text) /\ p \in 0..Len(text)
      /\ e \in Seq(WrittenVif)
  BY TextType
<1>2. q \in Seq(WrittenVif) /\ h[p] = q \o e
  BY <1>1 DEF ListedUpTo
<1>3. Len(h[p]) <= Len(W) /\ \A x \in 1..Len(h[p]) : W[x] = h[p][x]
  BY <1>1, ListedBegins
<1>4. Len(W) <= MaxPseudo /\ Len(W) \in Nat /\ MaxPseudo \in Nat
  <2>1. W \in Seq(WrittenVif)
    <3>1. Len(text) \in 0..Len(text)
      BY <1>1
    <3>2. W = h[Len(text)] /\ \A x \in 0..Len(text) : h[x] \in Seq(WrittenVif)
      BY DEF ListedUpTo
    <3> HIDE DEF W
    <3> QED
      BY <3>1, <3>2
  <2> HIDE DEF W
  <2>2. Len(W) \in Nat
    BY <2>1
  <2> QED
    BY <2>2, ConfigAssumption DEF TextFine, W
<1> HIDE DEF W, q, e
<1>5. /\ m \in Nat /\ Len(e) \in Nat /\ Len(h[p]) = m + Len(e)
      /\ \A k \in 1..Len(e) : h[p][m + k] = e[k]
  BY <1>1, <1>2
<1>6. Reads(c, W, m)
  BY DEF W, q
<1>7. CASE text[p].k = "vifs"
  <2>1. Apply(c, text[p]) = ReadVifs(c, e)
    BY <1>7 DEF Apply, Chunk, e
  <2>2. ASSUME NEW k \in 1..Len(e) PROVE W[m + k] = e[k]
    <3>1. m + k \in 1..Len(h[p])
      BY <1>5
    <3> QED
      BY <1>3, <1>5, <3>1
  <2>3. m + Len(e) <= MaxPseudo
    BY <1>3, <1>4, <1>5
  <2> HIDE DEF m
  <2>4. Reads(ReadVifs(c, e), W, m + Len(e))
    BY <1>1, <1>5, <1>6, <2>2, <2>3, StatementReads
  <2> QED
    BY <1>5, <2>1, <2>4 DEF W
<1>8. CASE text[p].k # "vifs"
  <2>1. text[p].k \in {"text", "time", "rate", "all", "notify", "noprefer", "prefer", "hook"}
    BY <1>1, <1>8 DEF TextFine
  <2>2. Reads(Apply(c, text[p]), W, m)
    BY <1>6, <1>8, <2>1, OthersApart
  <2>3. Len(e) = 0
    BY <1>8 DEF e, Chunk
  <2>4. Len(h[p]) = m
    BY <1>5, <2>3
  <2> QED
    BY <2>2, <2>4 DEF W
<1> QED
  BY <1>7, <1>8

\* The text stays what it is.
LEMMA TextStays ==
  ASSUME [Next]_vars
  PROVE  text' = text
BY DEF Next, vars, ReadConfig, Read, Start, Call, CallFails, Execute, Batch, Reconnect, Signal, Exit,
       Crash, Restart

\* And with it what it lists.
LEMMA ListedStays ==
  ASSUME text' = text
  PROVE  Listed("vifs")' = Listed("vifs") /\ (TextFine' <=> TextFine) /\ \A h : ListedUpTo(h)' <=> ListedUpTo(h)
<1>1. Listed("vifs")' = Listed("vifs")
  BY DEF Listed
<1>2. \A p : Chunk(p)' = Chunk(p)
  BY DEF Chunk
<1>3. TextFine' <=> TextFine
  BY <1>1 DEF TextFine
<1>4. ASSUME NEW h PROVE ListedUpTo(h)' <=> ListedUpTo(h)
  BY <1>1, <1>2 DEF ListedUpTo
<1> QED
  BY <1>1, <1>3, <1>4

\* At the beginning nothing has been read.
LEMMA NothingRead ==
  ASSUME TextFine
  PROVE  1 \in 1..(Len(text) + 1) /\ \E h : ListedUpTo(h) /\ Reads(EmptyConfig, Listed("vifs"), Len(h[1 - 1]))
<1>1. PICK h : ListedUpTo(h)
  BY ListedExists
<1>2. Len(h[1 - 1]) = 0 /\ Len(text) \in Nat
  <2>1. h[0] = <<>>
    BY <1>1 DEF ListedUpTo
  <2> QED
    BY <2>1, TextType
<1>3. MaxPseudo \in Nat
  BY ConfigAssumption
<1>4. /\ EmptyConfig.vif = [i \in 1..MaxPseudo |-> EmptyVif] /\ EmptyConfig.n = 0 /\ EmptyConfig.iplistn = 0
      /\ EmptyConfig = [secs |-> EmptyConfig.secs, texts |-> EmptyConfig.texts, rate |-> EmptyConfig.rate,
           complete |-> EmptyConfig.complete, notify |-> EmptyConfig.notify, prefer |-> EmptyConfig.prefer,
           handlers |-> EmptyConfig.handlers, vif |-> EmptyConfig.vif, n |-> EmptyConfig.n,
           iplistn |-> EmptyConfig.iplistn]
  BY DEF EmptyConfig
<1> DEFINE c == EmptyConfig
<1> HIDE DEF c
<1>5. Tables(c)
  BY <1>4, NothingType DEF Tables, c
<1>6. Reads(c, Listed("vifs"), 0)
  BY <1>3, <1>4, <1>5 DEF Reads, c
<1> QED
  BY <1>1, <1>2, <1>6 DEF c

\* A daemon begins before the first statement.
LEMMA ParseInit ==
  ASSUME Init, TextFine
  PROVE  ParseInv
<1>1. pos = 1 /\ cf = EmptyConfig
  BY DEF Init, ConfigInit
<1> QED
  BY <1>1, NothingRead DEF ParseInv

\* Reading takes one statement more, and only a restart begins again.
LEMMA ParseStep ==
  ASSUME ParseInv, [Next]_vars
  PROVE  ParseInv'
<1>0. text' = text /\ TextFine
  BY TextStays DEF ParseInv
<1>1. TextFine' /\ Listed("vifs")' = Listed("vifs") /\ \A h : ListedUpTo(h)' <=> ListedUpTo(h)
  BY <1>0, ListedStays
<1>2. CASE ReadConfig
  <2>1. pos <= Len(text) /\ cf' = Apply(cf, text[pos]) /\ pos' = pos + 1
    BY <1>2 DEF ReadConfig, Read
  <2>2. PICK h : ListedUpTo(h) /\ Reads(cf, Listed("vifs"), Len(h[pos - 1]))
    BY DEF ParseInv
  <2>3. Len(text) \in Nat /\ pos \in 1..Len(text)
    BY <1>0, <2>1, TextType DEF ParseInv
  <2>4. Reads(cf', Listed("vifs"), Len(h[pos]))
    BY <1>0, <2>1, <2>2, <2>3, ApplyReads
  <2>5. pos' \in 1..(Len(text) + 1) /\ pos' - 1 = pos
    BY <2>1, <2>3
  <2> QED
    BY <1>0, <1>1, <2>2, <2>4, <2>5 DEF ParseInv
<1>3. CASE Restart
  <2>1. pos' = 1 /\ cf' = EmptyConfig
    BY <1>3 DEF Restart
  <2>2. PICK h : ListedUpTo(h) /\ Reads(EmptyConfig, Listed("vifs"), Len(h[1 - 1]))
    BY <1>0, NothingRead
  <2>3. 1 \in 1..(Len(text) + 1)
    BY <1>0, NothingRead
  <2> QED
    BY <1>0, <1>1, <2>1, <2>2, <2>3 DEF ParseInv
<1>4. CASE ~ReadConfig /\ ~Restart
  <2>1. pos' = pos /\ cf' = cf
    BY <1>4 DEF Next, vars, Start, Call, CallFails, Execute, Batch, Reconnect, Signal, Exit, Crash
  <2> QED
    BY <1>0, <1>1, <2>1 DEF ParseInv
<1> QED
  BY <1>2, <1>3, <1>4

\* And at the end all of it.
LEMMA ParsedAll ==
  ASSUME ParseInv
  PROVE  VifsRead
<1> SUFFICES ASSUME AllRead PROVE VifsAsWritten
  BY DEF VifsRead
<1> DEFINE W == Listed("vifs")
<1>1. TextFine /\ Len(text) \in Nat /\ pos - 1 = Len(text)
  BY TextType DEF ParseInv, AllRead
<1>2. PICK h : ListedUpTo(h) /\ Reads(cf, W, Len(h[pos - 1]))
  BY DEF ParseInv
<1>3. h[pos - 1] = W /\ W \in Seq(WrittenVif)
  BY <1>1, <1>2 DEF ListedUpTo
<1>4. Len(W) <= MaxPseudo
  BY <1>1 DEF TextFine
<1> HIDE DEF W
<1>5. Reads(cf, W, Len(W)) /\ Len(W) \in Nat /\ DOMAIN W = 1..Len(W) /\ MaxPseudo \in Nat
  BY <1>2, <1>3, ConfigAssumption
<1>6. cf.n = Len(W)
  BY <1>5 DEF Reads
<1>7. ASSUME NEW i \in 1..cf.n PROVE Addresses(i) = AddressTable[i]
  <2>1. i \in 1..Len(W) /\ i \in 1..MaxPseudo /\ W[i] \in WrittenVif
    BY <1>3, <1>4, <1>5, <1>6
  <2>2. Holds(cf.vif[i], W[i]) /\ cf.vif[i] \in VifType
    BY <1>5, <2>1 DEF Reads, Tables
  <2>3. Addresses(i) = [k \in DOMAIN W[i].ips |-> Interface(W[i].ips[k])]
    BY <2>1, <2>2, HoldsAddresses
  <2> QED
    BY <2>1, <2>3, Zenon DEF AddressTable, W
<1> QED
  BY <1>6, <1>7 DEF VifsAsWritten, W

\* Every interface has the addresses written for it, however statements, sets and single
\* addresses follow each other, with any number of them, if the tables can hold the text.
THEOREM VifsCorrect == Spec /\ TextFine => []VifsRead
<1>1. Init /\ TextFine => ParseInv
  BY ParseInit
<1>2. ParseInv /\ [Next]_vars => ParseInv'
  BY ParseStep
<1>3. ParseInv => VifsRead
  BY ParsedAll
<1> QED
  BY <1>1, <1>2, <1>3, PTL DEF Spec

-----------------------------------------------------------------------------
(* What a sequence of calls tells. *)

\* The first call is made.
LEMMA TailTells ==
  ASSUME NEW q \in Seq(CallType), q # <<>>, NEW i, NEW e \in Event
  PROVE  /\ Tail(q) \in Seq(CallType) /\ Head(q) \in CallType
         /\ Silent(q, i) => Silent(Tail(q), i) /\ ~(Head(q).vif = i /\ Head(q).call \in Event)
         /\ Final(q, i, e) => \/ Final(Tail(q), i, e)
                              \/ Head(q).vif = i /\ Head(q).call = e /\ Silent(Tail(q), i)
<1> DEFINE t == Tail(q)
<1>1. /\ t \in Seq(CallType) /\ Len(q) \in Nat \ {0} /\ Len(t) = Len(q) - 1
      /\ DOMAIN q = 1..Len(q) /\ DOMAIN t = 1..Len(t)
      /\ \A x \in 1..Len(t) : t[x] = q[x + 1]
      /\ Head(q) = q[1] /\ q[1] \in CallType
  OBVIOUS
<1> HIDE DEF t
<1>2. \A x \in DOMAIN t : x + 1 \in DOMAIN q
  BY <1>1
<1>3. Silent(q, i) => Silent(t, i)
  BY <1>1, <1>2 DEF Silent
<1>4. Silent(q, i) => ~(Head(q).vif = i /\ Head(q).call \in Event)
  BY <1>1 DEF Silent
<1>5. ASSUME Final(q, i, e)
      PROVE  Final(t, i, e) \/ (Head(q).vif = i /\ Head(q).call = e /\ Silent(t, i))
  <2>1. PICK x \in DOMAIN q :
          /\ q[x].vif = i /\ q[x].call = e
          /\ \A y \in DOMAIN q : x < y /\ q[y].vif = i => q[y].call \notin Event
    BY <1>5 DEF Final
  <2>2. CASE x = 1
    <3>1. \A y \in DOMAIN t : t[y].vif = i => t[y].call \notin Event
      BY <1>1, <1>2, <2>1, <2>2
    <3> QED
      BY <1>1, <2>1, <2>2, <3>1 DEF Silent
  <2>3. CASE x # 1
    <3>1. x - 1 \in DOMAIN t /\ t[x - 1] = q[x]
      BY <1>1, <2>3
    <3>2. \A y \in DOMAIN t : x - 1 < y => x < y + 1 /\ y + 1 \in DOMAIN q /\ t[y] = q[y + 1]
      BY <1>1, <2>3
    <3> QED
      BY <2>1, <3>1, <3>2 DEF Final
  <2> QED
    BY <2>2, <2>3
<1> QED
  BY <1>1, <1>3, <1>4, <1>5 DEF t

\* Calls behind others.
LEMMA ConcatTells ==
  ASSUME NEW p \in Seq(CallType), NEW q \in Seq(CallType), NEW i, NEW e
  PROVE  /\ p \o q \in Seq(CallType)
         /\ Silent(p, i) /\ Silent(q, i) => Silent(p \o q, i)
         /\ Final(q, i, e) => Final(p \o q, i, e)
         /\ Final(p, i, e) /\ Silent(q, i) => Final(p \o q, i, e)
<1> DEFINE r == p \o q
           m == Len(p)
<1>1. /\ r \in Seq(CallType) /\ m \in Nat /\ Len(q) \in Nat /\ Len(r) = m + Len(q)
      /\ DOMAIN p = 1..m /\ DOMAIN q = 1..Len(q) /\ DOMAIN r = 1..(m + Len(q))
      /\ \A x \in 1..m : r[x] = p[x]
      /\ \A x \in 1..Len(q) : r[m + x] = q[x]
  OBVIOUS
<1> HIDE DEF r, m
<1>2. \A x \in DOMAIN r : \/ x \in DOMAIN p /\ r[x] = p[x]
                          \/ x - m \in DOMAIN q /\ r[x] = q[x - m] /\ m < x
  <2> SUFFICES ASSUME NEW x \in DOMAIN r, ~(x \in DOMAIN p)
               PROVE  x - m \in DOMAIN q /\ r[x] = q[x - m] /\ m < x
    BY <1>1
  <2>1. x - m \in DOMAIN q /\ m < x /\ m + (x - m) = x
    BY <1>1
  <2> QED
    BY <1>1, <2>1
<1>3. Silent(p, i) /\ Silent(q, i) => Silent(r, i)
  BY <1>2, Zenon DEF Silent
<1>4. ASSUME Final(q, i, e) PROVE Final(r, i, e)
  <2>1. PICK x \in DOMAIN q :
          /\ q[x].vif = i /\ q[x].call = e
          /\ \A y \in DOMAIN q : x < y /\ q[y].vif = i => q[y].call \notin Event
    BY <1>4 DEF Final
  <2>2. m + x \in DOMAIN r /\ r[m + x] = q[x]
    BY <1>1
  <2>3. ASSUME NEW y \in DOMAIN r, m + x < y PROVE y - m \in DOMAIN q /\ r[y] = q[y - m] /\ x < y - m
    BY <1>1, <1>2, <2>3
  <2> QED
    BY <2>1, <2>2, <2>3 DEF Final
<1>5. ASSUME Final(p, i, e), Silent(q, i) PROVE Final(r, i, e)
  <2>1. PICK x \in DOMAIN p :
          /\ p[x].vif = i /\ p[x].call = e
          /\ \A y \in DOMAIN p : x < y /\ p[y].vif = i => p[y].call \notin Event
    BY <1>5 DEF Final
  <2>2. x \in DOMAIN r /\ r[x] = p[x]
    BY <1>1
  <2>3. ASSUME NEW y \in DOMAIN r, x < y, r[y].vif = i PROVE r[y].call \notin Event
    BY <1>2, <1>5, <2>1, <2>3 DEF Silent
  <2> QED
    BY <2>1, <2>2, <2>3 DEF Final
<1> QED
  BY <1>1, <1>3, <1>4, <1>5 DEF r

\* Sequences of one element and of two.
LEMMA Single ==
  ASSUME NEW X, NEW x \in X
  PROVE  <<x>> \in Seq(X) /\ DOMAIN <<x>> = 1..1 /\ <<x>>[1] = x
<1>1. <<x>> \in Seq(X) /\ DOMAIN <<x>> = 1..1
  OBVIOUS
<1> QED
  BY <1>1

\* A sequence of two.
LEMMA Pair ==
  ASSUME NEW X, NEW x \in X, NEW y \in X
  PROVE  /\ <<x, y>> \in Seq(X) /\ DOMAIN <<x, y>> = 1..2
         /\ <<x, y>>[1] = x /\ <<x, y>>[2] = y
<1>1. <<x, y>> \in Seq(X) /\ DOMAIN <<x, y>> = 1..2
  OBVIOUS
<1> QED
  BY <1>1

\* A sequence given as a function has the length of its domain.
LEMMA LengthOf == ASSUME NEW n \in Nat, NEW X, NEW s \in [1..n -> X] PROVE Len(s) = n
<1>1. s \in Seq(X)
  OBVIOUS
<1>2. DOMAIN s = 1..Len(s) /\ Len(s) \in Nat /\ DOMAIN s = 1..n
  BY <1>1
<1> QED
  BY <1>2

\* Sequences of calls one after the other.
LEMMA FlattenCalls ==
  ASSUME NEW n \in Nat, NEW s \in [1..n -> Seq(CallType)]
  PROVE  FlattenSeq(s) \in Seq(CallType)
<1>1. Len(s) = n
  BY LengthOf
<1>2. CASE n = 0
  <2>1. s = <<>>
    BY <1>2
  <2>2. FlattenSeq(s) = s
    BY <1>1, <1>2, Zenon DEF FlattenSeq
  <2>3. <<>> \in Seq(CallType)
    OBVIOUS
  <2> QED
    BY <2>1, <2>2, <2>3, Zenon
<1>3. CASE n # 0
  <2> DEFINE G == [k \in 1..n |-> Seq(CallType)]
  <2>1. \A k \in 1..n : G[k] = Seq(CallType)
    OBVIOUS
  <2> HIDE DEF G
  <2>2. s[1] \in G[1] /\ \A k \in 2..n : \A q \in G[k - 1] : q \o s[k] \in G[k]
    <3>1. s[1] \in G[1]
      BY <1>3, <2>1
    <3>2. ASSUME NEW k \in 2..n, NEW q \in G[k - 1] PROVE q \o s[k] \in G[k]
      <4>1. q \in Seq(CallType) /\ s[k] \in Seq(CallType) /\ G[k] = Seq(CallType)
        BY <2>1
      <4> QED
        BY <4>1
    <3> QED
      BY <3>1, <3>2
  <2>3. FlattenSeq(s) \in G[n]
    BY <1>1, <1>3, <2>2, FlattenKeeps
  <2> QED
    BY <1>3, <2>1, <2>3
<1> QED
  BY <1>2, <1>3

\* If no turn of a loop tells anything of i, the loop does not.
LEMMA FlattenSilent ==
  ASSUME NEW n \in Nat, NEW s \in [1..n -> Seq(CallType)], NEW i, \A k \in 1..n : Silent(s[k], i)
  PROVE  Silent(FlattenSeq(s), i)
<1>1. Len(s) = n
  BY LengthOf
<1>2. CASE n = 0
  <2>1. DOMAIN s = {}
    BY <1>2
  <2>2. FlattenSeq(s) = s
    BY <1>1, <1>2, Zenon DEF FlattenSeq
  <2> QED
    BY <2>1, <2>2 DEF Silent
<1>3. CASE n # 0
  <2> DEFINE U == {q \in Seq(CallType) : Silent(q, i)}
             G == [k \in 1..n |-> U]
  <2>1. \A q : q \in U <=> q \in Seq(CallType) /\ Silent(q, i)
    OBVIOUS
  <2>2. \A k \in 1..n : G[k] = U
    OBVIOUS
  <2> HIDE DEF G, U
  <2>3. s[1] \in G[1]
    BY <1>3, <2>1, <2>2
  <2>4. ASSUME NEW k \in 2..n, NEW q \in G[k - 1] PROVE q \o s[k] \in G[k]
    <3>1. k \in 1..n /\ k - 1 \in 1..n
      OBVIOUS
    <3>2. q \in Seq(CallType) /\ s[k] \in Seq(CallType) /\ Silent(q, i) /\ Silent(s[k], i)
      BY <2>1, <2>2, <3>1
    <3>3. q \o s[k] \in U
      BY <2>1, <3>2, ConcatTells
    <3> QED
      BY <2>2, <3>1, <3>3
  <2>5. FlattenSeq(s) \in G[n]
    BY <1>1, <1>3, <2>3, <2>4, FlattenKeeps
  <2> QED
    BY <1>3, <2>1, <2>2, <2>5
<1> QED
  BY <1>2, <1>3

\* What the turn m of a loop tells last of i stays the last if later turns tell nothing of it.
LEMMA FlattenFinal ==
  ASSUME NEW n \in Nat, NEW s \in [1..n -> Seq(CallType)], NEW i, NEW e,
         NEW m \in 1..n, Final(s[m], i, e), \A k \in 1..n : m < k => Silent(s[k], i)
  PROVE  Final(FlattenSeq(s), i, e)
<1>1. Len(s) = n /\ n # 0
  BY LengthOf
<1> DEFINE U(k) == {q \in Seq(CallType) : m <= k => Final(q, i, e)}
           G == [k \in 1..n |-> U(k)]
<1>2. ASSUME NEW k \in 1..n PROVE \A q : q \in G[k] <=> q \in Seq(CallType) /\ (m <= k => Final(q, i, e))
  OBVIOUS
<1> HIDE DEF G
<1>3. s[1] \in G[1]
  <2>1. m <= 1 => m = 1
    OBVIOUS
  <2> QED
    BY <1>1, <1>2, <2>1
<1>4. ASSUME NEW k \in 2..n, NEW q \in G[k - 1] PROVE q \o s[k] \in G[k]
  <2>1. k \in 1..n /\ k - 1 \in 1..n
    OBVIOUS
  <2>2. q \in Seq(CallType) /\ s[k] \in Seq(CallType) /\ (m <= k - 1 => Final(q, i, e))
    BY <1>2, <2>1
  <2>3. CASE k < m
    <3>1. q \o s[k] \in Seq(CallType)
      BY <2>2
    <3>2. ~(m <= k)
      BY <2>3
    <3> QED
      BY <1>2, <2>1, <3>1, <3>2, Zenon
  <2>4. CASE k = m
    BY <1>2, <2>1, <2>2, <2>4, ConcatTells
  <2>5. CASE m < k
    <3>1. Silent(s[k], i) /\ Final(q, i, e)
      BY <2>1, <2>2, <2>5
    <3>2. q \o s[k] \in Seq(CallType) /\ Final(q \o s[k], i, e)
      BY <2>2, <3>1, ConcatTells
    <3> QED
      BY <1>2, <2>1, <3>2
  <2> QED
    BY <2>3, <2>4, <2>5
<1>5. FlattenSeq(s) \in G[n]
  BY <1>1, <1>3, <1>4, FlattenKeeps
<1> QED
  BY <1>1, <1>2, <1>5
-----------------------------------------------------------------------------
(* The calls of the handlers. *)

\* The loops over the addresses of an interface have a first turn, and an end.
LEMMA AddressesListed ==
  ASSUME EachHasAddress, NEW i \in Vif
  PROVE  \E n \in Nat \ {0} : DOMAIN Addresses(i) = 1..n
<1> DEFINE at(k) == IF k = 1 THEN cf.vif[i].pseudo ELSE cf.vif[i].extra[k - 2]
           S == {k \in 0..MaxDep : k = MaxDep \/ at(k + 1).ip = NoIp}
           n == CHOOSE k \in 0..MaxDep :
                  /\ \A j \in 1..k : at(j).ip # NoIp
                  /\ k = MaxDep \/ at(k + 1).ip = NoIp
<1>1. MaxDep \in Nat \ {0}
  BY ConfigAssumption
<1>2. at(1).ip # NoIp
  BY DEF EachHasAddress
<1> HIDE DEF at
<1>3. S \in SUBSET Nat /\ MaxDep \in S
  BY <1>1
<1>4. PICK k \in S : \A j \in S : k <= j
  <2> HIDE DEF S
  <2> QED
    BY <1>3, HasLeast
<1>5. /\ k \in 0..MaxDep /\ (k = MaxDep \/ at(k + 1).ip = NoIp)
      /\ \A j \in 1..k : at(j).ip # NoIp
  <2>1. k \in 0..MaxDep /\ (k = MaxDep \/ at(k + 1).ip = NoIp)
    OBVIOUS
  <2>2. ASSUME NEW j \in 1..k, at(j).ip = NoIp PROVE FALSE
    <3>1. j - 1 \in 0..MaxDep /\ (j - 1) + 1 = j /\ j - 1 < k
      BY <1>1, <2>1
    <3>2. j - 1 \in S
      BY <2>2, <3>1
    <3> HIDE DEF S
    <3>3. k <= j - 1
      BY <1>4, <3>2
    <3> QED
      BY <2>1, <3>1, <3>3
  <2> QED
    BY <2>1, <2>2
<1>6. n \in 0..MaxDep /\ (n = MaxDep \/ at(n + 1).ip = NoIp)
  <2> HIDE DEF S
  <2> QED
    BY <1>5, Zenon
<1>7. Addresses(i) = [j \in 1..n |-> at(j)]
  BY DEF Addresses, at
<1> HIDE DEF n
<1>8. n \in Nat \ {0}
  <2>1. n # 0
    BY <1>1, <1>2, <1>6
  <2> QED
    BY <1>1, <1>6, <2>1
<1>9. DOMAIN Addresses(i) = 1..n
  BY <1>7, Zenon
<1> QED
  BY <1>8, <1>9

\* Interfaces are brought up without a word; that one has come up is said once.
LEMMA AcquireTells ==
  ASSUME EachHasAddress, NEW i \in Vif
  PROVE  /\ Up(i) \in Seq(CallType) /\ Acquire(i) \in Seq(CallType)
         /\ \A v : Silent(Up(i), v)
         /\ Final(Acquire(i), i, "on up")
         /\ \A v : v # i => Silent(Acquire(i), v)
<1>1. PICK n \in Nat \ {0} : DOMAIN Addresses(i) = 1..n
  BY AddressesListed
<1> DEFINE A == Addresses(i)
           t == Tell(i, "on up")
<1>2. \A j \in DOMAIN A : A[j] \in Given
  BY DEF Given
<1> HIDE DEF A
<1>3. Up(i) = [j \in 1..n |-> [call |-> "up", vif |-> i, ifc |-> A[j]]]
  BY <1>1 DEF Up, A
<1>4. t \in CallType /\ t.vif = i /\ t.call = "on up"
  BY DEF Tell, CallType, Event
<1> HIDE DEF t
<1>5. Up(i) \in [1..n -> CallType] /\ \A j \in 1..n : Up(i)[j].call = "up"
  BY <1>1, <1>2, <1>3 DEF CallType, A
<1>6. Up(i) \in Seq(CallType) /\ \A v : Silent(Up(i), v)
  <2>1. Up(i) \in Seq(CallType) /\ DOMAIN Up(i) = 1..n
    BY <1>5
  <2>2. \A x \in DOMAIN Up(i) : Up(i)[x].call \notin Event
    BY <1>5, <2>1 DEF Event
  <2> QED
    BY <2>1, <2>2 DEF Silent
<1>7. /\ <<t>> \in Seq(CallType) /\ Final(<<t>>, i, "on up")
      /\ \A v : v # i => Silent(<<t>>, v)
  <2> DEFINE q == <<t>>
  <2>1. q \in Seq(CallType) /\ DOMAIN q = 1..1 /\ q[1] = t
    BY <1>4, Single
  <2> HIDE DEF q
  <2>2. 1 \in DOMAIN q /\ \A x \in DOMAIN q : x = 1 /\ ~(1 < x)
    BY <2>1
  <2>3. Final(q, i, "on up")
    BY <1>4, <2>1, <2>2, Zenon DEF Final
  <2>4. \A v : v # i => Silent(q, v)
    BY <1>4, <2>1, <2>2 DEF Silent
  <2> QED
    BY <2>1, <2>3, <2>4 DEF q
<1>8. Acquire(i) = Up(i) \o <<t>>
  BY DEF Acquire, t
<1> DEFINE p == Up(i)
           q == <<t>>
<1>11. /\ p \in Seq(CallType) /\ q \in Seq(CallType) /\ Acquire(i) = p \o q
       /\ Final(q, i, "on up") /\ (\A v : Silent(p, v)) /\ \A v : v # i => Silent(q, v)
  BY <1>6, <1>7, <1>8
<1> HIDE DEF p, q
<1>9. Acquire(i) \in Seq(CallType) /\ Final(Acquire(i), i, "on up")
  <2>1. p \o q \in Seq(CallType) /\ Final(p \o q, i, "on up")
    BY <1>11, ConcatTells, Zenon
  <2> QED
    BY <1>11, <2>1, Zenon
<1>10. ASSUME NEW v, v # i PROVE Silent(Acquire(i), v)
  <2>1. Silent(p \o q, v)
    BY <1>10, <1>11, ConcatTells, Zenon
  <2> QED
    BY <1>11, <2>1, Zenon
<1> QED
  BY <1>6, <1>9, <1>10

\* That an interface has gone down is said after every address, and of no other one.
LEMMA ReleaseTells ==
  ASSUME EachHasAddress, NEW i \in Vif
  PROVE  /\ Release(i) \in Seq(CallType)
         /\ Final(Release(i), i, "on down")
         /\ \A v : v # i => Silent(Release(i), v)
<1>1. PICK n \in Nat \ {0} : DOMAIN Addresses(i) = 1..n
  BY AddressesListed
<1> DEFINE A == Addresses(i)
           t == Tell(i, "on down")
           c(j) == [call |-> "down", vif |-> i, ifc |-> A[j]]
           s == [j \in 1..n |-> <<c(j), t>>]
<1>2. \A j \in DOMAIN A : A[j] \in Given
  BY DEF Given
<1>3. Release(i) = FlattenSeq(s)
  <2>1. DOMAIN Down(i) = 1..n /\ \A j \in 1..n : Down(i)[j] = c(j)
    BY <1>1 DEF Down
  <2>2. [j \in DOMAIN Down(i) |-> <<Down(i)[j], t>>] = s
    <3> HIDE DEF c, t
    <3> QED
      BY <2>1
  <2> QED
    BY <2>2 DEF Release
<1>4. t \in CallType /\ t.vif = i /\ t.call = "on down"
  BY DEF Tell, CallType, Event
<1>5. ASSUME NEW j \in 1..n PROVE c(j) \in CallType /\ c(j).vif = i /\ c(j).call = "down"
  <2>1. A[j] \in Given
    BY <1>1, <1>2
  <2> HIDE DEF A
  <2> QED
    BY <2>1 DEF CallType
<1> HIDE DEF t, c, A
<1>6. ASSUME NEW j \in 1..n
      PROVE  /\ <<c(j), t>> \in Seq(CallType) /\ Final(<<c(j), t>>, i, "on down")
             /\ \A v : v # i => Silent(<<c(j), t>>, v)
  <2> DEFINE x == c(j)
  <2>1. x \in CallType /\ x.vif = i /\ x.call = "down"
    BY <1>5
  <2> HIDE DEF x
  <2> DEFINE q == <<x, t>>
  <2>2. q \in Seq(CallType) /\ DOMAIN q = 1..2 /\ q[1] = x /\ q[2] = t
    <3>1. x \in CallType /\ t \in CallType
      BY <1>4, <2>1, Zenon
    <3> QED
      BY <3>1, Pair
  <2> HIDE DEF q
  <2>5. 2 \in DOMAIN q /\ \A y \in DOMAIN q : ~(2 < y)
    BY <2>2
  <2>3. Final(q, i, "on down")
    BY <1>4, <2>2, <2>5, Zenon DEF Final
  <2>6. ASSUME NEW y \in DOMAIN q PROVE q[y].vif = i
    <3>1. y = 1 \/ y = 2
      BY <2>2
    <3> QED
      BY <1>4, <2>1, <2>2, <3>1, Zenon
  <2>4. \A v : v # i => Silent(q, v)
    BY <2>6, Zenon DEF Silent
  <2> QED
    BY <2>2, <2>3, <2>4 DEF q, x
<1>7. s \in [1..n -> Seq(CallType)] /\ \A j \in 1..n : s[j] = <<c(j), t>>
  BY <1>6
<1> HIDE DEF s
<1>11. ASSUME NEW j \in 1..n
       PROVE  Final(s[j], i, "on down") /\ \A v : v # i => Silent(s[j], v)
  <2>1. s[j] = <<c(j), t>>
    BY <1>7, Zenon
  <2>2. Final(<<c(j), t>>, i, "on down") /\ \A v : v # i => Silent(<<c(j), t>>, v)
    BY <1>6, Zenon
  <2> QED
    BY <2>1, <2>2, Zenon
<1>8. FlattenSeq(s) \in Seq(CallType)
  BY <1>7, FlattenCalls
<1>9. Final(FlattenSeq(s), i, "on down")
  <2>1. n \in 1..n /\ \A k \in 1..n : ~(n < k)
    OBVIOUS
  <2>2. Final(s[n], i, "on down")
    BY <1>11, <2>1
  <2> QED
    BY <1>7, <2>1, <2>2, FlattenFinal
<1>10. ASSUME NEW v, v # i PROVE Silent(FlattenSeq(s), v)
  <2>1. \A k \in 1..n : Silent(s[k], v)
    BY <1>10, <1>11, Zenon
  <2> QED
    BY <1>7, <2>1, FlattenSilent
<1> QED
  BY <1>3, <1>8, <1>9, <1>10

\* Clean_up says of every interface that it has gone down.
LEMMA CleanUpTells ==
  ASSUME EachHasAddress
  PROVE  CleanUp \in Seq(CallType) /\ \A i \in Vif : Final(CleanUp, i, "on down")
<1> DEFINE n == cf.n
           s == [i \in 1..n |-> Release(i)]
<1>1. n \in Nat /\ Vif = 1..n
  BY DEF EachHasAddress, Vif
<1>2. CleanUp = FlattenSeq(s)
  <2>1. [i \in Vif |-> IF i \in Vif THEN Release(i) ELSE <<>>] = s
    BY <1>1
  <2> QED
    BY <2>1, Zenon DEF CleanUp, Each
<1> HIDE DEF n
<1>3. s \in [1..n -> Seq(CallType)] /\ \A i \in 1..n : s[i] = Release(i)
  BY <1>1, ReleaseTells
<1> HIDE DEF s
<1>4. ASSUME NEW i \in Vif PROVE Final(FlattenSeq(s), i, "on down")
  <2>1. i \in 1..n /\ Final(s[i], i, "on down")
    BY <1>1, <1>3, ReleaseTells
  <2>2. ASSUME NEW k \in 1..n, i < k PROVE Silent(s[k], i)
    <3>1. k \in Vif /\ i # k /\ s[k] = Release(k)
      BY <1>1, <1>3, <2>2
    <3> QED
      BY <3>1, ReleaseTells
  <2> QED
    BY <1>1, <1>3, <2>1, <2>2, FlattenFinal
<1> QED
  BY <1>1, <1>2, <1>3, <1>4, FlattenCalls

\* force_reup says nothing.
LEMMA ForceReupTells ==
  ASSUME EachHasAddress, NEW M
  PROVE  ForceReup(M) \in Seq(CallType) /\ \A i : Silent(ForceReup(M), i)
<1> DEFINE n == cf.n
           s == [i \in 1..n |-> IF i \in M THEN Up(i) ELSE <<>>]
<1>1. n \in Nat /\ Vif = 1..n
  BY DEF EachHasAddress, Vif
<1>2. <<>> \in Seq(CallType) /\ \A i : Silent(<<>>, i)
  BY DEF Silent
<1>3. ForceReup(M) = IF build.linux THEN FlattenSeq(s) ELSE <<>>
  BY <1>1 DEF ForceReup, Each
<1> HIDE DEF n
<1>4. s \in [1..n -> Seq(CallType)] /\ \A k \in 1..n : \A i : Silent(s[k], i)
  BY <1>1, <1>2, AcquireTells
<1> HIDE DEF s
<1>5. FlattenSeq(s) \in Seq(CallType) /\ \A i : Silent(FlattenSeq(s), i)
  BY <1>1, <1>4, FlattenCalls, FlattenSilent
<1> QED
  BY <1>2, <1>3, <1>5
-----------------------------------------------------------------------------
(* What is told at last. *)

\* What is to be said last of interface i, if a function is there to hear it.
Due(i, M) == IF i \in M THEN "on up" ELSE "on down"
BothHeard == Event \subseteq {cf.handlers[h] : h \in DOMAIN cf.handlers}

\* It is still to be said, or was said last.
Told(q, l, i, M) == Final(q, i, Due(i, M)) \/ (Silent(q, i) /\ (BothHeard => l[i] = Due(i, M)))

HooksInv ==
  /\ phase = "run" =>
       /\ todo \in Seq(CallType) /\ mine \in SUBSET Vif /\ last \in [Vif -> Heard]
       /\ \A i \in Vif : Told(todo, last, i, mine)
  /\ phase \in {"start", "gone"} => todo = <<>>
  /\ phase # "run" => mine = {}

\* A decision releases what the daemon owned of the interfaces and acquires the others.
LEMMA BatchTells ==
  ASSUME EachHasAddress, HooksInv, phase = "run", Batch
  PROVE  HooksInv'
<1>0. PICK n \in 1..cf.n : \E s \in [1..n -> Vif] :
        /\ \A j, k \in 1..n : s[j] = s[k] => j = k
        /\ mine' = (mine \ {s[j] : j \in 1..n}) \cup ({s[j] : j \in 1..n} \ mine)
        /\ todo' = FlattenSeq([j \in 1..n |-> IF s[j] \in mine THEN Release(s[j]) ELSE Acquire(s[j])])
                     \o (IF {s[j] : j \in 1..n} \cap mine # {} THEN ForceReup(mine') ELSE <<>>)
  BY DEF Batch
<1>1. PICK s \in [1..n -> Vif] :
        /\ \A j, k \in 1..n : s[j] = s[k] => j = k
        /\ mine' = (mine \ {s[j] : j \in 1..n}) \cup ({s[j] : j \in 1..n} \ mine)
        /\ todo' = FlattenSeq([j \in 1..n |-> IF s[j] \in mine THEN Release(s[j]) ELSE Acquire(s[j])])
                     \o (IF {s[j] : j \in 1..n} \cap mine # {} THEN ForceReup(mine') ELSE <<>>)
  BY <1>0
<1>2. /\ todo = <<>> /\ phase' = "run" /\ last' = last /\ cf' = cf
      /\ mine \in SUBSET Vif /\ last \in [Vif -> Heard] /\ \A i \in Vif : Told(todo, last, i, mine)
  BY DEF Batch, Idle, HooksInv
<1>3. n \in Nat /\ cf.n \in Nat
  BY DEF EachHasAddress
<1> DEFINE V == {s[j] : j \in 1..n}
           p == [j \in 1..n |-> IF s[j] \in mine THEN Release(s[j]) ELSE Acquire(s[j])]
           q == IF V \cap mine # {} THEN ForceReup(mine') ELSE <<>>
<1>4. q \in Seq(CallType) /\ \A i : Silent(q, i)
  <2>1. <<>> \in Seq(CallType) /\ \A i : Silent(<<>>, i)
    BY DEF Silent
  <2> QED
    BY <2>1, ForceReupTells
<1>5. ASSUME NEW j \in 1..n
      PROVE  /\ p[j] \in Seq(CallType) /\ s[j] \in Vif
             /\ Final(p[j], s[j], IF s[j] \in mine THEN "on down" ELSE "on up")
             /\ \A i : i # s[j] => Silent(p[j], i)
  <2>1. s[j] \in Vif
    OBVIOUS
  <2>2. p[j] = IF s[j] \in mine THEN Release(s[j]) ELSE Acquire(s[j])
    OBVIOUS
  <2> DEFINE i == s[j]
             c == p[j]
  <2>3. i \in Vif /\ c = IF i \in mine THEN Release(i) ELSE Acquire(i)
    BY <2>1, <2>2
  <2> HIDE DEF i, c, p
  <2>4. CASE i \in mine
    BY <2>3, <2>4, ReleaseTells DEF i, c
  <2>5. CASE i \notin mine
    BY <2>3, <2>5, AcquireTells DEF i, c
  <2> QED
    BY <2>4, <2>5
<1>6. p \in [1..n -> Seq(CallType)]
  BY <1>5
<1>7. todo' = FlattenSeq(p) \o q /\ mine' = (mine \ V) \cup (V \ mine)
  BY <1>1
<1>8. \A i : i \in V <=> \E j \in 1..n : i = s[j]
  OBVIOUS
<1> HIDE DEF p, q, V
<1>9. FlattenSeq(p) \in Seq(CallType)
  BY <1>3, <1>6, FlattenCalls
<1>10. todo' \in Seq(CallType)
  BY <1>4, <1>7, <1>9
<1>11. mine' \in SUBSET Vif
  <2>1. ASSUME NEW i \in V PROVE i \in Vif
    <3>1. PICK j \in 1..n : i = s[j]
      BY <1>8
    <3> QED
      BY <1>5, <3>1
  <2> QED
    BY <1>2, <1>7, <2>1
<1>12. ASSUME NEW i \in Vif, i \in V PROVE Final(todo', i, Due(i, mine'))
  <2>1. PICK j \in 1..n : i = s[j]
    BY <1>8, <1>12
  <2>2. Due(i, mine') = IF i \in mine THEN "on down" ELSE "on up"
    BY <1>7, <1>12 DEF Due
  <2>3. Final(p[j], i, Due(i, mine'))
    BY <1>5, <2>1, <2>2
  <2>4. ASSUME NEW k \in 1..n, j < k PROVE Silent(p[k], i)
    <3>1. s[k] # i
      BY <1>1, <2>1, <2>4
    <3> QED
      BY <1>5, <3>1
  <2>5. Final(FlattenSeq(p), i, Due(i, mine'))
    BY <1>3, <1>6, <2>3, <2>4, FlattenFinal
  <2> QED
    BY <1>4, <1>7, <1>9, <2>5, ConcatTells
<1>13. ASSUME NEW i \in Vif, i \notin V PROVE Told(todo, last, i, mine)'
  <2>1. Silent(FlattenSeq(p), i)
    <3>1. \A k \in 1..n : Silent(p[k], i)
      BY <1>5, <1>8, <1>13
    <3> QED
      BY <1>3, <1>6, <3>1, FlattenSilent
  <2>2. Silent(todo', i)
    BY <1>4, <1>7, <1>9, <2>1, ConcatTells
  <2>3. Due(i, mine') = Due(i, mine)
    BY <1>7, <1>13 DEF Due
  <2>4. BothHeard => last[i] = Due(i, mine)
    <3>1. ~Final(todo, i, Due(i, mine))
      BY <1>2 DEF Final
    <3> QED
      BY <1>2, <3>1 DEF Told
  <2> QED
    BY <1>2, <2>2, <2>3, <2>4 DEF Told, BothHeard
<1>14. Vif' = Vif
  BY <1>2 DEF Vif
<1>15. ASSUME NEW i \in Vif PROVE Told(todo, last, i, mine)'
  BY <1>12, <1>13, Zenon DEF Told
<1>16. CallType' = CallType
  BY <1>2 DEF CallType, Given, Addresses, Vif
<1> QED
  BY <1>2, <1>10, <1>11, <1>14, <1>15, <1>16 DEF HooksInv
\* main and Spread_reconnect clean up; what they say holds for a daemon that owns nothing.
LEMMA CleaningTells ==
  ASSUME EachHasAddress, phase' = "run", mine' = {}, todo' = CleanUp, cf' = cf,
         last' \in [Vif -> Heard]
  PROVE  HooksInv'
<1>1. todo' \in Seq(CallType) /\ \A i \in Vif : Final(todo', i, "on down")
  BY CleanUpTells
<1>2. Vif' = Vif
  BY DEF Vif
<1>3. CallType' = CallType
  BY DEF CallType, Given, Addresses, Vif
<1>4. ASSUME NEW i \in Vif PROVE Told(todo, last, i, mine)'
  <2>1. Due(i, mine') = "on down"
    BY DEF Due
  <2> QED
    BY <1>1, <2>1 DEF Told
<1> QED
  BY <1>1, <1>2, <1>3, <1>4 DEF HooksInv

\* A call is made, or refused: what is still to be said is still to be said.
LEMMA CallTells ==
  ASSUME HooksInv, phase = "run", Call \/ CallFails
  PROVE  HooksInv'
<1>1. /\ todo # <<>> /\ Head(todo).call \in {"up", "down"} /\ todo' = Tail(todo)
      /\ phase' = "run" /\ mine' = mine /\ last' = last /\ cf' = cf
  BY DEF Call, CallFails, Now
<1>2. /\ todo \in Seq(CallType) /\ mine \in SUBSET Vif /\ last \in [Vif -> Heard]
      /\ \A i \in Vif : Told(todo, last, i, mine)
  BY DEF HooksInv
<1>3. Vif' = Vif
  BY <1>1 DEF Vif
<1>4. CallType' = CallType
  BY <1>1 DEF CallType, Given, Addresses, Vif
<1>5. ASSUME NEW i \in Vif PROVE Told(todo, last, i, mine)'
  <2> DEFINE e == Due(i, mine)
  <2>1. e \in Event /\ Due(i, mine') = e
    BY <1>1 DEF Due, Event
  <2> HIDE DEF e
  <2>2. Head(todo).call # e
    BY <1>1, <2>1 DEF Event
  <2>3. /\ Silent(todo, i) => Silent(todo', i)
        /\ Final(todo, i, e) => Final(todo', i, e)
    BY <1>1, <1>2, <2>1, <2>2, TailTells
  <2>4. Final(todo, i, e) \/ (Silent(todo, i) /\ (BothHeard => last[i] = e))
    BY <1>2 DEF Told, e
  <2>5. BothHeard' <=> BothHeard
    BY <1>1 DEF BothHeard
  <2> QED
    BY <1>1, <2>1, <2>3, <2>4, <2>5 DEF Told
<1>6. todo' \in Seq(CallType)
  BY <1>1, <1>2
<1> QED
  BY <1>1, <1>2, <1>3, <1>4, <1>5, <1>6 DEF HooksInv

\* The user functions are told: what was due is said, or comes later.
LEMMA ExecuteTells ==
  ASSUME HooksInv, phase = "run", Execute
  PROVE  HooksInv'
<1> DEFINE c == Head(todo)
<1>1. /\ todo # <<>> /\ c.call \in Event /\ todo' = Tail(todo)
      /\ phase' = "run" /\ mine' = mine /\ cf' = cf
      /\ last' = IF \E h \in DOMAIN cf.handlers : cf.handlers[h] = c.call
                 THEN [last EXCEPT ![c.vif] = c.call] ELSE last
  BY DEF Execute, Now, Event
<1>2. /\ todo \in Seq(CallType) /\ mine \in SUBSET Vif /\ last \in [Vif -> Heard]
      /\ \A i \in Vif : Told(todo, last, i, mine)
  BY DEF HooksInv
<1>3. c \in CallType
  BY <1>1, <1>2, TailTells DEF Event
<1> HIDE DEF c
<1>4. c.vif \in Vif /\ c.call \in Heard
  <2>1. c.vif \in Vif
    BY <1>3 DEF CallType
  <2>2. c.call \in Heard
    BY <1>1, Zenon DEF Heard
  <2> QED
    BY <2>1, <2>2
<1>5. last' \in [Vif -> Heard] /\ \A i \in Vif : i # c.vif => last'[i] = last[i]
  BY <1>1, <1>2, <1>4
<1>6. BothHeard => last'[c.vif] = c.call
  <2>1. BothHeard => \E h \in DOMAIN cf.handlers : cf.handlers[h] = c.call
    BY <1>1 DEF BothHeard
  <2> QED
    BY <1>1, <1>2, <1>4, <2>1
<1>7. Vif' = Vif
  BY <1>1 DEF Vif
<1>8. CallType' = CallType
  BY <1>1 DEF CallType, Given, Addresses, Vif
<1>9. ASSUME NEW i \in Vif PROVE Told(todo, last, i, mine)'
  <2> DEFINE e == Due(i, mine)
  <2>1. e \in Event /\ Due(i, mine') = e
    BY <1>1 DEF Due, Event
  <2>2. Final(todo, i, e) \/ (Silent(todo, i) /\ (BothHeard => last[i] = e))
    BY <1>2 DEF Told
  <2> HIDE DEF e
  <2>3. /\ Silent(todo, i) => Silent(todo', i) /\ c.vif # i
        /\ Final(todo, i, e) => Final(todo', i, e) \/ (c.vif = i /\ c.call = e /\ Silent(todo', i))
    BY <1>1, <1>2, <2>1, TailTells DEF c
  <2>4. BothHeard' <=> BothHeard
    BY <1>1 DEF BothHeard
  <2>5. \/ Final(todo', i, e)
        \/ Silent(todo', i) /\ (BothHeard' => last'[i] = e)
    BY <1>5, <1>6, <2>2, <2>3, <2>4
  <2> QED
    BY <2>1, <2>5 DEF Told
<1>10. todo' \in Seq(CallType)
  BY <1>1, <1>2
<1> QED
  BY <1>1, <1>2, <1>5, <1>7, <1>8, <1>9, <1>10 DEF HooksInv

\* Every step, of a daemon whose configuration gives every interface an address.
LEMMA HooksStep ==
  ASSUME HooksInv, phase = "run" => EachHasAddress, (phase = "run" => EachHasAddress)', [Next]_vars
  PROVE  HooksInv'
<1>1. CASE ReadConfig
  <2>1. /\ phase = "start" /\ phase' = phase /\ todo' = todo /\ mine' = mine
    BY <1>1 DEF ReadConfig, hostVars
  <2> QED
    BY <2>1 DEF HooksInv
<1>2. CASE Start
  <2>1. /\ phase = "start" /\ phase' = "run" /\ todo' = CleanUp /\ cf' = cf /\ mine' = mine
        /\ last' = [i \in Vif |-> "none"]
    BY <1>2 DEF Start
  <2>2. mine' = {}
    BY <2>1 DEF HooksInv
  <2>4. last' \in [Vif -> Heard]
    <3>1. "none" \in Heard
      BY Zenon DEF Heard
    <3> QED
      BY <2>1, <3>1, Zenon
  <2>3. EachHasAddress
    BY <2>1 DEF EachHasAddress, Vif
  <2> QED
    BY <2>1, <2>2, <2>3, <2>4, CleaningTells
<1>3. CASE Call \/ CallFails
  <2>1. todo # <<>> /\ phase' = phase /\ mine' = mine
    BY <1>3 DEF Call, CallFails
  <2>2. CASE phase = "run"
    BY <1>3, <2>2, CallTells
  <2>3. CASE phase # "run"
    BY <2>1, <2>3 DEF HooksInv
  <2> QED
    BY <2>2, <2>3
<1>4. CASE Execute
  <2>1. todo # <<>> /\ phase' = phase /\ mine' = mine
    BY <1>4 DEF Execute
  <2>2. CASE phase = "run"
    BY <1>4, <2>2, ExecuteTells
  <2>3. CASE phase # "run"
    BY <2>1, <2>3 DEF HooksInv
  <2> QED
    BY <2>2, <2>3
<1>5. CASE Batch
  <2>1. phase = "run"
    BY <1>5 DEF Batch, Idle
  <2> QED
    BY <1>5, <2>1, BatchTells
<1>6. CASE Reconnect
  <2>1. phase = "run" /\ phase' = "run" /\ mine' = {} /\ todo' = CleanUp /\ cf' = cf /\ last' = last
    BY <1>6 DEF Reconnect, Idle
  <2>2. last' \in [Vif -> Heard]
    BY <2>1 DEF HooksInv
  <2> QED
    BY <2>1, <2>2, CleaningTells
<1>7. CASE Signal
  <2>1. phase' = "exit" /\ mine' = {}
    BY <1>7 DEF Signal
  <2> QED
    BY <2>1 DEF HooksInv
<1>8. CASE Exit \/ Crash
  <2>1. phase' = "gone" /\ todo' = <<>> /\ (mine' = {} \/ (phase = "exit" /\ mine' = mine))
    BY <1>8 DEF Exit, Crash
  <2> QED
    BY <2>1 DEF HooksInv
<1>9. CASE Restart
  <2>1. phase = "gone" /\ phase' = "start" /\ todo' = todo /\ mine' = mine
    BY <1>9 DEF Restart
  <2> QED
    BY <2>1 DEF HooksInv
<1>10. CASE UNCHANGED vars
  <2>1. phase' = phase /\ todo' = todo /\ mine' = mine /\ last' = last /\ cf' = cf
    BY <1>10 DEF vars, hostVars
  <2>2. /\ Vif' = Vif /\ CallType' = CallType
        /\ \A i : Told(todo, last, i, mine)' <=> Told(todo, last, i, mine)
    BY <2>1 DEF Vif, CallType, Given, Addresses, Told, BothHeard
  <2> QED
    BY <2>1, <2>2 DEF HooksInv
<1> QED
  BY <1>1, <1>2, <1>3, <1>4, <1>5, <1>6, <1>7, <1>8, <1>9, <1>10 DEF Next

\* An empty sequence has no last call.
LEMMA NothingLeft ==
  ASSUME NEW T, NEW q \in Seq(T), q = <<>>, NEW x \in DOMAIN q
  PROVE  FALSE
OBVIOUS

\* When a daemon is idle, its user functions have last heard of every interface what became
\* of it, after any decisions, reconnections, refused calls, crashes and restarts, with any
\* configuration that gives every interface an address.
THEOREM HooksCorrect == Spec /\ [](phase = "run" => EachHasAddress) => []HooksFollow
<1>1. Init => HooksInv
  BY DEF Init, HooksInv
<1>2. HooksInv /\ (phase = "run" => EachHasAddress) /\ (phase = "run" => EachHasAddress)' /\ [Next]_vars
        => HooksInv'
  BY HooksStep
<1>3. HooksInv => HooksFollow
  <2> SUFFICES ASSUME HooksInv, Idle, {"on up", "on down"} \subseteq {cf.handlers[h] : h \in DOMAIN cf.handlers},
                      NEW i \in Vif
               PROVE  last[i] = IF i \in mine THEN "on up" ELSE "on down"
    BY DEF HooksFollow
  <2>1. phase = "run" /\ todo = <<>> /\ Told(todo, last, i, mine) /\ BothHeard
    BY DEF HooksInv, Idle, BothHeard, Event
  <2>2. todo \in Seq(CallType) /\ todo = <<>>
    BY <2>1 DEF HooksInv
  <2>3. ~Final(todo, i, Due(i, mine))
    BY <2>2, NothingLeft, Zenon DEF Final
  <2> QED
    BY <2>1, <2>3, Zenon DEF Told, Due
<1> QED
  BY <1>1, <1>2, <1>3, PTL DEF Spec

-----------------------------------------------------------------------------
(* What is in a sequence, in whatever order. *)

Made(q) == {q[x] : x \in DOMAIN q}

\* Both parts of a sequence are in it.
LEMMA MadeConcat ==
  ASSUME NEW X, NEW p \in Seq(X), NEW q \in Seq(X)
  PROVE  Made(p \o q) = Made(p) \cup Made(q)
<1> DEFINE r == p \o q
           m == Len(p)
<1>1. /\ m \in Nat /\ Len(q) \in Nat
      /\ DOMAIN p = 1..m /\ DOMAIN q = 1..Len(q) /\ DOMAIN r = 1..(m + Len(q))
      /\ \A x \in 1..m : r[x] = p[x]
      /\ \A x \in 1..Len(q) : r[m + x] = q[x]
  OBVIOUS
<1> HIDE DEF r, m
<1>2. ASSUME NEW x \in DOMAIN r PROVE r[x] \in Made(p) \cup Made(q)
  <2>1. CASE x \in 1..m
    BY <1>1, <2>1 DEF Made
  <2>2. CASE x \notin 1..m
    <3>1. x - m \in DOMAIN q /\ m + (x - m) = x
      BY <1>1, <2>2
    <3> QED
      BY <1>1, <3>1 DEF Made
  <2> QED
    BY <2>1, <2>2
<1>3. ASSUME NEW x \in DOMAIN p PROVE p[x] \in Made(r)
  <2>1. x \in DOMAIN r /\ r[x] = p[x]
    BY <1>1
  <2> QED
    BY <2>1 DEF Made
<1>4. ASSUME NEW x \in DOMAIN q PROVE q[x] \in Made(r)
  <2>1. m + x \in DOMAIN r /\ r[m + x] = q[x]
    BY <1>1
  <2> QED
    BY <2>1 DEF Made
<1>5. Made(r) = Made(p) \cup Made(q)
  BY <1>2, <1>3, <1>4 DEF Made
<1> QED
  BY <1>5 DEF r

\* What is in the sequences that follow each other.
LEMMA MadeFlatten ==
  ASSUME NEW n \in Nat, NEW X, NEW s \in [1..n -> Seq(X)]
  PROVE  FlattenSeq(s) \in Seq(X) /\ Made(FlattenSeq(s)) = UNION {Made(s[k]) : k \in 1..n}
<1>1. Len(s) = n
  BY LengthOf
<1>2. CASE n = 0
  <2>1. DOMAIN s = {}
    BY <1>2
  <2>2. FlattenSeq(s) = s
    BY <1>1, <1>2, Zenon DEF FlattenSeq
  <2>3. s = <<>> /\ <<>> \in Seq(X)
    BY <1>2
  <2>4. FlattenSeq(s) \in Seq(X)
    BY <2>2, <2>3, Zenon
  <2> QED
    BY <1>2, <2>1, <2>2, <2>4 DEF Made
<1>3. CASE n # 0
  <2> DEFINE U(k) == UNION {Made(s[j]) : j \in 1..k}
             G == [k \in 1..n |-> {q \in Seq(X) : Made(q) = U(k)}]
  <2>1. \A k \in 1..n : \A q : q \in G[k] <=> q \in Seq(X) /\ Made(q) = U(k)
    OBVIOUS
  <2>2. U(1) = Made(s[1]) /\ \A k \in 2..n : U(k) = U(k - 1) \cup Made(s[k])
    <3>1. 1..1 = {1}
      OBVIOUS
    <3>2. \A k \in 2..n : 1..k = 1..(k - 1) \cup {k}
      OBVIOUS
    <3> QED
      BY <3>1, <3>2
  <2> HIDE DEF G, U
  <2>3. s[1] \in G[1]
    BY <1>3, <2>1, <2>2
  <2>4. ASSUME NEW k \in 2..n, NEW q \in G[k - 1] PROVE q \o s[k] \in G[k]
    <3>1. k \in 1..n /\ k - 1 \in 1..n
      OBVIOUS
    <3>2. q \in Seq(X) /\ s[k] \in Seq(X) /\ Made(q) = U(k - 1)
      BY <2>1, <3>1
    <3>3. q \o s[k] \in Seq(X)
      BY <3>2
    <3>4. Made(q \o s[k]) = Made(q) \cup Made(s[k])
      BY <3>2, MadeConcat
    <3>5. Made(q \o s[k]) = U(k)
      BY <2>2, <3>2, <3>4, Zenon
    <3> QED
      BY <2>1, <3>1, <3>3, <3>5
  <2>5. FlattenSeq(s) \in G[n]
    BY <1>1, <1>3, <2>3, <2>4, FlattenKeeps
  <2>6. FlattenSeq(s) \in Seq(X) /\ Made(FlattenSeq(s)) = U(n)
    BY <1>3, <2>1, <2>5
  <2> QED
    BY <2>6 DEF U
<1> QED
  BY <1>2, <1>3
-----------------------------------------------------------------------------
(* The addresses of the kernel. *)

\* One element more: what was there is as before, the new one is last.
LEMMA Appended ==
  ASSUME NEW X, NEW q \in Seq(X), NEW e \in X
  PROVE  /\ q \o <<e>> = Append(q, e) /\ Append(q, e) \in Seq(X)
         /\ Len(Append(q, e)) = Len(q) + 1
         /\ \A x \in 1..Len(q) : Append(q, e)[x] = q[x]
         /\ Append(q, e)[Len(q) + 1] = e
OBVIOUS

\* What Entries has seen of s after k places: the first m are there, and behind them what stands
\* at places of J behind them.
Seen(s, J, m, k, q) ==
  /\ (k <= m => Len(q) = k) /\ (m <= k => m <= Len(q))
  /\ \A x \in 1..Len(q) : x <= m => q[x] = s[x]
  /\ \A x \in 1..Len(q) : x > m => \E j \in J : j > m /\ j <= k /\ q[x] = s[j]
  /\ \A x, y \in 1..Len(q) : m < x /\ x < y => \E i, j \in J : m < i /\ i < j /\ j <= k /\ q[x] = s[i] /\ q[y] = s[j]
  /\ \A j \in J : j <= k => \E x \in 1..Len(q) : q[x] = s[j]

\* One place more is looked at.
LEMMA SeenNext ==
  ASSUME NEW X, NEW s \in Seq(X), NEW J \in SUBSET (1..Len(s)), NEW m \in 0..Len(s), 1..m \subseteq J,
         NEW k \in 1..Len(s), NEW q \in Seq(X), Seen(s, J, m, k - 1, q),
         NEW t, t = IF k \in J THEN <<s[k]>> ELSE <<>>
  PROVE  q \o t \in Seq(X) /\ Seen(s, J, m, k, q \o t)
<1>1. Len(q) \in Nat /\ s[k] \in X /\ Len(s) \in Nat
  OBVIOUS
<1>2. CASE k \in J
  <2> DEFINE r == Append(q, s[k])
  <2>1. /\ q \o t = r /\ r \in Seq(X) /\ Len(r) = Len(q) + 1
        /\ \A x \in 1..Len(q) : r[x] = q[x]
        /\ r[Len(q) + 1] = s[k]
    BY <1>1, <1>2, Appended
  <2> HIDE DEF r
  <2>2. (k <= m => Len(r) = k) /\ (m <= k => m <= Len(r))
    BY <1>1, <2>1 DEF Seen
  <2>3. ASSUME NEW x \in 1..Len(r), x <= m PROVE r[x] = s[x]
    <3>1. CASE x \in 1..Len(q)
      BY <2>1, <2>3, <3>1 DEF Seen
    <3>2. CASE x \notin 1..Len(q)
      <4>1. x = Len(q) + 1
        BY <1>1, <2>1, <3>2
      <4>2. x = k
        BY <1>1, <2>3, <4>1 DEF Seen
      <4> QED
        BY <2>1, <4>1, <4>2
    <3> QED
      BY <3>1, <3>2
  <2>4. ASSUME NEW x \in 1..Len(r), x > m PROVE \E j \in J : j > m /\ j <= k /\ r[x] = s[j]
    <3>1. CASE x \in 1..Len(q)
      <4>1. PICK j \in J : j > m /\ j <= k - 1 /\ q[x] = s[j]
        BY <2>4, <3>1 DEF Seen
      <4>2. j <= k
        BY <4>1
      <4> QED
        BY <2>1, <3>1, <4>1, <4>2
    <3>2. CASE x \notin 1..Len(q)
      <4>1. x = Len(q) + 1
        BY <1>1, <2>1, <3>2
      <4>2. k > m
        BY <1>1, <2>4, <4>1 DEF Seen
      <4> QED
        BY <1>2, <2>1, <4>1, <4>2
    <3> QED
      BY <3>1, <3>2
  <2>5. ASSUME NEW j \in J, j <= k PROVE \E x \in 1..Len(r) : r[x] = s[j]
    <3>1. CASE j = k
      <4>1. Len(q) + 1 \in 1..Len(r)
        BY <1>1, <2>1
      <4> QED
        BY <2>1, <3>1, <4>1
    <3>2. CASE j # k
      <4>1. j <= k - 1
        BY <2>5, <3>2
      <4>2. PICK x \in 1..Len(q) : q[x] = s[j]
        BY <4>1 DEF Seen
      <4>3. x \in 1..Len(r)
        BY <1>1, <2>1
      <4> QED
        BY <2>1, <4>2, <4>3
    <3> QED
      BY <3>1, <3>2
  <2>6. ASSUME NEW x \in 1..Len(r), NEW y \in 1..Len(r), m < x, x < y
        PROVE  \E i, j \in J : m < i /\ i < j /\ j <= k /\ r[x] = s[i] /\ r[y] = s[j]
    <3>1. x \in 1..Len(q) /\ r[x] = q[x]
      BY <1>1, <2>1, <2>6
    <3>2. CASE y \in 1..Len(q)
      <4>1. PICK i \in J, j \in J : m < i /\ i < j /\ j <= k - 1 /\ q[x] = s[i] /\ q[y] = s[j]
        BY <2>6, <3>1, <3>2 DEF Seen
      <4>2. j <= k
        BY <4>1
      <4> QED
        BY <2>1, <3>1, <3>2, <4>1, <4>2
    <3>3. CASE y \notin 1..Len(q)
      <4>1. y = Len(q) + 1 /\ r[y] = s[k]
        BY <1>1, <2>1, <3>3
      <4>2. PICK i \in J : i > m /\ i <= k - 1 /\ q[x] = s[i]
        BY <2>6, <3>1 DEF Seen
      <4>3. m < i /\ i < k /\ k <= k /\ r[x] = s[i] /\ r[y] = s[k] /\ i \in J /\ k \in J
        BY <1>2, <3>1, <4>1, <4>2
      <4> QED
        BY <4>3, Zenon
    <3> QED
      BY <3>2, <3>3
  <2>7. Seen(s, J, m, k, r)
    BY <2>2, <2>3, <2>4, <2>5, <2>6, Zenon DEF Seen
  <2> QED
    BY <2>1, <2>7, Zenon
<1>3. CASE k \notin J
  <2>1. q \o t = q
    BY <1>3
  <2>2. ~(k <= m)
    BY <1>3
  <2>3. ASSUME NEW j \in J, j <= k PROVE \E x \in 1..Len(q) : q[x] = s[j]
    <3>1. j <= k - 1
      BY <1>3, <2>3
    <3> QED
      BY <3>1 DEF Seen
  <2>4. m <= k - 1
    BY <2>2
  <2>5. m <= Len(q)
    BY <2>4 DEF Seen
  <2>6. \A x \in 1..Len(q) : x > m => \E j \in J : j > m /\ j <= k /\ q[x] = s[j]
    <3>1. \A j \in J : j <= k - 1 => j <= k
      OBVIOUS
    <3> QED
      BY <3>1 DEF Seen
  <2>7. ASSUME NEW x \in 1..Len(q), NEW y \in 1..Len(q), m < x, x < y
        PROVE  \E i, j \in J : m < i /\ i < j /\ j <= k /\ q[x] = s[i] /\ q[y] = s[j]
    <3>1. PICK i \in J, j \in J : m < i /\ i < j /\ j <= k - 1 /\ q[x] = s[i] /\ q[y] = s[j]
      BY <2>7 DEF Seen
    <3>2. j <= k
      BY <3>1
    <3> QED
      BY <3>1, <3>2
  <2>8. Seen(s, J, m, k, q)
    BY <2>2, <2>3, <2>5, <2>6, <2>7 DEF Seen
  <2> QED
    BY <2>1, <2>8, Zenon
<1> QED
  BY <1>2, <1>3

\* Entries keeps what it is to keep: the first m places if they are among J.
LEMMA EntriesKept ==
  ASSUME NEW X, NEW s \in Seq(X), NEW J \in SUBSET (1..Len(s)), NEW m \in 0..Len(s), 1..m \subseteq J
  PROVE  Entries(s, J) \in Seq(X) /\ Seen(s, J, m, Len(s), Entries(s, J))
<1> DEFINE n == Len(s)
           t == [j \in 1..n |-> IF j \in J THEN <<s[j]>> ELSE <<>>]
<1>1. n \in Nat /\ DOMAIN s = 1..n /\ Entries(s, J) = FlattenSeq(t)
  BY DEF Entries
<1>2. Len(t) = n
  <2>1. t \in [1..n -> Seq(X)]
    OBVIOUS
  <2> QED
    BY <1>1, <2>1, LengthOf
<1>3. \A j \in 1..n : t[j] = IF j \in J THEN <<s[j]>> ELSE <<>>
  OBVIOUS
<1>4. <<>> \in Seq(X) /\ Seen(s, J, m, 0, <<>>)
  <2>1. <<>> \in Seq(X) /\ Len(<<>>) = 0
    OBVIOUS
  <2>2. \A j \in J : ~(j <= 0)
    OBVIOUS
  <2> QED
    BY <1>1, <2>1, <2>2 DEF Seen
<1>5. CASE n = 0
  <2>1. t = <<>>
    BY <1>5
  <2> HIDE DEF t
  <2>2. FlattenSeq(t) = t
    BY <1>2, <1>5, Zenon DEF FlattenSeq
  <2>3. Entries(s, J) = <<>>
    BY <1>1, <2>1, <2>2, Zenon
  <2>4. Len(s) = 0
    BY <1>5
  <2> QED
    BY <1>4, <2>3, <2>4, Zenon
<1>6. CASE n # 0
  <2> HIDE DEF t
  <2> DEFINE G == [k \in 1..n |-> {q \in Seq(X) : Seen(s, J, m, k, q)}]
  <2>1. \A k \in 1..n : \A q : q \in G[k] <=> q \in Seq(X) /\ Seen(s, J, m, k, q)
    OBVIOUS
  <2> HIDE DEF G
  <2>2. t[1] \in G[1]
    <3>1. 1 \in 1..n /\ 1 - 1 = 0
      BY <1>1, <1>6
    <3>2. <<>> \o t[1] \in Seq(X) /\ Seen(s, J, m, 1, <<>> \o t[1])
      <4>1. Seen(s, J, m, 1 - 1, <<>>)
        BY <1>4, <3>1, Zenon
      <4>2. t[1] = IF 1 \in J THEN <<s[1]>> ELSE <<>>
        BY <1>3, <3>1, Zenon
      <4>3. 1 \in 1..Len(s) /\ <<>> \in Seq(X)
        BY <1>4, <3>1
      <4> QED
        BY <4>1, <4>2, <4>3, SeenNext
    <3>3. <<>> \o t[1] = t[1]
      <4>1. t[1] \in Seq(X)
        <5>1. s[1] \in X
          BY <3>1
        <5>2. <<s[1]>> \in Seq(X)
          BY <5>1
        <5> QED
          BY <1>3, <1>4, <3>1, <5>2
      <4> QED
        BY <4>1
    <3> QED
      BY <2>1, <3>1, <3>2, <3>3
  <2>3. ASSUME NEW k \in 2..n, NEW q \in G[k - 1] PROVE q \o t[k] \in G[k]
    <3>1. k \in 1..n /\ k - 1 \in 1..n
      OBVIOUS
    <3>2. q \in Seq(X) /\ Seen(s, J, m, k - 1, q)
      BY <2>1, <3>1
    <3>3. q \o t[k] \in Seq(X) /\ Seen(s, J, m, k, q \o t[k])
      BY <1>3, <3>1, <3>2, SeenNext
    <3> QED
      BY <2>1, <3>1, <3>3
  <2>4. FlattenSeq(t) \in G[n]
    BY <1>1, <1>2, <1>6, <2>2, <2>3, FlattenKeeps
  <2> QED
    BY <1>1, <1>6, <2>1, <2>4
<1> QED
  BY <1>5, <1>6

\* The numbers from 1 to n are n.
LEMMA Counted == ASSUME NEW n \in Nat PROVE IsFiniteSet(1..n) /\ Cardinality(1..n) = n
<1>1. IsFiniteSet(1..n) /\ Cardinality(1..n) = IF 1 > n THEN 0 ELSE n - 1 + 1
  BY FS_Interval
<1> QED
  BY <1>1

\* Of n addresses with an alias each, one alias up to n + 1 is free.
LEMMA AliasFree ==
  ASSUME NEW n \in Nat, NEW D \in SUBSET (1..n), NEW f
  PROVE  \E k \in 1..(n + 1) : \A j \in D : f[j] # k
<1>1. SUFFICES ASSUME \A k \in 1..(n + 1) : \E j \in D : f[j] = k PROVE FALSE
  OBVIOUS
<1> DEFINE S == {j \in D : f[j] \in 1..(n + 1)}
           g == [j \in S |-> f[j]]
<1>2. \A k \in 1..(n + 1) : \E j \in S : g[j] = k
  BY <1>1
<1>3. g \in [S -> 1..(n + 1)]
  OBVIOUS
<1>4. g \in Surjection(S, 1..(n + 1))
  BY <1>2, <1>3 DEF Surjection
<1>5. S \in SUBSET (1..n)
  OBVIOUS
<1> HIDE DEF g, S
<1>6. IsFiniteSet(1..n) /\ Cardinality(1..n) = n /\ Cardinality(1..(n + 1)) = n + 1
  <2>1. n + 1 \in Nat
    OBVIOUS
  <2> QED
    BY <2>1, Counted
<1>7. IsFiniteSet(S) /\ Cardinality(S) <= n
  <2> DEFINE N == 1..n
  <2>1. S \in SUBSET N /\ IsFiniteSet(N) /\ Cardinality(N) = n
    BY <1>5, <1>6
  <2> HIDE DEF N
  <2> QED
    BY <2>1, FS_Subset
<1>8. n + 1 <= Cardinality(S)
  BY <1>4, <1>6, <1>7, FS_Surjection
<1>9. Cardinality(S) \in Nat
  BY <1>7, FS_CardinalityType
<1> QED
  BY <1>7, <1>8, <1>9
-----------------------------------------------------------------------------
(* The machine's own addresses. *)

\* What is not the machine's own, and on Linux not in the place of it.
Added(e) == e.ip \notin OwnIps /\ (build.linux => Label(e) \notin OwnLabels)

\* A kernel that has the machine's own addresses first, and its devices up.
OwnFirst(k) ==
  /\ \E X : k.list \in Seq(X)
  /\ k = [list |-> k.list, down |-> k.down]
  /\ Len(Own) <= Len(k.list)
  /\ \A j \in 1..Len(Own) : k.list[j] = Own[j]
  /\ \A j \in 1..Len(k.list) : j > Len(Own) => Added(k.list[j])
  /\ \A j \in DOMAIN Own : Own[j].dev \notin k.down

OwnOrAdded(e) == Added(e) \/ \E j \in DOMAIN Own : e = Own[j]

\* What if_down finds in its array is the machine's own, or not in the place of it.
Harmless(q) == (\E X : q \in Seq(X)) /\ \A x \in 1..Len(q) : OwnOrAdded(q[x])

\* The machine's own addresses are a sequence; what their names and addresses are.
LEMMA OwnType ==
  /\ Len(Own) \in Nat /\ DOMAIN Own = 1..Len(Own)
  /\ \A j \in DOMAIN Own : Own[j].ip \in OwnIps /\ Label(Own[j]) \in OwnLabels
<1>1. Own \in Seq({Own[j] : j \in DOMAIN Own})
  BY HostAssumption
<1>2. Len(Own) \in Nat /\ DOMAIN Own = 1..Len(Own)
  BY <1>1
<1> QED
  BY <1>2 DEF OwnIps, OwnLabels

\* What is added to such a kernel is added at its end, behind what is not replaced.
LEMMA SetAddressKeeps ==
  ASSUME NEW k, OwnFirst(k), NEW e, Added(e)
  PROVE  OwnFirst(SetAddress(k, e))
<1> DEFINE J == {j \in DOMAIN k.list : Label(k.list[j]) # Label(e)}
           q == IF build.linux THEN Entries(k.list, J) ELSE k.list
           m == Len(Own)
<1>1. PICK X : k.list \in Seq(X)
  BY DEF OwnFirst
<1>2. /\ Len(k.list) \in Nat /\ m \in 0..Len(k.list) /\ DOMAIN k.list = 1..Len(k.list)
      /\ \A j \in 1..m : k.list[j] = Own[j]
      /\ \A j \in 1..Len(k.list) : j > m => Added(k.list[j])
      /\ \A j \in DOMAIN Own : Own[j].dev \notin k.down
      /\ k = [list |-> k.list, down |-> k.down]
  BY <1>1, OwnType DEF OwnFirst
<1>3. SetAddress(k, e) = [list |-> Append(q, e), down |-> k.down]
  <2>1. SetAddress(k, e) = [k EXCEPT !.list = Append(q, e)]
    BY Zenon DEF SetAddress
  <2> HIDE DEF q
  <2> QED
    BY <1>2, <2>1
<1> HIDE DEF m
<1>4. /\ q \in Seq(X) /\ m <= Len(q)
      /\ \A x \in 1..m : q[x] = Own[x]
      /\ \A x \in 1..Len(q) : x > m => Added(q[x])
  <2>1. CASE build.linux
    <3>1. 1..m \subseteq J
      <4>1. ASSUME NEW j \in 1..m PROVE Label(k.list[j]) # Label(e)
        BY <1>2, <2>1, OwnType DEF Added, m
      <4> QED
        BY <1>2, <4>1
    <3>2. J \in SUBSET (1..Len(k.list))
      BY <1>2
    <3> HIDE DEF J
    <3>3. q = Entries(k.list, J)
      BY <2>1
    <3> HIDE DEF q
    <3>4. q \in Seq(X) /\ Seen(k.list, J, m, Len(k.list), q)
      BY <1>1, <1>2, <3>1, <3>2, <3>3, EntriesKept
    <3>5. m <= Len(q) /\ \A x \in 1..Len(q) : x <= m => q[x] = k.list[x]
      BY <1>2, <3>4 DEF Seen
    <3>6. ASSUME NEW x \in 1..Len(q), x > m PROVE Added(q[x])
      <4>1. PICK j \in J : j > m /\ q[x] = k.list[j]
        BY <3>4, <3>6 DEF Seen
      <4> QED
        BY <1>2, <3>2, <4>1
    <3>7. \A x \in 1..m : q[x] = Own[x]
      BY <1>2, <3>4, <3>5
    <3> QED
      BY <3>4, <3>5, <3>6, <3>7
  <2>2. CASE ~build.linux
    <3>1. q = k.list
      BY <2>2
    <3> HIDE DEF q
    <3> QED
      BY <1>1, <1>2, <3>1
  <2> QED
    BY <2>1, <2>2
<1> HIDE DEF q
<1> DEFINE Y == X \cup {e}
           r == Append(q, e)
<1>5. q \in Seq(Y) /\ e \in Y
  BY <1>4
<1>6. /\ r \in Seq(Y) /\ Len(r) = Len(q) + 1 /\ Len(q) \in Nat
      /\ \A x \in 1..Len(q) : r[x] = q[x]
      /\ r[Len(q) + 1] = e
  BY <1>5, Appended
<1> HIDE DEF Y, r
<1>7. ASSUME NEW x \in 1..Len(r), x > m PROVE Added(r[x])
  <2>1. CASE x \in 1..Len(q)
    BY <1>4, <1>6, <1>7, <2>1
  <2>2. CASE x \notin 1..Len(q)
    <3>1. x = Len(q) + 1
      BY <1>6, <2>2
    <3> QED
      BY <1>6, <3>1
  <2> QED
    BY <2>1, <2>2
<1>8. m <= Len(r) /\ \A x \in 1..m : r[x] = Own[x]
  BY <1>2, <1>4, <1>6
<1> DEFINE h == SetAddress(k, e)
<1>9. h = [list |-> r, down |-> k.down]
  BY <1>3 DEF r
<1> HIDE DEF h
<1>10. h.list = r /\ h.down = k.down /\ h = [list |-> h.list, down |-> h.down]
  BY <1>9
<1> QED
  BY <1>2, <1>6, <1>7, <1>8, <1>10 DEF OwnFirst, m, h

\* Taking other places away leaves such a kernel.
LEMMA WithoutKeeps ==
  ASSUME NEW k, OwnFirst(k), NEW R, \A j \in R : j \notin 1..Len(Own)
  PROVE  OwnFirst(Without(k, R))
<1> DEFINE J == (1..Len(k.list)) \ R
           q == Entries(k.list, J)
           m == Len(Own)
<1>1. PICK X : k.list \in Seq(X)
  BY DEF OwnFirst
<1>2. /\ Len(k.list) \in Nat /\ m \in 0..Len(k.list) /\ DOMAIN k.list = 1..Len(k.list)
      /\ \A j \in 1..m : k.list[j] = Own[j]
      /\ \A j \in 1..Len(k.list) : j > m => Added(k.list[j])
      /\ \A j \in DOMAIN Own : Own[j].dev \notin k.down
      /\ k = [list |-> k.list, down |-> k.down]
  BY <1>1, OwnType DEF OwnFirst
<1>3. Without(k, R) = [list |-> q, down |-> k.down]
  BY <1>2 DEF Without
<1>4. 1..m \subseteq J /\ J \in SUBSET (1..Len(k.list))
  BY <1>2
<1> HIDE DEF m, J
<1>5. q \in Seq(X) /\ Seen(k.list, J, m, Len(k.list), q)
  BY <1>1, <1>2, <1>4, EntriesKept
<1> HIDE DEF q
<1>6. m <= Len(q) /\ \A x \in 1..Len(q) : x <= m => q[x] = k.list[x]
  BY <1>2, <1>5 DEF Seen
<1>7. ASSUME NEW x \in 1..Len(q), x > m PROVE Added(q[x])
  <2>1. PICK j \in J : j > m /\ q[x] = k.list[j]
    BY <1>5, <1>7 DEF Seen
  <2> QED
    BY <1>2, <1>4, <2>1
<1>8. \A x \in 1..m : q[x] = Own[x]
  BY <1>2, <1>5, <1>6
<1> DEFINE h == Without(k, R)
<1>9. h = [list |-> q, down |-> k.down]
  BY <1>3
<1> HIDE DEF h
<1>10. h.list = q /\ h.down = k.down /\ h = [list |-> h.list, down |-> h.down]
  BY <1>9
<1> QED
  BY <1>2, <1>5, <1>6, <1>7, <1>8, <1>10 DEF OwnFirst, m, h

\* What Entries keeps is what stands at the places it is to keep.
LEMMA EntriesMade ==
  ASSUME NEW X, NEW s \in Seq(X), NEW J \in SUBSET (1..Len(s))
  PROVE  Entries(s, J) \in Seq(X) /\ Made(Entries(s, J)) = {s[j] : j \in J}
<1> DEFINE q == Entries(s, J)
<1>1. 0 \in 0..Len(s) /\ 1..0 \subseteq J /\ Len(s) \in Nat
  OBVIOUS
<1> HIDE DEF q
<1>2. q \in Seq(X) /\ Seen(s, J, 0, Len(s), q)
  BY <1>1, EntriesKept DEF q
<1>3. DOMAIN q = 1..Len(q) /\ \A x \in 1..Len(q) : x > 0
  BY <1>2
<1>4. ASSUME NEW x \in DOMAIN q PROVE q[x] \in {s[j] : j \in J}
  BY <1>2, <1>3 DEF Seen
<1>5. ASSUME NEW j \in J PROVE s[j] \in Made(q)
  <2>1. PICK x \in 1..Len(q) : q[x] = s[j]
    BY <1>1, <1>2 DEF Seen
  <2> QED
    BY <1>3, <2>1 DEF Made
<1>6. Made(q) = {s[j] : j \in J}
  BY <1>4, <1>5 DEF Made
<1> QED
  BY <1>2, <1>6 DEF q

\* If there is room for everything, what is listed is what there is on devices that are up.
LEMMA ListIpsMade ==
  ASSUME NEW k, \E X : k.list \in Seq(X), Len(k.list) <= ListLimit
  PROVE  /\ \E X : ListIps(k) \in Seq(X)
         /\ Made(ListIps(k)) = {k.list[j] : j \in {i \in 1..Len(k.list) : k.list[i].dev \notin k.down}}
<1> DEFINE s == k.list
           n == Len(s)
           J == {j \in DOMAIN k.list : Cardinality(Before(k, j)) < ListLimit /\ k.list[j].dev \notin k.down}
           ofDevice(j) == {i \in J : /\ k.list[i].dev = k.list[j].dev
                                     /\ \A h \in 1..(j - 1) : k.list[h].dev # k.list[j].dev}
           t == [j \in DOMAIN k.list |-> Entries(k.list, ofDevice(j))]
<1>1. PICK X : s \in Seq(X)
  OBVIOUS
<1>2. n \in Nat /\ DOMAIN s = 1..n /\ ListLimit \in Nat
  BY <1>1, HostAssumption
<1>3. ListIps(k) = FlattenSeq(t)
  BY Zenon DEF ListIps
<1>4. J = {i \in 1..n : s[i].dev \notin k.down}
  <2>1. ASSUME NEW j \in 1..n PROVE Cardinality(Before(k, j)) < ListLimit
    <3>1. Before(k, j) \in SUBSET (1..n) /\ j \notin Before(k, j)
      <4>1. Before(k, j) \in SUBSET (1..n)
        BY <1>2 DEF Before
      <4>2. ASSUME j \in Before(k, j) PROVE FALSE
        <5>1. ~(j < j)
          BY <2>1
        <5>2. PICK h \in 1..j : s[h].dev = s[j].dev /\ \A l \in 1..h : s[l].dev # s[j].dev
          BY <4>2, <5>1 DEF Before
        <5>3. h \in 1..h
          BY <2>1
        <5> QED
          BY <5>2, <5>3
      <4> QED
        BY <4>1, <4>2
    <3> DEFINE B == Before(k, j)
    <3> HIDE DEF B, s, n
    <3>2. IsFiniteSet(1..n) /\ Cardinality(1..n) = n
      BY <1>2, Counted
    <3> DEFINE I == 1..n
    <3>3. IsFiniteSet(I \ {j}) /\ Cardinality(I \ {j}) = n - 1
      <4>1. j \in I /\ IsFiniteSet(I) /\ Cardinality(I) = n
        BY <3>2
      <4> HIDE DEF I
      <4> QED
        BY <4>1, FS_RemoveElement
    <3>4. B \in SUBSET ((1..n) \ {j})
      BY <3>1 DEF B
    <3>5. IsFiniteSet(B) /\ Cardinality(B) <= n - 1
      <4> DEFINE Others == I \ {j}
      <4>1. B \in SUBSET Others /\ IsFiniteSet(Others) /\ Cardinality(Others) = n - 1
        BY <3>3, <3>4
      <4> HIDE DEF Others
      <4> QED
        BY <4>1, FS_Subset
    <3>6. Cardinality(B) \in Nat
      BY <3>5, FS_CardinalityType
    <3>7. n <= ListLimit
      BY DEF n, s
    <3> QED
      BY <1>2, <3>5, <3>6, <3>7 DEF B
  <2> QED
    BY <1>2, <2>1
<1> HIDE DEF J
<1>5. \A j \in 1..n : ofDevice(j) \in SUBSET (1..n)
  BY <1>4
<1>6. ASSUME NEW j \in 1..n
      PROVE  t[j] \in Seq(X) /\ Made(t[j]) = {s[i] : i \in ofDevice(j)}
  <2>1. t[j] = Entries(s, ofDevice(j))
    BY <1>2
  <2> HIDE DEF t, s, ofDevice
  <2> QED
    BY <1>1, <1>5, <2>1, EntriesMade DEF n
<1>7. t \in [1..n -> Seq(X)]
  BY <1>2, <1>6
<1>8. FlattenSeq(t) \in Seq(X) /\ Made(FlattenSeq(t)) = UNION {Made(t[j]) : j \in 1..n}
  <2> HIDE DEF t, n
  <2> QED
    BY <1>2, <1>7, MadeFlatten
\* A place is listed with the first one of its device.
<1>9. ASSUME NEW i \in J PROVE \E j \in 1..n : i \in ofDevice(j)
  <2> DEFINE D == {h \in 1..n : s[h].dev = s[i].dev}
  <2>1. i \in 1..n /\ D \in SUBSET Nat /\ D # {}
    BY <1>4
  <2>2. PICK j \in D : \A h \in D : j <= h
    <3> HIDE DEF D
    <3> QED
      BY <2>1, HasLeast
  <2>3. ASSUME NEW h \in 1..(j - 1) PROVE s[h].dev # s[j].dev
    <3>1. h \in 1..n /\ ~(j <= h)
      BY <1>2
    <3> QED
      BY <2>2, <3>1
  <2> QED
    BY <2>3
<1>10. UNION {Made(t[j]) : j \in 1..n} = {s[i] : i \in J}
  <2> HIDE DEF t, n, s
  <2>1. ASSUME NEW j \in 1..n, NEW e \in Made(t[j]) PROVE e \in {s[i] : i \in J}
    <3>1. PICK i \in ofDevice(j) : e = s[i]
      BY <1>6, Zenon
    <3>2. i \in J
      OBVIOUS
    <3> QED
      BY <3>1, <3>2
  <2>2. ASSUME NEW i \in J PROVE \E j \in 1..n : s[i] \in Made(t[j])
    <3>1. PICK j \in 1..n : i \in ofDevice(j)
      BY <1>9
    <3>2. s[i] \in Made(t[j])
      BY <1>6, <3>1, Zenon
    <3> QED
      BY <3>2
  <2> QED
    BY <2>1, <2>2
<1> QED
  BY <1>3, <1>4, <1>8, <1>10

\* What is listed is what there is, and the machine's own addresses are.
LEMMA ListIpsShow ==
  ASSUME NEW k, OwnFirst(k), Len(k.list) <= ListLimit
  PROVE  /\ Harmless(ListIps(k))
         /\ \A j \in DOMAIN Own : \E x \in 1..Len(ListIps(k)) : ListIps(k)[x] = Own[j]
         /\ \A x \in 1..Len(ListIps(k)) : \E j \in 1..Len(k.list) : ListIps(k)[x] = k.list[j]
<1> DEFINE q == ListIps(k)
           m == Len(Own)
           J == {i \in 1..Len(k.list) : k.list[i].dev \notin k.down}
<1>1. \E X : k.list \in Seq(X)
  BY DEF OwnFirst
<1>2. /\ Len(k.list) \in Nat /\ m \in 0..Len(k.list) /\ DOMAIN Own = 1..m
      /\ \A j \in 1..m : k.list[j] = Own[j]
      /\ \A j \in 1..Len(k.list) : j > m => Added(k.list[j])
      /\ \A j \in DOMAIN Own : Own[j].dev \notin k.down
  BY <1>1, OwnType DEF OwnFirst
<1> HIDE DEF m, q
<1>3. (\E X : q \in Seq(X)) /\ Made(q) = {k.list[j] : j \in J}
  BY <1>1, ListIpsMade DEF q
<1>4. DOMAIN q = 1..Len(q)
  BY <1>3
<1>5. ASSUME NEW x \in 1..Len(q)
      PROVE  OwnOrAdded(q[x]) /\ \E j \in 1..Len(k.list) : q[x] = k.list[j]
  <2>1. q[x] \in Made(q)
    BY <1>4 DEF Made
  <2>2. PICK j \in 1..Len(k.list) : q[x] = k.list[j]
    BY <1>3, <2>1
  <2>3. j > m \/ j \in 1..m
    BY <1>2
  <2>4. OwnOrAdded(q[x])
    BY <1>2, <2>2, <2>3 DEF OwnOrAdded
  <2> QED
    BY <2>2, <2>4
<1>6. ASSUME NEW j \in DOMAIN Own PROVE \E x \in 1..Len(q) : q[x] = Own[j]
  <2>1. j \in J /\ k.list[j] = Own[j]
    BY <1>2
  <2>2. Own[j] \in Made(q)
    BY <1>3, <2>1
  <2> QED
    BY <1>4, <2>2 DEF Made
<1> QED
  BY <1>3, <1>5, <1>6 DEF Harmless, q

\* The alias that is chosen for an address of a device is none of those that are listed.
LEMMA AliasUnlisted ==
  ASSUME NEW q, \E X : q \in Seq(X), NEW dev, 0 \in Aliases(q, dev)
  PROVE  Alias(q, dev) \notin Aliases(q, dev)
<1> DEFINE D == {j \in DOMAIN q : q[j].dev = dev}
           taken == Aliases(q, dev)
           free == {k \in 1..(Len(q) + 1) : k \notin taken}
<1>1. Len(q) \in Nat /\ DOMAIN q = 1..Len(q)
  OBVIOUS
<1>2. free # {}
  <2> DEFINE f == [j \in D |-> q[j].alias]
  <2>1. taken = {f[j] : j \in D}
    BY DEF Aliases
  <2>2. D \in SUBSET (1..Len(q))
    BY <1>1
  <2> HIDE DEF f, D
  <2>3. \E k \in 1..(Len(q) + 1) : \A j \in D : f[j] # k
    <3>1. \A n \in Nat : \A E \in SUBSET (1..n) : \A g : \E k \in 1..(n + 1) : \A j \in E : g[j] # k
      BY AliasFree
    <3>2. Len(q) \in Nat /\ D \in SUBSET (1..Len(q))
      BY <1>1, <2>2
    <3>3. \A g : \E k \in 1..(Len(q) + 1) : \A j \in D : g[j] # k
      BY <3>1, <3>2
    <3> QED
      BY <3>3
  <2> HIDE DEF taken
  <2> QED
    BY <2>1, <2>3
<1> HIDE DEF taken
<1>3. PICK n \in free : \A k \in free : n <= k
  <2>1. free \in SUBSET Nat
    BY <1>1
  <2> HIDE DEF free
  <2> QED
    BY <1>2, <2>1, HasLeast
<1>4. n \in 1..(Len(q) + 1) /\ n \notin taken /\ (1..(n - 1)) \subseteq taken
  <2>1. n \in 1..(Len(q) + 1) /\ n \notin taken
    OBVIOUS
  <2>2. ASSUME NEW k \in 1..(n - 1), k \notin taken PROVE FALSE
    <3>1. k \in 1..(Len(q) + 1) /\ ~(n <= k)
      BY <1>1, <2>1
    <3> QED
      BY <1>3, <2>2, <3>1
  <2> QED
    BY <2>1, <2>2
<1> QED
  BY <1>4 DEF Alias, taken

\* Of a new address it is none of the machine's own.
LEMMA AliasApart ==
  ASSUME PrimaryFirst, NEW q, \E X : q \in Seq(X), NEW dev,
         \A j \in DOMAIN Own : \E x \in 1..Len(q) : q[x] = Own[j]
  PROVE  <<dev, Alias(q, dev)>> \notin OwnLabels
<1> DEFINE D == {j \in DOMAIN q : q[j].dev = dev}
           taken == Aliases(q, dev)
           a == Alias(q, dev)
<1>1. Len(q) \in Nat /\ DOMAIN q = 1..Len(q)
  OBVIOUS
<1>2. \A j \in DOMAIN Own : Own[j].dev = dev => Own[j].alias \in taken
  <2>1. ASSUME NEW j \in DOMAIN Own, Own[j].dev = dev PROVE Own[j].alias \in taken
    <3>1. PICK x \in 1..Len(q) : q[x] = Own[j]
      OBVIOUS
    <3>2. x \in D /\ q[x].alias = Own[j].alias
      BY <1>1, <2>1, <3>1
    <3> QED
      BY <3>2 DEF Aliases
  <2> QED
    BY <2>1
<1>3. 0 \in taken => a \notin taken
  BY AliasUnlisted
<1> HIDE DEF taken, a
<1>4. SUFFICES ASSUME <<dev, a>> \in OwnLabels PROVE FALSE
  BY DEF a
<1>5. PICK j \in DOMAIN Own : Own[j].dev = dev /\ Own[j].alias = a
  BY <1>4 DEF OwnLabels, Label
<1>6. PICK i \in DOMAIN Own : Own[i].dev = dev /\ Own[i].alias = 0
  BY <1>5 DEF PrimaryFirst, OwnLabels, Label
<1> QED
  BY <1>2, <1>3, <1>5, <1>6

\* if_up of an address that is not the machine's.
LEMMA IfUpKeeps ==
  ASSUME PrimaryFirst, NEW k, OwnFirst(k), Len(k.list) <= ListLimit, NEW ifc, ifc.ip \notin OwnIps
  PROVE  OwnFirst(IfUp(k, ifc))
<1> DEFINE alias == IF build.linux THEN Alias(ListIps(k), ifc.dev) ELSE 0
           e == Address(ifc, alias)
<1>1. IfUp(k, ifc) = IF Have(ListIps(k), ifc.ip) THEN k ELSE SetAddress(k, e)
  BY DEF IfUp, IfUpLinux, IfUpBpf
<1>2. e.ip = ifc.ip /\ Label(e) = <<ifc.dev, alias>>
  BY DEF Address, Label
<1>3. build.linux => <<ifc.dev, alias>> \notin OwnLabels
  BY ListIpsShow, AliasApart DEF Harmless
<1> HIDE DEF e, alias
<1>4. Added(e)
  BY <1>2, <1>3 DEF Added
<1> QED
  BY <1>1, <1>4, SetAddressKeeps

\* What if_down searches: the listing, and what is left behind it.
LEMMA SearchedHarmless ==
  ASSUME NEW k, OwnFirst(k), Len(k.list) <= ListLimit, Harmless(slots)
  PROVE  /\ Harmless(Searched(k))
         /\ \A x \in 1..Len(ListIps(k)) : x \in 1..Len(Searched(k)) /\ Searched(k)[x] = ListIps(k)[x]
<1> DEFINE L == ListIps(k)
<1>1. PICK X : L \in Seq(X)
  BY ListIpsShow DEF Harmless
<1>2. PICK Y : slots \in Seq(Y)
  BY DEF Harmless
<1>3. /\ \A x \in 1..Len(L) : OwnOrAdded(L[x])
      /\ \A x \in 1..Len(slots) : OwnOrAdded(slots[x])
  BY ListIpsShow DEF Harmless
<1> DEFINE r == SubSeq(slots, Len(L) + 1, Len(slots))
           Z == X \cup Y
<1>4. Searched(k) = L \o r
  BY DEF Searched
<1> HIDE DEF L
<1>5. L \in Seq(Z) /\ slots \in Seq(Z) /\ Len(L) \in Nat /\ Len(slots) \in Nat
  BY <1>1, <1>2
<1> HIDE DEF Z
<1>6. r \in Seq(Z) /\ Len(r) \in Nat /\ \A x \in 1..Len(r) : \E y \in 1..Len(slots) : r[x] = slots[y]
  <2>1. r \in Seq(Z)
    BY <1>5
  <2>2. ASSUME NEW x \in 1..Len(r)
        PROVE  x + Len(L) \in 1..Len(slots) /\ r[x] = slots[x + Len(L)]
    BY <1>5
  <2> QED
    BY <1>5, <2>1, <2>2
<1> HIDE DEF r
<1>7. L \o r \in Seq(Z) /\ Len(L \o r) = Len(L) + Len(r)
  BY <1>5, <1>6
<1>8. ASSUME NEW x \in 1..Len(L \o r) PROVE OwnOrAdded((L \o r)[x])
  <2>1. CASE x <= Len(L)
    <3>1. x \in 1..Len(L) /\ (L \o r)[x] = L[x]
      BY <1>5, <1>6, <1>7, <2>1
    <3> QED
      BY <1>3, <3>1
  <2>2. CASE x > Len(L)
    <3>1. x - Len(L) \in 1..Len(r) /\ (L \o r)[x] = r[x - Len(L)]
      BY <1>5, <1>6, <1>7, <2>2
    <3>2. PICK y \in 1..Len(slots) : r[x - Len(L)] = slots[y]
      BY <1>6, <3>1
    <3> QED
      BY <1>3, <3>1, <3>2
  <2> QED
    BY <1>5, <1>7, <2>1, <2>2
<1>9. \A x \in 1..Len(L) : x \in 1..Len(L \o r) /\ (L \o r)[x] = L[x]
  BY <1>5, <1>6
<1>10. Harmless(Searched(k))
  BY <1>4, <1>7, <1>8 DEF Harmless
<1> QED
  BY <1>4, <1>9, <1>10 DEF L

\* Taking down a label that is not the machine's: a device that has no address of the
\* machine's, or an alias and on Linux what is behind it in its subnet.
LEMMA TakeDownKeeps ==
  ASSUME PrimaryFirst, NEW k, OwnFirst(k), NEW e, Label(e) \notin OwnLabels,
         \E x \in Known(k) : Label(x) = Label(e)
  PROVE  OwnFirst(TakeDown(k, Label(e)))
<1> DEFINE label == Label(e)
<1>1. label[1] = e.dev /\ label[2] = e.alias /\ label = <<e.dev, e.alias>>
  BY DEF Label
<1>2. PICK X : k.list \in Seq(X)
  BY DEF OwnFirst
<1>3. /\ Len(k.list) \in Nat /\ DOMAIN k.list = 1..Len(k.list)
      /\ k = [list |-> k.list, down |-> k.down]
      /\ \A j \in 1..Len(Own) : k.list[j] = Own[j]
  BY <1>2 DEF OwnFirst
<1>4. CASE e.alias = 0
  <2> DEFINE h == TakeDown(k, label)
  <2>1. h = [k EXCEPT !.down = k.down \cup {e.dev}]
    BY <1>1, <1>4 DEF TakeDown
  <2>2. h = [list |-> k.list, down |-> k.down \cup {e.dev}]
    BY <1>3, <2>1
  <2> HIDE DEF h
  <2>3. h.list = k.list /\ h.down = k.down \cup {e.dev} /\ h = [list |-> h.list, down |-> h.down]
    BY <2>2
  <2>4. \A j \in DOMAIN Own : Own[j].dev # e.dev
    BY <1>1, <1>4 DEF PrimaryFirst
  <2>5. \A j \in DOMAIN Own : Own[j].dev \notin h.down
    BY <2>3, <2>4 DEF OwnFirst
  <2> QED
    BY <2>3, <2>5 DEF OwnFirst, h
<1>5. CASE e.alias # 0
  <2> DEFINE j == CHOOSE i \in DOMAIN k.list : Label(k.list[i]) = label
             R == {j} \cup Casualties(k, j)
  <2>1. TakeDown(k, label) = Without(k, R)
    BY <1>1, <1>5 DEF TakeDown
  <2>2. j \in DOMAIN k.list /\ Label(k.list[j]) = label
    BY DEF Known
  <2> HIDE DEF j
  <2>3. j \notin 1..Len(Own)
    <3>1. ASSUME j \in 1..Len(Own) PROVE FALSE
      BY <1>3, <2>2, <3>1, OwnType
    <3> QED
      BY <3>1
  <2>4. ASSUME NEW i \in Casualties(k, j) PROVE i \notin 1..Len(Own)
    <3>1. i \in DOMAIN k.list /\ i \notin 1..(j - 1)
      BY DEF Casualties
    <3>2. i >= j
      BY <1>3, <2>2, <3>1
    <3> QED
      BY <1>3, <2>2, <2>3, <3>1, <3>2, OwnType
  <2>5. \A i \in R : i \notin 1..Len(Own)
    BY <2>3, <2>4
  <2> HIDE DEF R
  <2> QED
    BY <2>1, <2>5, WithoutKeeps
<1> QED
  BY <1>4, <1>5

\* if_down of an address that is not the machine's.
LEMMA IfDownKeeps ==
  ASSUME PrimaryFirst, NEW k, OwnFirst(k), Len(k.list) <= ListLimit, Harmless(slots),
         NEW ifc, ifc.ip \notin OwnIps
  PROVE  OwnFirst(IfDown(k, ifc))
<1>1. CASE build.linux
  <2> DEFINE array == Searched(k)
             hits  == {j \in DOMAIN array : Matches(array[j], ifc) /\ \E e \in Known(k) : Label(e) = Label(array[j])}
             first == CHOOSE j \in hits : \A i \in hits : j <= i
  <2>1. IfDown(k, ifc) = IF hits = {} THEN k ELSE TakeDown(k, Label(array[first]))
    BY <1>1 DEF IfDown, IfDownLinux
  <2>2. Harmless(array)
    BY SearchedHarmless
  <2> HIDE DEF array
  <2>3. DOMAIN array = 1..Len(array) /\ Len(array) \in Nat
    BY <2>2 DEF Harmless
  <2>4. ASSUME hits # {} PROVE OwnFirst(TakeDown(k, Label(array[first])))
    <3>1. first \in hits
      <4>1. hits \in SUBSET Nat
        BY <2>3
      <4> HIDE DEF hits
      <4> QED
        BY <2>4, <4>1, HasLeast, Zenon
    <3> HIDE DEF first
    <3>2. /\ first \in 1..Len(array) /\ array[first].ip = ifc.ip
          /\ \E e \in Known(k) : Label(e) = Label(array[first])
      BY <2>3, <3>1 DEF Matches
    <3>3. Added(array[first])
      BY <2>2, <3>2, OwnType DEF Harmless, OwnOrAdded
    <3> QED
      BY <1>1, <3>2, <3>3, TakeDownKeeps DEF Added
  <2> QED
    BY <2>1, <2>4
<1>2. CASE ~build.linux
  <2> DEFINE there == {j \in DOMAIN k.list : k.list[j].ip = ifc.ip}
             first == CHOOSE j \in there : \A i \in there : j <= i
  <2>1. IfDown(k, ifc) = IF ~Have(ListIps(k), ifc.ip) THEN k ELSE Without(k, {first})
    BY <1>2 DEF IfDown, IfDownBpf
  <2>2. ASSUME Have(ListIps(k), ifc.ip) PROVE first \in there
    <3>1. PICK x \in DOMAIN ListIps(k) : ListIps(k)[x].ip = ifc.ip
      BY <2>2 DEF Have
    <3>2. x \in 1..Len(ListIps(k))
      BY ListIpsShow DEF Harmless
    <3>3. PICK j \in 1..Len(k.list) : ListIps(k)[x] = k.list[j]
      BY <3>2, ListIpsShow
    <3>4. DOMAIN k.list = 1..Len(k.list)
      BY DEF OwnFirst
    <3>5. there # {} /\ there \in SUBSET Nat
      BY <3>1, <3>3, <3>4
    <3> HIDE DEF there
    <3> QED
      BY <3>5, HasLeast, Zenon
  <2> HIDE DEF first
  <2>3. ASSUME first \in there PROVE first \notin 1..Len(Own)
    BY <2>3, OwnType DEF OwnFirst
  <2> QED
    BY <2>1, <2>2, <2>3, WithoutKeeps
<1> QED
  BY <1>1, <1>2

-----------------------------------------------------------------------------
(* What stays the machine's. *)

BystandersInv ==
  /\ HooksInv /\ phase \in {"start", "run", "exit", "gone"}
  /\ OwnFirst(kernel) /\ Harmless(slots)
  /\ phase = "exit" => EachHasAddress /\ GroupApart /\ todo \in Seq(CallType)

\* What was built stays what was built.
LEMMA BuildStays ==
  ASSUME [Next]_vars
  PROVE  build' = build
BY DEF Next, vars, ReadConfig, Read, Start, Call, CallFails, Execute, Batch, Reconnect, Signal, Exit,
       Crash, Restart

\* What the machine must not lose depends on the build alone.
LEMMA SameBuild ==
  ASSUME build' = build
  PROVE  /\ kernel' = kernel => (OwnFirst(kernel)' <=> OwnFirst(kernel))
         /\ \A k : OwnFirst(k)' <=> OwnFirst(k)
         /\ slots' = slots => (Harmless(slots)' <=> Harmless(slots))
<1>1. \A e : Added(e)' <=> Added(e)
  BY DEF Added
<1>2. \A e : OwnOrAdded(e)' <=> OwnOrAdded(e)
  BY <1>1 DEF OwnOrAdded
<1> QED
  BY <1>1, <1>2 DEF OwnFirst, Harmless

\* A call concerns an address of the group.
LEMMA CallsApart ==
  ASSUME BystandersInv, phase = "run" => GroupApart, todo # <<>>, Head(todo).call \in {"up", "down"}
  PROVE  Head(todo).ifc.ip \notin OwnIps
<1>1. phase \in {"run", "exit"} /\ todo \in Seq(CallType) /\ GroupApart
  BY DEF BystandersInv, HooksInv
<1> DEFINE c == Head(todo)
<1>2. c \in CallType
  BY <1>1
<1> HIDE DEF c
<1>3. c \in [call : {"up", "down"}, vif : Vif, ifc : Given]
  BY <1>2 DEF CallType, Event, c
<1>4. c.ifc \in Given
  BY <1>3
<1>5. PICK i \in Vif : \E j \in DOMAIN Addresses(i) : c.ifc = Addresses(i)[j]
  BY <1>4 DEF Given
<1>6. PICK j \in DOMAIN Addresses(i) : c.ifc = Addresses(i)[j]
  BY <1>5
<1>7. Addresses(i)[j].ip \in IpsOf(Vif)
  BY DEF IpsOf
<1>8. c.ifc.ip \in IpsOf(Vif)
  BY <1>6, <1>7, Zenon
<1> QED
  BY <1>1, <1>8 DEF GroupApart, c

\* Calls to the driver, made or refused.
LEMMA CallKeeps ==
  ASSUME PrimaryFirst, Len(kernel.list) <= ListLimit, BystandersInv, phase = "run" => GroupApart, Call \/ CallFails
  PROVE  OwnFirst(kernel)' /\ Harmless(slots)'
<1>1. build' = build /\ todo # <<>> /\ Head(todo).call \in {"up", "down"}
  BY DEF Call, CallFails, Now
<1>2. Head(todo).ifc.ip \notin OwnIps
  BY <1>1, CallsApart
<1>3. OwnFirst(kernel) /\ Harmless(slots)
  BY DEF BystandersInv
<1>4. OwnFirst(kernel')
  <2>1. \/ kernel' = kernel
        \/ kernel' = IfUp(kernel, Head(todo).ifc)
        \/ \E m : kernel' = IfUp(kernel, [Head(todo).ifc EXCEPT !.mask = m])
        \/ kernel' = IfDown(kernel, Head(todo).ifc)
    BY DEF Call, CallFails, Now
  <2>2. \A m : Head(todo).ifc.ip = [Head(todo).ifc EXCEPT !.mask = m].ip
    BY <1>2
  <2> QED
    BY <1>2, <1>3, <2>1, <2>2, IfUpKeeps, IfDownKeeps
<1>5. Harmless(slots')
  <2>1. slots' = slots \/ slots' = Searched(kernel)
    BY DEF Call, CallFails, Leaves
  <2> QED
    BY <1>3, <2>1, SearchedHarmless
<1>6. \A e : Added(e)' <=> Added(e)
  BY <1>1 DEF Added
<1>7. \A e : OwnOrAdded(e)' <=> OwnOrAdded(e)
  BY <1>6 DEF OwnOrAdded
<1>8. OwnFirst(kernel)' <=> OwnFirst(kernel')
  BY <1>6 DEF OwnFirst
<1>9. Harmless(slots)' <=> Harmless(slots')
  BY <1>7 DEF Harmless
<1> QED
  BY <1>4, <1>5, <1>8, <1>9

\* What is read does not change while the daemon runs.
LEMMA SameGroup ==
  ASSUME cf' = cf, EachHasAddress, GroupApart
  PROVE  CallType' = CallType /\ EachHasAddress' /\ GroupApart'
<1>1. Vif' = Vif /\ \A i : Addresses(i)' = Addresses(i)
  BY DEF Vif, Addresses
<1>2. Given' = Given
  BY <1>1 DEF Given
<1>3. IpsOf(Vif)' = IpsOf(Vif)
  BY <1>1 DEF IpsOf
<1>4. EachHasAddress'
  BY <1>1 DEF EachHasAddress
<1> QED
  BY <1>1, <1>2, <1>3, <1>4 DEF CallType, GroupApart

\* In the signal handler, what is to be done is to release what was read.
LEMMA ExitKeeps ==
  ASSUME BystandersInv, phase = "run" => EachHasAddress /\ GroupApart, [Next]_vars, phase' = "exit"
  PROVE  (EachHasAddress /\ GroupApart /\ todo \in Seq(CallType))'
<1>1. CASE Signal
  <2>1. EachHasAddress /\ GroupApart /\ todo' = CleanUp /\ cf' = cf
    BY <1>1 DEF Signal, BystandersInv
  <2>2. todo' \in Seq(CallType)
    BY <2>1, CleanUpTells
  <2>3. CallType' = CallType /\ EachHasAddress' /\ GroupApart'
    BY <2>1, SameGroup
  <2> QED
    BY <2>2, <2>3
<1>2. CASE Call \/ CallFails \/ Execute
  <2>1. phase = "exit" /\ cf' = cf /\ todo # <<>> /\ todo' = Tail(todo)
    BY <1>2 DEF Call, CallFails, Execute
  <2>2. EachHasAddress /\ GroupApart /\ todo \in Seq(CallType)
    BY <2>1 DEF BystandersInv
  <2>3. todo' \in Seq(CallType)
    BY <2>1, <2>2
  <2>4. CallType' = CallType /\ EachHasAddress' /\ GroupApart'
    BY <2>1, <2>2, SameGroup
  <2> QED
    BY <2>3, <2>4
<1>3. CASE UNCHANGED vars
  <2>1. phase = "exit" /\ cf' = cf /\ todo' = todo
    BY <1>3 DEF vars, hostVars
  <2>2. EachHasAddress /\ GroupApart /\ todo \in Seq(CallType)
    BY <2>1 DEF BystandersInv
  <2>3. CallType' = CallType /\ EachHasAddress' /\ GroupApart'
    BY <2>1, <2>2, SameGroup
  <2> QED
    BY <2>1, <2>2, <2>3
<1>4. CASE ReadConfig \/ Start \/ Batch \/ Reconnect \/ Exit \/ Crash \/ Restart
  <2>1. phase' # "exit"
    BY <1>4 DEF ReadConfig, Start, Batch, Idle, Reconnect, Exit, Crash, Restart, hostVars
  <2> QED
    BY <2>1
<1> QED
  BY <1>1, <1>2, <1>3, <1>4 DEF Next

\* Every step, of a daemon whose configuration has addresses and none of the machine's.
LEMMA BystandersStep ==
  ASSUME PrimaryFirst, Len(kernel.list) <= ListLimit, BystandersInv,
         phase = "run" => EachHasAddress /\ GroupApart,
         (phase = "run" => EachHasAddress /\ GroupApart)', [Next]_vars
  PROVE  BystandersInv'
<1>1. HooksInv'
  BY HooksStep DEF BystandersInv
<1>2. phase' \in {"start", "run", "exit", "gone"}
  BY DEF BystandersInv, Next, vars, hostVars, ReadConfig, Start, Call, CallFails, Execute, Batch, Reconnect,
         Signal, Exit, Crash, Restart
<1>3. OwnFirst(kernel)' /\ Harmless(slots)'
  <2>1. CASE Call \/ CallFails
    BY <2>1, CallKeeps
  <2>2. CASE ~(Call \/ CallFails)
    <3>1. kernel' = kernel /\ (slots' = slots \/ slots' = <<>>)
      BY <2>2 DEF Next, vars, hostVars, ReadConfig, Start, Execute, Batch, Reconnect, Signal, Exit, Crash, Restart
    <3>2. OwnFirst(kernel)'
      BY <3>1, BuildStays, SameBuild DEF BystandersInv
    <3>3. Harmless(slots)'
      <4>1. CASE slots' = slots
        BY <4>1, BuildStays, SameBuild DEF BystandersInv
      <4>2. CASE slots' = <<>>
        <5>1. <<>> \in Seq({}) /\ Len(<<>>) = 0
          OBVIOUS
        <5> QED
          BY <4>2, <5>1 DEF Harmless
      <4> QED
        BY <3>1, <4>1, <4>2
    <3> QED
      BY <3>2, <3>3
  <2> QED
    BY <2>1, <2>2
<1>4. phase' = "exit" => (EachHasAddress /\ GroupApart /\ todo \in Seq(CallType))'
  BY ExitKeeps
<1> QED
  BY <1>1, <1>2, <1>3, <1>4 DEF BystandersInv

\* A daemon that starts.
LEMMA BystandersInit ==
  ASSUME Init
  PROVE  BystandersInv
<1>1. /\ kernel = [list |-> Own, down |-> {}] /\ slots = <<>> /\ phase = "start" /\ todo = <<>>
      /\ HooksInv
  BY DEF Init, HooksInv
<1>2. kernel.list = Own /\ kernel.down = {} /\ kernel = [list |-> kernel.list, down |-> kernel.down]
  BY <1>1
<1>3. \E X : Own \in Seq(X)
  BY HostAssumption
<1>4. OwnFirst(kernel)
  BY <1>2, <1>3, OwnType DEF OwnFirst
<1>5. Harmless(slots)
  <2>1. <<>> \in Seq({}) /\ Len(<<>>) = 0
    OBVIOUS
  <2> QED
    BY <1>1, <2>1 DEF Harmless
<1> QED
  BY <1>1, <1>4, <1>5 DEF BystandersInv

-----------------------------------------------------------------------------
(* The addresses of the group. *)

Ips(k) == {k.list[j].ip : j \in 1..Len(k.list)}

\* A kernel that has besides the machine's own addresses those of the group, each once,
\* and on Linux each under a name of its own.
Tidy(k) ==
  /\ k.down = {}
  /\ \A j \in 1..Len(k.list) : j > Len(Own) =>
       \E a \in GroupAddresses : k.list[j].ip = a.ip /\ k.list[j].dev = a.dev
  /\ \A i, j \in 1..Len(k.list) : Len(Own) < i /\ i < j =>
       k.list[i].ip # k.list[j].ip /\ (build.linux => Label(k.list[i]) # Label(k.list[j]))

\* If there is room, everything is listed.
LEMMA ListsAll ==
  ASSUME NEW k, OwnFirst(k), Tidy(k), Len(k.list) <= ListLimit
  PROVE  /\ \A j \in 1..Len(k.list) : \E x \in 1..Len(ListIps(k)) : ListIps(k)[x] = k.list[j]
         /\ \A ip : Have(ListIps(k), ip) <=> ip \in Ips(k)
         /\ \E X : ListIps(k) \in Seq(X)
<1> DEFINE q == ListIps(k)
           n == Len(k.list)
<1>1. k.down = {} /\ \E X : k.list \in Seq(X)
  BY DEF Tidy, OwnFirst
<1>2. {i \in 1..n : k.list[i].dev \notin k.down} = 1..n
  BY <1>1
<1> HIDE DEF q, n
<1>3. (\E X : q \in Seq(X)) /\ Made(q) = {k.list[j] : j \in 1..n}
  BY <1>1, <1>2, ListIpsMade DEF q, n
<1>4. DOMAIN q = 1..Len(q)
  BY <1>3
<1>5. ASSUME NEW ip PROVE Have(q, ip) <=> ip \in Ips(k)
  <2>1. ASSUME NEW x \in DOMAIN q, q[x].ip = ip PROVE ip \in Ips(k)
    <3>1. q[x] \in Made(q)
      BY DEF Made
    <3> QED
      BY <1>3, <2>1, <3>1 DEF Ips, n
  <2>2. ASSUME NEW j \in 1..n, k.list[j].ip = ip PROVE \E x \in DOMAIN q : q[x].ip = ip
    <3>1. k.list[j] \in Made(q)
      BY <1>3
    <3> QED
      BY <2>2, <3>1 DEF Made
  <2> QED
    BY <2>1, <2>2 DEF Have, Ips, n
<1>6. ASSUME NEW j \in 1..n PROVE \E x \in 1..Len(q) : q[x] = k.list[j]
  <2>1. k.list[j] \in Made(q)
    BY <1>3
  <2> QED
    BY <1>4, <2>1 DEF Made
<1> QED
  BY <1>3, <1>5, <1>6 DEF q, n

\* Taking places behind the machine's own away takes their addresses away and no others.
LEMMA WithoutRemoves ==
  ASSUME NEW k, OwnFirst(k), Tidy(k), NEW R, \A j \in R : j \notin 1..Len(Own)
  PROVE  /\ Tidy(Without(k, R))
         /\ Ips(Without(k, R)) = {k.list[j].ip : j \in (1..Len(k.list)) \ R}
<1> DEFINE J == (1..Len(k.list)) \ R
           q == Entries(k.list, J)
           m == Len(Own)
           n == Len(k.list)
<1>1. PICK X : k.list \in Seq(X)
  BY DEF OwnFirst
<1>2. /\ n \in Nat /\ m \in 0..n /\ DOMAIN k.list = 1..n
      /\ k = [list |-> k.list, down |-> k.down]
  BY <1>1, OwnType DEF OwnFirst
<1>3. Without(k, R) = [list |-> q, down |-> k.down]
  BY <1>2 DEF Without
<1>4. 1..m \subseteq J /\ J \in SUBSET (1..n)
  BY <1>2
<1>5. \A j : j \in J <=> j \in 1..n /\ j \notin R
  OBVIOUS
<1>6. {k.list[j].ip : j \in (1..n) \ R} = {k.list[j].ip : j \in J}
  OBVIOUS
<1> HIDE DEF m, J
<1>7. q \in Seq(X) /\ Seen(k.list, J, m, n, q)
  BY <1>1, <1>2, <1>4, EntriesKept
<1> DEFINE h == Without(k, R)
<1>8. h.list = q /\ h.down = k.down
  BY <1>3
<1> HIDE DEF q, h
<1>9. \A x \in 1..Len(q) : x > m => \E j \in J : j > m /\ q[x] = k.list[j]
  BY <1>7 DEF Seen
<1>10. \A x, y \in 1..Len(q) : m < x /\ x < y => \E i, j \in J : m < i /\ i < j /\ q[x] = k.list[i] /\ q[y] = k.list[j]
  BY <1>7 DEF Seen
<1>11. ASSUME NEW x \in 1..Len(q), x > m
       PROVE  \E a \in GroupAddresses : q[x].ip = a.ip /\ q[x].dev = a.dev
  <2>1. PICK j \in J : j > m /\ q[x] = k.list[j]
    BY <1>9, <1>11
  <2> QED
    BY <1>4, <2>1 DEF Tidy, m
<1>12. ASSUME NEW x \in 1..Len(q), NEW y \in 1..Len(q), m < x, x < y
       PROVE  q[x].ip # q[y].ip /\ (build.linux => Label(q[x]) # Label(q[y]))
  <2>1. PICK i \in J, j \in J : m < i /\ i < j /\ q[x] = k.list[i] /\ q[y] = k.list[j]
    BY <1>10, <1>12
  <2> QED
    BY <1>4, <2>1 DEF Tidy, m
<1>13. Tidy(h)
  BY <1>8, <1>11, <1>12 DEF Tidy, m
<1>14. Ips(h) = {k.list[j].ip : j \in J}
  <2>1. ASSUME NEW x \in 1..Len(q) PROVE \E j \in J : q[x].ip = k.list[j].ip
    <3>1. CASE x > m
      BY <1>9, <3>1
    <3>2. CASE x <= m
      <4>1. q[x] = k.list[x] /\ x \in J
        BY <1>2, <1>4, <1>7, <3>2 DEF Seen
      <4> QED
        BY <4>1
    <3> QED
      BY <1>2, <3>1, <3>2
  <2>2. ASSUME NEW j \in J PROVE \E x \in 1..Len(q) : q[x].ip = k.list[j].ip
    <3>1. j <= n
      BY <1>2, <1>4
    <3>2. PICK x \in 1..Len(q) : q[x] = k.list[j]
      BY <1>7, <3>1 DEF Seen
    <3> QED
      BY <3>2
  <2> QED
    BY <1>8, <2>1, <2>2 DEF Ips
<1> QED
  BY <1>6, <1>13, <1>14 DEF h

\* An address of the group that is not there, under a name that is not in use.
LEMMA SetAddressAdds ==
  ASSUME NEW k, OwnFirst(k), Tidy(k), NEW e, NEW a \in GroupAddresses, e.ip = a.ip, e.dev = a.dev,
         e.ip \notin Ips(k), build.linux => \A j \in 1..Len(k.list) : Label(k.list[j]) # Label(e)
  PROVE  Tidy(SetAddress(k, e)) /\ Ips(SetAddress(k, e)) = Ips(k) \cup {e.ip}
<1> DEFINE J == {j \in DOMAIN k.list : Label(k.list[j]) # Label(e)}
           q == IF build.linux THEN Entries(k.list, J) ELSE k.list
           m == Len(Own)
           n == Len(k.list)
           h == SetAddress(k, e)
<1>1. PICK X : k.list \in Seq(X)
  BY DEF OwnFirst
<1>2. /\ n \in Nat /\ m \in 0..n /\ DOMAIN k.list = 1..n
      /\ k = [list |-> k.list, down |-> k.down]
  BY <1>1, OwnType DEF OwnFirst
<1>3. h = [list |-> Append(q, e), down |-> k.down]
  <2>1. h = [k EXCEPT !.list = Append(q, e)]
    BY Zenon DEF SetAddress
  <2> HIDE DEF q, h
  <2> QED
    BY <1>2, <2>1
<1>4. q \in Seq(X) /\ Len(q) = n /\ \A x \in 1..n : q[x] = k.list[x]
  <2>1. CASE build.linux
    <3>1. J = 1..n
      BY <1>2, <2>1
    <3> HIDE DEF J
    <3>2. q = Entries(k.list, J)
      BY <2>1
    <3> HIDE DEF q
    <3>3. n \in 0..n /\ 1..n \subseteq J
      BY <1>2, <3>1
    <3>4. q \in Seq(X) /\ Seen(k.list, J, n, n, q)
      BY <1>1, <3>1, <3>2, <3>3, EntriesKept
    <3>5. Len(q) = n
      BY <1>2, <3>4 DEF Seen
    <3>6. \A x \in 1..n : q[x] = k.list[x]
      BY <1>2, <3>4, <3>5 DEF Seen
    <3> QED
      BY <3>4, <3>5, <3>6
  <2>2. CASE ~build.linux
    <3>1. q = k.list
      BY <2>2
    <3> QED
      BY <1>1, <3>1
  <2> QED
    BY <2>1, <2>2
<1> HIDE DEF q
<1> DEFINE Y == X \cup {e}
           r == Append(q, e)
<1>5. q \in Seq(Y) /\ e \in Y
  BY <1>4
<1>6. /\ r \in Seq(Y) /\ Len(r) = n + 1
      /\ \A x \in 1..n : r[x] = k.list[x]
      /\ r[n + 1] = e
  BY <1>4, <1>5, Appended
<1> HIDE DEF Y, r
<1>7. h.list = r /\ h.down = k.down
  BY <1>3 DEF r
<1> HIDE DEF h, m, n
<1>8. \A x \in 1..(n + 1) : x \in 1..n \/ x = n + 1
  BY <1>2
<1>9. ASSUME NEW x \in 1..Len(r), x > m
      PROVE  \E b \in GroupAddresses : r[x].ip = b.ip /\ r[x].dev = b.dev
  <2>1. CASE x \in 1..n
    BY <1>6, <1>9, <2>1 DEF Tidy, m, n
  <2>2. CASE x = n + 1
    BY <1>6, <2>2
  <2> QED
    BY <1>6, <1>8, <2>1, <2>2
<1>10. ASSUME NEW x \in 1..Len(r), NEW y \in 1..Len(r), m < x, x < y
       PROVE  r[x].ip # r[y].ip /\ (build.linux => Label(r[x]) # Label(r[y]))
  <2>1. x \in 1..n /\ r[x] = k.list[x]
    BY <1>2, <1>6, <1>10
  <2>2. CASE y \in 1..n
    BY <1>6, <1>10, <2>1, <2>2 DEF Tidy, m, n
  <2>3. CASE y = n + 1
    BY <1>6, <2>1, <2>3 DEF Ips, n
  <2> QED
    BY <1>6, <1>8, <2>2, <2>3
<1>11. Tidy(h)
  BY <1>7, <1>9, <1>10 DEF Tidy, m
<1>12. Ips(h) = Ips(k) \cup {e.ip}
  <2>1. Ips(h) = {r[x].ip : x \in 1..(n + 1)} /\ Ips(k) = {r[x].ip : x \in 1..n}
    BY <1>6, <1>7 DEF Ips, n
  <2>2. n + 1 \in 1..(n + 1) /\ 1..n \subseteq 1..(n + 1)
    BY <1>2
  <2> QED
    BY <1>6, <1>8, <2>1, <2>2
<1> QED
  BY <1>11, <1>12 DEF h

\* There is room for what the kernel has.
LEMMA RoomForAll ==
  ASSUME GroupFine, NEW k, OwnFirst(k), Tidy(k)
  PROVE  Len(k.list) <= ListLimit
<1> DEFINE m == Len(Own)
           n == Len(k.list)
           S == (m + 1)..n
           f == [j \in S |-> k.list[j].ip]
<1>1. n \in Nat /\ m \in Nat /\ m <= n /\ ListLimit \in Nat
  BY OwnType, HostAssumption DEF OwnFirst
<1>2. \A j \in S : j \in 1..n /\ m < j
  BY <1>1
<1>3. ASSUME NEW j \in S PROVE k.list[j].ip \in GroupIps
  BY <1>2 DEF Tidy, GroupIps
<1>4. f \in [S -> GroupIps]
  BY <1>3
<1>5. ASSUME NEW i \in S, NEW j \in S, f[i] = f[j] PROVE i = j
  <2>1. ASSUME NEW x \in S, NEW y \in S, x < y PROVE f[x] # f[y]
    BY <1>2, <2>1 DEF Tidy
  <2>2. ~(i < j) /\ ~(j < i)
    BY <1>5, <2>1
  <2> QED
    BY <2>2
<1>6. f \in Injection(S, GroupIps)
  <2>1. DOMAIN f = S
    OBVIOUS
  <2> HIDE DEF f, S
  <2> QED
    BY <1>4, <1>5, <2>1 DEF Injection, IsInjective
<1>7. IsFiniteSet(GroupIps) /\ m + Cardinality(GroupIps) <= ListLimit
  BY DEF GroupFine
<1>8. Cardinality(S) <= Cardinality(GroupIps) /\ Cardinality(GroupIps) \in Nat
  <2> HIDE DEF f, S
  <2> QED
    BY <1>6, <1>7, FS_Injection, FS_CardinalityType
<1>9. Cardinality(S) = n - m
  <2> HIDE DEF m, n
  <2>1. Cardinality((m + 1)..n) = IF m + 1 > n THEN 0 ELSE n - (m + 1) + 1
    BY <1>1, FS_Interval
  <2> QED
    BY <1>1, <2>1
<1> QED
  BY <1>1, <1>7, <1>8, <1>9

\* if_up of an address of the group, with whatever netmask: it is there afterwards.
LEMMA IfUpAdds ==
  ASSUME GroupFine, NEW k, OwnFirst(k), Tidy(k), NEW a \in GroupAddresses,
         NEW ifc, ifc.ip = a.ip, ifc.dev = a.dev
  PROVE  Tidy(IfUp(k, ifc)) /\ Ips(IfUp(k, ifc)) = Ips(k) \cup {ifc.ip}
<1> DEFINE q == ListIps(k)
           alias == IF build.linux THEN Alias(q, ifc.dev) ELSE 0
           e == Address(ifc, alias)
<1>1. /\ \A j \in 1..Len(k.list) : \E x \in 1..Len(q) : q[x] = k.list[j]
      /\ \A ip : Have(q, ip) <=> ip \in Ips(k)
      /\ \E X : q \in Seq(X)
  BY RoomForAll, ListsAll
<1>2. IfUp(k, ifc) = IF ifc.ip \in Ips(k) THEN k ELSE SetAddress(k, e)
  BY <1>1 DEF IfUp, IfUpLinux, IfUpBpf
<1>3. e.ip = ifc.ip /\ e.dev = ifc.dev /\ Label(e) = <<ifc.dev, alias>>
  BY DEF Address, Label
<1>4. ASSUME build.linux, NEW j \in 1..Len(k.list), Label(k.list[j]) = <<ifc.dev, alias>> PROVE FALSE
  <2>1. PICK i \in DOMAIN Own : Own[i].dev = ifc.dev /\ Own[i].alias = 0
    BY <1>4 DEF GroupFine, OwnLabels, Label
  <2>2. i \in 1..Len(k.list) /\ k.list[i] = Own[i]
    BY OwnType DEF OwnFirst
  <2> HIDE DEF q
  <2>3. DOMAIN q = 1..Len(q)
    BY <1>1
  <2>4. 0 \in Aliases(q, ifc.dev)
    <3>1. PICK x \in 1..Len(q) : q[x] = k.list[i]
      BY <1>1, <2>2
    <3>2. q[x].dev = ifc.dev /\ q[x].alias = 0
      BY <2>1, <2>2, <3>1
    <3>3. x \in {y \in DOMAIN q : q[y].dev = ifc.dev}
      BY <2>3, <3>1, <3>2
    <3> QED
      BY <3>2, <3>3 DEF Aliases
  <2>5. alias \notin Aliases(q, ifc.dev)
    BY <1>1, <1>4, <2>4, AliasUnlisted
  <2>6. k.list[j].dev = ifc.dev /\ k.list[j].alias = alias
    BY <1>4 DEF Label
  <2>7. PICK x \in 1..Len(q) : q[x] = k.list[j]
    BY <1>1
  <2>8. alias \in Aliases(q, ifc.dev)
    BY <2>3, <2>6, <2>7 DEF Aliases
  <2> QED
    BY <2>5, <2>8
<1> HIDE DEF e, alias, q
<1>5. CASE ifc.ip \in Ips(k)
  BY <1>2, <1>5
<1>6. CASE ifc.ip \notin Ips(k)
  <2>1. build.linux => \A j \in 1..Len(k.list) : Label(k.list[j]) # Label(e)
    BY <1>3, <1>4
  <2>2. Tidy(SetAddress(k, e)) /\ Ips(SetAddress(k, e)) = Ips(k) \cup {e.ip}
    BY <1>3, <1>6, <2>1, SetAddressAdds
  <2> QED
    BY <1>2, <1>3, <1>6, <2>2
<1> QED
  BY <1>5, <1>6

\* An address is written for one interface, on one device.
LEMMA TableApart ==
  ASSUME GroupFine, NEW i \in DOMAIN AddressTable, NEW j \in DOMAIN AddressTable,
         NEW x \in DOMAIN AddressTable[i], NEW y \in DOMAIN AddressTable[j],
         AddressTable[i][x].ip = AddressTable[j][y].ip
  PROVE  i = j /\ AddressTable[i][x].dev = AddressTable[j][y].dev
<1>1. \A h, k \in DOMAIN AddressTable : \A u \in DOMAIN AddressTable[h] : \A w \in DOMAIN AddressTable[k] :
        AddressTable[h][u].ip = AddressTable[k][w].ip => h = k /\ AddressTable[h][u].dev = AddressTable[k][w].dev
  BY DEF GroupFine
<1>2. \A u \in DOMAIN AddressTable[i] : \A w \in DOMAIN AddressTable[j] :
        AddressTable[i][u].ip = AddressTable[j][w].ip => i = j /\ AddressTable[i][u].dev = AddressTable[j][w].dev
  BY <1>1
<1> QED
  BY <1>2

\* One address is on one device.
LEMMA OneDevice ==
  ASSUME GroupFine, NEW a \in GroupAddresses, NEW b \in GroupAddresses, a.ip = b.ip
  PROVE  a.dev = b.dev
<1>1. PICK i \in DOMAIN AddressTable : \E x \in DOMAIN AddressTable[i] : a = AddressTable[i][x]
  BY DEF GroupAddresses
<1>2. PICK j \in DOMAIN AddressTable : \E y \in DOMAIN AddressTable[j] : b = AddressTable[j][y]
  BY DEF GroupAddresses
<1>3. PICK x \in DOMAIN AddressTable[i] : a = AddressTable[i][x]
  BY <1>1
<1>4. PICK y \in DOMAIN AddressTable[j] : b = AddressTable[j][y]
  BY <1>2
<1>5. AddressTable[i][x].ip = AddressTable[j][y].ip
  BY <1>3, <1>4, Zenon
<1>6. AddressTable[i][x].dev = AddressTable[j][y].dev
  BY <1>5, TableApart, Zenon
<1> QED
  BY <1>3, <1>4, <1>6, Zenon

\* Elsewhere than on Linux if_down takes one address and no other.
LEMMA IfDownBpfRemoves ==
  ASSUME GroupFine, NEW k, OwnFirst(k), Tidy(k), NEW ifc \in GroupAddresses, ifc.ip \notin OwnIps
  PROVE  /\ Tidy(IfDownBpf(k, ifc))
         /\ Ips(IfDownBpf(k, ifc)) = Ips(k) \ {ifc.ip}
<1> DEFINE there == {j \in DOMAIN k.list : k.list[j].ip = ifc.ip}
           first == CHOOSE j \in there : \A i \in there : j <= i
<1>1. \A ip : Have(ListIps(k), ip) <=> ip \in Ips(k)
  BY RoomForAll, ListsAll
<1>2. IfDownBpf(k, ifc) = IF ifc.ip \notin Ips(k) THEN k ELSE Without(k, {first})
  BY <1>1 DEF IfDownBpf
<1>3. DOMAIN k.list = 1..Len(k.list) /\ Len(k.list) \in Nat
  BY DEF OwnFirst
<1>4. \A j \in there : j \in 1..Len(k.list) /\ j \notin 1..Len(Own) /\ k.list[j].ip = ifc.ip
  BY <1>3, OwnType DEF OwnFirst
<1>5. CASE ifc.ip \notin Ips(k)
  BY <1>2, <1>5
<1>6. CASE ifc.ip \in Ips(k)
  <2>1. there # {} /\ there \in SUBSET Nat
    BY <1>3, <1>6 DEF Ips
  <2>2. first \in there
    <3> HIDE DEF there
    <3> QED
      BY <2>1, HasLeast, Zenon
  <2> HIDE DEF first
  <2>3. Tidy(Without(k, {first}))
        /\ Ips(Without(k, {first})) = {k.list[j].ip : j \in (1..Len(k.list)) \ {first}}
    BY <1>4, <2>2, WithoutRemoves
  <2>4. ASSUME NEW j \in 1..Len(k.list), j # first PROVE k.list[j].ip # ifc.ip
    <3>1. SUFFICES ASSUME k.list[j].ip = ifc.ip PROVE FALSE
      OBVIOUS
    <3>2. j \in there
      BY <1>3, <3>1
    <3>3. Len(Own) < j /\ Len(Own) < first /\ (j < first \/ first < j)
      BY <1>4, <2>2, <2>4, <3>2, OwnType
    <3> QED
      BY <1>4, <2>2, <3>1, <3>3 DEF Tidy
  <2>5. {k.list[j].ip : j \in (1..Len(k.list)) \ {first}} = Ips(k) \ {ifc.ip}
    BY <1>4, <2>2, <2>4 DEF Ips
  <2> QED
    BY <1>2, <1>6, <2>3, <2>5
<1> QED
  BY <1>5, <1>6

\* On Linux it takes that address, if it is there, and maybe others.
LEMMA IfDownLinuxRemoves ==
  ASSUME GroupFine, build.linux, NEW k, OwnFirst(k), Tidy(k), Harmless(slots),
         NEW ifc \in GroupAddresses, ifc.ip \notin OwnIps
  PROVE  /\ Tidy(IfDownLinux(k, ifc))
         /\ Ips(IfDownLinux(k, ifc)) \in SUBSET (Ips(k) \ {ifc.ip})
<1> DEFINE array == Searched(k)
           L     == ListIps(k)
           hits  == {j \in DOMAIN array : Matches(array[j], ifc) /\ \E e \in Known(k) : Label(e) = Label(array[j])}
           first == CHOOSE j \in hits : \A i \in hits : j <= i
           m == Len(Own)
           n == Len(k.list)
<1>1. IfDownLinux(k, ifc) = IF hits = {} THEN k ELSE TakeDown(k, Label(array[first]))
  BY DEF IfDownLinux
<1>0. Len(k.list) <= ListLimit
  BY RoomForAll
<1>2. /\ Harmless(array) /\ \A x \in 1..Len(L) : x \in 1..Len(array) /\ array[x] = L[x]
      /\ \A x \in 1..Len(L) : \E j \in 1..n : L[x] = k.list[j]
  BY <1>0, SearchedHarmless, ListIpsShow
<1>3. \A j \in 1..n : \E x \in 1..Len(L) : L[x] = k.list[j]
  BY <1>0, ListsAll
<1> HIDE DEF array, L
<1>4. /\ DOMAIN array = 1..Len(array) /\ Len(array) \in Nat /\ n \in Nat /\ m \in Nat
      /\ DOMAIN k.list = 1..n /\ Len(L) \in Nat
  <2>1. Len(L) \in Nat
    BY <1>0, ListIpsShow DEF Harmless, L
  <2> QED
    BY <1>2, <2>1, OwnType DEF Harmless, OwnFirst
<1>5. \A j \in 1..n : k.list[j].ip = ifc.ip => m < j /\ k.list[j].dev = ifc.dev
  <2> SUFFICES ASSUME NEW j \in 1..n, k.list[j].ip = ifc.ip PROVE m < j /\ k.list[j].dev = ifc.dev
    OBVIOUS
  <2>1. m < j
    BY <1>4, OwnType DEF OwnFirst
  <2>2. PICK a \in GroupAddresses : k.list[j].ip = a.ip /\ k.list[j].dev = a.dev
    BY <2>1 DEF Tidy
  <2>3. a.dev = ifc.dev
    BY <2>2, OneDevice
  <2> QED
    BY <2>1, <2>2, <2>3
\* An entry of the address is found where it is listed.
<1>6. ASSUME NEW j \in 1..n, k.list[j].ip = ifc.ip
      PROVE  \E x \in hits : x \in 1..Len(L) /\ array[x] = k.list[j]
  <2>1. PICK x \in 1..Len(L) : L[x] = k.list[j]
    BY <1>3
  <2>2. x \in DOMAIN array /\ array[x] = k.list[j]
    BY <1>2, <1>4, <2>1
  <2>3. Matches(array[x], ifc)
    BY <1>5, <1>6, <2>2 DEF Matches
  <2>4. \E e \in Known(k) : Label(e) = Label(array[x])
    BY <1>4, <2>2 DEF Known
  <2> QED
    BY <2>2, <2>3, <2>4
<1>7. CASE hits = {}
  BY <1>1, <1>6, <1>7 DEF Ips
<1>8. CASE hits # {}
  <2>1. first \in hits /\ \A i \in hits : first <= i
    <3>1. hits \in SUBSET Nat
      BY <1>4
    <3> HIDE DEF hits
    <3> QED
      BY <1>8, <3>1, HasLeast, Zenon
  <2> HIDE DEF first
  <2> DEFINE label == Label(array[first])
             j == CHOOSE i \in DOMAIN k.list : Label(k.list[i]) = label
             R == {j} \cup Casualties(k, j)
             h == Without(k, R)
  <2>2. /\ first \in 1..Len(array) /\ array[first].ip = ifc.ip /\ array[first].dev = ifc.dev
        /\ \E i \in DOMAIN k.list : Label(k.list[i]) = label
    BY <1>4, <2>1 DEF Matches, Known
  <2>3. label \notin OwnLabels
    BY <1>2, <2>2, OwnType DEF Harmless, OwnOrAdded, Added
  <2>4. label[1] = ifc.dev /\ label[2] # 0
    <3>1. label = <<ifc.dev, array[first].alias>> /\ <<ifc.dev, 0>> \in OwnLabels
      BY <2>2 DEF Label, GroupFine
    <3> HIDE DEF label
    <3> QED
      BY <2>3, <3>1
  <2>5. TakeDown(k, label) = h
    <3> HIDE DEF label
    <3> QED
      BY <2>4 DEF TakeDown
  <2>6. j \in 1..n /\ Label(k.list[j]) = label
    <3> HIDE DEF label
    <3> QED
      BY <1>4, <2>2
  <2> HIDE DEF j
  <2>7. m < j
    BY <1>4, <2>3, <2>6, OwnType DEF OwnFirst
  <2>8. ASSUME NEW i \in Casualties(k, j) PROVE i \notin 1..m
    <3>1. i \in DOMAIN k.list /\ i \notin 1..(j - 1)
      BY DEF Casualties
    <3> QED
      BY <1>4, <2>6, <2>7, <3>1
  <2>9. \A i \in R : i \notin 1..m
    BY <1>4, <2>6, <2>7, <2>8
  <2>10. Tidy(h) /\ Ips(h) = {k.list[i].ip : i \in (1..n) \ R}
    <3> HIDE DEF R
    <3> QED
      BY <2>9, WithoutRemoves
  <2>11. ASSUME NEW i \in 1..n, k.list[i].ip = ifc.ip PROVE i = j
    <3>1. PICK x \in hits : x \in 1..Len(L) /\ array[x] = k.list[i]
      BY <1>6, <2>11
    <3>2. first \in 1..Len(L)
      BY <1>4, <2>1, <2>2, <3>1
    <3>3. PICK y \in 1..n : array[first] = k.list[y]
      BY <1>2, <3>2
    <3>4. k.list[y].ip = ifc.ip /\ m < y /\ m < i
      BY <1>5, <2>2, <2>11, <3>3
    <3>5. y = i
      <4>1. ~(y < i) /\ ~(i < y)
        BY <2>11, <3>4 DEF Tidy
      <4> QED
        BY <4>1
    <3>6. Label(k.list[i]) = label
      BY <3>3, <3>5
    <3>7. ~(j < i) /\ ~(i < j)
      BY <2>6, <2>7, <3>4, <3>6 DEF Tidy
    <3> QED
      BY <2>6, <3>7
  <2>12. Ips(h) \in SUBSET (Ips(k) \ {ifc.ip})
    BY <2>10, <2>11 DEF Ips
  <2> QED
    BY <1>1, <1>8, <2>5, <2>10, <2>12
<1> QED
  BY <1>7, <1>8

-----------------------------------------------------------------------------
(* What becomes of an address. *)

Brings(c, v) == c.call = "up" /\ c.ifc.ip = v
Takes(c, v)  == c.call = "down" /\ c.ifc.ip = v

\* On Linux any address may go with another one.
Threatens(c, v) == c.call = "down" /\ (build.linux \/ c.ifc.ip = v)

Unbrought(q, v)  == \A x \in DOMAIN q : ~Brings(q[x], v)
Unthreatened(q, v) == \A x \in DOMAIN q : ~Threatens(q[x], v)
StillTakes(q, v) == \E x \in DOMAIN q : Takes(q[x], v)
BringsLast(q, v) ==
  \E x \in DOMAIN q : Brings(q[x], v) /\ \A y \in DOMAIN q : x < y => ~Threatens(q[y], v)

\* With the calls q to be made, the addresses P in the kernel and those of F refused: what is to
\* be there (V) will be brought up at last or is safe, and what is not will be taken or is gone.
Fated(q, V, P, F, v) ==
  \/ v \in V /\ (BringsLast(q, v) \/ (Unthreatened(q, v) /\ v \in P \cup F))
  \/ v \notin V /\ Unbrought(q, v) /\ (StillTakes(q, v) \/ v \notin P \/ v \in F)

\* The first call is made.
LEMMA TailFates ==
  ASSUME NEW q \in Seq(CallType), q # <<>>, NEW v
  PROVE  /\ Unbrought(q, v) => Unbrought(Tail(q), v) /\ ~Brings(Head(q), v)
         /\ Unthreatened(q, v) => Unthreatened(Tail(q), v) /\ ~Threatens(Head(q), v)
         /\ StillTakes(q, v) => Takes(Head(q), v) \/ StillTakes(Tail(q), v)
         /\ BringsLast(q, v) => BringsLast(Tail(q), v) \/ (Brings(Head(q), v) /\ Unthreatened(Tail(q), v))
<1> DEFINE t == Tail(q)
<1>1. /\ Len(q) \in Nat \ {0} /\ Len(t) = Len(q) - 1
      /\ DOMAIN q = 1..Len(q) /\ DOMAIN t = 1..Len(t)
      /\ \A x \in 1..Len(t) : t[x] = q[x + 1]
      /\ Head(q) = q[1]
  OBVIOUS
<1> HIDE DEF t
<1>2. 1 \in DOMAIN q /\ \A x \in DOMAIN t : x + 1 \in DOMAIN q /\ t[x] = q[x + 1]
  BY <1>1
<1>3. ASSUME NEW x \in DOMAIN q, x # 1 PROVE x - 1 \in DOMAIN t /\ t[x - 1] = q[x]
  <2>1. x - 1 \in 1..Len(t) /\ (x - 1) + 1 = x
    BY <1>1, <1>3
  <2> QED
    BY <1>1, <2>1
<1>4. Unbrought(q, v) => Unbrought(t, v) /\ ~Brings(Head(q), v)
  BY <1>1, <1>2, Zenon DEF Unbrought
<1>5. Unthreatened(q, v) => Unthreatened(t, v) /\ ~Threatens(Head(q), v)
  BY <1>1, <1>2, Zenon DEF Unthreatened
<1>6. StillTakes(q, v) => Takes(Head(q), v) \/ StillTakes(t, v)
  BY <1>1, <1>3, Zenon DEF StillTakes
<1>7. ASSUME BringsLast(q, v)
      PROVE  BringsLast(t, v) \/ (Brings(Head(q), v) /\ Unthreatened(t, v))
  <2>1. PICK x \in DOMAIN q : Brings(q[x], v) /\ \A y \in DOMAIN q : x < y => ~Threatens(q[y], v)
    BY <1>7 DEF BringsLast
  <2>2. CASE x = 1
    <3>1. \A y \in DOMAIN t : y + 1 \in DOMAIN q /\ 1 < y + 1
      BY <1>1
    <3>2. Unthreatened(t, v)
      BY <1>2, <2>1, <2>2, <3>1 DEF Unthreatened
    <3> QED
      BY <1>1, <2>1, <2>2, <3>2
  <2>3. CASE x # 1
    <3>1. x - 1 \in DOMAIN t /\ Brings(t[x - 1], v)
      BY <1>3, <2>1, <2>3
    <3>2. \A y \in DOMAIN t : x - 1 < y => x < y + 1 /\ y + 1 \in DOMAIN q
      BY <1>1
    <3>3. \A y \in DOMAIN t : x - 1 < y => ~Threatens(t[y], v)
      BY <1>2, <2>1, <3>2, Zenon
    <3> QED
      BY <3>1, <3>3, Zenon DEF BringsLast
  <2> QED
    BY <2>2, <2>3
<1> QED
  BY <1>4, <1>5, <1>6, <1>7 DEF t

\* Whatever becomes of a call, the address has its fate.
LEMMA CallFates ==
  ASSUME NEW q \in Seq(CallType), q # <<>>, NEW V, NEW P, NEW F, NEW v, Fated(q, V, P, F, v),
         NEW P2, NEW F2, NEW c, c = Head(q),
         \/ c.call \notin {"up", "down"} /\ P2 = P /\ F2 = F
         \/ c.call = "up" /\ P2 = P \cup {c.ifc.ip} /\ F2 = F \ {c.ifc.ip}
         \/ c.call = "down" /\ P2 \in SUBSET (P \ {c.ifc.ip}) /\ F2 = F \ {c.ifc.ip}
              /\ (~build.linux => P2 = P \ {c.ifc.ip})
         \/ c.call \in {"up", "down"} /\ P2 = P /\ F2 = F \cup {c.ifc.ip}
         \/ c.call = "up" /\ P2 = P \cup {c.ifc.ip} /\ F2 = F \cup {c.ifc.ip}
  PROVE  Fated(Tail(q), V, P2, F2, v)
<1>1. CASE v \in V /\ BringsLast(q, v)
  <2>1. CASE BringsLast(Tail(q), v)
    BY <1>1, <2>1 DEF Fated
  <2>2. CASE Brings(c, v) /\ Unthreatened(Tail(q), v)
    <3>1. v \in P2 \cup F2
      BY <2>2 DEF Brings
    <3> QED
      BY <1>1, <2>2, <3>1 DEF Fated
  <2> QED
    BY <1>1, <2>1, <2>2, TailFates
<1>2. CASE v \in V /\ Unthreatened(q, v) /\ v \in P \cup F
  <2>1. Unthreatened(Tail(q), v) /\ ~Threatens(c, v)
    BY <1>2, TailFates
  <2>2. v \in P2 \cup F2
    BY <1>2, <2>1 DEF Threatens
  <2> QED
    BY <1>2, <2>1, <2>2 DEF Fated
<1>3. CASE v \notin V /\ Unbrought(q, v) /\ (StillTakes(q, v) \/ v \notin P \/ v \in F)
  <2>1. Unbrought(Tail(q), v) /\ ~Brings(c, v)
    BY <1>3, TailFates
  <2>2. CASE StillTakes(Tail(q), v)
    BY <1>3, <2>1, <2>2 DEF Fated
  <2>3. CASE Takes(c, v) \/ v \notin P \/ v \in F
    <3>1. v \notin P2 \/ v \in F2
      BY <2>1, <2>3 DEF Takes, Brings
    <3> QED
      BY <1>3, <2>1, <3>1 DEF Fated
  <2> QED
    BY <1>3, <2>2, <2>3, TailFates
<1> QED
  BY <1>1, <1>2, <1>3 DEF Fated
-----------------------------------------------------------------------------
(* What the handlers bring up and take down. *)

\* Bringing an interface up.
LEMMA UpMakes ==
  ASSUME EachHasAddress, NEW i \in Vif
  PROVE  /\ \A c \in Made(Up(i)) : c.call = "up" /\ c.ifc.ip \in IpsOf({i})
         /\ \A v \in IpsOf({i}) : \E c \in Made(Up(i)) : Brings(c, v)
<1> DEFINE A == Addresses(i)
           u == Up(i)
<1>1. DOMAIN u = DOMAIN A /\ \A x \in DOMAIN A : u[x] = [call |-> "up", vif |-> i, ifc |-> A[x]]
  BY DEF Up
<1>2. \A v : v \in IpsOf({i}) <=> \E x \in DOMAIN A : v = A[x].ip
  BY DEF IpsOf
<1> HIDE DEF A, u
<1>3. \A x \in DOMAIN A : u[x].call = "up" /\ u[x].ifc.ip = A[x].ip
  BY <1>1
<1>4. ASSUME NEW c \in Made(u) PROVE c.call = "up" /\ c.ifc.ip \in IpsOf({i})
  <2>1. PICK x \in DOMAIN A : c = u[x]
    BY <1>1 DEF Made
  <2> QED
    BY <1>2, <1>3, <2>1, Zenon
<1>5. ASSUME NEW v \in IpsOf({i}) PROVE \E c \in Made(u) : Brings(c, v)
  <2>1. PICK x \in DOMAIN A : v = A[x].ip
    BY <1>2
  <2>2. u[x] \in Made(u) /\ Brings(u[x], v)
    BY <1>1, <1>3, <2>1 DEF Made, Brings
  <2> QED
    BY <2>2
<1> QED
  BY <1>4, <1>5 DEF u

\* Acquiring one takes nothing.
LEMMA AcquireMakes ==
  ASSUME EachHasAddress, NEW i \in Vif
  PROVE  /\ \A c \in Made(Acquire(i)) : c.call # "down" /\ (c.call = "up" => c.ifc.ip \in IpsOf({i}))
         /\ \A v \in IpsOf({i}) : \E c \in Made(Acquire(i)) : Brings(c, v)
<1> DEFINE t == Tell(i, "on up")
<1>1. t \in CallType /\ t.call = "on up"
  BY DEF Tell, CallType, Event
<1>2. Acquire(i) = Up(i) \o <<t>>
  BY DEF Acquire
<1> HIDE DEF t
<1>3. <<t>> \in Seq(CallType) /\ Made(<<t>>) = {t}
  <2>1. <<t>> \in Seq(CallType) /\ DOMAIN <<t>> = 1..1 /\ <<t>>[1] = t
    BY <1>1, Single
  <2>2. 1..1 = {1}
    OBVIOUS
  <2> QED
    BY <2>1, <2>2 DEF Made
<1>4. Made(Acquire(i)) = Made(Up(i)) \cup {t}
  <2>1. Up(i) \in Seq(CallType)
    BY AcquireTells
  <2>2. Made(Up(i) \o <<t>>) = Made(Up(i)) \cup Made(<<t>>)
    <3> DEFINE one == <<t>>
    <3>1. one \in Seq(CallType)
      BY <1>3
    <3> HIDE DEF one
    <3>2. Made(Up(i) \o one) = Made(Up(i)) \cup Made(one)
      BY <2>1, <3>1, MadeConcat
    <3> QED
      BY <3>2 DEF one
  <2> QED
    BY <1>2, <1>3, <2>2
<1> QED
  BY <1>1, <1>4, UpMakes

\* Releasing one brings nothing up.
LEMMA ReleaseMakes ==
  ASSUME EachHasAddress, NEW i \in Vif
  PROVE  /\ \A c \in Made(Release(i)) : c.call # "up" /\ (c.call = "down" => c.ifc.ip \in IpsOf({i}))
         /\ \A v \in IpsOf({i}) : \E c \in Made(Release(i)) : Takes(c, v)
<1>1. PICK n \in Nat \ {0} : DOMAIN Addresses(i) = 1..n
  BY AddressesListed
<1> DEFINE A == Addresses(i)
           t == Tell(i, "on down")
           c(x) == [call |-> "down", vif |-> i, ifc |-> A[x]]
           s == [x \in 1..n |-> <<c(x), t>>]
<1>2. Release(i) = FlattenSeq(s)
  <2>1. DOMAIN Down(i) = 1..n /\ \A x \in 1..n : Down(i)[x] = c(x)
    BY <1>1 DEF Down
  <2>2. [x \in DOMAIN Down(i) |-> <<Down(i)[x], t>>] = s
    <3> HIDE DEF c, t
    <3> QED
      BY <2>1
  <2> QED
    BY <2>2 DEF Release
<1>3. t \in CallType /\ t.call = "on down"
  BY DEF Tell, CallType, Event
<1>4. ASSUME NEW x \in 1..n
      PROVE  c(x) \in CallType /\ c(x).call = "down" /\ c(x).ifc.ip = A[x].ip
  <2>1. A[x] \in Given
    BY <1>1 DEF Given
  <2> HIDE DEF A
  <2> QED
    BY <2>1 DEF CallType
<1>5. \A v : v \in IpsOf({i}) <=> \E x \in 1..n : v = A[x].ip
  BY <1>1 DEF IpsOf
<1> HIDE DEF t, c, A
<1>6. ASSUME NEW x \in 1..n PROVE <<c(x), t>> \in Seq(CallType) /\ Made(<<c(x), t>>) = {c(x), t}
  <2> DEFINE d == c(x)
             q == <<d, t>>
  <2>1. d \in CallType
    BY <1>4
  <2> HIDE DEF d
  <2>2. q \in Seq(CallType) /\ DOMAIN q = 1..2 /\ q[1] = d /\ q[2] = t
    <3>1. d \in CallType /\ t \in CallType
      BY <1>3, <2>1, Zenon
    <3> QED
      BY <3>1, Pair
  <2> HIDE DEF q
  <2>3. 1..2 = {1, 2}
    OBVIOUS
  <2>4. q \in Seq(CallType) /\ Made(q) = {d, t}
    BY <2>2, <2>3 DEF Made
  <2> QED
    BY <2>4 DEF q, d
<1>7. s \in [1..n -> Seq(CallType)] /\ \A x \in 1..n : s[x] = <<c(x), t>>
  BY <1>6
<1> HIDE DEF s
<1>8. Made(Release(i)) = UNION {Made(s[x]) : x \in 1..n}
  BY <1>2, <1>7, MadeFlatten
<1>9. \A x \in 1..n : Made(s[x]) = {c(x), t}
  BY <1>6, <1>7
<1>10. ASSUME NEW d \in Made(Release(i))
       PROVE  d.call # "up" /\ (d.call = "down" => d.ifc.ip \in IpsOf({i}))
  <2>1. PICK x \in 1..n : d \in Made(s[x])
    BY <1>8
  <2>2. d = c(x) \/ d = t
    BY <1>9, <2>1
  <2> QED
    BY <1>3, <1>4, <1>5, <2>2
<1>11. ASSUME NEW v \in IpsOf({i}) PROVE \E d \in Made(Release(i)) : Takes(d, v)
  <2>1. PICK x \in 1..n : v = A[x].ip
    BY <1>5
  <2>2. c(x) \in Made(Release(i))
    BY <1>8, <1>9
  <2>3. Takes(c(x), v)
    BY <1>4, <2>1 DEF Takes
  <2> QED
    BY <2>2, <2>3
<1> QED
  BY <1>10, <1>11

\* Clean_up takes everything and brings nothing up.
LEMMA CleanUpMakes ==
  ASSUME EachHasAddress
  PROVE  /\ \A c \in Made(CleanUp) : c.call # "up"
         /\ \A v \in IpsOf(Vif) : \E c \in Made(CleanUp) : Takes(c, v)
<1> DEFINE n == cf.n
           s == [i \in 1..n |-> Release(i)]
<1>1. n \in Nat /\ Vif = 1..n
  BY DEF EachHasAddress, Vif
<1>2. CleanUp = FlattenSeq(s)
  <2>1. [i \in Vif |-> IF i \in Vif THEN Release(i) ELSE <<>>] = s
    BY <1>1
  <2> QED
    BY <2>1, Zenon DEF CleanUp, Each
<1> HIDE DEF n
<1>3. s \in [1..n -> Seq(CallType)] /\ \A i \in 1..n : s[i] = Release(i)
  BY <1>1, ReleaseTells
<1> HIDE DEF s
<1>4. Made(CleanUp) = UNION {Made(s[i]) : i \in 1..n}
  BY <1>1, <1>2, <1>3, MadeFlatten
<1>5. ASSUME NEW c \in Made(CleanUp) PROVE c.call # "up"
  <2>1. PICK i \in Vif : c \in Made(Release(i))
    BY <1>1, <1>3, <1>4
  <2> QED
    BY <2>1, ReleaseMakes
<1>6. ASSUME NEW v \in IpsOf(Vif) PROVE \E c \in Made(CleanUp) : Takes(c, v)
  <2>1. PICK i \in Vif : v \in IpsOf({i})
    BY DEF IpsOf
  <2>2. PICK c \in Made(Release(i)) : Takes(c, v)
    BY <2>1, ReleaseMakes
  <2>3. c \in Made(CleanUp)
    BY <1>1, <1>3, <1>4, <2>2
  <2> QED
    BY <2>2, <2>3
<1> QED
  BY <1>5, <1>6

\* force_reup brings up what it is for, on Linux, and takes nothing.
LEMMA ForceReupMakes ==
  ASSUME EachHasAddress, NEW M \in SUBSET Vif
  PROVE  /\ \A c \in Made(ForceReup(M)) : c.call = "up" /\ c.ifc.ip \in IpsOf(M)
         /\ build.linux => \A v \in IpsOf(M) : \E c \in Made(ForceReup(M)) : Brings(c, v)
<1> DEFINE n == cf.n
           s == [i \in 1..n |-> IF i \in M THEN Up(i) ELSE <<>>]
<1>1. n \in Nat /\ Vif = 1..n
  BY DEF EachHasAddress, Vif
<1>2. <<>> \in Seq(CallType) /\ Made(<<>>) = {}
  BY DEF Made
<1>3. ForceReup(M) = IF build.linux THEN FlattenSeq(s) ELSE <<>>
  BY <1>1 DEF ForceReup, Each
<1> HIDE DEF n
<1>4. s \in [1..n -> Seq(CallType)] /\ \A i \in 1..n : s[i] = IF i \in M THEN Up(i) ELSE <<>>
  BY <1>1, <1>2, AcquireTells
<1> HIDE DEF s
<1>5. Made(FlattenSeq(s)) = UNION {Made(s[i]) : i \in 1..n}
  BY <1>1, <1>4, MadeFlatten
<1>6. \A v : v \in IpsOf(M) <=> \E i \in M : v \in IpsOf({i})
  BY DEF IpsOf
<1>7. ASSUME NEW c \in Made(FlattenSeq(s)) PROVE c.call = "up" /\ c.ifc.ip \in IpsOf(M)
  <2>1. PICK i \in 1..n : c \in Made(s[i])
    BY <1>5
  <2>2. i \in M /\ i \in Vif /\ c \in Made(Up(i))
    BY <1>1, <1>2, <1>4, <2>1
  <2>3. c.call = "up" /\ c.ifc.ip \in IpsOf({i})
    BY <2>2, UpMakes
  <2> QED
    BY <1>6, <2>2, <2>3
<1>8. ASSUME NEW v \in IpsOf(M) PROVE \E c \in Made(FlattenSeq(s)) : Brings(c, v)
  <2>1. PICK i \in M : v \in IpsOf({i})
    BY <1>6
  <2>2. PICK c \in Made(Up(i)) : Brings(c, v)
    BY <2>1, UpMakes
  <2>3. i \in 1..n /\ s[i] = Up(i)
    BY <1>1, <1>4
  <2>4. c \in Made(FlattenSeq(s))
    BY <1>5, <2>2, <2>3
  <2> QED
    BY <2>2, <2>4
<1> QED
  BY <1>2, <1>3, <1>7, <1>8

\* If nothing is brought up and the address is taken somewhere, that is its fate; so is being
\* brought up somewhere if nothing threatens it; or at the end, whatever was before.
LEMMA MadeFates ==
  ASSUME NEW q \in Seq(CallType), NEW v
  PROVE  /\ (\A c \in Made(q) : ~Brings(c, v)) => Unbrought(q, v)
         /\ (\A c \in Made(q) : ~Threatens(c, v)) => Unthreatened(q, v)
         /\ (\E c \in Made(q) : Takes(c, v)) => StillTakes(q, v)
         /\ (\A c \in Made(q) : ~Threatens(c, v)) /\ (\E c \in Made(q) : Brings(c, v)) => BringsLast(q, v)
<1>1. \A x \in DOMAIN q : q[x] \in Made(q)
  BY DEF Made
<1>2. \A c \in Made(q) : \E x \in DOMAIN q : c = q[x]
  BY DEF Made
<1>3. (\A c \in Made(q) : ~Brings(c, v)) => Unbrought(q, v)
  BY <1>1, Zenon DEF Unbrought
<1>4. (\A c \in Made(q) : ~Threatens(c, v)) => Unthreatened(q, v)
  BY <1>1, Zenon DEF Unthreatened
<1>5. (\E c \in Made(q) : Takes(c, v)) => StillTakes(q, v)
  BY <1>2, Zenon DEF StillTakes
<1>6. (\A c \in Made(q) : ~Threatens(c, v)) /\ (\E c \in Made(q) : Brings(c, v)) => BringsLast(q, v)
  BY <1>1, <1>2, Zenon DEF BringsLast
<1> QED
  BY <1>3, <1>4, <1>5, <1>6

\* What is brought up at the end is, whatever is called before.
LEMMA BringsLastBehind ==
  ASSUME NEW p \in Seq(CallType), NEW q \in Seq(CallType), NEW v, BringsLast(q, v)
  PROVE  BringsLast(p \o q, v)
<1> DEFINE r == p \o q
           m == Len(p)
<1>1. /\ m \in Nat /\ Len(q) \in Nat
      /\ DOMAIN q = 1..Len(q) /\ DOMAIN r = 1..(m + Len(q))
      /\ \A x \in 1..Len(q) : r[m + x] = q[x]
  OBVIOUS
<1> HIDE DEF r, m
<1>2. PICK x \in DOMAIN q : Brings(q[x], v) /\ \A y \in DOMAIN q : x < y => ~Threatens(q[y], v)
  BY DEF BringsLast
<1>3. m + x \in DOMAIN r /\ Brings(r[m + x], v)
  BY <1>1, <1>2
<1>4. ASSUME NEW y \in DOMAIN r, m + x < y PROVE ~Threatens(r[y], v)
  <2>1. y - m \in DOMAIN q /\ m + (y - m) = y /\ x < y - m
    BY <1>1, <1>4
  <2>2. r[y] = q[y - m]
    BY <1>1, <2>1
  <2> QED
    BY <1>2, <2>1, <2>2
<1>5. BringsLast(r, v)
  BY <1>3, <1>4, Zenon DEF BringsLast
<1> QED
  BY <1>5 DEF r
-----------------------------------------------------------------------------
(* The group and its machine. *)

\* The addresses of the group are addresses.
LEMMA GroupType ==
  ASSUME GroupFine
  PROVE  /\ GroupIps \subseteq Ip /\ NoIp \notin GroupIps
         /\ \A i \in DOMAIN AddressTable : 1 \in DOMAIN AddressTable[i]
<1>1. TextFine
  BY DEF GroupFine
<1>2. \A i \in DOMAIN AddressTable :
        /\ 1 \in DOMAIN AddressTable[i]
        /\ \A x \in DOMAIN AddressTable[i] : AddressTable[i][x].ip \in Ip \ {NoIp}
  BY <1>1, TableType
<1>3. ASSUME NEW v \in GroupIps PROVE v \in Ip \ {NoIp}
  <2>1. PICK a \in GroupAddresses : v = a.ip
    BY DEF GroupIps
  <2>2. PICK i \in DOMAIN AddressTable : \E x \in DOMAIN AddressTable[i] : a = AddressTable[i][x]
    BY DEF GroupAddresses
  <2>3. PICK x \in DOMAIN AddressTable[i] : a = AddressTable[i][x]
    BY <2>2
  <2> QED
    BY <1>2, <2>1, <2>3
<1> QED
  BY <1>2, <1>3

\* What runs has the addresses of the text, each of one interface.
LEMMA RunsAsWritten ==
  ASSUME GroupFine, VifsAsWritten
  PROVE  /\ Given = GroupAddresses /\ IpsOf(Vif) = GroupIps
         /\ \A i, j \in Vif : \A v : v \in IpsOf({i}) /\ v \in IpsOf({j}) => i = j
<1>1. Vif = DOMAIN AddressTable /\ \A i \in Vif : Addresses(i) = AddressTable[i]
  BY DEF Vif, VifsAsWritten, AddressTable
<1>2. Given = GroupAddresses
  BY <1>1 DEF Given, GroupAddresses
<1>3. IpsOf(Vif) = GroupIps
  <2>1. \A v : v \in IpsOf(Vif) <=> \E i \in Vif : \E x \in DOMAIN Addresses(i) : v = Addresses(i)[x].ip
    BY DEF IpsOf
  <2>2. \A a : a \in Given <=> \E i \in Vif : \E x \in DOMAIN Addresses(i) : a = Addresses(i)[x]
    BY DEF Given
  <2>3. \A v : v \in GroupIps <=> \E a \in Given : v = a.ip
    BY <1>2 DEF GroupIps
  <2>4. ASSUME NEW v \in IpsOf(Vif) PROVE v \in GroupIps
    <3>1. PICK i \in Vif : \E x \in DOMAIN Addresses(i) : v = Addresses(i)[x].ip
      BY <2>1
    <3>2. PICK x \in DOMAIN Addresses(i) : v = Addresses(i)[x].ip
      BY <3>1
    <3> QED
      BY <2>2, <2>3, <3>2, Zenon
  <2>5. ASSUME NEW v \in GroupIps PROVE v \in IpsOf(Vif)
    <3>1. PICK a \in Given : v = a.ip
      BY <2>3
    <3>2. PICK i \in Vif : \E x \in DOMAIN Addresses(i) : a = Addresses(i)[x]
      BY <2>2
    <3>3. PICK x \in DOMAIN Addresses(i) : a = Addresses(i)[x]
      BY <3>2
    <3>4. v = Addresses(i)[x].ip
      BY <3>1, <3>3, Zenon
    <3> QED
      BY <2>1, <3>4, Zenon
  <2> QED
    BY <2>4, <2>5
<1>4. ASSUME NEW i \in Vif, NEW j \in Vif, NEW v, v \in IpsOf({i}), v \in IpsOf({j}) PROVE i = j
  <2>1. PICK x \in DOMAIN AddressTable[i] : v = AddressTable[i][x].ip
    BY <1>1, <1>4 DEF IpsOf
  <2>2. PICK y \in DOMAIN AddressTable[j] : v = AddressTable[j][y].ip
    BY <1>1, <1>4 DEF IpsOf
  <2>3. AddressTable[i][x].ip = AddressTable[j][y].ip
    BY <2>1, <2>2, Zenon
  <2> QED
    BY <1>1, <2>3, TableApart
<1> QED
  BY <1>2, <1>3, <1>4

\* A clean-up is the fate of everything.
LEMMA CleanUpFates ==
  ASSUME EachHasAddress, NEW P, NEW F, NEW v \in IpsOf(Vif)
  PROVE  Fated(CleanUp, IpsOf({}), P, F, v)
<1>1. IpsOf({}) = {}
  BY DEF IpsOf
<1>2. CleanUp \in Seq(CallType)
  BY CleanUpTells
<1>3. \A c \in Made(CleanUp) : ~Brings(c, v)
  BY CleanUpMakes DEF Brings
<1>4. Unbrought(CleanUp, v) /\ StillTakes(CleanUp, v)
  BY <1>2, <1>3, CleanUpMakes, MadeFates
<1> QED
  BY <1>1, <1>4 DEF Fated

\* So is a decision of what it is about; on Linux it looks after the others.
LEMMA BatchFates ==
  ASSUME EachHasAddress, mine \in SUBSET Vif, Batch,
         \A i, j \in Vif : \A v : v \in IpsOf({i}) /\ v \in IpsOf({j}) => i = j,
         NEW P, NEW F, NEW v \in IpsOf(Vif), Fated(todo, IpsOf(mine), P, F, v)
  PROVE  Fated(todo', IpsOf(mine'), P, F, v)
<1>0. PICK n \in 1..cf.n : \E s \in [1..n -> Vif] :
        /\ mine' = (mine \ {s[j] : j \in 1..n}) \cup ({s[j] : j \in 1..n} \ mine)
        /\ todo' = FlattenSeq([j \in 1..n |-> IF s[j] \in mine THEN Release(s[j]) ELSE Acquire(s[j])])
                     \o (IF {s[j] : j \in 1..n} \cap mine # {} THEN ForceReup(mine') ELSE <<>>)
  BY DEF Batch
<1>1. PICK s \in [1..n -> Vif] :
        /\ mine' = (mine \ {s[j] : j \in 1..n}) \cup ({s[j] : j \in 1..n} \ mine)
        /\ todo' = FlattenSeq([j \in 1..n |-> IF s[j] \in mine THEN Release(s[j]) ELSE Acquire(s[j])])
                     \o (IF {s[j] : j \in 1..n} \cap mine # {} THEN ForceReup(mine') ELSE <<>>)
  BY <1>0
<1>2. n \in Nat
  BY DEF EachHasAddress
<1> DEFINE V == {s[j] : j \in 1..n}
           t == [j \in 1..n |-> IF s[j] \in mine THEN Release(s[j]) ELSE Acquire(s[j])]
           p == FlattenSeq(t)
           q == IF V \cap mine # {} THEN ForceReup(mine') ELSE <<>>
<1>3. todo' = p \o q /\ mine' = (mine \ V) \cup (V \ mine)
  BY <1>1
<1>4. V \in SUBSET Vif
  OBVIOUS
<1>5. mine' \in SUBSET Vif
  BY <1>3, <1>4
<1>6. t \in [1..n -> Seq(CallType)]
  BY AcquireTells, ReleaseTells
<1>7. \A j \in 1..n : s[j] \in Vif /\ t[j] = IF s[j] \in mine THEN Release(s[j]) ELSE Acquire(s[j])
  OBVIOUS
<1>8. \A i : i \in V <=> \E j \in 1..n : i = s[j]
  OBVIOUS
<1> HIDE DEF V, t
<1>9. p \in Seq(CallType) /\ Made(p) = UNION {Made(t[j]) : j \in 1..n}
  BY <1>2, <1>6, FlattenCalls, MadeFlatten
<1> HIDE DEF p
\* The turns take what is released and bring up what is acquired.
<1>10. ASSUME NEW c \in Made(p)
       PROVE  \E i \in V : \/ i \in mine /\ c.call # "up" /\ (c.call = "down" => c.ifc.ip \in IpsOf({i}))
                           \/ i \notin mine /\ c.call # "down" /\ (c.call = "up" => c.ifc.ip \in IpsOf({i}))
  <2>1. PICK j \in 1..n : c \in Made(t[j])
    BY <1>9
  <2> DEFINE i == s[j]
  <2>2. i \in Vif /\ i \in V /\ c \in Made(IF i \in mine THEN Release(i) ELSE Acquire(i))
    BY <1>7, <1>8, <2>1
  <2> HIDE DEF i
  <2>3. CASE i \in mine
    BY <2>2, <2>3, ReleaseMakes
  <2>4. CASE i \notin mine
    BY <2>2, <2>4, AcquireMakes
  <2> QED
    BY <2>3, <2>4
<1>11. ASSUME NEW i \in V, v \in IpsOf({i})
       PROVE  \E c \in Made(p) : IF i \in mine THEN Takes(c, v) ELSE Brings(c, v)
  <2>1. PICK j \in 1..n : i = s[j]
    BY <1>8
  <2>2. i \in Vif /\ t[j] = IF i \in mine THEN Release(i) ELSE Acquire(i)
    BY <1>7, <2>1
  <2>3. \E c \in Made(t[j]) : IF i \in mine THEN Takes(c, v) ELSE Brings(c, v)
    <3>1. CASE i \in mine
      BY <1>11, <2>2, <3>1, ReleaseMakes
    <3>2. CASE i \notin mine
      BY <1>11, <2>2, <3>2, AcquireMakes
    <3> QED
      BY <3>1, <3>2
  <2> QED
    BY <1>9, <2>3
<1>12. /\ q \in Seq(CallType) /\ \A c \in Made(q) : c.call = "up" /\ c.ifc.ip \in IpsOf(mine')
       /\ V \cap mine # {} /\ build.linux /\ v \in IpsOf(mine') => \E c \in Made(q) : Brings(c, v)
  <2>1. CASE V \cap mine # {}
    <3>1. q = ForceReup(mine')
      BY <2>1
    <3> HIDE DEF q
    <3> QED
      BY <1>5, <3>1, ForceReupTells, ForceReupMakes
  <2>2. CASE V \cap mine = {}
    <3>1. q = <<>>
      BY <2>2
    <3>2. <<>> \in Seq(CallType) /\ Made(<<>>) = {}
      BY DEF Made
    <3> HIDE DEF q
    <3> QED
      BY <2>2, <3>1, <3>2
  <2> QED
    BY <2>1, <2>2
<1> HIDE DEF q
<1>13. todo' \in Seq(CallType) /\ Made(todo') = Made(p) \cup Made(q)
  BY <1>3, <1>9, <1>12, MadeConcat
<1>14. PICK o \in Vif : v \in IpsOf({o})
  BY DEF IpsOf
<1>15. \A M \in SUBSET Vif : v \in IpsOf(M) <=> o \in M
  <2>1. \A M : v \in IpsOf(M) <=> \E i \in M : v \in IpsOf({i})
    BY DEF IpsOf
  <2>2. ASSUME NEW M \in SUBSET Vif, v \in IpsOf(M) PROVE o \in M
    <3>1. PICK i \in M : v \in IpsOf({i})
      BY <2>1, <2>2
    <3>2. i = o
      BY <1>14, <3>1
    <3> QED
      BY <3>2
  <2> QED
    BY <1>14, <2>1, <2>2
<1>16. CASE o \in mine'
  <2>1. v \in IpsOf(mine')
    BY <1>5, <1>15, <1>16
  <2>2. CASE build.linux /\ V \cap mine # {}
    <3>1. BringsLast(q, v)
      <4>1. \A c \in Made(q) : ~Threatens(c, v)
        BY <1>12 DEF Threatens
      <4> QED
        BY <1>12, <2>1, <2>2, <4>1, MadeFates
    <3>2. BringsLast(todo', v)
      BY <1>3, <1>9, <1>12, <3>1, BringsLastBehind
    <3> QED
      BY <2>1, <3>2 DEF Fated
  <2>3. CASE ~(build.linux /\ V \cap mine # {})
    <3>1. \A c \in Made(todo') : ~Threatens(c, v)
      <4> SUFFICES ASSUME NEW c \in Made(p), Threatens(c, v) PROVE FALSE
        BY <1>12, <1>13 DEF Threatens
      <4>1. PICK i \in V : \/ i \in mine /\ c.call # "up" /\ (c.call = "down" => c.ifc.ip \in IpsOf({i}))
                           \/ i \notin mine /\ c.call # "down" /\ (c.call = "up" => c.ifc.ip \in IpsOf({i}))
        BY <1>10
      <4>2. c.call = "down" /\ (build.linux \/ c.ifc.ip = v)
        BY DEF Threatens
      <4>3. i \in mine /\ i \in V /\ c.ifc.ip \in IpsOf({i})
        BY <4>1, <4>2
      <4>4. c.ifc.ip = v
        BY <2>3, <4>2, <4>3
      <4>5. i = o
        BY <1>4, <1>14, <4>3, <4>4
      <4> QED
        BY <1>3, <1>16, <4>3, <4>5
    <3>2. CASE o \in V
      <4>1. o \notin mine
        BY <1>3, <1>16, <3>2
      <4>2. \E c \in Made(todo') : Brings(c, v)
        BY <1>11, <1>13, <1>14, <3>2, <4>1
      <4>3. BringsLast(todo', v)
        BY <1>13, <3>1, <4>2, MadeFates
      <4> QED
        BY <2>1, <4>3 DEF Fated
    <3>3. CASE o \notin V
      <4>1. v \in IpsOf(mine)
        BY <1>3, <1>15, <1>16, <3>3
      <4>2. todo = <<>>
        BY DEF Batch, Idle
      <4>3. ~BringsLast(todo, v)
        <5>1. DOMAIN todo = {}
          BY <4>2
        <5> QED
          BY <5>1, Zenon DEF BringsLast
      <4>4. v \in P \cup F
        BY <4>1, <4>3 DEF Fated
      <4>5. Unthreatened(todo', v)
        BY <1>13, <3>1, MadeFates
      <4> QED
        BY <2>1, <4>4, <4>5 DEF Fated
    <3> QED
      BY <3>2, <3>3
  <2> QED
    BY <2>2, <2>3
<1>17. CASE o \notin mine'
  <2>1. v \notin IpsOf(mine')
    BY <1>5, <1>15, <1>17
  <2>2. \A c \in Made(todo') : ~Brings(c, v)
    <3>1. ASSUME NEW c \in Made(p), Brings(c, v) PROVE FALSE
      <4>1. PICK i \in V : \/ i \in mine /\ c.call # "up" /\ (c.call = "down" => c.ifc.ip \in IpsOf({i}))
                           \/ i \notin mine /\ c.call # "down" /\ (c.call = "up" => c.ifc.ip \in IpsOf({i}))
        BY <1>10
      <4>2. c.call = "up" /\ c.ifc.ip = v
        BY <3>1 DEF Brings
      <4>3. i \notin mine /\ v \in IpsOf({i})
        BY <4>1, <4>2
      <4>4. i = o
        BY <1>4, <1>14, <4>3
      <4> QED
        BY <1>3, <1>17, <4>3, <4>4
    <3>2. ASSUME NEW c \in Made(q), Brings(c, v) PROVE FALSE
      BY <1>12, <2>1, <3>2 DEF Brings
    <3> QED
      BY <1>13, <3>1, <3>2
  <2>3. Unbrought(todo', v)
    BY <1>13, <2>2, MadeFates
  <2>4. CASE o \in V
    <3>1. o \in mine
      BY <1>3, <1>17, <2>4
    <3>2. \E c \in Made(todo') : Takes(c, v)
      BY <1>11, <1>13, <1>14, <2>4, <3>1
    <3>3. StillTakes(todo', v)
      BY <1>13, <3>2, MadeFates
    <3> QED
      BY <2>1, <2>3, <3>3 DEF Fated
  <2>5. CASE o \notin V
    <3>1. v \notin IpsOf(mine)
      BY <1>3, <1>15, <1>17, <2>5
    <3>2. todo = <<>>
      BY DEF Batch, Idle
    <3>3. ~StillTakes(todo, v)
      <4>1. DOMAIN todo = {}
        BY <3>2
      <4> QED
        BY <4>1, Zenon DEF StillTakes
    <3>4. v \notin P \/ v \in F
      BY <3>1, <3>3 DEF Fated
    <3> QED
      BY <2>1, <2>3, <3>4 DEF Fated
  <2> QED
    BY <2>4, <2>5
<1> QED
  BY <1>16, <1>17
-----------------------------------------------------------------------------
(* What the kernel ends up with. *)

Fates == \A v \in GroupIps : Fated(todo, IpsOf(mine), Ips(kernel), failed, v)

GroupInv ==
  /\ BystandersInv /\ GroupFine /\ Tidy(kernel)
  /\ phase \in {"run", "exit"} => AllRead /\ Fates
  /\ phase = "gone" /\ clean => GroupIps \cap Ips(kernel) \subseteq failed

\* What the file gives the group depends on the text alone.
LEMMA SameTable ==
  ASSUME text' = text, build' = build
  PROVE  /\ GroupAddresses' = GroupAddresses /\ GroupIps' = GroupIps /\ (GroupFine' <=> GroupFine)
         /\ Tidy(kernel)' <=> Tidy(kernel')
<1>2. Listed("vifs")' = Listed("vifs")
  BY DEF Listed
<1>3. AddressTable' = AddressTable
  BY <1>2 DEF AddressTable, Interface
<1>4. GroupAddresses' = GroupAddresses
  BY <1>3 DEF GroupAddresses
<1>5. GroupIps' = GroupIps
  BY <1>4 DEF GroupIps
<1>6. GroupFine' <=> GroupFine
  BY <1>2, <1>3, <1>4, <1>5 DEF GroupFine, TextFine
<1>7. Tidy(kernel)' <=> Tidy(kernel')
  BY <1>4 DEF Tidy
<1> QED
  BY <1>4, <1>5, <1>6, <1>7

\* The fates after a step, in terms of what is read before it.
LEMMA FatesNext ==
  ASSUME text' = text, build' = build, cf' = cf,
         \A v \in GroupIps : Fated(todo', IpsOf(mine'), Ips(kernel'), failed', v)
  PROVE  Fates'
<1>0. \A i : Addresses(i)' = Addresses(i)
  BY Zenon DEF Addresses
<1>1. IpsOf(mine)' = IpsOf(mine')
  BY <1>0 DEF IpsOf
<1>2. Ips(kernel)' = Ips(kernel')
  BY DEF Ips
<1>3. GroupIps' = GroupIps
  BY SameTable
<1>4. \A c, w : Threatens(c, w)' <=> Threatens(c, w)
  BY DEF Threatens
<1>5. ASSUME NEW v \in GroupIps PROVE Fated(todo, IpsOf(mine), Ips(kernel), failed, v)'
  <2>1. Unthreatened(todo, v)' <=> Unthreatened(todo', v)
    BY <1>4 DEF Unthreatened
  <2>2. BringsLast(todo, v)' <=> BringsLast(todo', v)
    BY <1>4 DEF BringsLast
  <2>3. Unbrought(todo, v)' <=> Unbrought(todo', v)
    BY DEF Unbrought
  <2>4. StillTakes(todo, v)' <=> StillTakes(todo', v)
    BY DEF StillTakes
  <2>5. Fated(todo', IpsOf(mine'), Ips(kernel'), failed', v)
    OBVIOUS
  <2> QED
    BY <1>1, <1>2, <2>1, <2>2, <2>3, <2>4, <2>5 DEF Fated
<1> QED
  BY <1>3, <1>5 DEF Fates

\* While the daemon runs or cleans up, it has the addresses of the text.
LEMMA RunningGroup ==
  ASSUME BystandersInv, GroupFine, phase = "run" => EachHasAddress /\ GroupApart, VifsRead, AllRead,
         phase \in {"run", "exit"}
  PROVE  /\ EachHasAddress /\ GroupApart /\ VifsAsWritten
         /\ todo \in Seq(CallType) /\ mine \in SUBSET Vif
         /\ Given = GroupAddresses /\ IpsOf(Vif) = GroupIps
         /\ \A i, j \in Vif : \A v : v \in IpsOf({i}) /\ v \in IpsOf({j}) => i = j
<1>1. EachHasAddress /\ GroupApart /\ todo \in Seq(CallType) /\ mine \in SUBSET Vif
  BY DEF BystandersInv, HooksInv
<1>2. VifsAsWritten
  BY Zenon DEF VifsRead
<1> QED
  BY <1>1, <1>2, RunsAsWritten

\* Calls to the driver, made or refused, and to user functions.
LEMMA CallsFate ==
  ASSUME GroupInv, phase = "run" => EachHasAddress /\ GroupApart, VifsRead,
         Call \/ CallFails \/ Execute
  PROVE  /\ Tidy(kernel')
         /\ \A v \in GroupIps : Fated(todo', IpsOf(mine'), Ips(kernel'), failed', v)
<1> DEFINE c == Head(todo)
<1>1. todo # <<>> /\ todo' = Tail(todo) /\ mine' = mine
  BY DEF Call, CallFails, Execute
<1>2. phase \in {"run", "exit"} /\ BystandersInv /\ GroupFine /\ Tidy(kernel) /\ OwnFirst(kernel) /\ Harmless(slots)
  BY <1>1 DEF GroupInv, BystandersInv, HooksInv
<1>3. AllRead /\ Fates
  BY <1>2 DEF GroupInv
<1>4. todo \in Seq(CallType) /\ Given = GroupAddresses
  BY <1>2, <1>3, RunningGroup
<1>5. c.call \in {"up", "down"} => c.ifc \in GroupAddresses /\ c.ifc.ip \notin OwnIps
  <2> SUFFICES ASSUME c.call \in {"up", "down"} PROVE c.ifc \in GroupAddresses /\ c.ifc.ip \notin OwnIps
    OBVIOUS
  <2>1. c.ifc.ip \notin OwnIps
    BY <1>1, <1>2, CallsApart
  <2>2. c \in CallType
    BY <1>1, <1>4
  <2> HIDE DEF c
  <2>3. c \in [call : {"up", "down"}, vif : Vif, ifc : Given]
    BY <2>2 DEF CallType, Event
  <2> QED
    BY <1>4, <2>1, <2>3 DEF c
<1> DEFINE P == Ips(kernel)
           P2 == Ips(kernel')
<1>6. /\ Tidy(kernel')
      /\ \/ c.call \notin {"up", "down"} /\ P2 = P /\ failed' = failed
         \/ c.call = "up" /\ P2 = P \cup {c.ifc.ip} /\ failed' = failed \ {c.ifc.ip}
         \/ c.call = "down" /\ P2 \in SUBSET (P \ {c.ifc.ip}) /\ failed' = failed \ {c.ifc.ip}
              /\ (~build.linux => P2 = P \ {c.ifc.ip})
         \/ c.call \in {"up", "down"} /\ P2 = P /\ failed' = failed \cup {c.ifc.ip}
         \/ c.call = "up" /\ P2 = P \cup {c.ifc.ip} /\ failed' = failed \cup {c.ifc.ip}
  <2>1. CASE Call /\ c.call = "up"
    <3>1. kernel' = IfUp(kernel, c.ifc) /\ failed' = failed \ {c.ifc.ip} /\ c.ifc \in GroupAddresses
      BY <1>5, <2>1 DEF Call, Now
    <3> HIDE DEF c
    <3>2. Tidy(kernel') /\ P2 = P \cup {c.ifc.ip}
      BY <1>2, <3>1, IfUpAdds
    <3> QED
      BY <2>1, <3>1, <3>2
  <2>2. CASE Call /\ c.call # "up"
    <3>1. /\ kernel' = IfDown(kernel, c.ifc) /\ failed' = failed \ {c.ifc.ip} /\ c.call = "down"
          /\ c.ifc \in GroupAddresses /\ c.ifc.ip \notin OwnIps
      BY <1>5, <2>2 DEF Call, Now
    <3> HIDE DEF c
    <3>2. /\ Tidy(kernel') /\ P2 \in SUBSET (P \ {c.ifc.ip})
          /\ (~build.linux => P2 = P \ {c.ifc.ip})
      <4>1. CASE build.linux
        BY <1>2, <3>1, <4>1, IfDownLinuxRemoves DEF IfDown
      <4>2. CASE ~build.linux
        <5>1. Tidy(kernel') /\ P2 = P \ {c.ifc.ip}
          BY <1>2, <3>1, <4>2, IfDownBpfRemoves DEF IfDown
        <5> QED
          BY <5>1
      <4> QED
        BY <4>1, <4>2
    <3> QED
      BY <3>1, <3>2
  <2>3. CASE CallFails
    <3>1. c.call \in {"up", "down"} /\ failed' = failed \cup {c.ifc.ip}
      BY <2>3 DEF CallFails, Now
    <3>2. CASE kernel' = kernel
      BY <1>2, <3>1, <3>2
    <3>3. CASE kernel' # kernel
      <4>1. PICK m : c.call = "up" /\ kernel' = IfUp(kernel, [c.ifc EXCEPT !.mask = m])
        BY <2>3, <3>3 DEF CallFails, Now
      <4> DEFINE ifc == [c.ifc EXCEPT !.mask = m]
      <4>2. c.ifc \in GroupAddresses /\ ifc.ip = c.ifc.ip /\ ifc.dev = c.ifc.dev
        BY <1>5, <4>1
      <4> HIDE DEF c, ifc
      <4>3. Tidy(IfUp(kernel, ifc)) /\ Ips(IfUp(kernel, ifc)) = Ips(kernel) \cup {c.ifc.ip}
        BY <1>2, <4>2, IfUpAdds
      <4>4. kernel' = IfUp(kernel, ifc)
        BY <4>1 DEF ifc
      <4> QED
        BY <3>1, <4>1, <4>3, <4>4
    <3> QED
      BY <3>2, <3>3
  <2>4. CASE Execute
    <3>1. c.call \in {"on up", "on down"} /\ kernel' = kernel /\ failed' = failed
      BY <2>4 DEF Execute, Now
    <3>2. c.call \notin {"up", "down"}
      BY <3>1
    <3> QED
      BY <1>2, <3>1, <3>2
  <2> QED
    BY <2>1, <2>2, <2>3, <2>4
<1> HIDE DEF c, P, P2
<1>7. ASSUME NEW v \in GroupIps PROVE Fated(todo', IpsOf(mine'), P2, failed', v)
  <2>1. Fated(todo, IpsOf(mine), P, failed, v)
    BY <1>3 DEF Fates, P
  <2>2. Fated(Tail(todo), IpsOf(mine), P2, failed', v)
    BY <1>1, <1>4, <1>6, <2>1, CallFates DEF c
  <2> QED
    BY <1>1, <2>2
<1> QED
  BY <1>6, <1>7 DEF P2

\* Clean_up begins: at the start, without a session, or in the signal handler.
LEMMA CleaningFates ==
  ASSUME EachHasAddress, IpsOf(Vif) = GroupIps, todo' = CleanUp, mine' = {}
  PROVE  \A v \in GroupIps : Fated(todo', IpsOf(mine'), Ips(kernel'), failed', v)
BY CleanUpFates

\* Every step, of a daemon that reads the file as it was written.
LEMMA GroupStep ==
  ASSUME PrimaryFirst, GroupInv,
         phase = "run" => EachHasAddress /\ GroupApart, (phase = "run" => EachHasAddress /\ GroupApart)',
         VifsRead, [Next]_vars
  PROVE  GroupInv'
<1>1. BystandersInv /\ GroupFine /\ Tidy(kernel)
  BY DEF GroupInv
<1>2. BystandersInv'
  <2>1. Len(kernel.list) <= ListLimit
    BY <1>1, RoomForAll DEF BystandersInv
  <2> QED
    BY <1>1, <2>1, BystandersStep
<1>3. text' = text /\ build' = build
  BY TextStays, BuildStays
<1>4. GroupFine'
  BY <1>1, <1>3, SameTable
<1>5. Tidy(kernel') => Tidy(kernel)'
  BY <1>3, SameTable
<1>6. CASE Call \/ CallFails \/ Execute
  <2>1. /\ todo # <<>> /\ phase' = phase /\ clean' = clean /\ cf' = cf /\ pos' = pos
    BY <1>6 DEF Call, CallFails, Execute
  <2>2. phase \in {"run", "exit"}
    BY <1>1, <2>1 DEF BystandersInv, HooksInv
  <2>3. AllRead'
    BY <1>3, <2>1, <2>2 DEF GroupInv, AllRead
  <2>4. Tidy(kernel') /\ Fates'
    BY <1>3, <1>6, <2>1, CallsFate, FatesNext
  <2> QED
    BY <1>2, <1>4, <1>5, <2>1, <2>2, <2>3, <2>4 DEF GroupInv
<1>7. CASE Start \/ Reconnect \/ Signal
  <2>1. /\ phase' \in {"run", "exit"} /\ todo' = CleanUp /\ cf' = cf /\ pos' = pos /\ kernel' = kernel
    BY <1>7 DEF Start, Reconnect, Idle, Signal
  <2>2. mine' = {}
    BY <1>1, <1>7 DEF Start, Reconnect, Signal, BystandersInv, HooksInv
  <2>3. AllRead
    BY <1>7 DEF Start, Reconnect, Idle, Signal, GroupInv
  <2>4. AllRead'
    BY <1>3, <2>1, <2>3 DEF AllRead
  <2>5. EachHasAddress
    <3>1. CASE phase = "run"
      BY <3>1
    <3>2. CASE phase = "exit"
      BY <1>1, <3>2 DEF BystandersInv
    <3>3. CASE Start
      <4>1. EachHasAddress'
        BY <3>3 DEF Start
      <4> QED
        BY <2>1, <4>1 DEF EachHasAddress, Vif
    <3> QED
      BY <1>7, <3>1, <3>2, <3>3 DEF Reconnect, Idle, Signal
  <2>6. IpsOf(Vif) = GroupIps
    <3>1. VifsAsWritten
      BY <2>3, Zenon DEF VifsRead
    <3> QED
      BY <1>1, <3>1, RunsAsWritten
  <2>7. Fates'
    BY <1>3, <2>1, <2>2, <2>5, <2>6, CleaningFates, FatesNext
  <2>8. Tidy(kernel)'
    BY <1>1, <1>5, <2>1
  <2> QED
    BY <1>2, <1>4, <2>1, <2>4, <2>7, <2>8 DEF GroupInv
<1>8. CASE Batch
  <2>1. /\ phase = "run" /\ phase' = "run" /\ cf' = cf /\ pos' = pos /\ kernel' = kernel /\ failed' = failed
    BY <1>8 DEF Batch, Idle
  <2>2. AllRead /\ Fates
    BY <2>1 DEF GroupInv
  <2>3. AllRead'
    BY <1>3, <2>1, <2>2 DEF AllRead
  <2>4. /\ EachHasAddress /\ mine \in SUBSET Vif /\ IpsOf(Vif) = GroupIps
        /\ \A i, j \in Vif : \A v : v \in IpsOf({i}) /\ v \in IpsOf({j}) => i = j
    BY <1>1, <2>1, <2>2, RunningGroup
  <2>5. ASSUME NEW v \in GroupIps PROVE Fated(todo', IpsOf(mine'), Ips(kernel), failed, v)
    <3>1. Fated(todo, IpsOf(mine), Ips(kernel), failed, v)
      BY <2>2 DEF Fates
    <3> QED
      BY <1>8, <2>4, <3>1, BatchFates
  <2>6. Fates'
    BY <1>3, <2>1, <2>5, FatesNext
  <2>7. Tidy(kernel)'
    BY <1>1, <1>5, <2>1
  <2> QED
    BY <1>2, <1>4, <2>1, <2>3, <2>6, <2>7 DEF GroupInv
<1>9. CASE ReadConfig \/ Crash \/ Restart
  <2>1. /\ kernel' = kernel /\ phase' \notin {"run", "exit"} /\ ~(phase' = "gone" /\ clean')
    BY <1>9 DEF ReadConfig, Crash, Restart, hostVars
  <2>2. Tidy(kernel)'
    BY <1>1, <1>5, <2>1
  <2> QED
    BY <1>2, <1>4, <2>1, <2>2 DEF GroupInv
<1>10. CASE Exit
  <2>1. /\ phase = "exit" /\ todo = <<>> /\ phase' = "gone" /\ kernel' = kernel /\ failed' = failed
    BY <1>10 DEF Exit
  <2>2. Fates /\ mine = {}
    BY <1>1, <2>1 DEF GroupInv, BystandersInv, HooksInv
  <2>3. GroupIps \cap Ips(kernel) \subseteq failed
    <3> SUFFICES ASSUME NEW v \in GroupIps, v \in Ips(kernel) PROVE v \in failed
      OBVIOUS
    <3>1. Fated(todo, IpsOf(mine), Ips(kernel), failed, v)
      BY <2>2 DEF Fates
    <3>2. IpsOf(mine) = {}
      BY <2>2 DEF IpsOf
    <3>3. ~StillTakes(todo, v)
      <4>1. DOMAIN todo = {}
        BY <2>1
      <4> QED
        BY <4>1, Zenon DEF StillTakes
    <3> QED
      BY <3>1, <3>2, <3>3 DEF Fated
  <2>4. (GroupIps \cap Ips(kernel) \subseteq failed)'
    <3>1. GroupIps' = GroupIps /\ Ips(kernel)' = Ips(kernel)
      BY <1>3, <2>1, SameTable DEF Ips
    <3> QED
      BY <2>1, <2>3, <3>1
  <2>5. Tidy(kernel)'
    BY <1>1, <1>5, <2>1
  <2> QED
    BY <1>2, <1>4, <2>1, <2>4, <2>5 DEF GroupInv
<1>11. CASE UNCHANGED vars
  <2>1. /\ phase' = phase /\ todo' = todo /\ mine' = mine /\ cf' = cf /\ pos' = pos /\ kernel' = kernel
        /\ failed' = failed /\ clean' = clean
    BY <1>11 DEF vars, hostVars
  <2>2. Tidy(kernel)'
    BY <1>1, <1>5, <2>1
  <2>3. phase \in {"run", "exit"} => (AllRead /\ Fates)'
    <3> SUFFICES ASSUME phase \in {"run", "exit"} PROVE (AllRead /\ Fates)'
      OBVIOUS
    <3>1. AllRead /\ \A v \in GroupIps : Fated(todo', IpsOf(mine'), Ips(kernel'), failed', v)
      BY <2>1 DEF GroupInv, Fates
    <3>2. AllRead'
      BY <1>3, <2>1, <3>1 DEF AllRead
    <3> QED
      BY <1>3, <2>1, <3>1, <3>2, FatesNext
  <2>4. phase = "gone" /\ clean => (GroupIps \cap Ips(kernel) \subseteq failed)'
    <3>1. GroupIps' = GroupIps /\ Ips(kernel)' = Ips(kernel)
      BY <1>3, <2>1, SameTable DEF Ips
    <3> QED
      BY <2>1, <3>1 DEF GroupInv
  <2> QED
    BY <1>2, <1>4, <2>1, <2>2, <2>3, <2>4 DEF GroupInv
<1> QED
  BY <1>6, <1>7, <1>8, <1>9, <1>10, <1>11 DEF Next

\* At the start the kernel has the machine's own addresses.
LEMMA GroupInit ==
  ASSUME Init, GroupFine, BystandersInv
  PROVE  GroupInv
<1>1. kernel = [list |-> Own, down |-> {}] /\ phase = "start"
  BY DEF Init
<1>2. kernel.list = Own /\ kernel.down = {}
  BY <1>1
<1>3. Tidy(kernel)
  BY <1>2, OwnType DEF Tidy
<1> QED
  BY <1>1, <1>3 DEF GroupInv

\* What is served is what the kernel has, the machine's own or the group's.
LEMMA ServedIps ==
  ASSUME OwnFirst(kernel), Tidy(kernel)
  PROVE  Served = Ips(kernel) /\ Ips(kernel) \subseteq OwnIps \cup GroupIps
<1>1. DOMAIN kernel.list = 1..Len(kernel.list) /\ kernel.down = {} /\ Len(kernel.list) \in Nat
  BY DEF OwnFirst, Tidy
<1>2. Served = Ips(kernel)
  BY <1>1 DEF Served, Shown, Known, Ips
<1>3. ASSUME NEW j \in 1..Len(kernel.list) PROVE kernel.list[j].ip \in OwnIps \cup GroupIps
  <2>1. CASE j > Len(Own)
    <3>1. PICK a \in GroupAddresses : kernel.list[j].ip = a.ip
      BY <2>1 DEF Tidy
    <3> QED
      BY <3>1 DEF GroupIps
  <2>2. CASE ~(j > Len(Own))
    <3>1. j \in DOMAIN Own /\ kernel.list[j] = Own[j]
      BY <1>1, <2>2, OwnType DEF OwnFirst
    <3> QED
      BY <3>1, OwnType
  <2> QED
    BY <2>1, <2>2
<1> QED
  BY <1>2, <1>3 DEF Ips

\* An idle daemon has met its decisions.
LEMMA IdleMatches ==
  ASSUME GroupInv, phase = "run" => EachHasAddress /\ GroupApart, VifsRead
  PROVE  KernelMatches
<1> SUFFICES ASSUME Idle PROVE Served \ (OwnIps \cup failed) = IpsOf(mine) \ failed
  BY DEF KernelMatches
<1>1. phase = "run" /\ todo = <<>>
  BY DEF Idle
<1>2. AllRead /\ Fates /\ BystandersInv /\ GroupFine /\ OwnFirst(kernel) /\ Tidy(kernel)
  BY <1>1 DEF GroupInv, BystandersInv
<1>3. GroupApart /\ IpsOf(Vif) = GroupIps /\ mine \in SUBSET Vif
  BY <1>1, <1>2, RunningGroup
<1>4. GroupIps \cap OwnIps = {} /\ IpsOf(mine) \subseteq GroupIps
  BY <1>3 DEF GroupApart, IpsOf
<1>5. Served = Ips(kernel) /\ Ips(kernel) \subseteq OwnIps \cup GroupIps
  BY <1>2, ServedIps
<1>6. ASSUME NEW v \in GroupIps, v \notin failed PROVE v \in Ips(kernel) <=> v \in IpsOf(mine)
  <2>1. Fated(todo, IpsOf(mine), Ips(kernel), failed, v)
    BY <1>2 DEF Fates
  <2>2. DOMAIN todo = {}
    BY <1>1
  <2>3. ~BringsLast(todo, v) /\ ~StillTakes(todo, v)
    BY <2>2, Zenon DEF BringsLast, StillTakes
  <2> QED
    BY <1>6, <2>1, <2>3 DEF Fated
<1> QED
  BY <1>4, <1>5, <1>6

\* One that ended by its own hand leaves nothing.
LEMMA GoneLeavesNothing ==
  ASSUME GroupInv
  PROVE  ExitLeavesNothing
<1>1. Served = Ips(kernel) /\ Ips(kernel) \subseteq OwnIps \cup GroupIps
  BY ServedIps DEF GroupInv, BystandersInv
<1> QED
  BY <1>1 DEF ExitLeavesNothing, GroupInv

\* A daemon runs only with what it has read.
ReadInv == GroupFine /\ (phase = "run" => AllRead)

\* No step reads more while it runs, or another text.
LEMMA ReadStep ==
  ASSUME ReadInv, [Next]_vars
  PROVE  ReadInv'
<1>1. text' = text /\ build' = build
  BY TextStays, BuildStays
<1>2. GroupFine'
  BY <1>1, SameTable DEF ReadInv
<1>3. CASE phase' = "run"
  <2>1. AllRead /\ pos' = pos
    BY <1>3 DEF ReadInv, Next, vars, hostVars, ReadConfig, Start, Call, CallFails, Execute, Batch, Reconnect,
            Signal, Exit, Crash, Restart, Idle
  <2>2. AllRead'
    BY <1>1, <2>1 DEF AllRead
  <2> QED
    BY <1>2, <2>2 DEF ReadInv
<1> QED
  BY <1>2, <1>3 DEF ReadInv

\* What it has read, if that is what is written, gives every interface an address, and none
\* of the machine's own.
LEMMA RunsApart ==
  ASSUME ReadInv, VifsRead, phase = "run"
  PROVE  EachHasAddress /\ GroupApart
<1>1. GroupFine /\ VifsAsWritten
  BY Zenon DEF ReadInv, VifsRead
<1>2. IpsOf(Vif) = GroupIps
  BY <1>1, RunsAsWritten
<1>3. GroupApart
  BY <1>1, <1>2 DEF GroupApart, GroupFine
<1>4. cf.n \in Nat /\ Vif = DOMAIN AddressTable
  BY <1>1, TableType DEF VifsAsWritten, GroupFine, Vif
<1>5. ASSUME NEW i \in Vif PROVE cf.vif[i].pseudo.ip # NoIp
  <2>1. Addresses(i) = AddressTable[i] /\ 1 \in DOMAIN AddressTable[i]
    BY <1>1, <1>4, <1>5, GroupType DEF VifsAsWritten, Vif
  <2>2. Addresses(i)[1] = cf.vif[i].pseudo
    BY <2>1 DEF Addresses
  <2>3. AddressTable[i][1] \in GroupAddresses
    BY <1>4, <1>5, <2>1 DEF GroupAddresses
  <2>4. cf.vif[i].pseudo.ip \in GroupIps
    BY <2>1, <2>2, <2>3 DEF GroupIps
  <2> QED
    BY <1>1, <2>4, GroupType
<1> QED
  BY <1>3, <1>4, <1>5 DEF EachHasAddress

\* The invariant.
LEMMA GroupAlways ==
  ASSUME PrimaryFirst
  PROVE  Spec /\ GroupFine => [](GroupInv /\ (phase = "run" => EachHasAddress /\ GroupApart) /\ VifsRead)
<1> DEFINE Sane == phase = "run" => EachHasAddress /\ GroupApart
<1>0. Spec /\ GroupFine => []VifsRead
  <2>1. GroupFine => TextFine
    BY DEF GroupFine
  <2> QED
    BY <2>1, VifsCorrect
<1>1. Init /\ GroupFine => GroupInv /\ ReadInv
  <2>1. Init => phase = "start"
    BY DEF Init
  <2> QED
    BY <2>1, BystandersInit, GroupInit DEF ReadInv
<1>2. ReadInv /\ [Next]_vars => ReadInv'
  BY ReadStep
<1>3. ReadInv /\ VifsRead => Sane
  BY RunsApart
<1>4. GroupInv /\ Sane /\ Sane' /\ VifsRead /\ [Next]_vars => GroupInv'
  BY GroupStep
<1> QED
  BY <1>0, <1>1, <1>2, <1>3, <1>4, PTL DEF Spec

\* The machine's own addresses are never touched, in whatever state and order calls are made,
\* refused or broken off and daemons end and begin, on Linux and on BSD systems, for every text that
\* a group can be run with: one that leaves the buffer of if_list_ips room for all addresses.
THEOREM BystandersCorrect ==
  ASSUME PrimaryFirst
  PROVE  Spec /\ GroupFine => []BystandersKept
<1>1. Spec /\ GroupFine => [](GroupInv /\ (phase = "run" => EachHasAddress /\ GroupApart) /\ VifsRead)
  BY GroupAlways
<1>2. GroupInv => BystandersKept
  <2> SUFFICES ASSUME GroupInv, NEW j \in DOMAIN Own PROVE Own[j] \in Shown(kernel)
    BY DEF BystandersKept
  <2>1. PICK X : kernel.list \in Seq(X)
    BY DEF GroupInv, BystandersInv, OwnFirst
  <2>2. j \in DOMAIN kernel.list /\ kernel.list[j] = Own[j] /\ Own[j].dev \notin kernel.down
    BY <2>1, OwnType DEF GroupInv, BystandersInv, OwnFirst
  <2> QED
    BY <2>2 DEF Shown, Known
<1> QED
  BY <1>1, <1>2, PTL

\* What the kernel has of the group's addresses when no call is under way is what the daemon
\* decided, address for address, through any decisions, refusals, lost sessions, signals,
\* crashes and restarts, with any number of interfaces and addresses, for every text that a group
\* can be run with.
THEOREM KernelCorrect ==
  ASSUME PrimaryFirst
  PROVE  Spec /\ GroupFine => []KernelMatches
<1>1. Spec /\ GroupFine => [](GroupInv /\ (phase = "run" => EachHasAddress /\ GroupApart) /\ VifsRead)
  BY GroupAlways
<1>2. GroupInv /\ (phase = "run" => EachHasAddress /\ GroupApart) /\ VifsRead => KernelMatches
  BY IdleMatches
<1> QED
  BY <1>1, <1>2, PTL

\* A process that ends by its own hand leaves none of them, wherever the signal met it.
THEOREM ExitCorrect ==
  ASSUME PrimaryFirst
  PROVE  Spec /\ GroupFine => []ExitLeavesNothing
<1>1. Spec /\ GroupFine => [](GroupInv /\ (phase = "run" => EachHasAddress /\ GroupApart) /\ VifsRead)
  BY GroupAlways
<1>2. GroupInv => ExitLeavesNothing
  BY GoneLeavesNothing
<1> QED
  BY <1>1, <1>2, PTL

-----------------------------------------------------------------------------
(* Types. *)

\* A driver is called with an address of the group.
LEMMA CalledIp ==
  ASSUME GroupInv, phase = "run" => EachHasAddress /\ GroupApart, VifsRead,
         todo # <<>>, Now.call \in {"up", "down"}
  PROVE  Now.ifc.ip \in Ip
<1>1. phase \in {"run", "exit"} /\ BystandersInv /\ GroupFine
  BY DEF GroupInv, BystandersInv, HooksInv
<1>2. AllRead
  BY <1>1 DEF GroupInv
<1>3. todo \in Seq(CallType) /\ Given = GroupAddresses
  BY <1>1, <1>2, RunningGroup
<1> DEFINE c == Now
<1>4. c \in CallType
  BY <1>3 DEF Now
<1>5. c.call \in {"up", "down"}
  OBVIOUS
<1> HIDE DEF c
<1>6. c \in [call : {"up", "down"}, vif : Vif, ifc : Given]
  BY <1>4, <1>5 DEF CallType, Event
<1>7. c.ifc \in GroupAddresses
  BY <1>3, <1>6
<1>8. c.ifc.ip \in Ip
  BY <1>1, <1>7, GroupType DEF GroupIps
<1> QED
  BY <1>8 DEF c

\* What TypeOK says of the variables that the other invariants do not name.
CountsInv ==
  /\ clean \in BOOLEAN /\ failed \subseteq Ip
  /\ batches \in 0..MaxBatches /\ faults \in 0..MaxFaults

\* Every step.
LEMMA CountsStep ==
  ASSUME CountsInv, GroupInv, phase = "run" => EachHasAddress /\ GroupApart, VifsRead, [Next]_vars
  PROVE  CountsInv'
<1>1. MaxBatches \in Nat /\ MaxFaults \in Nat
  BY HostAssumption
<1>2. CASE Call \/ CallFails
  <2>1. Now.ifc.ip \in Ip
    BY <1>2, CalledIp DEF Call, CallFails
  <2> QED
    BY <1>1, <1>2, <2>1 DEF CountsInv, Call, CallFails
<1>3. CASE Batch \/ Crash
  <2>1. CASE Batch
    <3>1. clean' = clean /\ failed' = failed /\ batches < MaxBatches /\ batches' = batches + 1 /\ faults' = faults
      BY <2>1 DEF Batch
    <3> QED
      BY <1>1, <3>1 DEF CountsInv
  <2>2. CASE Crash
    <3>1. clean' = FALSE /\ failed' = failed /\ batches' = batches /\ faults < MaxFaults /\ faults' = faults + 1
      BY <2>2 DEF Crash
    <3>2. clean' \in BOOLEAN
      BY <3>1
    <3> QED
      BY <1>1, <3>1, <3>2 DEF CountsInv
  <2> QED
    BY <1>3, <2>1, <2>2
<1>4. CASE ReadConfig \/ Start \/ Execute \/ Reconnect \/ Signal \/ Exit \/ Restart \/ UNCHANGED vars
  BY <1>4 DEF CountsInv, ReadConfig, Start, Execute, Reconnect, Signal, Exit, Restart, vars, hostVars
<1> QED
  BY <1>2, <1>3, <1>4 DEF Next

\* The kernel has an address once.
LEMMA KernelOnce ==
  ASSUME OwnFine, OwnFirst(kernel), Tidy(kernel), NEW i \in DOMAIN kernel.list, NEW j \in DOMAIN kernel.list,
         i # j
  PROVE  kernel.list[i].ip # kernel.list[j].ip
<1> DEFINE n == Len(kernel.list)
           e(x) == kernel.list[x]
<1>1. n \in Nat /\ DOMAIN kernel.list = 1..n /\ Len(Own) \in Nat /\ DOMAIN Own = 1..Len(Own)
  BY OwnType DEF OwnFirst
<1>2. ASSUME NEW x \in 1..n, NEW y \in 1..n, x < y PROVE e(x).ip # e(y).ip
  <2>1. CASE y <= Len(Own)
    <3>1. x \in DOMAIN Own /\ y \in DOMAIN Own /\ e(x) = Own[x] /\ e(y) = Own[y]
      BY <1>1, <1>2, <2>1 DEF OwnFirst
    <3> QED
      BY <1>2, <3>1 DEF OwnFine
  <2>2. CASE x <= Len(Own) /\ Len(Own) < y
    <3>1. x \in DOMAIN Own /\ e(x) = Own[x] /\ Added(e(y))
      BY <1>1, <1>2, <2>2 DEF OwnFirst
    <3>2. e(x).ip \in OwnIps
      BY <3>1, OwnType
    <3> QED
      BY <3>1, <3>2 DEF Added
  <2>3. CASE Len(Own) < x
    BY <1>2, <2>3 DEF Tidy
  <2> QED
    BY <1>1, <2>1, <2>2, <2>3
<1>3. i < j \/ j < i
  BY <1>1
<1> QED
  BY <1>1, <1>2, <1>3

\* What the variables are, and that the interfaces of a running daemon have addresses, none
\* of them the machine's own, if the text gives them such.
THEOREM TypeCorrect ==
  ASSUME OwnFine
  PROVE  Spec /\ GroupFine => []TypeOK
<1> DEFINE Sane == phase = "run" => EachHasAddress /\ GroupApart
<1>1. PrimaryFirst
  BY DEF OwnFine
<1>2. Spec /\ GroupFine => [](GroupInv /\ Sane /\ VifsRead)
  BY <1>1, GroupAlways
<1>3. Init => CountsInv
  <2>1. MaxBatches \in Nat /\ MaxFaults \in Nat
    BY HostAssumption
  <2>2. Init => clean = FALSE /\ failed = {} /\ batches = 0 /\ faults = 0
    BY DEF Init
  <2>3. Init => clean \in BOOLEAN
    BY <2>2
  <2> QED
    BY <2>1, <2>2, <2>3 DEF CountsInv
<1>4. CountsInv /\ GroupInv /\ Sane /\ VifsRead /\ [Next]_vars => CountsInv'
  BY CountsStep
<1>5. CountsInv /\ GroupInv /\ Sane => TypeOK
  <2> SUFFICES ASSUME CountsInv, GroupInv, Sane PROVE TypeOK
    OBVIOUS
  <2>1. /\ HooksInv /\ phase \in {"start", "run", "exit", "gone"} /\ OwnFirst(kernel) /\ GroupFine /\ Tidy(kernel)
        /\ phase = "exit" => todo \in Seq(CallType)
    BY DEF GroupInv, BystandersInv
  <2>2. mine \subseteq Vif
    BY <2>1 DEF HooksInv
  <2>3. \A j \in DOMAIN todo : todo[j].vif \in Vif
    <3>1. CASE todo \in Seq(CallType)
      <4>1. \A c \in CallType : c.vif \in Vif
        BY DEF CallType
      <4> QED
        BY <3>1, <4>1
    <3>2. CASE todo = <<>>
      BY <3>2
    <3> QED
      BY <2>1, <3>1, <3>2 DEF HooksInv
  <2>4. \A i, j \in DOMAIN kernel.list : i # j => kernel.list[i].ip # kernel.list[j].ip
    BY <2>1, KernelOnce
  <2>5. OwnFine /\ TextFine
    BY <2>1 DEF GroupFine
  <2>6. clean \in BOOLEAN /\ failed \subseteq Ip /\ batches \in 0..MaxBatches /\ faults \in 0..MaxFaults
    BY DEF CountsInv
  <2> QED
    BY <2>1, <2>2, <2>3, <2>4, <2>5, <2>6, Zenon DEF TypeOK
<1> QED
  BY <1>2, <1>3, <1>4, <1>5, PTL DEF Spec
=============================================================================
