---------------------------- MODULE ClusterProofs ----------------------------
(***************************************************************************)
(* Safety of module Cluster, for every set of addresses, every number of   *)
(* interfaces and every bound: type correctness (TypeCorrect), that a      *)
(* balance message is applied in the view it was computed in only          *)
(* (BalanceInItsViewCorrect), and, where nothing is preferred and no short *)
(* packet is read as a balance message, that the members of a view agree   *)
(* (AgreementCorrect).  Where, besides, a daemon has at most one balance   *)
(* message under way, what is up at a member is what its table gives it    *)
(* (UpInClusterCorrect), so a settled component covers every interface     *)
(* exactly once (CoveredCorrect).                                          *)
(*                                                                         *)
(* The invariant recovers the history that the state has lost.  There are  *)
(* the members S[g] and the log L[g] of every view g, in which the letters *)
(* of the view stand in the order Spread gave them, and for each daemon a  *)
(* list W[a] of positions: where it stands, and where the letters of its   *)
(* inbox stand.  What a daemon has heard, and the tables it made of it,    *)
(* are then read off the log up to where it stands.                        *)
(***************************************************************************)
EXTENDS Cluster, WackamoleTables

-----------------------------------------------------------------------------
(* Lists. *)

\* List r is list q with e at its end.
Longer(q, r, e) ==
  /\ Len(r) = Len(q) + 1 /\ r[Len(q) + 1] = e
  /\ \A i \in 1..Len(q) : r[i] = q[i]

\* List r is list q without its head.
Shorter(q, r) ==
  Len(r) = Len(q) - 1 /\ \A i \in 1..Len(r) : r[i] = q[i + 1]

\* What Append and \o do to a list, in terms of its elements.
LEMMA AppendLonger ==
  ASSUME NEW T, NEW q \in Seq(T), NEW e \in T
  PROVE  /\ Append(q, e) \in Seq(T) /\ Longer(q, Append(q, e), e)
         /\ q \o <<e>> = Append(q, e)
<1>1. Append(q, e) \in Seq(T) /\ Longer(q, Append(q, e), e)
  BY DEF Longer
<1>2. q \o <<e>> = Append(q, e)
  OBVIOUS
<1> QED
  BY <1>1, <1>2

\* What Head and Tail do to it.
LEMMA TailShorter ==
  ASSUME NEW T, NEW q \in Seq(T), q # <<>>
  PROVE  Tail(q) \in Seq(T) /\ Shorter(q, Tail(q)) /\ Head(q) = q[1] /\ Len(q) >= 1
  BY DEF Shorter

-----------------------------------------------------------------------------
(* Members are numbered in the order of their addresses. *)

\* The members up to an address are finitely many.
LEMMA RankNat ==
  ASSUME NEW T \in SUBSET Address, NEW a \in Address
  PROVE  /\ IsFiniteSet(T) /\ Cardinality(T) \in Nat
         /\ Rank(T, a) \in Nat /\ Rank(T, a) <= Cardinality(T)
         /\ a \in T => Rank(T, a) # 0
<1> DEFINE U == {b \in T : b <= a}
<1>1. IsFiniteSet(T) /\ U \in SUBSET T
  BY ClusterAssumption, FS_Subset
<1>2. IsFiniteSet(U) /\ Cardinality(U) <= Cardinality(T)
  BY <1>1, FS_Subset
<1>3. Cardinality(U) \in Nat /\ Cardinality(T) \in Nat
  BY <1>1, <1>2, FS_CardinalityType
<1>4. a \in T => a \in U
  BY ClusterAssumption
<1>5. a \in T => Cardinality(U) # 0
  BY <1>2, <1>4, FS_EmptySet
<1> QED
  BY <1>1, <1>2, <1>3, <1>5 DEF Rank

\* Two members have two numbers.
LEMMA RankOneToOne ==
  ASSUME NEW T \in SUBSET Address, NEW a \in T, NEW b \in T, Rank(T, a) = Rank(T, b)
  PROVE  a = b
<1>1. ASSUME NEW x \in T, NEW y \in T, x < y PROVE Rank(T, x) # Rank(T, y)
  <2> DEFINE X == {c \in T : c <= x}
             Y == {c \in T : c <= y}
  <2>1. x \in Nat /\ y \in Nat /\ \A c \in T : c \in Nat
    BY ClusterAssumption
  <2>2. X \in SUBSET Y /\ y \in Y /\ y \notin X
    <3>1. \A c \in T : c <= x => c <= y
      BY <1>1, <2>1
    <3>2. y <= y /\ ~(y <= x)
      BY <1>1, <2>1
    <3> QED
      BY <3>1, <3>2
  <2>3. IsFiniteSet(Y)
    BY ClusterAssumption, FS_Subset
  <2>4. Cardinality(X) # Cardinality(Y)
    BY <2>2, <2>3, FS_Subset
  <2> QED
    BY <2>4 DEF Rank
<1>2. a \in Nat /\ b \in Nat
  BY ClusterAssumption
<1> QED
  BY <1>1, <1>2

-----------------------------------------------------------------------------
(* The history. *)

\* A letter of a log, and one of an inbox, which may also be the view itself.
Letter == [from : Address, gid : Nat, body : Message]
Post   == [from : Address, gid : Nat, body : GroupMessage]

ViewLetter(S, a, g) ==
  [from |-> a, gid |-> g,
   body |-> [kind |-> "view", gid |-> g, n |-> Cardinality(S[g]), idx |-> Rank(S[g], a)]]

\* The state message with which a member answers view g.
Answer(e, g) == e.body.kind = "state" /\ e.body.gid = g

\* Position "at" of the log of a view; 0 is the view itself.
Position == [view : Nat, at : Nat]
Outside  == [view |-> 0, at |-> 0]

\* The positions of a list follow each other, view after view.
Ordered(w) ==
  \A i, j \in 1..Len(w) : i <= j =>
    /\ w[i].view <= w[j].view
    /\ w[i].view = w[j].view => w[j].at = w[i].at + (j - i)

\* The letters in the inbox of daemon a are those at its positions.
Delivers(a, s, box, w, vs, S, L) ==
  \A i \in 1..Len(box) :
    LET p == w[i + 1]
    IN  /\ p.view \in 1..vs /\ a \in S[p.view]
        /\ p.at = 0 => box[i] = ViewLetter(S, a, p.view) /\ p.view > s.gid
        /\ p.at # 0 => /\ w[i].view = p.view /\ p.at \in 1..Len(L[p.view])
                       /\ box[i] = L[p.view][p.at]

\* A daemon that Spread has a view for will receive all of it; one without has nothing.
Attached(a, s, v, box, w, vs, S, L) ==
  IF v = NoView THEN box = <<>> /\ w = <<Outside>>
  ELSE /\ v.gid \in 1..vs /\ v.members = S[v.gid] /\ a \in S[v.gid]
       /\ w[Len(w)] = [view |-> v.gid, at |-> Len(L[v.gid])]
       /\ s.mbox

\* The members a daemon has not heard of.
Unheard(s) == {k \in DOMAIN s.ip : s.ip[k] = NoAddr}

\* A daemon that stands at p, in a view with members T, knows its index and has heard of
\* those who answered before, and it gathers until it has heard of all.
Hearing(a, s, p, T, log) ==
  /\ s.gid = p.view /\ a \in T /\ s.idx = Rank(T, a)
  /\ DOMAIN s.ip = 1..Cardinality(T)
  /\ s.pending = Cardinality(Unheard(s))
  /\ s.state = "GATHER" <=> s.pending # 0
  /\ s.state = "RUN" => s.mat
  /\ \A k \in DOMAIN s.ip : s.ip[k] # NoAddr =>
       /\ s.ip[k] \in T /\ Rank(T, s.ip[k]) = k
       /\ \E i \in 1..Len(log) : i <= p.at /\ log[i].from = s.ip[k] /\ Answer(log[i], p.view)

(***************************************************************************)
(* The tables, where nothing is preferred and no balance message stays in  *)
(* the buffer.  What a member makes of the log of its view up to a         *)
(* position is then one and the same table for every member: the letters   *)
(* are applied one by one, and the unclaimed interfaces are claimed as     *)
(* soon as all members have been heard of and one of them is mature.       *)
(***************************************************************************)

\* No address is preferred, and no balance message outlives its handler.
Plain == (\A a \in Address : Prefer[a] = {}) /\ "balance" \notin StaleKinds

\* Letter e of the log of view g says that its sender is mature.
Matures(e, g) == e.body.kind = "mature" \/ (Answer(e, g) /\ e.body.mat)

\* Up to position i of the log some member has said so; and all have answered.
Ripe(log, i, g) == \E j \in 1..Len(log) : j <= i /\ Matures(log[j], g)
Runs(x, log, i, g) == Heard(x) /\ Ripe(log, i, g)

\* What letter e makes of table x, before anything is claimed.
Effect(x, e, g, running) ==
  IF Answer(e, g) THEN Merged(x, e.body)
  ELSE IF running /\ e.body.kind = "balance" THEN Moved(x, MovesRead(e.body))
  ELSE x

\* Letter i of the log turns table x into y.
TableStep(x, y, log, i, g) ==
  LET z == Effect(x, log[i], g, Runs(x, log, i - 1, g))
  IN  IF Runs(z, log, i, g) /\ ~Runs(x, log, i - 1, g) THEN Allots(z, y) ELSE y = z

\* The table of a member that has heard of none of n members.
Blank(n) ==
  [owner |-> Nobody, prio |-> [v \in Vip |-> UNCLAIMED],
   num |-> [k \in 1..n |-> 0], ip |-> [k \in 1..n |-> NoAddr]]

\* The tables up to position i.
Chain(h, n, log, i, g) ==
  /\ h \in [Nat -> TableType] /\ h[0] = Blank(n)
  /\ \A j \in 1..i : TableStep(h[j - 1], h[j], log, j, g)
Reaches(x, n, log, i, g) == \E h : Chain(h, n, log, i, g) /\ h[i] = x

\* What daemon a at p knows of maturity: it is mature when a message said that some member
\* is, or when it said so itself; and then it does not wait for that in BOOT.
Matured(a, s, p, log) ==
  /\ Ripe(log, p.at, p.view) => s.mat
  /\ s.mat => \/ Ripe(log, p.at, p.view)
              \/ \A i \in 1..Len(log) :
                   Answer(log[i], p.view) /\ log[i].from = a => log[i].body.mat
  /\ s.state \in {"GATHER", "RUN"} \/ ~s.mat

\* The tables of a daemon that stands at p in a view with members T.
Tabled(a, s, p, T, log) ==
  /\ Tidy(s) /\ Matured(a, s, p, log)
  /\ p.at <= Len(log) /\ Reaches(TableOf(s), Cardinality(T), log, p.at, p.view)

(***************************************************************************)
(* The interfaces.  They follow the tables where, besides, a daemon that   *)
(* sends a balance message has none under way: the moves of a message are  *)
(* then computed from the tables on which they are made.                   *)
(***************************************************************************)
Simple == Plain /\ MaxBalances <= 1

\* The moves of letter e make sense on the table up to position i of the log.
Computed(e, log, i, n, g) ==
  \E x : /\ Reaches(x, n, log, i, g)
         /\ Moving(x, MovesRead(e.body)) /\ Aimed(x, MovesRead(e.body))

\* The answer of daemon a to view g, if it is in the log, claims what is up.
ClaimsUp(a, s, g, log) ==
  \A i \in 1..Len(log) :
    Answer(log[i], g) /\ log[i].from = a => DOMAIN log[i].body.claims = s.up

\* Before daemon a has received its own answer, afterwards, and when it has decided.
Serves(a, s, g, log) ==
  /\ Counted(s) /\ Backed(TableOf(s))
  /\ IF s.ip[s.idx] = NoAddr THEN Expecting(s) /\ ClaimsUp(a, s, g, log)
     ELSE IF s.state = "RUN" THEN s.up = Owned(s) ELSE Holding(s)

\* If letter e is the answer of daemon a, it says whether a is mature and claims what is up.
Speaks(a, s, e, g) ==
  Answer(e, g) /\ e.from = a =>
    (s.mat => e.body.mat) /\ (Simple => DOMAIN e.body.claims = s.up)

\* Where daemon a stands, outside of a view (not mature then) or in one.
Stands(a, s, p, S, L) ==
  IF p.view = 0 THEN /\ s.mbox => ~s.mat
                     /\ s.exit = "no" => Cleared(s) /\ (Plain => Firm(s))
  ELSE /\ Hearing(a, s, p, S[p.view], L[p.view])
       /\ Plain => Tabled(a, s, p, S[p.view], L[p.view])
       /\ Simple => Serves(a, s, p.view, L[p.view])

Member(a, s, v, box, w, vs, S, L) ==
  /\ Shape(a, s) /\ s.out = <<>> /\ s.gid <= vs
  /\ box \in Seq(Post) /\ w \in Seq(Position) /\ Len(w) = Len(box) + 1
  /\ Ordered(w) /\ Delivers(a, s, box, w, vs, S, L)
  /\ Attached(a, s, v, box, w, vs, S, L)
  /\ Stands(a, s, w[1], S, L)

\* A letter of the log of view g: its sender is a member and was, when it sent the letter,
\* in the view the letter names, which is g or an earlier one.
Sane(e, g, T, nd) ==
  /\ e.from \in T /\ e.gid <= nd[e.from].gid
  /\ e.body.kind = "state" =>
       /\ e.body.gid = e.gid /\ e.body.from = e.from /\ (e.gid = g => e.body.idx = Rank(T, e.from))
       /\ Plain => PlainState(e.body)
  /\ e.body.kind = "balance" /\ e.gid = g => Rank(T, e.from) = 1

\* A member answers a view once, and what it sends afterwards it sends in this view.
Answers(log, g) ==
  \A i, j \in 1..Len(log) :
    Answer(log[i], g) /\ i < j /\ log[j].from = log[i].from =>
      log[j].gid = g /\ ~Answer(log[j], g)

\* The balance messages of a view.
Balances(log, g, n) ==
  \A i \in 1..Len(log) :
    log[i].body.kind = "balance" /\ log[i].gid = g => Computed(log[i], log, i - 1, n, g)

Logs(nd, S, L) ==
  \A g \in Nat : /\ \A i \in 1..Len(L[g]) : Sane(L[g][i], g, S[g], nd)
                 /\ Answers(L[g], g)
                 /\ Simple => Balances(L[g], g, Cardinality(S[g]))

\* The types of the history.
History(S, L) == S \in [Nat -> SUBSET Address] /\ L \in [Nat -> Seq(Letter)]

Views == [gid : Nat, members : SUBSET Address]

Core(nd, vw, bx, vs, S, L, W) ==
  /\ nd \in [Address -> DaemonType] /\ vw \in [Address -> Views]
  /\ bx \in [Address -> Seq(Post)] /\ vs \in Nat
  /\ History(S, L)
  /\ W \in [Address -> Seq(Position)]
  /\ \A g \in Nat : g > vs => L[g] = <<>>
  /\ \A a \in Address : Member(a, nd[a], vw[a], bx[a], W[a], vs, S, L)
  /\ Logs(nd, S, L)

Inv ==
  /\ views \in 0..MaxViews /\ faults \in 0..MaxFaults
  /\ \E S, L, W : Core(node, view, inbox, views, S, L, W)
-----------------------------------------------------------------------------
(* The tables of a view. *)

\* Log "longer" goes on where log ends.
Extends(log, longer) ==
  /\ Len(log) \in Nat /\ Len(longer) \in Nat /\ Len(log) <= Len(longer)
  /\ \A i \in 1..Len(log) : longer[i] = log[i]

\* A daemon's tables have their types.
LEMMA TableOfType ==
  ASSUME NEW self, NEW s, Shape(self, s)
  PROVE  TableOf(s) \in TableType
  BY DEF TableOf, TableType, Shape, DaemonType

\* The beginning of a view.
LEMMA ReachesBlank ==
  ASSUME NEW n \in Nat, NEW log, NEW g
  PROVE  Reaches(Blank(n), n, log, 0, g)
<1> DEFINE h == [i \in Nat |-> Blank(n)]
<1>1. Blank(n) \in TableType
  <2>1. [k \in 1..n |-> 0] \in Seq(Int) /\ [k \in 1..n |-> NoAddr] \in Seq(AnyAddress)
    BY DEF AnyAddress
  <2>2. Nobody \in [Vip -> AnyAddress] /\ [v \in Vip |-> UNCLAIMED] \in [Vip -> Priority]
    BY DEF Nobody, AnyAddress, Priority, UNCLAIMED
  <2> QED
    BY <2>1, <2>2 DEF Blank, TableType
<1>2. h \in [Nat -> TableType] /\ h[0] = Blank(n)
  BY <1>1
<1> HIDE DEF h
<1>3. Chain(h, n, log, 0, g)
  BY <1>2 DEF Chain
<1> QED
  BY <1>2, <1>3 DEF Reaches

\* One letter more.
LEMMA ReachesNext ==
  ASSUME NEW n, NEW log, NEW g, NEW i \in Nat, NEW x, Reaches(x, n, log, i, g),
         NEW y \in TableType, TableStep(x, y, log, i + 1, g)
  PROVE  Reaches(y, n, log, i + 1, g)
<1>1. PICK h : Chain(h, n, log, i, g) /\ h[i] = x
  BY DEF Reaches
<1> DEFINE f == [h EXCEPT ![i + 1] = y]
<1>2. /\ f \in [Nat -> TableType] /\ f[i + 1] = y
      /\ \A j \in Nat : j # i + 1 => f[j] = h[j]
  BY <1>1 DEF Chain
<1> HIDE DEF f
<1>3. f[0] = Blank(n)
  BY <1>1, <1>2 DEF Chain
<1>4. ASSUME NEW j \in 1..(i + 1) PROVE TableStep(f[j - 1], f[j], log, j, g)
  <2>1. CASE j = i + 1
    <3>1. j - 1 = i /\ f[j - 1] = x /\ f[j] = y
      BY <1>1, <1>2, <2>1
    <3> QED
      BY <2>1, <3>1
  <2>2. CASE j # i + 1
    <3>1. j \in 1..i /\ f[j - 1] = h[j - 1] /\ f[j] = h[j]
      BY <1>2, <2>2
    <3> QED
      BY <1>1, <3>1 DEF Chain
  <2> QED
    BY <2>1, <2>2
<1>5. Chain(f, n, log, i + 1, g)
  BY <1>2, <1>3, <1>4 DEF Chain
<1> QED
  BY <1>2, <1>5 DEF Reaches

\* What comes later in the log does not count before.
LEMMA RipeGrows ==
  ASSUME NEW log, NEW longer, Extends(log, longer), NEW g, NEW i \in Int, i <= Len(log)
  PROVE  Ripe(log, i, g) <=> Ripe(longer, i, g)
<1>1. \A j \in 1..Len(longer) : j <= i => j \in 1..Len(log)
  BY DEF Extends
<1>2. \A j \in 1..Len(log) : j \in 1..Len(longer) /\ longer[j] = log[j]
  BY DEF Extends
<1> QED
  BY <1>1, <1>2 DEF Ripe

\* The tables before stay the same.
LEMMA ReachesGrows ==
  ASSUME NEW n, NEW log, NEW longer, Extends(log, longer), NEW g, NEW i \in Nat, i <= Len(log),
         NEW x, Reaches(x, n, log, i, g)
  PROVE  Reaches(x, n, longer, i, g)
<1>1. PICK h : Chain(h, n, log, i, g) /\ h[i] = x
  BY DEF Reaches
<1>2. ASSUME NEW j \in 1..i PROVE TableStep(h[j - 1], h[j], longer, j, g)
  <2>1. longer[j] = log[j]
    BY DEF Extends
  <2>2. j <= Len(log) /\ j - 1 <= Len(log) /\ j \in Int /\ j - 1 \in Int
    BY DEF Extends
  <2>3. /\ Ripe(log, j, g) <=> Ripe(longer, j, g)
        /\ Ripe(log, j - 1, g) <=> Ripe(longer, j - 1, g)
    BY <2>2, RipeGrows
  <2>4. \A z : /\ Runs(z, log, j, g) <=> Runs(z, longer, j, g)
               /\ Runs(z, log, j - 1, g) <=> Runs(z, longer, j - 1, g)
    BY <2>3 DEF Runs
  <2>5. Effect(h[j - 1], log[j], g, Runs(h[j - 1], log, j - 1, g))
          = Effect(h[j - 1], longer[j], g, Runs(h[j - 1], longer, j - 1, g))
    BY <2>1, <2>4 DEF Effect
  <2>6. TableStep(h[j - 1], h[j], log, j, g)
    BY <1>1 DEF Chain
  <2> QED
    BY <2>4, <2>5, <2>6 DEF TableStep
<1>3. Chain(h, n, longer, i, g)
  BY <1>1, <1>2 DEF Chain
<1> QED
  BY <1>1, <1>3 DEF Reaches

\* A letter makes one table of a table, whoever applies it.
LEMMA TableStepUnique ==
  ASSUME NEW log \in Seq(Letter), NEW i \in 1..Len(log), NEW g, NEW x \in TableType,
         NEW y, TableStep(x, y, log, i, g), NEW z, TableStep(x, z, log, i, g)
  PROVE  y = z
<1> DEFINE e == log[i]
           b == Effect(x, e, g, Runs(x, log, i - 1, g))
<1>1. CASE ~(Runs(b, log, i, g) /\ ~Runs(x, log, i - 1, g))
  BY <1>1 DEF TableStep
<1>2. CASE Runs(b, log, i, g) /\ ~Runs(x, log, i - 1, g)
  <2>1. Allots(b, y) /\ Allots(b, z)
    BY <1>2 DEF TableStep
  <2>2. x.num \in Seq(Int)
    BY DEF TableType
  <2>3. b = x \/ (Answer(e, g) /\ b = Merged(x, e.body))
    BY <1>2 DEF Effect
  <2>4. DOMAIN b.num = DOMAIN x.num /\ \A k \in DOMAIN b.num : b.num[k] \in Int
    <3> HIDE DEF b, e
    <3>1. CASE b = x
      BY <2>2, <3>1
    <3>2. CASE Answer(e, g) /\ b = Merged(x, e.body)
      <4> DEFINE fresh == {v \in DOMAIN e.body.claims : x.owner[v] = NoAddr}
      <4>1. e \in Letter
        BY DEF e
      <4>2. e.body \in StateMessage
        BY <3>2, <4>1 DEF Letter, Message, StateMessage, BalanceMessage, MaturingMessage,
                          ArpMessage, Answer
      <4>3. fresh \in SUBSET Vip
        BY <4>2 DEF StateMessage, Claims
      <4>4. Cardinality(fresh) \in Int
        BY <4>3, VipFinite
      <4>5. b.num = [x.num EXCEPT ![e.body.idx] = Cardinality(fresh)]
        BY <3>2 DEF Merged
      <4> HIDE DEF fresh
      <4> QED
        BY <2>2, <4>4, <4>5
    <3> QED
      BY <2>3, <3>1, <3>2
  <2>5. DOMAIN x.num \subseteq Nat
    BY <2>2
  <2> HIDE DEF b
  <2> QED
    BY <2>1, <2>4, <2>5, AllotsUnique
<1> QED
  BY <1>1, <1>2

\* All members make the same table of the log up to the same position.
LEMMA ReachesUnique ==
  ASSUME NEW log \in Seq(Letter), NEW n, NEW g, NEW i \in Nat, i <= Len(log),
         NEW x, Reaches(x, n, log, i, g), NEW y, Reaches(y, n, log, i, g)
  PROVE  x = y
<1>1. PICK h : Chain(h, n, log, i, g) /\ h[i] = x
  BY DEF Reaches
<1>2. PICK f : Chain(f, n, log, i, g) /\ f[i] = y
  BY DEF Reaches
<1> DEFINE D == {j \in 0..i : h[j] # f[j]}
           m == Min(D)
<1>3. D = {}
  <2> SUFFICES ASSUME D # {} PROVE FALSE
    OBVIOUS
  <2>1. D \in SUBSET Nat
    OBVIOUS
  <2> HIDE DEF D
  <2>2. m \in D /\ \A j \in D : m <= j
    BY <2>1, HasMin
  <2> HIDE DEF m
  <2>3. m \in 0..i /\ h[m] # f[m]
    BY <2>2 DEF D
  <2>4. m # 0
    BY <1>1, <1>2, <2>3 DEF Chain
  <2>5. m \in 1..i /\ m - 1 \in 0..i /\ m - 1 < m /\ m - 1 \in Nat
    BY <2>3, <2>4
  <2>6. h[m - 1] = f[m - 1]
    <3> SUFFICES ASSUME h[m - 1] # f[m - 1] PROVE FALSE
      OBVIOUS
    <3>1. m - 1 \in D
      BY <2>5 DEF D
    <3> QED
      BY <2>2, <2>5, <3>1
  <2>7. TableStep(h[m - 1], h[m], log, m, g) /\ TableStep(h[m - 1], f[m], log, m, g)
    BY <1>1, <1>2, <2>5, <2>6 DEF Chain
  <2>8. h[m - 1] \in TableType
    BY <1>1, <2>5 DEF Chain
  <2>9. m \in 1..Len(log)
    BY <2>5
  <2> QED
    BY <2>3, <2>7, <2>8, <2>9, TableStepUnique
<1>4. i \in 0..i
  OBVIOUS
<1>5. h[i] = f[i]
  BY <1>3, <1>4
<1> QED
  BY <1>1, <1>2, <1>5

\* What stands between two positions is one step.
LEMMA ReachesStep ==
  ASSUME NEW log \in Seq(Letter), NEW n, NEW g, NEW i \in 1..Len(log),
         NEW x, Reaches(x, n, log, i - 1, g), NEW y, Reaches(y, n, log, i, g)
  PROVE  TableStep(x, y, log, i, g)
<1>1. PICK h : Chain(h, n, log, i, g) /\ h[i] = y
  BY DEF Reaches
<1>2. i - 1 \in Nat /\ i - 1 <= Len(log) /\ \A j \in 1..(i - 1) : j \in 1..i
  OBVIOUS
<1>3. Chain(h, n, log, i - 1, g)
  BY <1>1, <1>2 DEF Chain
<1>4. Reaches(h[i - 1], n, log, i - 1, g)
  BY <1>3 DEF Reaches
<1>5. h[i - 1] = x
  BY <1>2, <1>4, ReachesUnique
<1>6. i \in 1..i
  OBVIOUS
<1> QED
  BY <1>1, <1>5, <1>6 DEF Chain

\* Letters that neither answer nor balance change nothing once the table runs.
LEMMA ReachesIdle ==
  ASSUME NEW log \in Seq(Letter), NEW n, NEW g, NEW i \in Nat, i <= Len(log),
         NEW x \in TableType, Reaches(x, n, log, i, g), Runs(x, log, i, g),
         \A j \in 1..Len(log) : j > i => ~Answer(log[j], g) /\ log[j].body.kind # "balance"
  PROVE  Reaches(x, n, log, Len(log), g)
<1> DEFINE D == {j \in i..Len(log) : ~Reaches(x, n, log, j, g)}
           m == Min(D)
<1>1. D = {}
  <2> SUFFICES ASSUME D # {} PROVE FALSE
    OBVIOUS
  <2>1. D \in SUBSET Nat
    OBVIOUS
  <2> HIDE DEF D
  <2>2. m \in D /\ \A j \in D : m <= j
    BY <2>1, HasMin
  <2> HIDE DEF m
  <2>3. m \in i..Len(log) /\ ~Reaches(x, n, log, m, g)
    BY <2>2 DEF D
  <2>4. m # i
    BY <2>3
  <2>5. /\ m - 1 \in i..Len(log) /\ m - 1 \in Nat /\ (m - 1) + 1 = m /\ ~(m <= m - 1)
        /\ m \in 1..Len(log) /\ m > i
    BY <2>3, <2>4
  <2>6. Reaches(x, n, log, m - 1, g)
    BY <2>2, <2>5 DEF D
  <2>7. Runs(x, log, m - 1, g)
    <3>1. \A k \in 1..Len(log) : k <= i => k <= m - 1
      BY <2>5
    <3> QED
      BY <3>1 DEF Runs, Ripe
  <2>8. Effect(x, log[m], g, TRUE) = x
    BY <2>5 DEF Effect
  <2>9. TableStep(x, x, log, (m - 1) + 1, g)
    <3>1. TableStep(x, x, log, m, g)
      BY <2>7, <2>8 DEF TableStep
    <3> QED
      BY <2>5, <3>1
  <2>10. Reaches(x, n, log, (m - 1) + 1, g)
    BY <2>5, <2>6, <2>9, ReachesNext
  <2> QED
    BY <2>3, <2>5, <2>10
<1>2. Len(log) \in i..Len(log)
  OBVIOUS
<1> QED
  BY <1>1, <1>2

\* A table into which claims are merged is a table.
LEMMA MergedType ==
  ASSUME NEW x \in TableType, DOMAIN x.num = DOMAIN x.ip, NEW m \in StateMessage
  PROVE  Merged(x, m) \in TableType /\ DOMAIN Merged(x, m).num = DOMAIN Merged(x, m).ip
<1> DEFINE fresh == {v \in DOMAIN m.claims : x.owner[v] = NoAddr}
           num   == [x.num EXCEPT ![m.idx] = Cardinality(fresh)]
           ip    == [x.ip EXCEPT ![m.idx] = m.from]
           owner == [v \in Vip |-> IF v \in fresh THEN m.from ELSE x.owner[v]]
           prio  == [v \in Vip |-> IF v \in fresh THEN CLAIMED ELSE x.prio[v]]
<1>1. fresh \in SUBSET Vip
  BY DEF StateMessage, Claims
<1>2. Cardinality(fresh) \in Int
  BY <1>1, VipFinite
<1> HIDE DEF fresh
<1>3. m.from \in AnyAddress /\ CLAIMED \in Priority
  BY DEF StateMessage, AnyAddress, Priority
<1>4. /\ x.num \in Seq(Int) /\ x.ip \in Seq(AnyAddress)
      /\ x.owner \in [Vip -> AnyAddress] /\ x.prio \in [Vip -> Priority]
  BY DEF TableType
<1>5. num \in Seq(Int) /\ ip \in Seq(AnyAddress) /\ DOMAIN num = DOMAIN x.num /\ DOMAIN ip = DOMAIN x.ip
  <2>0. x.num \in [DOMAIN x.num -> Int] /\ x.ip \in [DOMAIN x.ip -> AnyAddress]
    BY <1>4, SeqFunction
  <2>1. num \in [DOMAIN x.num -> Int]
    BY <1>2, <2>0
  <2>2. ip \in [DOMAIN x.ip -> AnyAddress]
    BY <1>3, <2>0
  <2> QED
    BY <1>4, <2>1, <2>2, FunctionSeq
<1>6. owner \in [Vip -> AnyAddress] /\ prio \in [Vip -> Priority]
  BY <1>3, <1>4
<1>7. Merged(x, m) = [owner |-> owner, prio |-> prio, num |-> num, ip |-> ip]
  BY DEF Merged, fresh
<1> HIDE DEF owner, prio, num, ip
<1> QED
  BY <1>5, <1>6, <1>7 DEF TableType

\* A step keeps every owner a member that has been heard of.
LEMMA TableStepBacked ==
  ASSUME NEW x \in TableType, DOMAIN x.num = DOMAIN x.ip, Backed(x),
         NEW log \in Seq(Letter), NEW i \in 1..Len(log), NEW g, NEW y, TableStep(x, y, log, i, g),
         Answer(log[i], g) => LET m == log[i].body IN m.idx \in DOMAIN x.ip /\ x.ip[m.idx] = NoAddr,
         Runs(x, log, i - 1, g) /\ log[i].body.kind = "balance" =>
           Decided(x) /\ Aimed(x, MovesRead(log[i].body))
  PROVE  Backed(y)
<1> DEFINE e == log[i]
           r == Runs(x, log, i - 1, g)
           z == Effect(x, e, g, r)
<1>1. e \in Letter
  OBVIOUS
<1>2. IF Runs(z, log, i, g) /\ ~r THEN Allots(z, y) ELSE y = z
  BY DEF TableStep
<1> HIDE DEF e, r, z
<1>3. CASE Answer(e, g)
  <2>1. z = Merged(x, e.body)
    BY <1>3 DEF z, Effect
  <2>2. e.body \in StateMessage
    BY <1>1, <1>3 DEF Letter, Message, StateMessage, BalanceMessage, MaturingMessage,
                      ArpMessage, Answer
  <2>3. e.body.idx \in DOMAIN x.ip /\ x.ip[e.body.idx] = NoAddr
    BY <1>3 DEF e
  <2>4. Backed(z) /\ z \in TableType /\ DOMAIN z.num = DOMAIN z.ip
    BY <2>1, <2>2, <2>3, BackedMerged, MergedType
  <2>5. Runs(z, log, i, g) => Heard(z)
    BY DEF Runs
  <2> QED
    BY <1>2, <2>4, <2>5, BackedAllots
<1>4. CASE ~Answer(e, g) /\ r /\ e.body.kind = "balance"
  <2>1. z = Moved(x, MovesRead(e.body))
    BY <1>4 DEF z, Effect
  <2>2. e.body \in BalanceMessage
    BY <1>1, <1>4 DEF Letter, Message, StateMessage, BalanceMessage, MaturingMessage, ArpMessage
  <2>3. MovesRead(e.body) \in Seq(Move)
    BY <2>2, MovesReadType
  <2>4. Decided(x) /\ Aimed(x, MovesRead(e.body))
    BY <1>4 DEF e, r
  <2>5. Backed(z)
    BY <2>1, <2>3, <2>4, BackedMoved
  <2> QED
    BY <1>2, <1>4, <2>5
<1>5. CASE ~Answer(e, g) /\ ~(r /\ e.body.kind = "balance")
  <2>1. z = x
    BY <1>5 DEF z, Effect
  <2>2. Runs(z, log, i, g) => Heard(z)
    BY DEF Runs
  <2> QED
    BY <1>2, <2>1, <2>2, BackedAllots
<1> QED
  BY <1>3, <1>4, <1>5

\* A letter e that comes later, and is mature when its sender a is.
LEMMA TabledGrows ==
  ASSUME NEW a, NEW s, NEW p \in Position, NEW T, NEW log, NEW longer, Extends(log, longer),
         Tabled(a, s, p, T, log),
         \A i \in 1..Len(longer) : i > Len(log) =>
           (Answer(longer[i], p.view) /\ longer[i].from = a /\ s.mat => longer[i].body.mat)
  PROVE  Tabled(a, s, p, T, longer)
<1>1. p.at \in Nat /\ p.at \in Int /\ p.at <= Len(log) /\ p.at <= Len(longer)
  BY DEF Position, Tabled, Extends
<1>2. Ripe(log, p.at, p.view) <=> Ripe(longer, p.at, p.view)
  BY <1>1, RipeGrows
<1>3. Reaches(TableOf(s), Cardinality(T), longer, p.at, p.view)
  BY <1>1, ReachesGrows DEF Tabled
<1>4. Matured(a, s, p, longer)
  <2>1. Matured(a, s, p, log)
    BY DEF Tabled
  <2>2. ASSUME s.mat, \A i \in 1..Len(log) :
                   Answer(log[i], p.view) /\ log[i].from = a => log[i].body.mat,
               NEW i \in 1..Len(longer), Answer(longer[i], p.view), longer[i].from = a
        PROVE  longer[i].body.mat
    <3>1. CASE i > Len(log)
      BY <2>2, <3>1
    <3>2. CASE ~(i > Len(log))
      <4>1. i \in 1..Len(log) /\ longer[i] = log[i]
        BY <3>2 DEF Extends
      <4> QED
        BY <2>2, <4>1
    <3> QED
      BY <3>1, <3>2
  <2> QED
    BY <1>2, <2>1, <2>2 DEF Matured
<1> QED
  BY <1>1, <1>3, <1>4 DEF Tabled

\* A daemon runs exactly when the log up to its position lets it.
LEMMA TabledRuns ==
  ASSUME NEW a \in Address, NEW s, NEW p \in Position, NEW T \in SUBSET Address, NEW log,
         Hearing(a, s, p, T, log), Matured(a, s, p, log)
  PROVE  /\ s.state = "RUN" <=> Runs(TableOf(s), log, p.at, p.view)
         /\ s.state # "GATHER" <=> Heard(s)
<1>1. /\ DOMAIN s.ip = 1..Cardinality(T) /\ s.pending = Cardinality(Unheard(s))
      /\ (s.state = "GATHER" <=> s.pending # 0) /\ (s.state = "RUN" => s.mat)
  BY DEF Hearing
<1>2. IsFiniteSet(Unheard(s))
  <2>1. Cardinality(T) \in Nat
    BY RankNat
  <2>2. IsFiniteSet(1..Cardinality(T)) /\ Unheard(s) \in SUBSET (1..Cardinality(T))
    BY <1>1, <2>1, FS_Interval DEF Unheard
  <2> QED
    BY <2>2, FS_Subset
<1>3. s.pending = 0 <=> Heard(s)
  <2>1. s.pending = 0 <=> Unheard(s) = {}
    BY <1>1, <1>2, FS_EmptySet
  <2> QED
    BY <2>1 DEF Unheard, Heard
<1>4. Heard(TableOf(s)) <=> Heard(s)
  BY DEF Heard, TableOf
<1>5. ASSUME s.state = "RUN" PROVE Ripe(log, p.at, p.view)
  <2> SUFFICES ASSUME \A i \in 1..Len(log) :
                        Answer(log[i], p.view) /\ log[i].from = a => log[i].body.mat
               PROVE  Ripe(log, p.at, p.view)
    BY <1>1, <1>5 DEF Matured
  <2> DEFINE k == Rank(T, a)
  <2>1. a \in T
    BY DEF Hearing
  <2>2. k \in DOMAIN s.ip
    <3>1. Cardinality(T) \in Nat /\ k \in Nat /\ k <= Cardinality(T) /\ k # 0
      BY <2>1, RankNat
    <3> QED
      BY <1>1, <3>1
  <2>3. s.ip[k] # NoAddr
    BY <1>1, <1>3, <1>5, <2>2 DEF Heard
  <2>4. /\ s.ip[k] \in T /\ Rank(T, s.ip[k]) = Rank(T, a)
        /\ \E i \in 1..Len(log) : i <= p.at /\ log[i].from = s.ip[k] /\ Answer(log[i], p.view)
    BY <2>2, <2>3 DEF Hearing
  <2>5. s.ip[k] = a
    BY <2>1, <2>4, RankOneToOne
  <2>6. PICK i \in 1..Len(log) : i <= p.at /\ log[i].from = a /\ Answer(log[i], p.view)
    BY <2>4, <2>5
  <2>7. Matures(log[i], p.view)
    BY <2>6 DEF Matures
  <2> QED
    BY <2>6, <2>7 DEF Ripe
<1>6. ASSUME Heard(s), Ripe(log, p.at, p.view) PROVE s.state = "RUN"
  <2>1. s.state # "GATHER" /\ s.mat
    BY <1>1, <1>3, <1>6 DEF Matured
  <2> QED
    BY <2>1 DEF Matured
<1> QED
  BY <1>1, <1>3, <1>4, <1>5, <1>6 DEF Runs

\* Maturity up to the next letter.
LEMMA RipeNext ==
  ASSUME NEW log, Len(log) \in Nat, NEW g, NEW i \in 1..Len(log)
  PROVE  Ripe(log, i, g) <=> Ripe(log, i - 1, g) \/ Matures(log[i], g)
<1>1. \A j \in 1..Len(log) : j <= i <=> j <= i - 1 \/ j = i
  OBVIOUS
<1> QED
  BY <1>1 DEF Ripe

-----------------------------------------------------------------------------
(* What a daemon knows when one of these changes. *)

\* Letters that come later do not disturb what a daemon has heard.
LEMMA HearingGrows ==
  ASSUME NEW a, NEW s, NEW p \in Position, NEW T, NEW log, NEW longer,
         Len(log) \in Nat, Len(longer) \in Nat, Len(log) <= Len(longer),
         \A i \in 1..Len(log) : longer[i] = log[i],
         Hearing(a, s, p, T, log)
  PROVE  Hearing(a, s, p, T, longer)
  BY DEF Hearing

\* Nor do they change what is up, which the daemon claims when it answers.
LEMMA ServesGrows ==
  ASSUME NEW a, NEW s, NEW g, NEW log, NEW longer, Extends(log, longer), Serves(a, s, g, log),
         \A i \in 1..Len(longer) : i > Len(log) =>
           (Answer(longer[i], g) /\ longer[i].from = a => DOMAIN longer[i].body.claims = s.up)
  PROVE  Serves(a, s, g, longer)
<1>1. ASSUME ClaimsUp(a, s, g, log) PROVE ClaimsUp(a, s, g, longer)
  <2> SUFFICES ASSUME NEW i \in 1..Len(longer), Answer(longer[i], g), longer[i].from = a
               PROVE  DOMAIN longer[i].body.claims = s.up
    BY DEF ClaimsUp
  <2>1. CASE i > Len(log)
    BY <2>1
  <2>2. CASE ~(i > Len(log))
    <3>1. i \in 1..Len(log) /\ longer[i] = log[i]
      BY <2>2 DEF Extends
    <3> QED
      BY <1>1, <3>1 DEF ClaimsUp
  <2> QED
    BY <2>1, <2>2
<1> QED
  BY <1>1 DEF Serves

\* Nor do they change what it has made of the letters before; a daemon that is mature
\* answers that it is.
LEMMA StandsGrows ==
  ASSUME NEW a, NEW s, NEW p \in Position, NEW S, NEW L, Stands(a, s, p, S, L),
         NEW M, \A h \in Nat : Extends(L[h], M[h]),
         \A h \in Nat : \A i \in 1..Len(M[h]) : i > Len(L[h]) => Speaks(a, s, M[h][i], h)
  PROVE  Stands(a, s, p, S, M)
<1> DEFINE g == p.view
<1>1. g \in Nat
  BY DEF Position
<1>2. Extends(L[g], M[g])
  BY <1>1
<1>3. CASE g = 0
  BY <1>3 DEF Stands
<1>4. CASE g # 0
  <2>1. /\ Hearing(a, s, p, S[g], L[g]) /\ (Plain => Tabled(a, s, p, S[g], L[g]))
        /\ Simple => Serves(a, s, g, L[g])
    BY <1>4 DEF Stands
  <2>2. Hearing(a, s, p, S[g], M[g])
    <3>1. /\ Len(L[g]) \in Nat /\ Len(M[g]) \in Nat /\ Len(L[g]) <= Len(M[g])
          /\ \A i \in 1..Len(L[g]) : M[g][i] = L[g][i]
      BY <1>2 DEF Extends
    <3> HIDE DEF g
    <3> QED
      BY <2>1, <3>1, HearingGrows
  <2>3. ASSUME Plain PROVE Tabled(a, s, p, S[g], M[g])
    <3>1. Tabled(a, s, p, S[g], L[g])
      BY <2>1, <2>3
    <3>2. \A i \in 1..Len(M[g]) : i > Len(L[g]) =>
            (Answer(M[g][i], g) /\ M[g][i].from = a /\ s.mat => M[g][i].body.mat)
      BY <1>1 DEF Speaks
    <3> QED
      BY <1>2, <3>1, <3>2, TabledGrows
  <2>4. ASSUME Simple PROVE Serves(a, s, g, M[g])
    <3>1. \A i \in 1..Len(M[g]) : i > Len(L[g]) =>
            (Answer(M[g][i], g) /\ M[g][i].from = a => DOMAIN M[g][i].body.claims = s.up)
      BY <1>1, <2>4 DEF Speaks
    <3>2. Serves(a, s, g, L[g])
      BY <2>1, <2>4
    <3> HIDE DEF g
    <3> QED
      BY <1>2, <3>1, <3>2, ServesGrows
  <2> QED
    BY <1>4, <2>2, <2>3, <2>4 DEF Stands
<1> QED
  BY <1>3, <1>4

\* What is behind the first letter stays in order when that is taken away.
LEMMA OrderedTail ==
  ASSUME NEW w \in Seq(Position), NEW r \in Seq(Position), Shorter(w, r), Ordered(w)
  PROVE  Ordered(r)
<1> SUFFICES ASSUME NEW i \in 1..Len(r), NEW j \in 1..Len(r), i <= j
             PROVE  /\ r[i].view <= r[j].view
                    /\ r[i].view = r[j].view => r[j].at = r[i].at + (j - i)
  BY DEF Ordered
<1>1. /\ i + 1 \in 1..Len(w) /\ j + 1 \in 1..Len(w) /\ i + 1 <= j + 1
      /\ r[i] = w[i + 1] /\ r[j] = w[j + 1] /\ (j + 1) - (i + 1) = j - i
  BY DEF Shorter
<1> QED
  BY <1>1 DEF Ordered

\* A position stays in order that is the next one of the last view, or begins a later one.
LEMMA OrderedLonger ==
  ASSUME NEW w \in Seq(Position), w # <<>>, NEW r \in Seq(Position), NEW p \in Position,
         Longer(w, r, p), Ordered(w),
         LET l == w[Len(w)]
         IN  (p.view = l.view /\ p.at = l.at + 1) \/ p.view > l.view
  PROVE  Ordered(r)
<1> SUFFICES ASSUME NEW i \in 1..Len(r), NEW j \in 1..Len(r), i <= j
             PROVE  /\ r[i].view <= r[j].view
                    /\ r[i].view = r[j].view => r[j].at = r[i].at + (j - i)
  BY DEF Ordered
<1>1. Len(w) \in Nat /\ Len(w) \in 1..Len(w) /\ Len(r) = Len(w) + 1
  BY DEF Longer
<1>2. CASE j <= Len(w)
  <2>1. i \in 1..Len(w) /\ j \in 1..Len(w) /\ r[i] = w[i] /\ r[j] = w[j]
    BY <1>1, <1>2 DEF Longer
  <2> QED
    BY <2>1 DEF Ordered
<1>3. CASE j = Len(r) /\ i = Len(r)
  <2>1. r[i] \in Position /\ r[j] = r[i]
    BY <1>3
  <2> QED
    BY <1>3, <2>1 DEF Position
<1>4. CASE j = Len(r) /\ i <= Len(w)
  <2>1. /\ i \in 1..Len(w) /\ r[i] = w[i] /\ r[j] = p
        /\ w[i] \in Position /\ w[Len(w)] \in Position
    BY <1>1, <1>4 DEF Longer
  <2>2. /\ w[i].view <= w[Len(w)].view
        /\ w[i].view = w[Len(w)].view => w[Len(w)].at = w[i].at + (Len(w) - i)
    BY <1>1, <2>1 DEF Ordered
  <2>3. /\ w[i].view \in Nat /\ w[i].at \in Nat
        /\ w[Len(w)].view \in Nat /\ w[Len(w)].at \in Nat
    BY <2>1 DEF Position
  <2>4. j - i = (Len(w) - i) + 1
    BY <1>1, <1>4
  <2>5. CASE p.view = w[Len(w)].view /\ p.at = w[Len(w)].at + 1
    <3>1. w[i].view = p.view => p.at = w[i].at + (j - i)
      <4>1. w[i].view = p.view => p.at = (w[i].at + (Len(w) - i)) + 1
        BY <2>2, <2>5
      <4>2. (w[i].at + (Len(w) - i)) + 1 = w[i].at + (j - i)
        BY <1>1, <2>3, <2>4
      <4> QED
        BY <4>1, <4>2
    <3> QED
      BY <2>1, <2>2, <2>5, <3>1
  <2>6. CASE p.view > w[Len(w)].view
    <3>1. p.view \in Nat
      BY DEF Position
    <3>2. w[i].view < p.view
      BY <2>2, <2>3, <2>6, <3>1
    <3>3. r[i].view < r[j].view /\ r[i].view \in Nat /\ r[j].view \in Nat
      BY <2>1, <2>3, <3>1, <3>2
    <3> QED
      BY <3>3
  <2> QED
    BY <2>5, <2>6
<1> QED
  BY <1>1, <1>2, <1>3, <1>4

\* Taking a letter: what remains is delivered to the daemon that stands at its position.
LEMMA MemberTakes ==
  ASSUME NEW a \in Address, NEW s, NEW v \in Views, NEW box, NEW w, NEW vs \in Nat, NEW S, NEW L,
         Member(a, s, v, box, w, vs, S, L), box # <<>>,
         NEW t, Shape(a, t), t.out = <<>>, t.gid = w[2].view, t.mbox = s.mbox,
         Stands(a, t, w[2], S, L)
  PROVE  Member(a, t, v, Tail(box), Tail(w), vs, S, L)
<1>1. /\ box \in Seq(Post) /\ w \in Seq(Position) /\ Len(w) = Len(box) + 1 /\ Len(box) >= 1
      /\ w # <<>>
  BY DEF Member
<1> DEFINE box2 == Tail(box)
           w2   == Tail(w)
<1>2. /\ box2 \in Seq(Post) /\ Shorter(box, box2)
      /\ w2 \in Seq(Position) /\ Shorter(w, w2)
  BY <1>1, TailShorter
<1> HIDE DEF box2, w2
<1>3. Len(w2) = Len(box2) + 1 /\ w2[1] = w[2] /\ w2[Len(w2)] = w[Len(w)] /\ Len(w) \in Nat
  BY <1>1, <1>2 DEF Shorter
<1>4. Ordered(w2)
  BY <1>1, <1>2, OrderedTail DEF Member
<1>5. \A i \in 1..Len(w) : w[i] \in Position
  BY <1>1
<1>6. w[2].view \in 1..vs
  BY <1>1 DEF Member, Delivers
<1>7. Delivers(a, t, box2, w2, vs, S, L)
  <2> SUFFICES ASSUME NEW i \in 1..Len(box2)
               PROVE  LET p == w2[i + 1]
                      IN  /\ p.view \in 1..vs /\ a \in S[p.view]
                          /\ p.at = 0 => box2[i] = ViewLetter(S, a, p.view) /\ p.view > t.gid
                          /\ p.at # 0 => /\ w2[i].view = p.view /\ p.at \in 1..Len(L[p.view])
                                         /\ box2[i] = L[p.view][p.at]
    BY DEF Delivers
  <2>1. /\ i + 1 \in 1..Len(box) /\ box2[i] = box[i + 1]
        /\ w2[i + 1] = w[(i + 1) + 1] /\ w2[i] = w[i + 1]
    BY <1>1, <1>2, <1>3 DEF Shorter
  <2> DEFINE p == w[(i + 1) + 1]
  <2>2. /\ p.view \in 1..vs /\ a \in S[p.view]
        /\ p.at = 0 => box[i + 1] = ViewLetter(S, a, p.view)
        /\ p.at # 0 => /\ w[i + 1].view = p.view /\ p.at \in 1..Len(L[p.view])
                       /\ box[i + 1] = L[p.view][p.at]
    BY <2>1 DEF Member, Delivers
  <2>3. p.at = 0 => p.view > t.gid
    <3>1. /\ 2 \in 1..Len(w) /\ (i + 1) + 1 \in 1..Len(w) /\ 2 <= (i + 1) + 1
          /\ ((i + 1) + 1) - 2 = i
      BY <1>1, <1>2 DEF Shorter
    <3>2. /\ w[2].view <= p.view
          /\ w[2].view = p.view => p.at = w[2].at + i
      BY <3>1 DEF Member, Ordered
    <3>3. w[2] \in Position /\ p \in Position
      BY <1>5, <3>1
    <3> QED
      BY <3>2, <3>3 DEF Position
  <2> QED
    BY <2>1, <2>2, <2>3
<1>8. Attached(a, t, v, box2, w2, vs, S, L)
  BY <1>1, <1>3 DEF Member, Attached
<1>9. t.gid <= vs
  BY <1>6
<1> QED
  BY <1>2, <1>3, <1>4, <1>7, <1>8, <1>9 DEF Member, box2, w2

\* A step that takes no letter.
LEMMA MemberStays ==
  ASSUME NEW a, NEW s, NEW v, NEW box, NEW w, NEW vs, NEW S, NEW L,
         Member(a, s, v, box, w, vs, S, L),
         NEW t, Shape(a, t), t.out = <<>>, t.gid = s.gid, t.mbox = s.mbox,
         Stands(a, t, w[1], S, L)
  PROVE  Member(a, t, v, box, w, vs, S, L)
<1>1. Delivers(a, t, box, w, vs, S, L)
  BY DEF Member, Delivers
<1>2. Attached(a, t, v, box, w, vs, S, L)
  BY DEF Member, Attached
<1> QED
  BY <1>1, <1>2 DEF Member

\* The end of a session: Spread has nothing for the daemon any more.
LEMMA MemberLeaves ==
  ASSUME NEW a \in Address, NEW t, Shape(a, t), t.out = <<>>, t.mbox => ~t.mat,
         t.exit = "no" => Cleared(t) /\ (Plain => Firm(t)), NEW vs \in Nat, t.gid <= vs, NEW S, NEW L
  PROVE  Member(a, t, NoView, <<>>, <<Outside>>, vs, S, L)
<1> DEFINE w == <<Outside>>
<1>1. w \in Seq(Position) /\ Len(w) = 1 /\ w[1] = Outside /\ Outside \in Position
  BY DEF Position, Outside
<1>2. <<>> \in Seq(Post) /\ Len(<<>>) = 0
  OBVIOUS
<1>3. Ordered(w)
  <2> SUFFICES ASSUME NEW i \in 1..Len(w), NEW j \in 1..Len(w)
               PROVE  /\ w[i].view <= w[j].view
                      /\ w[i].view = w[j].view => w[j].at = w[i].at + (j - i)
    BY DEF Ordered
  <2>1. i = 1 /\ j = 1
    BY <1>1
  <2> QED
    BY <1>1, <2>1 DEF Outside
<1> HIDE DEF w
<1>4. Delivers(a, t, <<>>, w, vs, S, L)
  BY <1>2 DEF Delivers
<1>5. Attached(a, t, NoView, <<>>, w, vs, S, L)
  BY DEF Attached, w
<1>6. Stands(a, t, w[1], S, L)
  BY <1>1 DEF Stands, Outside
<1> QED
  BY <1>1, <1>2, <1>3, <1>4, <1>5, <1>6 DEF Member, w

\* A letter is put into the log of view g: the daemons attached to g get it in their
\* inboxes, and for the others nothing changes.
LEMMA MemberGets ==
  ASSUME NEW b \in Address, NEW s, NEW v \in Views, NEW box, NEW w, NEW vs \in Nat,
         NEW S, NEW L, History(S, L), Member(b, s, v, box, w, vs, S, L),
         NEW g \in Nat, NEW e \in Letter, v # NoView, v.gid = g, Speaks(b, s, e, g)
  PROVE  Member(b, s, v, Append(box, e), Append(w, [view |-> g, at |-> Len(L[g]) + 1]), vs, S,
                [L EXCEPT ![g] = Append(@, e)])
<1> DEFINE p    == [view |-> g, at |-> Len(L[g]) + 1]
           log  == Append(L[g], e)
           M    == [L EXCEPT ![g] = log]
           box2 == Append(box, e)
           w2   == Append(w, p)
<1>0. /\ L[g] \in Seq(Letter) /\ Len(L[g]) \in Nat
      /\ \A h \in Nat : Len(L[h]) \in Nat
      /\ M[g] = log /\ \A h \in Nat : h # g => M[h] = L[h]
  <2>1. L \in [Nat -> Seq(Letter)]
    BY DEF History
  <2>2. \A h \in Nat : L[h] \in Seq(Letter) /\ Len(L[h]) \in Nat
    BY <2>1
  <2> HIDE DEF log
  <2>3. M[g] = log /\ \A h \in Nat : h # g => M[h] = L[h]
    BY <2>1
  <2> QED
    BY <2>2, <2>3
<1>1. /\ L[g] \in Seq(Letter) /\ Len(L[g]) \in Nat
      /\ box \in Seq(Post) /\ w \in Seq(Position) /\ Len(w) = Len(box) + 1 /\ Len(box) \in Nat
      /\ w # <<>> /\ e \in Post /\ p \in Position /\ p.view = g /\ p.at = Len(L[g]) + 1
  BY <1>0 DEF Member, Position, Letter, Post, GroupMessage
<1>2. /\ log \in Seq(Letter) /\ Longer(L[g], log, e)
      /\ box2 \in Seq(Post) /\ Longer(box, box2, e)
      /\ w2 \in Seq(Position) /\ Longer(w, w2, p)
  BY <1>1, AppendLonger
<1>4. \A h \in Nat : /\ Len(L[h]) \in Nat /\ Len(M[h]) \in Nat /\ Len(L[h]) <= Len(M[h])
                     /\ \A i \in 1..Len(L[h]) : M[h][i] = L[h][i]
  <2> HIDE DEF log, M
  <2>1. /\ Len(M[g]) = Len(L[g]) + 1
        /\ \A i \in 1..Len(L[g]) : M[g][i] = L[g][i]
    BY <1>0, <1>2 DEF Longer
  <2>2. \A h \in Nat : h # g => Len(M[h]) = Len(L[h]) /\ \A i \in 1..Len(L[h]) : M[h][i] = L[h][i]
    BY <1>0
  <2> QED
    BY <1>0, <2>1, <2>2
<1> HIDE DEF log, M, box2, w2, p
<1>5. /\ w[Len(w)] = [view |-> g, at |-> Len(L[g])] /\ g \in 1..vs /\ b \in S[g]
      /\ v.members = S[g] /\ s.mbox
  BY DEF Member, Attached
<1>6. Ordered(w2)
  <2>1. Ordered(w) /\ p.view = w[Len(w)].view /\ p.at = w[Len(w)].at + 1
    BY <1>1, <1>5 DEF Member
  <2> QED
    BY <1>1, <1>2, <2>1, OrderedLonger
<1>7. Delivers(b, s, box2, w2, vs, S, M)
  <2> SUFFICES ASSUME NEW i \in 1..Len(box2)
               PROVE  LET q == w2[i + 1]
                      IN  /\ q.view \in 1..vs /\ b \in S[q.view]
                          /\ q.at = 0 => box2[i] = ViewLetter(S, b, q.view) /\ q.view > s.gid
                          /\ q.at # 0 => /\ w2[i].view = q.view /\ q.at \in 1..Len(M[q.view])
                                         /\ box2[i] = M[q.view][q.at]
    BY DEF Delivers
  <2>1. CASE i <= Len(box)
    <3> DEFINE q == w[i + 1]
    <3>1. /\ i \in 1..Len(box) /\ box2[i] = box[i] /\ w2[i] = w[i] /\ w2[i + 1] = q
      BY <1>1, <1>2, <2>1 DEF Longer
    <3>2. /\ q.view \in 1..vs /\ b \in S[q.view]
          /\ q.at = 0 => box[i] = ViewLetter(S, b, q.view) /\ q.view > s.gid
          /\ q.at # 0 => /\ w[i].view = q.view /\ q.at \in 1..Len(L[q.view])
                         /\ box[i] = L[q.view][q.at]
      BY <3>1 DEF Member, Delivers
    <3>3. q.view \in Nat
      BY <3>2
    <3> HIDE DEF q
    <3>4. q.at # 0 => q.at \in 1..Len(M[q.view]) /\ M[q.view][q.at] = L[q.view][q.at]
      BY <1>4, <3>2, <3>3
    <3> QED
      BY <3>1, <3>2, <3>4
  <2>2. CASE i = Len(box2)
    <3>0. i = Len(box) + 1 /\ i = Len(w) /\ i + 1 = Len(w2) /\ i \in 1..Len(w)
      BY <1>1, <1>2, <2>2 DEF Longer
    <3>1. box2[i] = e
      BY <1>2, <3>0 DEF Longer
    <3>2. w2[i + 1] = p
      BY <1>1, <1>2, <3>0 DEF Longer
    <3>3. w2[i] = w[Len(w)]
      BY <1>2, <3>0 DEF Longer
    <3>4. p.at # 0 /\ p.at \in 1..Len(M[g]) /\ M[g][p.at] = e
      BY <1>0, <1>1, <1>2 DEF Longer
    <3>5. w2[i].view = g
      BY <1>5, <3>3
    <3>6. p.view = g
      BY <1>1
    <3> QED
      BY <1>5, <3>1, <3>2, <3>4, <3>5, <3>6
  <2> QED
    BY <1>1, <1>2, <2>1, <2>2 DEF Longer
<1>8. Attached(b, s, v, box2, w2, vs, S, M)
  <2>1. w2[Len(w2)] = p /\ Len(M[g]) = Len(L[g]) + 1
    BY <1>0, <1>1, <1>2 DEF Longer
  <2> QED
    BY <1>5, <2>1 DEF Attached, p
<1>9. Stands(b, s, w2[1], S, M)
  <2>1. w2[1] = w[1] /\ w[1] \in Position
    BY <1>1, <1>2 DEF Longer
  <2>2. Stands(b, s, w[1], S, L)
    BY DEF Member
  <2>3. \A h \in Nat : Extends(L[h], M[h])
    BY <1>4 DEF Extends
  <2>4. \A h \in Nat : \A i \in 1..Len(M[h]) : i > Len(L[h]) => h = g /\ M[h][i] = e
    <3>1. \A i \in 1..Len(M[g]) : i > Len(L[g]) => M[g][i] = e
      <4>1. Len(M[g]) = Len(L[g]) + 1 /\ M[g][Len(L[g]) + 1] = e /\ Len(L[g]) \in Nat
        BY <1>0, <1>2 DEF Longer
      <4> QED
        BY <4>1
    <3>2. \A h \in Nat : h # g => \A i \in 1..Len(M[h]) : ~(i > Len(L[h]))
      BY <1>0
    <3> QED
      BY <3>1, <3>2
  <2>5. \A h \in Nat : \A i \in 1..Len(M[h]) : i > Len(L[h]) => Speaks(b, s, M[h][i], h)
    BY <2>4
  <2> QED
    BY <2>1, <2>2, <2>3, <2>5, StandsGrows
<1>10. Member(b, s, v, box2, w2, vs, S, M)
  BY <1>1, <1>2, <1>6, <1>7, <1>8, <1>9 DEF Member, Longer
<1> QED
  BY <1>10 DEF M, box2, w2, p, log

\* The daemons that are not attached to g.
LEMMA MemberMisses ==
  ASSUME NEW b \in Address, NEW s, NEW v \in Views, NEW box, NEW w, NEW vs \in Nat,
         NEW S, NEW L, History(S, L), Member(b, s, v, box, w, vs, S, L),
         NEW g \in Nat, NEW e \in Letter, v = NoView \/ v.gid # g, Speaks(b, s, e, g)
  PROVE  Member(b, s, v, box, w, vs, S, [L EXCEPT ![g] = Append(@, e)])
<1> DEFINE log == Append(L[g], e)
           M   == [L EXCEPT ![g] = log]
<1>0. /\ L[g] \in Seq(Letter) /\ Len(L[g]) \in Nat
      /\ \A h \in Nat : Len(L[h]) \in Nat
      /\ M[g] = log /\ \A h \in Nat : h # g => M[h] = L[h]
  <2>1. L \in [Nat -> Seq(Letter)]
    BY DEF History
  <2>2. \A h \in Nat : L[h] \in Seq(Letter) /\ Len(L[h]) \in Nat
    BY <2>1
  <2> HIDE DEF log
  <2>3. M[g] = log /\ \A h \in Nat : h # g => M[h] = L[h]
    BY <2>1
  <2> QED
    BY <2>2, <2>3
<1>1. log \in Seq(Letter) /\ Longer(L[g], log, e)
  BY <1>0, AppendLonger
<1>2. \A h \in Nat : /\ Len(L[h]) \in Nat /\ Len(M[h]) \in Nat /\ Len(L[h]) <= Len(M[h])
                     /\ \A i \in 1..Len(L[h]) : M[h][i] = L[h][i]
  <2> HIDE DEF log, M
  <2>1. /\ Len(M[g]) = Len(L[g]) + 1
        /\ \A i \in 1..Len(L[g]) : M[g][i] = L[g][i]
    BY <1>0, <1>1 DEF Longer
  <2>2. \A h \in Nat : h # g => Len(M[h]) = Len(L[h]) /\ \A i \in 1..Len(L[h]) : M[h][i] = L[h][i]
    BY <1>0
  <2> QED
    BY <1>0, <2>1, <2>2
<1> HIDE DEF log, M
<1>3. box \in Seq(Post) /\ w \in Seq(Position) /\ Len(w) = Len(box) + 1 /\ Len(box) \in Nat
  BY DEF Member
<1>4. Delivers(b, s, box, w, vs, S, M)
  <2> SUFFICES ASSUME NEW i \in 1..Len(box)
               PROVE  LET q == w[i + 1]
                      IN  /\ q.view \in 1..vs /\ b \in S[q.view]
                          /\ q.at = 0 => box[i] = ViewLetter(S, b, q.view) /\ q.view > s.gid
                          /\ q.at # 0 => /\ w[i].view = q.view /\ q.at \in 1..Len(M[q.view])
                                         /\ box[i] = M[q.view][q.at]
    BY DEF Delivers
  <2> DEFINE q == w[i + 1]
  <2>1. /\ q.view \in 1..vs /\ b \in S[q.view]
        /\ q.at = 0 => box[i] = ViewLetter(S, b, q.view) /\ q.view > s.gid
        /\ q.at # 0 => /\ w[i].view = q.view /\ q.at \in 1..Len(L[q.view])
                       /\ box[i] = L[q.view][q.at]
    BY DEF Member, Delivers
  <2>2. q.view \in Nat
    BY <2>1
  <2> HIDE DEF q
  <2>3. q.at # 0 => q.at \in 1..Len(M[q.view]) /\ M[q.view][q.at] = L[q.view][q.at]
    BY <1>2, <2>1, <2>2
  <2> QED
    BY <2>1, <2>3 DEF q
<1>5. Attached(b, s, v, box, w, vs, S, M)
  BY <1>0 DEF Member, Attached, Views
<1>6. Stands(b, s, w[1], S, M)
  <2>1. w[1] \in Position
    BY <1>3
  <2>2. Stands(b, s, w[1], S, L)
    BY DEF Member
  <2>3. \A h \in Nat : Extends(L[h], M[h])
    BY <1>2 DEF Extends
  <2>4. \A h \in Nat : \A i \in 1..Len(M[h]) : i > Len(L[h]) => h = g /\ M[h][i] = e
    <3>1. \A i \in 1..Len(M[g]) : i > Len(L[g]) => M[g][i] = e
      <4>1. Len(M[g]) = Len(L[g]) + 1 /\ M[g][Len(L[g]) + 1] = e /\ Len(L[g]) \in Nat
        BY <1>0, <1>1 DEF Longer
      <4> QED
        BY <4>1
    <3>2. \A h \in Nat : h # g => \A i \in 1..Len(M[h]) : ~(i > Len(L[h]))
      BY <1>0
    <3> QED
      BY <3>1, <3>2
  <2>5. \A h \in Nat : \A i \in 1..Len(M[h]) : i > Len(L[h]) => Speaks(b, s, M[h][i], h)
    BY <2>4
  <2> QED
    BY <2>1, <2>2, <2>3, <2>5, StandsGrows
<1>7. Member(b, s, v, box, w, vs, S, M)
  BY <1>4, <1>5, <1>6 DEF Member
<1> QED
  BY <1>7 DEF M, log

\* A new view of the members T: its log is empty, and all that is known of the earlier
\* views stays true.
LEMMA MemberKnows ==
  ASSUME NEW b \in Address, NEW s, NEW v, NEW box, NEW w, NEW vs \in Nat,
         NEW S, NEW L, History(S, L), Member(b, s, v, box, w, vs, S, L),
         NEW T \in SUBSET Address
  PROVE  Member(b, s, v, box, w, vs + 1, [S EXCEPT ![vs + 1] = T], L)
<1> DEFINE R == [S EXCEPT ![vs + 1] = T]
<1>0. \A h \in Nat : h <= vs => R[h] = S[h]
  BY DEF History
<1> HIDE DEF R
<1>1. /\ box \in Seq(Post) /\ w \in Seq(Position) /\ Len(w) = Len(box) + 1 /\ Len(box) \in Nat
      /\ s.gid <= vs /\ s.gid \in Nat
  BY DEF Member, Shape, DaemonType
<1>2. Delivers(b, s, box, w, vs + 1, R, L)
  <2> SUFFICES ASSUME NEW i \in 1..Len(box)
               PROVE  LET q == w[i + 1]
                      IN  /\ q.view \in 1..(vs + 1) /\ b \in R[q.view]
                          /\ q.at = 0 => box[i] = ViewLetter(R, b, q.view) /\ q.view > s.gid
                          /\ q.at # 0 => /\ w[i].view = q.view /\ q.at \in 1..Len(L[q.view])
                                         /\ box[i] = L[q.view][q.at]
    BY DEF Delivers
  <2> DEFINE q == w[i + 1]
  <2>1. /\ q.view \in 1..vs /\ b \in S[q.view]
        /\ q.at = 0 => box[i] = ViewLetter(S, b, q.view) /\ q.view > s.gid
        /\ q.at # 0 => /\ w[i].view = q.view /\ q.at \in 1..Len(L[q.view])
                       /\ box[i] = L[q.view][q.at]
    BY DEF Member, Delivers
  <2> HIDE DEF q
  <2>2. q.view \in Nat /\ q.view <= vs /\ q.view \in 1..(vs + 1)
    BY <2>1
  <2>3. R[q.view] = S[q.view]
    BY <1>0, <2>2
  <2> QED
    BY <2>1, <2>2, <2>3 DEF q, ViewLetter
<1>3. Attached(b, s, v, box, w, vs + 1, R, L)
  <2>1. CASE v = NoView
    BY <2>1 DEF Member, Attached
  <2>2. CASE v # NoView
    <3>1. v.gid \in 1..vs
      BY <2>2 DEF Member, Attached
    <3>2. v.gid \in Nat /\ v.gid <= vs /\ v.gid \in 1..(vs + 1)
      BY <3>1
    <3>3. R[v.gid] = S[v.gid]
      BY <1>0, <3>2
    <3> QED
      BY <2>2, <3>2, <3>3 DEF Member, Attached
  <2> QED
    BY <2>1, <2>2
<1>4. Stands(b, s, w[1], R, L)
  <2>1. w[1] \in Position /\ Stands(b, s, w[1], S, L)
    BY <1>1 DEF Member
  <2>2. w[1].view \in Nat
    BY <2>1 DEF Position
  <2>3. w[1].view # 0 => w[1].view <= vs
    BY <1>1, <2>1 DEF Stands, Hearing
  <2>4. w[1].view # 0 => R[w[1].view] = S[w[1].view]
    BY <1>0, <2>2, <2>3
  <2> QED
    BY <2>1, <2>4 DEF Stands
<1>5. s.gid <= vs + 1
  BY <1>1
<1>6. Member(b, s, v, box, w, vs + 1, R, L)
  BY <1>2, <1>3, <1>4, <1>5 DEF Member
<1> QED
  BY <1>6 DEF R

\* A member of T gets the view.
LEMMA MemberJoins ==
  ASSUME NEW b \in Address, NEW s, NEW v \in Views, NEW box, NEW w, NEW vs \in Nat,
         NEW S, NEW L, History(S, L), Member(b, s, v, box, w, vs + 1, S, L),
         v.gid <= vs, b \in S[vs + 1], L[vs + 1] = <<>>, s.mbox, s.gid <= vs
  PROVE  Member(b, s, [gid |-> vs + 1, members |-> S[vs + 1]], Append(box, ViewLetter(S, b, vs + 1)),
                Append(w, [view |-> vs + 1, at |-> 0]), vs + 1, S, L)
<1> DEFINE p    == [view |-> vs + 1, at |-> 0]
           e    == ViewLetter(S, b, vs + 1)
           box2 == Append(box, e)
           w2   == Append(w, p)
           u    == [gid |-> vs + 1, members |-> S[vs + 1]]
<1>0. vs + 1 \in Nat /\ vs + 1 \in 1..(vs + 1)
  OBVIOUS
<1>1. /\ box \in Seq(Post) /\ w \in Seq(Position) /\ Len(w) = Len(box) + 1 /\ Len(box) \in Nat
      /\ w # <<>> /\ p \in Position /\ p.view = vs + 1 /\ p.at = 0
  BY <1>0 DEF Member, Position
<1>2. e \in Post
  <2>1. S[vs + 1] \in SUBSET Address
    BY <1>0 DEF History
  <2>2. Cardinality(S[vs + 1]) \in Nat /\ Rank(S[vs + 1], b) \in Nat \ {0}
    BY <2>1, RankNat
  <2> HIDE DEF p, box2, w2, u
  <2> QED
    BY <1>0, <2>2 DEF ViewLetter, Post, GroupMessage, ViewMessage
<1> HIDE DEF e
<1>3. /\ box2 \in Seq(Post) /\ Longer(box, box2, e)
      /\ w2 \in Seq(Position) /\ Longer(w, w2, p)
  BY <1>1, <1>2, AppendLonger
<1>4. u.gid = vs + 1 /\ u.members = S[vs + 1] /\ u # NoView
  BY <1>0 DEF NoView
<1> HIDE DEF box2, w2, p, u
<1>5. \A i \in 1..Len(w) : w[i] \in Position
  BY <1>1
<1>6. w[Len(w)].view \in Nat /\ w[Len(w)].view <= vs
  <2>1. CASE v = NoView
    BY <2>1 DEF Member, Attached, Outside
  <2>2. CASE v # NoView
    <3>1. w[Len(w)].view = v.gid /\ v.gid \in 1..(vs + 1)
      BY <2>2 DEF Member, Attached
    <3> QED
      BY <3>1
  <2> QED
    BY <2>1, <2>2
<1>7. Ordered(w2)
  <2>1. Ordered(w) /\ p.view > w[Len(w)].view
    BY <1>1, <1>6 DEF Member
  <2> QED
    BY <1>1, <1>3, <2>1, OrderedLonger
<1>8. Delivers(b, s, box2, w2, vs + 1, S, L)
  <2> SUFFICES ASSUME NEW i \in 1..Len(box2)
               PROVE  LET q == w2[i + 1]
                      IN  /\ q.view \in 1..(vs + 1) /\ b \in S[q.view]
                          /\ q.at = 0 => box2[i] = ViewLetter(S, b, q.view) /\ q.view > s.gid
                          /\ q.at # 0 => /\ w2[i].view = q.view /\ q.at \in 1..Len(L[q.view])
                                         /\ box2[i] = L[q.view][q.at]
    BY DEF Delivers
  <2>1. CASE i <= Len(box)
    <3>1. /\ i \in 1..Len(box) /\ box2[i] = box[i] /\ w2[i] = w[i] /\ w2[i + 1] = w[i + 1]
      BY <1>1, <1>3, <2>1 DEF Longer
    <3> QED
      BY <3>1 DEF Member, Delivers
  <2>2. CASE i = Len(box2)
    <3>1. box2[i] = e /\ w2[i + 1] = p
      BY <1>1, <1>3, <2>2 DEF Longer
    <3>2. p.view > s.gid
      <4>1. s.gid \in Nat
        BY DEF Member, Shape, DaemonType
      <4> QED
        BY <1>1, <4>1
    <3> QED
      BY <1>0, <1>1, <3>1, <3>2 DEF e
  <2> QED
    BY <1>1, <1>3, <2>1, <2>2 DEF Longer
<1>9. Attached(b, s, u, box2, w2, vs + 1, S, L)
  <2>1. w2[Len(w2)] = p
    BY <1>1, <1>3 DEF Longer
  <2>2. Len(L[vs + 1]) = 0
    OBVIOUS
  <2> QED
    BY <1>0, <1>4, <2>1, <2>2 DEF Attached, p
<1>10. Stands(b, s, w2[1], S, L)
  <2>1. w2[1] = w[1]
    BY <1>1, <1>3 DEF Longer
  <2> QED
    BY <2>1 DEF Member
<1>11. Member(b, s, u, box2, w2, vs + 1, S, L)
  BY <1>1, <1>3, <1>7, <1>8, <1>9, <1>10 DEF Member, Longer
<1> QED
  BY <1>11 DEF u, box2, w2, p, e
-----------------------------------------------------------------------------
(* The logs. *)

\* Identifiers of views only grow, so what letters say of their senders stays true.
LEMMA LogsLater ==
  ASSUME NEW nd, NEW S, NEW L, History(S, L), Logs(nd, S, L),
         \A x \in Address : nd[x].gid \in Nat,
         NEW nd2, \A x \in Address : nd2[x].gid \in Nat /\ nd2[x].gid >= nd[x].gid
  PROVE  Logs(nd2, S, L)
<1> SUFFICES ASSUME NEW g \in Nat, NEW i \in 1..Len(L[g]) PROVE Sane(L[g][i], g, S[g], nd2)
  BY DEF Logs
<1>1. Sane(L[g][i], g, S[g], nd)
  BY DEF Logs
<1>2. L[g] \in Seq(Letter) /\ S[g] \in SUBSET Address
  BY DEF History
<1>3. L[g][i] \in Letter
  BY <1>2
<1> DEFINE e == L[g][i]
<1> HIDE DEF e
<1>4. e.gid \in Nat /\ e.from \in Address
  BY <1>3 DEF e, Letter
<1> QED
  BY <1>1, <1>4 DEF e, Sane

\* A letter is put into the log of view g.
LEMMA LogsPost ==
  ASSUME NEW nd, NEW S, NEW L, History(S, L), Logs(nd, S, L),
         NEW g \in Nat, NEW e \in Letter, Sane(e, g, S[g], nd),
         Simple /\ e.body.kind = "balance" /\ e.gid = g =>
           Computed(e, L[g], Len(L[g]), Cardinality(S[g]), g),
         \A i \in 1..Len(L[g]) :
           Answer(L[g][i], g) /\ L[g][i].from = e.from => e.gid = g /\ ~Answer(e, g)
  PROVE  Logs(nd, S, [L EXCEPT ![g] = Append(@, e)])
<1> DEFINE log == Append(L[g], e)
           M   == [L EXCEPT ![g] = log]
<1>0. /\ L[g] \in Seq(Letter) /\ Len(L[g]) \in Nat
      /\ M[g] = log /\ \A h \in Nat : h # g => M[h] = L[h]
  BY DEF History
<1>1. Longer(L[g], log, e)
  BY <1>0, AppendLonger
<1> HIDE DEF log, M
<1> SUFFICES ASSUME NEW h \in Nat
             PROVE  /\ \A i \in 1..Len(M[h]) : Sane(M[h][i], h, S[h], nd)
                    /\ Answers(M[h], h)
                    /\ Simple => Balances(M[h], h, Cardinality(S[h]))
  BY DEF Logs, M, log
<1>2. CASE h # g
  BY <1>0, <1>2 DEF Logs
<1>3. CASE h = g
  <2>1. \A i \in 1..Len(log) : i \in 1..Len(L[g]) \/ i = Len(L[g]) + 1
    BY <1>0, <1>1 DEF Longer
  <2>2. \A i \in 1..Len(log) : Sane(log[i], g, S[g], nd)
    BY <1>1, <2>1 DEF Logs, Longer
  <2>3. Answers(log, g)
    <3> SUFFICES ASSUME NEW i \in 1..Len(log), NEW j \in 1..Len(log),
                        Answer(log[i], g), i < j, log[j].from = log[i].from
                 PROVE  log[j].gid = g /\ ~Answer(log[j], g)
      BY DEF Answers
    <3>1. i \in 1..Len(L[g]) /\ log[i] = L[g][i]
      BY <1>0, <1>1 DEF Longer
    <3>2. CASE j \in 1..Len(L[g])
      <4>1. log[j] = L[g][j] /\ Answers(L[g], g)
        BY <1>1, <3>2 DEF Longer, Logs
      <4> QED
        BY <3>1, <3>2, <4>1 DEF Answers
    <3>3. CASE j = Len(L[g]) + 1
      <4>1. log[j] = e
        BY <1>1, <3>3 DEF Longer
      <4> QED
        BY <3>1, <4>1
    <3> QED
      BY <2>1, <3>2, <3>3
  <2>4. ASSUME Simple PROVE Balances(log, g, Cardinality(S[g]))
    <3> DEFINE n == Cardinality(S[g])
    <3> SUFFICES ASSUME NEW i \in 1..Len(log), log[i].body.kind = "balance", log[i].gid = g
                 PROVE  Computed(log[i], log, i - 1, n, g)
      BY DEF Balances
    <3> HIDE DEF n
    <3>1. Extends(L[g], log)
      BY <1>0, <1>1 DEF Longer, Extends
    <3>2. CASE i \in 1..Len(L[g])
      <4>1. log[i] = L[g][i] /\ Balances(L[g], g, n)
        BY <1>1, <2>4, <3>2 DEF Longer, Logs, n
      <4>2. PICK x : /\ Reaches(x, n, L[g], i - 1, g)
                     /\ Moving(x, MovesRead(log[i].body)) /\ Aimed(x, MovesRead(log[i].body))
        BY <3>2, <4>1 DEF Balances, Computed
      <4>3. i - 1 \in Nat /\ i - 1 <= Len(L[g])
        BY <1>0, <3>2
      <4>4. Reaches(x, n, log, i - 1, g)
        BY <3>1, <4>2, <4>3, ReachesGrows
      <4> QED
        BY <4>2, <4>4 DEF Computed
    <3>3. CASE i = Len(L[g]) + 1
      <4>1. log[i] = e /\ i - 1 = Len(L[g])
        BY <1>0, <1>1, <3>3 DEF Longer
      <4>2. PICK x : /\ Reaches(x, n, L[g], Len(L[g]), g)
                     /\ Moving(x, MovesRead(e.body)) /\ Aimed(x, MovesRead(e.body))
        BY <2>4, <4>1 DEF Computed, n
      <4>3. Reaches(x, n, log, Len(L[g]), g)
        BY <1>0, <3>1, <4>2, ReachesGrows
      <4>4. Computed(e, log, Len(L[g]), n, g)
        BY <4>2, <4>3 DEF Computed
      <4> QED
        BY <4>1, <4>4
    <3> QED
      BY <2>1, <3>2, <3>3
  <2> QED
    BY <1>0, <1>3, <2>2, <2>3, <2>4
<1> QED
  BY <1>2, <1>3

-----------------------------------------------------------------------------
(* The steps of a daemon, in two parts: it changes, and then it may have posted. *)

\* What Core says of types.
LEMMA CoreTypes ==
  ASSUME NEW nd, NEW vw, NEW bx, NEW vs, NEW S, NEW L, NEW W, Core(nd, vw, bx, vs, S, L, W),
         NEW a \in Address
  PROVE  /\ Shape(a, nd[a]) /\ nd[a].gid \in Nat /\ nd[a].gid <= vs /\ nd[a].out = <<>>
         /\ vw[a] \in Views /\ bx[a] \in Seq(Post) /\ W[a] \in Seq(Position) /\ vs \in Nat
         /\ Member(a, nd[a], vw[a], bx[a], W[a], vs, S, L)
<1>1. Member(a, nd[a], vw[a], bx[a], W[a], vs, S, L)
  BY DEF Core
<1>2. nd[a].gid \in Nat
  BY <1>1 DEF Member, Shape, DaemonType
<1>3. vw[a] \in Views /\ bx[a] \in Seq(Post) /\ W[a] \in Seq(Position) /\ vs \in Nat
  BY DEF Core
<1> QED
  BY <1>1, <1>2, <1>3 DEF Member

\* Daemon a changes, with its view and its inbox.
LEMMA CoreChanges ==
  ASSUME NEW nd, NEW vw, NEW bx, NEW vs, NEW S, NEW L, NEW W, Core(nd, vw, bx, vs, S, L, W),
         NEW a \in Address, NEW t, t.gid >= nd[a].gid,
         NEW v \in Views, NEW box, NEW w, Member(a, t, v, box, w, vs, S, L)
  PROVE  Core([nd EXCEPT ![a] = t], [vw EXCEPT ![a] = v], [bx EXCEPT ![a] = box], vs, S, L,
              [W EXCEPT ![a] = w])
<1> DEFINE nd2 == [nd EXCEPT ![a] = t]
           vw2 == [vw EXCEPT ![a] = v]
           bx2 == [bx EXCEPT ![a] = box]
           W2  == [W EXCEPT ![a] = w]
<1>1. t \in DaemonType /\ t.gid \in Nat /\ box \in Seq(Post) /\ w \in Seq(Position)
  BY DEF Member, Shape, DaemonType
<1>2. /\ nd2 \in [Address -> DaemonType] /\ vw2 \in [Address -> Views]
      /\ bx2 \in [Address -> Seq(Post)] /\ W2 \in [Address -> Seq(Position)]
  BY <1>1 DEF Core
<1>3. /\ nd2[a] = t /\ vw2[a] = v /\ bx2[a] = box /\ W2[a] = w
      /\ \A b \in Address : b # a =>
           nd2[b] = nd[b] /\ vw2[b] = vw[b] /\ bx2[b] = bx[b] /\ W2[b] = W[b]
  BY DEF Core
<1> HIDE DEF nd2, vw2, bx2, W2
<1>4. \A b \in Address : Member(b, nd2[b], vw2[b], bx2[b], W2[b], vs, S, L)
  BY <1>3 DEF Core
<1>5. \A b \in Address : nd[b].gid \in Nat
  BY CoreTypes
<1>6. \A b \in Address : nd2[b].gid \in Nat /\ nd2[b].gid >= nd[b].gid
  BY <1>1, <1>3, <1>5
<1>7. Logs(nd2, S, L)
  BY <1>5, <1>6, LogsLater DEF Core
<1> QED
  BY <1>2, <1>4, <1>7 DEF Core, nd2, vw2, bx2, W2

\* The session of daemon a ends, or another begins.
LEMMA CoreLeaves ==
  ASSUME NEW nd, NEW vw, NEW bx, NEW vs, NEW S, NEW L, NEW W, Core(nd, vw, bx, vs, S, L, W),
         NEW a \in Address, NEW t, Shape(a, t), t.out = <<>>, t.mbox => ~t.mat,
         t.exit = "no" => Cleared(t) /\ (Plain => Firm(t)), t.gid >= nd[a].gid, t.gid <= vs
  PROVE  Core([nd EXCEPT ![a] = t], [vw EXCEPT ![a] = NoView], [bx EXCEPT ![a] = <<>>], vs, S, L,
              [W EXCEPT ![a] = <<Outside>>])
<1>1. vs \in Nat
  BY DEF Core
<1>2. Member(a, t, NoView, <<>>, <<Outside>>, vs, S, L)
  BY <1>1, MemberLeaves
<1>3. NoView \in Views
  BY DEF NoView, Views
<1> QED
  BY <1>2, <1>3, CoreChanges

\* The inboxes when daemon a has posted letter e.
Gets(vw, bx, a, e) == [b \in Address |-> bx[b] \o IF vw[b] = vw[a] THEN <<e>> ELSE <<>>]

\* A letter is posted by a daemon attached to view g.
LEMMA CorePosts ==
  ASSUME NEW nd, NEW vw, NEW bx, NEW vs, NEW S, NEW L, NEW W, Core(nd, vw, bx, vs, S, L, W),
         NEW a \in Address, vw[a] # NoView, NEW g, g = vw[a].gid,
         NEW e \in Letter, Sane(e, g, S[g], nd), Speaks(e.from, nd[e.from], e, g),
         Simple /\ e.body.kind = "balance" /\ e.gid = g =>
           Computed(e, L[g], Len(L[g]), Cardinality(S[g]), g),
         \A i \in 1..Len(L[g]) :
           Answer(L[g][i], g) /\ L[g][i].from = e.from => e.gid = g /\ ~Answer(e, g)
  PROVE  \E M, X : Core(nd, vw, Gets(vw, bx, a, e), vs, S, M, X)
<1> DEFINE bx2 == Gets(vw, bx, a, e)
           M   == [L EXCEPT ![g] = Append(@, e)]
           X   == [b \in Address |-> IF vw[b] = vw[a]
                                     THEN Append(W[b], [view |-> g, at |-> Len(L[g]) + 1])
                                     ELSE W[b]]
<1>1. /\ g \in Nat /\ g \in 1..vs /\ vs \in Nat /\ vw[a].members = S[g]
      /\ History(S, L) /\ L[g] \in Seq(Letter) /\ Len(L[g]) + 1 \in Nat
  <2>1. g \in 1..vs /\ vs \in Nat /\ vw[a].members = S[g] /\ History(S, L)
    BY DEF Core, Member, Attached
  <2>2. g \in Nat
    BY <2>1
  <2>3. L[g] \in Seq(Letter)
    BY <2>1, <2>2 DEF History
  <2> QED
    BY <2>1, <2>2, <2>3
<1>2. \A b \in Address : vw[b] = vw[a] <=> vw[b] # NoView /\ vw[b].gid = g
  <2> SUFFICES ASSUME NEW b \in Address, vw[b] # NoView, vw[b].gid = g PROVE vw[b] = vw[a]
    OBVIOUS
  <2>1. vw[b].members = S[g]
    BY DEF Core, Member, Attached
  <2>2. vw[a] \in Views /\ vw[b] \in Views
    BY DEF Core
  <2> QED
    BY <1>1, <2>1, <2>2 DEF Views
<1>3. e \in Post
  BY DEF Letter, Post, GroupMessage
<1>4. \A b \in Address :
        /\ bx[b] \in Seq(Post) /\ W[b] \in Seq(Position) /\ vw[b] \in Views
        /\ Member(b, nd[b], vw[b], bx[b], W[b], vs, S, L)
  BY DEF Core
<1>5. \A b \in Address : bx2[b] \in Seq(Post) /\ X[b] \in Seq(Position)
                          /\ Member(b, nd[b], vw[b], bx2[b], X[b], vs, S, M)
  <2> SUFFICES ASSUME NEW b \in Address
               PROVE  bx2[b] \in Seq(Post) /\ X[b] \in Seq(Position)
                      /\ Member(b, nd[b], vw[b], bx2[b], X[b], vs, S, M)
    OBVIOUS
  <2>0. Speaks(b, nd[b], e, g)
    BY DEF Speaks
  <2>1. CASE vw[b] = vw[a]
    <3>1. bx2[b] = Append(bx[b], e) /\ bx2[b] \in Seq(Post)
      BY <1>3, <1>4, <2>1, AppendLonger DEF Gets
    <3>2. X[b] = Append(W[b], [view |-> g, at |-> Len(L[g]) + 1])
      BY <2>1
    <3>3. [view |-> g, at |-> Len(L[g]) + 1] \in Position
      BY <1>1 DEF Position
    <3>4. X[b] \in Seq(Position)
      BY <1>4, <3>2, <3>3
    <3>5. Member(b, nd[b], vw[b], Append(bx[b], e), Append(W[b], [view |-> g, at |-> Len(L[g]) + 1]),
                 vs, S, M)
      BY <1>1, <1>2, <1>4, <2>0, <2>1, MemberGets
    <3> QED
      BY <3>1, <3>2, <3>4, <3>5
  <2>2. CASE vw[b] # vw[a]
    <3>1. bx2[b] = bx[b] /\ X[b] = W[b]
      BY <1>4, <2>2 DEF Gets
    <3>2. Member(b, nd[b], vw[b], bx[b], W[b], vs, S, M)
      BY <1>1, <1>2, <1>4, <2>0, <2>2, MemberMisses
    <3> QED
      BY <1>4, <3>1, <3>2
  <2> QED
    BY <2>1, <2>2
<1>6. History(S, M)
  <2>1. Append(L[g], e) \in Seq(Letter)
    BY <1>1
  <2> QED
    BY <1>1, <2>1 DEF History
<1>7. \A h \in Nat : h > vs => M[h] = <<>>
  <2>1. \A h \in Nat : h # g => M[h] = L[h]
    BY <1>1 DEF History
  <2>2. g <= vs
    BY <1>1
  <2> HIDE DEF M
  <2>3. \A h \in Nat : h > vs => h # g
    BY <1>1, <2>2
  <2> QED
    BY <2>1, <2>3 DEF Core
<1>8. Logs(nd, S, M)
  BY <1>1, LogsPost DEF Core
<1>9. bx2 \in [Address -> Seq(Post)] /\ X \in [Address -> Seq(Position)]
  <2> HIDE DEF M
  <2> QED
    BY <1>5 DEF Gets
<1> HIDE DEF M, X
<1>10. Core(nd, vw, bx2, vs, S, M, X)
  BY <1>5, <1>6, <1>7, <1>8, <1>9 DEF Core
<1> QED
  BY <1>10

\* A daemon is in its last view or in an earlier one, and a view it receives is new.
LEMMA MemberGid ==
  ASSUME NEW a, NEW s, NEW v \in Views, NEW box, NEW w, NEW vs \in Nat, NEW S, NEW L,
         Member(a, s, v, box, w, vs, S, L), v # NoView
  PROVE  /\ s.gid \in Nat /\ s.gid <= v.gid
         /\ box # <<>> => w[2] \in Position /\ w[2].view \in 1..vs /\ w[2].view <= v.gid
<1>1. /\ box \in Seq(Post) /\ w \in Seq(Position) /\ Len(w) = Len(box) + 1 /\ Len(box) \in Nat
      /\ s.gid \in Nat
  BY DEF Member, Shape, DaemonType
<1>2. w[Len(w)].view = v.gid /\ v.gid \in 1..vs
  BY DEF Member, Attached
<1>3. \A i \in 1..Len(w) : w[i] \in Position /\ w[i].view <= v.gid
  <2>1. \A i \in 1..Len(w) : w[i] \in Position
    BY <1>1
  <2>2. \A i \in 1..Len(w) : w[i].view <= w[Len(w)].view
    BY <1>1 DEF Member, Ordered
  <2> QED
    BY <1>2, <2>1, <2>2
<1>4. box # <<>> => w[2] \in Position /\ w[2].view \in 1..vs /\ w[2].view <= v.gid
  <2> SUFFICES ASSUME box # <<>> PROVE w[2] \in Position /\ w[2].view \in 1..vs /\ w[2].view <= v.gid
    OBVIOUS
  <2>1. 1 \in 1..Len(box) /\ 2 \in 1..Len(w)
    BY <1>1
  <2> QED
    BY <1>3, <2>1 DEF Member, Delivers
<1>5. s.gid <= v.gid
  <2>1. CASE w[1].view # 0
    BY <1>1, <1>3, <2>1 DEF Member, Stands, Hearing
  <2>2. CASE w[1].view = 0
    <3>1. box # <<>> /\ 1 \in 1..Len(box)
      BY <1>1, <1>2, <2>2
    <3>2. w[2].at = 0
      BY <1>4, <2>2, <3>1 DEF Member, Delivers
    <3>3. w[2].view > s.gid /\ w[2].view <= v.gid /\ w[2].view \in Nat
      BY <1>4, <3>1, <3>2 DEF Member, Delivers, Position
    <3> QED
      BY <1>1, <1>2, <3>3
  <2> QED
    BY <2>1, <2>2
<1> QED
  BY <1>1, <1>4, <1>5

\* What a daemon sent is a state message, a maturing message or a balance message.
LEMMA PostedLetter ==
  ASSUME NEW a, NEW t, Shape(a, t), Posted(t) # <<>>
  PROVE  \E e \in Letter, i \in DOMAIN t.out :
           /\ Posted(t) = <<e>> /\ e.from = a /\ e.gid = t.gid /\ e.body = t.out[i]
           /\ i \in Sent(t, "state") \cup Sent(t, "mature") \cup Sent(t, "balance")
<1> DEFINE sent == Sent(t, "state") \cup Sent(t, "mature") \cup Sent(t, "balance")
           i    == CHOOSE i \in sent : TRUE
           e    == Envelope(t, t.out[i])
<1>1. sent # {} /\ Posted(t) = <<e>>
  BY DEF Posted
<1>2. i \in sent
  BY <1>1
<1> HIDE DEF i
<1>3. i \in DOMAIN t.out /\ t.out[i] \in Output /\ t.out[i].kind \in {"state", "mature", "balance"}
  BY <1>2 DEF Sent, Shape, DaemonType
<1>4. t.out[i] \in Message
  BY <1>3 DEF Output, Leave, Join
<1>5. e \in Letter /\ e.from = a /\ e.gid = t.gid /\ e.body = t.out[i]
  BY <1>4 DEF Letter, Envelope, Shape, DaemonType
<1> QED
  BY <1>1, <1>2, <1>3, <1>5

\* The letter e that t posts to view g follows those that are in its log.
Fitting(e, t, g, T, log) ==
  /\ e.from = t.me /\ t.me \in T /\ e.gid = t.gid
  /\ e.body.kind = "state" =>
       /\ e.body.gid = e.gid /\ e.body.from = e.from /\ (e.gid = g => e.body.idx = Rank(T, e.from))
       /\ (t.mat => e.body.mat) /\ (Plain => PlainState(e.body))
       /\ Simple => DOMAIN e.body.claims = t.up
  /\ e.body.kind = "balance" /\ e.gid = g =>
       Rank(T, e.from) = 1 /\ (Simple => Computed(e, log, Len(log), Cardinality(T), g))
  /\ \A i \in 1..Len(log) :
       Answer(log[i], g) /\ log[i].from = e.from => e.gid = g /\ ~Answer(e, g)

\* What Core needs to know of a handler that leaves t: that the session is over, or where
\* the daemon stands then and what it posts.
Quits(a, s, t, vs) ==
  /\ Shape(a, t) /\ ~SameSession(t) /\ (t.mbox => ~t.mat) /\ t.gid >= s.gid /\ t.gid <= vs
  /\ t.exit = "no" => Cleared(t) /\ (Plain => Firm(t))

Quiet(t) == [t EXCEPT !.out = <<>>]

Continues(a, s, t, v, box, w, vs, S, L) ==
  /\ Shape(a, t) /\ SameSession(t) /\ t.gid >= s.gid
  /\ Member(a, Quiet(t), v, box, w, vs, S, L)
  /\ v # NoView => \A e \in Letter : Posted(t) = <<e>> => Fitting(e, t, v.gid, S[v.gid], L[v.gid])

\* A handler, as part of an action, with the history it leaves.
LEMMA HandleCore ==
  ASSUME NEW S, NEW L, NEW W, Core(node, view, inbox, views, S, L, W),
         NEW a \in Address, NEW H, NEW box, Handle(a, H, box), UNCHANGED views,
         \A t \in H : \/ Quits(a, node[a], t, views)
                      \/ \E w : Continues(a, node[a], t, view[a], box, w, views, S, L)
  PROVE  \E M, X : Core(node', view', inbox', views', S, M, X)
<1>1. PICK t \in H :
        /\ node' = [node EXCEPT ![a] = [t EXCEPT !.out = <<>>]]
        /\ IF SameSession(t)
           THEN /\ Posted(t) # <<>> => view[a] # NoView
                /\ inbox' = [b \in Address |->
                     (IF b = a THEN box ELSE inbox[b])
                       \o (IF view[b] = view[a] THEN Posted(t) ELSE <<>>)]
                /\ UNCHANGED <<view, faults>>
           ELSE /\ inbox' = [inbox EXCEPT ![a] = <<>>]
                /\ view' = [view EXCEPT ![a] = NoView]
  BY DEF Handle
<1>2. node' = [node EXCEPT ![a] = Quiet(t)] /\ views' = views
  BY <1>1 DEF Quiet
<1>3. CASE Quits(a, node[a], t, views)
  <2>1. /\ Shape(a, Quiet(t)) /\ Quiet(t).out = <<>> /\ (Quiet(t).mbox => ~Quiet(t).mat)
        /\ Quiet(t).gid >= node[a].gid /\ Quiet(t).gid <= views
    BY <1>3, OutboxOff DEF Quits, Quiet, Shape, DaemonType
  <2>5. Quiet(t).exit = "no" => Cleared(Quiet(t)) /\ (Plain => Firm(Quiet(t)))
    <3>1. /\ Quiet(t).exit = t.exit /\ Quiet(t).owner = t.owner /\ Quiet(t).prio = t.prio
          /\ Quiet(t).oldOwner = t.oldOwner /\ Quiet(t).oldPrio = t.oldPrio
          /\ Quiet(t).up = t.up /\ Quiet(t).mbox = t.mbox /\ Quiet(t).mine = t.mine
      BY <1>3 DEF Quits, Quiet, Shape, DaemonType
    <3> QED
      BY <1>3, <3>1 DEF Quits, Firm, Cleared
  <2>2. Core([node EXCEPT ![a] = Quiet(t)], [view EXCEPT ![a] = NoView], [inbox EXCEPT ![a] = <<>>],
             views, S, L, [W EXCEPT ![a] = <<Outside>>])
    BY <2>1, <2>5, CoreLeaves
  <2>3. /\ node' = [node EXCEPT ![a] = Quiet(t)] /\ view' = [view EXCEPT ![a] = NoView]
        /\ inbox' = [inbox EXCEPT ![a] = <<>>] /\ views' = views
    BY <1>1, <1>2, <1>3 DEF Quits
  <2>4. Core(node', view', inbox', views', S, L, [W EXCEPT ![a] = <<Outside>>])
    BY <2>2, <2>3
  <2> QED
    BY <2>4
<1>4. CASE \E w : Continues(a, node[a], t, view[a], box, w, views, S, L)
  <2> DEFINE s2  == Quiet(t)
             nd2 == [node EXCEPT ![a] = s2]
             bx2 == [inbox EXCEPT ![a] = box]
  <2>1. PICK w : Continues(a, node[a], t, view[a], box, w, views, S, L)
    BY <1>4
  <2>2. s2.gid = t.gid /\ s2.gid >= node[a].gid /\ s2.mat = t.mat /\ s2.up = t.up
    BY <2>1 DEF Continues, Quiet, Shape, DaemonType
  <2>3. Member(a, s2, view[a], box, w, views, S, L) /\ view[a] \in Views
    BY <2>1, CoreTypes DEF Continues
  <2>4. [view EXCEPT ![a] = view[a]] = view
    BY DEF Core
  <2>5. Core(nd2, view, bx2, views, S, L, [W EXCEPT ![a] = w])
    <3> HIDE DEF s2
    <3>1. Core(nd2, [view EXCEPT ![a] = view[a]], bx2, views, S, L, [W EXCEPT ![a] = w])
      BY <2>2, <2>3, CoreChanges
    <3> QED
      BY <2>4, <3>1
  <2>6. /\ inbox' = [b \in Address |-> bx2[b] \o (IF view[b] = view[a] THEN Posted(t) ELSE <<>>)]
        /\ view' = view /\ (Posted(t) # <<>> => view[a] # NoView)
    BY <1>1, <2>1 DEF Continues, Core
  <2>7. CASE Posted(t) = <<>>
    <3>1. \A b \in Address : bx2[b] \in Seq(Post)
      BY <2>5, CoreTypes
    <3>2. inbox' = bx2
      <4>1. \A b \in Address : bx2[b] \o <<>> = bx2[b]
        BY <3>1
      <4>2. inbox' = [b \in Address |-> bx2[b]]
        BY <2>6, <2>7, <4>1
      <4> QED
        BY <4>2 DEF Core
    <3> QED
      BY ZenonT(60), <1>2, <2>5, <2>6, <3>2
  <2>8. CASE Posted(t) # <<>>
    <3>1. Shape(a, t)
      BY <2>1 DEF Continues
    <3>2. PICK e \in Letter : Posted(t) = <<e>> /\ e.from = a /\ e.gid = t.gid
      BY <2>8, <3>1, PostedLetter
    <3> DEFINE g == view[a].gid
    <3>3. view[a] # NoView /\ Fitting(e, t, g, S[g], L[g])
      BY <2>1, <2>6, <2>8, <3>2 DEF Continues
    <3>4. nd2[a] = s2
      BY DEF Core
    <3>5. e.gid \in Nat
      BY DEF Letter
    <3>6. t.me = a
      BY <3>1 DEF Shape
    <3> HIDE DEF s2, nd2
    <3>7. Sane(e, g, S[g], nd2)
      BY <2>2, <3>2, <3>3, <3>4, <3>5, <3>6 DEF Sane, Fitting
    <3>9. \A i \in 1..Len(L[g]) :
            Answer(L[g][i], g) /\ L[g][i].from = e.from => e.gid = g /\ ~Answer(e, g)
      BY <3>3 DEF Fitting
    <3>12. Speaks(e.from, nd2[e.from], e, g)
      BY <2>2, <3>2, <3>3, <3>4 DEF Fitting, Answer, Speaks
    <3>15. Simple /\ e.body.kind = "balance" /\ e.gid = g =>
             Computed(e, L[g], Len(L[g]), Cardinality(S[g]), g)
      BY <3>3 DEF Fitting
    <3> HIDE DEF bx2
    <3>13. view[a] # NoView
      BY <3>3
    <3> HIDE DEF g
    <3>14. g = view[a].gid
      BY DEF g
    <3>8. \E M, X : Core(nd2, view, Gets(view, bx2, a, e), views, S, M, X)
      BY <2>5, <3>7, <3>9, <3>12, <3>13, <3>14, <3>15, CorePosts
    <3>10. node' = nd2 /\ view' = view /\ views' = views
      BY <1>2, <2>6 DEF nd2, s2
    <3>11. inbox' = Gets(view, bx2, a, e)
      BY <2>6, <3>2 DEF Gets
    <3> QED
      BY <3>8, <3>10, <3>11
  <2> QED
    BY <2>7, <2>8
<1> QED
  BY <1>1, <1>3, <1>4

-----------------------------------------------------------------------------
(* Timers and commands. *)

\* A letter that names an earlier view than its log comes before the answer of its
\* sender: a daemon that has answered the last view is in it.
LEMMA AnsweredGid ==
  ASSUME NEW nd, NEW vw, NEW bx, NEW vs, NEW S, NEW L, NEW W, Core(nd, vw, bx, vs, S, L, W),
         NEW a \in Address, vw[a] # NoView, NEW i \in 1..Len(L[vw[a].gid]),
         Answer(L[vw[a].gid][i], vw[a].gid), L[vw[a].gid][i].from = a
  PROVE  nd[a].gid = vw[a].gid
<1> DEFINE g == vw[a].gid
           l == L[g][i]
<1>1. g \in Nat /\ nd[a].gid \in Nat /\ nd[a].gid <= g
  <2>1. vw[a] \in Views /\ vs \in Nat /\ Member(a, nd[a], vw[a], bx[a], W[a], vs, S, L)
    BY CoreTypes
  <2> QED
    BY <2>1, MemberGid DEF Views
<1>2. Sane(l, g, S[g], nd)
  BY <1>1 DEF Core, Logs
<1> HIDE DEF l, g
<1>3. l.from = a /\ Answer(l, g)
  BY DEF l, g
<1>4. l.gid = g /\ l.gid <= nd[a].gid
  BY <1>2, <1>3 DEF Sane, Answer
<1>5. nd[a].gid = g
  BY <1>1, <1>4
<1> QED
  BY <1>5 DEF g

\* A daemon that stands at its index is a member.
LEMMA OwnIndex ==
  ASSUME NEW a \in Address, NEW s, NEW p, NEW T \in SUBSET Address, NEW log,
         Hearing(a, s, p, T, log)
  PROVE  s.idx \in DOMAIN s.ip
<1>1. a \in T /\ s.idx = Rank(T, a)
  BY DEF Hearing
<1>2. Cardinality(T) \in Nat /\ Rank(T, a) \in Nat /\ Rank(T, a) <= Cardinality(T) /\ Rank(T, a) # 0
  BY <1>1, RankNat
<1> QED
  BY <1>1, <1>2 DEF Hearing

\* A daemon in RUN has heard of all members, so what comes later in the log was sent
\* in this view, after the answers to it.
LEMMA HeardAll ==
  ASSUME NEW a \in Address, NEW s, Shape(a, s), s.state = "RUN", NEW w \in Position,
         NEW T \in SUBSET Address, NEW log \in Seq(Letter), Hearing(a, s, w, T, log),
         NEW j \in 1..Len(log), j > w.at, Answers(log, w.view), log[j].from \in T
  PROVE  log[j].gid = s.gid /\ ~Answer(log[j], w.view)
<1> DEFINE c == log[j].from
           k == Rank(T, c)
<1>1. /\ w.at \in Nat /\ s.gid = w.view
      /\ DOMAIN s.ip = 1..Cardinality(T) /\ s.pending = Cardinality(Unheard(s)) /\ s.pending = 0
  BY DEF Position, Hearing
<1>2. Unheard(s) = {}
  <2>1. Cardinality(T) \in Nat
    BY RankNat
  <2>2. IsFiniteSet(1..Cardinality(T)) /\ Unheard(s) \in SUBSET (1..Cardinality(T))
    BY <1>1, <2>1, FS_Interval DEF Unheard
  <2>3. IsFiniteSet(Unheard(s))
    BY <2>2, FS_Subset
  <2> QED
    BY <1>1, <2>3, FS_EmptySet
<1>3. c \in T /\ k \in DOMAIN s.ip
  <2>1. c \in T /\ c \in Address
    OBVIOUS
  <2>2. Cardinality(T) \in Nat /\ k \in Nat /\ k <= Cardinality(T) /\ k # 0
    BY <2>1, RankNat
  <2> QED
    BY <1>1, <2>1, <2>2
<1> HIDE DEF k, c
<1>4. s.ip[k] # NoAddr
  BY <1>2, <1>3 DEF Unheard
<1>5. s.ip[k] \in T /\ Rank(T, s.ip[k]) = k
  BY <1>3, <1>4 DEF Hearing
<1>6. PICK i \in 1..Len(log) : i <= w.at /\ log[i].from = s.ip[k] /\ Answer(log[i], w.view)
  BY <1>3, <1>4 DEF Hearing
<1>7. s.ip[k] = c
  BY <1>3, <1>5, RankOneToOne DEF k
<1>8. i < j /\ log[j].from = log[i].from /\ Answer(log[i], w.view)
  BY <1>1, <1>6, <1>7 DEF c
<1> QED
  BY <1>1, <1>6, <1>8 DEF Answers

\* A daemon in the last view that Spread has for it stands there, and what follows in the
\* log is what it has not read yet.
LEMMA StandsLast ==
  ASSUME NEW nd, NEW vw, NEW bx, NEW vs, NEW S, NEW L, NEW W, Core(nd, vw, bx, vs, S, L, W),
         NEW a \in Address, vw[a] # NoView, nd[a].gid = vw[a].gid
  PROVE  LET g == nd[a].gid
         IN  /\ W[a][1].view = g /\ W[a][1] \in Position /\ g \in Nat /\ g # 0
             /\ \A j \in 1..Len(L[g]) : j > W[a][1].at =>
                  \E i \in 1..Len(bx[a]) : bx[a][i] = L[g][j]
<1> DEFINE s == nd[a]
           v == vw[a]
           w == W[a]
           g == s.gid
           n == Len(bx[a])
<1>1. /\ bx[a] \in Seq(Post) /\ v \in Views /\ vs \in Nat /\ Member(a, s, v, bx[a], w, vs, S, L)
  BY CoreTypes
<1>2. /\ n \in Nat /\ Len(w) = n + 1 /\ w \in Seq(Position) /\ Ordered(w)
      /\ \A i \in 1..(n + 1) : w[i] \in Position
  BY <1>1 DEF Member
<1>3. g \in 1..vs /\ g \in Nat /\ g # 0 /\ v.gid = g
  BY <1>1 DEF Member, Attached
<1>4. w[n + 1] = [view |-> g, at |-> Len(L[g])]
  BY <1>1, <1>2, <1>3 DEF Member, Attached
<1>5. w[1].view # 0 => w[1].view = g
  BY <1>1 DEF Member, Stands, Hearing
<1>6. \A i \in 1..n : /\ w[i + 1].at = 0 => w[i + 1].view > g
                      /\ w[i + 1].at # 0 => /\ w[i].view = w[i + 1].view
                                            /\ bx[a][i] = L[w[i + 1].view][w[i + 1].at]
  BY <1>1 DEF Member, Delivers
<1> HIDE DEF s, v, w, g, n
<1>7. \A i, j \in 1..(n + 1) : i <= j =>
        /\ w[i].view <= w[j].view
        /\ w[i].view = w[j].view => w[j].at = w[i].at + (j - i)
  BY <1>2 DEF Ordered
<1>8. \A i \in 1..(n + 1) : w[i].view \in Nat /\ w[i].at \in Nat /\ w[i].view <= g
  <2>1. ASSUME NEW i \in 1..(n + 1) PROVE w[i].view \in Nat /\ w[i].at \in Nat /\ w[i].view <= g
    <3>1. n + 1 \in 1..(n + 1) /\ i <= n + 1
      BY <1>2
    <3>2. w[i].view <= w[n + 1].view
      BY <1>7, <3>1
    <3>3. w[n + 1].view = g
      BY <1>4
    <3> QED
      BY <1>2, <3>2, <3>3 DEF Position
  <2> QED
    BY <2>1
<1>9. \A i \in 1..n : w[i].view = w[i + 1].view /\ w[i + 1].at # 0
  <2>1. ASSUME NEW i \in 1..n PROVE w[i + 1].at # 0
    <3>1. i + 1 \in 1..(n + 1)
      BY <1>2
    <3> QED
      BY <1>3, <1>6, <1>8, <3>1
  <2> QED
    BY <1>6, <2>1
<1>10. w[1].view = g
  <2> DEFINE D == {i \in 1..(n + 1) : w[i].view = g}
             m == Min(D)
  <2>1. D # {} /\ D \in SUBSET Nat
    <3>1. n + 1 \in 1..(n + 1) /\ w[n + 1].view = g
      BY <1>2, <1>4
    <3> QED
      BY <3>1
  <2> HIDE DEF D
  <2>2. m \in D /\ \A i \in D : m <= i
    BY <2>1, HasMin
  <2> HIDE DEF m
  <2>3. m \in 1..(n + 1) /\ w[m].view = g
    BY <2>2 DEF D
  <2>4. CASE m = 1
    BY <2>3, <2>4
  <2>5. CASE m # 1
    <3>1. m - 1 \in 1..n /\ (m - 1) + 1 = m /\ m - 1 \in 1..(n + 1) /\ ~(m <= m - 1)
      BY <1>2, <2>3, <2>5
    <3>2. w[m - 1].view = w[(m - 1) + 1].view
      BY <1>9, <3>1
    <3>3. m - 1 \in D
      BY <2>3, <3>1, <3>2 DEF D
    <3> QED
      BY <2>2, <3>1, <3>3
  <2> QED
    BY <2>4, <2>5
<1>11. ASSUME NEW j \in 1..Len(L[g]), j > w[1].at
       PROVE  \E i \in 1..n : bx[a][i] = L[g][j]
  <2> DEFINE i == j - w[1].at
             k == w[1].at
  <2>1. 1 \in 1..(n + 1) /\ n + 1 \in 1..(n + 1) /\ 1 <= n + 1
    BY <1>2
  <2>2. w[1].view = w[n + 1].view /\ w[n + 1].at = Len(L[g])
    BY <1>4, <1>10
  <2>3. Len(L[g]) = w[1].at + ((n + 1) - 1) /\ w[1].at \in Nat
    BY <1>7, <1>8, <2>1, <2>2
  <2>4. i \in 1..n /\ i + 1 \in 1..(n + 1) /\ 1 <= i + 1
    BY <1>2, <1>11, <2>3
  <2>5. w[i + 1].view = g
    <3>1. w[1].view <= w[i + 1].view /\ w[i + 1].view <= g /\ w[i + 1].view \in Nat
      BY <1>7, <1>8, <2>1, <2>4
    <3> HIDE DEF i
    <3> QED
      BY <1>3, <1>10, <3>1
  <2>6. w[i + 1].at = w[1].at + ((i + 1) - 1)
    BY <1>7, <1>10, <2>1, <2>4, <2>5
  <2>7. w[1].at + ((i + 1) - 1) = j
    BY <2>3
  <2>8. bx[a][i] = L[w[i + 1].view][w[i + 1].at]
    BY <1>6, <1>9, <2>4
  <2> HIDE DEF i
  <2>9. bx[a][i] = L[g][j]
    BY <2>5, <2>6, <2>7, <2>8
  <2> QED
    BY <2>4, <2>9
<1> QED
  BY <1>2, <1>3, <1>10, <1>11 DEF s, w, g, n

\* A balance message of a is on its way to a.
UnderWay(a, box) == \E i \in 1..Len(box) : box[i].from = a /\ box[i].body.kind = "balance"

\* The member that balances is the first, and the moves it computes are still good when
\* they are ordered: nothing that changes a table is ordered before them.
LEMMA BalancePosts ==
  ASSUME NEW nd, NEW vw, NEW bx, NEW vs, NEW S, NEW L, NEW W, Core(nd, vw, bx, vs, S, L, W),
         NEW a \in Address, vw[a] # NoView, nd[a].gid = vw[a].gid,
         nd[a].state = "RUN", nd[a].idx = 1
  PROVE  LET g == nd[a].gid
         IN  /\ Rank(S[g], a) = 1
             /\ Simple /\ ~UnderWay(a, bx[a]) =>
                  \A e : e.body \in BalanceMessages(nd[a]) =>
                    Computed(e, L[g], Len(L[g]), Cardinality(S[g]), g)
<1> DEFINE s == nd[a]
           g == s.gid
           w == W[a][1]
           T == S[g]
           log == L[g]
           n == Cardinality(T)
           x == TableOf(s)
<1>1. /\ w.view = g /\ w \in Position /\ g \in Nat /\ g # 0
      /\ \A j \in 1..Len(log) : j > w.at => \E i \in 1..Len(bx[a]) : bx[a][i] = log[j]
  BY StandsLast
<1>2. Shape(a, s) /\ Member(a, s, vw[a], bx[a], W[a], vs, S, L)
  BY CoreTypes
<1>3. /\ T \in SUBSET Address /\ log \in Seq(Letter) /\ Answers(log, g)
      /\ \A i \in 1..Len(log) : Sane(log[i], g, T, nd)
  BY <1>1 DEF Core, History, Logs
<1>4. Hearing(a, s, w, T, log) /\ (Plain => Tabled(a, s, w, T, log))
  BY <1>1, <1>2 DEF Member, Stands
<1> HIDE DEF s, g, w, T, log
<1>5. Rank(T, a) = 1 /\ a \in T
  BY <1>4 DEF Hearing, s
<1>6. ASSUME Simple, NEW e, e.body \in BalanceMessages(s),
             ~UnderWay(a, bx[a])
      PROVE  Computed(e, log, Len(log), n, g)
  <2>1. Tabled(a, s, w, T, log) /\ w.at \in Nat /\ Len(log) \in Nat /\ Matured(a, s, w, log)
        /\ w.at <= Len(log) /\ Reaches(x, n, log, w.at, g)
    BY <1>1, <1>3, <1>4, <1>6 DEF Simple, Tabled, Position
  <2>2. s.state = "RUN"
    BY DEF s
  <2>3. Runs(x, log, w.at, g) /\ Heard(s)
    BY <1>1, <1>3, <1>4, <2>1, <2>2, TabledRuns
  <2>4. ASSUME NEW j \in 1..Len(log), j > w.at
        PROVE  ~Answer(log[j], g) /\ log[j].body.kind # "balance"
    <3>1. log[j].from \in T /\ log[j] \in Letter
      BY <1>3 DEF Sane
    <3>2. log[j].gid = g /\ ~Answer(log[j], g)
      BY <1>1, <1>2, <1>3, <1>4, <2>2, <2>4, <3>1, HeardAll DEF g
    <3>3. ASSUME log[j].body.kind = "balance" PROVE FALSE
      <4>1. Rank(T, log[j].from) = 1
        BY <1>3, <3>2, <3>3 DEF Sane
      <4>2. log[j].from = a
        BY <1>3, <1>5, <3>1, <4>1, RankOneToOne
      <4> QED
        BY <1>1, <1>6, <2>4, <3>3, <4>2 DEF UnderWay
    <3> QED
      BY <3>2, <3>3
  <2>5. x \in TableType
    BY <1>2, TableOfType
  <2>6. /\ OneToOne(s) /\ s.ip # <<>>
    <3>1. \A k \in DOMAIN s.ip : s.ip[k] \in T /\ Rank(T, s.ip[k]) = k
      BY <1>4, <2>3 DEF Hearing, Heard
    <3>2. s.idx \in DOMAIN s.ip
      BY <1>3, <1>4, OwnIndex
    <3> QED
      BY <3>1, <3>2 DEF OneToOne
  <2>7. Moving(s, MovesRead(e.body)) /\ Aimed(s, MovesRead(e.body))
    BY <1>2, <1>6, <2>3, <2>6, BalanceMessagesPlay
  <2>8. Moving(x, MovesRead(e.body)) /\ Aimed(x, MovesRead(e.body))
    <3>1. x.owner = s.owner /\ x.ip = s.ip
      BY DEF TableOf
    <3> HIDE DEF x
    <3> QED
      BY <2>7, <3>1 DEF Moving, Aimed, OwnerFound
  <2> HIDE DEF x, n
  <2>9. Reaches(x, n, log, Len(log), g)
    BY <1>3, <2>1, <2>3, <2>4, <2>5, ReachesIdle
  <2> QED
    BY <2>8, <2>9 DEF Computed
<1> QED
  BY <1>5, <1>6 DEF s, g, T, log

\* Daemon t has the tables of s, and what s knows of its view.
AsBefore(s, t) ==
  /\ t.me = s.me /\ t.mbox = s.mbox /\ t.mat = s.mat /\ t.gid = s.gid /\ t.idx = s.idx
  /\ t.ip = s.ip /\ t.pending = s.pending /\ t.state = s.state /\ t.exit = s.exit
  /\ t.up = s.up /\ t.mine = s.mine
  /\ t.owner = s.owner /\ t.prio = s.prio /\ t.num = s.num
  /\ t.oldOwner = s.oldOwner /\ t.oldPrio = s.oldPrio
  /\ "balance" \notin StaleKinds => t.mess \in {s.mess, Junk}

\* Such a daemon stands where s stood.
LEMMA StandsSame ==
  ASSUME NEW a, NEW s, NEW t, NEW p, NEW S, NEW L, Stands(a, s, p, S, L), AsBefore(s, t)
  PROVE  Stands(a, t, p, S, L)
<1> DEFINE T == S[p.view]
           log == L[p.view]
<1>1. Hearing(a, s, p, T, log) => Hearing(a, t, p, T, log)
  BY DEF Hearing, Unheard, AsBefore
<1>2. Firm(s) => Firm(t)
  BY DEF Firm, AsBefore
<1>3. ASSUME Plain, Tabled(a, s, p, T, log) PROVE Tabled(a, t, p, T, log)
  <2> HIDE DEF T, log
  <2>1. TableOf(t) = TableOf(s)
    BY DEF TableOf, AsBefore
  <2>2. Matured(a, t, p, log)
    BY <1>3 DEF Tabled, Matured, AsBefore
  <2>3. t.mess.kind # "balance"
    BY <1>3 DEF Tabled, Tidy, Plain, AsBefore, Junk
  <2>4. Tidy(t)
    <3>1. Tidy(s)
      BY <1>3 DEF Tabled
    <3> QED
      BY <1>2, <2>3, <3>1 DEF Tidy, Unpreferred, Decided, LoadsTold, AsBefore
  <2> QED
    BY <1>3, <2>1, <2>2, <2>4 DEF Tabled
<1>4. Cleared(s) => Cleared(t)
  BY DEF Cleared, AsBefore
<1>5. ASSUME Serves(a, s, p.view, log) PROVE Serves(a, t, p.view, log)
  <2> HIDE DEF log
  <2>1. Held(t) = Held(s) /\ Owned(t) = Owned(s)
    BY DEF Held, Owned, AsBefore
  <2>2. (Expecting(s) => Expecting(t)) /\ (Holding(s) => Holding(t)) /\ (Counted(s) => Counted(t))
    BY <2>1 DEF Expecting, Holding, Counted, AsBefore
  <2>3. TableOf(t) = TableOf(s)
    BY DEF TableOf, AsBefore
  <2>4. ClaimsUp(a, s, p.view, log) => ClaimsUp(a, t, p.view, log)
    BY DEF ClaimsUp, AsBefore
  <2>5. t.ip = s.ip /\ t.idx = s.idx /\ t.state = s.state /\ t.up = s.up
    BY DEF AsBefore
  <2> QED
    BY <1>5, <2>1, <2>2, <2>3, <2>4, <2>5 DEF Serves
<1>6. p.view = 0 => ((s.mbox => ~s.mat) <=> (t.mbox => ~t.mat)) /\ t.exit = s.exit
  BY DEF AsBefore
<1> QED
  BY <1>1, <1>2, <1>3, <1>4, <1>5, <1>6 DEF Stands

\* A daemon whose session ended owns nothing and has nothing up.
LEMMA EndedClears ==
  ASSUME NEW s, NEW t, Ended(s, t), t.exit = "no"
  PROVE  Cleared(t) /\ Firm(t)
  BY DEF Ended, Cleared, Firm, Nobody

\* The balance message that daemon t posts is computed by s, which is in RUN and the first;
\* where it may have one under way only, it has none.
Offers(s, t, box) ==
  \A i \in Sent(t, "balance") :
    /\ s.state = "RUN" /\ s.idx = 1 /\ t.out[i] \in BalanceMessages(s)
    /\ Simple => ~UnderWay(s.me, box)

\* What a timer or a command leaves: the session is over, or the daemon stays where it
\* stands and sends no state message.
LEMMA KeptMoves ==
  ASSUME NEW nd, NEW vw, NEW bx, NEW vs, NEW S, NEW L, NEW W, Core(nd, vw, bx, vs, S, L, W),
         NEW a \in Address, NEW t, Shape(a, t), t.gid = nd[a].gid,
         Ended(nd[a], t) \/ (Kept(nd[a], t) /\ Offers(nd[a], t, bx[a]))
  PROVE  \/ Quits(a, nd[a], t, vs)
         \/ \E w : Continues(a, nd[a], t, vw[a], bx[a], w, vs, S, L)
<1> DEFINE s == nd[a]
           v == vw[a]
           q == Quiet(t)
<1>1. /\ Shape(a, s) /\ s.gid \in Nat /\ s.gid <= vs /\ s.out = <<>> /\ v \in Views
      /\ vs \in Nat /\ Member(a, s, v, bx[a], W[a], vs, S, L)
  BY CoreTypes
<1>2. CASE Ended(s, t)
  BY <1>1, <1>2, EndedClears DEF Quits, Ended, SameSession
<1>3. CASE Kept(s, t) /\ Offers(s, t, bx[a])
  <2>1. /\ t.mbox = s.mbox /\ t.mat = s.mat /\ t.idx = s.idx /\ t.ip = s.ip
        /\ t.pending = s.pending /\ t.state = s.state /\ SameSession(t) /\ Sent(t, "state") = {}
        /\ t.exit = s.exit
    BY <1>1, <1>3 DEF Kept, Same, Shape, DaemonType
  <2>2. Shape(a, q)
    BY OutboxOff DEF Quiet
  <2>3. /\ q.out = <<>> /\ q.gid = s.gid /\ q.mbox = s.mbox /\ q.mat = s.mat /\ q.idx = s.idx
        /\ q.ip = s.ip /\ q.pending = s.pending /\ q.state = s.state /\ q.exit = s.exit
    BY <2>1 DEF Quiet, Shape, DaemonType
  <2>8. /\ q.owner = t.owner /\ q.prio = t.prio /\ q.num = t.num /\ q.oldOwner = t.oldOwner
        /\ q.oldPrio = t.oldPrio /\ q.mess = t.mess /\ q.up = t.up /\ q.mine = t.mine
    BY DEF Quiet, Shape, DaemonType
  <2>10. q.me = s.me
    BY <1>1, <2>2 DEF Shape
  <2> HIDE DEF q, s
  <2>9. AsBefore(s, q)
    BY <1>3, <2>3, <2>8, <2>10 DEF Kept, SameTables, AsBefore
  <2>4. Stands(a, q, W[a][1], S, L)
    BY <1>1, <2>9, StandsSame DEF Member
  <2>5. Member(a, q, v, bx[a], W[a], vs, S, L)
    BY <1>1, <2>2, <2>3, <2>4, MemberStays
  <2>6. ASSUME v # NoView, NEW e \in Letter, Posted(t) = <<e>>
        PROVE  Fitting(e, t, v.gid, S[v.gid], L[v.gid])
    <3>1. PICK f \in Letter, i \in DOMAIN t.out :
             /\ Posted(t) = <<f>> /\ f.from = a /\ f.gid = t.gid /\ f.body = t.out[i]
             /\ i \in Sent(t, "state") \cup Sent(t, "mature") \cup Sent(t, "balance")
      BY <2>6, PostedLetter
    <3>2. e = f
      BY <2>6, <3>1
    <3>3. e.from = a /\ e.gid = t.gid /\ e.body.kind # "state"
      BY <2>1, <3>1, <3>2 DEF Sent
    <3>4. t.me = a /\ a \in S[v.gid]
      BY <1>1, <2>6 DEF Shape, Member, Attached
    <3>5. \A k \in 1..Len(L[v.gid]) :
            Answer(L[v.gid][k], v.gid) /\ L[v.gid][k].from = a => s.gid = v.gid
      BY <2>6, AnsweredGid DEF s
    <3>6. ASSUME e.body.kind = "balance", e.gid = v.gid
          PROVE  /\ Rank(S[v.gid], e.from) = 1
                 /\ Simple => Computed(e, L[v.gid], Len(L[v.gid]), Cardinality(S[v.gid]), v.gid)
      <4>1. i \in Sent(t, "balance")
        BY <3>1, <3>2, <3>6 DEF Sent
      <4>2. /\ s.state = "RUN" /\ s.idx = 1 /\ e.body \in BalanceMessages(s) /\ s.me = a
            /\ Simple => ~UnderWay(a, bx[a])
        BY <1>1, <1>3, <3>1, <3>2, <4>1 DEF Offers, Shape
      <4>3. s.gid = v.gid
        BY <3>3, <3>6 DEF s
      <4> QED
        BY <2>6, <3>3, <4>2, <4>3, BalancePosts DEF s
    <3> QED
      BY <3>3, <3>4, <3>5, <3>6 DEF Fitting, Answer, s
  <2>7. Continues(a, s, t, v, bx[a], W[a], vs, S, L)
    BY <1>1, <2>1, <2>5, <2>6 DEF Continues, q, s
  <2> QED
    BY <2>7 DEF s
<1> QED
  BY <1>2, <1>3

-----------------------------------------------------------------------------
(* What a daemon receives. *)

\* A daemon that a view sends to GATHER has frozen a table that claims firmly.
LEMMA GathersFirm ==
  ASSUME Plain, NEW a, NEW s, s.exit = "no", NEW p, NEW S, NEW L, Stands(a, s, p, S, L),
         NEW m, NEW t, Gathers(s, m, t)
  PROVE  Firm(t)
<1>1. Firm(s)
  BY DEF Stands, Tabled, Tidy
<1>2. Froze(s, t)
  BY DEF Gathers
<1> QED
  BY <1>1, <1>2 DEF Firm, Froze, Nobody

\* Its tables are those at the beginning of the view, which it has not answered yet.
LEMMA GathersTabled ==
  ASSUME NEW a, NEW s, NEW t, Shape(a, t), NEW m, Gathers(s, m, t), Firm(t),
         NEW p \in Position, p.at = 0, NEW T, Cardinality(T) \in Nat, m.n = Cardinality(T),
         NEW log \in Seq(Letter),
         \A i \in 1..Len(log) : Answer(log[i], p.view) => log[i].from # a
  PROVE  Tabled(a, Quiet(t), p, T, log)
<1> DEFINE q == Quiet(t)
           n == Cardinality(T)
<1>1. /\ t.state = "GATHER" /\ t.ip = [k \in 1..n |-> NoAddr] /\ t.num = [k \in 1..n |-> 0]
      /\ t.owner = Nobody /\ t.prio = [v \in Vip |-> UNCLAIMED] /\ t.mess = Junk
  BY DEF Gathers, Froze
<1>2. /\ q.state = t.state /\ q.ip = t.ip /\ q.num = t.num /\ q.owner = t.owner /\ q.prio = t.prio
      /\ q.mess = t.mess /\ q.oldOwner = t.oldOwner /\ q.oldPrio = t.oldPrio
  BY DEF Quiet, Shape, DaemonType
<1> HIDE DEF q, n
<1>3. Tidy(q)
  <2>1. Firm(q)
    BY <1>2 DEF Firm
  <2>2. Unpreferred(q) /\ q.mess.kind # "balance"
    BY <1>1, <1>2 DEF Unpreferred, Junk
  <2>3. LoadsTold(q)
    BY <1>1, <1>2 DEF LoadsTold, Nobody
  <2> QED
    BY <1>1, <1>2, <2>1, <2>2, <2>3 DEF Tidy
<1>4. Matured(a, q, p, log)
  <2>1. ~Ripe(log, p.at, p.view)
    BY DEF Ripe
  <2> QED
    BY <1>1, <1>2, <2>1 DEF Matured
<1>5. TableOf(q) = Blank(n)
  BY <1>1, <1>2 DEF TableOf, Blank
<1>6. Reaches(TableOf(q), n, log, p.at, p.view)
  BY <1>5, ReachesBlank DEF n
<1>7. p.at <= Len(log)
  OBVIOUS
<1> QED
  BY <1>3, <1>4, <1>6, <1>7 DEF Tabled, q, n

\* What is frozen is up, wherever the daemon stands.
LEMMA FrozenUp ==
  ASSUME Simple, NEW a \in Address, NEW s, Shape(a, s), s.exit = "no", s.mbox,
         NEW p \in Position, NEW S, NEW L, Stands(a, s, p, S, L), S[p.view] \in SUBSET Address
  PROVE  Counted(s) /\ Frozen(s) \subseteq s.up
<1> DEFINE T == S[p.view]
           log == L[p.view]
<1>1. s.me = a /\ a # NoAddr
  BY AddressAssumption DEF Shape
<1>2. CASE p.view = 0
  <2>1. Cleared(s)
    BY <1>2 DEF Stands
  <2>2. Counted(s)
    BY <2>1, FS_EmptySet DEF Cleared, Counted
  <2>3. Held(s) = {} /\ Owned(s) = {}
    BY <1>1, <2>1 DEF Cleared, Held, Owned, Nobody
  <2> QED
    BY <2>2, <2>3 DEF Frozen
<1>3. CASE p.view # 0
  <2>1. Hearing(a, s, p, T, log) /\ Serves(a, s, p.view, log) /\ Matured(a, s, p, log)
    BY <1>3 DEF Stands, Simple, Tabled
  <2> HIDE DEF T, log
  <2>2. CASE s.ip[s.idx] = NoAddr
    <3>1. s.idx \in DOMAIN s.ip
      <4>1. T \in SUBSET Address /\ a \in T
        BY <2>1 DEF T, Hearing
      <4>2. Rank(T, a) \in 1..Cardinality(T)
        BY <4>1, RankNat
      <4> QED
        BY <2>1, <4>2 DEF Hearing
    <3>2. T \in SUBSET Address
      BY DEF T
    <3>3. s.state = "GATHER"
      BY <2>1, <2>2, <3>1, <3>2, TabledRuns DEF Heard
    <3> QED
      BY <2>1, <2>2, <3>3 DEF Serves, Expecting, Frozen
  <2>3. CASE s.ip[s.idx] # NoAddr
    <3>1. IF s.state = "RUN" THEN s.up = Owned(s) ELSE Holding(s)
      BY <2>1, <2>3 DEF Serves
    <3> QED
      BY <2>1, <3>1 DEF Serves, Holding, Frozen
  <2> QED
    BY <2>2, <2>3
<1> QED
  BY <1>2, <1>3

\* So by the assertion of Send_state_message all that is up is frozen.
LEMMA GathersUp ==
  ASSUME Simple, NEW a \in Address, NEW s, Shape(a, s), s.exit = "no", s.mbox,
         NEW p \in Position, NEW S, NEW L, Stands(a, s, p, S, L), S[p.view] \in SUBSET Address,
         NEW m, NEW t, Shape(a, t), Gathers(s, m, t)
  PROVE  Held(t) = t.up /\ Counted(t)
<1>1. Counted(s) /\ Frozen(s) \subseteq s.up
  BY FrozenUp
<1>2. t.up = s.up /\ t.mine = s.mine /\ Cardinality(Held(t)) = t.mine /\ t.me = s.me
  BY DEF Gathers, Froze, Shape
<1>3. Held(t) = Frozen(s)
  BY <1>2 DEF Gathers, Froze, Frozen, Held, Owned
<1>4. s.up \in SUBSET Vip
  BY DEF Shape, DaemonType
<1>5. IsFiniteSet(s.up)
  BY <1>4, VipFinite
<1>6. Held(t) \in SUBSET s.up /\ Cardinality(Held(t)) = Cardinality(s.up)
  BY <1>1, <1>2, <1>3 DEF Counted
<1>7. Held(t) = s.up
  BY <1>5, <1>6, FS_Subset
<1> QED
  BY <1>2, <1>6, <1>7 DEF Counted

\* It waits for its own answer, which will claim that.
LEMMA GathersServes ==
  ASSUME NEW a, NEW s, NEW t, Shape(a, t), NEW m, m.idx \in 1..m.n, Gathers(s, m, t),
         a \in Address, Held(t) = t.up, Counted(t), NEW g, NEW log,
         \A i \in 1..Len(log) : Answer(log[i], g) => log[i].from # a
  PROVE  Serves(a, Quiet(t), g, log)
<1> DEFINE q == Quiet(t)
<1>1. /\ t.state = "GATHER" /\ t.ip = [k \in 1..m.n |-> NoAddr] /\ t.idx = m.idx
      /\ t.owner = Nobody /\ t.prio = [v \in Vip |-> UNCLAIMED] /\ t.me # NoAddr
  BY AddressAssumption DEF Gathers, Froze, Shape
<1>2. /\ q.state = t.state /\ q.ip = t.ip /\ q.idx = t.idx /\ q.owner = t.owner /\ q.prio = t.prio
      /\ q.oldOwner = t.oldOwner /\ q.up = t.up /\ q.mine = t.mine /\ q.me = t.me
  BY DEF Quiet, Shape, DaemonType
<1> HIDE DEF q
<1>3. q.ip[q.idx] = NoAddr
  BY <1>1, <1>2
<1>4. Counted(q)
  BY <1>2 DEF Counted
<1>5. Held(q) = Held(t) /\ Owned(q) = {}
  BY <1>1, <1>2 DEF Held, Owned, Nobody
<1>6. Expecting(q)
  BY <1>2, <1>5 DEF Expecting
<1>7. Backed(TableOf(q))
  BY <1>1, <1>2 DEF Backed, TableOf, Nobody
<1>8. ClaimsUp(a, q, g, log)
  BY DEF ClaimsUp
<1> QED
  BY <1>3, <1>4, <1>6, <1>7, <1>8 DEF Serves, q

\* A view: the daemon stands at its beginning, has heard of nobody, and answers it.
LEMMA ViewMoves ==
  ASSUME NEW nd, NEW vw, NEW bx, NEW vs, NEW S, NEW L, NEW W, Core(nd, vw, bx, vs, S, L, W),
         NEW a \in Address, nd[a].exit = "no", bx[a] # <<>>, vw[a] # NoView, W[a][2].at = 0,
         NEW t \in Receive(nd[a], bx[a][1].body), Shape(a, t)
  PROVE  \/ Quits(a, nd[a], t, vs)
         \/ \E w : Continues(a, nd[a], t, vw[a], Tail(bx[a]), w, vs, S, L)
<1> DEFINE s == nd[a]
           v == vw[a]
           w == W[a]
           p == w[2]
           T == S[p.view]
           n == Cardinality(T)
           m == bx[a][1].body
           q == Quiet(t)
<1>1. /\ Shape(a, s) /\ s.gid \in Nat /\ s.gid <= vs /\ s.out = <<>> /\ v \in Views
      /\ vs \in Nat /\ bx[a] \in Seq(Post) /\ History(S, L) /\ Member(a, s, v, bx[a], w, vs, S, L)
  <2>1. History(S, L)
    BY DEF Core
  <2> QED
    BY <2>1, CoreTypes
<1>2. p \in Position /\ p.view \in 1..vs /\ p.view <= v.gid
  BY <1>1, MemberGid
<1>3. p.view \in Nat /\ p.view # 0 /\ v.gid \in Nat
  BY <1>1, <1>2 DEF Position, Views
<1>4. a \in T /\ bx[a][1] = ViewLetter(S, a, p.view) /\ p.view > s.gid
  <2>1. 1 \in 1..Len(bx[a])
    BY <1>1
  <2> QED
    BY <1>1, <2>1 DEF Member, Delivers
<1>5. n \in Nat /\ n # 0 /\ Rank(T, a) \in Nat \ {0}
  <2>1. T \in SUBSET Address
    BY <1>1, <1>3 DEF History
  <2>2. n \in Nat /\ Rank(T, a) \in Nat /\ Rank(T, a) <= n /\ Rank(T, a) # 0
    BY <1>4, <2>1, RankNat
  <2> QED
    BY <2>2
<1>6. m \in ViewMessage /\ m.gid = p.view /\ m.n = n /\ m.idx = Rank(T, a)
  BY <1>3, <1>4, <1>5 DEF ViewLetter, ViewMessage
<1> HIDE DEF s, v, w, p, T, n, m, q
<1>7. t \in Receive(s, m) /\ s.exit = "no"
  BY DEF s, m
<1>8. t.gid = p.view /\ (Ended(s, t) \/ Gathers(s, m, t))
  BY <1>1, <1>6, <1>7, ReceiveGathers, ReceiveViewGid
<1>9. CASE Ended(s, t)
  <2>1. t.gid >= s.gid /\ t.gid <= vs
    BY <1>1, <1>2, <1>3, <1>4, <1>8
  <2>2. Quits(a, s, t, vs)
    BY <1>9, <2>1, EndedClears DEF Quits, Ended, SameSession
  <2> QED
    BY <2>2 DEF s
<1>10. CASE Gathers(s, m, t)
  <2>1. Shape(a, q)
    BY OutboxOff DEF q, Quiet
  <2>2. /\ q.out = <<>> /\ q.gid = p.view /\ q.mbox = t.mbox /\ q.mat = s.mat
        /\ q.idx = Rank(T, a) /\ q.ip = [k \in 1..n |-> NoAddr] /\ q.pending = n
        /\ q.state = "GATHER"
    BY <1>6, <1>8, <1>10 DEF Gathers, q, Quiet, Shape, DaemonType
  <2>3. q.mbox = s.mbox
    BY <1>1, <1>10, <2>2 DEF Gathers, Member, Attached, v
  <2>4. Unheard(q) = 1..n /\ Cardinality(1..n) = n
    <3>1. Unheard(q) = 1..n
      BY <2>2 DEF Unheard
    <3>2. Cardinality(1..n) = n
      BY <1>5, FS_Interval
    <3> QED
      BY <3>1, <3>2
  <2>5. Hearing(a, q, p, T, L[p.view])
    <3>1. DOMAIN q.ip = 1..Cardinality(T) /\ \A k \in DOMAIN q.ip : q.ip[k] = NoAddr
      BY <2>2 DEF n
    <3>2. q.pending = Cardinality(Unheard(q)) /\ q.pending # 0
      BY <1>5, <2>2, <2>4
    <3> QED
      BY <1>4, <2>2, <3>1, <3>2 DEF Hearing
  <2>11. Plain => Firm(t)
    BY <1>1, <1>7, <1>10, GathersFirm DEF Member
  <2>13. \A i \in 1..Len(L[p.view]) : Answer(L[p.view][i], p.view) => L[p.view][i].from # a
    <3>1. \A i \in 1..Len(L[p.view]) : Sane(L[p.view][i], p.view, S[p.view], nd)
      BY <1>3 DEF Core, Logs
    <3> QED
      BY <1>1, <1>3, <1>4, <3>1 DEF Sane, Answer, s
  <2>14. ASSUME Simple PROVE Held(t) = t.up /\ Counted(t)
    <3>1. s.mbox /\ w[1] \in Position /\ Stands(a, s, w[1], S, L)
      <4>1. 1 \in 1..Len(w)
        BY <1>1 DEF Member
      <4> QED
        BY <1>1, <4>1 DEF Member, Attached, v
    <3>2. S[w[1].view] \in SUBSET Address
      BY <1>1, <3>1 DEF History, Position
    <3> QED
      BY <1>1, <1>7, <1>10, <2>14, <3>1, <3>2, GathersUp
  <2>15. Simple => Serves(a, q, p.view, L[p.view])
    <3>1. m.idx \in 1..m.n
      <4>1. T \in SUBSET Address
        BY <1>1, <1>3 DEF History, T
      <4>2. Rank(T, a) <= n
        BY <1>4, <4>1, RankNat DEF n
      <4> QED
        BY <1>5, <1>6, <4>2
    <3> QED
      BY <1>10, <2>13, <2>14, <3>1, GathersServes DEF q
  <2>12. Plain => Tabled(a, q, p, T, L[p.view])
    <3>1. p.at = 0 /\ L[p.view] \in Seq(Letter)
      BY <1>1, <1>3 DEF History, p, w
    <3> QED
      BY <1>2, <1>5, <1>6, <1>10, <2>11, <2>13, <3>1, GathersTabled DEF q, n
  <2>6. Stands(a, q, p, S, L)
    BY <1>3, <2>5, <2>12, <2>15 DEF Stands, T
  <2>7. Member(a, q, v, Tail(bx[a]), Tail(w), vs, S, L)
    BY <1>1, <2>1, <2>2, <2>3, <2>6, MemberTakes DEF p
  <2>8. ASSUME NEW e \in Letter, Posted(t) = <<e>>
        PROVE  Fitting(e, t, v.gid, S[v.gid], L[v.gid])
    <3>1. PICK f \in Letter, i \in DOMAIN t.out :
             /\ Posted(t) = <<f>> /\ f.from = a /\ f.gid = t.gid /\ f.body = t.out[i]
             /\ i \in Sent(t, "state") \cup Sent(t, "mature") \cup Sent(t, "balance")
      BY <2>8, PostedLetter
    <3>2. e = f
      BY <2>8, <3>1
    <3>3. i \in Sent(t, "state")
      BY <1>10, <3>1 DEF Gathers
    <3>4. /\ e.from = a /\ e.gid = p.view /\ e.body.idx = Rank(T, a) /\ e.body.gid = p.view
          /\ e.body.from = t.me /\ Announces(t, e.body)
      <4>1. t.out[i].idx = m.idx /\ t.out[i].gid = m.gid /\ Announces(t, t.out[i])
        BY <1>10, <3>3 DEF Gathers
      <4> QED
        BY <1>6, <1>8, <3>1, <3>2, <4>1 DEF Announces, Claiming
    <3>5. t.me = a /\ a \in S[v.gid]
      BY <1>1 DEF Shape, Member, Attached, v
    <3>6. \A k \in 1..Len(L[v.gid]) : ~(Answer(L[v.gid][k], v.gid) /\ L[v.gid][k].from = a)
      <4> SUFFICES ASSUME NEW k \in 1..Len(L[v.gid]),
                          Answer(L[v.gid][k], v.gid), L[v.gid][k].from = a
                   PROVE  FALSE
        OBVIOUS
      <4>1. s.gid # v.gid
        BY <1>1, <1>2, <1>3, <1>4
      <4>2. s.gid = v.gid
        BY AnsweredGid DEF s, v
      <4> QED
        BY <4>1, <4>2
    <3>7. e.gid = v.gid => T = S[v.gid]
      BY <3>4 DEF T
    <3>9. Simple => DOMAIN e.body.claims = t.up
      BY <2>14, <3>4 DEF Announces, Claiming
    <3>10. e.body.kind = "state"
      BY <3>1, <3>2, <3>3 DEF Sent
    <3>8. (t.mat => e.body.mat) /\ (Plain => PlainState(e.body))
      <4>1. t.me # NoAddr /\ t.me \in Address
        BY <3>5, AddressAssumption
      <4>2. Plain => \A u \in Held(t) : t.oldPrio[u] = CLAIMED
        BY <2>11, <4>1 DEF Firm, Held
      <4> QED
        BY <3>4, <4>1, <4>2 DEF Announces, Claiming, PlainState, Plain
    <3> QED
      BY <1>8, <3>4, <3>5, <3>6, <3>7, <3>8, <3>9, <3>10 DEF Fitting
  <2>9. t.gid >= s.gid
    BY <1>1, <1>3, <1>4, <1>8
  <2>10. Continues(a, s, t, v, Tail(bx[a]), Tail(w), vs, S, L)
    BY <1>10, <2>7, <2>8, <2>9 DEF Continues, Gathers, q
  <2> QED
    BY <2>10 DEF s, v
<1> QED
  BY <1>8, <1>9, <1>10

\* Position p follows w in the same view.
Follows(w, p) == w \in Position /\ p \in Position /\ p.view = w.view /\ p.at = w.at + 1

\* At position p of a log stands the answer m of a member.
AnswerAt(log, p, T, m) ==
  /\ T \in SUBSET Address /\ log \in Seq(Letter) /\ p.at \in 1..Len(log) /\ Answers(log, p.view)
  /\ m \in StateMessage /\ m = log[p.at].body /\ m.gid = p.view
  /\ m.from = log[p.at].from /\ m.from \in T /\ m.idx = Rank(T, m.from)

\* The sender of an answer had not been heard of, and its message is waited for.
LEMMA AnswerAwaited ==
  ASSUME NEW a \in Address, NEW s, Shape(a, s), NEW w, NEW p, Follows(w, p), NEW T, NEW log,
         Hearing(a, s, w, T, log), NEW m, AnswerAt(log, p, T, m)
  PROVE  s.state = "GATHER" /\ m.gid = s.gid /\ m \in StateMessage /\ Awaited(s, m)
<1> DEFINE n == Cardinality(T)
           k == m.idx
           g == p.view
<1>0. /\ w \in Position /\ p \in Position /\ p.view = w.view /\ p.at = w.at + 1
      /\ T \in SUBSET Address /\ log \in Seq(Letter) /\ p.at \in 1..Len(log) /\ Answers(log, p.view)
      /\ m \in StateMessage /\ m = log[p.at].body /\ m.gid = p.view
      /\ m.from = log[p.at].from /\ m.from \in T /\ m.idx = Rank(T, m.from)
  BY DEF Follows, AnswerAt
<1>1. p.view \in Nat /\ p.at \in Nat /\ w.at \in Nat /\ w.at < p.at /\ Len(log) \in Nat
  BY <1>0 DEF Position
<1>2. IsFiniteSet(T) /\ n \in Nat /\ k \in 1..n
  <2>1. m.from \in Address
    BY <1>0
  <2>2. IsFiniteSet(T) /\ n \in Nat /\ k \in Nat /\ k <= n /\ k # 0
    BY <1>0, <2>1, RankNat
  <2> QED
    BY <2>2
<1>3. DOMAIN s.ip = 1..n /\ s.ip \in Seq(AnyAddress) /\ s.gid = g /\ s.pending \in Int
  BY <1>0 DEF Hearing, Shape, DaemonType
<1> HIDE DEF n, k
<1>4. Answer(log[p.at], g)
  BY <1>0 DEF Answer, StateMessage
<1>5. s.ip[k] = NoAddr
  <2> SUFFICES ASSUME s.ip[k] # NoAddr PROVE FALSE
    OBVIOUS
  <2>1. s.ip[k] \in T /\ Rank(T, s.ip[k]) = k
    BY <1>2, <1>3 DEF Hearing
  <2>2. PICK i \in 1..Len(log) : i <= w.at /\ log[i].from = s.ip[k] /\ Answer(log[i], w.view)
    BY <1>2, <1>3 DEF Hearing
  <2>3. s.ip[k] = m.from
    BY <1>0, <2>1, RankOneToOne DEF k
  <2>4. i < p.at /\ log[p.at].from = log[i].from /\ Answer(log[i], g)
    BY <1>0, <1>1, <2>2, <2>3
  <2> QED
    BY <1>0, <1>4, <2>2, <2>4 DEF Answers
<1>6. /\ k \in Unheard(s) /\ IsFiniteSet(Unheard(s)) /\ Cardinality(Unheard(s)) \in Nat
      /\ Cardinality(Unheard(s)) # 0
  <2>1. k \in Unheard(s) /\ Unheard(s) \in SUBSET (1..n)
    BY <1>2, <1>3, <1>5 DEF Unheard
  <2>2. IsFiniteSet(1..n)
    BY <1>2, FS_Interval
  <2>3. IsFiniteSet(Unheard(s))
    BY <2>1, <2>2, FS_Subset
  <2> QED
    BY <2>1, <2>3, FS_CardinalityType, FS_EmptySet
<1>7. s.state = "GATHER" /\ s.pending = Cardinality(Unheard(s))
  BY <1>6 DEF Hearing
<1>8. m.from # NoAddr
  BY <1>0, AddressAssumption
<1>9. ASSUME NEW j \in DOMAIN s.ip PROVE s.ip[j] # m.from
  <2> SUFFICES ASSUME s.ip[j] = m.from PROVE FALSE
    OBVIOUS
  <2>1. Rank(T, s.ip[j]) = j
    BY <1>8 DEF Hearing
  <2>2. j = k
    BY <1>0, <2>1 DEF k
  <2> QED
    BY <1>5, <1>8, <2>2
<1>10. ASSUME s.pending - 1 = 0, NEW j \in DOMAIN s.ip, j # k PROVE s.ip[j] # NoAddr
  <2>1. Cardinality(Unheard(s) \ {k}) = Cardinality(Unheard(s)) - 1
    BY <1>6, FS_RemoveElement
  <2>2. IsFiniteSet(Unheard(s) \ {k})
    BY <1>6, FS_Subset
  <2>3. Unheard(s) \ {k} = {}
    BY <1>7, <1>10, <2>1, <2>2, FS_EmptySet
  <2> QED
    BY <1>10, <2>3 DEF Unheard
<1>11. k \in DOMAIN s.ip
  BY <1>2, <1>3
<1> QED
  BY <1>0, <1>3, <1>5, <1>7, <1>8, <1>9, <1>10, <1>11 DEF Awaited, k

\* A state message of this view: the daemon has not heard of its sender, and then it has.
LEMMA HearsState ==
  ASSUME NEW a \in Address, NEW s, Shape(a, s), NEW w, NEW p, Follows(w, p), NEW T, NEW log,
         Hearing(a, s, w, T, log), NEW m, AnswerAt(log, p, T, m), NEW t \in Receive(s, m)
  PROVE  Hearing(a, t, p, T, log) /\ t.out = s.out /\ t.mbox = s.mbox /\ t.gid = s.gid
<1> DEFINE n == Cardinality(T)
           k == m.idx
           g == p.view
<1>0. /\ w \in Position /\ p \in Position /\ p.view = w.view /\ p.at = w.at + 1
      /\ T \in SUBSET Address /\ log \in Seq(Letter) /\ p.at \in 1..Len(log) /\ Answers(log, p.view)
      /\ m \in StateMessage /\ m = log[p.at].body /\ m.gid = p.view
      /\ m.from = log[p.at].from /\ m.from \in T /\ m.idx = Rank(T, m.from)
  BY DEF Follows, AnswerAt
<1>1. p.view \in Nat /\ p.at \in Nat /\ w.at \in Nat /\ w.at < p.at /\ Len(log) \in Nat
  BY <1>0 DEF Position
<1>2. IsFiniteSet(T) /\ n \in Nat /\ k \in 1..n
  <2>1. m.from \in Address
    BY <1>0
  <2>2. IsFiniteSet(T) /\ n \in Nat /\ k \in Nat /\ k <= n /\ k # 0
    BY <1>0, <2>1, RankNat
  <2> QED
    BY <2>2
<1>3. DOMAIN s.ip = 1..n /\ s.ip \in Seq(AnyAddress) /\ s.gid = g /\ s.pending \in Int
  BY <1>0 DEF Hearing, Shape, DaemonType
<1> HIDE DEF n, k
<1>4. Answer(log[p.at], g)
  BY <1>0 DEF Answer, StateMessage
<1>5. s.ip[k] = NoAddr
  BY AnswerAwaited DEF Awaited, k
<1>6. /\ k \in Unheard(s) /\ IsFiniteSet(Unheard(s)) /\ Cardinality(Unheard(s)) \in Nat
      /\ Cardinality(Unheard(s)) # 0
  <2>1. k \in Unheard(s) /\ Unheard(s) \in SUBSET (1..n)
    BY <1>2, <1>3, <1>5 DEF Unheard
  <2>2. IsFiniteSet(1..n)
    BY <1>2, FS_Interval
  <2>3. IsFiniteSet(Unheard(s))
    BY <2>1, <2>2, FS_Subset
  <2> QED
    BY <2>1, <2>3, FS_CardinalityType, FS_EmptySet
<1>7. s.state = "GATHER" /\ s.pending = Cardinality(Unheard(s))
  BY <1>6 DEF Hearing
<1>8. Counts(s, t) /\ t.ip = [s.ip EXCEPT ![k] = m.from]
  <2>1. m.gid = s.gid /\ m \in StateMessage
    BY <1>0, <1>3
  <2>2. \A u \in Receive(s, m) : Counts(s, u) /\ u.ip = [s.ip EXCEPT ![m.idx] = m.from]
    BY <1>7, <2>1, ReceiveCounts
  <2> QED
    BY <2>2 DEF k
<1>9. /\ t.gid = s.gid /\ t.idx = s.idx /\ t.out = s.out /\ t.mbox = s.mbox
      /\ t.pending = s.pending - 1
      /\ (t.state = "GATHER" <=> t.pending # 0)
      /\ (t.state = "RUN" => t.mat)
  BY <1>3, <1>8 DEF Counts, Same, Shape, DaemonType
<1>10. m.from # NoAddr
  BY <1>0, AddressAssumption
<1>11. /\ DOMAIN t.ip = 1..n /\ t.ip[k] = m.from
       /\ \A j \in 1..n : j # k => t.ip[j] = s.ip[j]
  BY <1>2, <1>3, <1>8
<1>12. Unheard(t) = Unheard(s) \ {k}
  BY <1>2, <1>3, <1>10, <1>11 DEF Unheard
<1>13. t.pending = Cardinality(Unheard(t))
  <2>1. Cardinality(Unheard(s) \ {k}) = Cardinality(Unheard(s)) - 1
    BY <1>6, FS_RemoveElement
  <2> QED
    BY <1>7, <1>9, <1>12, <2>1
<1>14. ASSUME NEW j \in 1..n, t.ip[j] # NoAddr
       PROVE  /\ t.ip[j] \in T /\ Rank(T, t.ip[j]) = j
              /\ \E i \in 1..Len(log) : i <= p.at /\ log[i].from = t.ip[j] /\ Answer(log[i], g)
  <2>1. CASE j = k
    <3>1. p.at <= p.at
      BY <1>1
    <3> QED
      BY <1>0, <1>4, <1>11, <2>1, <3>1 DEF k
  <2>2. CASE j # k
    <3>1. t.ip[j] = s.ip[j]
      BY <1>11, <2>2
    <3>2. /\ s.ip[j] \in T /\ Rank(T, s.ip[j]) = j
          /\ \E i \in 1..Len(log) : i <= w.at /\ log[i].from = s.ip[j] /\ Answer(log[i], w.view)
      BY <1>3, <1>14, <3>1 DEF Hearing
    <3>3. PICK i \in 1..Len(log) : i <= w.at /\ log[i].from = s.ip[j] /\ Answer(log[i], w.view)
      BY <3>2
    <3>4. i <= p.at /\ Answer(log[i], g)
      BY <1>0, <1>1, <3>3
    <3> QED
      BY <3>1, <3>2, <3>3, <3>4
  <2> QED
    BY <2>1, <2>2
<1>15. a \in T /\ t.idx = Rank(T, a)
  BY <1>9 DEF Hearing
<1> HIDE DEF g
<1>16. Hearing(a, t, p, T, log)
  BY <1>3, <1>9, <1>11, <1>13, <1>14, <1>15 DEF Hearing, n, g
<1> QED
  BY <1>9, <1>16

\* Any other message that is not a view: what the daemon has heard stays.
LEMMA HearsOther ==
  ASSUME NEW a, NEW s, Shape(a, s), NEW w, NEW p, Follows(w, p), NEW T, NEW log,
         Hearing(a, s, w, T, log), NEW m \in Message, m \in StateMessage => m.gid # s.gid,
         NEW t \in Receive(s, m)
  PROVE  Hearing(a, t, p, T, log) /\ t.out = s.out /\ t.mbox = s.mbox /\ t.gid = s.gid
<1>1. Decides(s, t)
  BY ReceiveDecides DEF Hearing
<1>2. /\ t.gid = s.gid /\ t.idx = s.idx /\ t.out = s.out /\ t.mbox = s.mbox
      /\ t.pending = s.pending /\ t.ip = s.ip
      /\ (t.state = "GATHER" <=> s.state = "GATHER")
  BY <1>1 DEF Decides, Same, Shape, DaemonType
<1>3. t.state = "RUN" => t.mat
  BY <1>1 DEF Decides, Hearing
<1>4. p.view = w.view /\ \A i \in Nat : i <= w.at => i <= p.at
  BY DEF Follows, Position
<1>5. Unheard(t) = Unheard(s)
  BY <1>2 DEF Unheard
<1>6. Hearing(a, t, w, T, log)
  <2>1. /\ s.gid = w.view /\ a \in T /\ s.idx = Rank(T, a) /\ DOMAIN s.ip = 1..Cardinality(T)
        /\ s.pending = Cardinality(Unheard(s)) /\ (s.state = "GATHER" <=> s.pending # 0)
    BY DEF Hearing
  <2>2. \A k \in DOMAIN t.ip : t.ip[k] # NoAddr =>
          /\ t.ip[k] \in T /\ Rank(T, t.ip[k]) = k
          /\ \E i \in 1..Len(log) : i <= w.at /\ log[i].from = t.ip[k] /\ Answer(log[i], w.view)
    <3>1. \A k \in DOMAIN s.ip : s.ip[k] # NoAddr =>
            /\ s.ip[k] \in T /\ Rank(T, s.ip[k]) = k
            /\ \E i \in 1..Len(log) : i <= w.at /\ log[i].from = s.ip[k] /\ Answer(log[i], w.view)
      BY DEF Hearing
    <3> QED
      BY <1>2, <3>1
  <2> QED
    BY <1>2, <1>3, <1>5, <2>1, <2>2 DEF Hearing
<1>7. Hearing(a, t, p, T, log)
  BY <1>4, <1>6 DEF Hearing
<1> QED
  BY <1>2, <1>7

\* A state message of this view is merged into the tables.
LEMMA TabledAnswer ==
  ASSUME Plain, NEW a \in Address, NEW s, Shape(a, s), NEW w, NEW p, Follows(w, p), NEW T, NEW log,
         Hearing(a, s, w, T, log), Tabled(a, s, w, T, log),
         NEW m, AnswerAt(log, p, T, m), PlainState(m), NEW t \in Receive(s, m), Shape(a, t),
         Hearing(a, t, p, T, log)
  PROVE  Tabled(a, t, p, T, log)
<1> DEFINE g == p.view
           e == log[p.at]
           x == TableOf(s)
           y == TableOf(t)
           n == Cardinality(T)
<1>1. /\ w \in Position /\ p \in Position /\ p.view = w.view /\ p.at = w.at + 1
      /\ p.at \in 1..Len(log) /\ w.at \in Nat /\ p.at \in Nat /\ w.at = p.at - 1
      /\ T \in SUBSET Address /\ Len(log) \in Nat /\ m = e.body /\ e.body.kind = "state"
      /\ m.gid = g
  BY DEF Follows, Position, AnswerAt, StateMessage
<1>2. s.state = "GATHER" /\ m.gid = s.gid /\ m \in StateMessage /\ Awaited(s, m)
  BY AnswerAwaited
<1>3. "balance" \notin StaleKinds /\ Tidy(s) /\ Matured(a, s, w, log)
  BY DEF Plain, Tabled
<1> HIDE DEF e, g, n
<1>4. /\ Tidy(t) /\ (t.mat <=> s.mat \/ m.mat)
      /\ IF t.state = "RUN" THEN Allots(Merged(x, m), y) ELSE y = Merged(x, m)
  BY <1>2, <1>3, ReceiveStateTidy
<1>5. Answer(e, g)
  BY <1>1 DEF Answer
<1>6. Ripe(log, p.at, g) <=> Ripe(log, w.at, g) \/ m.mat
  <2>1. Ripe(log, p.at, g) <=> Ripe(log, p.at - 1, g) \/ Matures(e, g)
    BY <1>1, RipeNext DEF e
  <2>2. Matures(e, g) <=> m.mat
    BY <1>1, <1>5 DEF Matures
  <2> QED
    BY <1>1, <2>1, <2>2
<1>7. Matured(a, t, p, log)
  <2>1. Counts(s, t)
    BY <1>2, ReceiveCounts
  <2>2. t.state # "GATHER" => (t.state = "RUN" <=> t.mat)
    BY <2>1 DEF Counts
  <2>3. p.view = w.view /\ g = p.view
    BY <1>1 DEF g
  <2>4. /\ Ripe(log, w.at, g) => s.mat
        /\ s.mat => \/ Ripe(log, w.at, g)
                    \/ \A i \in 1..Len(log) :
                         Answer(log[i], g) /\ log[i].from = a => log[i].body.mat
    BY <1>3, <2>3 DEF Matured
  <2> HIDE DEF x, y
  <2> QED
    BY <1>4, <1>6, <2>2, <2>3, <2>4 DEF Matured
<1>8. Runs(x, log, w.at, g) = FALSE
  <2>1. ~Runs(x, log, w.at, w.view)
    BY <1>1, <1>2, <1>3, TabledRuns
  <2> QED
    BY <1>1, <2>1 DEF Runs, g
<1>9. Effect(x, e, g, FALSE) = Merged(x, m)
  BY <1>1, <1>5 DEF Effect
<1>10. t.state = "RUN" <=> Runs(y, log, p.at, g)
  BY <1>1, <1>7, TabledRuns DEF g
<1>11. y.ip = Merged(x, m).ip
  <2>1. \A z, u : Allots(z, u) => u.ip = z.ip
    BY DEF Allots, Given
  <2> HIDE DEF x, y
  <2> QED
    BY <1>4, <2>1
<1>12. Runs(Merged(x, m), log, p.at, g) <=> Runs(y, log, p.at, g)
  <2> HIDE DEF x, y
  <2> QED
    BY <1>11 DEF Runs, Heard
<1> HIDE DEF x, y
<1>13. TableStep(x, y, log, p.at, g)
  <2>1. Effect(x, log[p.at], g, Runs(x, log, p.at - 1, g)) = Merged(x, m)
    BY <1>1, <1>8, <1>9 DEF e
  <2>2. ~Runs(x, log, p.at - 1, g)
    BY <1>1, <1>8
  <2> QED
    BY <1>4, <1>10, <1>12, <2>1, <2>2 DEF TableStep
<1>14. y \in TableType
  BY TableOfType DEF y
<1>15. Reaches(x, n, log, w.at, g)
  BY <1>1 DEF Tabled, x, n, g
<1>16. Reaches(y, n, log, p.at, g)
  BY <1>1, <1>13, <1>14, <1>15, ReachesNext
<1> QED
  BY <1>1, <1>4, <1>7, <1>16 DEF Tabled, y, n, g

\* Any other letter: somebody is mature, moves, or nothing.
LEMMA TabledOther ==
  ASSUME Plain, NEW a \in Address, NEW s, Shape(a, s), NEW w, NEW p, Follows(w, p),
         NEW T \in SUBSET Address, NEW log, Len(log) \in Nat, p.at \in 1..Len(log),
         Hearing(a, s, w, T, log), Tabled(a, s, w, T, log),
         NEW m \in Message, m = log[p.at].body, m \in StateMessage => m.gid # p.view,
         NEW t \in Receive(s, m), Shape(a, t), Hearing(a, t, p, T, log)
  PROVE  Tabled(a, t, p, T, log)
<1> DEFINE g == p.view
           e == log[p.at]
           x == TableOf(s)
           y == TableOf(t)
           n == Cardinality(T)
<1>1. /\ w \in Position /\ p \in Position /\ p.view = w.view /\ p.at = w.at + 1
      /\ w.at \in Nat /\ p.at \in Nat /\ w.at = p.at - 1 /\ s.gid = g
  BY DEF Follows, Position, Hearing
<1>2. /\ "balance" \notin StaleKinds /\ Tidy(s) /\ Matured(a, s, w, log)
      /\ (s.state = "RUN" => s.mat)
  BY DEF Plain, Tabled, Hearing
<1>3. /\ s.state = "RUN" <=> Runs(x, log, w.at, g)
      /\ s.state # "GATHER" <=> Heard(s)
  BY <1>1, <1>2, TabledRuns
<1>4. /\ m.kind = "state" => m \in StateMessage
      /\ m.kind = "mature" => m = MaturingMessage
      /\ m.kind = "balance" => m \in BalanceMessage
      /\ m.kind = "arp" => m = ArpMessage
      /\ m.kind \in {"state", "mature", "balance", "arp"}
  BY DEF Message, StateMessage, BalanceMessage, MaturingMessage, ArpMessage
<1>5. ~Answer(e, g)
  BY <1>4 DEF Answer
<1>6. Ripe(log, p.at, g) <=> Ripe(log, w.at, g) \/ m.kind = "mature"
  <2>1. Ripe(log, p.at, g) <=> Ripe(log, p.at - 1, g) \/ Matures(e, g)
    BY RipeNext
  <2>2. Matures(e, g) <=> m.kind = "mature"
    BY <1>5 DEF Matures
  <2> QED
    BY <1>1, <2>1, <2>2
<1>7. Decides(s, t)
  BY <1>1, <1>2, ReceiveDecides
<1>8. t.ip = s.ip /\ (t.mat = s.mat => t.state = s.state) /\ (t.mat # s.mat => t.mat /\ t.state \in {"GATHER", "RUN"})
  BY <1>7 DEF Decides
<1>9. /\ Tidy(t) /\ (t.mat <=> s.mat \/ m.kind = "mature")
      /\ IF t.state = "RUN" /\ s.state # "RUN" THEN Allots(x, y) /\ m.kind # "balance"
         ELSE y = IF s.state = "RUN" /\ m.kind = "balance" THEN Moved(x, MovesRead(m)) ELSE x
  <2> HIDE DEF x, y
  <2>1. CASE m.kind = "mature"
    <3>1. /\ Tidy(t) /\ t.mat
          /\ IF t.state = "RUN" /\ s.state # "RUN" THEN Allots(x, y) ELSE y = x
      BY <1>2, <1>3, <1>4, <2>1, ReceiveMatureTidy DEF x, y
    <3> QED
      BY <2>1, <3>1
  <2>2. CASE m.kind = "balance"
    <3>1. /\ Tidy(t) /\ t.mat = s.mat /\ t.state = s.state
          /\ y = IF s.state = "RUN" THEN Moved(x, MovesRead(m)) ELSE x
      BY <1>2, <1>4, <2>2, ReceiveBalanceTidy DEF x, y
    <3> QED
      BY <2>2, <3>1
  <2>3. CASE m.kind \in {"state", "arp"}
    <3>0. m \in StateMessage \cup {ArpMessage} /\ (m.kind = "state" => m.gid # s.gid)
      BY <1>1, <1>4, <2>3
    <3>1. Tidy(t) /\ t.mat = s.mat /\ t.state = s.state /\ y = x
      BY <1>2, <3>0, ReceiveIdleTidy DEF x, y
    <3> QED
      BY <2>3, <3>1
  <2> QED
    BY <1>4, <2>1, <2>2, <2>3
<1>10. Matured(a, t, p, log)
  <2>1. /\ Ripe(log, w.at, g) => s.mat
        /\ s.mat => \/ Ripe(log, w.at, g)
                    \/ \A i \in 1..Len(log) :
                         Answer(log[i], g) /\ log[i].from = a => log[i].body.mat
        /\ s.state \in {"GATHER", "RUN"} \/ ~s.mat
    BY <1>1, <1>2 DEF Matured
  <2>2. t.mat <=> s.mat \/ m.kind = "mature"
    BY <1>9
  <2>3. t.state \in {"GATHER", "RUN"} \/ ~t.mat
    BY <1>8, <2>1, <2>2
  <2> HIDE DEF x, y, e
  <2> QED
    BY <1>6, <2>1, <2>2, <2>3 DEF Matured
<1>11. t.state = "RUN" <=> Runs(y, log, p.at, g)
  BY <1>1, <1>10, TabledRuns
<1> DEFINE z == Effect(x, e, g, Runs(x, log, w.at, g))
<1>12. z = IF s.state = "RUN" /\ m.kind = "balance" THEN Moved(x, MovesRead(m)) ELSE x
  <2> HIDE DEF x, y
  <2> QED
    BY <1>3, <1>5 DEF Effect
<1>13. z.ip = y.ip
  <2>1. x.ip = s.ip /\ y.ip = t.ip
    BY DEF TableOf
  <2>2. Moved(x, MovesRead(m)).ip = x.ip
    BY DEF Moved
  <2> HIDE DEF x, y, z
  <2> QED
    BY <1>8, <1>12, <2>1, <2>2
<1>14. Runs(z, log, p.at, g) <=> Runs(y, log, p.at, g)
  <2> HIDE DEF x, y, z
  <2> QED
    BY <1>13 DEF Runs, Heard
<1>15. TableStep(x, y, log, p.at, g)
  <2>1. Effect(x, log[p.at], g, Runs(x, log, p.at - 1, g)) = z
    BY <1>1
  <2>2. Runs(x, log, p.at - 1, g) <=> s.state = "RUN"
    BY <1>1, <1>3
  <2>3. IF t.state = "RUN" /\ s.state # "RUN" THEN Allots(z, y) ELSE y = z
    <3> HIDE DEF x, y, z
    <3> QED
      BY <1>9, <1>12
  <2> HIDE DEF x, y, z
  <2> QED
    BY <1>11, <1>14, <2>1, <2>2, <2>3 DEF TableStep
<1>16. y \in TableType
  BY TableOfType
<1> HIDE DEF x, y, z, e, n
<1>17. Reaches(x, n, log, w.at, g)
  BY <1>1 DEF Tabled, x, n
<1>18. Reaches(y, n, log, p.at, g)
  BY <1>1, <1>15, <1>16, <1>17, ReachesNext
<1> QED
  BY <1>1, <1>9, <1>10, <1>18 DEF Tabled, y, n

\* A daemon that has received its own answer has the address at its index only.
LEMMA HeardAtIndex ==
  ASSUME NEW a \in Address, NEW s, Shape(a, s), NEW p, NEW T \in SUBSET Address, NEW log,
         Hearing(a, s, p, T, log), s.ip[s.idx] # NoAddr
  PROVE  AtIndex(s)
<1>1. s.me = a /\ a # NoAddr /\ a \in T /\ s.idx = Rank(T, a)
  BY AddressAssumption DEF Shape, Hearing
<1>2. s.idx \in DOMAIN s.ip
  BY OwnIndex
<1>3. \A k \in DOMAIN s.ip : s.ip[k] # NoAddr => s.ip[k] \in T /\ Rank(T, s.ip[k]) = k
  BY DEF Hearing
<1>4. s.ip[s.idx] = a
  BY <1>1, <1>2, <1>3, RankOneToOne
<1> QED
  BY <1>1, <1>3, <1>4 DEF AtIndex

\* The table stays backed from one letter to the next.
LEMMA BackedNext ==
  ASSUME NEW a, NEW s, Shape(a, s), NEW t, Shape(a, t), NEW w, NEW p, Follows(w, p), NEW T,
         NEW log \in Seq(Letter), p.at \in 1..Len(log), Backed(TableOf(s)),
         Tabled(a, s, w, T, log), Tabled(a, t, p, T, log),
         Answer(log[p.at], p.view) =>
           LET m == log[p.at].body IN m.idx \in DOMAIN s.ip /\ s.ip[m.idx] = NoAddr,
         Runs(TableOf(s), log, w.at, w.view) /\ log[p.at].body.kind = "balance" =>
           Decided(TableOf(s)) /\ Aimed(TableOf(s), MovesRead(log[p.at].body))
  PROVE  Backed(TableOf(t))
<1> DEFINE x == TableOf(s)
           y == TableOf(t)
           n == Cardinality(T)
           g == p.view
<1>1. p.view = w.view /\ w.at = p.at - 1
  BY DEF Follows, Position
<1>2. x \in TableType /\ DOMAIN x.num = DOMAIN x.ip /\ x.ip = s.ip
  BY TableOfType DEF Shape, TableOf
<1> HIDE DEF x, y, n
<1>3. Reaches(x, n, log, p.at - 1, g) /\ Reaches(y, n, log, p.at, g)
  BY <1>1 DEF Tabled, x, y, n
<1>4. TableStep(x, y, log, p.at, g)
  BY <1>3, ReachesStep
<1>5. /\ Answer(log[p.at], g) =>
           LET m == log[p.at].body IN m.idx \in DOMAIN x.ip /\ x.ip[m.idx] = NoAddr
      /\ Runs(x, log, p.at - 1, g) /\ log[p.at].body.kind = "balance" =>
           Decided(x) /\ Aimed(x, MovesRead(log[p.at].body))
  BY <1>1, <1>2 DEF x
<1> HIDE DEF g
<1>6. Backed(x)
  BY DEF x
<1>7. Backed(y)
  BY <1>2, <1>4, <1>5, <1>6, TableStepBacked
<1> QED
  BY <1>7 DEF y

\* Its phase, when the claims of an answer are merged.
LEMMA AnswerMerges ==
  ASSUME NEW a \in Address, NEW s, Shape(a, s), Firm(s), Unpreferred(s), s.state = "GATHER",
         NEW g, NEW log, Serves(a, s, g, log),
         NEW m \in StateMessage, PlainState(m), Awaited(s, m),
         m.from = a => m.idx = s.idx /\ \E i \in 1..Len(log) : log[i].body = m /\ log[i].from = a /\ Answer(log[i], g)
  PROVE  /\ NoReup(s, m)
         /\ \A r : Merges(s, m, r) /\ Shape(a, r) =>
              /\ Counted(r) /\ Free(r) /\ Unpreferred(r)
              /\ IF m.from # a /\ s.ip[s.idx] = NoAddr THEN Expecting(r) /\ r.up = s.up
                                                       ELSE Holding(r)
<1>1. Counted(s) /\ Backed(TableOf(s))
  BY DEF Serves
<1>2. IF s.ip[s.idx] = NoAddr THEN Expecting(s) /\ ClaimsUp(a, s, g, log) ELSE Holding(s)
  BY DEF Serves
<1>3. ASSUME NEW r, Merges(s, m, r) PROVE Free(r) /\ Unpreferred(r)
  BY <1>1, <1>3, MergesPlain
<1>4. CASE m.from = a
  <2>1. s.ip[s.idx] = NoAddr
    BY <1>4 DEF Awaited
  <2>2. DOMAIN m.claims = s.up
    BY <1>2, <1>4, <2>1 DEF ClaimsUp
  <2>3. /\ NoReup(s, m)
        /\ \A r : Merges(s, m, r) /\ Shape(a, r) => Holding(r) /\ Counted(r)
    BY <1>1, <1>2, <1>4, <2>1, <2>2, OwnExpecting
  <2> QED
    BY <1>3, <1>4, <2>3
<1>5. CASE m.from # a /\ s.ip[s.idx] = NoAddr
  <2>1. /\ NoReup(s, m)
        /\ \A r : Merges(s, m, r) /\ Shape(a, r) => Expecting(r) /\ r.up = s.up /\ r.mine = s.mine
    BY <1>2, <1>5, PeerExpecting
  <2> QED
    BY <1>1, <1>3, <1>5, <2>1 DEF Counted
<1>6. CASE m.from # a /\ s.ip[s.idx] # NoAddr
  <2>1. /\ NoReup(s, m)
        /\ \A r : Merges(s, m, r) /\ Shape(a, r) => Holding(r) /\ r.up = s.up /\ r.mine = s.mine
    BY <1>2, <1>6, PeerKeeping
  <2> QED
    BY <1>1, <1>3, <1>6, <2>1 DEF Counted
<1> QED
  BY <1>4, <1>5, <1>6

\* A state message of this view: what is up follows the tables.
LEMMA ServesAnswer ==
  ASSUME Plain, NEW a \in Address, NEW s, Shape(a, s), NEW w, NEW p, Follows(w, p), NEW T, NEW log,
         Hearing(a, s, w, T, log), Tabled(a, s, w, T, log), Serves(a, s, p.view, log),
         NEW m, AnswerAt(log, p, T, m), PlainState(m), NEW t \in Receive(s, m), Shape(a, t),
         Hearing(a, t, p, T, log), Tabled(a, t, p, T, log)
  PROVE  Serves(a, t, p.view, log)
<1> DEFINE g == p.view
<1>1. s.state = "GATHER" /\ m.gid = s.gid /\ m \in StateMessage /\ Awaited(s, m)
  BY AnswerAwaited
<1>2. /\ log \in Seq(Letter) /\ p.at \in 1..Len(log) /\ Answer(log[p.at], g) /\ m = log[p.at].body
      /\ T \in SUBSET Address /\ m.from = log[p.at].from /\ m.from \in T /\ m.idx = Rank(T, m.from)
  BY DEF AnswerAt, Answer, StateMessage
<1>3. Firm(s) /\ Unpreferred(s)
  BY DEF Tabled, Tidy
<1>4. a \in T /\ s.idx = Rank(T, a) /\ t.idx = Rank(T, a) /\ t.idx = s.idx
  BY DEF Hearing
<1>5. /\ m.from = a <=> m.idx = s.idx
  BY <1>2, <1>4, RankOneToOne
<1> HIDE DEF g
<1>6. /\ NoReup(s, m)
      /\ \A r : Merges(s, m, r) /\ Shape(a, r) =>
           /\ Counted(r) /\ Free(r) /\ Unpreferred(r)
           /\ IF m.from # a /\ s.ip[s.idx] = NoAddr THEN Expecting(r) /\ r.up = s.up
                                                    ELSE Holding(r)
  <2>1. m.from = a => m.idx = s.idx /\ \E i \in 1..Len(log) : log[i].body = m /\ log[i].from = a /\ Answer(log[i], g)
    BY <1>2, <1>5
  <2>2. Serves(a, s, g, log)
    BY DEF g
  <2> QED
    BY <1>1, <1>3, <2>1, <2>2, AnswerMerges
<1>7. PICK r : /\ Shape(a, r) /\ Merges(s, m, r) /\ r.idx = s.idx
               /\ (s.pending = 1 => Ready(r)) =>
                    (Untouched(r, t) /\ t.state \in {"GATHER", "BOOT"}) \/ Shifted(r, t)
  BY <1>1, <1>6, ReceiveStateTables
<1>8. /\ Counted(r) /\ Free(r) /\ Unpreferred(r)
      /\ IF m.from # a /\ s.ip[s.idx] = NoAddr THEN Expecting(r) /\ r.up = s.up ELSE Holding(r)
  BY <1>6, <1>7
<1>9. /\ t.ip = [s.ip EXCEPT ![m.idx] = m.from] /\ t.ip = r.ip /\ t.idx = r.idx
      /\ m.from # NoAddr /\ m.idx \in DOMAIN s.ip
  BY <1>1, <1>4, <1>7, ReceiveCounts DEF Merges, Awaited
<1>10. t.ip[t.idx] = NoAddr <=> m.from # a /\ s.ip[s.idx] = NoAddr
  BY <1>4, <1>5, <1>9
<1>11. s.pending = 1 => Ready(r)
  <2> SUFFICES ASSUME s.pending = 1 PROVE Ready(r)
    OBVIOUS
  <2>1. \A k \in DOMAIN s.ip : k # m.idx => s.ip[k] # NoAddr
    BY <1>1 DEF Awaited
  <2>2. s.idx \in DOMAIN s.ip
    BY <1>2, OwnIndex
  <2>3. t.ip[t.idx] # NoAddr
    BY <1>5, <1>10, <2>1, <2>2
  <2>4. AtIndex(t)
    BY <1>2, <2>3, HeardAtIndex
  <2>5. AtIndex(r)
    BY <1>7, <1>9, <2>4 DEF AtIndex, Shape
  <2> QED
    BY <1>8, <1>10, <2>3, <2>5, KeepingReady
<1>12. Backed(TableOf(t))
  <2>1. Backed(TableOf(s))
    BY DEF Serves
  <2>2. Answer(log[p.at], p.view) =>
           LET k == log[p.at].body IN k.idx \in DOMAIN s.ip /\ s.ip[k.idx] = NoAddr
    BY <1>1, <1>2 DEF Awaited
  <2>3. log[p.at].body.kind # "balance"
    BY <1>2 DEF Answer
  <2> QED
    BY <1>2, <2>1, <2>2, <2>3, BackedNext
<1>13. CASE Untouched(r, t) /\ t.state \in {"GATHER", "BOOT"}
  <2>1. Counted(t)
    BY <1>7, <1>8, <1>13, UntouchedPhases
  <2>2. Held(t) = Held(r) /\ Owned(t) = Owned(r) /\ t.up = r.up /\ t.owner = r.owner
    BY <1>7, <1>13, UntouchedPhases DEF Untouched, SameTables
  <2>3. CASE t.ip[t.idx] = NoAddr
    <3>1. Expecting(t) /\ t.up = s.up
      BY <1>8, <1>10, <2>2, <2>3 DEF Expecting
    <3>2. ClaimsUp(a, t, p.view, log)
      BY <1>10, <2>3, <3>1 DEF ClaimsUp, Serves
    <3> QED
      BY <1>12, <2>1, <2>3, <3>1, <3>2 DEF Serves
  <2>4. CASE t.ip[t.idx] # NoAddr
    <3>1. Holding(t)
      BY <1>8, <1>10, <2>2, <2>4 DEF Holding
    <3>2. t.state # "RUN"
      BY <1>13
    <3> QED
      BY <1>12, <2>1, <2>4, <3>1, <3>2 DEF Serves
  <2> QED
    BY <2>3, <2>4
<1>14. CASE Shifted(r, t)
  <2>1. Counted(t) /\ t.up = Owned(t) /\ t.state = "RUN"
    BY <1>14 DEF Shifted, Served
  <2>2. Heard(t)
    <3>1. Matured(a, t, p, log) /\ p \in Position
      BY DEF Tabled, Follows
    <3> QED
      BY <1>2, <2>1, <3>1, TabledRuns
  <2>3. t.idx \in DOMAIN t.ip
    BY <1>2, OwnIndex
  <2>4. t.ip[t.idx] # NoAddr
    BY <2>2, <2>3 DEF Heard
  <2> QED
    BY <1>12, <2>1, <2>4 DEF Serves
<1> QED
  BY <1>7, <1>11, <1>13, <1>14

\* Any other letter leaves what is up, or makes the daemon decide, or moves.
LEMMA ServesOther ==
  ASSUME Plain, NEW a \in Address, NEW s, Shape(a, s), NEW w, NEW p, Follows(w, p),
         NEW T \in SUBSET Address, NEW log \in Seq(Letter), p.at \in 1..Len(log),
         Hearing(a, s, w, T, log), Tabled(a, s, w, T, log), Serves(a, s, p.view, log),
         NEW m \in Message, m = log[p.at].body, m \in StateMessage => m.gid # p.view,
         s.state = "RUN" /\ m \in BalanceMessage =>
           Moving(TableOf(s), MovesRead(m)) /\ Aimed(TableOf(s), MovesRead(m)),
         NEW t \in Receive(s, m), Shape(a, t), Hearing(a, t, p, T, log), Tabled(a, t, p, T, log)
  PROVE  Serves(a, t, p.view, log)
<1> DEFINE x == TableOf(s)
<1>1. /\ "balance" \notin StaleKinds /\ Tidy(s) /\ Counted(s) /\ Backed(x) /\ Unpreferred(s)
      /\ Matured(a, s, w, log) /\ Matured(a, t, p, log) /\ w \in Position /\ p \in Position
      /\ s.gid = p.view /\ p.view = w.view
  BY DEF Plain, Tabled, Tidy, Serves, Follows, Hearing
<1>2. s.state = "RUN" => s.mat
  BY DEF Hearing
<1>3. /\ s.state = "RUN" <=> Runs(x, log, w.at, w.view)
      /\ s.state # "GATHER" => s.ip[s.idx] # NoAddr
  <2>1. s.state # "GATHER" <=> Heard(s)
    BY <1>1, TabledRuns
  <2> QED
    BY <1>1, <2>1, TabledRuns, OwnIndex DEF Heard
<1>4. t.state # "GATHER" => t.ip[t.idx] # NoAddr
  <2>1. t.state # "GATHER" <=> Heard(t)
    BY <1>1, TabledRuns
  <2> QED
    BY <2>1, OwnIndex DEF Heard
<1>5. s.state = "RUN" => Served(s) /\ Decided(s)
  <2>1. s.state = "RUN" => s.up = Owned(s)
    BY <1>3 DEF Serves
  <2>2. s.state = "RUN" => Decided(s)
    BY <1>1 DEF Tidy
  <2> QED
    BY <2>1, <2>2 DEF Served, Decided
<1>6. Moving(x, MovesRead(m)) => Moving(s, MovesRead(m))
  <2>1. x.owner = s.owner
    BY DEF TableOf
  <2> HIDE DEF x
  <2> QED
    BY <2>1 DEF Moving, OwnerFound
<1>7. Decided(s) => Decided(x)
  BY DEF Decided, TableOf
<1>8. s.state # "GATHER" /\ ~s.mat => Ready(s)
  <2> SUFFICES ASSUME s.state # "GATHER", ~s.mat PROVE Ready(s)
    OBVIOUS
  <2>1. Holding(s)
    BY <1>2, <1>3 DEF Serves
  <2>2. AtIndex(s)
    BY <1>3, HeardAtIndex
  <2>3. Free(s)
    <3>1. Free(x)
      BY <1>1, BackedFree
    <3> QED
      BY <3>1 DEF Free, TableOf
  <2> QED
    BY <1>1, <2>1, <2>2, <2>3, KeepingReady
<1>9. /\ m.kind = "state" => m \in StateMessage
      /\ m.kind = "balance" <=> m \in BalanceMessage
  BY DEF Message, StateMessage, BalanceMessage, MaturingMessage, ArpMessage
<1> HIDE DEF x
<1>10. (Untouched(s, t) /\ t.state = s.state) \/ Shifted(s, t)
  <2>1. CASE m \in BalanceMessage
    <3>1. s.state = "RUN" => Counted(s) /\ Served(s) /\ Moving(s, MovesRead(m))
      BY <1>1, <1>5, <1>6, <2>1 DEF x
    <3> QED
      BY <1>1, <2>1, <3>1, PlainBalanceTables
  <2>2. CASE m \notin BalanceMessage
    <3>1. m \in StateMessage => m.gid # s.gid
      BY <1>1
    <3> QED
      BY <1>8, <2>2, <3>1, ReceiveTables
  <2> QED
    BY <2>1, <2>2
<1>11. Backed(TableOf(t))
  <2>1. ~Answer(log[p.at], p.view)
    BY <1>9 DEF Answer
  <2>2. Runs(TableOf(s), log, w.at, w.view) /\ log[p.at].body.kind = "balance" =>
           Decided(TableOf(s)) /\ Aimed(TableOf(s), MovesRead(log[p.at].body))
    BY <1>3, <1>5, <1>7, <1>9 DEF x
  <2>3. Backed(TableOf(s))
    BY <1>1 DEF x
  <2> QED
    BY <2>1, <2>2, <2>3, BackedNext
<1>12. CASE Untouched(s, t) /\ t.state = s.state
  <2>1. Counted(t) /\ Held(t) = Held(s) /\ Owned(t) = Owned(s)
    BY <1>1, <1>12, UntouchedPhases
  <2>2. t.up = s.up /\ t.owner = s.owner /\ t.ip[t.idx] = s.ip[s.idx]
    BY <1>12 DEF Untouched, SameTables
  <2>3. CASE t.ip[t.idx] = NoAddr
    <3>1. Expecting(s) /\ ClaimsUp(a, s, p.view, log)
      BY <2>2, <2>3 DEF Serves
    <3>2. Expecting(t) /\ ClaimsUp(a, t, p.view, log)
      BY <2>1, <2>2, <3>1 DEF Expecting, ClaimsUp
    <3> QED
      BY <1>11, <2>1, <2>3, <3>2 DEF Serves
  <2>4. CASE t.ip[t.idx] # NoAddr
    <3>1. IF s.state = "RUN" THEN s.up = Owned(s) ELSE Holding(s)
      BY <2>2, <2>4 DEF Serves
    <3>2. IF t.state = "RUN" THEN t.up = Owned(t) ELSE Holding(t)
      BY <1>12, <2>1, <2>2, <3>1 DEF Holding
    <3> QED
      BY <1>11, <2>1, <2>4, <3>2 DEF Serves
  <2> QED
    BY <2>3, <2>4
<1>13. CASE Shifted(s, t)
  <2>1. Counted(t) /\ t.up = Owned(t) /\ t.state = "RUN"
    BY <1>13 DEF Shifted, Served
  <2> QED
    BY <1>4, <1>11, <2>1 DEF Serves
<1> QED
  BY <1>10, <1>12, <1>13

\* A message that is not a view, as it comes out of the inbox.
LEMMA LetterMoves ==
  ASSUME NEW nd, NEW vw, NEW bx, NEW vs, NEW S, NEW L, NEW W, Core(nd, vw, bx, vs, S, L, W),
         NEW a \in Address, bx[a] # <<>>, vw[a] # NoView, W[a][2].at # 0,
         NEW t \in Receive(nd[a], bx[a][1].body), Shape(a, t)
  PROVE  \E w : Continues(a, nd[a], t, vw[a], Tail(bx[a]), w, vs, S, L)
<1> DEFINE s == nd[a]
           v == vw[a]
           w == W[a]
           p == w[2]
           g == p.view
           T == S[g]
           log == L[g]
           m == bx[a][1].body
           q == Quiet(t)
<1>1. /\ Shape(a, s) /\ s.gid \in Nat /\ s.gid <= vs /\ s.out = <<>> /\ v \in Views
      /\ vs \in Nat /\ bx[a] \in Seq(Post) /\ History(S, L) /\ Member(a, s, v, bx[a], w, vs, S, L)
  <2>1. History(S, L)
    BY DEF Core
  <2> QED
    BY <2>1, CoreTypes
<1>2. p \in Position /\ g \in 1..vs /\ g \in Nat
  BY <1>1, MemberGid DEF Position
<1>3. /\ w \in Seq(Position) /\ Len(w) = Len(bx[a]) + 1 /\ Ordered(w)
      /\ 1 \in 1..Len(bx[a]) /\ 1 \in 1..Len(w) /\ 2 \in 1..Len(w) /\ w[1] \in Position
  BY <1>1 DEF Member
<1>4. w[1].view = g /\ p.at \in 1..Len(log) /\ bx[a][1] = log[p.at]
  BY <1>1, <1>3 DEF Member, Delivers
<1>5. p.at = w[1].at + 1
  <2>1. w[1].view = w[2].view => w[2].at = w[1].at + (2 - 1)
    BY <1>3 DEF Ordered
  <2>2. w[1].at \in Nat
    BY <1>3 DEF Position
  <2> QED
    BY <1>4, <2>1, <2>2
<1>6. /\ T \in SUBSET Address /\ log \in Seq(Letter) /\ log[p.at] \in Letter
      /\ Sane(log[p.at], g, T, nd) /\ Answers(log, g)
  <2>1. T \in SUBSET Address /\ log \in Seq(Letter)
    BY <1>1, <1>2 DEF History
  <2>2. Logs(nd, S, L)
    BY DEF Core
  <2>3. \A h \in Nat : /\ \A i \in 1..Len(L[h]) : Sane(L[h][i], h, S[h], nd)
                       /\ Answers(L[h], h)
    BY <2>2 DEF Logs
  <2>4. Sane(log[p.at], g, T, nd) /\ Answers(log, g)
    BY <1>2, <1>4, <2>3
  <2> HIDE DEF p, g, T, log
  <2>5. log[p.at] \in Letter
    BY <1>4, <2>1
  <2> QED
    BY <2>1, <2>4, <2>5
<1>7. Hearing(a, s, w[1], T, log) /\ s.gid = g
  <2>1. g # 0
    BY <1>2
  <2>2. Stands(a, s, w[1], S, L)
    BY <1>1 DEF Member
  <2>3. Hearing(a, s, w[1], T, log)
    BY <1>4, <2>1, <2>2 DEF Stands
  <2> QED
    BY <1>4, <2>3 DEF Hearing
<1>8. m = log[p.at].body /\ m \in Message
  BY <1>4, <1>6 DEF Letter
<1> HIDE DEF s, v, w, g, T, log, m, q
<1>9. t \in Receive(s, m)
  BY DEF s, m
<1>10. Hearing(a, t, p, T, log) /\ t.out = s.out /\ t.mbox = s.mbox /\ t.gid = s.gid
  <2> DEFINE l == log[p.at]
  <2>1. p.view = w[1].view /\ g = p.view
    BY <1>4 DEF g
  <2>4. Follows(w[1], p)
    BY <1>2, <1>3, <1>5, <2>1 DEF Follows
  <2>2. CASE m \in StateMessage /\ m.gid = g
    <3>1. m.kind = "state"
      BY <2>2 DEF StateMessage
    <3>2. l.from \in T /\ m.gid = l.gid /\ m.from = l.from /\ (l.gid = g => m.idx = Rank(T, l.from))
      BY <1>6, <1>8, <3>1 DEF Sane
    <3>3. m.from = l.from /\ m.from \in T /\ m.idx = Rank(T, m.from) /\ m.gid = p.view
      BY <2>1, <2>2, <3>2
    <3>4. m = log[p.at].body /\ m.from = log[p.at].from
      BY <1>8, <3>3
    <3>5. AnswerAt(log, p, T, m)
      BY <1>4, <1>6, <2>1, <2>2, <3>3, <3>4 DEF AnswerAt
    <3> HIDE DEF p, l
    <3> QED
      BY <1>1, <1>7, <1>9, <2>4, <3>5, HearsState
  <2>3. CASE ~(m \in StateMessage /\ m.gid = g)
    <3>1. m \in StateMessage => m.gid # s.gid
      BY <1>7, <2>3
    <3> HIDE DEF p, l
    <3> QED
      BY <1>1, <1>7, <1>8, <1>9, <2>4, <3>1, HearsOther
  <2> QED
    BY <2>2, <2>3
<1>18. ASSUME Plain PROVE Tabled(a, t, p, T, log)
  <2>1. p.view = w[1].view /\ g = p.view
    BY <1>4 DEF g
  <2>2. Follows(w[1], p)
    BY <1>2, <1>3, <1>5, <2>1 DEF Follows
  <2>3. Tabled(a, s, w[1], T, log)
    <3>1. Stands(a, s, w[1], S, L)
      BY <1>1 DEF Member
    <3>2. g # 0
      BY <1>2
    <3> QED
      BY <1>18, <2>1, <3>1, <3>2 DEF Stands, T, log
  <2>4. CASE m \in StateMessage /\ m.gid = g
    <3>1. AnswerAt(log, p, T, m) /\ PlainState(m)
      <4>1. m.kind = "state"
        BY <2>4 DEF StateMessage
      <4>2. /\ log[p.at].from \in T /\ m.gid = log[p.at].gid /\ m.from = log[p.at].from
            /\ (log[p.at].gid = g => m.idx = Rank(T, log[p.at].from)) /\ PlainState(m)
        BY <1>6, <1>8, <1>18, <4>1 DEF Sane
      <4>3. /\ m.from = log[p.at].from /\ m.from \in T /\ m.idx = Rank(T, m.from)
            /\ m.gid = p.view /\ m = log[p.at].body
        BY <1>8, <2>1, <2>4, <4>2
      <4> QED
        BY <1>4, <1>6, <2>1, <2>4, <4>2, <4>3 DEF AnswerAt
    <3> HIDE DEF p
    <3> QED
      BY <1>1, <1>7, <1>9, <1>10, <1>18, <2>2, <2>3, <2>4, <3>1, TabledAnswer
  <2>5. CASE ~(m \in StateMessage /\ m.gid = g)
    <3>1. m \in StateMessage => m.gid # p.view
      BY <2>1, <2>5
    <3>2. Len(log) \in Nat
      BY <1>6
    <3> HIDE DEF p
    <3> QED
      BY <1>1, <1>4, <1>6, <1>7, <1>8, <1>9, <1>10, <1>18, <2>2, <2>3, <3>1, <3>2, TabledOther
  <2> QED
    BY <2>4, <2>5
<1>11. /\ Shape(a, q) /\ q.out = <<>> /\ q.gid = g /\ q.mbox = s.mbox /\ q.mat = t.mat
       /\ q.idx = t.idx /\ q.ip = t.ip /\ q.pending = t.pending /\ q.state = t.state /\ q.gid = t.gid
       /\ q.mbox = t.mbox
  <2>1. Shape(a, q)
    BY OutboxOff DEF q, Quiet
  <2> QED
    BY <1>7, <1>10, <2>1 DEF q, Quiet, Shape, DaemonType
<1>19. AsBefore(t, q)
  <2>1. /\ q.exit = t.exit /\ q.owner = t.owner /\ q.prio = t.prio /\ q.num = t.num
        /\ q.oldOwner = t.oldOwner /\ q.oldPrio = t.oldPrio /\ q.mess = t.mess
        /\ q.up = t.up /\ q.mine = t.mine /\ q.me = t.me
    BY DEF q, Quiet, Shape, DaemonType
  <2> QED
    BY <1>11, <2>1 DEF AsBefore
<1>20. ASSUME Simple PROVE Serves(a, t, p.view, log)
  <2>1. p.view = w[1].view /\ g = p.view /\ Plain
    BY <1>4, <1>20 DEF g, Simple
  <2>2. Follows(w[1], p)
    BY <1>2, <1>3, <1>5, <2>1 DEF Follows
  <2>3. Tabled(a, s, w[1], T, log) /\ Serves(a, s, p.view, log)
    <3>1. Stands(a, s, w[1], S, L)
      BY <1>1 DEF Member
    <3>2. g # 0
      BY <1>2
    <3> QED
      BY <1>20, <2>1, <3>1, <3>2 DEF Stands, T, log
  <2>4. CASE m \in StateMessage /\ m.gid = g
    <3>1. AnswerAt(log, p, T, m) /\ PlainState(m)
      <4>1. m.kind = "state"
        BY <2>4 DEF StateMessage
      <4>2. /\ log[p.at].from \in T /\ m.gid = log[p.at].gid /\ m.from = log[p.at].from
            /\ (log[p.at].gid = g => m.idx = Rank(T, log[p.at].from)) /\ PlainState(m)
        BY <1>6, <1>8, <2>1, <4>1 DEF Sane
      <4>3. /\ m.from = log[p.at].from /\ m.from \in T /\ m.idx = Rank(T, m.from)
            /\ m.gid = p.view /\ m = log[p.at].body
        BY <1>8, <2>1, <2>4, <4>2
      <4> QED
        BY <1>4, <1>6, <2>1, <2>4, <4>2, <4>3 DEF AnswerAt
    <3> HIDE DEF p
    <3> QED
      BY <1>1, <1>7, <1>9, <1>10, <1>18, <2>1, <2>2, <2>3, <2>4, <3>1, ServesAnswer
  <2>5. CASE ~(m \in StateMessage /\ m.gid = g)
    <3>1. m \in StateMessage => m.gid # p.view
      BY <2>1, <2>5
    <3>2. s.state = "RUN" /\ m \in BalanceMessage =>
            Moving(TableOf(s), MovesRead(m)) /\ Aimed(TableOf(s), MovesRead(m))
      <4> SUFFICES ASSUME s.state = "RUN", m \in BalanceMessage
                   PROVE  Moving(TableOf(s), MovesRead(m)) /\ Aimed(TableOf(s), MovesRead(m))
        OBVIOUS
      <4> DEFINE x == TableOf(s)
                 n == Cardinality(T)
      <4>1. w[1] \in Position /\ p.at > w[1].at /\ p.at - 1 = w[1].at /\ p.at - 1 \in Nat
            /\ Len(log) \in Nat /\ p.at - 1 <= Len(log)
        BY <1>4, <1>6, <2>2 DEF Follows, Position
      <4>2. log[p.at].from \in T
        BY <1>6 DEF Sane
      <4>3. Balances(log, g, n)
        BY <1>2, <1>20 DEF Core, Logs, log, T
      <4> HIDE DEF p, n, x
      <4>4. log[p.at].gid = g
        <5>1. Shape(a, s) /\ Hearing(a, s, w[1], T, log) /\ s.gid = g /\ Answers(log, w[1].view)
          BY <1>1, <1>4, <1>6, <1>7
        <5>2. T \in SUBSET Address /\ log \in Seq(Letter) /\ p.at \in 1..Len(log)
          BY <1>4, <1>6
        <5> QED
          BY <4>1, <4>2, <5>1, <5>2, HeardAll
      <4>5. Computed(log[p.at], log, p.at - 1, n, g)
        <5>1. m.kind = "balance"
          BY DEF BalanceMessage
        <5>2. p.at \in 1..Len(log) /\ log[p.at].body.kind = "balance"
          BY <1>4, <1>8, <5>1
        <5> QED
          BY <4>3, <4>4, <5>2, Zenon DEF Balances
      <4>6. PICK y : Reaches(y, n, log, p.at - 1, g) /\ Moving(y, MovesRead(m)) /\ Aimed(y, MovesRead(m))
        BY <1>8, <4>5 DEF Computed
      <4>7. Reaches(x, n, log, p.at - 1, g)
        BY <2>1, <2>3, <4>1 DEF Tabled, x, n
      <4>8. x = y
        BY <1>6, <4>1, <4>6, <4>7, ReachesUnique
      <4> QED
        BY <4>6, <4>8 DEF x
    <3> HIDE DEF p
    <3> QED
      BY <1>1, <1>4, <1>6, <1>7, <1>8, <1>9, <1>10, <1>18, <2>1, <2>2, <2>3, <3>1, <3>2, ServesOther
  <2> QED
    BY <2>4, <2>5
<1>12. Stands(a, q, p, S, L)
  <2>1. Stands(a, t, p, S, L)
    BY <1>2, <1>10, <1>18, <1>20 DEF Stands, T, log, g
  <2> HIDE DEF p
  <2> QED
    BY <1>19, <2>1, StandsSame
<1>13. Member(a, q, v, Tail(bx[a]), Tail(w), vs, S, L)
  BY <1>1, <1>11, <1>12, MemberTakes DEF g
<1>14. SameSession(t) /\ Posted(t) = <<>>
  BY <1>1, <1>10 DEF SameSession, Posted, Sent
<1>15. t.gid >= s.gid
  BY <1>1, <1>10
<1>16. \A e \in Letter : Posted(t) # <<e>>
  BY <1>14
<1>17. Continues(a, s, t, v, Tail(bx[a]), Tail(w), vs, S, L)
  BY <1>13, <1>14, <1>15, <1>16 DEF Continues, q
<1> QED
  BY <1>17 DEF s, v

\* What a daemon leaves that takes the next message of its inbox.
LEMMA ReceiveMoves ==
  ASSUME NEW nd, NEW vw, NEW bx, NEW vs, NEW S, NEW L, NEW W, Core(nd, vw, bx, vs, S, L, W),
         NEW a \in Address, nd[a].exit = "no", bx[a] # <<>>,
         NEW t \in Receive(nd[a], Head(bx[a]).body)
  PROVE  \/ Quits(a, nd[a], t, vs)
         \/ \E w : Continues(a, nd[a], t, vw[a], Tail(bx[a]), w, vs, S, L)
<1>1. /\ Shape(a, nd[a]) /\ bx[a] \in Seq(Post)
      /\ Member(a, nd[a], vw[a], bx[a], W[a], vs, S, L)
  BY CoreTypes
<1>2. Head(bx[a]) = bx[a][1] /\ bx[a][1] \in Post
  BY <1>1
<1>3. bx[a][1].body \in GroupMessage
  BY <1>2 DEF Post
<1>4. t \in Receive(nd[a], bx[a][1].body)
  BY <1>2
<1>5. Shape(a, t)
  BY <1>1, <1>3, <1>4, ReceiveShape
<1>6. vw[a] # NoView
  BY <1>1 DEF Member, Attached
<1>7. CASE W[a][2].at = 0
  BY <1>4, <1>5, <1>6, <1>7, ViewMoves
<1>8. CASE W[a][2].at # 0
  BY <1>4, <1>5, <1>6, <1>8, LetterMoves
<1> QED
  BY <1>7, <1>8

-----------------------------------------------------------------------------
(* A view is installed. *)

\* The views and the inboxes after the members T got the next view.
Joined(vw, vs, T) ==
  [a \in Address |-> IF a \in T THEN [gid |-> vs + 1, members |-> T] ELSE vw[a]]
Notified(bx, S, vs, T) ==
  [a \in Address |-> IF a \in T THEN Append(bx[a], ViewLetter(S, a, vs + 1)) ELSE bx[a]]

Numbered(S, vs, T) == [S EXCEPT ![vs + 1] = T]

\* The new view has no log yet.
LEMMA CoreInstalls ==
  ASSUME NEW nd, NEW vw, NEW bx, NEW vs, NEW S, NEW L, NEW W, Core(nd, vw, bx, vs, S, L, W),
         NEW T \in SUBSET Address, \A a \in T : nd[a].mbox
  PROVE  LET R == Numbered(S, vs, T)
         IN  \E X : Core(nd, Joined(vw, vs, T), Notified(bx, R, vs, T), vs + 1, R, L, X)
<1> DEFINE R   == Numbered(S, vs, T)
           vw2 == Joined(vw, vs, T)
           bx2 == Notified(bx, R, vs, T)
           X   == [b \in Address |-> IF b \in T THEN Append(W[b], [view |-> vs + 1, at |-> 0])
                                                ELSE W[b]]
<1>1. vs \in Nat /\ vs + 1 \in Nat /\ History(S, L)
  BY DEF Core
<1>2. /\ History(R, L) /\ R[vs + 1] = T
      /\ \A h \in Nat : h # vs + 1 => R[h] = S[h]
  BY <1>1 DEF History, Numbered
<1>3. L[vs + 1] = <<>>
  <2>1. vs + 1 > vs
    BY <1>1
  <2> QED
    BY <1>1, <2>1 DEF Core
<1>4. \A b \in Address : /\ vw[b] \in Views /\ vw[b].gid <= vs /\ nd[b].gid <= vs
                         /\ bx[b] \in Seq(Post) /\ W[b] \in Seq(Position)
                         /\ Member(b, nd[b], vw[b], bx[b], W[b], vs, S, L)
  <2> SUFFICES ASSUME NEW b \in Address
               PROVE  /\ vw[b] \in Views /\ vw[b].gid <= vs /\ nd[b].gid <= vs
                      /\ bx[b] \in Seq(Post) /\ W[b] \in Seq(Position)
                      /\ Member(b, nd[b], vw[b], bx[b], W[b], vs, S, L)
    OBVIOUS
  <2>1. /\ vw[b] \in Views /\ nd[b].gid <= vs
        /\ bx[b] \in Seq(Post) /\ W[b] \in Seq(Position)
        /\ Member(b, nd[b], vw[b], bx[b], W[b], vs, S, L)
    BY CoreTypes
  <2>2. vw[b].gid <= vs
    <3>1. vw[b] = NoView => vw[b].gid = 0
      BY DEF NoView
    <3>2. vw[b] # NoView => vw[b].gid \in 1..vs
      BY <2>1 DEF Member, Attached
    <3> QED
      BY <1>1, <3>1, <3>2
  <2> QED
    BY <2>1, <2>2
<1>5. \A b \in Address : Member(b, nd[b], vw[b], bx[b], W[b], vs + 1, R, L)
  BY <1>1, <1>4, MemberKnows DEF Numbered
<1> HIDE DEF R
<1>6. \A b \in Address : /\ vw2[b] \in Views /\ bx2[b] \in Seq(Post) /\ X[b] \in Seq(Position)
                         /\ Member(b, nd[b], vw2[b], bx2[b], X[b], vs + 1, R, L)
  <2> SUFFICES ASSUME NEW b \in Address
               PROVE  /\ vw2[b] \in Views /\ bx2[b] \in Seq(Post) /\ X[b] \in Seq(Position)
                      /\ Member(b, nd[b], vw2[b], bx2[b], X[b], vs + 1, R, L)
    OBVIOUS
  <2>1. CASE b \in T
    <3>1. /\ vw2[b] = [gid |-> vs + 1, members |-> R[vs + 1]]
          /\ bx2[b] = Append(bx[b], ViewLetter(R, b, vs + 1))
          /\ X[b] = Append(W[b], [view |-> vs + 1, at |-> 0])
      BY <1>2, <2>1 DEF Joined, Notified
    <3>2. Member(b, nd[b], vw2[b], bx2[b], X[b], vs + 1, R, L)
      <4>1. /\ b \in R[vs + 1] /\ nd[b].mbox /\ vw[b] \in Views /\ vw[b].gid <= vs
            /\ nd[b].gid <= vs /\ Member(b, nd[b], vw[b], bx[b], W[b], vs + 1, R, L)
        BY <1>2, <1>4, <1>5, <2>1
      <4>2. Member(b, nd[b], [gid |-> vs + 1, members |-> R[vs + 1]],
                   Append(bx[b], ViewLetter(R, b, vs + 1)),
                   Append(W[b], [view |-> vs + 1, at |-> 0]), vs + 1, R, L)
        BY <1>1, <1>2, <1>3, <4>1, MemberJoins
      <4> HIDE DEF vw2, bx2, X
      <4> QED
        BY <3>1, <4>2
    <3>3. vw2[b] \in Views
      BY <1>1, <1>2, <3>1 DEF Views
    <3> HIDE DEF vw2, bx2, X
    <3> QED
      BY <3>2, <3>3 DEF Member
  <2>2. CASE b \notin T
    <3>1. vw2[b] = vw[b] /\ bx2[b] = bx[b] /\ X[b] = W[b]
      BY <2>2 DEF Joined, Notified
    <3> HIDE DEF vw2, bx2, X
    <3> QED
      BY <1>4, <1>5, <3>1
  <2> QED
    BY <2>1, <2>2
<1>7. /\ vw2 \in [Address -> Views] /\ bx2 \in [Address -> Seq(Post)]
      /\ X \in [Address -> Seq(Position)]
  BY <1>6 DEF Joined, Notified
<1>8. \A g \in Nat : g > vs + 1 => L[g] = <<>>
  <2>1. \A g \in Nat : g > vs + 1 => g > vs
    BY <1>1
  <2> QED
    BY <2>1 DEF Core
<1>9. Logs(nd, R, L)
  <2> SUFFICES ASSUME NEW g \in Nat
               PROVE  /\ \A i \in 1..Len(L[g]) : Sane(L[g][i], g, R[g], nd)
                      /\ Answers(L[g], g)
                      /\ Simple => Balances(L[g], g, Cardinality(R[g]))
    BY DEF Logs
  <2>1. CASE g = vs + 1
    <3>1. Len(L[g]) = 0
      BY <1>3, <2>1
    <3> QED
      BY <3>1 DEF Answers, Balances
  <2>2. CASE g # vs + 1
    BY <1>2, <2>2 DEF Core, Logs
  <2> QED
    BY <2>1, <2>2
<1> HIDE DEF vw2, bx2, X
<1>10. Core(nd, vw2, bx2, vs + 1, R, L, X)
  BY <1>1, <1>2, <1>6, <1>7, <1>8, <1>9 DEF Core
<1> QED
  BY <1>10 DEF vw2, bx2, R

-----------------------------------------------------------------------------
(* The invariant. *)

\* It holds at the start: nobody is in a view.
LEMMA InitCluster ==
  ASSUME Init
  PROVE  Inv
<1> DEFINE S == [g \in Nat |-> {}]
           L == [g \in Nat |-> <<>>]
           W == [a \in Address |-> <<Outside>>]
<1>1. <<>> \in Seq(Letter) /\ <<>> \in Seq(Post) /\ Len(<<>>) = 0
  OBVIOUS
<1>2. History(S, L)
  BY <1>1 DEF History
<1>3. \A a \in Address : /\ Shape(a, node[a]) /\ node[a].out = <<>> /\ node[a].gid = 0
                         /\ ~node[a].mbox /\ Firm(node[a]) /\ Cleared(node[a])
  BY InitialShape DEF Init, InitialDaemon, Firm, Nobody, Cleared
<1>4. NoView \in Views
  BY DEF NoView, Views
<1>5. \A a \in Address : view[a] = NoView /\ inbox[a] = <<>> /\ W[a] = <<Outside>>
  BY DEF Init
<1>6. <<Outside>> \in Seq(Position)
  BY DEF Outside, Position
<1>7. /\ node \in [Address -> DaemonType] /\ view \in [Address -> Views]
      /\ inbox \in [Address -> Seq(Post)] /\ W \in [Address -> Seq(Position)]
  <2>1. \A a \in Address : node[a] \in DaemonType
    BY <1>3 DEF Shape
  <2> QED
    BY <1>1, <1>4, <1>6, <2>1 DEF Init
<1>8. views = 0 /\ faults = 0
  BY DEF Init
<1> HIDE DEF S, W
<1>9. \A a \in Address : Member(a, node[a], view[a], inbox[a], W[a], views, S, L)
  <2> SUFFICES ASSUME NEW a \in Address
               PROVE  Member(a, node[a], view[a], inbox[a], W[a], views, S, L)
    OBVIOUS
  <2> DEFINE t == node[a]
  <2> HIDE DEF L
  <2>1. /\ Shape(a, t) /\ t.out = <<>> /\ (t.mbox => ~t.mat) /\ t.gid <= 0 /\ 0 \in Nat
        /\ t.exit = "no" => Cleared(t) /\ (Plain => Firm(t))
    BY <1>3
  <2> HIDE DEF t
  <2>2. Member(a, t, NoView, <<>>, <<Outside>>, 0, S, L)
    BY <2>1, MemberLeaves
  <2> QED
    BY <1>5, <1>8, <2>2 DEF t
<1>10. Logs(node, S, L) /\ \A g \in Nat : g > views => L[g] = <<>>
  <2>1. \A g \in Nat : L[g] = <<>> /\ Len(L[g]) = 0
    BY <1>1
  <2> QED
    BY <2>1 DEF Logs, Answers, Balances
<1> HIDE DEF L
<1>11. Core(node, view, inbox, views, S, L, W)
  BY <1>2, <1>7, <1>8, <1>9, <1>10 DEF Core
<1> QED
  BY <1>8, <1>11, ClusterAssumption DEF Inv

\* Spread installs a view.
LEMMA InstallKeeps ==
  ASSUME Inv, NEW T \in Components, InstallView(T)
  PROVE  Inv'
<1>1. PICK S, L, W : Core(node, view, inbox, views, S, L, W)
  BY DEF Inv
<1>2. T \in SUBSET Address /\ \A a \in T : node[a].mbox
  BY ClusterAssumption DEF InstallView
<1> DEFINE R == Numbered(S, views, T)
<1>3. \E X : Core(node, Joined(view, views, T), Notified(inbox, R, views, T), views + 1, R, L, X)
  BY <1>1, <1>2, CoreInstalls
<1>4. R[views + 1] = T
  <2>1. views + 1 \in Nat /\ History(S, L)
    BY <1>1 DEF Core
  <2> QED
    BY <2>1 DEF History, Numbered
<1> HIDE DEF R
<1>5. node' = node /\ view' = Joined(view, views, T) /\ views' = views + 1 /\ faults' = faults
  BY DEF InstallView, Joined
<1>6. inbox' = Notified(inbox, R, views, T)
  BY <1>4 DEF InstallView, Notified, ViewLetter
<1>7. \E X : Core(node', view', inbox', views', R, L, X)
  BY <1>3, <1>5, <1>6
<1>8. views' \in 0..MaxViews /\ faults' \in 0..MaxFaults
  BY <1>5, ClusterAssumption DEF Inv, InstallView
<1> QED
  BY <1>7, <1>8 DEF Inv

\* A handler of a daemon.
LEMMA HandleKeeps ==
  ASSUME Inv, NEW S, NEW L, NEW W, Core(node, view, inbox, views, S, L, W),
         NEW a \in Address, NEW H, NEW box, Handle(a, H, box), UNCHANGED views,
         \A t \in H : \/ Quits(a, node[a], t, views)
                      \/ \E w : Continues(a, node[a], t, view[a], box, w, views, S, L)
  PROVE  Inv'
<1>1. \E M, X : Core(node', view', inbox', views', S, M, X)
  BY HandleCore
<1>2. faults' = faults \/ (faults' \in {faults, faults + 1} /\ faults' <= MaxFaults)
  BY DEF Handle
<1>3. views' \in 0..MaxViews /\ faults' \in 0..MaxFaults
  BY <1>2, ClusterAssumption DEF Inv
<1> QED
  BY <1>1, <1>3 DEF Inv

\* A timer or a command.
LEMMA LocalKeeps ==
  ASSUME Inv, NEW a \in Address, NEW H, Local(a, H),
         \A t \in H : /\ Shape(a, t) /\ t.gid = node[a].gid
                      /\ \/ Ended(node[a], t)
                         \/ Kept(node[a], t) /\ Offers(node[a], t, inbox[a])
  PROVE  Inv'
<1>1. PICK S, L, W : Core(node, view, inbox, views, S, L, W)
  BY DEF Inv
<1>2. \A t \in H : \/ Quits(a, node[a], t, views)
                   \/ \E w : Continues(a, node[a], t, view[a], inbox[a], w, views, S, L)
  BY <1>1, KeptMoves
<1>3. Handle(a, H, inbox[a]) /\ UNCHANGED views
  BY DEF Local
<1> QED
  BY <1>1, <1>2, <1>3, HandleKeeps

\* A message.
LEMMA ReceiveKeeps ==
  ASSUME Inv, NEW a \in Address, ReceiveNext(a)
  PROVE  Inv'
<1> DEFINE H == Receive(node[a], Head(inbox[a]).body)
<1>1. PICK S, L, W : Core(node, view, inbox, views, S, L, W)
  BY DEF Inv
<1>2. node[a].exit = "no" /\ inbox[a] # <<>>
  BY DEF ReceiveNext, Running
<1>3. \A t \in H : \/ Quits(a, node[a], t, views)
                   \/ \E w : Continues(a, node[a], t, view[a], Tail(inbox[a]), w, views, S, L)
  BY <1>1, <1>2, ReceiveMoves
<1>4. Handle(a, H, Tail(inbox[a])) /\ UNCHANGED views
  BY DEF ReceiveNext
<1> HIDE DEF H
<1> QED
  BY <1>1, <1>3, <1>4, HandleKeeps

\* A multicast sends its message only.
LEMMA SendsOne ==
  ASSUME NEW self, NEW s, Shape(self, s), s.out = <<>>, NEW m \in Message, NEW t \in Multicast(s, m),
         SameSession(t)
  PROVE  t.out = <<m>>
<1>1. ~Ended(s, t)
  BY DEF Ended, SameSession
<1>2. t = [s EXCEPT !.out = Append(s.out, m)]
  BY <1>1, MulticastEnds
<1> QED
  BY <1>2 DEF Shape, DaemonType

\* The maturing timer and the retry send no balance message.
LEMMA TimerOffers ==
  ASSUME NEW self, NEW s, Shape(self, s), s.out = <<>>, NEW t \in TurnMature(s) \cup RetryTimer(s),
         Kept(s, t), NEW box
  PROVE  Offers(s, t, box)
<1>1. SameSession(t)
  BY DEF Kept
<1>2. CASE t \in TurnMature(s)
  <2> DEFINE u == [s EXCEPT !.tMature = FALSE]
  <2>1. Shape(self, u) /\ u.out = <<>>
    BY DEF Shape, DaemonType
  <2>2. MaturingMessage \in Message /\ t \in Multicast(u, MaturingMessage)
    BY <1>2 DEF TurnMature, Message
  <2> HIDE DEF u
  <2>3. t.out = <<MaturingMessage>>
    BY <1>1, <2>1, <2>2, SendsOne
  <2> QED
    BY <2>3 DEF Offers, Sent, MaturingMessage
<1>3. CASE t \in RetryTimer(s)
  <2>1. Ended(s, t)
    BY <1>3, TimersOff, ReconnectEnds DEF RetryTimer
  <2> QED
    BY <1>1, <2>1 DEF Ended, SameSession
<1> QED
  BY <1>2, <1>3

\* The balance timer sends what Balance computed.
LEMMA BalanceTimerOffers ==
  ASSUME NEW self, NEW s, Shape(self, s), s.out = <<>>, NEW t \in BalanceTimer(s), Kept(s, t),
         NEW box, Simple => ~UnderWay(self, box)
  PROVE  Offers(s, t, box)
<1> DEFINE fired == [s EXCEPT !.tBalance = FALSE]
           buffer(m) == IF "balance" \in StaleKinds THEN InBuffer(s, m) ELSE Junk
           filled(m) == [fired EXCEPT !.mess = buffer(m)]
<1>1. SameSession(t) /\ s.me = self
  BY DEF Kept, Shape
<1>2. CASE s.idx # 1 \/ s.state # "RUN" \/ BalanceMessages(s) = {}
  <2>1. t \in {fired, BalanceAgain(fired)}
    BY <1>2 DEF BalanceTimer
  <2>2. t.out = <<>>
    BY <2>1 DEF BalanceAgain, Shape, DaemonType
  <2> QED
    BY <2>2 DEF Offers, Sent
<1>3. CASE s.idx = 1 /\ s.state = "RUN" /\ BalanceMessages(s) # {}
  <2>1. PICK m \in BalanceMessages(s) :
           \E u \in Multicast(filled(m), m) :
             t = IF u.exit = "no" THEN BalanceAgain([u EXCEPT !.state = "RUN"]) ELSE u
    BY <1>3 DEF BalanceTimer
  <2>2. PICK u \in Multicast(filled(m), m) :
           t = IF u.exit = "no" THEN BalanceAgain([u EXCEPT !.state = "RUN"]) ELSE u
    BY <2>1
  <2>3. m \in Message /\ m \in BalanceMessage
    BY BalanceMessagesType DEF Message
  <2>4. Shape(self, filled(m)) /\ filled(m).out = <<>>
    <3>1. buffer(m) \in Buffer
      BY <2>3, InBufferType DEF Buffer
    <3> HIDE DEF buffer
    <3> QED
      BY <3>1 DEF Shape, DaemonType
  <2> HIDE DEF filled
  <2>5. Shape(self, u)
    BY <2>2, <2>3, <2>4, MulticastShape
  <2>6. t.out = u.out
    BY <2>2, <2>5 DEF BalanceAgain, Shape, DaemonType
  <2>7. u.out = <<m>>
    <3>1. SameSession(u)
      BY <1>1, <2>6 DEF SameSession
    <3> QED
      BY <2>2, <2>3, <2>4, <3>1, SendsOne
  <2>8. \A i \in Sent(t, "balance") : t.out[i] = m
    BY <2>6, <2>7 DEF Sent
  <2> QED
    BY <1>1, <1>3, <2>8 DEF Offers
<1> QED
  BY <1>2, <1>3

\* None is under way when the balance timer fires, if at most one may be.
LEMMA NoneUnderWay ==
  ASSUME Inv, Simple, NEW a \in Address, BalancesUnderWay(a) < MaxBalances
  PROVE  ~UnderWay(a, inbox[a])
<1> DEFINE D == {i \in DOMAIN inbox[a] : inbox[a][i].from = a /\ inbox[a][i].body.kind = "balance"}
<1>1. inbox[a] \in Seq(Post)
  BY CoreTypes DEF Inv
<1>2. DOMAIN inbox[a] = 1..Len(inbox[a]) /\ Len(inbox[a]) \in Nat
  BY <1>1
<1>3. IsFiniteSet(1..Len(inbox[a]))
  BY <1>2, FS_Interval
<1>4. D \subseteq 1..Len(inbox[a])
  BY <1>2
<1>5. BalancesUnderWay(a) = Cardinality(D)
  BY DEF BalancesUnderWay
<1> HIDE DEF D
<1>6. IsFiniteSet(D)
  BY <1>3, <1>4, FS_Subset
<1>7. Cardinality(D) \in Nat /\ Cardinality(D) = 0
  BY <1>5, <1>6, FS_CardinalityType, ClusterAssumption DEF Simple
<1>8. D = {}
  BY <1>6, <1>7, FS_EmptySet
<1> QED
  BY <1>2, <1>8 DEF D, UnderWay

\* The invariant is inductive.
LEMMA NextCluster ==
  ASSUME Inv, [Next]_vars
  PROVE  Inv'
<1>1. CASE UNCHANGED vars
  BY <1>1 DEF vars, Inv
<1>2. CASE \E T \in Components : InstallView(T)
  BY <1>2, InstallKeeps
<1>3. ASSUME NEW a \in Address,
             \/ ReceiveNext(a)
             \/ Boot(a) \/ TurnMatureFires(a) \/ BalanceFires(a) \/ RetryFires(a)
             \/ Fail(a) \/ Recover(a) \/ Kill(a)
      PROVE  Inv'
  <2> DEFINE s == node[a]
  <2>1. Shape(a, s) /\ s.out = <<>>
    <3>1. PICK S, L, W : Core(node, view, inbox, views, S, L, W)
      BY DEF Inv
    <3> QED
      BY <3>1, CoreTypes
  <2> HIDE DEF s
  <2>2. CASE ReceiveNext(a)
    BY <2>2, ReceiveKeeps
  <2>3. CASE TurnMatureFires(a) \/ RetryFires(a)
    <3>1. \A t \in TurnMature(s) \cup RetryTimer(s) :
            /\ Shape(a, t) /\ t.gid = s.gid
            /\ Ended(s, t) \/ (Kept(s, t) /\ Offers(s, t, inbox[a]))
      BY <2>1, TimerShape, TimerGid, TimerKeeps, TimerOffers
    <3>2. Local(a, TurnMature(s)) \/ Local(a, RetryTimer(s))
      BY <2>3 DEF TurnMatureFires, RetryFires, s
    <3> QED
      BY <3>1, <3>2, LocalKeeps DEF s
  <2>4. CASE BalanceFires(a)
    <3>3. Simple => ~UnderWay(a, inbox[a])
      BY <2>4, NoneUnderWay DEF BalanceFires
    <3>1. \A t \in BalanceTimer(s) :
            /\ Shape(a, t) /\ t.gid = s.gid
            /\ Ended(s, t) \/ (Kept(s, t) /\ Offers(s, t, inbox[a]))
      BY <2>1, <3>3, BalanceTimerShape, BalanceTimerGid, BalanceTimerKeeps, BalanceTimerOffers
    <3>2. Local(a, BalanceTimer(s))
      BY <2>4 DEF BalanceFires, s
    <3> QED
      BY <3>1, <3>2, LocalKeeps DEF s
  <2>5. CASE Boot(a) \/ Fail(a) \/ Recover(a) \/ Kill(a)
    <3>1. \A t \in Start(s) \cup ServiceFailure(s) \cup ServiceSuccess(s) \cup {Signal(s)} :
            Shape(a, t) /\ t.gid = s.gid /\ Ended(s, t)
      BY <2>1, StartShape, ServiceShape, SignalShape, CommandsGid, CommandsEnd
    <3>2. PICK H \in {Start(s), ServiceFailure(s), ServiceSuccess(s), {Signal(s)}} : Local(a, H)
      BY <2>5 DEF Boot, Fail, Recover, Kill, s
    <3>3. \A t \in H : Shape(a, t) /\ t.gid = s.gid /\ Ended(s, t)
      BY <3>1, <3>2
    <3> QED
      BY <3>2, <3>3, LocalKeeps DEF s
  <2> QED
    BY <1>3, <2>2, <2>3, <2>4, <2>5
<1> QED
  BY <1>1, <1>2, <1>3 DEF Next

\* What the invariant says of types.
LEMMA InvTypes ==
  ASSUME Inv
  PROVE  TypeOK
<1>1. PICK S, L, W : Core(node, view, inbox, views, S, L, W)
  BY DEF Inv
<1>2. \A a \in Address : DOMAIN node[a].num = DOMAIN node[a].ip
  BY <1>1, CoreTypes DEF Shape
<1>3. /\ views \in 0..MaxViews /\ faults \in 0..MaxFaults /\ views \in Nat
      /\ views <= MaxViews /\ MaxViews \in Nat
  BY ClusterAssumption DEF Inv
<1>4. view \in [Address -> [gid : 0..MaxViews, members : SUBSET Address]]
  <2>1. ASSUME NEW a \in Address PROVE view[a] \in [gid : 0..MaxViews, members : SUBSET Address]
    <3>1. view[a] \in Views /\ Member(a, node[a], view[a], inbox[a], W[a], views, S, L)
      BY <1>1, CoreTypes
    <3>2. view[a].gid \in 0..MaxViews
      <4>1. CASE view[a] = NoView
        BY <1>3, <4>1 DEF NoView
      <4>2. CASE view[a] # NoView
        BY <1>3, <3>1, <4>2 DEF Member, Attached
      <4> QED
        BY <4>1, <4>2
    <3> QED
      BY <3>1, <3>2 DEF Views
  <2>2. view \in [Address -> Views]
    BY <1>1 DEF Core
  <2> QED
    BY <2>1, <2>2
<1>5. \A a \in Address : \A i \in DOMAIN inbox[a] : inbox[a][i].gid \in 0..MaxViews
  <2> SUFFICES ASSUME NEW a \in Address, NEW i \in DOMAIN inbox[a]
               PROVE  inbox[a][i].gid \in 0..MaxViews
    OBVIOUS
  <2>1. inbox[a] \in Seq(Post) /\ Member(a, node[a], view[a], inbox[a], W[a], views, S, L)
    BY <1>1, CoreTypes
  <2>2. i \in 1..Len(inbox[a])
    BY <2>1
  <2> DEFINE p == W[a][i + 1]
  <2>3. /\ p.view \in 1..views
        /\ p.at = 0 => inbox[a][i] = ViewLetter(S, a, p.view)
        /\ p.at # 0 => p.at \in 1..Len(L[p.view]) /\ inbox[a][i] = L[p.view][p.at]
    BY <2>1, <2>2 DEF Member, Delivers
  <2> HIDE DEF p
  <2>4. CASE p.at = 0
    BY <1>3, <2>3, <2>4 DEF ViewLetter
  <2>5. CASE p.at # 0
    <3> DEFINE e == L[p.view][p.at]
    <3>1. p.view \in Nat
      BY <2>3
    <3>2. Sane(e, p.view, S[p.view], node)
      BY <1>1, <2>3, <2>5, <3>1 DEF Core, Logs
    <3>3. e \in Letter /\ S[p.view] \in SUBSET Address
      <4>1. L[p.view] \in Seq(Letter) /\ S[p.view] \in SUBSET Address
        BY <1>1, <3>1 DEF Core, History
      <4> QED
        BY <2>3, <2>5, <4>1
    <3> HIDE DEF e
    <3>4. e.from \in Address /\ e.gid <= node[e.from].gid /\ e.gid \in Nat
      BY <3>2, <3>3 DEF Sane, Letter
    <3>5. node[e.from].gid \in Nat /\ node[e.from].gid <= views
      BY <1>1, <3>4, CoreTypes
    <3>6. e.gid \in 0..MaxViews
      BY <1>3, <3>4, <3>5, ClusterAssumption
    <3> QED
      BY <2>3, <2>5, <3>6 DEF e
  <2> QED
    BY <2>4, <2>5
<1> QED
  BY <1>1, <1>2, <1>3, <1>4, <1>5 DEF TypeOK, Core

\* The daemons, the views and what is under way keep their types, and nothing under way
\* names a view that was not installed.
THEOREM TypeCorrect == Spec => []TypeOK
<1>1. Inv /\ [Next]_vars => Inv'
  BY NextCluster
<1>2. Init => Inv
  BY InitCluster
<1>3. Inv => TypeOK
  BY InvTypes
<1> QED
  BY <1>1, <1>2, <1>3, PTL DEF Spec

-----------------------------------------------------------------------------
(* Balance messages. *)

\* A daemon that is not in RUN makes no moves.
LEMMA IdleBalance ==
  ASSUME NEW a, NEW s, Shape(a, s), s.state # "RUN", NEW m \in BalanceMessage, NEW t \in Receive(s, m)
  PROVE  t.owner = s.owner
<1> DEFINE r == Received(s, m)
           b == InBuffer(s, m)
<1>1. b \in BalanceMessage /\ b.kind = "balance"
  BY InBufferType DEF BalanceMessage
<1>2. m \in GroupMessage
  BY DEF GroupMessage, Message
<1>3. SameTables(s, r) /\ Same(s, r)
  BY <1>2, ReceivedSame
<1>4. t \in Dispatch(r, b)
  BY DEF Receive, Received
<1> HIDE DEF r, b
<1>5. t = HandleBalance(r, b)
  BY <1>1, <1>4 DEF Dispatch
<1>6. t = r
  BY <1>3, <1>5 DEF HandleBalance, Same
<1> QED
  BY <1>3, <1>6 DEF SameTables

\* A daemon that makes the moves of a message is in the view of the message.
LEMMA BalanceNow ==
  ASSUME NEW nd, NEW vw, NEW bx, NEW vs, NEW S, NEW L, NEW W, Core(nd, vw, bx, vs, S, L, W),
         NEW a \in Address, bx[a] # <<>>, bx[a][1].body.kind = "balance", nd[a].state = "RUN"
  PROVE  bx[a][1].gid = nd[a].gid
<1> DEFINE s == nd[a]
           w == W[a]
           p == w[2]
           g == p.view
           T == S[g]
           log == L[g]
<1>1. /\ Shape(a, s) /\ bx[a] \in Seq(Post) /\ vw[a] \in Views /\ vs \in Nat
      /\ Member(a, s, vw[a], bx[a], w, vs, S, L)
  BY CoreTypes
<1>2. vw[a] # NoView
  BY <1>1 DEF Member, Attached
<1>3. p \in Position /\ g \in 1..vs /\ g \in Nat
  BY <1>1, <1>2, MemberGid DEF Position
<1>4. /\ w \in Seq(Position) /\ Len(w) = Len(bx[a]) + 1 /\ Ordered(w)
      /\ 1 \in 1..Len(bx[a]) /\ 1 \in 1..Len(w) /\ 2 \in 1..Len(w) /\ w[1] \in Position
  BY <1>1 DEF Member
<1>5. p.at # 0
  <2>1. p.at = 0 => bx[a][1] = ViewLetter(S, a, g)
    BY <1>1, <1>4 DEF Member, Delivers
  <2> QED
    BY <2>1 DEF ViewLetter
<1>6. w[1].view = g /\ p.at \in 1..Len(log) /\ bx[a][1] = log[p.at]
  BY <1>1, <1>4, <1>5 DEF Member, Delivers
<1>7. Follows(w[1], p)
  <2>1. w[1].view = w[2].view => w[2].at = w[1].at + (2 - 1)
    BY <1>4 DEF Ordered
  <2>2. w[1].at \in Nat
    BY <1>4 DEF Position
  <2> QED
    BY <1>3, <1>4, <1>6, <2>1, <2>2 DEF Follows
<1>8. /\ T \in SUBSET Address /\ log \in Seq(Letter) /\ log[p.at].from \in T /\ Answers(log, g)
  BY <1>3, <1>6 DEF Core, History, Logs, Sane
<1>9. Hearing(a, s, w[1], T, log)
  <2>1. g # 0
    BY <1>3
  <2> QED
    BY <1>1, <1>6, <2>1 DEF Member, Stands
<1> HIDE DEF s, T, log, w
<1>10. log[p.at].gid = s.gid
  <2>1. s.state = "RUN"
    BY DEF s
  <2>2. w[1] \in Position /\ p.at > w[1].at /\ w[1].view = g
    BY <1>6, <1>7 DEF Follows, Position
  <2> HIDE DEF p, g
  <2> QED
    BY <1>1, <1>6, <1>8, <1>9, <2>1, <2>2, HeardAll
<1> QED
  BY <1>6, <1>10 DEF s

\* A balance message that was sent in an earlier view, and is ordered after the view that
\* its sender had not received, changes no table.
THEOREM BalanceInItsViewCorrect == Spec => BalanceInItsView
<1>1. ASSUME Inv, [Next]_vars
      PROVE  [\A a \in Address :
                /\ ReceiveNext(a) /\ Head(inbox[a]).body.kind = "balance"
                /\ node'[a].owner # node[a].owner
                => Head(inbox[a]).gid = node[a].gid]_vars
  <2> SUFFICES ASSUME NEW a \in Address, ReceiveNext(a), Head(inbox[a]).body.kind = "balance",
                      node'[a].owner # node[a].owner
               PROVE  Head(inbox[a]).gid = node[a].gid
    OBVIOUS
  <2>1. PICK S, L, W : Core(node, view, inbox, views, S, L, W)
    BY <1>1 DEF Inv
  <2>2. Shape(a, node[a]) /\ inbox[a] \in Seq(Post) /\ inbox[a] # <<>>
    BY <2>1, CoreTypes DEF ReceiveNext
  <2>3. Head(inbox[a]) = inbox[a][1] /\ inbox[a][1] \in Post
    BY <2>2
  <2> DEFINE m == inbox[a][1].body
  <2>4. m \in BalanceMessage
    <3>1. m \in GroupMessage /\ m.kind = "balance"
      BY <2>3 DEF Post
    <3> QED
      BY <3>1 DEF GroupMessage, ViewMessage, Message, StateMessage, BalanceMessage,
                  MaturingMessage, ArpMessage
  <2>5. PICK t \in Receive(node[a], m) : node' = [node EXCEPT ![a] = [t EXCEPT !.out = <<>>]]
    BY <2>3 DEF ReceiveNext, Handle
  <2> HIDE DEF m
  <2>6. Shape(a, t)
    BY <2>2, <2>4, ReceiveShape DEF GroupMessage, Message
  <2>7. node'[a].owner = t.owner
    <3>1. node \in [Address -> DaemonType]
      BY <2>1 DEF Core
    <3>2. node'[a] = [t EXCEPT !.out = <<>>]
      BY <2>5, <3>1
    <3> QED
      BY <2>6, <3>2 DEF Shape, DaemonType
  <2>8. node[a].state = "RUN"
    BY <2>2, <2>4, <2>7, IdleBalance
  <2> QED
    BY <2>1, <2>2, <2>3, <2>8, BalanceNow
<1>2. Inv /\ [Next]_vars => Inv'
  BY NextCluster
<1>3. Init => Inv
  BY InitCluster
<1> QED
  BY <1>1, <1>2, <1>3, PTL DEF Spec, BalanceInItsView

-----------------------------------------------------------------------------
(* Agreement. *)

\* Only a view is addressed to its receiver.
LEMMA ViewTo ==
  ASSUME NEW nd, NEW vw, NEW bx, NEW vs, NEW S, NEW L, NEW W, Core(nd, vw, bx, vs, S, L, W),
         NEW a \in Address, NEW i \in 1..Len(bx[a])
  PROVE  IF bx[a][i].body.kind = "view" THEN bx[a][i].from = a ELSE W[a][i + 1].at # 0
<1> DEFINE p == W[a][i + 1]
<1>1. Member(a, nd[a], vw[a], bx[a], W[a], vs, S, L) /\ vs \in Nat
  BY CoreTypes
<1>2. /\ p.view \in 1..vs
      /\ p.at = 0 => bx[a][i] = ViewLetter(S, a, p.view)
      /\ p.at # 0 => p.at \in 1..Len(L[p.view]) /\ bx[a][i] = L[p.view][p.at]
  BY <1>1 DEF Member, Delivers
<1> HIDE DEF p
<1>3. CASE p.at = 0
  BY <1>2, <1>3 DEF ViewLetter
<1>4. CASE p.at # 0
  <2>1. L[p.view] \in Seq(Letter)
    <3>1. p.view \in Nat
      BY <1>1, <1>2
    <3> QED
      BY <3>1 DEF Core, History
  <2>2. bx[a][i] \in Letter
    BY <1>2, <1>4, <2>1
  <2>3. bx[a][i].body.kind # "view"
    BY <2>2 DEF Letter, Message, StateMessage, BalanceMessage, MaturingMessage, ArpMessage
  <2> QED
    BY <1>4, <2>3 DEF p
<1> QED
  BY <1>3, <1>4

\* A mature daemon that will not receive another view stands in the log of its view where
\* what it has not read yet begins.
LEMMA StandsBefore ==
  ASSUME NEW nd, NEW vw, NEW bx, NEW vs, NEW S, NEW L, NEW W, Core(nd, vw, bx, vs, S, L, W),
         NEW a \in Address, nd[a].mbox, nd[a].mat,
         \A i \in 1..Len(bx[a]) : bx[a][i].body.kind # "view"
  PROVE  LET g == nd[a].gid
         IN  /\ W[a][1].view = g /\ g \in Nat /\ g # 0
             /\ W[a][1].at \in Nat /\ W[a][1].at + Len(bx[a]) = Len(L[g])
<1> DEFINE s == nd[a]
           v == vw[a]
           w == W[a]
           g == w[1].view
           n == Len(bx[a])
<1>1. /\ bx[a] \in Seq(Post) /\ v \in Views /\ vs \in Nat
      /\ Member(a, s, v, bx[a], w, vs, S, L)
  BY CoreTypes
<1>2. /\ n \in Nat /\ Len(w) = n + 1 /\ w \in Seq(Position) /\ Ordered(w)
      /\ \A i \in 1..(n + 1) : w[i] \in Position
  BY <1>1 DEF Member
<1>3. w[1] \in Position /\ g \in Nat /\ w[1].at \in Nat
  BY <1>2 DEF Position
<1>4. g # 0
  BY <1>1 DEF Member, Stands
<1>5. s.gid = g
  BY <1>1, <1>4 DEF Member, Stands, Hearing
<1>6. v # NoView
  BY <1>1, <1>4 DEF Member, Attached, Outside
<1>7. w[n + 1] = [view |-> v.gid, at |-> Len(L[v.gid])]
  BY <1>1, <1>2, <1>6 DEF Member, Attached
<1>8. \A i \in 1..n : w[i].view = w[i + 1].view
  <2>1. \A i \in 1..n : w[i + 1].at # 0
    BY ViewTo
  <2> QED
    BY <1>1, <2>1 DEF Member, Delivers
<1> HIDE DEF s, v, w, g, n
<1>9. w[n + 1].view = g
  <2> DEFINE D == {i \in 1..(n + 1) : w[i].view # g}
             m == Min(D)
  <2> SUFFICES ASSUME w[n + 1].view # g PROVE FALSE
    OBVIOUS
  <2>1. D # {} /\ D \in SUBSET Nat
    <3>1. n + 1 \in 1..(n + 1)
      BY <1>2
    <3> QED
      BY <3>1
  <2> HIDE DEF D
  <2>2. m \in D /\ \A i \in D : m <= i
    BY <2>1, HasMin
  <2> HIDE DEF m
  <2>3. m \in 1..(n + 1) /\ w[m].view # g
    BY <2>2 DEF D
  <2>4. m # 1
    BY <2>3 DEF g
  <2>5. m - 1 \in 1..n /\ (m - 1) + 1 = m /\ m - 1 \in 1..(n + 1) /\ ~(m <= m - 1)
    BY <1>2, <2>3, <2>4
  <2>6. w[m - 1].view = g
    BY <2>2, <2>5 DEF D
  <2>7. w[m - 1].view = w[(m - 1) + 1].view
    BY <1>8, <2>5
  <2> QED
    BY <2>3, <2>5, <2>6, <2>7
<1>10. w[n + 1].at = w[1].at + n
  <2>1. 1 \in 1..Len(w) /\ n + 1 \in 1..Len(w) /\ 1 <= n + 1
    BY <1>2
  <2>2. w[1].view = w[n + 1].view => w[n + 1].at = w[1].at + ((n + 1) - 1)
    BY <1>2, <2>1 DEF Ordered
  <2>3. w[1].view = w[n + 1].view
    BY <1>9 DEF g
  <2> QED
    BY <1>2, <1>3, <2>2, <2>3
<1>11. v.gid = g /\ w[n + 1].at = Len(L[g])
  BY <1>7, <1>9
<1> QED
  BY <1>3, <1>4, <1>5, <1>10, <1>11 DEF s, w, g, n

\* Two members in RUN that have received the same of their view have the same tables.
LEMMA SameView ==
  ASSUME Plain,
         NEW nd, NEW vw, NEW bx, NEW vs, NEW S, NEW L, NEW W, Core(nd, vw, bx, vs, S, L, W),
         NEW a \in Address, nd[a].mbox, nd[a].mat, NEW b \in Address, nd[b].mbox, nd[b].mat,
         nd[a].gid = nd[b].gid, bx[a] = bx[b]
  PROVE  TableOf(nd[a]) = TableOf(nd[b])
<1> DEFINE g == nd[a].gid
           i == W[a][1].at
           n == Cardinality(S[g])
<1> SUFFICES ASSUME a # b PROVE TableOf(nd[a]) = TableOf(nd[b])
  OBVIOUS
<1>1. \A k \in 1..Len(bx[a]) : bx[a][k].body.kind # "view"
  <2> SUFFICES ASSUME NEW k \in 1..Len(bx[a]), bx[a][k].body.kind = "view" PROVE FALSE
    OBVIOUS
  <2>1. bx[a][k].from = a
    BY ViewTo
  <2>2. k \in 1..Len(bx[b]) /\ bx[b][k].body.kind = "view"
    OBVIOUS
  <2>3. bx[b][k].from = b
    BY <2>2, ViewTo
  <2> QED
    BY <2>1, <2>3
<1>2. /\ W[a][1].view = g /\ g \in Nat /\ g # 0 /\ i \in Nat /\ i + Len(bx[a]) = Len(L[g])
  BY <1>1, StandsBefore
<1>3. /\ W[b][1].view = g /\ W[b][1].at \in Nat /\ W[b][1].at + Len(bx[a]) = Len(L[g])
  <2>1. \A k \in 1..Len(bx[b]) : bx[b][k].body.kind # "view"
    BY <1>1
  <2> QED
    BY <2>1, StandsBefore
<1>4. /\ Member(a, nd[a], vw[a], bx[a], W[a], vs, S, L) /\ bx[a] \in Seq(Post)
      /\ Member(b, nd[b], vw[b], bx[b], W[b], vs, S, L)
  BY CoreTypes
<1>5. W[b][1].at = i
  <2>1. Len(bx[a]) \in Nat
    BY <1>4
  <2> QED
    BY <1>2, <1>3, <2>1
<1>6. Tabled(a, nd[a], W[a][1], S[g], L[g])
  BY <1>2, <1>4 DEF Member, Stands
<1>7. Tabled(b, nd[b], W[b][1], S[g], L[g])
  BY <1>2, <1>3, <1>4 DEF Member, Stands
<1>8. L[g] \in Seq(Letter)
  BY <1>2 DEF Core, History
<1>9. i <= Len(L[g]) /\ Reaches(TableOf(nd[a]), n, L[g], i, g) /\ Reaches(TableOf(nd[b]), n, L[g], i, g)
  BY <1>2, <1>3, <1>5, <1>6, <1>7 DEF Tabled
<1> HIDE DEF g, i, n
<1> QED
  BY <1>2, <1>8, <1>9, ReachesUnique

\* Where no address is preferred, and no balance message stays in the buffer for a packet
\* too short to be read as another one: members of one view that have received the same of
\* it agree on their tables.
THEOREM AgreementCorrect ==
  ASSUME Plain
  PROVE  Spec => []Agreement
<1>1. Inv => Agreement
  <2> SUFFICES ASSUME Inv, NEW a \in Address, NEW b \in Address, InRun(a), InRun(b),
                      node[a].gid = node[b].gid, inbox[a] = inbox[b]
               PROVE  /\ node[a].owner = node[b].owner /\ node[a].prio = node[b].prio
                      /\ node[a].num = node[b].num /\ node[a].ip = node[b].ip
    BY DEF Agreement
  <2>1. PICK S, L, W : Core(node, view, inbox, views, S, L, W)
    BY DEF Inv
  <2>2. node[a].mbox /\ node[a].mat /\ node[b].mbox /\ node[b].mat
    BY DEF InRun
  <2>3. TableOf(node[a]) = TableOf(node[b])
    BY <2>1, <2>2, SameView
  <2> QED
    BY <2>3 DEF TableOf
<1>2. Inv /\ [Next]_vars => Inv'
  BY NextCluster
<1>3. Init => Inv
  BY InitCluster
<1> QED
  BY <1>1, <1>2, <1>3, PTL DEF Spec

-----------------------------------------------------------------------------
(* The interfaces. *)

\* A member in RUN has up what its table gives it, and its table gives every interface to a
\* member.
LEMMA RunServes ==
  ASSUME Simple,
         NEW nd, NEW vw, NEW bx, NEW vs, NEW S, NEW L, NEW W, Core(nd, vw, bx, vs, S, L, W),
         NEW a \in Address, nd[a].mbox, nd[a].mat, nd[a].state = "RUN"
  PROVE  /\ nd[a].up = {v \in Vip : nd[a].owner[v] = a}
         /\ \A v \in Vip : nd[a].owner[v] \in S[nd[a].gid]
<1> DEFINE s == nd[a]
           w == W[a][1]
           T == S[w.view]
           log == L[w.view]
<1>1. Shape(a, s) /\ Member(a, s, vw[a], bx[a], W[a], vs, S, L) /\ W[a] \in Seq(Position)
  BY CoreTypes
<1>2. w \in Position /\ w.view # 0
  BY <1>1 DEF Member, Stands
<1>3. T \in SUBSET Address
  BY <1>2 DEF Core, History, Position
<1>4. Hearing(a, s, w, T, log) /\ Tabled(a, s, w, T, log) /\ Serves(a, s, w.view, log)
  BY <1>1, <1>2 DEF Member, Stands, Simple
<1> HIDE DEF s, w, T, log
<1>5. s.state = "RUN"
  BY DEF s
<1>6. Heard(s) /\ Decided(s) /\ Backed(TableOf(s)) /\ s.gid = w.view
  BY <1>2, <1>3, <1>4, <1>5, TabledRuns DEF Tabled, Tidy, Serves, Hearing
<1>7. s.ip[s.idx] # NoAddr
  BY <1>3, <1>4, <1>6, OwnIndex DEF Heard
<1>8. s.up = Owned(s) /\ s.me = a
  BY <1>1, <1>4, <1>5, <1>7 DEF Serves, Shape
<1>9. ASSUME NEW v \in Vip PROVE s.owner[v] \in T
  <2>1. s.prio[v] # UNCLAIMED
    BY <1>6 DEF Decided, CLAIMED, UNCLAIMED
  <2>2. PICK k \in DOMAIN s.ip : s.ip[k] = s.owner[v]
    BY <1>6, <2>1 DEF Backed, TableOf
  <2> QED
    BY <1>4, <1>6, <2>2 DEF Heard, Hearing
<1> QED
  BY <1>6, <1>8, <1>9 DEF Owned, s, T

\* Where nothing is preferred, no balance message stays in the buffer, and a daemon has at
\* most one under way: the interfaces up at a member in RUN are exactly those its table
\* gives it, whatever views, state messages and moves it has handled before, and however
\* its sessions have ended.
THEOREM UpInClusterCorrect ==
  ASSUME Simple
  PROVE  Spec => []UpMatchesTable
<1>1. Inv => UpMatchesTable
  <2> SUFFICES ASSUME Inv, NEW a \in Address, InRun(a)
               PROVE  node[a].up = {v \in Vip : node[a].owner[v] = a}
    BY DEF UpMatchesTable
  <2>1. PICK S, L, W : Core(node, view, inbox, views, S, L, W)
    BY DEF Inv
  <2> QED
    BY <2>1, RunServes DEF InRun
<1>2. Inv /\ [Next]_vars => Inv'
  BY NextCluster
<1>3. Init => Inv
  BY InitCluster
<1> QED
  BY <1>1, <1>2, <1>3, PTL DEF Spec

\* And then the members of a settled component cover all virtual interfaces, each exactly
\* once.
THEOREM CoveredCorrect ==
  ASSUME Simple
  PROVE  Spec => []CoveredOnce
<1>1. Inv => CoveredOnce
  <2> SUFFICES ASSUME Inv, NEW a \in Address, Settled(a), NEW v \in Vip
               PROVE  Cardinality({b \in view[a].members : v \in node[b].up}) = 1
    BY DEF CoveredOnce
  <2>1. PICK S, L, W : Core(node, view, inbox, views, S, L, W)
    BY DEF Inv
  <2> DEFINE M == view[a].members
             c == node[a].owner[v]
  <2>2. a \in M /\ M \in SUBSET Address /\ M = S[view[a].gid]
    <3>1. view[a] \in Views /\ Member(a, node[a], view[a], inbox[a], W[a], views, S, L)
      BY <2>1, CoreTypes
    <3> QED
      BY <3>1 DEF Settled, Intact, Member, Attached, Views
  <2>3. \A b \in M : /\ node[b].mbox /\ node[b].mat /\ node[b].state = "RUN"
                     /\ node[b].gid = view[a].gid /\ inbox[b] = <<>>
    BY DEF Settled, InRun
  <2> HIDE DEF M
  <2>4. c \in M
    BY <2>1, <2>2, <2>3, RunServes
  <2>5. ASSUME NEW b \in M PROVE v \in node[b].up <=> b = c
    <3>1. TableOf(node[a]) = TableOf(node[b])
      BY <2>1, <2>2, <2>3, SameView DEF Simple
    <3>2. node[b].owner = node[a].owner
      BY <3>1 DEF TableOf
    <3>3. node[b].up = {u \in Vip : node[b].owner[u] = b}
      BY <2>1, <2>2, <2>3, RunServes
    <3> QED
      BY <3>2, <3>3
  <2>6. {b \in M : v \in node[b].up} = {c}
    BY <2>4, <2>5
  <2>7. Cardinality({c}) = 1
    BY FS_Singleton
  <2> QED
    BY <2>6, <2>7 DEF M
<1>2. Inv /\ [Next]_vars => Inv'
  BY NextCluster
<1>3. Init => Inv
  BY InitCluster
<1> QED
  BY <1>1, <1>2, <1>3, PTL DEF Spec
=============================================================================
