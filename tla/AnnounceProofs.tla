----------------------------- MODULE AnnounceProofs -----------------------------
(***************************************************************************)
(* What a daemon knows of its neighbours and tells them.  First the table  *)
(* of abt.c: it is an ordered map for every set of addresses, of any size, *)
(* and holds the last entry added for each address, until memory before    *)
(* the array has been taken in; the addresses it keeps for ever, but those *)
(* written before it.  The invariant that is inductive follows the search: *)
(* what it leaves out on either side is known to be below or above the     *)
(* address looked for.                                                     *)
(*                                                                         *)
(* Then the table with everything around it: reports of any length and     *)
(* content reach it only one entry at a time, so a step of the daemon is a *)
(* step of the table or leaves it alone.                                   *)
(*                                                                         *)
(* Then the announcements.  A round is a function over its turns; what is  *)
(* true of all that it may return is shown turn by turn, by taking the     *)
(* first turn after which it were false (RoundKeeps).  From that the types *)
(* of the daemon, and that an invocation whose rounds are over has left    *)
(* nobody out: what is not announced yet is in the copy of the cache or    *)
(* in the count of what is left (Turning), and a round that sends nothing  *)
(* finds both empty (RoundDone).                                           *)
(***************************************************************************)
EXTENDS Announce, FiniteSetTheorems, NaturalsInduction, WellFoundedInduction, TLAPS

-----------------------------------------------------------------------------
(* The table. *)

TableType ==
  /\ size \in Nat
  /\ data \in [0..(size - 1) -> Entry]
  /\ arg \in Entry \cup {NoEntry}

TableInv == TableType /\ Sorted /\ SearchInv /\ HoldsAdded

\* Addresses are compared as numbers.
LEMMA Keys ==
  ASSUME TableType
  PROVE  /\ \A i \in 0..(size - 1) : data[i] \in Entry /\ data[i].ip \in Nat
         /\ arg \in Entry => arg.ip \in Nat
  BY EntryAssumption DEF TableType, Entry

\* The middle of a range lies in the range.
LEMMA MiddleBetween ==
  ASSUME f \in Int, l \in Int, f <= l
  PROVE  Middle \in Int /\ f <= Middle /\ Middle <= l /\ (Middle = l => f = l)
  BY DEF Middle

\* Comparing one more entry keeps what the search knows.
LEMMA ProbeKeeps == ASSUME TableInv, Probe PROVE TableInv'
<1> USE DEF TableInv, TableType
<1>0. /\ \A i \in 0..(size - 1) : data[i] \in Entry /\ data[i].ip \in Nat
      /\ arg \in Entry => arg.ip \in Nat
  BY Keys
<1>1. /\ arg \in Entry /\ ~Idle
      /\ f \in 0..size /\ l \in -1..size /\ f <= l
  BY NoEntryAssumption DEF SearchInv, Probe, Searching, Idle
<1>2. Middle \in 0..(size - 1) /\ f <= Middle /\ Middle <= l
  BY <1>1, MiddleBetween DEF Probe, Searching
<1>3. data[Middle] \in Entry
  BY <1>2
<1>4. TableType' /\ Sorted' /\ HoldsAdded'
  <2>1. data' = data /\ size' = size /\ arg' = arg /\ added' = added /\ lost' = lost
    BY DEF Probe
  <2> QED BY <2>1 DEF Sorted, HoldsAdded, AddressesKept, Idle
<1>5. SearchInv'
  <2>1. CASE data[Middle].ip > arg.ip
    <3>1. /\ l' = Middle - 1 /\ f' = f /\ data' = data /\ size' = size /\ arg' = arg
          /\ added' = added /\ lost' = lost
      BY <2>1 DEF Probe
    <3>2. lost = {} => \A i \in Middle..(size - 1) : data[i].ip > arg.ip
      <4> SUFFICES ASSUME lost = {} PROVE \A i \in Middle..(size - 1) : data[i].ip > arg.ip
        OBVIOUS
      <4>1. \A i \in 0..(size - 1) : Middle < i => data[Middle].ip < data[i].ip
        BY <1>2 DEF Sorted
      <4> QED BY <1>0, <1>1, <1>2, <2>1, <4>1
    <3> QED BY <1>1, <1>2, <3>1, <3>2 DEF SearchInv, Idle
  <2>2. CASE ~(data[Middle].ip > arg.ip)
    <3>1. /\ f' = Middle + 1 /\ l' = l /\ data' = data /\ size' = size /\ arg' = arg
          /\ added' = added /\ lost' = lost
      BY <2>2 DEF Probe
    <3>2. data[Middle].ip < arg.ip
      BY <1>0, <1>1, <1>2, <2>2 DEF Probe
    <3>3. lost = {} => \A i \in 0..Middle : data[i].ip < arg.ip
      <4> SUFFICES ASSUME lost = {} PROVE \A i \in 0..Middle : data[i].ip < arg.ip
        OBVIOUS
      <4>1. \A i \in 0..(size - 1) : i < Middle => data[i].ip < data[Middle].ip
        BY <1>2 DEF Sorted
      <4> QED BY <1>0, <1>1, <1>2, <3>2, <4>1
    <3> QED BY <1>1, <1>2, <3>1, <3>3 DEF SearchInv, Idle
  <2> QED BY <2>1, <2>2
<1> QED BY <1>4, <1>5

\* An entry that is overwritten keeps its address, the only one of its kind.
LEMMA ReplaceKeeps == ASSUME TableInv, Replace PROVE TableInv'
<1> USE DEF TableInv, TableType
<1>0. /\ \A i \in 0..(size - 1) : data[i] \in Entry /\ data[i].ip \in Nat
      /\ arg \in Entry => arg.ip \in Nat
  BY Keys
<1>1. /\ arg \in Entry /\ ~Idle
      /\ f \in 0..size /\ l \in -1..size /\ f <= l
  BY NoEntryAssumption DEF SearchInv, Replace, Searching, Idle
<1>2. Middle \in 0..(size - 1)
  BY <1>1, MiddleBetween DEF Replace, Searching
<1>3. /\ data' = [data EXCEPT ![Middle] = arg] /\ size' = size /\ arg' = NoEntry
      /\ added' = {e \in added : e.ip # arg.ip} \cup {arg} /\ lost' = lost
      /\ data[Middle].ip = arg.ip
  BY DEF Replace, Returned
<1>4. TableType'
  BY <1>1, <1>2, <1>3
<1>5. Sorted'
  BY <1>1, <1>2, <1>3 DEF Sorted
<1>6. lost = {} => {data'[i] : i \in 0..(size - 1)} = added'
  <2> SUFFICES ASSUME lost = {} PROVE {data'[i] : i \in 0..(size - 1)} = added'
    OBVIOUS
  <2>1. added = {data[i] : i \in 0..(size - 1)}
    BY <1>1 DEF SearchInv
  <2>2. \A i \in 0..(size - 1) : i # Middle => data[i].ip # arg.ip
    <3> SUFFICES ASSUME NEW i \in 0..(size - 1), i # Middle PROVE data[i].ip # arg.ip
      OBVIOUS
    <3>1. data[i].ip < data[Middle].ip \/ data[Middle].ip < data[i].ip
      BY <1>2 DEF Sorted
    <3> QED BY <1>0, <1>2, <1>3, <3>1
  <2>3. \A i \in 0..(size - 1) : data'[i] = IF i = Middle THEN arg ELSE data[i]
    BY <1>1, <1>2, <1>3
  <2> QED BY <1>2, <1>3, <2>1, <2>2, <2>3
<1>7. AddressesKept'
  <2>1. \A i \in 0..(size - 1) : data'[i].ip = data[i].ip
    BY <1>1, <1>2, <1>3
  <2>2. \A e \in added : e.ip \in lost \/ \E i \in 0..(size - 1) : data[i].ip = e.ip
    BY DEF HoldsAdded, AddressesKept
  <2>3. data'[Middle].ip = arg.ip
    BY <1>2, <1>3, <2>1
  <2>4. \A e \in added' : e \in added \/ e = arg
    BY <1>3
  <2> QED BY <1>2, <1>3, <2>1, <2>2, <2>3, <2>4 DEF AddressesKept
<1>8. HoldsAdded' /\ SearchInv'
  BY <1>3, <1>6, <1>7 DEF HoldsAdded, SearchInv, Idle
<1> QED BY <1>4, <1>5, <1>8

\* The place of a new entry is behind all entries below it and before all above.
LEMMA PlaceDivides ==
  ASSUME TableInv, ~Idle, ~Searching
  PROVE  /\ Place \in 0..size
         /\ lost = {} => /\ \A i \in 0..(Place - 1) : data[i].ip < arg.ip
                         /\ \A i \in Place..(size - 1) : data[i].ip > arg.ip
<1> USE DEF TableInv, TableType
<1>0. /\ \A i \in 0..(size - 1) : data[i] \in Entry /\ data[i].ip \in Nat
      /\ arg \in Entry => arg.ip \in Nat
  BY Keys
<1>1. arg \in Entry /\ f \in 0..size /\ l \in -1..size /\ f <= l + 1
  BY DEF SearchInv, Idle
<1>2. lost = {} => /\ \A i \in 0..(f - 1) : data[i].ip < arg.ip
                   /\ \A i \in (l + 1)..(size - 1) : data[i].ip > arg.ip
  BY DEF SearchInv, Idle
<1>3. CASE l = size
  <2>1. f = size \/ f = size + 1 \/ Middle = size
    BY <1>1, <1>3 DEF Searching
  <2>2. f = size
    BY <1>1, <1>3, <2>1, MiddleBetween DEF Searching
  <2> QED BY <1>1, <1>2, <1>3, <2>2 DEF Place
<1>4. CASE l # size
  <2>1. f = l + 1
    BY <1>1, <1>4, MiddleBetween DEF Searching
  <2>2. Place \in {l, l + 1} /\ (l < 0 => Place = l + 1)
    BY <1>1, <1>4 DEF Place
  <2>3. Place \in 0..size
    BY <1>1, <1>4, <2>2
  <2>4. ASSUME lost = {} PROVE Place = l + 1
    <3>1. CASE l < 0
      BY <2>2, <3>1
    <3>2. CASE ~(l < 0)
      <4>1. data[l].ip \in Nat /\ arg.ip \in Nat /\ data[l].ip < arg.ip
        BY <1>0, <1>1, <1>2, <1>4, <2>1, <2>4, <3>2
      <4> QED BY <1>4, <4>1 DEF Place
    <3> QED BY <3>1, <3>2
  <2> QED BY <1>1, <1>2, <2>1, <2>3, <2>4
<1> QED BY <1>3, <1>4

\* What moves up keeps its order, and its entry.
LEMMA MovesUp ==
  ASSUME TableType, NEW p \in 0..size, NEW e \in Entry,
         data' = [i \in 0..size |-> IF i < p THEN data[i] ELSE IF i = p THEN e ELSE data[i - 1]]
  PROVE  /\ \A i \in 0..(p - 1) : data'[i] = data[i]
         /\ data'[p] = e
         /\ \A i \in (p + 1)..size : data'[i] = data[i - 1]
         /\ data' \in [0..size -> Entry]
         /\ \A k \in 0..(size - 1) : \E i \in 0..size : data[k] = data'[i]
<1> USE DEF TableType
<1>1. /\ \A i \in 0..(p - 1) : data'[i] = data[i]
      /\ data'[p] = e
      /\ \A i \in (p + 1)..size : data'[i] = data[i - 1]
  OBVIOUS
<1>2. \A i \in 0..size : data'[i] \in Entry
  BY <1>1
<1>3. data' \in [0..size -> Entry]
  BY <1>2
<1>4. ASSUME NEW k \in 0..(size - 1) PROVE \E i \in 0..size : data[k] = data'[i]
  <2>1. CASE k < p
    BY <1>1, <2>1
  <2>2. CASE ~(k < p)
    <3>1. k + 1 \in (p + 1)..size /\ (k + 1) - 1 = k
      BY <2>2
    <3>2. data'[k + 1] = data[k]
      BY <1>1, <3>1
    <3>3. k + 1 \in 0..size
      OBVIOUS
    <3> QED BY <3>2, <3>3
  <2> QED BY <2>1, <2>2
<1> QED BY <1>1, <1>3, <1>4

\* A new entry keeps the order, and nothing is lost.
LEMMA InsertKeeps == ASSUME TableInv, Insert PROVE TableInv'
<1> USE DEF TableInv, TableType
<1>0. /\ \A i \in 0..(size - 1) : data[i] \in Entry /\ data[i].ip \in Nat
      /\ arg \in Entry => arg.ip \in Nat
  BY Keys
<1> DEFINE p == Place
<1>1. /\ arg \in Entry /\ ~Idle /\ ~Searching
      /\ lost = {} => {data[i] : i \in 0..(size - 1)} = added
  BY DEF Insert, SearchInv, Idle
<1>2. /\ p \in 0..size
      /\ lost = {} => /\ \A i \in 0..(p - 1) : data[i].ip < arg.ip
                      /\ \A i \in p..(size - 1) : data[i].ip > arg.ip
  BY <1>1, PlaceDivides
<1>3. /\ size' = size + 1 /\ arg' = NoEntry /\ lost' = lost
      /\ added' = {e \in added : e.ip # arg.ip} \cup {arg}
  BY DEF Insert, InsertAt, Returned
<1>4. data' = [i \in 0..size |-> IF i < p THEN data[i] ELSE IF i = p THEN arg ELSE data[i - 1]]
  BY DEF Insert, InsertAt
<1> HIDE DEF p
<1>5. /\ \A i \in 0..(p - 1) : data'[i] = data[i]
      /\ data'[p] = arg
      /\ \A i \in (p + 1)..size : data'[i] = data[i - 1]
      /\ data' \in [0..size -> Entry]
      /\ \A k \in 0..(size - 1) : \E i \in 0..size : data[k] = data'[i]
  BY <1>1, <1>2, <1>4, MovesUp
<1>6. TableType'
  BY <1>3, <1>5
<1>7. Sorted'
  <2> SUFFICES ASSUME lost = {} PROVE \A i, j \in 0..size : i < j => data'[i].ip < data'[j].ip
    BY <1>3 DEF Sorted
  <2>1. \A i, j \in 0..(size - 1) : i < j => data[i].ip < data[j].ip
    BY DEF Sorted
  <2>2. /\ \A i \in 0..(p - 1) : data[i].ip < arg.ip
        /\ \A i \in p..(size - 1) : data[i].ip > arg.ip
    BY <1>2
  <2> TAKE i, j \in 0..size
  <2> HAVE i < j
  <2>3. data'[i] = IF i < p THEN data[i] ELSE IF i = p THEN arg ELSE data[i - 1]
    BY <1>4
  <2>4. data'[j] = IF j < p THEN data[j] ELSE IF j = p THEN arg ELSE data[j - 1]
    BY <1>4
  <2>5. CASE i < p
    BY <1>0, <1>1, <1>2, <2>1, <2>2, <2>3, <2>4, <2>5
  <2>6. CASE i = p
    BY <1>0, <1>1, <1>2, <2>2, <2>3, <2>4, <2>6
  <2>7. CASE i > p
    BY <1>0, <1>2, <2>1, <2>3, <2>4, <2>7
  <2> QED BY <1>2, <2>5, <2>6, <2>7
<1>8. lost = {} => {data'[i] : i \in 0..size} = added'
  <2> SUFFICES ASSUME lost = {} PROVE {data'[i] : i \in 0..size} = added'
    OBVIOUS
  <2>1. \A i \in 0..(size - 1) : data[i].ip # arg.ip
    BY <1>0, <1>1, <1>2
  <2>2. added' = added \cup {arg}
    BY <1>1, <1>3, <2>1
  <2>3. \A i \in 0..size : data'[i] \in added \cup {arg}
    <3>1. \A i \in 0..(size - 1) : data[i] \in added
      BY <1>1
    <3>2. p \in 0..size
      BY <1>2
    <3> QED BY <1>5, <3>1, <3>2
  <2>4. \A e \in added : \E i \in 0..size : e = data'[i]
    BY <1>1, <1>5
  <2>5. arg = data'[p] /\ p \in 0..size
    BY <1>2, <1>5
  <2> QED BY <2>2, <2>3, <2>4, <2>5
<1>9. (size - 1)' = size
  BY <1>3
<1>10. AddressesKept'
  <2>1. \A e \in added : e.ip \in lost \/ \E i \in 0..(size - 1) : data[i].ip = e.ip
    BY DEF HoldsAdded, AddressesKept
  <2>2. \A e \in added : e.ip \in lost \/ \E i \in 0..size : data'[i].ip = e.ip
    BY <1>5, <2>1
  <2>3. \E i \in 0..size : data'[i].ip = arg.ip
    BY <1>2, <1>5
  <2> QED BY <1>3, <1>9, <2>2, <2>3 DEF AddressesKept
<1>11. HoldsAdded' /\ SearchInv'
  BY <1>3, <1>8, <1>9, <1>10 DEF HoldsAdded, SearchInv, Idle
<1> QED BY <1>6, <1>7, <1>11

\* Memory taken in before the array costs the new entry, and no other.
LEMMA InsertBeforeKeeps == ASSUME TableInv, InsertBefore PROVE TableInv'
<1> USE DEF TableInv, TableType
<1>1. PICK g \in Garbage : InsertAt(0, g)
  BY DEF InsertBefore
<1>2. /\ size' = size + 1 /\ arg' = NoEntry /\ lost' = lost \cup {arg.ip}
      /\ added' = {e \in added : e.ip # arg.ip} \cup {arg}
  BY <1>1 DEF InsertBefore, InsertAt, Returned
<1>3. data' = [i \in 0..size |-> IF i < 0 THEN data[i] ELSE IF i = 0 THEN g ELSE data[i - 1]]
  BY <1>1 DEF InsertAt
<1>4. /\ data' \in [0..size -> Entry]
      /\ \A k \in 0..(size - 1) : \E i \in 0..size : data[k] = data'[i]
  <2>1. g \in Entry /\ 0 \in 0..size
    BY EntryAssumption
  <2> QED BY <1>3, <2>1, MovesUp
<1>5. TableType' /\ Sorted'
  BY <1>2, <1>4 DEF Sorted
<1>6. (size - 1)' = size
  BY <1>2
<1>7. AddressesKept'
  <2>1. \A e \in added : e.ip \in lost \/ \E i \in 0..(size - 1) : data[i].ip = e.ip
    BY DEF HoldsAdded, AddressesKept
  <2>2. \A e \in added : e.ip \in lost \/ \E i \in 0..size : data'[i].ip = e.ip
    BY <1>4, <2>1
  <2> QED BY <1>2, <1>6, <2>2 DEF AddressesKept
<1>8. HoldsAdded' /\ SearchInv'
  BY <1>2, <1>7 DEF HoldsAdded, SearchInv, Idle
<1> QED BY <1>5, <1>8

\* A call starts with the whole array to search.
LEMMA BeginKeeps == ASSUME TableInv, NEW e \in Entry, BeginAdd(e) PROVE TableInv'
<1> USE DEF TableInv, TableType
<1>1. /\ data' = data /\ size' = size /\ added' = added /\ lost' = lost
      /\ arg' = e /\ f' = 0 /\ l' = size /\ Idle
  BY DEF BeginAdd
<1>2. TableType' /\ Sorted'
  BY <1>1 DEF Sorted
<1>3. ~Idle'
  BY <1>1, NoEntryAssumption DEF Idle
<1>4. /\ lost = {} => {data[i] : i \in 0..(size - 1)} = added
      /\ AddressesKept
  BY <1>1 DEF HoldsAdded
<1>5. HoldsAdded' /\ SearchInv'
  BY <1>1, <1>3, <1>4 DEF HoldsAdded, SearchInv, AddressesKept
<1> QED BY <1>2, <1>5

\* new_abt makes an empty table, which is ordered.
LEMMA TableInitInv == TableInit => TableInv
  BY DEF TableInit, TableInv, TableType, Sorted, HoldsAdded, AddressesKept, SearchInv, Idle

\* Every step of add_abt keeps the invariant.
LEMMA TableStepInv == TableInv /\ [TableNext]_table => TableInv'
<1> SUFFICES ASSUME TableInv, [TableNext]_table PROVE TableInv'
  OBVIOUS
<1>1. CASE Probe
  BY <1>1, ProbeKeeps
<1>2. CASE Replace
  BY <1>2, ReplaceKeeps
<1>3. CASE Insert
  BY <1>3, InsertKeeps
<1>4. CASE InsertBefore
  BY <1>4, InsertBeforeKeeps
<1>5. CASE \E e \in Entry : BeginAdd(e)
  BY <1>5, BeginKeeps
<1>6. CASE UNCHANGED table
  BY <1>6 DEF table, TableInv, TableType, Sorted, HoldsAdded, AddressesKept, SearchInv, Idle
<1> QED BY <1>1, <1>2, <1>3, <1>4, <1>5, <1>6 DEF TableNext, TableStep

\* The array of the shared ARP cache stays ordered, whatever is added to it and in
\* whatever order, as long as no read below its start has taken in what lay there.
THEOREM TableOrdered == TableSpec => []Sorted
<1>1. TableInv => Sorted
  BY DEF TableInv
<1> QED BY TableInitInv, TableStepInv, <1>1, PTL DEF TableSpec

\* Between two calls of add_abt it holds the last entry added for each address, under
\* the same condition; whatever the reads below its start find, the addresses that were
\* added stay in it, but those written before it.
THEOREM TableIsMap == TableSpec => []HoldsAdded
<1>1. TableInv => HoldsAdded
  BY DEF TableInv
<1> QED BY TableInitInv, TableStepInv, <1>1, PTL DEF TableSpec

-----------------------------------------------------------------------------
(* The table in the daemon. *)

\* What is on its way to the table are entries.
ReportType ==
  /\ private \in Seq(Entry) \cup {NoCache}
  /\ wire \in Seq(Entry) /\ arps \in Seq(Entry)

\* The beginning of a report or of a cache is one.
LEMMA PrefixType ==
  ASSUME NEW s \in Seq(Entry)
  PROVE  /\ \A k \in Nat : Prefix(s, k) \in Seq(Entry)
         /\ Beginnings(s) \subseteq Seq(Entry)
<1>1. \A k \in Nat : (IF Len(s) < k THEN Len(s) ELSE k) \in 0..Len(s)
  OBVIOUS
<1>2. \A n \in 0..Len(s) : SubSeq(s, 1, n) \in Seq(Entry)
  OBVIOUS
<1>3. Beginnings(s) \subseteq Seq(Entry)
  BY <1>2 DEF Beginnings
<1> QED BY <1>1, <1>2, <1>3 DEF Prefix

\* A sample holds entries, whichever way the kernel is asked.
LEMMA SampledType ==
  ASSUME ReportType, NEW c \in Sampled
  PROVE  c \in Seq(Entry)
<1>1. CASE ArpSource = "proc"
  <2>1. Sampled = ReadLines \cup ({private} \ {NoCache})
    BY <1>1 DEF Sampled
  <2>2. CASE c \in {private} \ {NoCache}
    BY <2>2 DEF ReportType
  <2>3. CASE c \in ReadLines
    <3>1. PICK b \in KernelCache : c \in Beginnings(b)
      BY <2>3 DEF ReadLines
    <3>2. b \in Seq(Entry)
      BY AnnounceAssumption
    <3> QED BY <3>1, <3>2, PrefixType
  <2> QED BY <2>1, <2>2, <2>3
<1>2. CASE ArpSource = "sysctl"
  BY <1>2, AnnounceAssumption DEF Sampled
<1>3. CASE ArpSource = "none"
  <2>1. Sampled = {IF private = NoCache THEN <<>> ELSE private}
    BY <1>3 DEF Sampled
  <2>2. <<>> \in Seq(Entry)
    OBVIOUS
  <2>3. CASE private = NoCache
    BY <2>1, <2>2, <2>3
  <2>4. CASE private # NoCache
    BY <2>1, <2>4 DEF ReportType
  <2> QED BY <2>3, <2>4
<1> QED BY <1>1, <1>2, <1>3, AnnounceAssumption

\* Before the first sample there is no report.
LEMMA ReportInit == Init => ReportType
  BY DEF Init, ReportType

\* Reports are made of samples, come from the group or lie behind the buffer.
LEMMA ReportStep == ReportType /\ [Next]_vars => ReportType'
<1> SUFFICES ASSUME ReportType, [Next]_vars PROVE ReportType'
  OBVIOUS
<1>1. CASE ShareCache
  <2>1. private' \in Seq(Entry)
    BY <1>1, SampledType DEF ShareCache
  <2> QED BY <1>1, <2>1, PrefixType, AnnounceAssumption DEF ShareCache, ReportType
<1>2. CASE ReceiveOwn
  BY <1>2 DEF ReceiveOwn, Receive, ReportType
<1>3. CASE ReceivePeer
  BY <1>3, AnnounceAssumption DEF ReceivePeer, Receive, ReportType
<1>8. CASE ReceiveFails
  BY <1>8, AnnounceAssumption DEF ReceiveFails, Receive, ReportType
<1>4. CASE AddNext
  BY <1>4 DEF AddNext, ReportType
<1>5. CASE Adding
  BY <1>5 DEF Adding, ReportType
<1>6. CASE \E v \in Vif : Invoke(v) \/ \E code \in {0, 1} : Notify(v, code)
  BY <1>6 DEF Invoke, Notify, ReportType
<1>7. CASE UNCHANGED vars
  BY <1>7 DEF vars, ReportType
<1> QED BY <1>1, <1>2, <1>3, <1>4, <1>5, <1>6, <1>7, <1>8 DEF Next

\* Whatever the daemon does, the table makes a step of its own or none.
LEMMA TableStepOrNone == ReportType /\ [Next]_vars => [TableNext]_table
<1> SUFFICES ASSUME ReportType, [Next]_vars PROVE TableNext \/ UNCHANGED table
  OBVIOUS
<1>1. CASE AddNext
  <2>1. Head(arps) \in Entry
    BY <1>1 DEF AddNext, ReportType
  <2> QED BY <1>1, <2>1 DEF AddNext, TableNext
<1>2. CASE Adding
  BY <1>2 DEF Adding, TableNext
<1>3. CASE ShareCache \/ ReceiveOwn \/ ReceivePeer \/ ReceiveFails
  BY <1>3 DEF ShareCache, ReceiveOwn, ReceivePeer, ReceiveFails, Receive
<1>4. CASE \E v \in Vif : Invoke(v) \/ \E code \in {0, 1} : Notify(v, code)
  BY <1>4 DEF Invoke, Notify
<1>5. CASE UNCHANGED vars
  BY <1>5 DEF vars
<1> QED BY <1>1, <1>2, <1>3, <1>4, <1>5 DEF Next

\* The invariant of the table is one of the daemon that uses it.
LEMMA SharedCacheInv == Spec => []TableInv
<1>1. Init => TableInv /\ ReportType
  BY TableInitInv, ReportInit DEF Init
<1>2. TableInv /\ ReportType /\ [Next]_vars => (TableInv /\ ReportType)'
  BY TableStepInv, ReportStep, TableStepOrNone
<1> QED BY <1>1, <1>2, PTL DEF Spec

\* The shared ARP cache of a running daemon stays ordered, so that a search that
\* halves it finds what is there, until a read below its start has taken in what lay
\* there; also while Handle_arp_cache reads on behind the buffer.
THEOREM SharedCacheOrdered == Spec => []Sorted
<1>1. TableInv => Sorted
  BY DEF TableInv
<1> QED BY SharedCacheInv, <1>1, PTL

\* Between two insertions it holds the last entry received for each address, under the
\* same condition, and whatever happens every address but those written before it.
THEOREM SharedCacheIsMap == Spec => []HoldsAdded
<1>1. TableInv => HoldsAdded
  BY DEF TableInv
<1> QED BY SharedCacheInv, <1>1, PTL

-----------------------------------------------------------------------------
(* The turns of a round.  Round is a function that recurses over them.               *)

Turns(s) == Len(s.lvif) * Len(Notification)

\* Turn k is that of an address of the entry and of a notification.
Which(k)  == ((k - 1) % Len(Notification)) + 1
Who(s, k) == s.lvif[((k - 1) \div Len(Notification)) + 1]

Start(s) == [cache |-> s.cache, todo |-> s.todo, sent |-> 0, told |-> {}]
Turn(s, e, k) ==
  IF Notification[Which(k)].kind = "arp" THEN {SendArpCache(e, Who(s, k), Which(k))}
  ELSE SendBlock(e, Who(s, k), Which(k))

Turned(s, E, k) == UNION {Turn(s, e, k) : e \in E}

\* What the turns up to the n-th come to.
After(s, n, h) ==
  h = [k \in 0..n |-> IF k = 0 THEN {Start(s)} ELSE Turned(s, h[k - 1], k)]

\* Numbers are well-founded: a property that some number does not have fails first
\* at a least one.
LEMMA HasLeast ==
  ASSUME NEW S \in SUBSET Nat, S # {}
  PROVE  \E x \in S : \A y \in S : x <= y
<1>1. PICK x \in S : \A y \in S : ~ (<<y, x>> \in OpToRel(<, Nat))
  BY WFMin, NatLessThanWellFounded, Zenon
<1>2. ASSUME NEW y \in S PROVE x <= y
  <2>1. ASSUME y < x PROVE FALSE
    <3>1. <<y, x>> \in Nat \X Nat
      OBVIOUS
    <3>2. <<y, x>> \in OpToRel(<, Nat)
      BY <2>1, <3>1, Zenon DEF OpToRel
    <3> QED
      BY <1>1, <3>2, Zenon
  <2> QED
    BY <2>1
<1> QED
  BY <1>2

\* The numbers up to n, one after the other.
LEMMA UpTo ==
  ASSUME NEW n \in Nat, NEW S, 0 \in S, \A k \in 1..n : k - 1 \in S => k \in S
  PROVE  \A k \in 0..n : k \in S
<1> DEFINE Bad == {k \in 0..n : k \notin S}
<1>1. SUFFICES ASSUME Bad # {} PROVE FALSE
  OBVIOUS
<1>2. Bad \in SUBSET Nat
  OBVIOUS
<1>3. PICK k \in Bad : \A j \in Bad : k <= j
  <2> HIDE DEF Bad
  <2> QED
    BY <1>1, <1>2, HasLeast
<1>4. k \in 1..n /\ k - 1 \notin Bad /\ k - 1 \in 0..n
  BY <1>3
<1> QED
  BY <1>3, <1>4

\* There is such a function.
LEMMA AfterExists ==
  ASSUME NEW s, NEW n \in Nat
  PROVE  \E h : After(s, n, h)
<1> DEFINE Good == {k \in 0..n : \E h : After(s, k, h)}
<1>1. 0 \in Good
  <2>1. After(s, 0, [j \in 0..0 |-> {Start(s)}])
    BY DEF After
  <2> QED
    BY <2>1
<1>2. ASSUME NEW k \in 1..n, k - 1 \in Good PROVE k \in Good
  <2>1. PICK h : After(s, k - 1, h)
    BY <1>2
  <2> DEFINE last == Turned(s, h[k - 1], k)
             g == [j \in 0..k |-> IF j = k THEN last ELSE h[j]]
  <2>2. \A j \in 0..(k - 1) :
          h[j] = IF j = 0 THEN {Start(s)} ELSE Turned(s, h[j - 1], j)
    BY <2>1 DEF After
  <2>3. \A j \in 0..k :
          g[j] = IF j = 0 THEN {Start(s)} ELSE Turned(s, g[j - 1], j)
    <3> SUFFICES ASSUME NEW j \in 0..k
                 PROVE  g[j] = IF j = 0 THEN {Start(s)} ELSE Turned(s, g[j - 1], j)
      OBVIOUS
    <3>1. CASE j = k
      <4>1. g[j] = last /\ g[j - 1] = h[k - 1] /\ j # 0
        BY <3>1
      <4> HIDE DEF g
      <4> QED
        BY <3>1, <4>1
    <3>2. CASE j # k
      <4>1. j \in 0..(k - 1) /\ (j # 0 => j - 1 \in 0..k /\ j - 1 # k)
        BY <3>2
      <4>2. g[j] = h[j] /\ (j # 0 => g[j - 1] = h[j - 1])
        BY <3>2, <4>1
      <4> HIDE DEF g
      <4> QED
        BY <2>2, <4>1, <4>2
    <3> QED
      BY <3>1, <3>2
  <2>4. After(s, k, g)
    <3>1. g = [j \in 0..k |-> g[j]]
      OBVIOUS
    <3> HIDE DEF g
    <3> QED
      BY <2>3, <3>1 DEF After
  <2>5. k \in 0..n
    OBVIOUS
  <2> QED
    BY <2>4, <2>5
<1>3. n \in Good
  <2> HIDE DEF Good
  <2> QED
    BY <1>1, <1>2, UpTo
<1> QED
  BY <1>3

\* What a round comes to is in G[n] if each turn leads from G[k - 1] to G[k].
LEMMA RoundKeeps ==
  ASSUME NEW s, NEW n \in Nat, n = Turns(s), NEW G,
         Start(s) \in G[0],
         \A k \in 1..n : \A e \in G[k - 1] : Turn(s, e, k) \subseteq G[k]
  PROVE  Round(s) \subseteq G[n]
<1>0. \E h : After(s, n, h)
  BY AfterExists
<1>1. \E h : h = [k \in 0..(Len(s.lvif) * Len(Notification)) |->
        IF k = 0 THEN {[cache |-> s.cache, todo |-> s.todo, sent |-> 0, told |-> {}]}
        ELSE UNION {IF Notification[((k - 1) % Len(Notification)) + 1].kind = "arp"
                    THEN {SendArpCache(e, s.lvif[((k - 1) \div Len(Notification)) + 1],
                                       ((k - 1) % Len(Notification)) + 1)}
                    ELSE SendBlock(e, s.lvif[((k - 1) \div Len(Notification)) + 1],
                                   ((k - 1) % Len(Notification)) + 1) : e \in h[k - 1]}]
  BY <1>0 DEF After, Turns, Turned, Turn, Start, Who, Which
<1>2. PICK h : After(s, n, h) /\ Round(s) = h[n]
  BY <1>1 DEF Round, After, Turns, Turned, Turn, Start, Who, Which
<1> DEFINE Good == {k \in 0..n : h[k] \subseteq G[k]}
<1>3. \A k \in 0..n : h[k] = IF k = 0 THEN {Start(s)} ELSE Turned(s, h[k - 1], k)
  BY <1>2 DEF After
<1>4. 0 \in Good
  BY <1>3
<1>5. ASSUME NEW k \in 1..n, k - 1 \in Good PROVE k \in Good
  <2>1. k \in 0..n /\ h[k] = Turned(s, h[k - 1], k)
    BY <1>3
  <2>2. h[k - 1] \subseteq G[k - 1]
    BY <1>5
  <2>3. \A e \in h[k - 1] : Turn(s, e, k) \subseteq G[k]
    BY <2>2
  <2>4. Turned(s, h[k - 1], k) \subseteq G[k]
    BY <2>3 DEF Turned
  <2> QED
    BY <2>1, <2>4
<1>6. n \in Good
  <2> HIDE DEF Good
  <2> QED
    BY <1>4, <1>5, UpTo
<1> QED
  BY <1>2, <1>6

\* Every turn is that of some address and some notification.
LEMMA TurnIndex ==
  ASSUME NEW L \in Nat, NEW N \in Nat, NEW k \in 1..(L * N)
  PROVE  /\ ((k - 1) % N) + 1 \in 1..N
         /\ ((k - 1) \div N) + 1 \in 1..L
<1>1. N > 0
  BY SMT
<1> DEFINE q == (k - 1) \div N
           r == (k - 1) % N
<1>2. q \in Int /\ r \in 0..(N - 1) /\ k - 1 = N * q + r
  BY <1>1
<1> HIDE DEF q, r
<1>3. q >= 0
  <2> SUFFICES ASSUME q <= -1 PROVE FALSE
    BY <1>2
  <2>1. N * q <= -N
    BY <1>1, <1>2
  <2> QED
    BY <1>2, <2>1
<1>4. q < L
  <2> SUFFICES ASSUME q >= L PROVE FALSE
    BY <1>2
  <2>1. N * q >= N * L
    BY <1>1, <1>2
  <2> QED
    BY <1>2, <2>1
<1> QED
  BY <1>2, <1>3, <1>4 DEF q, r

\* And every notification has its turn with every address.
InTurn(L, N, x, i) == \E j \in 1..(L * N) : ((j - 1) % N) + 1 = i /\ ((j - 1) \div N) + 1 = x

LEMMA TurnFor ==
  ASSUME NEW L \in Nat, NEW N \in Nat, NEW x \in 1..L, NEW i \in 1..N
  PROVE  InTurn(L, N, x, i)
<1> DEFINE k == N * (x - 1) + i
           q == (k - 1) \div N
           r == (k - 1) % N
<1>1. k \in Int /\ N * (x - 1) \in Nat
  OBVIOUS
<1>2. k \in 1..(L * N)
  <2>1. N * (x - 1) + N <= L * N
    OBVIOUS
  <2> QED
    BY <1>1, <2>1
<1>3. q \in Int /\ r \in 0..(N - 1) /\ k - 1 = N * q + r
  BY <1>1
<1>4. N * (q - (x - 1)) = (i - 1) - r
  BY <1>1, <1>3
<1> HIDE DEF q, r, k
<1>5. q = x - 1
  <2>1. CASE q >= x
    <3>1. N * (q - (x - 1)) >= N
      BY <1>3, <2>1
    <3> QED
      BY <1>3, <1>4, <3>1
  <2>2. CASE q <= x - 2
    <3>1. N * (q - (x - 1)) <= -N
      BY <1>3, <2>2
    <3> QED
      BY <1>3, <1>4, <3>1
  <2> QED
    BY <1>3, <2>1, <2>2
<1>6. r = i - 1
  BY <1>3, <1>4, <1>5
<1> QED
  BY <1>2, <1>5, <1>6 DEF q, r, InTurn

-----------------------------------------------------------------------------
(* What a turn does. *)

Request == [from : Nat, to : Entry \cup [ip : Int]]
Todo    == [DOMAIN Notification -> Nat \cup {-1}]
SoFar   == [cache : Seq(Entry \cup {Zero}), todo : Todo, sent : Nat, told : SUBSET Request]

IsArp(i) == Notification[i].kind = "arp"

\* The copy of the cache is not counted beyond its end.
Fits(cache, todo) == \A i \in DOMAIN Notification : IsArp(i) => todo[i] <= Len(cache)

LEMMA Notifications ==
  /\ Len(Notification) \in Nat /\ DOMAIN Notification = 1..Len(Notification)
  /\ \A i \in DOMAIN Notification :
       /\ Notification[i] \in NotificationType
       /\ Notification[i].net \in Interface /\ Notification[i].throttle \in Nat
<1>1. Len(Notification) \in Nat /\ DOMAIN Notification = 1..Len(Notification)
      /\ \A i \in DOMAIN Notification : Notification[i] \in NotificationType
  BY AnnounceAssumption
<1> QED
  BY <1>1 DEF NotificationType

\* A network has finitely many addresses.
LEMMA NetFinite ==
  ASSUME NEW a \in Interface
  PROVE  a.ip \in Nat /\ Net(a) \in SUBSET Int /\ IsFiniteSet(Net(a))
<1>1. a.ip \in Nat /\ a.span \in Nat \ {0}
  BY DEF Interface
<1>2. Base(a) \in Int
  BY <1>1 DEF Base
<1>3. Base(a) + a.span - 1 \in Int
  BY <1>1, <1>2
<1>4. IsFiniteSet(Net(a))
  BY <1>2, <1>3, FS_Interval DEF Net
<1> QED
  BY <1>1, <1>2, <1>3, <1>4 DEF Net

LEMMA SubsetFinite ==
  ASSUME NEW S, IsFiniteSet(S), NEW T \in SUBSET S
  PROVE  IsFiniteSet(T) /\ Cardinality(T) \in Nat /\ Cardinality(T) <= Cardinality(S)
  BY FS_Subset, FS_CardinalityType

\* A round sends no more than there is, and something as long as there is something.
LEMMA QuotaType ==
  ASSUME NEW i \in DOMAIN Notification, NEW left \in Nat
  PROVE  /\ Quota(Notification[i], left) \in 0..left
         /\ left # 0 => Quota(Notification[i], left) # 0
<1>1. Notification[i].throttle \in Nat
  BY Notifications
<1> QED
  BY <1>1 DEF Quota

\* What is counted are the entries before the first zero.
LEMMA CountType ==
  ASSUME NEW c \in Seq(Entry \cup {Zero})
  PROVE  /\ CountOf(c) \in 0..Len(c)
         /\ (\A k \in DOMAIN c : c[k] # Zero) => CountOf(c) = Len(c)
<1>1. Len(c) \in Nat /\ DOMAIN c = 1..Len(c)
  OBVIOUS
<1>2. IsFiniteSet(1..Len(c)) /\ Cardinality(1..Len(c)) = Len(c)
  BY <1>1, FS_Interval
<1> DEFINE S == {k \in DOMAIN c : \A j \in 1..k : c[j] # Zero}
<1>3. CountOf(c) = Cardinality(S) /\ S \in SUBSET (1..Len(c))
  BY <1>1 DEF CountOf
<1>4. (\A k \in DOMAIN c : c[k] # Zero) => S = 1..Len(c)
  BY <1>1
<1> HIDE DEF S
<1>5. Cardinality(S) \in Nat /\ Cardinality(S) <= Len(c)
  BY <1>2, <1>3, SubsetFinite
<1> QED
  BY <1>1, <1>2, <1>3, <1>4, <1>5

\* The entries of a cache that address a has to announce to notification i, and those
\* that it does announce in this turn.
Counted(e, i) == IF e.todo[i] = -1 THEN CountOf(e.cache) ELSE e.todo[i]
Near(e, a, i) == {k \in 1..Counted(e, i) : e.cache[k] # Zero /\ e.cache[k].ip \in Net(a)}
Chosen(e, a, i) ==
  {k \in Near(e, a, i) : Cardinality({j \in Near(e, a, i) : j <= k})
                           <= Quota(Notification[i], Cardinality(Near(e, a, i)))}

LEMMA NearTypes ==
  ASSUME NEW e \in SoFar, NEW a \in Interface, NEW i \in DOMAIN Notification,
         IsArp(i), Fits(e.cache, e.todo)
  PROVE  /\ Counted(e, i) \in 0..Len(e.cache)
         /\ Near(e, a, i) \in SUBSET DOMAIN e.cache /\ IsFiniteSet(Near(e, a, i))
         /\ IsFiniteSet(Chosen(e, a, i)) /\ Cardinality(Chosen(e, a, i)) \in Nat
         /\ \A k \in Near(e, a, i) : e.cache[k] \in Entry
         /\ Chosen(e, a, i) = {} => Near(e, a, i) = {}
<1>1. /\ e.cache \in Seq(Entry \cup {Zero}) /\ e.todo \in Todo
      /\ Len(e.cache) \in Nat /\ DOMAIN e.cache = 1..Len(e.cache)
      /\ \A k \in DOMAIN e.cache : e.cache[k] \in Entry \cup {Zero}
  BY DEF SoFar
<1>2. Counted(e, i) \in 0..Len(e.cache)
  <2>1. e.todo[i] \in Nat \cup {-1} /\ e.todo[i] <= Len(e.cache)
    BY <1>1 DEF Todo, Fits
  <2>2. CountOf(e.cache) \in 0..Len(e.cache)
    BY <1>1, CountType
  <2> QED
    BY <1>1, <2>1, <2>2 DEF Counted
<1> DEFINE near == Near(e, a, i)
           q == Quota(Notification[i], Cardinality(near))
<1>3. near \in SUBSET DOMAIN e.cache /\ near \in SUBSET (1..Len(e.cache))
  BY <1>1, <1>2 DEF Near
<1>4. \A k \in near : e.cache[k] \in Entry
  BY <1>1, <1>3 DEF Near
<1>5. Chosen(e, a, i) = {k \in near : Cardinality({j \in near : j <= k}) <= q}
  BY DEF Chosen
<1> HIDE DEF near, q
<1>6. IsFiniteSet(near) /\ Cardinality(near) \in Nat
  <2>1. IsFiniteSet(1..Len(e.cache))
    BY <1>1, FS_Interval
  <2> QED
    BY <1>3, <2>1, SubsetFinite
<1>7. IsFiniteSet(Chosen(e, a, i)) /\ Cardinality(Chosen(e, a, i)) \in Nat
  <2>1. Chosen(e, a, i) \in SUBSET near
    BY <1>5
  <2> QED
    BY <1>6, <2>1, SubsetFinite
<1>8. ASSUME near # {} PROVE Chosen(e, a, i) # {}
  <2>1. near \in SUBSET Nat
    BY <1>3
  <2>2. PICK k \in near : \A j \in near : k <= j
    BY <1>8, <2>1, HasLeast
  <2>3. {j \in near : j <= k} = {k}
    <3>1. \A j \in near : j <= k <=> j = k
      BY <2>1, <2>2
    <3> QED
      BY <3>1
  <2>4. Cardinality({j \in near : j <= k}) = 1
    BY <2>3, FS_Singleton
  <2>5. Cardinality(near) # 0
    BY <1>6, <1>8, FS_EmptySet
  <2>6. q \in 0..Cardinality(near) /\ q # 0
    BY <1>6, <2>5, QuotaType DEF q
  <2>7. k \in Chosen(e, a, i)
    BY <1>5, <1>6, <2>4, <2>6
  <2> QED
    BY <2>7
<1> QED
  BY <1>2, <1>3, <1>4, <1>6, <1>7, <1>8 DEF near

\* send_arp_spoof_arp_cache: what is chosen is told and zeroed in the copy.
Tells(e, a, i, t) ==
  LET C == Chosen(e, a, i)
  IN  /\ t.todo = [e.todo EXCEPT ![i] = Counted(e, i)]
      /\ t.sent = e.sent + Cardinality(C)
      /\ t.cache = [k \in DOMAIN e.cache |-> IF k \in C THEN Zero ELSE e.cache[k]]
      /\ t.told = e.told \cup {[from |-> a.ip, to |-> e.cache[k]] : k \in C}

LEMMA SendsArp ==
  ASSUME NEW e \in SoFar, NEW a \in Interface, NEW i \in DOMAIN Notification,
         IsArp(i), Fits(e.cache, e.todo), NEW t, t = SendArpCache(e, a, i)
  PROVE  t \in SoFar /\ Fits(t.cache, t.todo) /\ Tells(e, a, i, t)
<1> DEFINE C == Chosen(e, a, i)
           todo  == [e.todo EXCEPT ![i] = Counted(e, i)]
           cache == [k \in DOMAIN e.cache |-> IF k \in C THEN Zero ELSE e.cache[k]]
           said  == e.told \cup {[from |-> a.ip, to |-> e.cache[k]] : k \in C}
<1>1. t = [e EXCEPT !.todo[i] = Counted(e, i), !.sent = @ + Cardinality(C),
                    !.cache = cache, !.told = said]
  BY DEF SendArpCache, Chosen, Near, Counted
<1>2. /\ Counted(e, i) \in 0..Len(e.cache) /\ Cardinality(C) \in Nat
      /\ C \in SUBSET DOMAIN e.cache /\ \A k \in C : e.cache[k] \in Entry
  BY NearTypes DEF Chosen
<1>3. e.cache \in Seq(Entry \cup {Zero}) /\ e.todo \in Todo /\ e.sent \in Nat /\ e.told \in SUBSET Request
      /\ Len(e.cache) \in Nat /\ DOMAIN e.cache = 1..Len(e.cache)
  BY DEF SoFar
<1>4. todo \in Todo /\ Fits(cache, todo)
  <2>1. todo \in Todo
    BY <1>2, <1>3 DEF Todo
  <2>2. Len(cache) = Len(e.cache)
    BY <1>3
  <2> HIDE DEF cache
  <2> QED
    BY <1>2, <1>3, <2>1, <2>2 DEF Fits, Todo
<1>5. cache \in Seq(Entry \cup {Zero})
  <2>1. \A k \in DOMAIN e.cache : e.cache[k] \in Entry \cup {Zero}
    BY <1>3
  <2>2. cache \in [1..Len(e.cache) -> Entry \cup {Zero}]
    BY <1>3, <2>1
  <2> HIDE DEF cache
  <2> QED
    BY <1>3, <2>2
<1>6. said \in SUBSET Request
  <2>1. a.ip \in Nat
    BY NetFinite
  <2> QED
    BY <1>2, <1>3, <2>1 DEF Request
<1> HIDE DEF C, cache, said
<1>7. /\ t.todo = todo /\ t.sent = e.sent + Cardinality(C) /\ t.cache = cache /\ t.told = said
      /\ t = [cache |-> cache, todo |-> todo, sent |-> e.sent + Cardinality(C), told |-> said]
  BY <1>1 DEF SoFar
<1> HIDE DEF todo
<1>8. t \in SoFar
  BY <1>2, <1>3, <1>4, <1>5, <1>6, <1>7 DEF SoFar
<1> QED
  BY <1>4, <1>7, <1>8 DEF C, cache, said, todo, Tells

\* The addresses of block i in reach of a, those that are left, and how many an address
\* is from the end.
Reach(a, i)    == Common(a, Notification[i].net)
Left(e, a, i)  == IF e.todo[i] = -1 THEN Cardinality(Reach(a, i)) ELSE e.todo[i]
RankIn(R, ip)  == Cardinality({j \in R : j >= ip})

LEMMA ReachFinite ==
  ASSUME NEW a \in Interface, NEW i \in DOMAIN Notification
  PROVE  /\ Reach(a, i) \in SUBSET Int /\ IsFiniteSet(Reach(a, i))
         /\ Cardinality(Reach(a, i)) \in Nat
         /\ Cardinality(Reach(a, i)) = 0 <=> Reach(a, i) = {}
         /\ \A ip \in Reach(a, i) : RankIn(Reach(a, i), ip) \in 1..Cardinality(Reach(a, i))
<1>1. Net(a) \in SUBSET Int /\ IsFiniteSet(Net(a))
  BY NetFinite
<1>2. Reach(a, i) \in SUBSET Net(a)
  BY DEF Reach, Common
<1> DEFINE R == Reach(a, i)
<1>3. R \in SUBSET Int /\ IsFiniteSet(R) /\ Cardinality(R) \in Nat
  BY <1>1, <1>2, SubsetFinite
<1> HIDE DEF R
<1>4. Cardinality(R) = 0 <=> R = {}
  BY <1>3, FS_EmptySet
<1>5. ASSUME NEW ip \in R PROVE RankIn(R, ip) \in 1..Cardinality(R)
  <2> DEFINE S == {j \in R : j >= ip}
  <2>1. S \in SUBSET R /\ ip \in S
    BY <1>3
  <2> HIDE DEF S
  <2>2. IsFiniteSet(S) /\ Cardinality(S) \in Nat /\ Cardinality(S) <= Cardinality(R)
    BY <1>3, <2>1, SubsetFinite
  <2>3. Cardinality(S) # 0
    BY <2>1, <2>2, FS_EmptySet
  <2>4. RankIn(R, ip) = Cardinality(S)
    BY DEF RankIn, S
  <2> QED
    BY <1>3, <2>2, <2>3, <2>4
<1> QED
  BY <1>3, <1>4, <1>5 DEF R

\* send_arp_spoof_netblock: it does nothing when it is done or has nothing to do with
\* the address, or else counts down.
Counts(e, a, i, t) ==
  LET k == Quota(Notification[i], Left(e, a, i))
  IN  /\ t.cache = e.cache /\ t.todo = [e.todo EXCEPT ![i] = Left(e, a, i) - k]
      /\ t.sent = e.sent + k
      /\ t.told = e.told \cup {[from |-> a.ip, to |-> [ip |-> ip]] :
                    ip \in {j \in Reach(a, i) :
                              RankIn(Reach(a, i), j) \in (Left(e, a, i) - k + 1)..Left(e, a, i)}}

LEMMA SendsBlock ==
  ASSUME NEW e \in SoFar, NEW a \in Interface, NEW i \in DOMAIN Notification, ~IsArp(i),
         Fits(e.cache, e.todo), NEW t \in SendBlock(e, a, i)
  PROVE  /\ t \in SoFar /\ Fits(t.cache, t.todo) /\ Left(e, a, i) \in Nat
         /\ \/ t = e /\ (e.todo[i] = 0 \/ a.dev # Notification[i].net.dev \/ Reach(a, i) = {})
            \/ Counts(e, a, i, t) /\ a.dev = Notification[i].net.dev
<1> DEFINE R == Reach(a, i)
           left == Left(e, a, i)
           k == Quota(Notification[i], left)
           new == {[from |-> a.ip, to |-> [ip |-> ip]] : ip \in {j \in R : RankIn(R, j) \in (left - k + 1)..left}}
           sent == [e EXCEPT !.todo[i] = left - k, !.sent = @ + k, !.told = @ \cup new]
<1>1. e.cache \in Seq(Entry \cup {Zero}) /\ e.todo \in Todo /\ e.sent \in Nat /\ e.told \in SUBSET Request
  BY DEF SoFar
<1>2. R \in SUBSET Int /\ Cardinality(R) \in Nat
  BY ReachFinite
<1>3. left \in Nat
  BY <1>1, <1>2 DEF Left, Todo
<1> HIDE DEF left
<1>4. k \in 0..left
  BY <1>3, QuotaType
<1>5. t \in {e, sent}
  BY DEF SendBlock, Reach, RankIn, left, Left
<1>6. t = e => e.todo[i] = 0 \/ a.dev # Notification[i].net.dev \/ R = {} \/ t = sent
  BY DEF SendBlock, Reach, RankIn, left, Left
<1>7. t # e => a.dev = Notification[i].net.dev
  BY DEF SendBlock, Reach, RankIn, left, Left
<1>8. sent \in SoFar /\ sent.cache = e.cache /\ sent.todo = [e.todo EXCEPT ![i] = left - k]
      /\ sent.sent = e.sent + k /\ sent.told = e.told \cup new
  <2>1. left - k \in Nat /\ e.sent + k \in Nat
    BY <1>1, <1>3, <1>4
  <2>2. [e.todo EXCEPT ![i] = left - k] \in Todo
    BY <1>1, <2>1 DEF Todo
  <2>3. new \in SUBSET Request
    <3>1. a.ip \in Nat
      BY NetFinite
    <3> QED
      BY <1>2, <3>1 DEF Request
  <2> HIDE DEF new, k
  <2> QED
    BY <1>1, <2>1, <2>2, <2>3 DEF SoFar
<1>9. Fits(sent.cache, sent.todo)
  <2> HIDE DEF sent, k
  <2>1. \A j \in DOMAIN Notification : IsArp(j) => sent.todo[j] = e.todo[j]
    BY <1>1, <1>8 DEF Todo
  <2> QED
    BY <1>8, <2>1 DEF Fits
<1>10. Counts(e, a, i, sent)
  <2> HIDE DEF sent
  <2> QED
    BY <1>8 DEF Counts, left
<1> HIDE DEF sent, k, new
<1>11. CASE t = sent
  <2>1. left \in Nat /\ t \in SoFar /\ Fits(t.cache, t.todo) /\ Counts(e, a, i, t)
    BY <1>3, <1>8, <1>9, <1>10, <1>11
  <2>2. a.dev # Notification[i].net.dev => t = e
    BY <1>7
  <2> QED
    BY <2>1, <2>2 DEF left
<1>12. CASE t # sent
  BY <1>3, <1>5, <1>6, <1>12 DEF left
<1> QED
  BY <1>11, <1>12

\* Whoever's turn it is: an address and a notification.
LEMMA TurnOf ==
  ASSUME NEW s, s.lvif \in Seq(Interface), NEW k \in 1..Turns(s)
  PROVE  /\ Which(k) \in DOMAIN Notification
         /\ ((k - 1) \div Len(Notification)) + 1 \in DOMAIN s.lvif
         /\ Who(s, k) \in Interface
<1>1. Len(s.lvif) \in Nat /\ DOMAIN s.lvif = 1..Len(s.lvif)
      /\ Len(Notification) \in Nat /\ DOMAIN Notification = 1..Len(Notification)
  BY Notifications
<1>2. ((k - 1) \div Len(Notification)) + 1 \in DOMAIN s.lvif
  BY <1>1, TurnIndex DEF Turns
<1>3. Which(k) \in DOMAIN Notification
  BY <1>1, TurnIndex DEF Turns, Which
<1>4. \A x \in DOMAIN s.lvif : s.lvif[x] \in Interface
  OBVIOUS
<1> QED
  BY <1>2, <1>3, <1>4 DEF Who

\* Every turn keeps the types and the length of the copy.
LEMMA TurnTypes ==
  ASSUME NEW s, s.lvif \in Seq(Interface), NEW k \in 1..Turns(s),
         NEW e \in SoFar, Fits(e.cache, e.todo), NEW t \in Turn(s, e, k)
  PROVE  t \in SoFar /\ Fits(t.cache, t.todo) /\ Len(t.cache) = Len(e.cache) /\ t.sent >= e.sent
<1> DEFINE a == Who(s, k)
           i == Which(k)
<1>1. a \in Interface /\ i \in DOMAIN Notification
  BY TurnOf
<1>2. e.cache \in Seq(Entry \cup {Zero}) /\ e.sent \in Nat
  BY DEF SoFar
<1>3. CASE IsArp(i)
  <2>1. t = SendArpCache(e, a, i)
    BY <1>3 DEF Turn, IsArp
  <2> HIDE DEF a, i
  <2>2. t \in SoFar /\ Fits(t.cache, t.todo) /\ Tells(e, a, i, t)
    BY <1>1, <1>3, <2>1, SendsArp
  <2>3. Cardinality(Chosen(e, a, i)) \in Nat
    BY <1>1, <1>3, NearTypes
  <2>4. Len(t.cache) = Len(e.cache) /\ t.sent = e.sent + Cardinality(Chosen(e, a, i))
    BY <1>2, <2>2 DEF Tells
  <2> QED
    BY <1>2, <2>2, <2>3, <2>4
<1>4. CASE ~IsArp(i)
  <2>1. t \in SendBlock(e, a, i)
    BY <1>4 DEF Turn, IsArp
  <2> HIDE DEF a, i
  <2>2. t \in SoFar /\ Fits(t.cache, t.todo) /\ Left(e, a, i) \in Nat /\ (t = e \/ Counts(e, a, i, t))
    BY <1>1, <1>4, <2>1, SendsBlock
  <2>3. Quota(Notification[i], Left(e, a, i)) \in Nat
    BY <1>1, <2>2, QuotaType
  <2>4. t.sent >= e.sent /\ t.cache = e.cache
    BY <1>2, <2>2, <2>3 DEF Counts
  <2> QED
    BY <2>2, <2>4
<1> QED
  BY <1>3, <1>4

Spoof == [cache : Seq(Entry \cup {Zero}), lvif : Seq(Interface), todo : Todo]

LEMMA StartTypes ==
  ASSUME NEW s \in Spoof, Fits(s.cache, s.todo)
  PROVE  /\ Start(s) \in SoFar /\ Fits(Start(s).cache, Start(s).todo)
         /\ Start(s).cache = s.cache /\ Start(s).todo = s.todo
         /\ Start(s).sent = 0 /\ Start(s).told = {} /\ Turns(s) \in Nat
<1>1. Turns(s) \in Nat
  <2>1. Len(s.lvif) \in Nat /\ Len(Notification) \in Nat
    BY Notifications DEF Spoof
  <2> QED
    BY <2>1 DEF Turns
<1> QED
  BY <1>1 DEF Start, SoFar, Spoof

\* And so does a round.
LEMMA RoundTypes ==
  ASSUME NEW s \in Spoof, Fits(s.cache, s.todo), NEW e \in Round(s)
  PROVE  e \in SoFar /\ Fits(e.cache, e.todo) /\ Len(e.cache) = Len(s.cache)
<1> DEFINE n == Turns(s)
           U == {t \in SoFar : Fits(t.cache, t.todo) /\ Len(t.cache) = Len(s.cache)}
           G == [k \in 0..n |-> U]
<1>1. n \in Nat /\ Start(s) \in U
  BY StartTypes
<1>2. s.lvif \in Seq(Interface)
  BY DEF Spoof
<1>3. \A k \in 1..n : \A t \in U : Turn(s, t, k) \subseteq U
  BY <1>2, TurnTypes
<1> HIDE DEF U
<1>4. Start(s) \in G[0] /\ G[n] = U /\ \A k \in 1..n : G[k - 1] = U /\ G[k] = U
  BY <1>1
<1> HIDE DEF G, n
<1>5. Round(s) \subseteq G[n]
  BY <1>1, <1>3, <1>4, RoundKeeps DEF n
<1> QED
  BY <1>4, <1>5 DEF U

\* The first round counts anew.
Anew == [i \in DOMAIN Notification |-> -1]

LEMMA BegunTypes ==
  ASSUME NEW v \in Vif, NEW s \in Spoof, NEW b, b = Begun(s, v)
  PROVE  /\ b \in Spoof /\ Fits(b.cache, b.todo) /\ b.cache = s.cache
         /\ b.lvif = s.lvif \o Vips[v] /\ b.todo = Anew
<1>1. Vips[v] \in Seq(Interface)
  BY AnnounceAssumption
<1>2. s.cache \in Seq(Entry \cup {Zero}) /\ s.lvif \in Seq(Interface)
      /\ s.lvif \o Vips[v] \in Seq(Interface)
  BY <1>1 DEF Spoof
<1>3. Anew \in Todo
  BY DEF Todo, Anew
<1>4. b = [cache |-> s.cache, lvif |-> s.lvif \o Vips[v], todo |-> Anew]
  BY DEF Begun, Spoof, Anew
<1>5. b \in Spoof /\ b.cache = s.cache /\ b.lvif = s.lvif \o Vips[v] /\ b.todo = Anew
  BY <1>2, <1>3, <1>4 DEF Spoof
<1>6. Fits(b.cache, b.todo)
  <2>1. Len(s.cache) \in Nat
    BY <1>2
  <2> QED
    BY <1>5, <2>1 DEF Fits, Anew
<1> QED
  BY <1>5, <1>6

-----------------------------------------------------------------------------
(* Types of the daemon. *)

SpoofType ==
  /\ queue \in [Vif -> SUBSET {0, 1}]
  /\ spoof \in [Vif -> Spoof]
  /\ \A v \in Vif : Fits(spoof[v].cache, spoof[v].todo) /\ Len(spoof[v].cache) <= size

WireType == Len(wire) <= MaxReport /\ astray \in BOOLEAN

AnnounceType == ReportType /\ WireType /\ SpoofType

\* A copy of the shared cache holds what the shared cache holds.
LEMMA CopyType ==
  ASSUME TableInv
  PROVE  /\ SharedCopy \in Seq(Entry) /\ Len(SharedCopy) = size /\ size \in Nat
         /\ DOMAIN SharedCopy = 1..size /\ \A k \in 1..size : SharedCopy[k] = data[k - 1]
<1>1. size \in Nat /\ data \in [0..(size - 1) -> Entry]
  BY DEF TableInv, TableType
<1>2. \A k \in 1..size : data[k - 1] \in Entry
  BY <1>1
<1>3. SharedCopy \in [1..size -> Entry]
  BY <1>2 DEF SharedCopy
<1> QED
  BY <1>1, <1>3 DEF SharedCopy

\* The shared cache only grows.
LEMMA SizeGrows ==
  ASSUME TableInv, TableInv', ReportType, [Next]_vars
  PROVE  size \in Nat /\ size' \in Nat /\ size <= size'
<1>1. size \in Nat /\ size' \in Nat
  BY DEF TableInv, TableType
<1>2. [TableNext]_table
  BY TableStepOrNone
<1>3. size' = size \/ size' = size + 1
  BY <1>2 DEF TableNext, TableStep, Probe, Replace, Insert, InsertBefore, InsertAt, BeginAdd, table
<1> QED
  BY <1>1, <1>3

\* An invocation and a round keep the types of the entry.
LEMMA InvokeTypes ==
  ASSUME TableInv, SpoofType, NEW v \in Vif, Invoke(v)
  PROVE  SpoofType'
<1>1. /\ spoof' = [spoof EXCEPT ![v].cache = SharedCopy] /\ queue' = [queue EXCEPT ![v] = @ \cup {0}]
      /\ size' = size
  BY DEF Invoke, table
<1>2. SharedCopy \in Seq(Entry \cup {Zero}) /\ Len(SharedCopy) = size /\ size \in Nat
  <2>1. SharedCopy \in Seq(Entry) /\ Len(SharedCopy) = size /\ size \in Nat
    BY CopyType
  <2> QED
    BY <2>1
<1> DEFINE new == [spoof[v] EXCEPT !.cache = SharedCopy]
<1>3. spoof[v] \in Spoof /\ Fits(spoof[v].cache, spoof[v].todo) /\ Len(spoof[v].cache) <= size
  BY DEF SpoofType
<1>4. new \in Spoof /\ new.cache = SharedCopy /\ new.todo = spoof[v].todo
  BY <1>2, <1>3 DEF Spoof
<1>5. Fits(new.cache, new.todo)
  <2>1. Len(spoof[v].cache) \in Nat /\ spoof[v].todo \in Todo
    BY <1>3 DEF Spoof
  <2> HIDE DEF new
  <2>2. \A i \in DOMAIN Notification : spoof[v].todo[i] \in Int
    BY <2>1 DEF Todo
  <2> QED
    BY <1>2, <1>3, <1>4, <2>1, <2>2 DEF Fits
<1>6. spoof' = [spoof EXCEPT ![v] = new]
  BY <1>1
<1> HIDE DEF new
<1> QED
  BY <1>1, <1>2, <1>4, <1>5, <1>6 DEF SpoofType

LEMMA NotifyTypes ==
  ASSUME SpoofType, NEW v \in Vif, NEW code \in {0, 1}, Notify(v, code), size \in Nat
  PROVE  SpoofType'
<1> DEFINE s == IF code = 0 THEN Begun(spoof[v], v) ELSE spoof[v]
<1>1. PICK e \in Round(s) :
        /\ spoof' = [spoof EXCEPT ![v] = [s EXCEPT !.cache = e.cache, !.todo = e.todo]]
        /\ queue' = [queue EXCEPT ![v] = Requeued(@ \ {code}, code, e.sent)]
  BY DEF Notify
<1>2. size' = size
  BY DEF Notify, table
<1>3. spoof[v] \in Spoof /\ Fits(spoof[v].cache, spoof[v].todo) /\ Len(spoof[v].cache) <= size
  BY DEF SpoofType
<1>4. s \in Spoof /\ Fits(s.cache, s.todo) /\ s.cache = spoof[v].cache
  <2>1. CASE code = 0
    <3>1. s = Begun(spoof[v], v)
      BY <2>1
    <3> HIDE DEF s
    <3> QED
      BY <1>3, <3>1, BegunTypes
  <2>2. CASE code # 0
    BY <1>3, <2>2
  <2> QED
    BY <2>1, <2>2
<1> HIDE DEF s
<1>5. e \in SoFar /\ Fits(e.cache, e.todo) /\ Len(e.cache) = Len(s.cache)
  BY <1>4, RoundTypes
<1> DEFINE new == [s EXCEPT !.cache = e.cache, !.todo = e.todo]
<1>6. new \in Spoof /\ new.cache = e.cache /\ new.todo = e.todo
  BY <1>4, <1>5 DEF Spoof, SoFar
<1>7. spoof' = [spoof EXCEPT ![v] = new]
  BY <1>1
<1> HIDE DEF new
<1>8. queue' \in [Vif -> SUBSET {0, 1}]
  BY <1>1 DEF SpoofType, Requeued
<1> QED
  BY <1>2, <1>3, <1>4, <1>5, <1>6, <1>7, <1>8 DEF SpoofType

LEMMA SpoofStep == TableInv /\ TableInv' /\ ReportType /\ SpoofType /\ [Next]_vars => SpoofType'
<1> SUFFICES ASSUME TableInv, TableInv', ReportType, SpoofType, [Next]_vars PROVE SpoofType'
  OBVIOUS
<1>1. size \in Nat /\ size' \in Nat /\ size <= size'
  BY SizeGrows
<1>2. CASE UNCHANGED <<spoof, queue>>
  <2>1. \A v \in Vif : Len(spoof[v].cache) \in Nat
    BY DEF SpoofType, Spoof
  <2> QED
    BY <1>1, <1>2, <2>1 DEF SpoofType
<1>3. CASE \E v \in Vif : Invoke(v)
  BY <1>3, InvokeTypes
<1>4. CASE \E v \in Vif : \E code \in {0, 1} : Notify(v, code)
  BY <1>1, <1>4, NotifyTypes
<1>5. CASE ShareCache \/ ReceiveOwn \/ ReceivePeer \/ ReceiveFails \/ AddNext \/ Adding
          \/ UNCHANGED vars
  BY <1>2, <1>5 DEF ShareCache, ReceiveOwn, ReceivePeer, ReceiveFails, Receive, AddNext, Adding, vars
<1> QED
  BY <1>3, <1>4, <1>5 DEF Next

\* A report is cut at the number of entries that fit.
LEMMA WireStep == ReportType /\ WireType /\ [Next]_vars => WireType'
<1> SUFFICES ASSUME ReportType, WireType, [Next]_vars PROVE WireType'
  OBVIOUS
<1>1. MaxReport \in Nat
  BY AnnounceAssumption
<1>2. CASE ShareCache
  <2>1. private' \in Seq(Entry) /\ wire' = Prefix(private', MaxReport) /\ astray' = astray
    BY <1>2, SampledType DEF ShareCache
  <2> DEFINE c == private'
             n == IF Len(c) < MaxReport THEN Len(c) ELSE MaxReport
  <2>2. n \in 0..Len(c) /\ n <= MaxReport
    BY <1>1, <2>1
  <2>3. Len(SubSeq(c, 1, n)) = n
    <3> HIDE DEF n, c
    <3> QED
      BY <2>1, <2>2 DEF c
  <2> QED
    BY <2>1, <2>2, <2>3 DEF Prefix, WireType
<1>3. CASE ReceiveOwn
  BY <1>1, <1>3 DEF ReceiveOwn, WireType
<1>4. CASE UNCHANGED <<wire, astray>>
  BY <1>4 DEF WireType
<1>5. CASE ReceiveFails
  BY <1>5 DEF ReceiveFails, WireType
<1> QED
  BY <1>2, <1>3, <1>4, <1>5 DEF Next, ReceivePeer, AddNext, Adding, Invoke, Notify, vars

LEMMA SpoofInit == Init => WireType /\ SpoofType
<1> SUFFICES ASSUME Init PROVE WireType /\ SpoofType
  OBVIOUS
<1>1. WireType
  <2>1. Len(wire) = 0 /\ astray = FALSE
    BY DEF Init
  <2>2. MaxReport \in Nat
    BY AnnounceAssumption
  <2>3. Len(wire) <= MaxReport
    BY <2>1, <2>2
  <2> QED
    BY <2>1, <2>3 DEF WireType
<1>2. NewSpoof \in Spoof /\ Len(NewSpoof.cache) = 0 /\ Fits(NewSpoof.cache, NewSpoof.todo)
  BY DEF NewSpoof, Spoof, Todo, Fits
<1>3. size = 0
  BY DEF Init, TableInit
<1> QED
  BY <1>1, <1>2, <1>3 DEF Init, SpoofType

\* Types of a daemon that announces, whatever it samples, receives and brings up: reports
\* fit in the buffer of a message, and no count goes beyond the copy that it counts.
THEOREM TypeCorrect == Spec => []TypeOK
<1> DEFINE I == TableInv /\ AnnounceType
<1>1. Init => I
  BY TableInitInv, ReportInit, SpoofInit DEF Init, AnnounceType
<1>2. I /\ [Next]_vars => I'
  <2> SUFFICES ASSUME TableInv, AnnounceType, [Next]_vars PROVE TableInv' /\ AnnounceType'
    OBVIOUS
  <2>1. TableInv' /\ ReportType'
    BY TableStepInv, ReportStep, TableStepOrNone DEF AnnounceType
  <2> QED
    BY <2>1, SpoofStep, WireStep DEF AnnounceType
<1>3. I => TypeOK
  BY DEF AnnounceType, ReportType, WireType, SpoofType, Spoof, Todo, Fits, IsArp, TypeOK
<1> QED
  BY <1>1, <1>2, <1>3, PTL DEF Spec

-----------------------------------------------------------------------------
(* What is announced.  The addresses of an interface share the count of what is left *)
(* of a block and the copy of the cache, so one must not take away what another one  *)
(* has to announce.                                                                  *)

Apart ==
  \A v \in Vif : \A j, k \in DOMAIN Vips[v] : j # k =>
    \A i \in DOMAIN Notification :
      IF IsArp(i) THEN Net(Vips[v][j]) \cap Net(Vips[v][k]) = {}
      ELSE Vips[v][j].dev # Notification[i].net.dev \/ Vips[v][k].dev # Notification[i].net.dev

Told(T, a, to) == [from |-> a.ip, to |-> to] \in T

\* An entry of cache D is in copy c until it has been announced.
Kept(v, c, T, D) ==
  \A d \in D : \/ \E x \in DOMAIN c : c[x] = d
               \/ \A k \in DOMAIN Vips[v] : d.ip \in Net(Vips[v][k]) => Told(T, Vips[v][k], d)

\* The addresses of a block above the count of what is left have been told.
CountedDown(v, todo, T) ==
  \A k \in DOMAIN Vips[v], i \in DOMAIN Notification :
    ~IsArp(i) /\ Vips[v][k].dev = Notification[i].net.dev /\ todo[i] # -1 =>
      \A ip \in Reach(Vips[v][k], i) :
        RankIn(Reach(Vips[v][k], i), ip) > todo[i] => Told(T, Vips[v][k], [ip |-> ip])

\* The first notification of its kind counts the whole copy; another may find zeroes.
FirstArp(i) == IsArp(i) /\ \A j \in 1..(i - 1) : ~IsArp(j)
Full(c) == \A x \in DOMAIN c : c[x] # Zero

\* The addresses of the entry are those of the interface, perhaps more than once.
Known(v, lvif)  == \A x \in DOMAIN lvif : \E k \in DOMAIN Vips[v] : lvif[x] = Vips[v][k]
Covers(v, lvif) == \A k \in DOMAIN Vips[v] : \E x \in DOMAIN lvif : lvif[x] = Vips[v][k]

\* An entry between two rounds.
Between(v, s, T, D) ==
  /\ Covers(v, s.lvif) /\ Kept(v, s.cache, T, D) /\ CountedDown(v, s.todo, T)
  /\ \A i \in DOMAIN Notification : FirstArp(i) =>
       s.todo[i] = Len(s.cache) \/ (s.todo[i] = -1 /\ Full(s.cache))

\* Turn j would find nothing to send any more.
Over(s, e, j) ==
  IF IsArp(Which(j))
  THEN FirstArp(Which(j)) =>
         \A x \in DOMAIN e.cache : e.cache[x] = Zero \/ e.cache[x].ip \notin Net(Who(s, j))
  ELSE Who(s, j).dev = Notification[Which(j)].net.dev =>
         e.todo[Which(j)] = 0 \/ Reach(Who(s, j), Which(j)) = {}

\* A round after k turns, if T was told before it.
Turning(v, s, T, D, k, e) ==
  /\ e \in SoFar /\ Fits(e.cache, e.todo)
  /\ Kept(v, e.cache, T \cup e.told, D) /\ CountedDown(v, e.todo, T \cup e.told)
  /\ \A i \in DOMAIN Notification : FirstArp(i) =>
       e.todo[i] = Len(e.cache) \/ (k < i /\ e.todo[i] = -1 /\ Full(e.cache))
  /\ k = 0 => e.sent = 0
  /\ e.sent = 0 => \A j \in 1..k : Over(s, e, j)

\* The first turns go through the notifications in their order.
LEMMA FirstTurns ==
  ASSUME NEW k \in Nat, 1 <= k, k <= Len(Notification)
  PROVE  Which(k) = k
<1>1. Len(Notification) \in Nat
  BY Notifications
<1> DEFINE N == Len(Notification)
<1> HIDE DEF N
<1>2. (k - 1) % N = k - 1
  <2>1. N \in Nat /\ N > 0 /\ k - 1 \in 0..(N - 1)
    BY <1>1 DEF N
  <2> QED
    BY <2>1
<1> QED
  BY <1>2 DEF Which, N

LEMMA EntryNotZero == \A d \in Entry : d # Zero /\ d.ip # 0
  BY AnnounceAssumption DEF Entry, Zero

\* A turn of the cache: what it takes out of the copy it tells.
LEMMA TellingKept ==
  ASSUME NEW v \in Vif, Apart, NEW T, NEW D \in SUBSET Entry,
         NEW e \in SoFar, Fits(e.cache, e.todo), Kept(v, e.cache, T \cup e.told, D),
         NEW h \in DOMAIN Vips[v], NEW i \in DOMAIN Notification, IsArp(i),
         Vips[v][h] \in Interface, NEW t, Tells(e, Vips[v][h], i, t)
  PROVE  Kept(v, t.cache, T \cup t.told, D)
<1> DEFINE a == Vips[v][h]
           C == Chosen(e, a, i)
<1>1. /\ C \in SUBSET Near(e, a, i) /\ Near(e, a, i) \in SUBSET DOMAIN e.cache
      /\ \A x \in C : e.cache[x].ip \in Net(a)
  <2>1. Near(e, a, i) \in SUBSET DOMAIN e.cache
    BY NearTypes
  <2> QED
    BY <2>1 DEF Chosen, Near
<1>2. /\ t.cache = [x \in DOMAIN e.cache |-> IF x \in C THEN Zero ELSE e.cache[x]]
      /\ t.told = e.told \cup {[from |-> a.ip, to |-> e.cache[x]] : x \in C}
  BY DEF Tells
<1> HIDE DEF a, C
<1> SUFFICES ASSUME NEW d \in D
             PROVE  \/ \E x \in DOMAIN t.cache : t.cache[x] = d
                    \/ \A k \in DOMAIN Vips[v] :
                         d.ip \in Net(Vips[v][k]) => Told(T \cup t.told, Vips[v][k], d)
  BY DEF Kept
<1>3. \/ \E x \in DOMAIN e.cache : e.cache[x] = d
      \/ \A k \in DOMAIN Vips[v] :
           d.ip \in Net(Vips[v][k]) => Told(T \cup e.told, Vips[v][k], d)
  BY DEF Kept
<1>4. CASE \A k \in DOMAIN Vips[v] :
             d.ip \in Net(Vips[v][k]) => Told(T \cup e.told, Vips[v][k], d)
  BY <1>2, <1>4 DEF Told
<1>5. ASSUME NEW x \in DOMAIN e.cache, e.cache[x] = d
      PROVE  \/ \E y \in DOMAIN t.cache : t.cache[y] = d
             \/ \A k \in DOMAIN Vips[v] :
                  d.ip \in Net(Vips[v][k]) => Told(T \cup t.told, Vips[v][k], d)
  <2>1. CASE x \notin C
    BY <1>2, <1>5, <2>1
  <2>2. CASE x \in C
    <3>1. d.ip \in Net(a) /\ [from |-> a.ip, to |-> d] \in t.told
      BY <1>1, <1>2, <1>5, <2>2
    <3>2. ASSUME NEW k \in DOMAIN Vips[v], d.ip \in Net(Vips[v][k]) PROVE k = h
      <4>1. k # h => Net(Vips[v][k]) \cap Net(Vips[v][h]) = {}
        BY DEF Apart
      <4> QED
        BY <3>1, <3>2, <4>1 DEF a
    <3> QED
      BY <3>1, <3>2 DEF Told, a
  <2> QED
    BY <2>1, <2>2
<1> QED
  BY <1>3, <1>4, <1>5

\* A turn for the cache.
LEMMA TurnTells ==
  ASSUME NEW v \in Vif, Apart, NEW s \in Spoof, Known(v, s.lvif),
         NEW T, NEW D \in SUBSET Entry, NEW k \in 1..Turns(s), IsArp(Which(k)),
         NEW e, Turning(v, s, T, D, k - 1, e), NEW t \in Turn(s, e, k)
  PROVE  Turning(v, s, T, D, k, t)
<1> DEFINE i == Which(k)
           a == Who(s, k)
           C == Chosen(e, a, i)
<1>1. s.lvif \in Seq(Interface) /\ Turns(s) \in Nat /\ k \in Nat /\ k - 1 \in Nat
  <2>1. s.lvif \in Seq(Interface) /\ Len(s.lvif) \in Nat /\ Len(Notification) \in Nat
    BY Notifications DEF Spoof
  <2> QED
    BY <2>1 DEF Turns
<1>2. /\ i \in DOMAIN Notification /\ a \in Interface
      /\ ((k - 1) \div Len(Notification)) + 1 \in DOMAIN s.lvif
  BY <1>1, TurnOf
<1>3. PICK h \in DOMAIN Vips[v] : a = Vips[v][h]
  BY <1>2 DEF Known, Who
<1>4. e \in SoFar /\ Fits(e.cache, e.todo) /\ Kept(v, e.cache, T \cup e.told, D)
      /\ CountedDown(v, e.todo, T \cup e.told)
  BY DEF Turning
<1>5. t = SendArpCache(e, a, i)
  BY DEF Turn, IsArp
<1>6. t \in SoFar /\ Fits(t.cache, t.todo) /\ Tells(e, a, i, t)
  BY <1>2, <1>4, <1>5, SendsArp
<1>7. /\ Counted(e, i) \in 0..Len(e.cache) /\ Near(e, a, i) \in SUBSET DOMAIN e.cache
      /\ IsFiniteSet(C) /\ Cardinality(C) \in Nat
      /\ C = {} => Near(e, a, i) = {}
  BY <1>2, <1>4, NearTypes
<1>8. Kept(v, t.cache, T \cup t.told, D)
  BY <1>2, <1>3, <1>4, <1>6, TellingKept
<1>9. /\ t.todo = [e.todo EXCEPT ![i] = Counted(e, i)] /\ t.sent = e.sent + Cardinality(C)
      /\ t.cache = [x \in DOMAIN e.cache |-> IF x \in C THEN Zero ELSE e.cache[x]]
      /\ e.told \subseteq t.told
  BY <1>6 DEF Tells
<1>10. e.todo \in Todo /\ e.sent \in Nat /\ e.cache \in Seq(Entry \cup {Zero})
       /\ Len(e.cache) \in Nat /\ DOMAIN e.cache = 1..Len(e.cache)
  BY <1>4 DEF SoFar
<1> HIDE DEF i, a, C
<1>11. \A j \in DOMAIN Notification : ~IsArp(j) => t.todo[j] = e.todo[j]
  BY <1>9, <1>10 DEF Todo, i
<1>12. CountedDown(v, t.todo, T \cup t.told)
  BY <1>4, <1>9, <1>11 DEF CountedDown, Told
<1>13. Len(t.cache) = Len(e.cache)
  BY <1>9, <1>10
<1>14. FirstArp(i) => Counted(e, i) = Len(e.cache)
  <2> SUFFICES ASSUME FirstArp(i) PROVE Counted(e, i) = Len(e.cache)
    OBVIOUS
  <2>1. e.todo[i] = Len(e.cache) \/ (e.todo[i] = -1 /\ Full(e.cache))
    BY <1>2 DEF Turning
  <2>2. Full(e.cache) => CountOf(e.cache) = Len(e.cache)
    BY <1>10, CountType DEF Full
  <2> QED
    BY <1>10, <2>1, <2>2 DEF Counted
<1>15. ASSUME NEW j \in DOMAIN Notification, FirstArp(j)
       PROVE  t.todo[j] = Len(t.cache)
  <2>1. CASE j = i
    BY <1>2, <1>9, <1>10, <1>13, <1>14, <1>15, <2>1 DEF Todo
  <2>2. CASE j # i
    <3>1. j < i
      <4>1. j \in Nat /\ i \in Nat
        BY <1>2, Notifications
      <4>2. i < j => i \in 1..(j - 1)
        BY <1>2, <4>1, Notifications
      <4>3. ~(i < j)
        BY <1>15, <4>2 DEF FirstArp, i
      <4> QED
        BY <2>2, <4>1, <4>3
    <3>2. ~(k - 1 < j)
      <4> SUFFICES ASSUME k - 1 < j PROVE FALSE
        OBVIOUS
      <4>1. j \in Nat /\ j <= Len(Notification) /\ Len(Notification) \in Nat
        BY Notifications
      <4>2. 1 <= k /\ k <= j /\ k <= Len(Notification)
        BY <1>1, <4>1
      <4>3. i = k
        BY <1>1, <4>2, FirstTurns DEF i
      <4> QED
        BY <1>1, <3>1, <4>1, <4>2, <4>3
    <3>3. e.todo[j] = Len(e.cache)
      BY <1>15, <3>2 DEF Turning
    <3> QED
      BY <1>9, <1>10, <1>13, <2>2, <3>3 DEF Todo
  <2> QED
    BY <2>1, <2>2
<1>16. ASSUME t.sent = 0, NEW j \in 1..k PROVE Over(s, t, j)
  <2>1. e.sent = 0 /\ Cardinality(C) = 0
    BY <1>7, <1>9, <1>10, <1>16
  <2>2. C = {} /\ Near(e, a, i) = {}
    BY <1>7, <2>1, FS_EmptySet
  <2>3. t.cache = e.cache
    BY <1>9, <1>10, <2>2
  <2>4. CASE j # k
    <3>1. j \in 1..(k - 1)
      BY <1>1, <2>4
    <3>2. Over(s, e, j)
      BY <2>1, <3>1 DEF Turning
    <3>3. Which(j) \in DOMAIN Notification
      <4>1. j \in 1..Turns(s)
        BY <1>1
      <4> QED
        BY <1>1, <4>1, TurnOf
    <3> QED
      BY <1>11, <2>3, <3>2, <3>3 DEF Over
  <2>5. CASE j = k
    <3>1. FirstArp(i) => \A x \in DOMAIN e.cache : e.cache[x] = Zero \/ e.cache[x].ip \notin Net(a)
      BY <1>10, <1>14, <2>2 DEF Near
    <3> QED
      BY <2>3, <2>5, <3>1 DEF Over, i, a
  <2> QED
    BY <2>4, <2>5
<1> QED
  BY <1>1, <1>6, <1>8, <1>12, <1>15, <1>16 DEF Turning

\* What a block turn counts down it tells.
LEMMA CountingTold ==
  ASSUME NEW v \in Vif, Apart, NEW T, NEW e \in SoFar, CountedDown(v, e.todo, T \cup e.told),
         NEW h \in DOMAIN Vips[v], NEW i \in DOMAIN Notification, ~IsArp(i),
         Vips[v][h] \in Interface, Vips[v][h].dev = Notification[i].net.dev,
         Left(e, Vips[v][h], i) \in Nat, NEW t, Counts(e, Vips[v][h], i, t)
  PROVE  CountedDown(v, t.todo, T \cup t.told)
<1> DEFINE a == Vips[v][h]
           R == Reach(a, i)
           left == Left(e, a, i)
           q == Quota(Notification[i], left)
<1>1. /\ t.todo = [e.todo EXCEPT ![i] = left - q] /\ e.told \subseteq t.told
      /\ \A ip \in R : RankIn(R, ip) \in (left - q + 1)..left => [from |-> a.ip, to |-> [ip |-> ip]] \in t.told
  BY DEF Counts
<1>2. left \in Nat /\ q \in 0..left
  BY QuotaType
<1>3. e.todo \in Todo
  BY DEF SoFar
<1>4. \A ip \in R : RankIn(R, ip) \in 1..Cardinality(R)
  BY ReachFinite
<1>5. Cardinality(R) \in Nat
  BY ReachFinite
<1>6. left = IF e.todo[i] = -1 THEN Cardinality(R) ELSE e.todo[i]
  BY DEF Left
<1> HIDE DEF a, R, left, q
<1> SUFFICES ASSUME NEW k \in DOMAIN Vips[v], NEW j \in DOMAIN Notification,
                    ~IsArp(j), Vips[v][k].dev = Notification[j].net.dev, t.todo[j] # -1,
                    NEW ip \in Reach(Vips[v][k], j), RankIn(Reach(Vips[v][k], j), ip) > t.todo[j]
             PROVE  Told(T \cup t.told, Vips[v][k], [ip |-> ip])
  BY DEF CountedDown
<1>7. CASE j # i
  <2>1. t.todo[j] = e.todo[j]
    BY <1>1, <1>3, <1>7 DEF Todo
  <2>2. Told(T \cup e.told, Vips[v][k], [ip |-> ip])
    BY <2>1 DEF CountedDown
  <2> QED
    BY <1>1, <2>2 DEF Told
<1>8. CASE j = i
  <2>1. k = h
    BY <1>8 DEF Apart
  <2>2. ip \in R /\ RankIn(R, ip) > left - q /\ RankIn(R, ip) \in 1..Cardinality(R)
    <3>1. t.todo[i] = left - q
      BY <1>1, <1>3 DEF Todo
    <3> QED
      BY <1>4, <1>8, <2>1, <3>1 DEF R, a
  <2>3. CASE RankIn(R, ip) <= left
    <3>1. RankIn(R, ip) \in (left - q + 1)..left
      BY <1>2, <1>5, <2>2, <2>3
    <3> QED
      BY <1>1, <2>1, <2>2, <3>1 DEF Told, a
  <2>4. CASE ~(RankIn(R, ip) <= left)
    <3>1. e.todo[i] # -1 /\ RankIn(R, ip) > e.todo[i]
      BY <1>2, <1>5, <1>6, <2>2, <2>4
    <3>2. Told(T \cup e.told, Vips[v][k], [ip |-> ip])
      BY <1>8, <2>1, <2>2, <3>1 DEF CountedDown, R, a
    <3> QED
      BY <1>1, <3>2 DEF Told
  <2> QED
    BY <2>3, <2>4
<1> QED
  BY <1>7, <1>8

\* A turn for a block.
LEMMA TurnCounts ==
  ASSUME NEW v \in Vif, Apart, NEW s \in Spoof, Known(v, s.lvif),
         NEW T, NEW D \in SUBSET Entry, NEW k \in 1..Turns(s), ~IsArp(Which(k)),
         NEW e, Turning(v, s, T, D, k - 1, e), NEW t \in Turn(s, e, k)
  PROVE  Turning(v, s, T, D, k, t)
<1> DEFINE i == Which(k)
           a == Who(s, k)
           left == Left(e, a, i)
           q == Quota(Notification[i], left)
<1>1. s.lvif \in Seq(Interface) /\ Turns(s) \in Nat /\ k \in Nat /\ k - 1 \in Nat
  <2>1. s.lvif \in Seq(Interface) /\ Len(s.lvif) \in Nat /\ Len(Notification) \in Nat
    BY Notifications DEF Spoof
  <2> QED
    BY <2>1 DEF Turns
<1>2. /\ i \in DOMAIN Notification /\ a \in Interface
      /\ ((k - 1) \div Len(Notification)) + 1 \in DOMAIN s.lvif
  BY <1>1, TurnOf
<1>3. PICK h \in DOMAIN Vips[v] : a = Vips[v][h]
  BY <1>2 DEF Known, Who
<1>4. e \in SoFar /\ Fits(e.cache, e.todo) /\ Kept(v, e.cache, T \cup e.told, D)
      /\ CountedDown(v, e.todo, T \cup e.told)
  BY DEF Turning
<1>5. t \in SendBlock(e, a, i)
  BY DEF Turn, IsArp
<1>6. /\ t \in SoFar /\ Fits(t.cache, t.todo) /\ left \in Nat
      /\ \/ t = e /\ (e.todo[i] = 0 \/ a.dev # Notification[i].net.dev \/ Reach(a, i) = {})
         \/ Counts(e, a, i, t) /\ a.dev = Notification[i].net.dev
  BY <1>2, <1>4, <1>5, SendsBlock
<1>7. e.todo \in Todo /\ e.sent \in Nat
  BY <1>4 DEF SoFar
<1>8. q \in 0..left /\ (left # 0 => q # 0)
  BY <1>2, <1>6, QuotaType
<1>9. t # e => /\ t.todo = [e.todo EXCEPT ![i] = left - q] /\ t.sent = e.sent + q
               /\ a.dev = Notification[i].net.dev
  BY <1>6 DEF Counts
<1>10. t.cache = e.cache /\ e.told \subseteq t.told
  BY <1>6 DEF Counts
<1> HIDE DEF i, a, left, q
<1>11. \A j \in DOMAIN Notification : j # i => t.todo[j] = e.todo[j]
  BY <1>7, <1>9 DEF Todo
<1>12. CountedDown(v, t.todo, T \cup t.told)
  <2>1. CASE t = e
    BY <1>4, <2>1
  <2>2. CASE t # e
    <3>1. Counts(e, a, i, t) /\ a.dev = Notification[i].net.dev /\ Left(e, a, i) \in Nat
      BY <1>6, <2>2 DEF left
    <3>2. ~IsArp(i)
      BY DEF i
    <3> QED
      BY <1>2, <1>3, <1>4, <3>1, <3>2, CountingTold
  <2> QED
    BY <2>1, <2>2
<1>13. Kept(v, t.cache, T \cup t.told, D)
  BY <1>4, <1>10 DEF Kept, Told
<1>14. ASSUME NEW j \in DOMAIN Notification, FirstArp(j)
       PROVE  t.todo[j] = Len(t.cache) \/ (k < j /\ t.todo[j] = -1 /\ Full(t.cache))
  <2>1. j # i /\ t.todo[j] = e.todo[j]
    BY <1>11, <1>14 DEF FirstArp, i
  <2>2. e.todo[j] = Len(e.cache) \/ (k - 1 < j /\ e.todo[j] = -1 /\ Full(e.cache))
    BY <1>14 DEF Turning
  <2>3. k - 1 < j => k < j
    <3> SUFFICES ASSUME k - 1 < j, ~(k < j) PROVE FALSE
      OBVIOUS
    <3>1. j \in Nat /\ j <= Len(Notification) /\ Len(Notification) \in Nat
      BY Notifications
    <3>2. k = j /\ 1 <= k /\ k <= Len(Notification)
      BY <1>1, <3>1
    <3> QED
      BY <1>1, <2>1, <3>2, FirstTurns DEF i
  <2> QED
    BY <1>10, <2>1, <2>2, <2>3
<1>15. ASSUME t.sent = 0, NEW j \in 1..k PROVE Over(s, t, j)
  <2>1. e.sent = 0 /\ (t # e => q = 0 /\ left = 0)
    BY <1>6, <1>7, <1>8, <1>9, <1>15
  <2>2. t.todo[i] = 0 \/ t.todo[i] = e.todo[i]
    BY <1>2, <1>7, <1>9, <2>1 DEF Todo
  <2>3. CASE j # k
    <3>1. j \in 1..(k - 1)
      BY <1>1, <2>3
    <3>2. Over(s, e, j)
      BY <2>1, <3>1 DEF Turning
    <3>3. Which(j) \in DOMAIN Notification
      <4>1. j \in 1..Turns(s)
        BY <1>1
      <4> QED
        BY <1>1, <4>1, TurnOf
    <3>4. t.todo[Which(j)] = e.todo[Which(j)] \/ t.todo[Which(j)] = 0
      BY <1>11, <2>2, <3>3
    <3> QED
      BY <1>10, <3>2, <3>4 DEF Over
  <2>4. CASE j = k
    <3>1. a.dev = Notification[i].net.dev => t.todo[i] = 0 \/ Reach(a, i) = {}
      <4>1. CASE Counts(e, a, i, t)
        <5>1. t.todo = [e.todo EXCEPT ![i] = left - q] /\ t.sent = e.sent + q
          BY <4>1 DEF Counts, left, q
        <5>2. q = 0 /\ left = 0
          BY <1>6, <1>7, <1>8, <1>15, <5>1
        <5> QED
          BY <1>2, <1>7, <5>1, <5>2 DEF Todo
      <4>2. CASE ~Counts(e, a, i, t)
        BY <1>6, <4>2
      <4> QED
        BY <4>1, <4>2
    <3> QED
      BY <2>4, <3>1 DEF Over, i, a
  <2> QED
    BY <2>3, <2>4
<1> QED
  BY <1>1, <1>6, <1>12, <1>13, <1>14, <1>15 DEF Turning

\* A round, from an entry between two rounds.
LEMMA RoundTurns ==
  ASSUME NEW v \in Vif, Apart, NEW s \in Spoof, Fits(s.cache, s.todo), Known(v, s.lvif),
         NEW T, NEW D \in SUBSET Entry, Between(v, s, T, D), NEW e \in Round(s)
  PROVE  Turning(v, s, T, D, Turns(s), e)
<1> DEFINE n == Turns(s)
           G == [k \in 0..n |-> {t \in SoFar : Turning(v, s, T, D, k, t)}]
<1>1. /\ n \in Nat /\ Start(s) \in SoFar /\ Fits(Start(s).cache, Start(s).todo)
      /\ Start(s).cache = s.cache /\ Start(s).todo = s.todo /\ Start(s).sent = 0 /\ Start(s).told = {}
  BY StartTypes
<1>2. Turning(v, s, T, D, 0, Start(s))
  <2>1. T \cup Start(s).told = T
    BY <1>1
  <2>2. \A i \in DOMAIN Notification : FirstArp(i) =>
          s.todo[i] = Len(s.cache) \/ (0 < i /\ s.todo[i] = -1 /\ Full(s.cache))
    <3>1. \A i \in DOMAIN Notification : 0 < i
      BY Notifications
    <3> QED
      BY <3>1 DEF Between
  <2> QED
    BY <1>1, <2>1, <2>2 DEF Turning, Between
<1>3. ASSUME NEW k \in 1..n, NEW t, Turning(v, s, T, D, k - 1, t), NEW u \in Turn(s, t, k)
      PROVE  u \in SoFar /\ Turning(v, s, T, D, k, u)
  <2>1. Turning(v, s, T, D, k, u)
    BY <1>3, TurnTells, TurnCounts
  <2> QED
    BY <2>1 DEF Turning
<1>4. \A k \in 0..n : G[k] = {t \in SoFar : Turning(v, s, T, D, k, t)}
  OBVIOUS
<1> HIDE DEF G, n
<1>5. Start(s) \in G[0]
  BY <1>1, <1>2, <1>4
<1>6. \A k \in 1..n : \A t \in G[k - 1] : Turn(s, t, k) \subseteq G[k]
  <2> SUFFICES ASSUME NEW k \in 1..n, NEW t \in G[k - 1], NEW u \in Turn(s, t, k)
               PROVE  u \in G[k]
    OBVIOUS
  <2>1. k \in 0..n /\ k - 1 \in 0..n
    BY <1>1
  <2>2. Turning(v, s, T, D, k - 1, t)
    BY <1>4, <2>1
  <2> QED
    BY <1>3, <1>4, <2>1, <2>2
<1>7. Round(s) \subseteq G[n]
  BY <1>1, <1>5, <1>6, RoundKeeps DEF n
<1> QED
  BY <1>1, <1>4, <1>7 DEF n

\* Everything that an interface has to announce of cache D has been announced.
AllTold(v, T, D) ==
  \A k \in DOMAIN Vips[v], i \in DOMAIN Notification :
    \A to \in Targets(Vips[v][k], Notification[i], D) : Told(T, Vips[v][k], to)

\* If some notification is for the cache, one is the first.
LEMMA FirstExists ==
  ASSUME NEW i \in DOMAIN Notification, IsArp(i)
  PROVE  \E j \in DOMAIN Notification : FirstArp(j)
<1> DEFINE S == {j \in DOMAIN Notification : IsArp(j)}
<1>1. S \in SUBSET Nat /\ i \in S
  BY Notifications
<1> HIDE DEF S
<1>2. PICK j \in S : \A k \in S : j <= k
  BY <1>1, HasLeast
<1>3. \A k \in 1..(j - 1) : k \notin S /\ k \in DOMAIN Notification
  BY <1>1, <1>2, Notifications DEF S
<1> QED
  BY <1>2, <1>3 DEF S, FirstArp

\* Every address has its turn with every notification.
LEMMA HasTurn ==
  ASSUME NEW v, NEW s \in Spoof, Covers(v, s.lvif),
         NEW k \in DOMAIN Vips[v], NEW i \in DOMAIN Notification
  PROVE  \E j \in 1..Turns(s) : Which(j) = i /\ Who(s, j) = Vips[v][k]
<1>1. PICK x \in DOMAIN s.lvif : s.lvif[x] = Vips[v][k]
  BY DEF Covers
<1> DEFINE L == Len(s.lvif)
           N == Len(Notification)
<1>2. L \in Nat /\ x \in 1..L /\ N \in Nat /\ i \in 1..N
  BY Notifications DEF Spoof
<1> HIDE DEF L, N
<1>3. InTurn(L, N, x, i)
  BY <1>2, TurnFor
<1>4. PICK j \in 1..(L * N) : ((j - 1) % N) + 1 = i /\ ((j - 1) \div N) + 1 = x
  BY <1>3 DEF InTurn
<1>5. j \in 1..Turns(s)
  BY DEF Turns, L, N
<1>6. Which(j) = i /\ Who(s, j) = s.lvif[x]
  BY <1>4 DEF Which, Who, N
<1> QED
  BY <1>1, <1>5, <1>6

\* A round in which nothing was sent is the last, and everything is told.
LEMMA RoundDone ==
  ASSUME NEW v \in Vif, NEW s \in Spoof, Covers(v, s.lvif), NEW T, NEW D \in SUBSET Entry,
         NEW e, Turning(v, s, T, D, Turns(s), e), e.sent = 0
  PROVE  AllTold(v, T \cup e.told, D)
<1> DEFINE U == T \cup e.told
<1>1. Kept(v, e.cache, U, D) /\ CountedDown(v, e.todo, U) /\ \A j \in 1..Turns(s) : Over(s, e, j)
  BY DEF Turning
<1> HIDE DEF U
<1> SUFFICES ASSUME NEW k \in DOMAIN Vips[v], NEW i \in DOMAIN Notification,
                    NEW to \in Targets(Vips[v][k], Notification[i], D)
             PROVE  Told(U, Vips[v][k], to)
  BY DEF AllTold, U
<1>2. CASE IsArp(i)
  <2>1. to \in D /\ to.ip \in Net(Vips[v][k])
    BY <1>2 DEF Targets, IsArp
  <2>2. PICK first \in DOMAIN Notification : FirstArp(first)
    BY <1>2, FirstExists
  <2>3. PICK j \in 1..Turns(s) : Which(j) = first /\ Who(s, j) = Vips[v][k]
    BY HasTurn
  <2>4. \A x \in DOMAIN e.cache : e.cache[x] = Zero \/ e.cache[x].ip \notin Net(Vips[v][k])
    BY <1>1, <2>2, <2>3 DEF Over, FirstArp
  <2>5. ~ \E x \in DOMAIN e.cache : e.cache[x] = to
    BY <2>1, <2>4, EntryNotZero
  <2> QED
    BY <1>1, <2>1, <2>5 DEF Kept
<1>3. CASE ~IsArp(i)
  <2>1. /\ Vips[v][k].dev = Notification[i].net.dev
        /\ \E ip \in Reach(Vips[v][k], i) : to = [ip |-> ip]
    BY <1>3 DEF Targets, IsArp, Reach
  <2>2. PICK ip \in Reach(Vips[v][k], i) : to = [ip |-> ip]
    BY <2>1
  <2>3. PICK j \in 1..Turns(s) : Which(j) = i /\ Who(s, j) = Vips[v][k]
    BY HasTurn
  <2>4. e.todo[i] = 0
    BY <1>1, <1>3, <2>1, <2>2, <2>3 DEF Over
  <2>5. Vips[v][k] \in Interface
    BY AnnounceAssumption
  <2>6. RankIn(Reach(Vips[v][k], i), ip) > 0
    BY <2>2, <2>5, ReachFinite
  <2> QED
    BY <1>1, <1>3, <2>1, <2>2, <2>4, <2>6 DEF CountedDown
<1> QED
  BY <1>2, <1>3

\* After a round in which something was sent the entry is between two rounds.
LEMMA RoundGoesOn ==
  ASSUME NEW v \in Vif, NEW s \in Spoof, Covers(v, s.lvif), NEW T, NEW D \in SUBSET Entry,
         NEW e, Turning(v, s, T, D, Turns(s), e), e.sent # 0,
         NEW r \in Spoof, r.lvif = s.lvif, r.cache = e.cache, r.todo = e.todo
  PROVE  Between(v, r, T \cup e.told, D)
<1>1. Covers(v, r.lvif) /\ Kept(v, r.cache, T \cup e.told, D) /\ CountedDown(v, r.todo, T \cup e.told)
  BY DEF Turning
<1>2. ASSUME NEW i \in DOMAIN Notification, FirstArp(i) PROVE r.todo[i] = Len(r.cache)
  <2>1. e.todo[i] = Len(e.cache) \/ Turns(s) < i
    BY <1>2 DEF Turning
  <2>2. ~(Turns(s) < i)
    <3> DEFINE L == Len(s.lvif)
               N == Len(Notification)
    <3>1. L \in Nat /\ N \in Nat /\ i \in 1..N /\ Turns(s) = L * N
      BY Notifications DEF Spoof, Turns
    <3>2. L * N # 0
      BY <3>1 DEF Turning
    <3> HIDE DEF L, N
    <3>3. L >= 1
      BY <3>1, <3>2
    <3>4. L * N >= N
      BY <3>1, <3>3
    <3> QED
      BY <3>1, <3>4
  <2> QED
    BY <2>1, <2>2
<1> QED
  BY <1>1, <1>2 DEF Between

\* What the histories of an interface say in each of the phases of an invocation: when the
\* first round is still due, between two rounds, and after the last one.
Phase(v, s, Q, T, D) ==
  /\ 0 \in Q => /\ 1 \notin Q /\ Full(s.cache)
                /\ \A d \in D : \E x \in DOMAIN s.cache : s.cache[x] = d
  /\ Q = {1} => Between(v, s, T, D)
  /\ Q = {} => AllTold(v, T, D)

ToldInv ==
  \A v \in Vif : /\ Known(v, spoof[v].lvif)
                 /\ clean[v] => Phase(v, spoof[v], queue[v], told[v], due[v])

Histories ==
  /\ told \in [Vif -> SUBSET Request] /\ due \in [Vif -> SUBSET Entry]
  /\ clean \in [Vif -> BOOLEAN]

\* The first round counts the addresses of the interface, perhaps once more.
LEMMA BegunKnown ==
  ASSUME NEW v \in Vif, NEW s \in Spoof, NEW b, b = Begun(s, v), Known(v, s.lvif)
  PROVE  Known(v, b.lvif) /\ Covers(v, b.lvif)
<1>1. b.lvif = s.lvif \o Vips[v]
  BY BegunTypes
<1> DEFINE p == s.lvif
           q == Vips[v]
           r == b.lvif
<1>2. p \in Seq(Interface) /\ q \in Seq(Interface) /\ r = p \o q
  BY <1>1, AnnounceAssumption DEF Spoof
<1>3. Known(v, p)
  OBVIOUS
<1> HIDE DEF p, q, r
<1>4. /\ Len(r) = Len(p) + Len(q) /\ Len(p) \in Nat /\ Len(q) \in Nat
      /\ DOMAIN r = 1..Len(r) /\ DOMAIN p = 1..Len(p) /\ DOMAIN q = 1..Len(q)
      /\ \A x \in 1..Len(p) : r[x] = p[x]
      /\ \A x \in 1..Len(q) : r[Len(p) + x] = q[x]
  BY <1>2
<1>5. ASSUME NEW x \in DOMAIN r PROVE \E k \in DOMAIN q : r[x] = q[k]
  <2>1. CASE x <= Len(p)
    BY <1>3, <1>4, <2>1 DEF Known, q
  <2>2. CASE ~(x <= Len(p))
    <3>1. x - Len(p) \in 1..Len(q) /\ Len(p) + (x - Len(p)) = x
      BY <1>4, <2>2
    <3> QED
      BY <1>4, <3>1
  <2> QED
    BY <2>1, <2>2
<1>6. ASSUME NEW k \in DOMAIN q PROVE \E x \in DOMAIN r : r[x] = q[k]
  <2>1. Len(p) + k \in DOMAIN r
    BY <1>4
  <2> QED
    BY <1>4, <2>1
<1> QED
  BY <1>5, <1>6 DEF Known, Covers, q, r

\* The first round begins with the addresses of the interface and the copy of the cache.
LEMMA BegunBetween ==
  ASSUME NEW v \in Vif, NEW s \in Spoof, NEW b, b = Begun(s, v), NEW T, NEW D,
         Known(v, s.lvif), Full(s.cache), \A d \in D : \E x \in DOMAIN s.cache : s.cache[x] = d
  PROVE  Between(v, b, T, D)
<1>1. b.cache = s.cache /\ b.todo = Anew
  BY BegunTypes
<1>2. Covers(v, b.lvif)
  BY BegunKnown
<1>3. Kept(v, b.cache, T, D)
  BY <1>1 DEF Kept
<1>4. CountedDown(v, b.todo, T)
  BY <1>1 DEF CountedDown, Anew
<1>5. \A i \in DOMAIN Notification : b.todo[i] = -1 /\ Full(b.cache)
  BY <1>1 DEF Anew
<1> QED
  BY <1>2, <1>3, <1>4, <1>5 DEF Between

\* A round of an entry.
LEMMA NotifyTold ==
  ASSUME Apart, SpoofType, Histories, ToldInv, NEW v \in Vif, NEW code \in {0, 1}, Notify(v, code)
  PROVE  ToldInv'
<1> DEFINE s == IF code = 0 THEN Begun(spoof[v], v) ELSE spoof[v]
<1>1. PICK e \in Round(s) :
        /\ spoof' = [spoof EXCEPT ![v] = [s EXCEPT !.cache = e.cache, !.todo = e.todo]]
        /\ queue' = [queue EXCEPT ![v] = Requeued(@ \ {code}, code, e.sent)]
        /\ told' = [told EXCEPT ![v] = @ \cup e.told]
  BY DEF Notify
<1>2. due' = due /\ clean' = clean /\ code \in queue[v]
  BY DEF Notify
<1>3. spoof[v] \in Spoof /\ Fits(spoof[v].cache, spoof[v].todo)
      /\ spoof \in [Vif -> Spoof] /\ queue \in [Vif -> SUBSET {0, 1}]
  BY DEF SpoofType
<1>4. Known(v, spoof[v].lvif) /\ due[v] \in SUBSET Entry
  BY DEF ToldInv, Histories
<1>5. /\ s \in Spoof /\ Fits(s.cache, s.todo) /\ Known(v, s.lvif)
      /\ clean[v] => Between(v, s, told[v], due[v])
      /\ clean[v] => queue[v] = {code}
  <2>1. CASE code = 0
    <3>1. s = Begun(spoof[v], v)
      BY <2>1
    <3>2. s.lvif = spoof[v].lvif \o Vips[v]
      BY <1>3, <3>1, BegunTypes
    <3>3. clean[v] => /\ 1 \notin queue[v] /\ Full(spoof[v].cache)
                      /\ \A d \in due[v] : \E x \in DOMAIN spoof[v].cache : spoof[v].cache[x] = d
      BY <1>2, <2>1 DEF ToldInv, Phase
    <3> HIDE DEF s
    <3>4. s \in Spoof /\ Fits(s.cache, s.todo)
      BY <1>3, <3>1, BegunTypes
    <3>5. Known(v, s.lvif)
      BY <1>3, <1>4, <3>1, BegunKnown
    <3>6. clean[v] => Between(v, s, told[v], due[v])
      BY <1>3, <1>4, <3>1, <3>3, BegunBetween
    <3>7. clean[v] => queue[v] = {code}
      BY <1>2, <1>3, <2>1, <3>3
    <3> QED
      BY <3>4, <3>5, <3>6, <3>7
  <2>2. CASE code = 1
    <3>1. s = spoof[v]
      BY <2>2
    <3>2. clean[v] => queue[v] = {1}
      BY <1>2, <1>3, <2>2 DEF ToldInv, Phase
    <3>3. clean[v] => Between(v, spoof[v], told[v], due[v])
      BY <3>2 DEF ToldInv, Phase
    <3> QED
      BY <1>3, <1>4, <2>2, <3>1, <3>2, <3>3
  <2> QED
    BY <2>1, <2>2
<1> DEFINE r == [s EXCEPT !.cache = e.cache, !.todo = e.todo]
<1>6. e \in SoFar
  BY <1>5, RoundTypes
<1> HIDE DEF s
<1>7. r \in Spoof /\ r.lvif = s.lvif /\ r.cache = e.cache /\ r.todo = e.todo
  BY <1>5, <1>6 DEF Spoof, SoFar
<1>8. spoof'[v] = r /\ (\A u \in Vif : u # v => spoof'[u] = spoof[u])
  BY <1>1, <1>3
<1> HIDE DEF r
<1>9. /\ told'[v] = told[v] \cup e.told /\ (\A u \in Vif : u # v => told'[u] = told[u])
      /\ queue'[v] = Requeued(queue[v] \ {code}, code, e.sent)
      /\ \A u \in Vif : u # v => queue'[u] = queue[u]
  BY <1>1, <1>3 DEF Histories
<1>10. ASSUME clean[v] PROVE Phase(v, spoof'[v], queue'[v], told'[v], due[v])
  <2>1. Turning(v, s, told[v], due[v], Turns(s), e) /\ Covers(v, s.lvif)
    BY <1>4, <1>5, <1>10, RoundTurns DEF Between
  <2>2. queue'[v] = IF e.sent > 0 THEN {1} ELSE {}
    BY <1>5, <1>9, <1>10 DEF Requeued
  <2>3. e.sent \in Nat
    BY <1>6 DEF SoFar
  <2>4. CASE e.sent > 0
    <3>1. Between(v, r, told[v] \cup e.told, due[v])
      BY <1>4, <1>5, <1>7, <2>1, <2>4, RoundGoesOn
    <3>2. queue'[v] = {1} /\ 0 \notin queue'[v] /\ queue'[v] # {}
      BY <2>2, <2>4
    <3>3. spoof'[v] = r /\ told'[v] = told[v] \cup e.told
      BY <1>8, <1>9, Zenon
    <3> QED
      BY <3>1, <3>2, <3>3, Zenon DEF Phase
  <2>5. CASE ~(e.sent > 0)
    <3>1. AllTold(v, told[v] \cup e.told, due[v])
      BY <1>4, <1>5, <2>1, <2>3, <2>5, RoundDone
    <3>2. queue'[v] = {} /\ 0 \notin queue'[v] /\ queue'[v] # {1}
      BY <2>2, <2>5
    <3>3. told'[v] = told[v] \cup e.told
      BY <1>9, Zenon
    <3> QED
      BY <3>1, <3>2, <3>3, Zenon DEF Phase
  <2> QED
    BY <2>4, <2>5
<1>11. Known(v, spoof'[v].lvif)
  BY <1>5, <1>7, <1>8
<1>12. ASSUME NEW u \in Vif, u # v
       PROVE  /\ Known(u, spoof'[u].lvif)
              /\ clean[u] => Phase(u, spoof'[u], queue'[u], told'[u], due[u])
  <2>1. spoof'[u] = spoof[u] /\ told'[u] = told[u] /\ queue'[u] = queue[u]
    BY <1>8, <1>9, <1>12
  <2>2. Known(u, spoof[u].lvif) /\ (clean[u] => Phase(u, spoof[u], queue[u], told[u], due[u]))
    BY Zenon DEF ToldInv
  <2> QED
    BY <2>1, <2>2, Zenon
<1> QED
  BY <1>2, <1>10, <1>11, <1>12 DEF ToldInv

\* An invocation takes the copy anew; a later round that is still queued spoils the phases,
\* which is what clean says.
LEMMA InvokeTold ==
  ASSUME TableInv, SpoofType, Histories, ToldInv, NEW v \in Vif, Invoke(v)
  PROVE  ToldInv'
<1>1. /\ spoof' = [spoof EXCEPT ![v].cache = SharedCopy]
      /\ queue' = [queue EXCEPT ![v] = @ \cup {0}]
      /\ told' = [told EXCEPT ![v] = {}]
      /\ due' = [due EXCEPT ![v] = {data[i] : i \in 0..(size - 1)}]
      /\ clean' = [clean EXCEPT ![v] = 1 \notin queue[v]]
  BY DEF Invoke
<1>2. /\ SharedCopy \in Seq(Entry) /\ size \in Nat
      /\ DOMAIN SharedCopy = 1..size /\ \A k \in 1..size : SharedCopy[k] = data[k - 1]
  BY CopyType
<1>3. spoof \in [Vif -> Spoof] /\ queue \in [Vif -> SUBSET {0, 1}]
  BY DEF SpoofType
<1> DEFINE c == SharedCopy
           s == [spoof[v] EXCEPT !.cache = c]
           D == {data[i] : i \in 0..(size - 1)}
<1>4. Full(c)
  <2>1. \A x \in DOMAIN c : c[x] \in Entry
    BY <1>2
  <2> QED
    BY <2>1, EntryNotZero DEF Full
<1>5. \A d \in D : \E x \in DOMAIN c : c[x] = d
  <2> SUFFICES ASSUME NEW i \in 0..(size - 1) PROVE \E x \in DOMAIN c : c[x] = data[i]
    OBVIOUS
  <2>1. i + 1 \in 1..size /\ (i + 1) - 1 = i
    BY <1>2
  <2>2. c[i + 1] = data[i]
    BY <1>2, <2>1
  <2> QED
    BY <1>2, <2>1, <2>2
<1>6. s.cache = c /\ s.lvif = spoof[v].lvif
  <2> HIDE DEF c
  <2> QED
    BY <1>3 DEF Spoof
<1>7. spoof'[v] = s /\ due'[v] = D /\ queue'[v] = queue[v] \cup {0} /\ clean'[v] = (1 \notin queue[v])
  BY <1>1, <1>3 DEF Histories
<1> HIDE DEF c, s, D
<1>8. clean'[v] => Phase(v, s, queue'[v], told'[v], D)
  <2> SUFFICES ASSUME clean'[v] PROVE Phase(v, s, queue'[v], told'[v], D)
    OBVIOUS
  <2>1. 0 \in queue'[v] /\ 1 \notin queue'[v]
    <3>1. 1 \notin queue[v]
      BY <1>7, Zenon
    <3>2. queue'[v] = queue[v] \cup {0}
      BY <1>7, Zenon
    <3> QED
      BY <3>1, <3>2
  <2>2. queue'[v] # {} /\ queue'[v] # {1}
    BY <2>1
  <2>3. Full(s.cache) /\ \A d \in D : \E x \in DOMAIN s.cache : s.cache[x] = d
    BY <1>4, <1>5, <1>6, Zenon
  <2> QED
    BY <2>1, <2>2, <2>3, Zenon DEF Phase
<1>9. Known(v, spoof'[v].lvif)
  BY <1>6, <1>7 DEF ToldInv
<1>10. ASSUME NEW u \in Vif, u # v
       PROVE  /\ Known(u, spoof'[u].lvif)
              /\ clean'[u] => Phase(u, spoof'[u], queue'[u], told'[u], due'[u])
  <2>1. /\ spoof'[u] = spoof[u] /\ told'[u] = told[u] /\ queue'[u] = queue[u]
        /\ due'[u] = due[u] /\ clean'[u] = clean[u]
    BY <1>1, <1>3, <1>10 DEF Histories
  <2>2. Known(u, spoof[u].lvif) /\ (clean[u] => Phase(u, spoof[u], queue[u], told[u], due[u]))
    BY Zenon DEF ToldInv
  <2> QED
    BY <2>1, <2>2, Zenon
<1> QED
  BY <1>7, <1>8, <1>9, <1>10 DEF ToldInv

\* The histories have their types.
LEMMA HistoriesStep == TableInv /\ SpoofType /\ Histories /\ [Next]_vars => Histories'
<1> SUFFICES ASSUME TableInv, SpoofType, Histories, [Next]_vars PROVE Histories'
  OBVIOUS
<1>1. ASSUME NEW v \in Vif, Invoke(v) PROVE Histories'
  <2>1. {data[i] : i \in 0..(size - 1)} \in SUBSET Entry
    <3>1. size \in Nat /\ data \in [0..(size - 1) -> Entry]
      BY DEF TableInv, TableType
    <3> QED
      BY <3>1
  <2> DEFINE D == {data[i] : i \in 0..(size - 1)}
  <2>2. /\ told' = [told EXCEPT ![v] = {}] /\ due' = [due EXCEPT ![v] = D]
        /\ clean' = [clean EXCEPT ![v] = 1 \notin queue[v]]
    BY <1>1 DEF Invoke
  <2> HIDE DEF D
  <2>3. told' \in [Vif -> SUBSET Request] /\ due' \in [Vif -> SUBSET Entry]
    BY <2>1, <2>2 DEF Histories, D
  <2>4. clean' \in [Vif -> BOOLEAN]
    BY <2>2, Zenon DEF Histories
  <2> QED
    BY <2>3, <2>4 DEF Histories
<1>2. ASSUME NEW v \in Vif, NEW code \in {0, 1}, Notify(v, code) PROVE Histories'
  <2> DEFINE s == IF code = 0 THEN Begun(spoof[v], v) ELSE spoof[v]
  <2>1. PICK e \in Round(s) : told' = [told EXCEPT ![v] = @ \cup e.told]
    BY <1>2 DEF Notify
  <2>2. due' = due /\ clean' = clean
    BY <1>2 DEF Notify
  <2>3. spoof[v] \in Spoof /\ Fits(spoof[v].cache, spoof[v].todo)
    BY DEF SpoofType
  <2>4. s \in Spoof /\ Fits(s.cache, s.todo)
    <3>1. CASE code = 0
      <4>1. s = Begun(spoof[v], v)
        BY <3>1
      <4> HIDE DEF s
      <4> QED
        BY <2>3, <4>1, BegunTypes
    <3>2. CASE code # 0
      BY <2>3, <3>2
    <3> QED
      BY <3>1, <3>2
  <2> HIDE DEF s
  <2>5. e.told \in SUBSET Request
    <3>1. e \in SoFar
      BY <2>4, RoundTypes
    <3> QED
      BY <3>1 DEF SoFar
  <2> QED
    BY <2>1, <2>2, <2>5 DEF Histories
<1>3. CASE UNCHANGED <<told, due, clean>>
  BY <1>3 DEF Histories
<1>4. CASE ShareCache \/ ReceiveOwn \/ ReceivePeer \/ ReceiveFails \/ AddNext \/ Adding
          \/ UNCHANGED vars
  BY <1>3, <1>4 DEF ShareCache, ReceiveOwn, ReceivePeer, ReceiveFails, Receive, AddNext, Adding, vars
<1> QED
  BY <1>1, <1>2, <1>4 DEF Next

\* The phases are kept by every step.
LEMMA ToldStep ==
  ASSUME Apart, TableInv, SpoofType, Histories, ToldInv, [Next]_vars
  PROVE  ToldInv'
<1>1. CASE UNCHANGED <<spoof, queue, told, due, clean>>
  BY <1>1 DEF ToldInv
<1>2. ASSUME NEW v \in Vif, Invoke(v) PROVE ToldInv'
  BY <1>2, InvokeTold
<1>3. ASSUME NEW v \in Vif, NEW code \in {0, 1}, Notify(v, code) PROVE ToldInv'
  BY <1>3, NotifyTold
<1>4. CASE ShareCache \/ ReceiveOwn \/ ReceivePeer \/ ReceiveFails \/ AddNext \/ Adding
          \/ UNCHANGED vars
  BY <1>1, <1>4 DEF ShareCache, ReceiveOwn, ReceivePeer, ReceiveFails, Receive, AddNext, Adding, vars
<1> QED
  BY <1>2, <1>3, <1>4 DEF Next

LEMMA ToldInit == Init => Histories /\ ToldInv
<1> SUFFICES ASSUME Init PROVE Histories /\ ToldInv
  OBVIOUS
<1>1. \A v \in Vif : spoof[v] = NewSpoof /\ clean[v] = FALSE
  BY DEF Init
<1>2. DOMAIN NewSpoof.lvif = {}
  BY DEF NewSpoof
<1>3. ToldInv
  BY <1>1, <1>2 DEF ToldInv, Known
<1>4. Histories
  BY DEF Init, Histories
<1> QED
  BY <1>3, <1>4

\* Every address of an interface has been announced to every neighbour that it can reach
\* once the rounds of an invocation are over, however few requests a round may send, and
\* whatever is sampled, received, counted again or invoked again meanwhile: provided that
\* no two addresses of an interface share what is left to do (Apart), and that no round of an
\* earlier invocation was still queued.
THEOREM EachVipToldCorrect == ASSUME Apart PROVE Spec => []EachVipTold
<1> DEFINE I == TableInv /\ AnnounceType /\ Histories /\ ToldInv
<1>1. Init => I
  BY TableInitInv, ReportInit, SpoofInit, ToldInit DEF Init, AnnounceType
<1>2. I /\ [Next]_vars => I'
  <2> SUFFICES ASSUME TableInv, AnnounceType, Histories, ToldInv, [Next]_vars
               PROVE  TableInv' /\ AnnounceType' /\ Histories' /\ ToldInv'
    OBVIOUS
  <2>1. TableInv' /\ ReportType'
    BY TableStepInv, ReportStep, TableStepOrNone DEF AnnounceType
  <2>2. AnnounceType'
    BY <2>1, SpoofStep, WireStep DEF AnnounceType
  <2>3. Histories' /\ ToldInv'
    BY HistoriesStep, ToldStep DEF AnnounceType
  <2> QED
    BY <2>1, <2>2, <2>3
<1>3. I => EachVipTold
  <2> SUFFICES ASSUME ToldInv, NEW v \in Vif, clean[v], queue[v] = {},
                      NEW k \in DOMAIN Vips[v], NEW i \in DOMAIN Notification,
                      NEW t \in Targets(Vips[v][k], Notification[i], due[v])
               PROVE  [from |-> Vips[v][k].ip, to |-> t] \in told[v]
    BY DEF EachVipTold
  <2>1. AllTold(v, told[v], due[v])
    BY DEF ToldInv, Phase
  <2> QED
    BY <2>1, Zenon DEF AllTold, Told
<1> QED
  BY <1>1, <1>2, <1>3, PTL DEF Spec
=============================================================================
