---------------------------------- MODULE Abt ----------------------------------
(***************************************************************************)
(* The table of abt.c in which a daemon keeps the ARP entries shared by    *)
(* the group: an array ordered by address, searched by halving.  A step is *)
(* one iteration of the loop of add_abt or what follows the loop.  Entries *)
(* are added one at a time and never removed.                              *)
(*                                                                         *)
(* The array is read below its start when a new address is below all       *)
(* others.  What lies there is nobody's, so the outcome of that comparison *)
(* is a choice of the environment.                                         *)
(***************************************************************************)
EXTENDS Integers

CONSTANTS
  Ip,       \* addresses of ARP entries, as the unsigned numbers abt.c compares
  Mac,      \* hardware addresses
  Garbage   \* what the memory before the array may hold, read as an entry

Entry == [ip : Ip, mac : Mac]

ASSUME EntryAssumption == Ip \subseteq Nat /\ Garbage \subseteq Entry

CONSTANT NoEntry
ASSUME NoEntryAssumption == NoEntry \notin Entry

VARIABLES
  data,    \* abt.data, the entries in use
  size,    \* abt.size
  f, l,    \* f and l of add_abt, bounds of the search
  arg,     \* toadd while add_abt runs, NoEntry when it does not
  added,   \* history: what a map would hold, the last entry added for each address
  lost     \* history: the addresses whose entry was written before the array

table == <<data, size, f, l, arg, added, lost>>

\* new_abt
TableInit ==
  /\ data = [i \in {} |-> NoEntry] /\ size = 0
  /\ f = 0 /\ l = 0 /\ arg = NoEntry /\ added = {} /\ lost = {}

Idle == arg = NoEntry

\* add_abt is called.
BeginAdd(e) == Idle /\ arg' = e /\ f' = 0 /\ l' = size /\ UNCHANGED <<data, size, added, lost>>

Middle == f + (l - f) \div 2

\* The loop goes on: f <= l, and the end of the array is not reached.
Searching == ~Idle /\ f <= l /\ Middle # size

\* Mutant: the half that is kept starts one entry too late.
ProbeSkipping ==
  /\ Searching /\ data[Middle].ip # arg.ip
  /\ IF data[Middle].ip > arg.ip THEN l' = Middle - 1 /\ UNCHANGED f
                                 ELSE f' = Middle + 2 /\ UNCHANGED l
  /\ UNCHANGED <<data, size, arg, added, lost>>

Probe ==
  /\ Searching /\ data[Middle].ip # arg.ip
  /\ IF data[Middle].ip > arg.ip THEN l' = Middle - 1 /\ UNCHANGED f
                                 ELSE f' = Middle + 1 /\ UNCHANGED l
  /\ UNCHANGED <<data, size, arg, added, lost>>

Returned ==
  /\ arg' = NoEntry /\ f' = 0 /\ l' = 0
  /\ added' = {e \in added : e.ip # arg.ip} \cup {arg}

\* The address is in the array: its entry is overwritten.
Replace ==
  /\ Searching /\ data[Middle].ip = arg.ip
  /\ data' = [data EXCEPT ![Middle] = arg]
  /\ UNCHANGED <<size, lost>>
  /\ Returned

\* Mutant: without the comparison after the loop.
PlaceUnadjusted == IF l < 0 THEN 0 ELSE l

\* Where the new entry goes: the search ends behind the array, or at the last entry
\* below the new one.
Place == IF l = size \/ (l >= 0 /\ arg.ip <= data[l].ip) THEN l ELSE l + 1

\* The entries from place p on move up for entry e.
InsertAt(p, e) ==
  /\ data' = [i \in 0..size |-> IF i < p THEN data[i] ELSE IF i = p THEN e ELSE data[i - 1]]
  /\ size' = size + 1
  /\ Returned

\* The address is new.
Insert == ~Idle /\ ~Searching /\ InsertAt(Place, arg) /\ UNCHANGED lost

\* When the address is below all others, it is compared with the memory before the
\* array.  If that is no lower, the array moves up from there: what was read becomes
\* its first entry, and the new one is written over the memory before it.
InsertBefore ==
  /\ ~Idle /\ ~Searching /\ l < 0
  /\ \E g \in Garbage : arg.ip <= g.ip /\ InsertAt(0, g)
  /\ lost' = lost \cup {arg.ip}

TableStep == Probe \/ Replace \/ Insert \/ InsertBefore
TableNext == TableStep \/ \E e \in Entry : BeginAdd(e)
TableSpec == TableInit /\ [][TableNext]_table

-----------------------------------------------------------------------------
(* Properties. *)

\* The array is ordered, so the next search can halve it, until memory before the
\* array has been taken in.
Sorted == lost = {} => \A i, j \in 0..(size - 1) : i < j => data[i].ip < data[j].ip

\* The array has an entry for every address that was added, in whatever order it is by
\* now, but for those written before it.
AddressesKept == \A e \in added : e.ip \in lost \/ \E i \in 0..(size - 1) : data[i].ip = e.ip

\* Between calls the array holds what was added, the last entry for each address:
\* no search ends beside an entry that is there and adds it again.  Once memory before
\* the array has been taken in, it still has the addresses.
HoldsAdded ==
  /\ Idle /\ lost = {} => {data[i] : i \in 0..(size - 1)} = added
  /\ AddressesKept

\* What the search knows: the entries before f are below the address looked for,
\* those behind l above it, as long as the array is ordered.
SearchInv ==
  ~Idle =>
    /\ f \in 0..size /\ l \in -1..size /\ f <= l + 1
    /\ lost = {} =>
         /\ \A i \in 0..(f - 1) : data[i].ip < arg.ip
         /\ \A i \in (l + 1)..(size - 1) : data[i].ip > arg.ip
         /\ {data[i] : i \in 0..(size - 1)} = added
=============================================================================
