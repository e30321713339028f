---------------------------- MODULE ScriptProofs ----------------------------
(***************************************************************************)
(* The operations that installing a package is made of, proved for every   *)
(* storage, package and script.                                            *)
(*                                                                         *)
(* What opening a package makes of it: the entries are all there, sorted,  *)
(* and in a table in which each is found by its name; and what the         *)
(* verification of a signature then says.  What mounting, formatting and   *)
(* writing leave of the storage.  And what a command of an amend script,   *)
(* and an expression of an edify script, may leave behind and return.      *)
(***************************************************************************)
EXTENDS Edify, Amend, FiniteSetTheorems, WellFoundedInduction, TLAPS

-----------------------------------------------------------------------------
(* Loops                                                                   *)

\* Every set of numbers that is not empty has a least one: among the intervals
\* that end in it there is one that contains no other.
LEMMA LeastNumber ==
  ASSUME NEW T \in SUBSET Nat, T # {}
  PROVE  \E n \in T : \A m \in T : n <= m
<1> DEFINE below == {0..n : n \in T}
<1>1. /\ below \subseteq FiniteSubsetsOf(Nat) /\ below # {}
  <2>1. \A n \in T : IsFiniteSet(0..n)
    BY FS_Interval
  <2>2. \A n \in T : 0..n \in SUBSET Nat
    OBVIOUS
  <2>3. QED
    BY <2>1, <2>2 DEF FiniteSubsetsOf
<1>2. PICK x \in below : \A y \in below : ~(<<y, x>> \in StrictSubsetOrdering(Nat))
  <2> HIDE DEF below
  <2>1. IsWellFoundedOn(StrictSubsetOrdering(Nat), FiniteSubsetsOf(Nat))
    BY FS_StrictSubsetOrderingWellFounded
  <2>2. QED
    BY <1>1, <2>1, WFMin, Zenon
<1>3. PICK n \in T : x = 0..n
  OBVIOUS
<1>4. ASSUME NEW m \in T, ~(n <= m)
      PROVE  FALSE
  <2>1. n \in Nat /\ m \in Nat /\ m < n
    BY <1>4
  <2>2. 0..m \subseteq 0..n /\ n \in 0..n /\ n \notin 0..m
    BY <2>1
  <2>3. <<0..m, 0..n>> \in StrictSubsetOrdering(Nat)
    <3>1. 0..m \in SUBSET Nat /\ 0..n \in SUBSET Nat /\ 0..m # 0..n
      BY <2>1, <2>2
    <3>2. QED
      BY <3>1, <2>2 DEF StrictSubsetOrdering
  <2>4. 0..m \in below
    OBVIOUS
  <2> HIDE DEF below
  <2>5. QED
    BY <1>2, <1>3, <2>3, <2>4
<1>5. QED
  BY <1>4

\* What a loop keeps stays in V[k] behind the k-th turn, if every turn leads there.
LEMMA LoopStays ==
  ASSUME NEW n \in Nat, NEW V, NEW g, g[0] \in V[0],
         \A k \in 1..n : g[k - 1] \in V[k - 1] => g[k] \in V[k]
  PROVE  \A k \in 0..n : g[k] \in V[k]
<1> DEFINE T == {k \in 0..n : g[k] \notin V[k]}
<1>1. SUFFICES ASSUME T # {} PROVE FALSE
  OBVIOUS
<1>2. PICK m \in T : \A k \in T : m <= k
  <2>1. T \in SUBSET Nat
    OBVIOUS
  <2> HIDE DEF T
  <2>2. QED
    BY <1>1, <2>1, LeastNumber
<1>3. m # 0 /\ m \in 1..n /\ m - 1 \in 0..n /\ m - 1 \notin T
  BY <1>2
<1>4. QED
  BY <1>2, <1>3

\* A loop whose k-th turn takes x to turn[k][x], in V[k] if x is in V[k - 1], has
\* values behind every turn.
Values(f, n, start, turn) ==
  f = [k \in 0..n |-> IF k = 0 THEN start ELSE turn[k][f[k - 1]]]

LEMMA LoopExists ==
  ASSUME NEW n \in Nat, NEW V, NEW start, NEW turn, start \in V[0],
         \A k \in 1..n : \A x \in V[k - 1] : turn[k][x] \in V[k]
  PROVE  \E f : Values(f, n, start, turn) /\ \A k \in 0..n : f[k] \in V[k]
<1> DEFINE T == {m \in 0..n : ~ \E f : Values(f, m, start, turn)}
<1>1. T = {}
  <2>1. SUFFICES ASSUME T # {} PROVE FALSE
    OBVIOUS
  <2>2. PICK m \in T : \A k \in T : m <= k
    <3>1. T \in SUBSET Nat
      OBVIOUS
    <3> HIDE DEF T
    <3>2. QED
      BY <2>1, <3>1, LeastNumber
  <2>3. m \in 0..n /\ ~ \E f : Values(f, m, start, turn)
    OBVIOUS
  <2>4. m # 0
    <3> DEFINE first == [k \in 0..0 |-> start]
    <3>1. \A k \in 0..0 : k = 0
      OBVIOUS
    <3>2. first = [k \in 0..0 |-> IF k = 0 THEN start ELSE turn[k][first[k - 1]]]
      BY <3>1
    <3> HIDE DEF first
    <3>3. QED
      BY <2>3, <3>2 DEF Values
  <2>5. m \in Nat \ {0} /\ m - 1 \in 0..n /\ m - 1 \notin T
    BY <2>2, <2>3, <2>4
  <2>6. PICK f : Values(f, m - 1, start, turn)
    BY <2>5
  <2> HIDE DEF T
  <2> DEFINE next == [k \in 0..m |-> IF k = 0 THEN start ELSE turn[k][f[k - 1]]]
  <2>7. \A k \in 1..m : next[k - 1] = f[k - 1]
    <3> TAKE k \in 1..m
    <3>1. k - 1 \in 0..m /\ k - 1 \in 0..(m - 1)
      BY <2>5
    <3>2. next[k - 1] = IF k - 1 = 0 THEN start ELSE turn[k - 1][f[(k - 1) - 1]]
      BY <3>1
    <3>3. f[k - 1] = IF k - 1 = 0 THEN start ELSE turn[k - 1][f[(k - 1) - 1]]
      BY <2>6, <3>1, Zenon DEF Values
    <3>4. QED
      BY <3>2, <3>3
  <2>8. Values(next, m, start, turn)
    <3>1. \A k \in 0..m : k = 0 \/ k \in 1..m
      BY <2>5
    <3>2. \A k \in 0..m : next[k] = IF k = 0 THEN start ELSE turn[k][next[k - 1]]
      BY <2>7, <3>1
    <3>3. next = [k \in 0..m |-> next[k]]
      OBVIOUS
    <3> HIDE DEF next
    <3>4. QED
      BY <3>2, <3>3 DEF Values
  <2>9. QED
    BY <2>3, <2>8
<1>2. PICK f : Values(f, n, start, turn)
  <2>1. n \in 0..n
    OBVIOUS
  <2>2. QED
    BY <1>1, <2>1
<1>3. f[0] = start /\ \A k \in 1..n : f[k] = turn[k][f[k - 1]]
  <2>1. 0 \in 0..n /\ \A k \in 1..n : k \in 0..n /\ k # 0
    OBVIOUS
  <2>2. \A k \in 0..n : f[k] = IF k = 0 THEN start ELSE turn[k][f[k - 1]]
    BY <1>2, Zenon DEF Values
  <2>3. QED
    BY <2>1, <2>2
<1>4. \A k \in 0..n : f[k] \in V[k]
  BY <1>3, LoopStays
<1>5. QED
  BY <1>2, <1>4

-----------------------------------------------------------------------------
(* The size of the table                                                   *)

\* The power that is found is not less than it should be.
LEMMA PowerIsEnough ==
  ASSUME NEW val \in Nat
  PROVE  roundUpPower2(val) \in Nat /\ roundUpPower2(val) >= val
<1> DEFINE V == [k \in 0..val |-> {p \in Nat : p >= val \/ p >= k + 1}]
           Turn(power, k) == IF power >= val THEN power ELSE 2 * power
           Turned(f) == [k \in 0..val |-> IF k = 0 THEN 1 ELSE Turn(f[k - 1], k)]
           after == CHOOSE f : f = Turned(f)
           turn == [k \in 1..val |-> [x \in Nat |-> Turn(x, k)]]
<1>1. 1 \in V[0]
  OBVIOUS
<1>2. \A k \in 1..val : \A x \in V[k - 1] : x \in Nat /\ Turn(x, k) \in V[k]
  OBVIOUS
<1>3. \E f : f = Turned(f)
  <2>1. \A k \in 1..val : \A x \in V[k - 1] : turn[k][x] = Turn(x, k)
    BY <1>2
  <2>2. \A k \in 1..val : \A x \in V[k - 1] : turn[k][x] \in V[k]
    BY <1>2, <2>1
  <2> HIDE DEF V, Turn, turn
  <2>3. PICK f : Values(f, val, 1, turn) /\ \A k \in 0..val : f[k] \in V[k]
    BY <1>1, <2>2, LoopExists
  <2>4. \A k \in 0..val : k = 0 \/ (turn[k][f[k - 1]] = Turn(f[k - 1], k))
    BY <2>1, <2>3
  <2>5. f = Turned(f)
    BY <2>3, <2>4 DEF Values
  <2>6. QED
    BY <2>5, Zenon
<1>4. after = Turned(after)
  <2> HIDE DEF Turned
  <2>1. QED
    BY <1>3, Zenon
<1>5. roundUpPower2(val) = after[val]
  BY Zenon DEF roundUpPower2, Loop
<1>6. after[0] = 1 /\ \A k \in 1..val : after[k] = Turn(after[k - 1], k)
  <2> HIDE DEF after, Turn
  <2>1. \A k \in 0..val : after[k] = IF k = 0 THEN 1 ELSE Turn(after[k - 1], k)
    BY <1>4, Zenon
  <2>2. 0 \in 0..val /\ \A k \in 1..val : k \in 0..val /\ k # 0
    OBVIOUS
  <2>3. QED
    BY <2>1, <2>2
<1>7. \A k \in 0..val : after[k] \in V[k]
  <2> HIDE DEF after, Turn, V
  <2>1. QED
    BY <1>1, <1>2, <1>6, LoopStays
<1>8. QED
  BY <1>5, <1>7

\* More than an eighth in three of the slots stay empty.
LEMMA TableIsLarge ==
  ASSUME NEW n \in Nat
  PROVE  TableSize(n) \in Nat \ {0} /\ 8 * n < 5 * TableSize(n)
<1> DEFINE least == (n * 8) \div 5 + 1
<1>1. least \in Nat /\ 5 * least > 8 * n
  OBVIOUS
<1>2. TableSize(n) = roundUpPower2(least)
  BY DEF TableSize
<1> HIDE DEF least
<1>3. TableSize(n) \in Nat /\ TableSize(n) >= least
  BY <1>1, <1>2, PowerIsEnough
<1>4. QED
  BY <1>1, <1>3

-----------------------------------------------------------------------------
(* The hash table                                                          *)

\* Tables of `size' slots, the occupied ones of them, and where a probe for a name
\* ends: at the k-th slot it looks at.
Tables(size) == [0..(size - 1) -> EntryType \cup {NoEntry}]
Occupied(table) == {i \in DOMAIN table : table[i] # NoEntry}
EndsAt(table, name, k) ==
  /\ k \in 0..(SizeOf(table) - 1)
  /\ Stops(table, name, ProbedSlot(table, name, k))
  /\ \A j \in 0..(k - 1) : ~Stops(table, name, ProbedSlot(table, name, j))

LEMMA SizeOfTable ==
  ASSUME NEW size \in Nat \ {0}, NEW table \in Tables(size)
  PROVE  SizeOf(table) = size /\ DOMAIN table = 0..(size - 1)
<1>1. DOMAIN table = 0..(size - 1)
  BY DEF Tables
<1>2. Cardinality(0..(size - 1)) = size
  <2>1. 0 \in Int /\ size - 1 \in Int
    OBVIOUS
  <2>2. QED
    BY <2>1, FS_Interval
<1>3. QED
  BY <1>1, <1>2 DEF SizeOf

\* A probe looks at every slot, and at none twice.
LEMMA ProbedSlots ==
  ASSUME NEW size \in Nat \ {0}, NEW table \in Tables(size), NEW name,
         computeHash(name) \in Nat
  PROVE  /\ \A k \in 0..(size - 1) : ProbedSlot(table, name, k) \in 0..(size - 1)
         /\ \A j, k \in 0..(size - 1) :
              ProbedSlot(table, name, j) = ProbedSlot(table, name, k) => j = k
         /\ \A i \in 0..(size - 1) : \E k \in 0..(size - 1) :
              i = ProbedSlot(table, name, k)
<1> DEFINE h == computeHash(name) % size
<1>1. h \in 0..(size - 1)
  OBVIOUS
<1>2. \A k : ProbedSlot(table, name, k) = IF h + k < size THEN h + k ELSE (h + k) - size
  BY SizeOfTable DEF ProbedSlot
<1> HIDE DEF h
<1>3. \A i \in 0..(size - 1) : \E k \in 0..(size - 1) : i = ProbedSlot(table, name, k)
  <2> TAKE i \in 0..(size - 1)
  <2> DEFINE k == IF i >= h THEN i - h ELSE (i - h) + size
  <2>1. k \in 0..(size - 1) /\ i = IF h + k < size THEN h + k ELSE (h + k) - size
    BY <1>1
  <2> HIDE DEF k
  <2>2. QED
    BY <1>2, <2>1
<1>4. \A k \in 0..(size - 1) : ProbedSlot(table, name, k) \in 0..(size - 1)
  BY <1>1, <1>2
<1>5. ASSUME NEW j \in 0..(size - 1), NEW k \in 0..(size - 1),
             ProbedSlot(table, name, j) = ProbedSlot(table, name, k)
      PROVE  j = k
  BY <1>1, <1>2, <1>5
<1>6. QED
  BY <1>3, <1>4, <1>5

\* Where there is an empty slot, a probe ends, and at one slot only.
LEMMA SlotEnds ==
  ASSUME NEW size \in Nat \ {0}, NEW table \in Tables(size), NEW name,
         computeHash(name) \in Nat
  PROVE  /\ \A k : EndsAt(table, name, k) => Slot(table, name) = ProbedSlot(table, name, k)
         /\ Occupied(table) # DOMAIN table => \E k : EndsAt(table, name, k)
<1> DEFINE stops == {k \in 0..(size - 1) : Stops(table, name, ProbedSlot(table, name, k))}
           first == CHOOSE k \in stops : \A j \in stops : k <= j
<1>1. Slot(table, name) = ProbedSlot(table, name, first)
  BY SizeOfTable DEF Slot
<1>2. ASSUME NEW k, EndsAt(table, name, k)
      PROVE  k = first
  <2>1. /\ k \in stops
        /\ \A j \in 0..(k - 1) : j \notin stops
    BY <1>2, SizeOfTable DEF EndsAt
  <2>2. \A j \in stops : k <= j
    BY <2>1
  <2>3. \A l \in stops : (\A j \in stops : l <= j) => l = k
    BY <2>1, <2>2
  <2> HIDE DEF stops
  <2>4. QED
    BY <2>1, <2>2, <2>3
<1>3. ASSUME Occupied(table) # DOMAIN table
      PROVE  \E k : EndsAt(table, name, k)
  <2>1. PICK i \in 0..(size - 1) : table[i] = NoEntry
    BY <1>3, SizeOfTable DEF Occupied
  <2>2. PICK k \in 0..(size - 1) : i = ProbedSlot(table, name, k)
    BY ProbedSlots
  <2>3. k \in stops
    BY <2>1, <2>2 DEF Stops
  <2>4. stops \in SUBSET Nat
    OBVIOUS
  <2>5. PICK l \in stops : \A j \in stops : l <= j
    <3> HIDE DEF stops
    <3>1. QED
      BY <2>3, <2>4, LeastNumber
  <2>6. \A j \in 0..(l - 1) : j \in 0..(size - 1) /\ j \notin stops
    BY <2>5
  <2>7. EndsAt(table, name, l)
    BY <2>5, <2>6, SizeOfTable DEF EndsAt
  <2>8. QED
    BY <2>7
<1>4. QED
  BY <1>1, <1>2, <1>3

\* Every name has a rank, and every text a hash.
LEMMA Ranks ==
  /\ \A name \in Names : /\ Rank(name) \in DOMAIN NamesInOrder
                         /\ NamesInOrder[Rank(name)] = name
  /\ DOMAIN NamesInOrder = 1..13
<1>1. \A name \in Names : \E i \in DOMAIN NamesInOrder : NamesInOrder[i] = name
  BY DEF Names
<1>2. DOMAIN NamesInOrder = 1..13
  BY DEF NamesInOrder
<1>3. QED
  BY <1>1, <1>2 DEF Rank

LEMMA Hashes ==
  ASSUME NEW name
  PROVE  computeHash(name) \in Nat
<1>1. \A i \in 1..13 : i \in Nat
  OBVIOUS
<1>2. name \in Names => Rank(name) \in Nat
  BY <1>1, Ranks
<1>3. QED
  BY <1>2 DEF computeHash

\* A table of the entries in `put', at most n: it has no others, one of every
\* name, and every one where the probe for its name ends.
TableOf(table, size, put, n) ==
  /\ table \in Tables(size)
  /\ IsFiniteSet(Occupied(table)) /\ Cardinality(Occupied(table)) <= n
  /\ \A i \in Occupied(table) :
       /\ table[i] \in put
       /\ \E k : EndsAt(table, table[i].name, k) /\ i = ProbedSlot(table, table[i].name, k)
  /\ \A e \in put : \E i \in Occupied(table) : table[i].name = e.name

LEMMA EmptyTableIsOne ==
  ASSUME NEW size \in Nat \ {0}
  PROVE  TableOf(EmptyTable(size), size, {}, 0)
<1> DEFINE table == EmptyTable(size)
<1>1. table \in Tables(size) /\ Occupied(table) = {}
  BY DEF EmptyTable, Tables, Occupied
<1>2. IsFiniteSet({}) /\ Cardinality({}) = 0
  BY FS_EmptySet
<1> HIDE DEF table
<1>3. TableOf(table, size, {}, 0)
  BY <1>1, <1>2 DEF TableOf
<1>4. QED
  BY <1>3 DEF table

\* A table that is not full has an empty slot.
LEMMA NotFull ==
  ASSUME NEW size \in Nat \ {0}, NEW put, NEW n \in Nat, NEW table, n < size,
         TableOf(table, size, put, n)
  PROVE  Occupied(table) # DOMAIN table
<1>1. SizeOf(table) = size /\ SizeOf(table) = Cardinality(DOMAIN table)
  BY SizeOfTable DEF TableOf, SizeOf
<1>2. QED
  BY <1>1 DEF TableOf


\* A table after an entry was added is the same, but for the entry, which is there
\* only if none of its name was.
AddsOnly(added, table, put, entry) ==
  \A i \in Occupied(added) :
    \/ i \in Occupied(table) /\ added[i] = table[i]
    \/ added[i] = entry /\ \A e \in put : e.name # entry.name

\* An entry that is added to a table that is large enough is found in it, and so
\* are the others: none is passed by that was not passed by before, and none is
\* replaced by one of the same name.
LEMMA AddedIsFound ==
  ASSUME NEW size \in Nat \ {0}, NEW put \in SUBSET EntryType, NEW n \in Nat, NEW table,
         TableOf(table, size, put, n), NEW entry \in EntryType, 8 * (n + 1) <= 5 * size
  PROVE  /\ TableOf(AddEntry(table, entry), size, put \cup {entry}, n + 1)
         /\ AddsOnly(AddEntry(table, entry), table, put, entry)
<1> DEFINE at == Slot(table, entry.name)
           added == Insert(table, entry)
<1>1. /\ table \in Tables(size) /\ SizeOf(table) = size /\ DOMAIN table = 0..(size - 1)
      /\ Occupied(table) # DOMAIN table
      /\ \A name : computeHash(name) \in Nat
  <2>1. table \in Tables(size) /\ n < size
    BY DEF TableOf
  <2>2. QED
    BY <2>1, SizeOfTable, NotFull, Hashes
<1>2. PICK k : EndsAt(table, entry.name, k) /\ at = ProbedSlot(table, entry.name, k)
  BY <1>1, SlotEnds
<1>3. at \in 0..(size - 1) /\ Stops(table, entry.name, at)
  BY <1>1, <1>2, ProbedSlots DEF EndsAt
<1>4. entry # NoEntry /\ entry.name # "NULL" /\ NoEntry \notin EntryType
  <2>1. "NULL" \notin Names
    BY DEF Names, NamesInOrder
  <2>2. entry.name \in Names /\ NoEntry.name = "NULL"
    BY DEF EntryType, NoEntry, ZipEntry
  <2>3. \A e \in EntryType : e.name \in Names
    BY DEF EntryType
  <2>4. QED
    BY <2>1, <2>2, <2>3
<1>5. CASE table[at] # NoEntry
  <2>1. AddEntry(table, entry) = table
    BY <1>5 DEF AddEntry
  <2>2. at \in Occupied(table) /\ table[at].name = entry.name
    BY <1>1, <1>3, <1>5 DEF Stops, Occupied
  <2>3. Cardinality(Occupied(table)) \in Nat
    BY FS_CardinalityType DEF TableOf
  <2> HIDE DEF at
  <2>4. AddsOnly(AddEntry(table, entry), table, put, entry)
    BY <2>1 DEF AddsOnly
  <2>5. QED
    BY <2>1, <2>2, <2>3, <2>4 DEF TableOf
<1>6. CASE table[at] = NoEntry
  <2>1. added = [table EXCEPT ![at] = entry]
    BY DEF Insert
  <2>2. /\ added \in Tables(size) /\ DOMAIN added = DOMAIN table /\ SizeOf(added) = size
        /\ added[at] = entry
        /\ \A i \in DOMAIN table : i # at => added[i] = table[i]
    <3>1. table \in [0..(size - 1) -> EntryType \cup {NoEntry}]
      BY <1>1 DEF Tables
    <3> HIDE DEF at, added
    <3>2. added \in [0..(size - 1) -> EntryType \cup {NoEntry}]
      BY <1>3, <2>1, <3>1
    <3>3. added \in Tables(size)
      BY <3>2 DEF Tables
    <3>4. /\ added[at] = entry
          /\ \A i \in DOMAIN table : i # at => added[i] = table[i]
      BY <1>1, <1>3, <2>1, <3>1
    <3>5. QED
      BY <1>1, <3>3, <3>4, SizeOfTable
  <2> HIDE DEF at, added
  <2>3. Occupied(added) = Occupied(table) \cup {at}
    BY <1>1, <1>3, <1>4, <2>2 DEF Occupied
  <2>4. /\ IsFiniteSet(Occupied(added))
        /\ Cardinality(Occupied(added)) \in Nat /\ Cardinality(Occupied(added)) <= n + 1
    <3>1. Cardinality(Occupied(table)) \in Nat /\ Cardinality(Occupied(table)) <= n
      BY FS_CardinalityType DEF TableOf
    <3>2. IsFiniteSet(Occupied(table))
      BY DEF TableOf
    <3>3. /\ IsFiniteSet(Occupied(added))
          /\ Cardinality(Occupied(added)) = IF at \in Occupied(table)
               THEN Cardinality(Occupied(table)) ELSE Cardinality(Occupied(table)) + 1
      BY <2>3, <3>2, FS_AddElement
    <3>4. QED
      BY <3>1, <3>3
  <2>5. AddEntry(table, entry) = added
    <3>1. NumEntries(added) = Cardinality(Occupied(added))
      BY DEF NumEntries, Occupied
    <3>2. ~(NumEntries(added) * 8 > SizeOf(table) * 5)
      BY <1>1, <2>4, <3>1
    <3>3. QED
      BY <1>6, <3>2 DEF AddEntry, at, added
  <2>6. \A name, j : ProbedSlot(added, name, j) = ProbedSlot(table, name, j)
    BY <1>1, <2>2 DEF ProbedSlot
  <2>7. EndsAt(added, entry.name, k)
    <3>1. /\ k \in 0..(size - 1)
          /\ \A j \in 0..(k - 1) : ~Stops(table, entry.name, ProbedSlot(table, entry.name, j))
      BY <1>1, <1>2 DEF EndsAt
    <3>2. Stops(added, entry.name, at)
      BY <2>2 DEF Stops
    <3>3. ASSUME NEW j \in 0..(k - 1)
          PROVE  ~Stops(added, entry.name, ProbedSlot(table, entry.name, j))
      <4>1. j \in 0..(size - 1) /\ j # k
        BY <3>1
      <4>2. /\ ProbedSlot(table, entry.name, j) # at
            /\ ProbedSlot(table, entry.name, j) \in DOMAIN table
        <5>1. computeHash(entry.name) \in Nat /\ table \in Tables(size)
          BY <1>1
        <5>2. /\ ProbedSlot(table, entry.name, j) = ProbedSlot(table, entry.name, k) => j = k
              /\ ProbedSlot(table, entry.name, j) \in 0..(size - 1)
          BY <3>1, <4>1, <5>1, ProbedSlots
        <5>3. QED
          BY <1>1, <1>2, <4>1, <5>2
      <4>3. added[ProbedSlot(table, entry.name, j)] = table[ProbedSlot(table, entry.name, j)]
        BY <2>2, <4>2
      <4>4. QED
        BY <3>1, <4>3 DEF Stops
    <3>4. QED
      BY <1>2, <2>2, <2>6, <3>1, <3>2, <3>3 DEF EndsAt
  <2>8. ASSUME NEW i \in Occupied(table)
        PROVE  \E l : /\ EndsAt(added, table[i].name, l)
                      /\ i = ProbedSlot(added, table[i].name, l)
    <3> DEFINE name == table[i].name
    <3>1. PICK l : EndsAt(table, name, l) /\ i = ProbedSlot(table, name, l)
      BY DEF TableOf
    <3>2. /\ l \in 0..(size - 1)
          /\ \A j \in 0..(l - 1) : ~Stops(table, name, ProbedSlot(table, name, j))
      BY <1>1, <3>1 DEF EndsAt
    <3>3. i # at /\ i \in DOMAIN table /\ table[i] # NoEntry
      BY <1>6 DEF Occupied
    <3>4. Stops(added, name, i)
      BY <2>2, <3>3 DEF Stops
    <3> HIDE DEF name
    <3>5. ASSUME NEW j \in 0..(l - 1)
          PROVE  ~Stops(added, name, ProbedSlot(table, name, j))
      <4>1. ~Stops(table, name, ProbedSlot(table, name, j))
        BY <3>2
      <4>2. ProbedSlot(table, name, j) # at
        BY <1>6, <4>1 DEF Stops
      <4>3. ProbedSlot(table, name, j) \in DOMAIN table
        <5>1. j \in 0..(size - 1)
          BY <3>2
        <5>2. QED
          BY <1>1, <5>1, ProbedSlots
      <4>4. QED
        BY <2>2, <4>1, <4>2, <4>3 DEF Stops
    <3>6. EndsAt(added, name, l)
      BY <2>2, <2>6, <3>1, <3>2, <3>4, <3>5 DEF EndsAt
    <3>7. QED
      BY <2>6, <3>1, <3>6 DEF name
  <2>9. ASSUME NEW i \in Occupied(added)
        PROVE  /\ added[i] \in put \cup {entry}
               /\ \E l : /\ EndsAt(added, added[i].name, l)
                         /\ i = ProbedSlot(added, added[i].name, l)
    <3>1. CASE i = at
      BY <1>2, <2>2, <2>6, <2>7, <3>1
    <3>2. CASE i # at
      <4>1. i \in Occupied(table) /\ added[i] = table[i]
        BY <2>2, <2>3, <3>2 DEF Occupied
      <4>2. table[i] \in put
        BY <4>1 DEF TableOf
      <4>3. QED
        BY <2>8, <4>1, <4>2
    <3>3. QED
      BY <3>1, <3>2
  <2>10. ASSUME NEW e \in put \cup {entry}
         PROVE  \E i \in Occupied(added) : added[i].name = e.name
    <3>1. CASE e = entry
      BY <2>2, <2>3, <3>1
    <3>2. CASE e \in put
      <4>1. PICK i \in Occupied(table) : table[i].name = e.name
        BY <3>2 DEF TableOf
      <4>2. i # at /\ added[i] = table[i]
        BY <1>6, <2>2 DEF Occupied
      <4>3. QED
        BY <2>3, <4>1, <4>2
    <3>3. QED
      BY <3>1, <3>2
  <2>11. TableOf(added, size, put \cup {entry}, n + 1)
    BY <2>2, <2>4, <2>9, <2>10 DEF TableOf
  <2>12. \A e \in put : e.name # entry.name
    <3> SUFFICES ASSUME NEW e \in put, e.name = entry.name PROVE FALSE
      OBVIOUS
    <3>1. PICK i \in Occupied(table) : table[i].name = entry.name
      BY DEF TableOf
    <3>2. PICK l : EndsAt(table, entry.name, l) /\ i = ProbedSlot(table, entry.name, l)
      BY <3>1 DEF TableOf
    <3>3. i = at
      BY <1>1, <3>2, SlotEnds DEF at
    <3>4. QED
      BY <1>6, <3>3 DEF Occupied
  <2>13. \A i \in Occupied(added) :
           \/ i \in Occupied(table) /\ added[i] = table[i]
           \/ added[i] = entry
    BY <2>2, <2>3 DEF Occupied
  <2>14. QED
    BY <2>5, <2>11, <2>12, <2>13 DEF AddsOnly
<1>7. QED
  BY <1>5, <1>6

\* A probe ends at a slot of the table.
LEMMA SlotInTable ==
  ASSUME NEW size \in Nat \ {0}, NEW put, NEW n \in Nat, NEW table,
         TableOf(table, size, put, n), n < size, NEW name
  PROVE  Slot(table, name) \in DOMAIN table
<1>1. /\ table \in Tables(size) /\ DOMAIN table = 0..(size - 1)
      /\ Occupied(table) # DOMAIN table
      /\ computeHash(name) \in Nat
  BY SizeOfTable, NotFull, Hashes DEF TableOf
<1>2. PICK k : EndsAt(table, name, k) /\ Slot(table, name) = ProbedSlot(table, name, k)
  BY <1>1, SlotEnds
<1>3. k \in 0..(size - 1)
  BY <1>1, <1>2, SizeOfTable DEF EndsAt
<1>4. QED
  BY <1>1, <1>2, <1>3, ProbedSlots

\* What is found under a name.
FoundIn(put, found, name) ==
  IF \E e \in put : e.name = name THEN found \in put /\ found.name = name
  ELSE found = NoEntry

LEMMA FoundInTable ==
  ASSUME NEW size \in Nat \ {0}, NEW put \in SUBSET EntryType, NEW n \in Nat, NEW table,
         TableOf(table, size, put, n), n < size, NEW name
  PROVE  FoundIn(put, table[Slot(table, name)], name)
<1> DEFINE at == Slot(table, name)
<1>1. /\ table \in Tables(size) /\ DOMAIN table = 0..(size - 1)
      /\ Occupied(table) # DOMAIN table
      /\ computeHash(name) \in Nat
  BY SizeOfTable, NotFull, Hashes DEF TableOf
<1>2. PICK k : EndsAt(table, name, k) /\ at = ProbedSlot(table, name, k)
  BY <1>1, SlotEnds
<1>3. at \in DOMAIN table /\ (table[at] = NoEntry \/ table[at].name = name)
  <2>1. k \in 0..(size - 1) /\ Stops(table, name, at)
    BY <1>1, <1>2, SizeOfTable DEF EndsAt
  <2>2. QED
    BY <1>1, <1>2, <2>1, ProbedSlots DEF Stops
<1>4. CASE \E e \in put : e.name = name
  <2>1. PICK i \in Occupied(table) : table[i].name = name
    BY <1>4 DEF TableOf
  <2>2. PICK l : EndsAt(table, name, l) /\ i = ProbedSlot(table, name, l)
    BY <2>1 DEF TableOf
  <2>3. at = i
    BY <1>1, <2>2, SlotEnds
  <2>4. table[i] \in put
    BY DEF TableOf
  <2>5. QED
    BY <1>4, <2>1, <2>3, <2>4 DEF FoundIn
<1>5. CASE ~ \E e \in put : e.name = name
  <2>1. table[at] = NoEntry \/ table[at] \in put
    BY <1>3 DEF Occupied, TableOf
  <2>2. QED
    BY <1>3, <1>5, <2>1 DEF FoundIn
<1>6. QED
  BY <1>4, <1>5


-----------------------------------------------------------------------------
(* The sorted entries                                                      *)

\* Entries in the order of their names, and where a new one can go: behind one of
\* its own name, if there is one.
InOrder(es) ==
  \A i, j \in 1..Len(es) : i <= j => Rank(es[i].name) <= Rank(es[j].name)
GoesBehind(es, name, n) ==
  /\ n \in 0..Len(es)
  /\ \A i \in 1..Len(es) :
       /\ i <= n => Rank(es[i].name) <= Rank(name)
       /\ i > n => Rank(es[i].name) >= Rank(name)
       /\ es[i].name = name => n # 0 /\ es[n].name = name

\* The search behind its k-th turn: what is left of the entries is between low and
\* high, and less than before; or an entry of that name has been met.
Searching(s, es, name, k) ==
  /\ s \in [low : Int, high : Int, met : BOOLEAN]
  /\ 0 <= s.low /\ s.low <= Len(es) /\ -1 <= s.high /\ s.high < Len(es)
  /\ s.met => GoesBehind(es, name, s.high + 1)
  /\ ~s.met =>
       /\ s.low <= s.high + 1
       /\ s.low > s.high \/ (s.high - s.low) + 1 <= Len(es) - k
       /\ \A i \in 1..Len(es) :
            /\ i <= s.low => Rank(es[i].name) < Rank(name)
            /\ i > s.high + 1 => Rank(es[i].name) > Rank(name)

LEMMA RankIsNumber ==
  ASSUME NEW es \in Seq(EntryType)
  PROVE  /\ \A name \in Names : Rank(name) \in Int
         /\ \A i \in 1..Len(es) : es[i] \in EntryType /\ Rank(es[i].name) \in Int
<1>1. \A name \in Names : Rank(name) \in Int
  <2>1. \A i \in 1..13 : i \in Int
    OBVIOUS
  <2>2. QED
    BY <2>1, Ranks
<1>2. \A i \in 1..Len(es) : es[i] \in EntryType
  OBVIOUS
<1>3. \A e \in EntryType : e.name \in Names
  BY DEF EntryType
<1>4. QED
  BY <1>1, <1>2, <1>3

\* A turn halves what is left.
LEMMA TurnSearches ==
  ASSUME NEW es \in Seq(EntryType), InOrder(es), NEW name \in Names,
         NEW k \in 1..Len(es), NEW s, Searching(s, es, name, k - 1)
  PROVE  Searching(SearchTurn(es, name, s), es, name, k)
<1> DEFINE L == Len(es)
           mid == s.low + (s.high - s.low) \div 2
           at == Rank(es[mid + 1].name)
           r == Rank(name)
           next == SearchTurn(es, name, s)
<1>1. L \in Nat /\ k \in 1..L /\ r \in Int /\ \A i \in 1..L : Rank(es[i].name) \in Int
  BY RankIsNumber
<1>2. /\ s \in [low : Int, high : Int, met : BOOLEAN]
      /\ s.low \in Int /\ s.high \in Int /\ s.met \in BOOLEAN
  BY DEF Searching
<1>3. CASE s.met \/ s.low > s.high
  <2>1. next = s
    BY <1>3 DEF SearchTurn
  <2>2. Searching(s, es, name, k)
    BY <1>1, <1>2, <1>3 DEF Searching
  <2>3. QED
    BY <2>1, <2>2
<1>4. CASE ~s.met /\ s.low <= s.high
  <2>1. /\ 0 <= s.low /\ s.high < L /\ (s.high - s.low) + 1 <= L - (k - 1)
        /\ \A i \in 1..L : /\ i <= s.low => Rank(es[i].name) < r
                           /\ i > s.high + 1 => Rank(es[i].name) > r
    BY <1>1, <1>2, <1>4 DEF Searching
  <2>2. mid \in Int /\ s.low <= mid /\ mid <= s.high /\ mid + 1 \in 1..L /\ at \in Int
    <3>1. mid \in Int /\ s.low <= mid /\ mid <= s.high
      BY <1>2, <1>4
    <3>2. mid + 1 \in 1..L
      BY <1>1, <1>2, <2>1, <3>1
    <3>3. QED
      BY <1>1, <3>1, <3>2
  <2>3. \A i \in 1..L : /\ i <= mid + 1 => Rank(es[i].name) <= at
                        /\ i >= mid + 1 => Rank(es[i].name) >= at
    <3> HIDE DEF mid
    <3>1. QED
      BY <2>2 DEF InOrder
  <2>4. next = IF at < r THEN [s EXCEPT !.low = mid + 1]
               ELSE IF at > r THEN [s EXCEPT !.high = mid - 1]
               ELSE [s EXCEPT !.high = mid, !.met = TRUE]
    BY <1>2, <1>4 DEF SearchTurn
  <2> HIDE DEF mid, at, r, next
  <2>5. CASE at < r
    <3>1. next = [s EXCEPT !.low = mid + 1]
      BY <2>4, <2>5
    <3>2. /\ next \in [low : Int, high : Int, met : BOOLEAN]
          /\ next.low = mid + 1 /\ next.high = s.high /\ ~next.met
      BY <1>2, <1>4, <2>2, <3>1
    <3>3. \A i \in 1..L : i <= mid + 1 => Rank(es[i].name) < r
      BY <1>1, <2>2, <2>3, <2>5
    <3>4. /\ mid + 1 <= L /\ mid + 1 <= s.high + 1
          /\ (s.high - (mid + 1)) + 1 <= L - k
      BY <1>1, <1>2, <2>1, <2>2
    <3>5. Searching(next, es, name, k)
      BY <1>1, <1>2, <2>1, <2>2, <3>2, <3>3, <3>4 DEF Searching, L, r
    <3>6. QED
      BY <3>5 DEF next
  <2>6. CASE at > r
    <3>1. next = [s EXCEPT !.high = mid - 1]
      BY <1>1, <2>2, <2>4, <2>6
    <3>2. /\ next \in [low : Int, high : Int, met : BOOLEAN]
          /\ next.low = s.low /\ next.high = mid - 1 /\ ~next.met
      BY <1>2, <1>4, <2>2, <3>1
    <3>3. \A i \in 1..L : i > (mid - 1) + 1 => Rank(es[i].name) > r
      BY <1>1, <2>2, <2>3, <2>6
    <3>4. /\ -1 <= mid - 1 /\ mid - 1 < L /\ s.low <= (mid - 1) + 1
          /\ ((mid - 1) - s.low) + 1 <= L - k
      BY <1>1, <1>2, <2>1, <2>2
    <3>5. Searching(next, es, name, k)
      BY <1>1, <1>2, <2>1, <2>2, <3>2, <3>3, <3>4 DEF Searching, L, r
    <3>6. QED
      BY <3>5 DEF next
  <2>7. CASE at = r
    <3>1. next = [s EXCEPT !.high = mid, !.met = TRUE]
      BY <2>2, <2>4, <2>7
    <3>2. /\ next \in [low : Int, high : Int, met : BOOLEAN]
          /\ next.low = s.low /\ next.high = mid /\ next.met
      BY <1>2, <1>4, <2>2, <3>1
    <3>3. es[mid + 1].name = name
      <4>1. es[mid + 1].name \in Names
        <5>1. es[mid + 1] \in EntryType
          BY <2>2
        <5>2. QED
          BY <5>1 DEF EntryType
      <4>2. QED
        BY <2>7, <4>1, Ranks DEF at, r
    <3>4. GoesBehind(es, name, mid + 1)
      BY <1>1, <2>2, <2>3, <2>7, <3>3 DEF GoesBehind, L, r
    <3>5. QED
      BY <1>1, <1>2, <2>1, <2>2, <3>2, <3>4 DEF Searching, L, r, next
  <2>8. QED
    BY <1>1, <2>2, <2>5, <2>6, <2>7
<1>5. QED
  BY <1>2, <1>3, <1>4

\* The search ends where an entry of that name can go.
LEMMA TargetKeepsOrder ==
  ASSUME NEW es \in Seq(EntryType), InOrder(es), NEW name \in Names
  PROVE  GoesBehind(es, name, Target(es, name))
<1> DEFINE n == Len(es)
           States == [low : Int, high : Int, met : BOOLEAN]
           start == [low |-> 0, high |-> Len(es) - 1, met |-> FALSE]
           V == [k \in 0..n |-> {s \in States : Searching(s, es, name, k)}]
           Turn(s, k) == SearchTurn(es, name, s)
           Turned(f) == [k \in 0..n |-> IF k = 0 THEN start ELSE Turn(f[k - 1], k)]
           after == CHOOSE f : f = Turned(f)
           turn == [k \in 1..n |-> [x \in States |-> Turn(x, k)]]
<1>1. n \in Nat /\ start \in V[0]
  <2>1. start \in States
    OBVIOUS
  <2>2. Searching(start, es, name, 0)
    BY RankIsNumber DEF Searching
  <2>3. n \in Nat
    OBVIOUS
  <2> HIDE DEF start, n
  <2>4. QED
    BY <2>1, <2>2, <2>3
<1>2. \A k \in 1..n : \A x \in V[k - 1] : x \in States /\ Turn(x, k) \in V[k]
  <2> TAKE k \in 1..n
  <2> TAKE x \in V[k - 1]
  <2>1. x \in States /\ Searching(x, es, name, k - 1)
    BY <1>1
  <2>2. Searching(Turn(x, k), es, name, k)
    BY <2>1, TurnSearches
  <2>3. Turn(x, k) \in States
    BY <2>2 DEF Searching
  <2>4. QED
    BY <1>1, <2>1, <2>2, <2>3
<1>3. \E f : f = Turned(f)
  <2>1. \A k \in 1..n : \A x \in V[k - 1] : turn[k][x] = Turn(x, k)
    <3> HIDE DEF V, Turn
    <3>1. QED
      BY <1>2
  <2>2. \A k \in 1..n : \A x \in V[k - 1] : turn[k][x] \in V[k]
    <3> HIDE DEF V, Turn, turn
    <3>1. QED
      BY <1>2, <2>1
  <2> HIDE DEF V, Turn, turn, start, n
  <2>3. PICK f : Values(f, n, start, turn) /\ \A k \in 0..n : f[k] \in V[k]
    BY <1>1, <2>2, LoopExists
  <2>4. \A k \in 0..n : k = 0 \/ (turn[k][f[k - 1]] = Turn(f[k - 1], k))
    BY <1>1, <2>1, <2>3
  <2>5. f = Turned(f)
    BY <2>3, <2>4 DEF Values
  <2>6. QED
    BY <2>5, Zenon
<1>4. after = Turned(after)
  <2> HIDE DEF Turned
  <2>1. QED
    BY <1>3, Zenon
<1>5. Target(es, name) = 1 + after[n].high
  BY Zenon DEF Target, Loop
<1>6. after[0] = start /\ \A k \in 1..n : after[k] = Turn(after[k - 1], k)
  <2> HIDE DEF after, Turn, start, n
  <2>1. \A k \in 0..n : after[k] = IF k = 0 THEN start ELSE Turn(after[k - 1], k)
    BY <1>4, Zenon
  <2>2. 0 \in 0..n /\ \A k \in 1..n : k \in 0..n /\ k # 0
    BY <1>1
  <2>3. QED
    BY <2>1, <2>2
<1>7. \A k \in 0..n : after[k] \in V[k]
  <2> HIDE DEF after, Turn, V, start, n
  <2>1. QED
    BY <1>1, <1>2, <1>6, LoopStays
<1>8. Searching(after[n], es, name, n)
  BY <1>1, <1>7
<1> HIDE DEF after
<1>9. GoesBehind(es, name, after[n].high + 1)
  <2>1. CASE after[n].met
    BY <1>8, <2>1 DEF Searching
  <2>2. CASE ~after[n].met
    <3>1. /\ after[n].high + 1 \in 0..Len(es)
          /\ \A i \in 1..Len(es) :
               /\ i <= after[n].high + 1 => Rank(es[i].name) < Rank(name)
               /\ i > after[n].high + 1 => Rank(es[i].name) > Rank(name)
      BY <1>1, <1>8, <2>2 DEF Searching
    <3>2. \A i \in 1..Len(es) : es[i].name # name
      BY <3>1, RankIsNumber
    <3>3. QED
      BY <3>1, <3>2, RankIsNumber DEF GoesBehind
  <2>3. QED
    BY <2>1, <2>2
<1>10. 1 + after[n].high = after[n].high + 1
  BY <1>8 DEF Searching
<1>11. QED
  BY <1>5, <1>9, <1>10


\* What InsertAt makes of a list.
IsInserted(longer, list, n, x) ==
  /\ Len(longer) = Len(list) + 1
  /\ \A i \in 1..n : longer[i] = list[i]
  /\ longer[n + 1] = x
  /\ \A i \in (n + 1)..Len(list) : longer[i + 1] = list[i]

LEMMA Inserted ==
  ASSUME NEW S, NEW list \in Seq(S), NEW x \in S, NEW n \in 0..Len(list)
  PROVE  /\ InsertAt(list, n + 1, x) \in Seq(S)
         /\ IsInserted(InsertAt(list, n + 1, x), list, n, x)
<1> DEFINE L == Len(list)
           before == SubSeq(list, 1, n)
           behind == SubSeq(list, n + 1, L)
           longer == InsertAt(list, n + 1, x)
<1>1. L \in Nat /\ n \in 0..L
  OBVIOUS
<1>2. /\ before \in Seq(S) /\ Len(before) = n
      /\ \A i \in 1..n : before[i] = list[i]
  BY <1>1
<1>3. /\ behind \in Seq(S) /\ Len(behind) = L - n
      /\ \A i \in 1..(L - n) : behind[i] = list[n + i]
  BY <1>1
<1>4. longer = (before \o <<x>>) \o behind
  <2>1. (n + 1) - 1 = n
    BY <1>1
  <2>2. QED
    BY <2>1 DEF InsertAt
<1> HIDE DEF before, behind, longer, L
<1> DEFINE front == before \o <<x>>
<1>5. /\ front \in Seq(S) /\ Len(front) = n + 1
      /\ \A i \in 1..n : front[i] = list[i]
      /\ front[n + 1] = x
  BY <1>1, <1>2
<1> HIDE DEF front
<1>6. /\ longer \in Seq(S) /\ Len(longer) = L + 1
      /\ \A i \in 1..(n + 1) : longer[i] = front[i]
      /\ \A i \in 1..(L - n) : longer[(n + 1) + i] = behind[i]
  BY <1>1, <1>3, <1>4, <1>5 DEF front
<1>7. \A i \in (n + 1)..L : longer[i + 1] = list[i]
  <2> TAKE i \in (n + 1)..L
  <2>1. i - n \in 1..(L - n) /\ (n + 1) + (i - n) = i + 1 /\ n + (i - n) = i
    BY <1>1
  <2>2. QED
    BY <1>3, <1>6, <2>1
<1>8. (\A i \in 1..n : longer[i] = list[i]) /\ longer[n + 1] = x
  BY <1>1, <1>5, <1>6
<1>9. QED
  BY <1>6, <1>7, <1>8 DEF L, longer, IsInserted

\* Of the entries of one name the one that comes first in the directory is ahead.
FirstIsAhead(es) ==
  \A j \in 1..Len(es) :
    (\A i \in 1..(j - 1) : es[i].name # es[j].name)
    => \A l \in 1..Len(es) : es[l].name = es[j].name => es[j].at <= es[l].at

\* The first k entries of a central directory, with their places, sorted.
Placed(cd, m) == [cd[m] EXCEPT !.at = m]
Sorted(es, cd, k) ==
  /\ es \in Seq(EntryType) /\ Len(es) = k
  /\ \A i \in 1..k : es[i].at \in 1..k /\ es[i] = Placed(cd, es[i].at)
  /\ \A m \in 1..k : \E i \in 1..k : es[i] = Placed(cd, m)
  /\ InOrder(es) /\ FirstIsAhead(es)

LEMMA PlacedIsEntry ==
  ASSUME NEW cd \in Seq(EntryType), NEW m \in 1..Len(cd)
  PROVE  /\ Placed(cd, m) \in EntryType /\ Placed(cd, m).at = m
         /\ Placed(cd, m).name = cd[m].name /\ Placed(cd, m).kind = cd[m].kind
         /\ Placed(cd, m).data = cd[m].data /\ Placed(cd, m).intact = cd[m].intact
<1>1. cd[m] \in EntryType /\ m \in Nat
  OBVIOUS
<1>2. QED
  BY <1>1 DEF Placed, EntryType

\* Another entry goes where the search ends.
LEMMA StaysSorted ==
  ASSUME NEW cd \in Seq(EntryType), NEW k \in 1..Len(cd), NEW es, Sorted(es, cd, k - 1)
  PROVE  Sorted(InsertAt(es, Target(es, cd[k].name) + 1, Placed(cd, k)), cd, k)
<1> DEFINE e == Placed(cd, k)
           name == cd[k].name
           n == Target(es, name)
           longer == InsertAt(es, n + 1, e)
<1>1. /\ k \in Nat \ {0} /\ es \in Seq(EntryType) /\ Len(es) = k - 1 /\ InOrder(es)
      /\ e \in EntryType /\ e.at = k /\ e.name = name /\ name \in Names
  <2>1. k \in Nat \ {0} /\ cd[k] \in EntryType /\ name \in Names
    <3>1. cd[k] \in EntryType
      OBVIOUS
    <3>2. QED
      BY <3>1 DEF EntryType
  <2>2. es \in Seq(EntryType) /\ Len(es) = k - 1 /\ InOrder(es)
    BY DEF Sorted
  <2>3. e \in EntryType /\ e.at = k /\ e.name = name
    <3> HIDE DEF e
    <3>1. QED
      BY PlacedIsEntry DEF e
  <2> HIDE DEF e, name
  <2>4. QED
    BY <2>1, <2>2, <2>3
<1>2. n \in 0..(k - 1) /\ GoesBehind(es, name, n)
  BY <1>1, TargetKeepsOrder DEF GoesBehind
<1> HIDE DEF n
<1>3. /\ longer \in Seq(EntryType) /\ Len(longer) = k
      /\ \A i \in 1..n : longer[i] = es[i]
      /\ longer[n + 1] = e
      /\ \A i \in (n + 1)..(k - 1) : longer[i + 1] = es[i]
  <2>1. e \in EntryType /\ n \in 0..Len(es) /\ (k - 1) + 1 = k
    BY <1>1, <1>2
  <2> HIDE DEF e
  <2>2. longer \in Seq(EntryType) /\ IsInserted(longer, es, n, e)
    BY <1>1, <2>1, Inserted
  <2> HIDE DEF longer
  <2>3. QED
    BY <1>1, <2>1, <2>2 DEF IsInserted
<1> HIDE DEF longer, e, name
\* Where every entry was before.
<1> DEFINE Was(i) == IF i <= n THEN i ELSE i - 1
<1>4. \A i \in 1..k : i = n + 1 \/ (Was(i) \in 1..(k - 1) /\ longer[i] = es[Was(i)])
  <2> TAKE i \in 1..k
  <2>1. CASE i <= n
    BY <1>1, <1>2, <1>3, <2>1
  <2>2. CASE i > n + 1
    <3>1. i - 1 \in (n + 1)..(k - 1) /\ (i - 1) + 1 = i
      BY <1>1, <1>2, <2>2
    <3>2. QED
      BY <1>1, <1>2, <1>3, <2>2, <3>1
  <2>3. QED
    BY <1>1, <1>2, <2>1, <2>2
<1>5. \A i \in 1..k : longer[i].at \in 1..k /\ longer[i] = Placed(cd, longer[i].at)
  <2> TAKE i \in 1..k
  <2>1. CASE i = n + 1
    BY <1>1, <1>3, <2>1 DEF e
  <2>2. CASE i # n + 1
    <3> HIDE DEF Was
    <3>1. es[Was(i)].at \in 1..(k - 1) /\ es[Was(i)] = Placed(cd, es[Was(i)].at)
      BY <1>4, <2>2 DEF Sorted
    <3>2. QED
      BY <1>1, <1>4, <2>2, <3>1
  <2>3. QED
    BY <2>1, <2>2
<1>6. \A m \in 1..k : \E i \in 1..k : longer[i] = Placed(cd, m)
  <2> TAKE m \in 1..k
  <2>1. CASE m = k
    <3>1. n + 1 \in 1..k
      BY <1>1, <1>2
    <3>2. QED
      BY <1>3, <2>1, <3>1 DEF e
  <2>2. CASE m # k
    <3>1. m \in 1..(k - 1)
      BY <1>1, <2>2
    <3>2. PICK i \in 1..(k - 1) : es[i] = Placed(cd, m)
      BY <3>1 DEF Sorted
    <3>3. \/ i \in 1..n /\ i \in 1..k
          \/ i \in (n + 1)..(k - 1) /\ i + 1 \in 1..k
      BY <1>1, <1>2
    <3>4. QED
      BY <1>3, <3>2, <3>3
  <2>3. QED
    BY <2>1, <2>2
<1>7. InOrder(longer)
  <2> SUFFICES ASSUME NEW i \in 1..k, NEW j \in 1..k, i <= j
               PROVE  Rank(longer[i].name) <= Rank(longer[j].name)
    BY <1>3 DEF InOrder
  <2>1. /\ \A l \in 1..(k - 1) : /\ Rank(es[l].name) \in Int
                                 /\ l <= n => Rank(es[l].name) <= Rank(name)
                                 /\ l > n => Rank(es[l].name) >= Rank(name)
        /\ Rank(name) \in Int
    BY <1>1, <1>2, RankIsNumber DEF GoesBehind
  <2>2. CASE i = n + 1 /\ j = n + 1
    BY <1>1, <1>3, <2>1, <2>2
  <2>3. CASE i = n + 1 /\ j # n + 1
    <3>1. Was(j) > n
      BY <1>1, <1>2, <2>3
    <3> HIDE DEF Was
    <3>2. QED
      BY <1>1, <1>3, <1>4, <2>1, <2>3, <3>1
  <2>4. CASE i # n + 1 /\ j = n + 1
    <3>1. Was(i) <= n
      BY <1>1, <1>2, <2>4
    <3> HIDE DEF Was
    <3>2. QED
      BY <1>1, <1>3, <1>4, <2>1, <2>4, <3>1
  <2>5. CASE i # n + 1 /\ j # n + 1
    <3>1. Was(i) <= Was(j)
      BY <1>1, <1>2, <2>5
    <3> HIDE DEF Was
    <3>2. QED
      BY <1>1, <1>4, <2>5, <3>1 DEF InOrder
  <2>6. QED
    BY <2>2, <2>3, <2>4, <2>5
<1>8. FirstIsAhead(longer)
  <2>1. \A l \in 1..(k - 1) : es[l].at \in 1..(k - 1)
    BY DEF Sorted
  <2> SUFFICES ASSUME NEW j \in 1..k, NEW l \in 1..k,
                      \A i \in 1..(j - 1) : longer[i].name # longer[j].name,
                      longer[l].name = longer[j].name
               PROVE  longer[j].at <= longer[l].at
    BY <1>3 DEF FirstIsAhead
  <2>2. CASE j = n + 1
    <3>1. \A i \in 1..(k - 1) : es[i].name # name
      <4> SUFFICES ASSUME NEW i \in 1..(k - 1), es[i].name = name PROVE FALSE
        OBVIOUS
      <4>1. n # 0 /\ es[n].name = name
        BY <1>1, <1>2 DEF GoesBehind
      <4>2. n \in 1..(j - 1) /\ longer[n] = es[n]
        BY <1>1, <1>2, <1>3, <2>2, <4>1
      <4>3. QED
        BY <1>1, <1>3, <2>2, <4>1, <4>2
    <3>2. l = n + 1
      <4> HIDE DEF Was
      <4>1. QED
        BY <1>1, <1>3, <1>4, <2>2, <3>1
    <3>3. QED
      BY <1>1, <1>3, <2>2, <3>2
  <2>3. CASE j # n + 1
    <3>1. Was(j) \in 1..(k - 1) /\ longer[j] = es[Was(j)]
      BY <1>4, <2>3
    <3>2. CASE l = n + 1
      <4>1. es[Was(j)].at \in 1..(k - 1)
        BY <2>1, <3>1
      <4>2. QED
        BY <1>1, <1>3, <3>1, <3>2, <4>1
    <3>3. CASE l # n + 1
      <4>1. Was(l) \in 1..(k - 1) /\ longer[l] = es[Was(l)]
        BY <1>4, <3>3
      <4>2. \A i \in 1..(Was(j) - 1) : es[i].name # es[Was(j)].name
        <5> TAKE i \in 1..(Was(j) - 1)
        <5>1. CASE i <= n
          <6>1. i \in 1..n /\ i \in 1..(j - 1)
            BY <1>1, <1>2, <2>3, <5>1
          <6> HIDE DEF Was
          <6>2. QED
            BY <1>3, <3>1, <6>1
        <5>2. CASE i > n
          <6>1. i \in (n + 1)..(k - 1) /\ i + 1 \in 1..(j - 1)
            BY <1>1, <1>2, <2>3, <5>2
          <6> HIDE DEF Was
          <6>2. QED
            BY <1>3, <3>1, <6>1
        <5>3. QED
          BY <1>1, <1>2, <2>3, <5>1, <5>2
      <4> HIDE DEF Was
      <4>3. Len(es) = k - 1 /\ FirstIsAhead(es)
        BY DEF Sorted
      <4>4. es[Was(l)].name = es[Was(j)].name
        BY <3>1, <4>1
      <4>5. es[Was(j)].at <= es[Was(l)].at
        BY <3>1, <4>1, <4>2, <4>3, <4>4 DEF FirstIsAhead
      <4>6. QED
        BY <3>1, <4>1, <4>5
    <3>4. QED
      BY <3>2, <3>3
  <2>4. QED
    BY <2>2, <2>3
<1>9. Sorted(longer, cd, k)
  BY <1>3, <1>5, <1>6, <1>7, <1>8 DEF Sorted
<1>10. QED
  BY <1>9 DEF longer, n, e, name


LEMMA EntriesAreSorted ==
  ASSUME NEW cd \in Seq(EntryType)
  PROVE  Sorted(SortedEntries(cd), cd, Len(cd))
<1> DEFINE n == Len(cd)
           Lists == Seq(EntryType)
           V == [k \in 0..n |-> {es \in Lists : Sorted(es, cd, k)}]
           Turn(es, k) ==
             InsertAt(es, Target(es, cd[k].name) + 1, [cd[k] EXCEPT !.at = k])
           Turned(f) == [k \in 0..n |-> IF k = 0 THEN <<>> ELSE Turn(f[k - 1], k)]
           after == CHOOSE f : f = Turned(f)
           turn == [k \in 1..n |-> [x \in Lists |-> Turn(x, k)]]
<1>1. n \in Nat /\ <<>> \in V[0]
  <2>1. <<>> \in Lists /\ Sorted(<<>>, cd, 0)
    BY DEF Sorted, InOrder, FirstIsAhead
  <2>2. n \in Nat
    OBVIOUS
  <2> HIDE DEF n, Lists
  <2>3. QED
    BY <2>1, <2>2
<1>2. \A k \in 1..n : \A x \in V[k - 1] : x \in Lists /\ Turn(x, k) \in V[k]
  <2> TAKE k \in 1..n
  <2> TAKE x \in V[k - 1]
  <2>1. x \in Lists /\ Sorted(x, cd, k - 1)
    <3> HIDE DEF Lists, n
    <3>1. k - 1 \in 0..n
      BY <1>1
    <3>2. QED
      BY <3>1
  <2>2. Sorted(Turn(x, k), cd, k)
    BY <2>1, StaysSorted DEF Placed
  <2>3. Turn(x, k) \in Lists
    BY <2>2 DEF Sorted
  <2>4. k \in 0..n
    BY <1>1
  <2> HIDE DEF Turn, Lists, n
  <2>5. QED
    BY <2>1, <2>2, <2>3, <2>4
<1>3. \E f : f = Turned(f)
  <2>1. \A k \in 1..n : \A x \in V[k - 1] : turn[k][x] = Turn(x, k)
    <3> HIDE DEF V, Turn, Lists
    <3>1. QED
      BY <1>2
  <2>2. \A k \in 1..n : \A x \in V[k - 1] : turn[k][x] \in V[k]
    <3> HIDE DEF V, Turn, turn
    <3>1. QED
      BY <1>2, <2>1
  <2> HIDE DEF V, Turn, turn, n
  <2>3. PICK f : Values(f, n, <<>>, turn) /\ \A k \in 0..n : f[k] \in V[k]
    BY <1>1, <2>2, LoopExists
  <2>4. \A k \in 0..n : k = 0 \/ (turn[k][f[k - 1]] = Turn(f[k - 1], k))
    BY <1>1, <2>1, <2>3
  <2>5. f = Turned(f)
    BY <2>3, <2>4 DEF Values
  <2>6. QED
    BY <2>5, Zenon
<1>4. after = Turned(after)
  <2> HIDE DEF Turned
  <2>1. QED
    BY <1>3, Zenon
<1>5. SortedEntries(cd) = after[n]
  BY Zenon DEF SortedEntries, Loop
<1>6. after[0] = <<>> /\ \A k \in 1..n : after[k] = Turn(after[k - 1], k)
  <2> HIDE DEF after, Turn, n
  <2>1. \A k \in 0..n : after[k] = IF k = 0 THEN <<>> ELSE Turn(after[k - 1], k)
    BY <1>4, Zenon
  <2>2. 0 \in 0..n /\ \A k \in 1..n : k \in 0..n /\ k # 0
    BY <1>1
  <2>3. QED
    BY <2>1, <2>2
<1>7. \A k \in 0..n : after[k] \in V[k]
  <2> HIDE DEF after, Turn, V, n
  <2>1. QED
    BY <1>1, <1>2, <1>6, LoopStays
<1>8. Sorted(after[n], cd, n)
  <2> HIDE DEF after, n, Lists
  <2>1. n \in 0..n
    BY <1>1
  <2>2. QED
    BY <1>7, <2>1
<1>9. QED
  BY <1>5, <1>8

-----------------------------------------------------------------------------
(* The archive                                                             *)

\* A table holds the first of every name among the first k of the sorted entries.
FirstsOf(table, es, k) ==
  \A i \in Occupied(table) :
    \E m \in 1..k : /\ table[i] = es[m]
                   /\ \A l \in 1..(m - 1) : es[l].name # es[m].name

\* What is open of a package: all its entries, sorted, and the table of them.
ArchiveOf(zip, cd) ==
  /\ Sorted(zip.entries, cd, Len(cd))
  /\ TableOf(zip.hash, TableSize(Len(cd)), ToSet(zip.entries), Len(cd))
  /\ FirstsOf(zip.hash, zip.entries, Len(cd))

LEMMA EntriesOfList ==
  ASSUME NEW cd \in Seq(EntryType), NEW es, Sorted(es, cd, Len(cd))
  PROVE  /\ ToSet(es) = {es[i] : i \in 1..Len(cd)}
         /\ ToSet(es) = {Placed(cd, m) : m \in 1..Len(cd)}
         /\ ToSet(es) \in SUBSET EntryType
<1>1. es \in Seq(EntryType) /\ Len(es) = Len(cd) /\ DOMAIN es = 1..Len(cd)
  BY DEF Sorted
<1>2. ToSet(es) = {es[i] : i \in 1..Len(cd)}
  BY <1>1 DEF ToSet
<1>3. \A i \in 1..Len(cd) : \E m \in 1..Len(cd) : es[i] = Placed(cd, m)
  BY DEF Sorted
<1>4. \A m \in 1..Len(cd) : \E i \in 1..Len(cd) : es[i] = Placed(cd, m)
  BY DEF Sorted
<1>5. \A i \in 1..Len(cd) : es[i] \in EntryType
  BY <1>1
<1>6. QED
  BY <1>2, <1>3, <1>4, <1>5

\* Opening a package puts every entry into the table: it is large enough.
LEMMA ParsedIsArchive ==
  ASSUME NEW cd \in Seq(EntryType)
  PROVE  ArchiveOf(parseZipArchive(cd), cd)
<1> DEFINE n == Len(cd)
           es == SortedEntries(cd)
           size == TableSize(n)
           Tabs == Tables(size)
           Added(k) == {es[i] : i \in 1..k}
           V == [k \in 0..n |-> {t \in Tabs : /\ TableOf(t, size, Added(k), k)
                                           /\ FirstsOf(t, es, k)}]
           start == EmptyTable(TableSize(Len(cd)))
           Turn(t, k) == AddEntry(t, es[k])
           Turned(f) == [k \in 0..n |-> IF k = 0 THEN start ELSE Turn(f[k - 1], k)]
           after == CHOOSE f : f = Turned(f)
           turn == [k \in 1..n |-> [x \in Tabs |-> Turn(x, k)]]
<1>1. /\ n \in Nat /\ size \in Nat \ {0} /\ 8 * n < 5 * size /\ Sorted(es, cd, n)
      /\ \A i \in 1..n : es[i] \in EntryType
  <2>1. n \in Nat
    OBVIOUS
  <2>2. Sorted(es, cd, n)
    BY EntriesAreSorted
  <2>3. size \in Nat \ {0} /\ 8 * n < 5 * size
    BY <2>1, TableIsLarge
  <2> HIDE DEF n, es, size
  <2>4. QED
    BY <2>1, <2>2, <2>3 DEF Sorted
<1>2. start \in V[0]
  <2>1. TableOf(start, size, {}, 0)
    BY <1>1, EmptyTableIsOne
  <2>2. Added(0) = {}
    OBVIOUS
  <2>3. start \in Tabs
    BY <2>1 DEF TableOf
  <2>4. TableOf(start, size, Added(0), 0)
    BY <2>1, <2>2, Zenon
  <2>5. FirstsOf(start, es, 0)
    BY DEF FirstsOf, Occupied, EmptyTable
  <2>6. 0 \in 0..n
    BY <1>1
  <2> HIDE DEF start, size, Tabs, n, Added, es
  <2>7. QED
    BY <2>3, <2>4, <2>5, <2>6
<1> HIDE DEF n, es, size
<1>3. \A k \in 1..n : \A x \in V[k - 1] : x \in Tabs /\ Turn(x, k) \in V[k]
  <2> TAKE k \in 1..n
  <2> TAKE x \in V[k - 1]
  <2>1. x \in Tabs /\ TableOf(x, size, Added(k - 1), k - 1) /\ FirstsOf(x, es, k - 1)
    <3> HIDE DEF Tabs, Added
    <3>1. k - 1 \in 0..n
      BY <1>1
    <3>2. QED
      BY <3>1
  <2>2. /\ Added(k - 1) \in SUBSET EntryType /\ es[k] \in EntryType
        /\ Added(k) = Added(k - 1) \cup {es[k]}
        /\ k - 1 \in Nat /\ 8 * ((k - 1) + 1) <= 5 * size /\ (k - 1) + 1 = k
    BY <1>1
  <2>3. /\ TableOf(Turn(x, k), size, Added(k), k)
        /\ AddsOnly(Turn(x, k), x, Added(k - 1), es[k])
    <3>1. /\ TableOf(AddEntry(x, es[k]), size, Added(k - 1) \cup {es[k]}, (k - 1) + 1)
          /\ AddsOnly(AddEntry(x, es[k]), x, Added(k - 1), es[k])
      <4> DEFINE put == Added(k - 1)
                 m == k - 1
                 e == es[k]
      <4>1. /\ size \in Nat \ {0} /\ put \in SUBSET EntryType /\ m \in Nat
            /\ TableOf(x, size, put, m) /\ e \in EntryType /\ 8 * (m + 1) <= 5 * size
        BY <1>1, <2>1, <2>2
      <4> HIDE DEF Tabs, Added, put, m, e
      <4>2. /\ TableOf(AddEntry(x, e), size, put \cup {e}, m + 1)
            /\ AddsOnly(AddEntry(x, e), x, put, e)
        BY <4>1, AddedIsFound
      <4>3. QED
        BY <4>2 DEF put, m, e
    <3> HIDE DEF Added
    <3>2. QED
      BY <2>2, <3>1
  <2>4. Turn(x, k) \in Tabs
    BY <2>3 DEF TableOf
  <2>5. FirstsOf(Turn(x, k), es, k)
    <3> SUFFICES ASSUME NEW i \in Occupied(Turn(x, k))
                 PROVE  \E m \in 1..k :
                          /\ Turn(x, k)[i] = es[m]
                          /\ \A l \in 1..(m - 1) : es[l].name # es[m].name
      BY DEF FirstsOf
    <3> HIDE DEF Turn
    <3>1. CASE i \in Occupied(x) /\ Turn(x, k)[i] = x[i]
      <4>1. PICK m \in 1..(k - 1) :
              x[i] = es[m] /\ \A l \in 1..(m - 1) : es[l].name # es[m].name
        BY <2>1, <3>1 DEF FirstsOf
      <4>2. m \in 1..k
        BY <1>1
      <4>3. QED
        BY <3>1, <4>1, <4>2
    <3>2. CASE Turn(x, k)[i] = es[k] /\ \A e \in Added(k - 1) : e.name # es[k].name
      <4>1. k \in 1..k /\ \A l \in 1..(k - 1) : es[l] \in Added(k - 1)
        BY <1>1
      <4> HIDE DEF Added
      <4>2. QED
        BY <3>2, <4>1
    <3>3. QED
      BY <2>3, <3>1, <3>2 DEF AddsOnly
  <2> HIDE DEF Turn, Tabs, Added
  <2>6. k \in 0..n
    BY <1>1
  <2>7. QED
    BY <2>1, <2>3, <2>4, <2>5, <2>6
<1>4. \E f : f = Turned(f)
  <2>1. \A k \in 1..n : \A x \in V[k - 1] : turn[k][x] = Turn(x, k)
    <3> HIDE DEF V, Turn, Tabs
    <3>1. QED
      BY <1>3
  <2>2. \A k \in 1..n : \A x \in V[k - 1] : turn[k][x] \in V[k]
    <3> HIDE DEF V, Turn, turn
    <3>1. QED
      BY <1>3, <2>1
  <2> HIDE DEF V, Turn, turn, start
  <2>3. PICK f : Values(f, n, start, turn) /\ \A k \in 0..n : f[k] \in V[k]
    BY <1>1, <1>2, <2>2, LoopExists
  <2>4. \A k \in 0..n : k = 0 \/ (turn[k][f[k - 1]] = Turn(f[k - 1], k))
    BY <1>1, <2>1, <2>3
  <2>5. f = Turned(f)
    BY <2>3, <2>4 DEF Values
  <2>6. QED
    BY <2>5, Zenon
<1>5. after = Turned(after)
  <2> HIDE DEF Turned
  <2>1. QED
    BY <1>4, Zenon
<1>6. parseZipArchive(cd) = [entries |-> es, hash |-> after[n]]
  BY Zenon DEF parseZipArchive, Loop, es, n
<1>7. after[0] = start /\ \A k \in 1..n : after[k] = Turn(after[k - 1], k)
  <2> HIDE DEF after, Turn, start
  <2>1. \A k \in 0..n : after[k] = IF k = 0 THEN start ELSE Turn(after[k - 1], k)
    BY <1>5, Zenon
  <2>2. 0 \in 0..n /\ \A k \in 1..n : k \in 0..n /\ k # 0
    BY <1>1
  <2>3. QED
    BY <2>1, <2>2
<1>8. \A k \in 0..n : after[k] \in V[k]
  <2> HIDE DEF after, Turn, V, start
  <2>1. QED
    BY <1>1, <1>2, <1>3, <1>7, LoopStays
<1>9. TableOf(after[n], size, Added(n), n) /\ FirstsOf(after[n], es, n)
  <2> HIDE DEF after, Tabs, Added
  <2>1. n \in 0..n
    BY <1>1
  <2>2. QED
    BY <1>8, <2>1
<1>10. ToSet(es) = Added(n)
  BY <1>1, EntriesOfList DEF n
<1> HIDE DEF after
<1>11. TableOf(after[n], size, ToSet(es), n)
  BY <1>9, <1>10, Zenon
<1>12. parseZipArchive(cd).entries = es /\ parseZipArchive(cd).hash = after[n]
  BY <1>6
<1>13. QED
  BY <1>1, <1>9, <1>11, <1>12 DEF ArchiveOf, n, size


-----------------------------------------------------------------------------
(* Finding entries                                                         *)

\* What is found by a name: the entry of that name that comes first, at its place;
\* or none, if there is none.
FoundOf(found, cd, name) ==
  IF \E m \in 1..Len(cd) : cd[m].name = name
  THEN /\ found.at \in 1..Len(cd) /\ found = Placed(cd, found.at)
       /\ found.name = name /\ cd[found.at].name = name
       /\ \A m \in 1..Len(cd) : cd[m].name = name => found.at <= m
  ELSE found = NoEntry

LEMMA LookupFinds ==
  ASSUME NEW cd \in Seq(EntryType), NEW zip, ArchiveOf(zip, cd), NEW name
  PROVE  FoundOf(mzFindZipEntry(zip, name), cd, name)
<1> DEFINE n == Len(cd)
           put == ToSet(zip.entries)
           found == mzFindZipEntry(zip, name)
<1>1. /\ n \in Nat /\ TableSize(n) \in Nat \ {0} /\ n < TableSize(n)
      /\ Sorted(zip.entries, cd, n) /\ TableOf(zip.hash, TableSize(n), put, n)
      /\ put = {Placed(cd, m) : m \in 1..n} /\ put \in SUBSET EntryType
  <2>1. n \in Nat
    OBVIOUS
  <2>2. TableSize(n) \in Nat \ {0} /\ 8 * n < 5 * TableSize(n)
    BY <2>1, TableIsLarge
  <2>3. n < TableSize(n)
    BY <2>1, <2>2
  <2>4. Sorted(zip.entries, cd, n) /\ TableOf(zip.hash, TableSize(n), put, n)
    BY DEF ArchiveOf
  <2>5. QED
    BY <2>1, <2>2, <2>3, <2>4, EntriesOfList
<1>2. \A m \in 1..n : Placed(cd, m).name = cd[m].name /\ Placed(cd, m).at = m
  BY PlacedIsEntry
<1> HIDE DEF n, put
<1>3. IF \E e \in put : e.name = name THEN found \in put /\ found.name = name
      ELSE found = NoEntry
  <2> DEFINE size == TableSize(n)
             table == zip.hash
  <2>1. found = table[Slot(table, name)]
    BY DEF mzFindZipEntry
  <2> HIDE DEF found, size, table
  <2>2. /\ size \in Nat \ {0} /\ put \in SUBSET EntryType /\ n \in Nat /\ n < size
        /\ TableOf(table, size, put, n)
    BY <1>1 DEF size, table
  <2>3. FoundIn(put, table[Slot(table, name)], name)
    BY <2>2, FoundInTable
  <2>4. QED
    BY <2>1, <2>3 DEF FoundIn
<1> HIDE DEF found
<1>4. (\E e \in put : e.name = name) <=> \E m \in 1..n : cd[m].name = name
  BY <1>1, <1>2
<1>5. CASE \E m \in 1..n : cd[m].name = name
  <2>1. found \in put /\ found.name = name
    BY <1>3, <1>4, <1>5
  <2>2. PICK m \in 1..n : found = Placed(cd, m)
    BY <1>1, <2>1
  <2>3. found.at = m /\ cd[m].name = name
    BY <1>2, <2>1, <2>2
  <2>4. ASSUME NEW other \in 1..n, cd[other].name = name
        PROVE  m <= other
    <3> DEFINE es == zip.entries
    <3>1. PICK j \in 1..n : found = es[j] /\ \A i \in 1..(j - 1) : es[i].name # es[j].name
      <4> DEFINE slot == Slot(zip.hash, name)
      <4>1. found = zip.hash[slot]
        BY DEF found, mzFindZipEntry
      <4>2. found # NoEntry
        <5>1. "NULL" \notin Names /\ NoEntry.name = "NULL"
          BY DEF Names, NamesInOrder, NoEntry, ZipEntry
        <5>2. \A e \in EntryType : e.name \in Names
          BY DEF EntryType
        <5>3. QED
          BY <1>1, <2>1, <5>1, <5>2
      <4>3. slot \in DOMAIN zip.hash
        <5> DEFINE size == TableSize(n)
                   table == zip.hash
        <5>1. /\ size \in Nat \ {0} /\ put \in SUBSET EntryType /\ n \in Nat /\ n < size
              /\ TableOf(table, size, put, n)
          BY <1>1
        <5> HIDE DEF size, table
        <5>2. QED
          BY <5>1, SlotInTable DEF table
      <4> HIDE DEF slot, found
      <4>4. slot \in Occupied(zip.hash)
        BY <4>1, <4>2, <4>3 DEF Occupied
      <4>5. FirstsOf(zip.hash, es, n)
        BY DEF ArchiveOf, n
      <4> HIDE DEF es
      <4>6. QED
        BY <4>1, <4>4, <4>5 DEF FirstsOf
    <3>2. PICK l \in 1..n : es[l] = Placed(cd, other)
      BY <1>1 DEF Sorted
    <3>3. Len(es) = n /\ FirstIsAhead(es)
      BY <1>1 DEF Sorted
    <3>4. es[l].name = es[j].name /\ es[l].at = other /\ es[j].at = m
      BY <1>2, <2>1, <2>3, <2>4, <3>1, <3>2
    <3> HIDE DEF es
    <3>5. QED
      BY <3>1, <3>3, <3>4 DEF FirstIsAhead
  <2>5. QED
    BY <1>5, <2>1, <2>2, <2>3, <2>4 DEF FoundOf, found, n
<1>6. CASE ~ \E m \in 1..n : cd[m].name = name
  BY <1>3, <1>4, <1>6 DEF FoundOf, found, n
<1>7. QED
  BY <1>5, <1>6

\* The names under "system" are next to each other in the order of names.
LEMMA SystemNames ==
  ASSUME NEW name \in Names
  PROVE  name \in Under("system") <=> Rank(name) \in 10..12
<1>1. Under("system") = {"system/", "system/app", "system/lib"}
  BY DEF Under
<1>2. Rank(name) \in 1..13 /\ NamesInOrder[Rank(name)] = name
  BY Ranks
<1>3. QED
  BY <1>1, <1>2 DEF NamesInOrder

\* And so are the entries under it: all of them are extracted, and nothing else.
LEMMA MatchingIsAll ==
  ASSUME NEW cd \in Seq(EntryType), NEW zip, ArchiveOf(zip, cd)
  PROVE  {e.at : e \in ToSet(Matching(zip, "system"))}
           = {m \in DOMAIN cd : cd[m].name \in Under("system")}
<1> DEFINE es == zip.entries
           n == Len(cd)
           hits == {i \in DOMAIN es : es[i].name \in Under("system")}
           first == CHOOSE i \in hits : \A j \in hits : i <= j
           beyond == {i \in DOMAIN es : i >= first /\ es[i].name \notin Under("system")}
           least == CHOOSE i \in beyond : \A j \in beyond : i <= j
           final == IF beyond = {} THEN Len(es) ELSE least - 1
           under == Matching(zip, "system")
<1>1. /\ n \in Nat /\ es \in Seq(EntryType) /\ Len(es) = n /\ DOMAIN es = 1..n
      /\ InOrder(es) /\ Sorted(es, cd, n)
  BY DEF ArchiveOf, Sorted
<1>2. \A i \in 1..n : /\ es[i].name \in Names /\ Rank(es[i].name) \in Int
                      /\ es[i].name \in Under("system") <=> Rank(es[i].name) \in 10..12
  <2> TAKE i \in 1..n
  <2>1. es[i] \in EntryType
    BY <1>1
  <2>2. es[i].name \in Names
    BY <2>1 DEF EntryType
  <2>3. QED
    BY <2>2, SystemNames, RankIsNumber, <1>1
<1>3. under = IF hits = {} THEN <<>> ELSE SubSeq(es, first, final)
  BY DEF Matching
<1>4. ToSet(under) = {es[i] : i \in hits}
  <2>1. CASE hits = {}
    BY <1>3, <2>1 DEF ToSet
  <2>2. CASE hits # {}
    <3>1. first \in hits /\ \A j \in hits : first <= j
      <4>1. hits \in SUBSET Nat
        BY <1>1
      <4> HIDE DEF hits
      <4>2. QED
        BY <2>2, <4>1, LeastNumber
    <3>2. first \in 1..n
      BY <1>1, <3>1
    <3> HIDE DEF first
    <3>3. beyond # {} => least \in beyond /\ \A j \in beyond : least <= j
      <4>1. beyond \in SUBSET Nat
        BY <1>1
      <4> HIDE DEF beyond
      <4>2. QED
        BY <4>1, LeastNumber
    <3> HIDE DEF least
    <3>4. final \in 0..n /\ \A i \in 1..n : i \in hits <=> i \in first..final
      <4>1. CASE beyond = {}
        <5>1. final = n
          BY <1>1, <4>1
        <5>2. QED
          BY <1>1, <3>1, <3>2, <4>1, <5>1
      <4>2. CASE beyond # {}
        <5>1. /\ least \in 1..n /\ least >= first /\ es[least].name \notin Under("system")
              /\ final = least - 1
          BY <1>1, <3>3, <4>2
        <5>2. ASSUME NEW i \in hits PROVE i <= final
          <6>1. i \in 1..n /\ i >= first /\ es[i].name \in Under("system")
            BY <1>1, <3>1
          <6>2. CASE i >= least
            <7>1. /\ Rank(es[first].name) <= Rank(es[least].name)
                  /\ Rank(es[least].name) <= Rank(es[i].name)
              BY <1>1, <3>2, <5>1, <6>1, <6>2 DEF InOrder
            <7>2. Rank(es[first].name) \in 10..12 /\ Rank(es[i].name) \in 10..12
              BY <1>2, <3>1, <3>2, <6>1
            <7>3. Rank(es[least].name) \in 10..12
              BY <1>2, <5>1, <7>1, <7>2
            <7>4. QED
              BY <1>2, <5>1, <7>3
          <6>3. QED
            BY <5>1, <6>1, <6>2
        <5>3. ASSUME NEW i \in 1..n, i \in first..final PROVE i \in hits
          <6>1. i \notin beyond
            BY <3>2, <3>3, <4>2, <5>1, <5>3
          <6>2. QED
            BY <1>1, <3>2, <5>3, <6>1
        <5> HIDE DEF hits, beyond, final
        <5>4. \A i \in hits : i \in 1..n
          BY <1>1 DEF hits
        <5>5. QED
          BY <1>1, <3>1, <3>2, <5>1, <5>2, <5>3, <5>4
      <4>3. QED
        BY <4>1, <4>2
    <3> HIDE DEF final
    <3>5. first <= final
      BY <3>1, <3>2, <3>4
    <3>6. /\ Len(SubSeq(es, first, final)) = (final - first) + 1
          /\ \A k \in 1..((final - first) + 1) :
               SubSeq(es, first, final)[k] = es[(first + k) - 1]
      BY <1>1, <3>2, <3>4, <3>5
    <3>7. under = SubSeq(es, first, final)
      BY <1>3, <2>2 DEF first, final, beyond, least
    <3> HIDE DEF under
    <3>8. ToSet(under) = {under[k] : k \in 1..((final - first) + 1)}
      <4>1. DOMAIN under = 1..((final - first) + 1)
        BY <1>1, <3>2, <3>4, <3>5, <3>7
      <4>2. QED
        BY <4>1 DEF ToSet
    <3>9. \A i \in hits : i \in 1..n /\ (i - first) + 1 \in 1..((final - first) + 1)
                          /\ (first + ((i - first) + 1)) - 1 = i
      BY <1>1, <3>1, <3>2, <3>4
    <3>10. \A k \in 1..((final - first) + 1) : (first + k) - 1 \in hits
      <4> TAKE k \in 1..((final - first) + 1)
      <4>1. (first + k) - 1 \in first..final /\ (first + k) - 1 \in 1..n
        BY <3>2, <3>4, <3>5
      <4>2. QED
        BY <3>4, <4>1
    <3> HIDE DEF hits
    <3>11. \A k \in 1..((final - first) + 1) : under[k] = es[(first + k) - 1]
      BY <3>6, <3>7
    <3> HIDE DEF es
    <3>12. ToSet(under) \subseteq {es[i] : i \in hits}
      BY <3>8, <3>10, <3>11
    <3>13. ASSUME NEW i \in hits PROVE es[i] \in ToSet(under)
      <4>1. /\ (i - first) + 1 \in 1..((final - first) + 1)
            /\ (first + ((i - first) + 1)) - 1 = i
        BY <3>9
      <4>2. under[(i - first) + 1] = es[i]
        BY <3>11, <4>1
      <4>3. QED
        BY <3>8, <4>1, <4>2
    <3>14. QED
      BY <3>12, <3>13
  <2>3. QED
    BY <2>1, <2>2
<1>5. /\ \A i \in 1..n : es[i].at \in 1..n /\ es[i].name = cd[es[i].at].name
      /\ \A m \in 1..n : \E i \in 1..n : es[i].at = m
  <2>1. \A m \in 1..n : Placed(cd, m).at = m /\ Placed(cd, m).name = cd[m].name
    BY PlacedIsEntry
  <2> HIDE DEF es, n
  <2>2. ASSUME NEW i \in 1..n
        PROVE  es[i].at \in 1..n /\ es[i].name = cd[es[i].at].name
    <3>1. PICK m \in 1..n : m = es[i].at /\ es[i] = Placed(cd, m)
      BY <1>1 DEF Sorted
    <3>2. QED
      BY <2>1, <3>1
  <2>3. ASSUME NEW m \in 1..n
        PROVE  \E i \in 1..n : es[i].at = m
    <3>1. PICK i \in 1..n : es[i] = Placed(cd, m)
      BY <1>1 DEF Sorted
    <3>2. QED
      BY <2>1, <3>1
  <2>4. QED
    BY <2>2, <2>3
<1>7. {es[i].at : i \in hits} = {m \in 1..n : cd[m].name \in Under("system")}
  <2>1. \A i \in hits : i \in 1..n /\ es[i].name \in Under("system")
    BY <1>1
  <2>2. \A i \in 1..n : es[i].name \in Under("system") => i \in hits
    BY <1>1
  <2> HIDE DEF hits, es, n
  <2>3. {es[i].at : i \in hits} \subseteq {m \in 1..n : cd[m].name \in Under("system")}
    <3> SUFFICES ASSUME NEW i \in hits
                 PROVE  es[i].at \in 1..n /\ cd[es[i].at].name \in Under("system")
      OBVIOUS
    <3>1. i \in 1..n /\ es[i].name \in Under("system")
      BY <2>1
    <3>2. QED
      BY <1>5, <3>1
  <2>4. {m \in 1..n : cd[m].name \in Under("system")} \subseteq {es[i].at : i \in hits}
    <3> SUFFICES ASSUME NEW m \in 1..n, cd[m].name \in Under("system")
                 PROVE  \E i \in hits : es[i].at = m
      OBVIOUS
    <3>1. PICK i \in 1..n : es[i].at = m
      BY <1>5
    <3>2. i \in hits
      BY <1>5, <2>2, <3>1
    <3>3. QED
      BY <3>1, <3>2
  <2>5. QED
    BY <2>3, <2>4
<1>8. {e.at : e \in ToSet(under)} = {es[i].at : i \in hits}
  BY <1>4
<1>9. DOMAIN cd = 1..n
  OBVIOUS
<1>10. QED
  BY <1>7, <1>8, <1>9

-----------------------------------------------------------------------------
(* Storage                                                                 *)

\* The mount points of the roots and their volumes.  Mounts are in place when a
\* volume is mounted nowhere else, and nothing else there.
Homes == {<<"/cache", "cache">>, <<"/data", "userdata">>, <<"/system", "system">>,
          <<"/sdcard", "sdcard">>, <<"/sd-ext", "sd-ext">>}
AtHome(line) ==
  line.volume \in VolumeNames \/ line.point \in {home[1] : home \in Homes} =>
    <<line.point, line.volume>> \in Homes
InPlace(s) == \A i \in DOMAIN s.mounts : AtHome(s.mounts[i])

\* What every operation leaves of a storage; what an operation on roots leaves; and
\* what the operations leave that only mount, unmount or read.
Leads(s, t) ==
  /\ t \in Storage /\ t.build = s.build /\ t.full = s.full /\ t.busy = s.busy
  /\ t.faults <= s.faults
Follows(s, t) == Leads(s, t) /\ (InPlace(s) => InPlace(t))
Keeps(s, t) == Follows(s, t) /\ t.fs = s.fs /\ t.files = s.files

AllLead(s, outcomes) == \A o \in outcomes : Leads(s, o.s)
AllFollow(s, outcomes) == \A o \in outcomes : Follows(s, o.s)
AllKeep(s, outcomes) == \A o \in outcomes : Keeps(s, o.s)

\* What mounting a volume leaves.
Mounts(s, t, point, volume) ==
  /\ Leads(s, t) /\ t.fs = s.fs /\ t.files = s.files
  /\ \A i \in DOMAIN t.mounts :
       \/ \E j \in DOMAIN s.mounts : t.mounts[i] = s.mounts[j]
       \/ t.mounts[i].point = point /\ t.mounts[i].volume = volume
AllMount(s, outcomes, point, volume) == \A o \in outcomes : Mounts(s, o.s, point, volume)

\* What an operation on the root of a volume leaves when mounts are in place: the
\* other volumes hold what they did.
Spares(s, t, volume) ==
  /\ Follows(s, t)
  /\ InPlace(s) => \A v \in VolumeNames \ {volume} :
                     t.fs[v] = s.fs[v] /\ t.files[v] = s.files[v]
AllSpare(s, outcomes, volume) == \A o \in outcomes : Spares(s, o.s, volume)

LEMMA StorageFields ==
  ASSUME NEW s \in Storage
  PROVE  /\ s.build \in Builds /\ s.full \in BOOLEAN /\ s.mounts \in Seq(Lines)
         /\ s.fs \in [VolumeNames -> STRING] /\ s.files \in [Places -> SUBSET STRING]
         /\ s.busy \in SUBSET Places /\ s.faults \in Nat
BY DEF Storage

LEMMA SameKeeps ==
  ASSUME NEW s \in Storage
  PROVE  Keeps(s, s) /\ Follows(s, s) /\ Leads(s, s)
BY StorageFields DEF Keeps, Follows, Leads

\* One after the other.
LEMMA FollowOn ==
  ASSUME NEW s \in Storage, NEW t, NEW u
  PROVE  /\ Leads(s, t) /\ Leads(t, u) => Leads(s, u)
         /\ Follows(s, t) /\ Follows(t, u) => Follows(s, u)
         /\ Keeps(s, t) /\ Keeps(t, u) => Keeps(s, u)
         /\ Keeps(s, t) => Follows(s, t) /\ t \in Storage
         /\ Follows(s, t) => Leads(s, t) /\ t \in Storage
         /\ Leads(s, t) => t \in Storage
<1>1. s.faults \in Nat /\ (t \in Storage => t.faults \in Nat) /\ (u \in Storage => u.faults \in Nat)
  BY StorageFields
<1>2. Leads(s, t) /\ Leads(t, u) => Leads(s, u)
  BY <1>1 DEF Leads
<1>3. QED
  BY <1>2 DEF Keeps, Follows, Leads

\* Where nothing is mounted or unmounted, mounts stay in place.
LEMMA SameMounts ==
  ASSUME NEW s \in Storage, NEW t, Leads(s, t), t.mounts = s.mounts
  PROVE  /\ Follows(s, t)
         /\ t.fs = s.fs /\ t.files = s.files => Keeps(s, t)
BY DEF Keeps, Follows, InPlace

LEMMA MountsOn ==
  ASSUME NEW s \in Storage, NEW t, NEW u, NEW point, NEW volume
  PROVE  /\ Mounts(s, t, point, volume) /\ Mounts(t, u, point, volume) =>
              Mounts(s, u, point, volume)
         /\ Mounts(s, t, point, volume) => Leads(s, t) /\ t \in Storage
         /\ Mounts(s, t, point, volume) /\ <<point, volume>> \in Homes => Keeps(s, t)
         /\ Keeps(s, t) /\ t.mounts = s.mounts => Mounts(s, t, point, volume)
<1>1. Mounts(s, t, point, volume) => Leads(s, t) /\ t \in Storage
  BY DEF Mounts, Leads
<1>2. ASSUME Mounts(s, t, point, volume), Mounts(t, u, point, volume)
      PROVE  Mounts(s, u, point, volume)
  <2>1. Leads(s, u) /\ u.fs = s.fs /\ u.files = s.files
    BY <1>2, FollowOn DEF Mounts
  <2>2. ASSUME NEW i \in DOMAIN u.mounts
        PROVE  \/ \E j \in DOMAIN s.mounts : u.mounts[i] = s.mounts[j]
               \/ u.mounts[i].point = point /\ u.mounts[i].volume = volume
    BY <1>2 DEF Mounts
  <2>3. QED
    BY <2>1, <2>2 DEF Mounts
<1>3. ASSUME Mounts(s, t, point, volume), <<point, volume>> \in Homes
      PROVE  Keeps(s, t)
  <2>1. ASSUME InPlace(s), NEW i \in DOMAIN t.mounts
        PROVE  AtHome(t.mounts[i])
    <3>1. CASE \E j \in DOMAIN s.mounts : t.mounts[i] = s.mounts[j]
      BY <2>1, <3>1 DEF InPlace
    <3>2. CASE t.mounts[i].point = point /\ t.mounts[i].volume = volume
      BY <1>3, <3>2 DEF AtHome
    <3>3. QED
      BY <1>3, <3>1, <3>2 DEF Mounts
  <2>2. InPlace(s) => InPlace(t)
    BY <2>1 DEF InPlace
  <2>3. QED
    BY <1>3, <2>2 DEF Keeps, Follows, Mounts
<1>4. Keeps(s, t) /\ t.mounts = s.mounts => Mounts(s, t, point, volume)
  BY DEF Mounts, Keeps, Follows
<1>5. QED
  BY <1>1, <1>2, <1>3, <1>4

LEMMA SpareOn ==
  ASSUME NEW s \in Storage, NEW t, NEW u, NEW volume
  PROVE  /\ Spares(s, t, volume) /\ Spares(t, u, volume) => Spares(s, u, volume)
         /\ Keeps(s, t) => Spares(s, t, volume)
         /\ Spares(s, t, volume) => Follows(s, t) /\ t \in Storage
         /\ Spares(s, s, volume)
<1>1. Keeps(s, t) => Spares(s, t, volume)
  BY DEF Spares, Keeps
<1>2. Spares(s, s, volume)
  BY SameKeeps DEF Spares
<1>3. Spares(s, t, volume) => Follows(s, t) /\ t \in Storage
  BY FollowOn DEF Spares
<1>4. ASSUME Spares(s, t, volume), Spares(t, u, volume)
      PROVE  Spares(s, u, volume)
  <2>1. Follows(s, u)
    BY <1>3, <1>4, FollowOn DEF Spares
  <2>2. InPlace(s) => InPlace(t)
    BY <1>4 DEF Spares, Follows
  <2>3. QED
    BY <1>4, <2>1, <2>2 DEF Spares
<1>5. QED
  BY <1>1, <1>2, <1>3, <1>4

\* What an operation changes.
LEMMA NewMounts ==
  ASSUME NEW s \in Storage, NEW m \in Seq(Lines)
  PROVE  LET t == [s EXCEPT !.mounts = m]
         IN  Leads(s, t) /\ t.fs = s.fs /\ t.files = s.files /\ t.mounts = m
<1> DEFINE t == [s EXCEPT !.mounts = m]
<1>1. t \in Storage
  BY DEF Storage
<1>2. /\ t.build = s.build /\ t.full = s.full /\ t.busy = s.busy
      /\ t.fs = s.fs /\ t.files = s.files /\ t.faults = s.faults /\ t.mounts = m
  BY DEF Storage
<1> HIDE DEF t
<1>3. Leads(s, t)
  BY <1>1, <1>2, StorageFields DEF Leads
<1>4. QED
  BY <1>2, <1>3 DEF t

LEMMA NewFiles ==
  ASSUME NEW s \in Storage, NEW f \in [Places -> SUBSET STRING]
  PROVE  Follows(s, [s EXCEPT !.files = f])
<1> DEFINE t == [s EXCEPT !.files = f]
<1>1. t \in Storage
  BY DEF Storage
<1>2. /\ t.build = s.build /\ t.full = s.full /\ t.busy = s.busy
      /\ t.faults = s.faults /\ t.mounts = s.mounts
  BY DEF Storage
<1> HIDE DEF t
<1>3. Leads(s, t)
  BY <1>1, <1>2, StorageFields DEF Leads
<1>4. Follows(s, t)
  BY <1>2, <1>3, SameMounts
<1>5. QED
  BY <1>4 DEF t

LEMMA NewFileSystems ==
  ASSUME NEW s \in Storage, NEW f \in [VolumeNames -> STRING]
  PROVE  Follows(s, [s EXCEPT !.fs = f])
<1> DEFINE t == [s EXCEPT !.fs = f]
<1>1. t \in Storage
  BY DEF Storage
<1>2. /\ t.build = s.build /\ t.full = s.full /\ t.busy = s.busy
      /\ t.faults = s.faults /\ t.mounts = s.mounts
  BY DEF Storage
<1> HIDE DEF t
<1>3. Leads(s, t)
  BY <1>1, <1>2, StorageFields DEF Leads
<1>4. Follows(s, t)
  BY <1>2, <1>3, SameMounts
<1>5. QED
  BY <1>4 DEF t

\* A place whose files are others.
LEMMA NewFilesAt ==
  ASSUME NEW s \in Storage, NEW place \in Places, NEW f \in SUBSET STRING
  PROVE  /\ Follows(s, [s EXCEPT !.files[place] = f])
         /\ Spares(s, [s EXCEPT !.files[place] = f], place)
<1> DEFINE files == [s.files EXCEPT ![place] = f]
           t == [s EXCEPT !.files[place] = f]
<1>1. files \in [Places -> SUBSET STRING]
  BY StorageFields
<1>2. t = [s EXCEPT !.files = files]
  OBVIOUS
<1>3. \A v \in Places : v # place => files[v] = s.files[v]
  BY StorageFields
<1> HIDE DEF files
<1>4. Follows(s, t)
  BY <1>1, <1>2, NewFiles
<1>5. t.files = files /\ t.fs = s.fs
  BY <1>2 DEF Storage
<1> HIDE DEF t
<1>6. Spares(s, t, place)
  BY <1>3, <1>4, <1>5 DEF Spares, Places
<1>7. QED
  BY <1>4, <1>6 DEF t

LEMMA FailingKeeps ==
  ASSUME NEW s \in Storage, NEW t \in Failing(s)
  PROVE  Keeps(s, t) /\ t.mounts = s.mounts
<1>1. s.faults > 0 /\ t = [s EXCEPT !.faults = s.faults - 1]
  BY DEF Failing
<1>2. s.faults \in Nat /\ s.faults - 1 \in Nat /\ s.faults - 1 <= s.faults
  BY <1>1, StorageFields
<1>3. t \in Storage /\ t.faults = s.faults - 1
  BY <1>1, <1>2 DEF Storage
<1>4. t.build = s.build /\ t.full = s.full /\ t.busy = s.busy
      /\ t.fs = s.fs /\ t.files = s.files /\ t.mounts = s.mounts
  BY <1>1 DEF Storage
<1>5. Leads(s, t)
  BY <1>2, <1>3, <1>4 DEF Leads
<1>6. QED
  BY <1>4, <1>5, SameMounts

LEMMA TryFollows ==
  ASSUME NEW s \in Storage, NEW done, NEW code
  PROVE  /\ Follows(s, done) => AllFollow(s, Try(s, done, code))
         /\ Keeps(s, done) => AllKeep(s, Try(s, done, code))
         /\ \A point, volume : Mounts(s, done, point, volume) =>
              AllMount(s, Try(s, done, code), point, volume)
         /\ \A volume : Spares(s, done, volume) => AllSpare(s, Try(s, done, code), volume)
         /\ \A o \in Try(s, done, code) : o.ret \in {0, code}
<1>1. \A o \in Try(s, done, code) : \/ o.s = done /\ o.ret = 0
                                    \/ o.s \in Failing(s) /\ o.ret = code
  BY DEF Try, Out
<1>2. \A t \in Failing(s) : Keeps(s, t) /\ Follows(s, t)
  BY FailingKeeps, FollowOn
<1>3. ASSUME NEW t \in Failing(s), NEW point, NEW volume
      PROVE  Mounts(s, t, point, volume) /\ Spares(s, t, volume)
  BY <1>2, FailingKeeps, MountsOn, SpareOn
<1>4. QED
  BY <1>1, <1>2, <1>3 DEF AllFollow, AllKeep, AllMount, AllSpare

-----------------------------------------------------------------------------
(* Mounting and finding partitions                                         *)

\* Of the places of a list that have something in common one is the last.
LEMMA LastOfSome ==
  ASSUME NEW n \in Nat, NEW T \in SUBSET (1..n), T # {}
  PROVE  \E i \in T : \A j \in T : j <= i
<1> DEFINE rest == {n - i : i \in T}
<1>1. rest \in SUBSET Nat /\ rest # {}
  <2>1. \A i \in T : n - i \in Nat
    OBVIOUS
  <2>2. QED
    BY <2>1
<1>2. PICK m \in rest : \A k \in rest : m <= k
  <2> HIDE DEF rest
  <2>1. QED
    BY <1>1, LeastNumber
<1>3. PICK i \in T : m = n - i
  OBVIOUS
<1>4. \A j \in T : j \in 1..n /\ n - j \in rest
  OBVIOUS
<1>5. \A j \in T : j <= i
  <2> HIDE DEF rest
  <2>1. QED
    BY <1>2, <1>3, <1>4
<1>6. QED
  BY <1>5

\* Where a mount point leads.
LEMMA WhereIsPlace ==
  ASSUME NEW s \in Storage, NEW point
  PROVE  /\ Where(s, point) \in Places
         /\ IsMountPoint(s, point) =>
              /\ TopMost(s, point) \in Lines
              /\ \E i \in MountsAt(s, point) : TopMost(s, point) = s.mounts[i]
<1>1. s.mounts \in Seq(Lines)
  BY StorageFields
<1>2. ASSUME IsMountPoint(s, point)
      PROVE  /\ TopMost(s, point) \in Lines
             /\ \E i \in MountsAt(s, point) : TopMost(s, point) = s.mounts[i]
  <2> DEFINE last == CHOOSE i \in MountsAt(s, point) :
                       \A j \in MountsAt(s, point) : j <= i
  <2>1. TopMost(s, point) = s.mounts[last]
    BY DEF TopMost
  <2>2. \E i \in MountsAt(s, point) : \A j \in MountsAt(s, point) : j <= i
    <3>1. Len(s.mounts) \in Nat /\ MountsAt(s, point) \in SUBSET (1..Len(s.mounts))
      BY <1>1 DEF MountsAt
    <3>2. QED
      BY <1>2, <3>1, LastOfSome DEF IsMountPoint
  <2>3. last \in MountsAt(s, point) /\ last \in DOMAIN s.mounts
    BY <2>2 DEF MountsAt
  <2> HIDE DEF last
  <2>4. QED
    BY <1>1, <2>1, <2>3
<1>3. \A line \in Lines : line.volume \in Places
  BY DEF Lines
<1>4. "rootfs" \in Places
  BY DEF Places
<1>5. QED
  BY <1>2, <1>3, <1>4 DEF Where

LEMMA MountKeeps ==
  ASSUME NEW s \in Storage, NEW volume \in VolumeNames, NEW point \in STRING, NEW fs,
         NEW ro \in BOOLEAN
  PROVE  /\ AllMount(s, mount(s, volume, point, fs, ro), point, volume)
         /\ \A o \in mount(s, volume, point, fs, ro) : o.ret \in {0, -1}
<1> DEFINE there == s.fs[volume]
           done == [s EXCEPT !.mounts = Append(@, Line(volume, point, there, ro))]
<1>1. Mounts(s, done, point, volume)
  <2>1. there \in STRING /\ volume \in Places /\ s.mounts \in Seq(Lines)
    BY StorageFields DEF Places
  <2>2. Line(volume, point, there, ro) \in Lines
    BY <2>1 DEF Line, Lines
  <2> DEFINE line == Line(volume, point, there, ro)
             more == Append(s.mounts, line)
  <2>3. line.point = point /\ line.volume = volume
    BY DEF Line
  <2> HIDE DEF line
  <2>4. more \in Seq(Lines)
    BY <2>1, <2>2 DEF line
  <2>5. \A i \in DOMAIN more :
          (\E j \in DOMAIN s.mounts : more[i] = s.mounts[j]) \/ more[i] = line
    BY <2>1
  <2>6. done = [s EXCEPT !.mounts = more]
    BY DEF line
  <2> HIDE DEF done, more
  <2>7. Leads(s, done) /\ done.fs = s.fs /\ done.files = s.files /\ done.mounts = more
    BY <2>4, <2>6, NewMounts
  <2>8. QED
    BY <2>3, <2>5, <2>7 DEF Mounts
<1>2. mount(s, volume, point, fs, ro) = Try(s, done, -1)
        \/ mount(s, volume, point, fs, ro) = {Out(s, -1)}
  BY DEF mount
<1> HIDE DEF done
<1>3. Mounts(s, s, point, volume)
  BY MountsOn, SameKeeps
<1>4. AllMount(s, mount(s, volume, point, fs, ro), point, volume)
  BY <1>1, <1>2, <1>3, TryFollows DEF AllMount, Out
<1>5. \A o \in mount(s, volume, point, fs, ro) : o.ret \in {0, -1}
  BY <1>2, TryFollows DEF Out
<1>6. QED
  BY <1>4, <1>5

LEMMA UmountKeeps ==
  ASSUME NEW s \in Storage, NEW point, IsMountPoint(s, point)
  PROVE  /\ AllKeep(s, umount(s, point))
         /\ \A o \in umount(s, point) : o.ret \in {0, -1}
<1> DEFINE last == CHOOSE i \in MountsAt(s, point) :
                     \A j \in MountsAt(s, point) : j <= i
           done == [s EXCEPT !.mounts = RemoveAt(@, last)]
<1>1. s.mounts \in Seq(Lines) /\ last \in 1..Len(s.mounts)
  <2>1. s.mounts \in Seq(Lines)
    BY StorageFields
  <2>2. Len(s.mounts) \in Nat /\ MountsAt(s, point) \in SUBSET (1..Len(s.mounts))
    BY <2>1 DEF MountsAt
  <2>3. \E i \in MountsAt(s, point) : \A j \in MountsAt(s, point) : j <= i
    BY <2>2, LastOfSome DEF IsMountPoint
  <2>4. last \in MountsAt(s, point)
    BY <2>3
  <2>5. QED
    BY <2>1, <2>2, <2>4
<1> HIDE DEF last
<1> DEFINE rest == RemoveAt(s.mounts, last)
<1>2. rest \in Seq(Lines)
  BY <1>1 DEF RemoveAt
<1>3. \A i \in DOMAIN rest : \E j \in DOMAIN s.mounts : rest[i] = s.mounts[j]
  <2> DEFINE list == s.mounts
  <2>1. list \in Seq(Lines) /\ Len(list) \in Nat /\ last \in 1..Len(list)
    BY <1>1
  <2> HIDE DEF list
  <2>2. rest = SubSeq(list, 1, last - 1) \o SubSeq(list, last + 1, Len(list))
    BY DEF RemoveAt, list
  <2> HIDE DEF rest
  <2> DEFINE head == SubSeq(list, 1, last - 1)
             tail == SubSeq(list, last + 1, Len(list))
             n == Len(list)
  <2>3. /\ head \in Seq(Lines) /\ Len(head) = last - 1
        /\ \A i \in 1..(last - 1) : head[i] = list[i]
    BY <2>1
  <2>4. /\ tail \in Seq(Lines) /\ Len(tail) = n - last
        /\ \A i \in 1..(n - last) : tail[i] = list[i + last]
    BY <2>1
  <2> HIDE DEF head, tail
  <2>5. /\ DOMAIN rest = 1..(n - 1)
        /\ \A i \in 1..(last - 1) : rest[i] = head[i]
        /\ \A i \in last..(n - 1) : rest[i] = tail[i - (last - 1)]
    <3>1. rest = head \o tail
      BY <2>2 DEF head, tail
    <3>2. Len(head) + Len(tail) = n - 1
      BY <2>1, <2>3, <2>4
    <3>3. QED
      BY <2>1, <2>3, <2>4, <3>1, <3>2
  <2>6. ASSUME NEW i \in DOMAIN rest
        PROVE  \E j \in 1..n : rest[i] = list[j]
    <3>1. CASE i < last
      BY <2>1, <2>3, <2>5, <3>1
    <3>2. CASE i >= last
      <4>1. i - (last - 1) \in 1..(n - last) /\ i + 1 \in 1..n
        BY <2>1, <2>5, <3>2
      <4>2. rest[i] = tail[i - (last - 1)] /\ (i - (last - 1)) + last = i + 1
        BY <2>1, <2>5, <3>2
      <4>3. rest[i] = list[i + 1]
        BY <2>4, <4>1, <4>2
      <4>4. QED
        BY <4>1, <4>3
    <3>3. QED
      BY <2>1, <2>5, <3>1, <3>2
  <2>7. QED
    BY <2>1, <2>6 DEF list
<1>4. Keeps(s, done)
  <2>1. Leads(s, done) /\ done.fs = s.fs /\ done.files = s.files /\ done.mounts = rest
    BY <1>2, NewMounts
  <2> HIDE DEF done, rest
  <2>2. InPlace(s) => InPlace(done)
    BY <1>3, <2>1 DEF InPlace
  <2>3. QED
    BY <2>1, <2>2 DEF Keeps, Follows
<1>5. umount(s, point) = Try(s, done, -1) \/ umount(s, point) = {Out(s, -1)}
  BY DEF umount, last
<1> HIDE DEF done
<1>6. AllKeep(s, umount(s, point))
  BY <1>4, <1>5, TryFollows, SameKeeps DEF AllKeep, Out
<1>7. \A o \in umount(s, point) : o.ret \in {0, -1}
  BY <1>5, TryFollows DEF Out
<1>8. QED
  BY <1>6, <1>7

LEMMA ScanKeeps ==
  ASSUME NEW s \in Storage, NEW point
  PROVE  \A o \in scan_mounted_volumes(s, point) :
           /\ Keeps(s, o.s) /\ o.s.mounts = s.mounts
           /\ o.ret = "mounted" => IsMountPoint(o.s, point)
           /\ o.ret \in {"mounted", "unmounted", "failed"}
<1> TAKE o \in scan_mounted_volumes(s, point)
<1>1. \/ o.s = s /\ o.ret = IF IsMountPoint(s, point) THEN "mounted" ELSE "unmounted"
      \/ o.s \in Failing(s) /\ o.ret = "failed"
  BY DEF scan_mounted_volumes, Out
<1>2. QED
  BY <1>1, SameKeeps, FailingKeeps

LEMMA IsMountedKeeps ==
  ASSUME NEW s \in Storage, NEW root
  PROVE  /\ AllKeep(s, is_root_path_mounted(s, root))
         /\ \A o \in is_root_path_mounted(s, root) : o.ret \in BOOLEAN
<1> DEFINE point == get_root_info(s, root).point
<1>1. \A o \in is_root_path_mounted(s, root) :
        \/ o.s = s /\ o.ret = FALSE
        \/ \E p \in scan_mounted_volumes(s, point) : o.s = p.s /\ o.ret = (p.ret = "mounted")
  BY DEF is_root_path_mounted, Out
<1> HIDE DEF point
<1>2. QED
  BY <1>1, ScanKeeps, SameKeeps DEF AllKeep

LEMMA MtdFound ==
  ASSUME NEW s \in Storage, NEW name
  PROVE  \A o \in mtd_find_partition(s, name) :
           Keeps(s, o.s) /\ o.s.mounts = s.mounts
             /\ o.ret \in VolumeNames \cup {"NULL"} /\ o.ret \in {name, "NULL"}
<1> TAKE o \in mtd_find_partition(s, name)
<1>1. \/ o.s = s /\ o.ret = IF s.build = "nand" /\ name \in OnFlash THEN name ELSE "NULL"
      \/ o.s \in Failing(s) /\ o.ret = "NULL"
  BY DEF mtd_find_partition, Out
<1>2. QED
  BY <1>1, SameKeeps, FailingKeeps DEF OnFlash

\* The tables that a scan may read: that of the card, or as much of the chip's as
\* was read.
Chip == MBR \o EBR
Card == <<Entry("VFAT", "sdcard")>>
MayBeTable(table) == table = Card \/ \E n \in 0..7 : table = SubSeq(Chip, 1, n)
ChipNames == {"boot", "cache", "userdata", "system"}

LEMMA TablesRead ==
  ASSUME NEW s \in Storage
  PROVE  \A o \in mmc_read_mbr(s) :
           Keeps(s, o.s) /\ o.s.mounts = s.mounts /\ MayBeTable(o.ret)
<1> DEFINE N == {0} \cup Len(MBR)..(Len(MBR) + Len(EBR) - 1)
           Half == {Out(t, SubSeq(Chip, 1, n)) : t \in Failing(s), n \in N}
<1>1. Len(MBR) = 4 /\ Len(EBR) = 3
  BY DEF MBR, EBR
<1>2. \A n \in N : n \in 0..7
  BY <1>1
<1>3. Chip = SubSeq(Chip, 1, 7)
  BY DEF Chip, MBR, EBR
<1>4. ASSUME NEW o \in mmc_read_mbr(s)
      PROVE  \/ o.s = s /\ (o.ret = Card \/ o.ret = Chip)
             \/ o.s \in Failing(s) /\ \E n \in 0..7 : o.ret = SubSeq(Chip, 1, n)
  <2>1. o = Out(s, Card) \/ o = Out(s, Chip) \/ o \in Half
    BY DEF mmc_read_mbr, Chip, Card
  <2>2. ASSUME o \in Half
        PROVE  o.s \in Failing(s) /\ \E n \in 0..7 : o.ret = SubSeq(Chip, 1, n)
    <3> HIDE DEF N
    <3>1. PICK t \in Failing(s), n \in N : o = Out(t, SubSeq(Chip, 1, n))
      BY <2>2
    <3>2. n \in 0..7
      BY <1>2
    <3>3. QED
      BY <3>1, <3>2 DEF Out
  <2> HIDE DEF Half
  <2>3. QED
    BY <2>1, <2>2 DEF Out
<1>5. MayBeTable(Chip)
  <2>1. 7 \in 0..7
    OBVIOUS
  <2>2. QED
    BY <1>3, <2>1 DEF MayBeTable
<1> HIDE DEF Half, N
<1>6. QED
  BY <1>4, <1>5, SameKeeps, FailingKeeps DEF MayBeTable

LEMMA BothLists ==
  ASSUME NEW S, NEW a \in Seq(S), NEW b \in Seq(S)
  PROVE  /\ a \o b \in Seq(S) /\ Len(a \o b) = Len(a) + Len(b)
         /\ \A k \in 1..(Len(a) + Len(b)) :
              (a \o b)[k] = IF k <= Len(a) THEN a[k] ELSE b[k - Len(a)]
OBVIOUS

\* The entries of as much of the chip's table as was read.
LEMMA ReadEntries ==
  ASSUME NEW n \in 0..7, NEW i \in 1..n
  PROVE  /\ Len(SubSeq(Chip, 1, n)) = n
         /\ SubSeq(Chip, 1, n)[i] =
              CASE i = 1 -> Entry("BOOT", "boot")
                [] i = 2 -> Entry("VFAT", "modem")
                [] i = 3 -> Entry("EXT3", "system")
                [] i = 4 -> Entry("EXTENDED", "none")
                [] i = 5 -> Entry("EXT3", "userdata")
                [] i = 6 -> Entry("RECOVERY", "recovery")
                [] i = 7 -> Entry("EXT3", "cache")
<1> DEFINE E == {MBR[1], MBR[2], MBR[3], MBR[4], EBR[1], EBR[2], EBR[3]}
<1>1. MBR \in Seq(E) /\ Len(MBR) = 4 /\ EBR \in Seq(E) /\ Len(EBR) = 3
  BY DEF MBR, EBR
<1> HIDE DEF E
<1>2. /\ Chip \in Seq(E) /\ Len(Chip) = 7
      /\ \A k \in 1..4 : Chip[k] = MBR[k]
      /\ \A k \in 5..7 : Chip[k] = EBR[k - 4]
  <2>1. /\ Chip \in Seq(E) /\ Len(Chip) = 7
        /\ \A k \in 1..7 : Chip[k] = IF k <= 4 THEN MBR[k] ELSE EBR[k - 4]
    <3> DEFINE a == MBR
               b == EBR
    <3>1. a \in Seq(E) /\ b \in Seq(E) /\ Len(a) = 4 /\ Len(b) = 3 /\ Chip = a \o b
      BY <1>1 DEF Chip
    <3> HIDE DEF a, b
    <3>2. /\ Chip \in Seq(E) /\ Len(Chip) = Len(a) + Len(b)
          /\ \A k \in 1..(Len(a) + Len(b)) :
               Chip[k] = IF k <= Len(a) THEN a[k] ELSE b[k - Len(a)]
      BY <3>1, BothLists
    <3>3. Len(a) + Len(b) = 7 /\ Len(a) = 4
      BY <3>1
    <3>4. QED
      BY <3>2, <3>3 DEF a, b
  <2>2. \A k \in 1..4 : k \in 1..7 /\ k <= 4
    OBVIOUS
  <2>3. \A k \in 5..7 : k \in 1..7 /\ ~(k <= 4)
    OBVIOUS
  <2>4. QED
    BY <2>1, <2>2, <2>3
<1>3. Len(SubSeq(Chip, 1, n)) = n /\ SubSeq(Chip, 1, n)[i] = Chip[i]
  <2>1. n \in Nat /\ n <= Len(Chip)
    BY <1>2
  <2>2. QED
    BY <1>2, <2>1
<1>4. i \in 1..7
  OBVIOUS
<1>5. Chip[i] = CASE i = 1 -> MBR[1] [] i = 2 -> MBR[2] [] i = 3 -> MBR[3] [] i = 4 -> MBR[4]
                  [] i = 5 -> EBR[1] [] i = 6 -> EBR[2] [] i = 7 -> EBR[3]
  BY <1>2, <1>4
<1>6. /\ MBR[1] = Entry("BOOT", "boot") /\ MBR[2] = Entry("VFAT", "modem")
      /\ MBR[3] = Entry("EXT3", "system") /\ MBR[4] = Entry("EXTENDED", "none")
      /\ EBR[1] = Entry("EXT3", "userdata") /\ EBR[2] = Entry("RECOVERY", "recovery")
      /\ EBR[3] = Entry("EXT3", "cache")
  BY DEF MBR, EBR
<1>7. QED
  BY <1>3, <1>5, <1>6

\* Every entry that a root may name holds the volume of that name: they are named by
\* their type, and in their order.
LEMMA NamedHolds ==
  ASSUME NEW table, MayBeTable(table), NEW i \in 1..Len(table),
         mmc_partition_name(table, i) \in ChipNames
  PROVE  table[i].holds = mmc_partition_name(table, i)
<1> DEFINE type == table[i].type
           before == CountBefore(table, i)
           nth == before + 1
           name == mmc_partition_name(table, i)
<1>1. name # "recovery" /\ name # "modem" /\ name # "NULL"
  BY DEF ChipNames
<1>2. name = CASE type = "BOOT" -> "boot"
               [] type = "RECOVERY" -> "recovery"
               [] type = "EXT3" -> IF nth <= Len(ext3_partitions)
                                   THEN ext3_partitions[nth] ELSE "NULL"
               [] type = "VFAT" -> IF nth <= Len(vfat_partitions)
                                   THEN vfat_partitions[nth] ELSE "NULL"
               [] OTHER -> "NULL"
  BY DEF mmc_partition_name
<1>3. before \in Nat
  <2>1. IsFiniteSet(1..(i - 1))
    <3>1. i - 1 \in Int
      <4>1. Len(table) \in Nat
        BY ReadEntries DEF MayBeTable, Card
      <4>2. QED
        BY <4>1
    <3>2. QED
      BY <3>1, FS_Interval
  <2>2. IsFiniteSet({j \in 1..(i - 1) : table[j].type = table[i].type})
    BY <2>1, FS_Subset
  <2>3. QED
    BY <2>2, FS_CardinalityType DEF CountBefore
<1> HIDE DEF name, before, type
<1>4. nth <= Len(vfat_partitions) => vfat_partitions[nth] = "modem"
  BY <1>3 DEF vfat_partitions
<1>5. type \in {"BOOT", "EXT3"}
  BY <1>1, <1>2, <1>4
<1>6. CASE table = Card
  <2>1. type = "VFAT"
    BY <1>6 DEF type, Card, Entry
  <2>2. QED
    BY <1>5, <2>1
<1>7. CASE \E n \in 0..7 : table = SubSeq(Chip, 1, n)
  <2>1. PICK n \in 0..7 : table = SubSeq(Chip, 1, n)
    BY <1>7
  <2>2. n = Len(table) /\ i \in 1..n /\ i \in 1..7
    <3>1. \A k \in 1..n : Len(table) = n
      BY <2>1, ReadEntries
    <3>2. n = 0 => Len(table) = 0
      BY <2>1
    <3>3. QED
      BY <3>1, <3>2
  <2>3. \A k \in 1..i : k \in 1..n
    BY <2>2
  <2>4. ASSUME NEW k \in 1..i
        PROVE  /\ k = 1 => table[k] = Entry("BOOT", "boot")
               /\ k = 2 => table[k] = Entry("VFAT", "modem")
               /\ k = 3 => table[k] = Entry("EXT3", "system")
               /\ k = 4 => table[k] = Entry("EXTENDED", "none")
               /\ k = 5 => table[k] = Entry("EXT3", "userdata")
               /\ k = 6 => table[k] = Entry("RECOVERY", "recovery")
               /\ k = 7 => table[k] = Entry("EXT3", "cache")
    <3>1. k \in 1..n /\ k \in 1..7
      BY <2>2, <2>3
    <3>2. QED
      BY <2>1, <3>1, ReadEntries
  <2>5. ASSUME NEW k \in 1..i
        PROVE  (table[k].type = "EXT3") <=> k \in {3, 5, 7}
    <3>1. k \in {1, 2, 3, 4, 5, 6, 7}
      BY <2>2
    <3>2. QED
      BY <2>4, <3>1 DEF Entry
  <2>6. i = 1 \/ i \in {3, 5, 7}
    <3>1. i \in 1..i
      BY <2>2
    <3>2. i \in {1, 2, 3, 4, 5, 6, 7}
      BY <2>2
    <3>3. QED
      BY <1>5, <2>4, <3>1, <3>2 DEF Entry, type
  <2>7. CASE i = 1
    <3>1. table[i] = Entry("BOOT", "boot")
      BY <2>4, <2>7
    <3>2. QED
      BY <1>2, <3>1 DEF Entry, type, name
  <2>8. CASE i \in {3, 5, 7}
    <3>1. type = "EXT3"
      BY <2>2, <2>5, <2>8 DEF type
    <3>2. before = Cardinality({j \in 1..(i - 1) : table[j].type = "EXT3"})
      BY <3>1 DEF before, CountBefore, type
    <3>3. {j \in 1..(i - 1) : table[j].type = "EXT3"} = {j \in {3, 5} : j < i}
      <4>1. \A j \in 1..(i - 1) : j \in 1..i
        BY <2>8
      <4>2. QED
        BY <2>5, <2>8, <4>1
    <3>4. name = ext3_partitions[nth]
      <4>1. nth <= Len(ext3_partitions)
        BY <1>1, <1>2, <3>1
      <4>2. QED
        BY <1>2, <3>1, <4>1
    <3>5. CASE i = 3
      <4>1. {j \in {3, 5} : j < i} = {}
        BY <3>5
      <4>2. before = 0
        BY <3>2, <3>3, <4>1, FS_EmptySet
      <4>3. name = "system"
        BY <3>4, <4>2 DEF ext3_partitions
      <4>4. QED
        BY <2>2, <2>4, <3>5, <4>3 DEF Entry, name
    <3>6. CASE i = 5
      <4>1. {j \in {3, 5} : j < i} = {3}
        BY <3>6
      <4>2. before = 1
        BY <3>2, <3>3, <4>1, FS_Singleton
      <4>3. name = "userdata"
        BY <3>4, <4>2 DEF ext3_partitions
      <4>4. QED
        BY <2>2, <2>4, <3>6, <4>3 DEF Entry, name
    <3>7. CASE i = 7
      <4>1. {j \in {3, 5} : j < i} = {3} \cup {5}
        BY <3>7
      <4>2. Cardinality({3} \cup {5}) = 2
        <5>1. IsFiniteSet({3}) /\ Cardinality({3}) = 1
          BY FS_Singleton
        <5>2. 5 \notin {3}
          OBVIOUS
        <5>3. Cardinality({3} \cup {5})
                = IF 5 \in {3} THEN Cardinality({3}) ELSE Cardinality({3}) + 1
          BY <5>1, FS_AddElement
        <5>4. QED
          BY <5>1, <5>2, <5>3
      <4>3. before = 2
        BY <3>2, <3>3, <4>1, <4>2
      <4>4. name = "cache"
        BY <3>4, <4>3 DEF ext3_partitions
      <4>5. QED
        BY <2>2, <2>4, <3>7, <4>4 DEF Entry, name
    <3>8. QED
      BY <2>8, <3>5, <3>6, <3>7
  <2>9. QED
    BY <2>6, <2>7, <2>8
<1>8. QED
  BY <1>6, <1>7 DEF MayBeTable

LEMMA MmcFound ==
  ASSUME NEW s \in Storage, NEW name
  PROVE  \A o \in mmc_find_partition(s, name) :
           /\ Keeps(s, o.s) /\ o.s.mounts = s.mounts
           /\ name \in ChipNames => o.ret \in VolumeNames \cup {"NULL"} /\ o.ret \in {name, "NULL"}
<1> TAKE o \in mmc_find_partition(s, name)
<1> DEFINE Name(table) == [i \in DOMAIN table |-> mmc_partition_name(table, i)]
           Place(table) == SelectInSeq(Name(table), LAMBDA n : n = name)
<1>1. PICK p \in mmc_read_mbr(s) :
        /\ o.s = p.s
        /\ o.ret = IF Place(p.ret) = 0 THEN "NULL" ELSE p.ret[Place(p.ret)].holds
  <2>1. PICK p \in mmc_read_mbr(s) :
          o = Out(p.s, IF Place(p.ret) = 0 THEN "NULL" ELSE p.ret[Place(p.ret)].holds)
    BY Zenon DEF mmc_find_partition
  <2> HIDE DEF Place
  <2>2. QED
    BY <2>1 DEF Out
<1> DEFINE table == p.ret
<1>2. Keeps(s, o.s) /\ o.s.mounts = s.mounts /\ MayBeTable(table)
  BY <1>1, TablesRead
<1> HIDE DEF table
<1>3. ASSUME name \in ChipNames, Place(table) # 0
      PROVE  table[Place(table)].holds = name
  <2> DEFINE I == {i \in 1..Len(Name(table)) : Name(table)[i] = name}
             i == CHOOSE x \in I : \A y \in I : x <= y
  <2>1. Place(table) = IF I # {} THEN i ELSE 0
    BY DEF SelectInSeq, Min
  <2>2. Len(table) \in Nat /\ DOMAIN table = 1..Len(table) /\ Len(Name(table)) = Len(table)
    <3>1. table \in Seq({table[k] : k \in DOMAIN table})
      <4>1. Card \in Seq({Card[k] : k \in DOMAIN Card})
        BY DEF Card
      <4>2. Chip \in Seq({Chip[k] : k \in DOMAIN Chip}) /\ Len(Chip) = 7
        BY DEF Chip, MBR, EBR
      <4>3. ASSUME NEW n \in 0..7
            PROVE  SubSeq(Chip, 1, n) \in Seq({SubSeq(Chip, 1, n)[k] : k \in DOMAIN SubSeq(Chip, 1, n)})
        <5> DEFINE part == SubSeq(Chip, 1, n)
        <5>1. part = [k \in 1..n |-> Chip[k]]
          BY <4>2
        <5> HIDE DEF part
        <5>2. part \in Seq({part[k] : k \in DOMAIN part})
          BY <5>1
        <5>3. QED
          BY <5>2 DEF part
      <4>4. QED
        BY <1>2, <4>1, <4>3 DEF MayBeTable
    <3>2. QED
      BY <3>1
  <2>3. I \in SUBSET Nat
    BY <2>2
  <2>4. i \in I
    <3> HIDE DEF I
    <3>1. QED
      BY <1>3, <2>1, <2>3, LeastNumber
  <2> HIDE DEF i
  <2>5. i \in 1..Len(table) /\ mmc_partition_name(table, i) = name
    BY <2>2, <2>4
  <2>6. Place(table) = i
    BY <2>1, <2>4
  <2>7. QED
    BY <1>2, <1>3, <2>5, <2>6, NamedHolds
<1>4. ChipNames \subseteq VolumeNames
  BY DEF ChipNames, VolumeNames
<1>5. QED
  BY <1>1, <1>2, <1>3, <1>4 DEF table

-----------------------------------------------------------------------------
(* The table of roots                                                      *)

\* The volume of a root, and what a line of the table may be.
HomeOf(r) == IF r.device \in {"g_mtd", "g_mmc"} THEN r.partition ELSE r.device
Points == {"/cache", "/data", "/system", "/sdcard", "/sd-ext", "/tmp"}
MayBeRoot(r) ==
  /\ r.point \in Points \cup {"NULL"}
  /\ r.device \in VolumeNames \cup {"g_mtd", "g_mmc", "NULL"}
  /\ r.device2 \in {"sdcard", "NULL"} /\ r.device2 \in {r.device, "NULL"}
  /\ r.device \in {"g_mtd", "g_mmc"} => r.partition \in ChipNames
  /\ r.device \in VolumeNames /\ r.fs # "raw" => r.point # "NULL"
  /\ r.device # "NULL" /\ r.point # "NULL" => <<r.point, HomeOf(r)>> \in Homes
  /\ \A v : <<r.point, v>> \in Homes => v = HomeOf(r)

LEMMA PartitionIsRoot ==
  ASSUME NEW s \in Storage, NEW name, NEW volume \in ChipNames,
         NEW point \in Points \cup {"NULL"}, NEW fs, point = "NULL" => fs = "raw",
         point # "NULL" => <<point, volume>> \in Homes
  PROVE  MayBeRoot(Partition(s, name, volume, point, fs))
<1> DEFINE r == Partition(s, name, volume, point, fs)
<1>1. s.build \in {"nand", "emmc", "mmc"}
  BY StorageFields DEF Builds
<1>2. /\ r.point = point /\ r.device = OnChip(s, volume) /\ r.device2 = "NULL"
      /\ r.partition = volume
      /\ fs = "raw" => r.fs = "raw"
      /\ fs # "raw" => point # "NULL"
  BY DEF Partition, Root, Points
<1>3. OnChip(s, volume) \in {"g_mtd", "g_mmc", volume} /\ volume \in VolumeNames
  BY <1>1 DEF OnChip, ChipNames, VolumeNames
<1> HIDE DEF r
<1>4. HomeOf(r) = volume
  BY <1>2, <1>3 DEF HomeOf
<1>5. \A v : <<point, v>> \in Homes => v = volume
  BY DEF Homes
<1>6. MayBeRoot(r)
  BY <1>2, <1>3, <1>4, <1>5 DEF MayBeRoot, Points
<1>7. QED
  BY <1>6 DEF r


LEMMA RootInfo ==
  ASSUME NEW s \in Storage, NEW root
  PROVE  /\ MayBeRoot(get_root_info(s, root))
         /\ get_root_info(s, root).name = IF root \in RootNames THEN root ELSE "NULL"
<1> DEFINE name == IF root \in RootNames THEN root ELSE "NULL"
           table == g_roots(s) \cup {NoRoot}
<1>1. \A r \in table : MayBeRoot(r)
  <2>1. /\ MayBeRoot(Partition(s, "BOOT:",   "boot",     "NULL",    "raw"))
        /\ MayBeRoot(Partition(s, "CACHE:",  "cache",    "/cache",  "yaffs2"))
        /\ MayBeRoot(Partition(s, "DATA:",   "userdata", "/data",   "yaffs2"))
        /\ MayBeRoot(Partition(s, "SYSTEM:", "system",   "/system", "yaffs2"))
    <3>1. /\ "boot" \in ChipNames /\ "cache" \in ChipNames
          /\ "userdata" \in ChipNames /\ "system" \in ChipNames
          /\ "/cache" \in Points \cup {"NULL"} /\ "/data" \in Points \cup {"NULL"}
          /\ "/system" \in Points \cup {"NULL"} /\ "NULL" \in Points \cup {"NULL"}
      BY DEF ChipNames, Points
    <3>2. /\ <<"/cache", "cache">> \in Homes /\ <<"/data", "userdata">> \in Homes
          /\ <<"/system", "system">> \in Homes
      BY DEF Homes
    <3>3. MayBeRoot(Partition(s, "BOOT:", "boot", "NULL", "raw"))
      BY <3>1, PartitionIsRoot
    <3>4. MayBeRoot(Partition(s, "CACHE:", "cache", "/cache", "yaffs2"))
      BY <3>1, <3>2, PartitionIsRoot
    <3>5. MayBeRoot(Partition(s, "DATA:", "userdata", "/data", "yaffs2"))
      BY <3>1, <3>2, PartitionIsRoot
    <3>6. MayBeRoot(Partition(s, "SYSTEM:", "system", "/system", "yaffs2"))
      BY <3>1, <3>2, PartitionIsRoot
    <3>7. QED
      BY <3>3, <3>4, <3>5, <3>6
  <2>2. /\ MayBeRoot(Root("PACKAGE:", "NULL",   "NULL",   "NULL",   "NULL",    "package", "NULL"))
        /\ MayBeRoot(Root("SDCARD:",  "sdcard", "sdcard", "sdcard", "/sdcard", "vfat",    "mmc"))
        /\ MayBeRoot(Root("SDEXT:",   "sd-ext", "NULL",   "sd-ext", "/sd-ext", "auto",    "mmc"))
        /\ MayBeRoot(Root("TMP:",     "NULL",   "NULL",   "NULL",   "/tmp",    "NULL",    "NULL"))
        /\ MayBeRoot(NoRoot)
    <3>1. MayBeRoot(Root("PACKAGE:", "NULL", "NULL", "NULL", "NULL", "package", "NULL"))
      BY DEF MayBeRoot, Root, Points, VolumeNames, HomeOf, Homes
    <3>2. MayBeRoot(Root("SDCARD:", "sdcard", "sdcard", "sdcard", "/sdcard", "vfat", "mmc"))
      BY DEF MayBeRoot, Root, Points, VolumeNames, HomeOf, Homes
    <3>3. MayBeRoot(Root("SDEXT:", "sd-ext", "NULL", "sd-ext", "/sd-ext", "auto", "mmc"))
      BY DEF MayBeRoot, Root, Points, VolumeNames, HomeOf, Homes
    <3>4. MayBeRoot(Root("TMP:", "NULL", "NULL", "NULL", "/tmp", "NULL", "NULL"))
      BY DEF MayBeRoot, Root, Points, VolumeNames, HomeOf, Homes
    <3>5. MayBeRoot(NoRoot)
      BY DEF MayBeRoot, Root, NoRoot, Points, VolumeNames, HomeOf, Homes
    <3>6. QED
      BY <3>1, <3>2, <3>3, <3>4, <3>5
  <2>3. QED
    BY <2>1, <2>2 DEF g_roots
<1>2. \E r \in table : r.name = name
  <2>1. NoRoot.name = "NULL"
    BY DEF NoRoot, Root
  <2>2. root \in RootNames => \E r \in g_roots(s) : r.name = root
    BY DEF RootNames, g_roots, Root, Partition
  <2>3. QED
    BY <2>1, <2>2
<1>3. get_root_info(s, root) = CHOOSE r \in table : r.name = name
  BY DEF get_root_info
<1> HIDE DEF table, name
<1>4. get_root_info(s, root) \in table /\ get_root_info(s, root).name = name
  BY <1>2, <1>3
<1>5. QED
  BY <1>1, <1>4 DEF name


-----------------------------------------------------------------------------
(* Mounting a root                                                         *)

LEMMA PointsAreTexts ==
  Points \subseteq STRING
BY VolumesAssumption DEF Points

LEMMA MtdMounts ==
  ASSUME NEW s \in Storage, NEW volume \in VolumeNames, NEW point \in STRING, NEW fs
  PROVE  /\ AllMount(s, mtd_mount_partition(s, volume, point, fs), point, volume)
         /\ \A o \in mtd_mount_partition(s, volume, point, fs) : o.ret \in {0, -1}
<1> DEFINE FixPermissions(t, ret) ==
             IF ret < 0 THEN {Out(t, ret)} ELSE Try(t, t, -1)
           ReadOnly(t, ret) ==
             IF ret < 0 THEN mount(t, volume, point, fs, TRUE) ELSE {Out(t, ret)}
           first == mount(s, volume, point, fs, FALSE)
           second == Then(first, ReadOnly)
<1>1. ASSUME NEW o \in second
      PROVE  Mounts(s, o.s, point, volume) /\ o.ret \in {0, -1}
  <2>1. PICK p \in first : o \in IF p.ret < 0 THEN mount(p.s, volume, point, fs, TRUE)
                                 ELSE {Out(p.s, p.ret)}
    BY DEF Then
  <2> HIDE DEF first, second, FixPermissions
  <2>2. Mounts(s, p.s, point, volume) /\ p.ret \in {0, -1} /\ p.s \in Storage
    BY MountKeeps, MountsOn DEF AllMount, first
  <2>3. Mounts(p.s, o.s, point, volume) /\ o.ret \in {0, -1}
    <3>1. CASE ~(p.ret < 0)
      <4>1. o = Out(p.s, p.ret)
        BY <2>1, <3>1
      <4>2. QED
        BY <2>2, <4>1, SameKeeps, MountsOn DEF Out
    <3>2. CASE p.ret < 0
      <4>1. o \in mount(p.s, volume, point, fs, TRUE)
        BY <2>1, <3>2
      <4>2. QED
        BY <2>2, <4>1, MountKeeps DEF AllMount
    <3>3. QED
      BY <3>1, <3>2
  <2>4. QED
    BY <2>2, <2>3, MountsOn
<1>2. ASSUME NEW o \in mtd_mount_partition(s, volume, point, fs)
      PROVE  Mounts(s, o.s, point, volume) /\ o.ret \in {0, -1}
  <2>1. PICK p \in second : o \in FixPermissions(p.s, p.ret)
    BY DEF Then, mtd_mount_partition
  <2> HIDE DEF second
  <2>2. Mounts(s, p.s, point, volume) /\ p.ret \in {0, -1} /\ p.s \in Storage
    BY <1>1, MountsOn
  <2>3. Mounts(p.s, o.s, point, volume) /\ o.ret \in {0, -1}
    <3>1. Mounts(p.s, p.s, point, volume)
      BY <2>2, SameKeeps, MountsOn
    <3>2. /\ AllMount(p.s, Try(p.s, p.s, -1), point, volume)
          /\ \A q \in Try(p.s, p.s, -1) : q.ret \in {0, -1}
      BY <2>2, <3>1, TryFollows
    <3>3. o = Out(p.s, p.ret) \/ o \in Try(p.s, p.s, -1)
      BY <2>1
    <3>4. QED
      BY <2>2, <3>1, <3>2, <3>3 DEF AllMount, Out
  <2>4. QED
    BY <2>2, <2>3, MountsOn
<1>3. QED
  BY <1>2 DEF AllMount

LEMMA InternalMounts ==
  ASSUME NEW s \in Storage, NEW volume \in VolumeNames, NEW point \in STRING, NEW fs
  PROVE  /\ AllMount(s, mount_internal(s, volume, point, fs), point, volume)
         /\ \A o \in mount_internal(s, volume, point, fs) : o.ret \in {0, -1, ShellError}
<1>1. ASSUME NEW o \in mount_internal(s, volume, point, fs)
      PROVE  Mounts(s, o.s, point, volume) /\ o.ret \in {0, -1, ShellError}
  <2>1. PICK p \in mount(s, volume, point, fs, FALSE) :
          o = Out(p.s, IF fs = "auto" /\ p.ret # 0 THEN ShellError ELSE p.ret)
    BY DEF mount_internal
  <2>2. o.s = p.s /\ (o.ret = p.ret \/ o.ret = ShellError)
    BY <2>1 DEF Out
  <2>3. QED
    BY <2>2, MountKeeps DEF AllMount
<1>2. QED
  BY <1>1 DEF AllMount

LEMMA RootMounts ==
  ASSUME NEW s \in Storage, NEW info, MayBeRoot(info)
  PROVE  AllKeep(s, MountRoot(s, info))
<1> SUFFICES ASSUME NEW o \in MountRoot(s, info) PROVE Keeps(s, o.s)
  BY DEF AllKeep
<1>1. CASE info.device = "g_mtd" /\ info.point # "NULL"
  <2>1. PICK p \in mtd_find_partition(s, info.partition) :
          o \in IF p.ret = "NULL" THEN {Out(p.s, -1)}
                ELSE mtd_mount_partition(p.s, p.ret, info.point, info.fs)
    BY <1>1 DEF MountRoot, Then, VolumeNames
  <2>2. /\ Keeps(s, p.s) /\ p.s \in Storage
        /\ p.ret \in VolumeNames \cup {"NULL"} /\ p.ret \in {info.partition, "NULL"}
    BY MtdFound, FollowOn
  <2>3. CASE p.ret = "NULL"
    BY <2>1, <2>2, <2>3 DEF Out
  <2>4. CASE p.ret # "NULL"
    <3>1. info.point \in STRING
      BY <1>1, PointsAreTexts DEF MayBeRoot
    <3>2. o \in mtd_mount_partition(p.s, p.ret, info.point, info.fs)
      BY <2>1, <2>4
    <3>3. Mounts(p.s, o.s, info.point, p.ret)
      BY <2>2, <2>4, <3>1, <3>2, MtdMounts DEF AllMount
    <3>4. <<info.point, p.ret>> \in Homes
      BY <1>1, <2>2, <2>4 DEF MayBeRoot, HomeOf
    <3>5. Keeps(p.s, o.s)
      BY <2>2, <3>3, <3>4, MountsOn
    <3>6. QED
      BY <2>2, <3>5, FollowOn
  <2>5. QED
    BY <2>3, <2>4
<1>2. CASE info.device = "g_mmc" /\ info.point # "NULL"
  <2>1. PICK p \in mmc_find_partition(s, info.partition) :
          o \in IF p.ret = "NULL" THEN {Out(p.s, -1)}
                ELSE mount_internal(p.s, p.ret, info.point, info.fs)
    BY <1>2 DEF MountRoot, Then, VolumeNames
  <2>2. /\ Keeps(s, p.s) /\ p.s \in Storage
        /\ p.ret \in VolumeNames \cup {"NULL"} /\ p.ret \in {info.partition, "NULL"}
    BY <1>2, MmcFound, FollowOn DEF MayBeRoot
  <2>3. CASE p.ret = "NULL"
    BY <2>1, <2>2, <2>3 DEF Out
  <2>4. CASE p.ret # "NULL"
    <3>1. info.point \in STRING
      BY <1>2, PointsAreTexts DEF MayBeRoot
    <3>2. o \in mount_internal(p.s, p.ret, info.point, info.fs)
      BY <2>1, <2>4
    <3>3. Mounts(p.s, o.s, info.point, p.ret)
      BY <2>2, <2>4, <3>1, <3>2, InternalMounts DEF AllMount
    <3>4. <<info.point, p.ret>> \in Homes
      BY <1>2, <2>2, <2>4 DEF MayBeRoot, HomeOf
    <3>5. Keeps(p.s, o.s)
      BY <2>2, <3>3, <3>4, MountsOn
    <3>6. QED
      BY <2>2, <3>5, FollowOn
  <2>5. QED
    BY <2>3, <2>4
<1>3. CASE info.device \in VolumeNames /\ info.fs # "raw"
  <2>1. PICK p \in mount_internal(s, info.device, info.point, info.fs) :
          o \in IF p.ret = 0 THEN {Out(p.s, 0)}
                ELSE IF info.device2 = "NULL" THEN {Out(p.s, -1)}
                ELSE {Out(q.s, IF q.ret = 0 THEN 0 ELSE -1) :
                        q \in mount_internal(p.s, info.device2, info.point, info.fs)}
    BY <1>3 DEF MountRoot, Then, VolumeNames
  <2>2. info.point \in STRING /\ <<info.point, info.device>> \in Homes
    <3>1. info.point \in Points /\ info.device \notin {"NULL", "g_mtd", "g_mmc"}
      BY <1>3 DEF MayBeRoot, VolumeNames
    <3>2. info.point # "NULL"
      BY <1>3 DEF MayBeRoot
    <3>3. QED
      BY <3>1, <3>2, PointsAreTexts DEF MayBeRoot, HomeOf
  <2>3. Keeps(s, p.s) /\ p.s \in Storage
    <3>1. Mounts(s, p.s, info.point, info.device)
      BY <1>3, <2>1, <2>2, InternalMounts DEF AllMount
    <3>2. QED
      BY <2>2, <3>1, MountsOn, FollowOn
  <2>4. CASE o.s = p.s
    BY <2>3, <2>4
  <2>5. CASE info.device2 # "NULL" /\ \E q \in mount_internal(p.s, info.device2, info.point, info.fs) : o.s = q.s
    <3>1. info.device2 = info.device
      BY <2>5 DEF MayBeRoot
    <3>2. Mounts(p.s, o.s, info.point, info.device)
      BY <1>3, <2>2, <2>3, <2>5, <3>1, InternalMounts DEF AllMount
    <3>3. QED
      BY <2>2, <2>3, <3>2, MountsOn, FollowOn
  <2>6. QED
    BY <2>1, <2>4, <2>5 DEF Out
<1>4. CASE /\ ~(info.device = "g_mtd" /\ info.point # "NULL")
           /\ ~(info.device = "g_mmc" /\ info.point # "NULL")
           /\ ~(info.device \in VolumeNames /\ info.fs # "raw")
  <2>1. o = Out(s, -1)
    BY <1>4 DEF MountRoot
  <2>2. QED
    BY <2>1, SameKeeps DEF Out
<1>5. QED
  BY <1>1, <1>2, <1>3, <1>4

LEMMA EnsureMounted ==
  ASSUME NEW s \in Storage, NEW root
  PROVE  AllKeep(s, ensure_root_path_mounted(s, root))
<1> DEFINE info == get_root_info(s, root)
<1>1. MayBeRoot(info)
  BY RootInfo
<1> SUFFICES ASSUME NEW o \in ensure_root_path_mounted(s, root) PROVE Keeps(s, o.s)
  BY DEF AllKeep
<1>2. CASE info.point = "NULL"
  <2>1. o \in MountRoot(s, info)
    BY <1>2 DEF ensure_root_path_mounted
  <2>2. QED
    BY <1>1, <2>1, RootMounts DEF AllKeep
<1>3. CASE info.point # "NULL"
  <2>1. PICK p \in scan_mounted_volumes(s, info.point) :
          o \in IF p.ret = "mounted" THEN {Out(p.s, 0)} ELSE MountRoot(p.s, info)
    BY <1>3 DEF ensure_root_path_mounted, Then
  <2> HIDE DEF info
  <2>2. Keeps(s, p.s) /\ p.s \in Storage
    BY ScanKeeps, FollowOn
  <2>3. CASE p.ret = "mounted"
    BY <2>1, <2>2, <2>3 DEF Out
  <2>4. CASE p.ret # "mounted"
    BY <1>1, <2>1, <2>2, <2>4, RootMounts, FollowOn DEF AllKeep
  <2>5. QED
    BY <2>3, <2>4
<1>4. QED
  BY <1>2, <1>3

LEMMA EnsureUnmounted ==
  ASSUME NEW s \in Storage, NEW root
  PROVE  AllKeep(s, ensure_root_path_unmounted(s, root))
<1> DEFINE info == get_root_info(s, root)
<1> SUFFICES ASSUME NEW o \in ensure_root_path_unmounted(s, root) PROVE Keeps(s, o.s)
  BY DEF AllKeep
<1>1. CASE info = NoRoot \/ info.point = "NULL"
  <2>1. o.s = s
    BY <1>1 DEF ensure_root_path_unmounted, Out, Then
  <2>2. QED
    BY <2>1, SameKeeps
<1>2. CASE info # NoRoot /\ info.point # "NULL"
  <2>1. PICK p \in scan_mounted_volumes(s, info.point) :
          o \in CASE p.ret = "failed" -> {Out(p.s, -1)}
                  [] p.ret = "unmounted" -> {Out(p.s, 0)}
                  [] p.ret = "mounted" -> umount(p.s, info.point)
    BY <1>2 DEF ensure_root_path_unmounted, Then
  <2> HIDE DEF info
  <2>2. /\ Keeps(s, p.s) /\ p.s \in Storage
        /\ p.ret = "mounted" => IsMountPoint(p.s, info.point)
        /\ p.ret \in {"mounted", "unmounted", "failed"}
    BY ScanKeeps, FollowOn
  <2>3. CASE p.ret \in {"failed", "unmounted"}
    <3>1. o.s = p.s
      BY <2>1, <2>3 DEF Out
    <3>2. QED
      BY <2>2, <3>1
  <2>4. CASE p.ret = "mounted"
    <3>1. o \in umount(p.s, info.point)
      BY <2>1, <2>4
    <3>2. Keeps(p.s, o.s)
      BY <2>2, <2>4, <3>1, UmountKeeps DEF AllKeep
    <3>3. QED
      BY <2>2, <3>2, FollowOn
  <2>5. QED
    BY <2>2, <2>3, <2>4
<1>3. QED
  BY <1>1, <1>2

LEMMA MountingKeeps ==
  ASSUME NEW s \in Storage, NEW root
  PROVE  /\ \A t \in Mounting(s, root) : Keeps(s, t)
         /\ \A t \in Unmounting(s, root) : Keeps(s, t)
BY EnsureMounted, EnsureUnmounted DEF Mounting, Unmounting, AllKeep

-----------------------------------------------------------------------------
(* Programs that erase                                                     *)

\* What erases a volume, or does nothing because there is no such volume, spares the
\* others.
IsAt(volume, home) == volume \in VolumeNames => volume = home
Erases(s, outcomes, volume) ==
  /\ AllFollow(s, outcomes)
  /\ \A home : IsAt(volume, home) => AllSpare(s, outcomes, home)

LEMMA ErasesAll ==
  ASSUME NEW s \in Storage, NEW volume, NEW outcomes,
         \A home : IsAt(volume, home) => AllSpare(s, outcomes, home)
  PROVE  Erases(s, outcomes, volume)
<1>1. IsAt(volume, volume)
  BY DEF IsAt
<1>2. AllSpare(s, outcomes, volume)
  BY <1>1
<1>3. QED
  BY <1>2, SpareOn DEF Erases, AllSpare, AllFollow

LEMMA SameSpares ==
  ASSUME NEW s \in Storage, NEW ret
  PROVE  \A home : AllSpare(s, {Out(s, ret)}, home)
BY SpareOn DEF AllSpare, Out

LEMMA EmptiedFollows ==
  ASSUME NEW s \in Storage, NEW place \in Places
  PROVE  /\ Follows(s, Emptied(s, place))
         /\ \A home : IsAt(place, home) => Spares(s, Emptied(s, place), home)
<1>1. Spares(s, Emptied(s, place), place)
  BY NewFilesAt DEF Emptied
<1>2. Follows(s, Emptied(s, place))
  BY <1>1, SpareOn
<1>3. ASSUME NEW home, IsAt(place, home)
      PROVE  Spares(s, Emptied(s, place), home)
  BY <1>1, <1>3 DEF Spares, IsAt
<1>4. QED
  BY <1>2, <1>3

LEMMA EraseFollows ==
  ASSUME NEW s \in Storage, NEW volume \in Places
  PROVE  AllFollow(s, EraseMtd(s, volume)) /\ Erases(s, EraseMtd(s, volume), volume)
<1>1. ASSUME NEW home, IsAt(volume, home), NEW o \in EraseMtd(s, volume)
      PROVE  Spares(s, o.s, home)
  <2>1. \/ o.s = Emptied(s, volume)
        \/ \E t \in Failing(s) : o.s = t \/ o.s = Emptied(t, volume)
    BY DEF EraseMtd, Out
  <2>2. CASE o.s = Emptied(s, volume)
    BY <1>1, <2>2, EmptiedFollows
  <2>3. ASSUME NEW t \in Failing(s), o.s = t \/ o.s = Emptied(t, volume)
        PROVE  Spares(s, o.s, home)
    <3>1. Spares(s, t, home) /\ t \in Storage
      BY FailingKeeps, SpareOn
    <3>2. Spares(t, Emptied(t, volume), home)
      BY <1>1, <3>1, EmptiedFollows
    <3>3. QED
      BY <2>3, <3>1, <3>2, SpareOn
  <2>4. QED
    BY <2>1, <2>2, <2>3
<1>2. \A home : IsAt(volume, home) => AllSpare(s, EraseMtd(s, volume), home)
  BY <1>1 DEF AllSpare
<1>3. Erases(s, EraseMtd(s, volume), volume)
  BY <1>2, ErasesAll
<1>4. QED
  BY <1>3 DEF Erases

\* What is mounted at a mount point is its volume, if mounts are in place.
LEMMA WhereIsHome ==
  ASSUME NEW s \in Storage, InPlace(s), NEW point, Where(s, point) \in VolumeNames
  PROVE  <<point, Where(s, point)>> \in Homes
<1>1. IsMountPoint(s, point)
  BY DEF Where, VolumeNames
<1>2. PICK i \in MountsAt(s, point) : TopMost(s, point) = s.mounts[i]
  BY <1>1, WhereIsPlace
<1>3. i \in DOMAIN s.mounts /\ s.mounts[i].point = point
  BY <1>2 DEF MountsAt
<1>4. Where(s, point) = s.mounts[i].volume
  BY <1>1, <1>2 DEF Where
<1>5. AtHome(s.mounts[i])
  BY <1>3 DEF InPlace
<1>6. QED
  BY <1>3, <1>4, <1>5 DEF AtHome

LEMMA RemoveFollows ==
  ASSUME NEW s \in Storage, NEW point
  PROVE  /\ AllFollow(s, RemoveAll(s, point))
         /\ \A home : (\A v : <<point, v>> \in Homes => v = home) =>
              AllSpare(s, RemoveAll(s, point), home)
<1> DEFINE place == Where(s, point)
<1>1. Follows(s, Emptied(s, place))
  BY WhereIsPlace, EmptiedFollows
<1>2. AllFollow(s, Try(s, Emptied(s, place), ShellError))
  BY <1>1, TryFollows
<1>3. AllFollow(s, {Out(s, ShellError)})
  BY SameKeeps DEF AllFollow, Out
<1>4. ASSUME NEW home, \A v : <<point, v>> \in Homes => v = home
      PROVE  AllSpare(s, RemoveAll(s, point), home)
  <2>1. InPlace(s) => IsAt(place, home)
    BY <1>4, WhereIsHome DEF IsAt
  <2> HIDE DEF place
  <2>2. place \in Places
    BY WhereIsPlace DEF place
  <2>3. Spares(s, Emptied(s, place), home)
    <3>1. CASE InPlace(s)
      BY <2>1, <2>2, <3>1, EmptiedFollows
    <3>2. CASE ~InPlace(s)
      BY <1>1, <3>2 DEF Spares
    <3>3. QED
      BY <3>1, <3>2
  <2>4. AllSpare(s, Try(s, Emptied(s, place), ShellError), home)
    BY <2>3, TryFollows
  <2>5. QED
    BY <2>4, SameSpares DEF RemoveAll, place
<1>5. AllFollow(s, RemoveAll(s, point))
  BY <1>2, <1>3 DEF RemoveAll
<1>6. QED
  BY <1>4, <1>5

LEMMA NewFileSystem ==
  ASSUME NEW s \in Storage, NEW volume \in VolumeNames, NEW fs \in STRING
  PROVE  Spares(s, [s EXCEPT !.fs[volume] = fs], volume)
<1> DEFINE f == [s.fs EXCEPT ![volume] = fs]
           t == [s EXCEPT !.fs[volume] = fs]
<1>1. f \in [VolumeNames -> STRING]
  BY StorageFields
<1>2. t = [s EXCEPT !.fs = f]
  OBVIOUS
<1>3. \A v \in VolumeNames : v # volume => f[v] = s.fs[v]
  BY StorageFields
<1> HIDE DEF f
<1>4. Follows(s, t)
  BY <1>1, <1>2, NewFileSystems
<1>5. t.fs = f /\ t.files = s.files
  BY <1>2 DEF Storage
<1> HIDE DEF t
<1>6. Spares(s, t, volume)
  BY <1>3, <1>4, <1>5 DEF Spares
<1>7. QED
  BY <1>6 DEF t

LEMMA MkeFollows ==
  ASSUME NEW s \in Storage, NEW volume
  PROVE  Erases(s, mke2fs(s, volume), volume)
<1> SUFFICES ASSUME NEW home, IsAt(volume, home) PROVE AllSpare(s, mke2fs(s, volume), home)
  BY ErasesAll
<1>1. AllSpare(s, {Out(s, ShellError)}, home)
  BY SameSpares
<1>2. CASE volume \notin VolumeNames
  BY <1>1, <1>2 DEF mke2fs
<1>3. CASE volume \in VolumeNames
  <2> DEFINE emptied == Emptied(s, volume)
             made == [emptied EXCEPT !.fs[volume] = "ext3"]
  <2>1. volume \in Places /\ "ext3" \in STRING /\ volume = home
    BY <1>3, VolumesAssumption DEF Places, IsAt
  <2>2. Spares(s, emptied, home) /\ emptied \in Storage
    BY <2>1, EmptiedFollows, FollowOn
  <2>3. mke2fs(s, volume) = Try(s, made, ShellError)
             \cup (IF IsMounted(s, volume) THEN {Out(s, ShellError)} ELSE {})
    BY Zenon, <1>3 DEF mke2fs
  <2> HIDE DEF emptied
  <2>4. Spares(emptied, made, home)
    BY <1>3, <2>1, <2>2, NewFileSystem
  <2> HIDE DEF made
  <2>5. Spares(s, made, home)
    BY <2>2, <2>4, SpareOn
  <2>6. AllSpare(s, Try(s, made, ShellError), home)
    BY <2>5, TryFollows
  <2>7. QED
    BY <1>1, <2>3, <2>6 DEF AllSpare
<1>4. QED
  BY <1>2, <1>3

LEMMA TuneFollows ==
  ASSUME NEW s \in Storage, NEW volume
  PROVE  Erases(s, tune2fs(s, volume), volume)
<1> SUFFICES ASSUME NEW home, IsAt(volume, home) PROVE AllSpare(s, tune2fs(s, volume), home)
  BY ErasesAll
<1>1. AllSpare(s, {Out(s, ShellError)}, home)
  BY SameSpares
<1>2. CASE ~(volume \in VolumeNames /\ s.fs[volume] = "ext3")
  BY <1>1, <1>2 DEF tune2fs
<1>3. CASE volume \in VolumeNames /\ s.fs[volume] = "ext3"
  <2> DEFINE made == [s EXCEPT !.fs[volume] = "ext4"]
  <2>1. volume = home
    BY <1>3 DEF IsAt
  <2>2. Spares(s, made, home)
    BY <1>3, <2>1, NewFileSystem, VolumesAssumption
  <2>3. tune2fs(s, volume) = Try(s, made, ShellError)
    BY Zenon, <1>3 DEF tune2fs
  <2> HIDE DEF made
  <2>4. QED
    BY <2>2, <2>3, TryFollows
<1>4. QED
  BY <1>2, <1>3

LEMMA ReturningFollows ==
  ASSUME NEW s, NEW outcomes
  PROVE  /\ AllFollow(s, outcomes) => AllFollow(s, Returning0(outcomes))
         /\ \A volume : Erases(s, outcomes, volume) => Erases(s, Returning0(outcomes), volume)
         /\ \A home : AllSpare(s, outcomes, home) => AllSpare(s, Returning0(outcomes), home)
<1>1. \A o \in Returning0(outcomes) : \E p \in outcomes : o.s = p.s
  BY DEF Returning0, Out
<1>2. /\ AllFollow(s, outcomes) => AllFollow(s, Returning0(outcomes))
      /\ \A home : AllSpare(s, outcomes, home) => AllSpare(s, Returning0(outcomes), home)
  BY <1>1 DEF AllFollow, AllSpare
<1>3. QED
  BY <1>2 DEF Erases

LEMMA FormatErases ==
  ASSUME NEW s \in Storage, NEW volume
  PROVE  /\ Erases(s, format_ext3(s, volume), volume)
         /\ Erases(s, format_ext4(s, volume), volume)
         /\ Erases(s, upgrade_ext3(s, volume), volume)
         /\ Erases(s, ZeroDevice(s, volume), volume)
<1>1. Erases(s, format_ext3(s, volume), volume) /\ Erases(s, upgrade_ext3(s, volume), volume)
  BY MkeFollows, TuneFollows, ReturningFollows DEF format_ext3, upgrade_ext3
<1>2. ASSUME NEW home, IsAt(volume, home), NEW o \in format_ext4(s, volume)
      PROVE  Spares(s, o.s, home)
  <2>1. PICK p \in mke2fs(s, volume) : \E q \in tune2fs(p.s, volume) : o.s = q.s
    BY DEF format_ext4, Returning0, Then, Out
  <2>2. Spares(s, p.s, home) /\ p.s \in Storage
    BY <1>2, MkeFollows, SpareOn DEF Erases, AllSpare
  <2>3. Spares(p.s, o.s, home)
    BY <1>2, <2>1, <2>2, TuneFollows DEF Erases, AllSpare
  <2>4. QED
    BY <2>2, <2>3, SpareOn
<1>3. Erases(s, format_ext4(s, volume), volume)
  <2>1. \A home : IsAt(volume, home) => AllSpare(s, format_ext4(s, volume), home)
    BY <1>2 DEF AllSpare
  <2>2. QED
    BY <2>1, ErasesAll
<1>4. Erases(s, ZeroDevice(s, volume), volume)
  <2> DEFINE X == IF volume \in VolumeNames
                  THEN Try(s, Emptied(s, volume), ShellError) ELSE {Out(s, ShellError)}
  <2>1. ASSUME NEW home, IsAt(volume, home)
        PROVE  AllSpare(s, X, home)
    <3>1. CASE volume \notin VolumeNames
      BY <3>1, SameSpares
    <3>2. CASE volume \in VolumeNames
      <4>1. Spares(s, Emptied(s, volume), home)
        BY <2>1, <3>2, EmptiedFollows DEF Places
      <4>2. QED
        BY <3>2, <4>1, TryFollows
    <3>3. QED
      BY <3>1, <3>2
  <2>2. ZeroDevice(s, volume) = Returning0(X)
    BY Zenon DEF ZeroDevice
  <2> HIDE DEF X
  <2>3. Erases(s, X, volume)
    BY <2>1, ErasesAll
  <2>4. QED
    BY <2>2, <2>3, ReturningFollows
<1>5. QED
  BY <1>1, <1>3, <1>4

LEMMA FormatFollows ==
  ASSUME NEW s \in Storage, NEW volume
  PROVE  /\ AllFollow(s, format_ext3(s, volume)) /\ AllFollow(s, format_ext4(s, volume))
         /\ AllFollow(s, upgrade_ext3(s, volume)) /\ AllFollow(s, ZeroDevice(s, volume))
BY FormatErases DEF Erases

-----------------------------------------------------------------------------
(* Formatting a root                                                       *)

LEMMA TypeFound ==
  ASSUME NEW s \in Storage, NEW root
  PROVE  AllKeep(s, check_extfs_format(s, root))
<1> DEFINE Types(t) == {t.mounts[i].fs : i \in DOMAIN t.mounts}
           Seen(t) == IF t.mounts # <<>> /\ Last(t.mounts).fs \in {"ext3", "ext4"}
                      THEN {Out(t, fs) : fs \in Types(t) \cup {"other"}}
                      ELSE {Out(t, "NULL")}
<1> SUFFICES ASSUME NEW o \in check_extfs_format(s, root) PROVE Keeps(s, o.s)
  BY DEF AllKeep
<1>1. CASE root \notin {"SYSTEM:", "DATA:", "CACHE:"}
  <2>1. check_extfs_format(s, root) = {Out(s, "NULL")}
    BY Zenon, <1>1 DEF check_extfs_format
  <2>2. QED
    BY <2>1, SameKeeps DEF Out
<1>2. CASE root \in {"SYSTEM:", "DATA:", "CACHE:"}
  <2>1. check_extfs_format(s, root) =
          UNION {Then(ensure_root_path_mounted(t, root), LAMBDA u, ret :
                   IF ret # 0 THEN {Out(u, "NULL")} ELSE Seen(u)) : t \in Mounting(s, root)}
    BY Zenon, <1>2 DEF check_extfs_format
  <2>2. \A t, p : p \in (IF t.ret # 0 THEN {Out(t.s, "NULL")} ELSE Seen(t.s)) => p.s = t.s
    BY DEF Out
  <2> HIDE DEF Seen
  <2>3. PICK t \in Mounting(s, root) :
          \E p \in ensure_root_path_mounted(t, root) :
            o \in IF p.ret # 0 THEN {Out(p.s, "NULL")} ELSE Seen(p.s)
    BY <2>1 DEF Then
  <2>4. PICK p \in ensure_root_path_mounted(t, root) : o.s = p.s
    BY <2>2, <2>3
  <2>5. Keeps(s, t) /\ t \in Storage
    BY MountingKeeps, FollowOn
  <2>6. Keeps(t, p.s)
    BY <2>5, EnsureMounted DEF AllKeep
  <2>7. QED
    BY <2>4, <2>5, <2>6, FollowOn
<1>3. QED
  BY <1>1, <1>2

LEMMA FormatAsErases ==
  ASSUME NEW s \in Storage, NEW volume, NEW fs
  PROVE  Erases(s, FormatAs(s, volume, fs), volume)
<1>1. CASE fs = "ext3"
  BY <1>1, FormatErases DEF FormatAs
<1>2. CASE fs = "ext4"
  BY <1>2, FormatErases DEF FormatAs
<1>3. CASE fs # "ext3" /\ fs # "ext4"
  <2>1. FormatAs(s, volume, fs) = {Out(s, -1)}
    BY <1>3 DEF FormatAs
  <2>2. QED
    BY <2>1, SameSpares, ErasesAll
<1>4. QED
  BY <1>1, <1>2, <1>3

\* The volume of a root, which no operation makes another.
VolumeAt(s, root) == HomeOf(get_root_info(s, root))

LEMMA SameRoot ==
  ASSUME NEW s \in Storage, NEW t, Leads(s, t), NEW root
  PROVE  /\ get_root_info(t, root) = get_root_info(s, root)
         /\ VolumeAt(t, root) = VolumeAt(s, root)
<1>1. t.build = s.build
  BY DEF Leads
<1>2. g_roots(t) = g_roots(s)
  BY <1>1 DEF g_roots, Partition, OnChip
<1>3. get_root_info(t, root) = get_root_info(s, root)
  BY <1>2 DEF get_root_info
<1>4. QED
  BY <1>3 DEF VolumeAt

LEMMA KeepsSpares ==
  ASSUME NEW s \in Storage, NEW t, Keeps(s, t), NEW root
  PROVE  /\ t \in Storage /\ VolumeAt(t, root) = VolumeAt(s, root)
         /\ \A home : Spares(s, t, home)
         /\ \A home, outcomes : AllSpare(t, outcomes, home) => AllSpare(s, outcomes, home)
<1>1. t \in Storage /\ VolumeAt(t, root) = VolumeAt(s, root) /\ \A home : Spares(s, t, home)
  BY FollowOn, SameRoot, SpareOn
<1>2. ASSUME NEW home, NEW outcomes, AllSpare(t, outcomes, home), NEW o \in outcomes
      PROVE  Spares(s, o.s, home)
  BY <1>1, <1>2, SpareOn DEF AllSpare
<1>3. QED
  BY <1>1, <1>2 DEF AllSpare

\* What the callers of check_extfs_format start with.
LEMMA TypedStart ==
  ASSUME NEW s \in Storage, NEW root, NEW p \in check_extfs_format(s, root)
  PROVE  /\ Keeps(s, p.s) /\ p.s \in Storage
         /\ \A u \in Unmounting(p.s, root) : Keeps(s, u) /\ u \in Storage
<1>1. Keeps(s, p.s) /\ p.s \in Storage
  BY TypeFound, FollowOn DEF AllKeep
<1>2. ASSUME NEW u \in Unmounting(p.s, root)
      PROVE  Keeps(s, u) /\ u \in Storage
  <2>1. Keeps(p.s, u)
    BY <1>1, MountingKeeps
  <2>2. QED
    BY <1>1, <2>1, FollowOn
<1>3. QED
  BY <1>1, <1>2

\* A volume that a root is found to be is its own, or none.
LEMMA AtItsDevice ==
  ASSUME NEW s \in Storage, NEW root
  PROVE  /\ IsAt(get_root_info(s, root).device, VolumeAt(s, root))
         /\ \A ret \in {"NULL", VolumeAt(s, root)} : IsAt(ret, VolumeAt(s, root))
<1>1. "g_mtd" \notin VolumeNames /\ "g_mmc" \notin VolumeNames /\ "NULL" \notin VolumeNames
  BY DEF VolumeNames
<1>2. QED
  BY <1>1 DEF IsAt, VolumeAt, HomeOf

LEMMA PartitionKeeps ==
  ASSUME NEW s \in Storage, NEW root
  PROVE  /\ AllKeep(s, get_root_mmc_partition(s, root))
         /\ \A o \in get_root_mmc_partition(s, root) : o.ret \in {"NULL", VolumeAt(s, root)}
         /\ AllKeep(s, get_root_mtd_partition(s, root))
         /\ \A o \in get_root_mtd_partition(s, root) : o.ret \in VolumeNames \cup {"NULL"}
         /\ \A o \in get_root_mtd_partition(s, root) : o.ret \in {"NULL", VolumeAt(s, root)}
<1> DEFINE info == get_root_info(s, root)
           none == {Out(s, "NULL")}
<1>1. AllKeep(s, none) /\ \A o \in none : o.ret = "NULL"
  BY SameKeeps DEF AllKeep, Out
<1>2. \/ get_root_mmc_partition(s, root) = none
      \/ /\ get_root_mmc_partition(s, root) = mmc_find_partition(s, info.partition)
         /\ info.partition = VolumeAt(s, root) /\ info.device = "g_mmc"
  BY DEF get_root_mmc_partition, VolumeAt, HomeOf
<1>3. \/ get_root_mtd_partition(s, root) = none
      \/ /\ get_root_mtd_partition(s, root) = mtd_find_partition(s, info.partition)
         /\ info.partition = VolumeAt(s, root)
  BY DEF get_root_mtd_partition, VolumeAt, HomeOf
<1>4. info.device = "g_mmc" => info.partition \in ChipNames
  BY RootInfo DEF MayBeRoot
<1> HIDE DEF info, none
<1>5. /\ AllKeep(s, get_root_mmc_partition(s, root))
      /\ \A o \in get_root_mmc_partition(s, root) : o.ret \in {"NULL", VolumeAt(s, root)}
  BY <1>1, <1>2, <1>4, MmcFound DEF AllKeep
<1>6. /\ AllKeep(s, get_root_mtd_partition(s, root))
      /\ \A o \in get_root_mtd_partition(s, root) :
           o.ret \in VolumeNames \cup {"NULL"} /\ o.ret \in {"NULL", VolumeAt(s, root)}
  BY <1>1, <1>3, MtdFound DEF AllKeep
<1>7. QED
  BY <1>5, <1>6

\* What the operation on the volume leaves, behind operations that keep it.
LEMMA ErasedBehind ==
  ASSUME NEW s \in Storage, NEW u, Keeps(s, u), NEW outcomes, NEW volume, NEW home,
         Erases(u, outcomes, volume), IsAt(volume, home)
  PROVE  AllSpare(s, outcomes, home)
<1>1. AllSpare(u, outcomes, home)
  BY DEF Erases
<1>2. QED
  BY <1>1, KeepsSpares

LEMMA KeptSpares ==
  ASSUME NEW s \in Storage, NEW t, Keeps(s, t), NEW ret
  PROVE  \A home : Spares(s, Out(t, ret).s, home)
BY SpareOn DEF Out

LEMMA ExtFormatted ==
  ASSUME NEW s \in Storage, NEW root
  PROVE  /\ AllSpare(s, format_ext_device(s, root), VolumeAt(s, root))
         /\ AllSpare(s, call_format_ext(s, root), VolumeAt(s, root))
<1> DEFINE home == VolumeAt(s, root)
<1>1. ASSUME NEW o \in format_ext_device(s, root)
      PROVE  Spares(s, o.s, home)
  <2>1. PICK p \in check_extfs_format(s, root) :
          o \in IF p.ret = "NULL" THEN {Out(p.s, -1)}
                ELSE UNION {FormatAs(u, get_root_info(u, root).device, p.ret) :
                              u \in Unmounting(p.s, root)}
    BY DEF format_ext_device, WithType, Then
  <2>2. CASE o = Out(p.s, -1)
    BY <2>2, TypedStart, KeptSpares
  <2>3. ASSUME NEW u \in Unmounting(p.s, root),
               o \in FormatAs(u, get_root_info(u, root).device, p.ret)
        PROVE  Spares(s, o.s, home)
    <3>1. Keeps(s, u) /\ u \in Storage
      BY TypedStart
    <3>2. IsAt(get_root_info(u, root).device, home)
      BY <3>1, KeepsSpares, AtItsDevice
    <3>3. Erases(u, FormatAs(u, get_root_info(u, root).device, p.ret),
                 get_root_info(u, root).device)
      BY <3>1, FormatAsErases
    <3> HIDE DEF home
    <3>4. AllSpare(s, FormatAs(u, get_root_info(u, root).device, p.ret), home)
      BY <3>1, <3>2, <3>3, ErasedBehind
    <3>5. QED
      BY <2>3, <3>4 DEF AllSpare
  <2>4. QED
    BY <2>1, <2>2, <2>3
<1>2. ASSUME NEW o \in call_format_ext(s, root)
      PROVE  Spares(s, o.s, home)
  <2>1. PICK q \in get_root_mmc_partition(s, root) :
          o \in IF q.ret = "NULL" THEN {Out(q.s, -1)}
                ELSE WithType(q.s, root, LAMBDA u, fs : FormatAs(u, q.ret, fs))
    BY DEF call_format_ext, Then
  <2>2. Keeps(s, q.s) /\ q.s \in Storage /\ IsAt(q.ret, home)
    BY PartitionKeeps, FollowOn, AtItsDevice DEF AllKeep
  <2> HIDE DEF home
  <2>3. CASE q.ret = "NULL"
    BY <2>1, <2>2, <2>3, KeptSpares
  <2>4. CASE q.ret # "NULL"
    <3>1. PICK p \in check_extfs_format(q.s, root) :
            o \in IF p.ret = "NULL" THEN {Out(p.s, -1)}
                  ELSE UNION {FormatAs(u, q.ret, p.ret) : u \in Unmounting(p.s, root)}
      BY <2>1, <2>4 DEF WithType, Then
    <3>2. CASE o = Out(p.s, -1)
      <4>1. Keeps(s, p.s)
        BY <2>2, TypedStart, FollowOn
      <4>2. QED
        BY <3>2, <4>1, KeptSpares
    <3>3. ASSUME NEW u \in Unmounting(p.s, root), o \in FormatAs(u, q.ret, p.ret)
          PROVE  Spares(s, o.s, home)
      <4>1. Keeps(q.s, u) /\ u \in Storage
        BY <2>2, TypedStart
      <4>2. Keeps(s, u)
        BY <2>2, <4>1, FollowOn
      <4>3. Erases(u, FormatAs(u, q.ret, p.ret), q.ret)
        BY <4>1, FormatAsErases
      <4>4. AllSpare(s, FormatAs(u, q.ret, p.ret), home)
        BY <2>2, <4>2, <4>3, ErasedBehind
      <4>5. QED
        BY <3>3, <4>4 DEF AllSpare
    <3>4. QED
      BY <3>1, <3>2, <3>3
  <2>5. QED
    BY <2>3, <2>4
<1>3. QED
  BY <1>1, <1>2 DEF AllSpare

\* A partition, and what follows with it.
LEMMA OnPartitionStarts ==
  ASSUME NEW s \in Storage, NEW root, NEW q \in get_root_mmc_partition(s, root)
  PROVE  /\ Keeps(s, q.s) /\ q.s \in Storage
         /\ IsAt(IF q.ret # "NULL" THEN q.ret ELSE get_root_info(q.s, root).device,
                 VolumeAt(s, root))
<1>1. Keeps(s, q.s) /\ q.s \in Storage /\ q.ret \in {"NULL", VolumeAt(s, root)}
  BY PartitionKeeps, FollowOn DEF AllKeep
<1>2. get_root_info(q.s, root) = get_root_info(s, root)
  BY <1>1, FollowOn, SameRoot
<1>3. QED
  BY <1>1, <1>2, AtItsDevice

LEMMA Forced ==
  ASSUME NEW s \in Storage, NEW root, NEW fs
  PROVE  /\ AllSpare(s, force_format(s, root, fs), VolumeAt(s, root))
         /\ AllSpare(s, upgrade_ext3_to_ext4(s, root), VolumeAt(s, root))
<1> DEFINE home == VolumeAt(s, root)
           On(q) == IF q.ret # "NULL" THEN q.ret ELSE get_root_info(q.s, root).device
<1>1. ASSUME NEW p \in check_extfs_format(s, root), NEW u \in Unmounting(p.s, root),
             NEW q \in get_root_mmc_partition(u, root)
      PROVE  Keeps(s, q.s) /\ q.s \in Storage /\ IsAt(On(q), home)
  <2>1. Keeps(s, u) /\ u \in Storage
    BY TypedStart
  <2>2. VolumeAt(u, root) = home
    BY <2>1, KeepsSpares
  <2>3. Keeps(u, q.s) /\ q.s \in Storage /\ IsAt(On(q), home)
    BY <2>1, <2>2, OnPartitionStarts
  <2>4. QED
    BY <2>1, <2>3, FollowOn
<1>2. ASSUME NEW o \in force_format(s, root, fs)
      PROVE  Spares(s, o.s, home)
  <2>1. PICK p \in check_extfs_format(s, root) :
          o \in IF p.ret = "NULL" THEN {Out(p.s, -1)}
                ELSE UNION {OnPartition(u, root, LAMBDA w, volume : FormatAs(w, volume, fs)) :
                              u \in Unmounting(p.s, root)}
    BY DEF force_format, WithType, Then
  <2>2. CASE o = Out(p.s, -1)
    BY <2>2, TypedStart, KeptSpares
  <2>3. ASSUME NEW u \in Unmounting(p.s, root),
               o \in OnPartition(u, root, LAMBDA w, volume : FormatAs(w, volume, fs))
        PROVE  Spares(s, o.s, home)
    <3>1. PICK q \in get_root_mmc_partition(u, root) : o \in FormatAs(q.s, On(q), fs)
      BY <2>3 DEF OnPartition, Then
    <3>2. Keeps(s, q.s) /\ q.s \in Storage /\ IsAt(On(q), home)
      BY <1>1
    <3> HIDE DEF home, On
    <3>3. Erases(q.s, FormatAs(q.s, On(q), fs), On(q))
      BY <3>2, FormatAsErases
    <3>4. AllSpare(s, FormatAs(q.s, On(q), fs), home)
      BY <3>2, <3>3, ErasedBehind
    <3>5. QED
      BY <3>1, <3>4 DEF AllSpare
  <2>4. QED
    BY <2>1, <2>2, <2>3
<1>3. ASSUME NEW o \in upgrade_ext3_to_ext4(s, root)
      PROVE  Spares(s, o.s, home)
  <2>1. PICK p \in check_extfs_format(s, root) :
          o \in IF p.ret = "NULL" THEN {Out(p.s, -1)}
                ELSE UNION {OnPartition(u, root, LAMBDA w, volume :
                              IF p.ret = "ext3" THEN upgrade_ext3(w, volume) ELSE {Out(w, -1)}) :
                              u \in Unmounting(p.s, root)}
    BY DEF upgrade_ext3_to_ext4, WithType, Then
  <2>2. CASE o = Out(p.s, -1)
    BY <2>2, TypedStart, KeptSpares
  <2>3. ASSUME NEW u \in Unmounting(p.s, root),
               o \in OnPartition(u, root, LAMBDA w, volume :
                       IF p.ret = "ext3" THEN upgrade_ext3(w, volume) ELSE {Out(w, -1)})
        PROVE  Spares(s, o.s, home)
    <3>1. PICK q \in get_root_mmc_partition(u, root) :
            o \in IF p.ret = "ext3" THEN upgrade_ext3(q.s, On(q)) ELSE {Out(q.s, -1)}
      BY <2>3 DEF OnPartition, Then
    <3>2. Keeps(s, q.s) /\ q.s \in Storage /\ IsAt(On(q), home)
      BY <1>1
    <3> HIDE DEF home, On
    <3>3. Erases(q.s, upgrade_ext3(q.s, On(q)), On(q))
      BY <3>2, FormatErases
    <3>4. AllSpare(s, upgrade_ext3(q.s, On(q)), home)
      BY <3>2, <3>3, ErasedBehind
    <3>5. Spares(s, Out(q.s, -1).s, home)
      BY <3>2, KeptSpares
    <3>6. QED
      BY <3>1, <3>4, <3>5 DEF AllSpare
  <2>4. QED
    BY <2>1, <2>2, <2>3
<1>4. QED
  BY <1>2, <1>3 DEF AllSpare

LEMMA RawFormatted ==
  ASSUME NEW s \in Storage, NEW root
  PROVE  AllSpare(s, format_raw_partition(s, root), VolumeAt(s, root))
<1> DEFINE home == VolumeAt(s, root)
           On(q) == IF q.ret # "NULL" THEN q.ret ELSE get_root_info(q.s, root).device
<1> SUFFICES ASSUME NEW o \in format_raw_partition(s, root) PROVE Spares(s, o.s, home)
  BY DEF AllSpare
<1>1. PICK q \in get_root_mmc_partition(s, root) : o \in ZeroDevice(q.s, On(q))
  BY DEF format_raw_partition, OnPartition, Then
<1>2. Keeps(s, q.s) /\ q.s \in Storage /\ IsAt(On(q), home)
  BY OnPartitionStarts
<1> HIDE DEF home, On
<1>3. Erases(q.s, ZeroDevice(q.s, On(q)), On(q))
  BY <1>2, FormatErases
<1>4. AllSpare(s, ZeroDevice(q.s, On(q)), home)
  BY <1>2, <1>3, ErasedBehind
<1>5. QED
  BY <1>1, <1>4 DEF AllSpare

LEMMA CleanedFollows ==
  ASSUME NEW s \in Storage, NEW root
  PROVE  AllSpare(s, format_non_mtd_device(s, root), VolumeAt(s, root))
<1> DEFINE home == VolumeAt(s, root)
           point == translate_root_path(s, root)
           Clean(t, ret) ==
             IF ret # 0 THEN {Out(t, 0)}
             ELSE {Out(u, 0) : u \in UNION {Unmounting(o.s, root) : o \in RemoveAll(t, point)}}
<1> SUFFICES ASSUME NEW o \in format_non_mtd_device(s, root) PROVE Spares(s, o.s, home)
  BY DEF AllSpare
<1>1. CASE root = "SDEXT:" /\ s.fs["sd-ext"] = "none"
  <2>1. o = Out(s, 0)
    BY <1>1 DEF format_non_mtd_device
  <2>2. QED
    BY <2>1, SameKeeps, KeptSpares
<1>2. CASE ~(root = "SDEXT:" /\ s.fs["sd-ext"] = "none")
  <2>1. PICK p \in ensure_root_path_mounted(s, root) : o \in Clean(p.s, p.ret)
    BY <1>2 DEF format_non_mtd_device, Then
  <2>2. Keeps(s, p.s) /\ p.s \in Storage
    BY EnsureMounted, FollowOn DEF AllKeep
  <2>3. \A v : <<point, v>> \in Homes => v = home
    BY RootInfo DEF MayBeRoot, VolumeAt, translate_root_path
  <2> HIDE DEF point, home
  <2>4. Spares(s, p.s, home)
    BY <2>2, SpareOn
  <2>5. CASE o.s = p.s
    BY <2>4, <2>5
  <2>6. CASE \E q \in RemoveAll(p.s, point) : \E u \in Unmounting(q.s, root) : o.s = u
    <3>1. PICK q \in RemoveAll(p.s, point) : o.s \in Unmounting(q.s, root)
      BY <2>6
    <3>2. AllSpare(p.s, RemoveAll(p.s, point), home)
      BY <2>2, <2>3, RemoveFollows
    <3>3. Spares(p.s, q.s, home) /\ q.s \in Storage
      BY <2>2, <3>2, SpareOn DEF AllSpare
    <3>4. Keeps(q.s, o.s)
      BY <3>1, <3>3, MountingKeeps
    <3>5. Spares(q.s, o.s, home)
      BY <3>3, <3>4, SpareOn
    <3>6. Spares(s, q.s, home)
      BY <2>2, <2>4, <3>3, SpareOn
    <3>7. QED
      BY <3>3, <3>5, <3>6, SpareOn
  <2>7. QED
    BY <2>1, <2>5, <2>6 DEF Out
<1>3. QED
  BY <1>1, <1>2

LEMMA UnmountedFormatted ==
  ASSUME NEW s \in Storage, NEW root
  PROVE  AllSpare(s, FormatUnmounted(s, root, get_root_info(s, root)), VolumeAt(s, root))
<1> DEFINE info == get_root_info(s, root)
           home == VolumeAt(s, root)
<1>1. info.device \in {"g_mtd", "g_mmc"} => info.partition = home /\ info.partition \in ChipNames
  BY RootInfo DEF MayBeRoot, VolumeAt, HomeOf
<1>2. \A ret \in {"NULL", home} : IsAt(ret, home)
  BY AtItsDevice
<1>3. AllSpare(s, format_ext_device(s, root), home) /\ AllSpare(s, format_raw_partition(s, root), home)
        /\ AllSpare(s, format_non_mtd_device(s, root), home)
  BY ExtFormatted, RawFormatted, CleanedFollows
<1> SUFFICES ASSUME NEW o \in FormatUnmounted(s, root, info) PROVE Spares(s, o.s, home)
  BY DEF AllSpare
<1>4. CASE s.build = "nand" /\ info.device = "g_mtd"
  <2>1. PICK p \in mtd_find_partition(s, info.partition) :
          o \in IF p.ret = "NULL" THEN {Out(p.s, -1)} ELSE EraseMtd(p.s, p.ret)
    BY <1>4 DEF FormatUnmounted, Then
  <2>2. /\ Keeps(s, p.s) /\ p.s \in Storage /\ p.ret \in VolumeNames \cup {"NULL"}
        /\ p.ret \in {info.partition, "NULL"}
    BY MtdFound, FollowOn
  <2>3. IsAt(p.ret, home)
    BY <1>1, <1>2, <1>4, <2>2
  <2> HIDE DEF info, home
  <2>4. CASE p.ret = "NULL"
    BY <2>1, <2>2, <2>4, KeptSpares
  <2>5. CASE p.ret # "NULL"
    <3>1. p.ret \in Places /\ o \in EraseMtd(p.s, p.ret)
      BY <2>1, <2>2, <2>5 DEF Places
    <3>2. Erases(p.s, EraseMtd(p.s, p.ret), p.ret)
      BY <2>2, <3>1, EraseFollows
    <3>3. AllSpare(s, EraseMtd(p.s, p.ret), home)
      BY <2>2, <2>3, <3>2, ErasedBehind
    <3>4. QED
      BY <3>1, <3>3 DEF AllSpare
  <2>6. QED
    BY <2>4, <2>5
<1>5. CASE s.build # "nand" /\ s.full /\ info.device = "g_mmc"
  <2>1. PICK p \in mmc_find_partition(s, info.partition) :
          o \in IF p.ret = "NULL" THEN {Out(p.s, -1)}
                ELSE IF info.fs = "auto" THEN Returning0(call_format_ext(p.s, root))
                ELSE format_raw_partition(p.s, root)
    BY <1>5 DEF FormatUnmounted, Then
  <2>2. Keeps(s, p.s) /\ p.s \in Storage
    BY MmcFound, FollowOn
  <2>3. VolumeAt(p.s, root) = home
    BY <2>2, KeepsSpares
  <2> HIDE DEF info, home
  <2>4. AllSpare(p.s, Returning0(call_format_ext(p.s, root)), home)
    BY <2>2, <2>3, ExtFormatted, ReturningFollows
  <2>5. AllSpare(p.s, format_raw_partition(p.s, root), home)
    BY <2>2, <2>3, RawFormatted
  <2>6. /\ AllSpare(s, Returning0(call_format_ext(p.s, root)), home)
        /\ AllSpare(s, format_raw_partition(p.s, root), home)
    BY <2>2, <2>4, <2>5, KeepsSpares
  <2>7. Spares(s, Out(p.s, -1).s, home)
    BY <2>2, KeptSpares
  <2>8. QED
    BY <2>1, <2>6, <2>7 DEF AllSpare
<1>6. CASE /\ ~(s.build = "nand" /\ info.device = "g_mtd")
           /\ ~(s.build # "nand" /\ s.full /\ info.device = "g_mmc")
  <2>1. o \in format_ext_device(s, root) \cup format_raw_partition(s, root)
                     \cup format_non_mtd_device(s, root)
    BY <1>6 DEF FormatUnmounted
  <2>2. QED
    BY <1>3, <2>1 DEF AllSpare
<1>7. QED
  BY <1>4, <1>5, <1>6

LEMMA RootFormatted ==
  ASSUME NEW s \in Storage, NEW root
  PROVE  AllSpare(s, format_root_device(s, root), VolumeAt(s, root))
<1> DEFINE info == get_root_info(s, root)
           home == VolumeAt(s, root)
           unmounted == IF info.point = "NULL" \/ info.device \notin {"g_mtd", "g_mmc"}
                        THEN {Out(s, 0)} ELSE ensure_root_path_unmounted(s, root)
<1> SUFFICES ASSUME NEW o \in format_root_device(s, root) PROVE Spares(s, o.s, home)
  BY DEF AllSpare
<1>1. CASE info.device = "NULL"
  <2>1. o = Out(s, -1)
    BY <1>1 DEF format_root_device
  <2>2. QED
    BY <2>1, SameKeeps, KeptSpares
<1>2. CASE info.device # "NULL"
  <2>1. PICK p \in unmounted :
          o \in IF p.ret < 0 THEN {Out(p.s, p.ret)} ELSE FormatUnmounted(p.s, root, info)
    BY <1>2 DEF format_root_device, Then
  <2>2. Keeps(s, p.s) /\ p.s \in Storage
    <3>1. p = Out(s, 0) \/ p \in ensure_root_path_unmounted(s, root)
      BY <2>1
    <3> HIDE DEF unmounted, info
    <3>2. QED
      BY <3>1, EnsureUnmounted, SameKeeps, FollowOn DEF AllKeep, Out
  <2>3. get_root_info(p.s, root) = info /\ VolumeAt(p.s, root) = home
    BY <2>2, SameRoot, FollowOn
  <2> HIDE DEF unmounted, info, home
  <2>4. CASE o = Out(p.s, p.ret)
    BY <2>2, <2>4, KeptSpares
  <2>5. CASE o \in FormatUnmounted(p.s, root, info)
    <3>1. AllSpare(p.s, FormatUnmounted(p.s, root, info), home)
      BY <2>2, <2>3, UnmountedFormatted
    <3>2. AllSpare(s, FormatUnmounted(p.s, root, info), home)
      BY <2>2, <3>1, KeepsSpares
    <3>3. QED
      BY <2>5, <3>2 DEF AllSpare
  <2>6. QED
    BY <2>1, <2>4, <2>5
<1>3. QED
  BY <1>1, <1>2

LEMMA SparesFollow ==
  ASSUME NEW s \in Storage, NEW outcomes, NEW home, AllSpare(s, outcomes, home)
  PROVE  AllFollow(s, outcomes)
BY SpareOn DEF AllSpare, AllFollow


-----------------------------------------------------------------------------
(* Reading and extracting                                                  *)

\* The storages that an operation on s may leave.
After(s) == {t \in Storage : Follows(s, t)}

LEMMA AfterAll ==
  ASSUME NEW s \in Storage, NEW t \in After(s)
  PROVE  /\ t \in Storage /\ Follows(s, t) /\ s \in After(s)
         /\ \A u : Follows(t, u) => u \in After(s)
BY SameKeeps, FollowOn DEF After

LEMMA ReadKeeps ==
  ASSUME NEW s \in Storage, NEW entry
  PROVE  /\ AllKeep(s, mzReadZipEntry(s, entry))
         /\ \A o \in mzReadZipEntry(s, entry) : o.ret \in BOOLEAN
<1>1. ASSUME NEW o \in mzReadZipEntry(s, entry)
      PROVE  Keeps(s, o.s) /\ o.ret \in BOOLEAN
  <2>1. \/ o = Out(s, TRUE) \/ o = Out(s, FALSE)
        \/ \E t \in Failing(s) : o = Out(t, FALSE)
    BY Zenon DEF mzReadZipEntry
  <2>2. (o.s = s \/ o.s \in Failing(s)) /\ (o.ret = TRUE \/ o.ret = FALSE)
    BY <2>1 DEF Out
  <2>3. QED
    BY <2>2, SameKeeps, FailingKeeps
<1>2. QED
  BY <1>1 DEF AllKeep

\* What one turn of the extraction, or all of them, may come to.
Extracted(s) == {Out(t, Step(goOn, said)) : t \in After(s), goOn \in BOOLEAN, said \in BOOLEAN}

LEMMA ExtractedOne ==
  ASSUME NEW s, NEW t \in After(s), NEW goOn \in BOOLEAN, NEW said \in BOOLEAN
  PROVE  Out(t, Step(goOn, said)) \in Extracted(s)
BY DEF Extracted

LEMMA StoredFollows ==
  ASSUME NEW s \in Storage, NEW point, NEW entry, entry.name \in STRING
  PROVE  Follows(s, Stored(s, point, entry)) /\ Follows(s, Truncated(s, point, entry))
<1> DEFINE place == Where(s, point)
           more == s.files[place] \cup {entry.name}
           less == s.files[place] \ {entry.name}
<1>1. place \in Places /\ more \in SUBSET STRING /\ less \in SUBSET STRING
  BY WhereIsPlace, StorageFields
<1>2. /\ Stored(s, point, entry) = [s EXCEPT !.files[place] = more]
      /\ Truncated(s, point, entry) = [s EXCEPT !.files[place] = less]
  BY DEF Stored, Truncated
<1> HIDE DEF place, more, less
<1>3. QED
  BY <1>1, <1>2, NewFilesAt

LEMMA EntryFollows ==
  ASSUME NEW s \in Storage, NEW entry, entry.name \in STRING, NEW point, NEW filesOnly
  PROVE  ExtractEntry(s, entry, point, filesOnly) \subseteq Extracted(s)
<1> DEFINE any == {Step(goOn, said) : goOn \in BOOLEAN, said \in BOOLEAN}
<1>1. /\ s \in After(s)
      /\ \A t \in Failing(s) : t \in After(s)
      /\ Stored(s, point, entry) \in After(s)
      /\ Truncated(s, point, entry) \in After(s)
      /\ \A t \in Failing(s) : /\ Stored(t, point, entry) \in After(s)
                               /\ Truncated(t, point, entry) \in After(s)
  <2>1. \A t \in Failing(s) : Follows(s, t) /\ t \in Storage
    BY FailingKeeps, FollowOn
  <2>2. \A t \in Failing(s) : /\ Follows(s, Stored(t, point, entry))
                              /\ Follows(s, Truncated(t, point, entry))
    BY <2>1, StoredFollows, FollowOn
  <2>3. QED
    BY <2>1, <2>2, SameKeeps, StoredFollows, FollowOn DEF After
<1>2. \A o \in ExtractEntry(s, entry, point, filesOnly) :
        \E t : /\ \/ t = s \/ t \in Failing(s)
                  \/ t = Stored(s, point, entry) \/ t = Truncated(s, point, entry)
                  \/ \E u \in Failing(s) : \/ t = Stored(u, point, entry)
                                           \/ t = Truncated(u, point, entry)
               /\ \E goOn \in BOOLEAN, said \in BOOLEAN : o = Out(t, Step(goOn, said))
  BY DEF ExtractEntry
<1>3. QED
  BY <1>1, <1>2 DEF Extracted

\* What lies under a directory are entries of the package.
LEMMA MatchingAreEntries ==
  ASSUME NEW cd \in Seq(EntryType), NEW zip, ArchiveOf(zip, cd), NEW dir
  PROVE  Matching(zip, dir) \in Seq(EntryType)
<1> DEFINE es == zip.entries
           hits == {i \in DOMAIN es : es[i].name \in Under(dir)}
           first == CHOOSE i \in hits : \A j \in hits : i <= j
           beyond == {i \in DOMAIN es : i >= first /\ es[i].name \notin Under(dir)}
           least == CHOOSE i \in beyond : \A j \in beyond : i <= j
           final == IF beyond = {} THEN Len(es) ELSE least - 1
<1>1. es \in Seq(EntryType) /\ DOMAIN es = 1..Len(es) /\ Len(es) \in Nat
  BY DEF ArchiveOf, Sorted
<1>2. Matching(zip, dir) = IF hits = {} THEN <<>> ELSE SubSeq(es, first, final)
  BY DEF Matching
<1>3. hits \in SUBSET (1..Len(es)) /\ hits \in SUBSET Nat
  BY <1>1
<1> HIDE DEF hits
<1>4. hits # {} => first \in hits
  BY <1>3, LeastNumber
<1> HIDE DEF first
<1>5. beyond \in SUBSET (1..Len(es)) /\ beyond \in SUBSET Nat
  BY <1>1
<1> HIDE DEF beyond
<1>6. beyond # {} => least \in beyond
  BY <1>5, LeastNumber
<1> HIDE DEF least
<1> HIDE DEF es
<1>7. final \in 0..Len(es)
  <2>1. beyond # {} => least \in 1..Len(es)
    BY <1>5, <1>6
  <2>2. QED
    BY <1>1, <2>1
<1> HIDE DEF final
<1>8. ASSUME hits # {}
      PROVE  SubSeq(es, first, final) \in Seq(EntryType)
  <2>1. first \in 1..Len(es)
    BY <1>3, <1>4, <1>8
  <2>2. final \in Nat /\ final <= Len(es)
    BY <1>1, <1>7
  <2>3. QED
    BY <1>1, <2>1, <2>2
<1>9. QED
  BY <1>2, <1>8

LEMMA ExtractingFollows ==
  ASSUME NEW s \in Storage, NEW cd \in Seq(EntryType), NEW zip, ArchiveOf(zip, cd),
         NEW dir, NEW point, NEW filesOnly
  PROVE  AllFollow(s, mzExtractRecursive(s, zip, dir, point, filesOnly))
<1> DEFINE under == Matching(zip, dir)
           n == Len(under)
           U == SUBSET Extracted(s)
           V == [k \in 0..n |-> U]
           start == {Out(s, Step(TRUE, TRUE))}
           Turn(x, k) == UNION {IF o.ret.goOn THEN ExtractEntry(o.s, under[k], point, filesOnly)
                                ELSE {o} : o \in x}
           Turned(f) == [k \in 0..n |-> IF k = 0 THEN start ELSE Turn(f[k - 1], k)]
           after == CHOOSE f : f = Turned(f)
           turn == [k \in 1..n |-> [x \in U |-> Turn(x, k)]]
<1>1. n \in Nat /\ start \in U
  <2>1. n \in Nat
    BY MatchingAreEntries
  <2>2. s \in After(s)
    BY SameKeeps DEF After
  <2>3. TRUE \in BOOLEAN
    OBVIOUS
  <2>4. Out(s, Step(TRUE, TRUE)) \in Extracted(s)
    BY <2>2, <2>3, ExtractedOne, Zenon
  <2>5. QED
    BY <2>1, <2>4
<1>2. \A k \in 1..n : \A x \in U : Turn(x, k) \in U
  <2> TAKE k \in 1..n
  <2> TAKE x \in U
  <2>1. under[k].name \in STRING
    <3>1. under[k] \in EntryType
      BY MatchingAreEntries
    <3>2. QED
      BY <3>1, NamesAssumption DEF EntryType
  <2> HIDE DEF under, n
  <2>2. ASSUME NEW o \in x
        PROVE  (IF o.ret.goOn THEN ExtractEntry(o.s, under[k], point, filesOnly) ELSE {o})
                 \subseteq Extracted(s)
    <3>1. o \in Extracted(s) /\ o.s \in After(s)
      BY DEF Extracted, Out
    <3>2. ExtractEntry(o.s, under[k], point, filesOnly) \subseteq Extracted(o.s)
      BY <2>1, <3>1, AfterAll, EntryFollows
    <3>3. \A t \in After(o.s) : t \in After(s)
      BY <3>1, AfterAll DEF After
    <3>4. Extracted(o.s) \subseteq Extracted(s)
      BY <3>3 DEF Extracted
    <3>5. QED
      BY <3>1, <3>2, <3>4
  <2>3. QED
    BY <2>2, Zenon
<1> HIDE DEF start
<1>3. \E f : f = Turned(f)
  <2>1. \A k \in 1..n : \A x \in U : turn[k][x] = Turn(x, k)
    <3> HIDE DEF Turn, U
    <3>1. QED
      OBVIOUS
  <2> HIDE DEF Turn, turn, U
  <2>2. \A k \in 1..n : \A x \in V[k - 1] : turn[k][x] \in V[k]
    <3>1. \A k \in 1..n : V[k - 1] = U /\ V[k] = U
      BY <1>1
    <3>2. QED
      BY <2>1, <1>2, <3>1
  <2>3. 0 \in 0..n /\ start \in V[0]
    BY <1>1
  <2> HIDE DEF V
  <2>4. PICK f : Values(f, n, start, turn) /\ \A k \in 0..n : f[k] \in V[k]
    BY <1>1, <2>2, <2>3, LoopExists
  <2>5. \A k \in 0..n : k = 0 \/ (turn[k][f[k - 1]] = Turn(f[k - 1], k))
    <3>1. \A k \in 1..n : f[k - 1] \in U
      BY <1>1, <2>4 DEF V
    <3>2. QED
      BY <1>1, <2>1, <3>1
  <2>6. f = Turned(f)
    BY <2>4, <2>5 DEF Values
  <2>7. QED
    BY <2>6, Zenon
<1>4. after = Turned(after)
  <2> HIDE DEF Turned
  <2>1. QED
    BY <1>3, Zenon
<1>5. after[0] = start /\ \A k \in 1..n : after[k] = Turn(after[k - 1], k)
  <2> HIDE DEF after, Turn, U
  <2>1. \A k \in 0..n : after[k] = IF k = 0 THEN start ELSE Turn(after[k - 1], k)
    BY <1>4, Zenon
  <2>2. 0 \in 0..n /\ \A k \in 1..n : k \in 0..n /\ k # 0
    BY <1>1
  <2>3. QED
    BY <2>1, <2>2
<1>6. after[n] \in U
  <2> HIDE DEF after, Turn, U, turn
  <2>1. \A k \in 0..n : V[k] = U
    OBVIOUS
  <2> HIDE DEF V
  <2>2. after[0] \in V[0] /\ n \in 0..n
    BY <1>1, <1>5, <2>1
  <2>3. \A k \in 1..n : after[k - 1] \in V[k - 1] => after[k] \in V[k]
    <3>1. \A k \in 1..n : k - 1 \in 0..n /\ k \in 0..n
      BY <1>1
    <3>2. QED
      BY <1>2, <1>5, <2>1, <3>1
  <2>4. QED
    BY <1>1, <2>1, <2>2, <2>3, LoopStays
<1>7. mzExtractRecursive(s, zip, dir, point, filesOnly)
        = {Out(o.s, [ok |-> o.ret.said, all |-> o.ret.goOn]) : o \in after[n]}
  BY Zenon DEF mzExtractRecursive, Loop, start
<1> HIDE DEF after, U, n
<1>8. ASSUME NEW o \in mzExtractRecursive(s, zip, dir, point, filesOnly)
      PROVE  Follows(s, o.s)
  <2>1. PICK p \in after[n] : o.s = p.s
    BY <1>7 DEF Out
  <2>2. p \in Extracted(s)
    BY <1>6, <2>1 DEF U
  <2>3. QED
    BY <2>1, <2>2 DEF Extracted, Out, After
<1>9. QED
  BY <1>8 DEF AllFollow

\* A place that holds one file more or less.
LEMMA OneFile ==
  ASSUME NEW s \in Storage, NEW point, NEW file
  PROVE  /\ Follows(s, [s EXCEPT !.files[Where(s, point)] = @ \ {file}])
         /\ file \in STRING => Follows(s, [s EXCEPT !.files[Where(s, point)] = @ \cup {file}])
<1> DEFINE place == Where(s, point)
           more == s.files[place] \cup {file}
           less == s.files[place] \ {file}
<1>1. place \in Places /\ less \in SUBSET STRING /\ (file \in STRING => more \in SUBSET STRING)
  BY WhereIsPlace, StorageFields
<1>2. /\ [s EXCEPT !.files[place] = @ \cup {file}] = [s EXCEPT !.files[place] = more]
      /\ [s EXCEPT !.files[place] = @ \ {file}] = [s EXCEPT !.files[place] = less]
  OBVIOUS
<1>3. Follows(s, [s EXCEPT !.files[place] = less])
  <2> HIDE DEF place, less
  <2>1. QED
    BY <1>1, NewFilesAt
<1>4. file \in STRING => Follows(s, [s EXCEPT !.files[place] = more])
  <2> HIDE DEF place, more
  <2>1. QED
    BY <1>1, NewFilesAt
<1> HIDE DEF more, less
<1>5. QED
  BY <1>2, <1>3, <1>4

\* A list whose elements are in a set is a list over it.
LEMMA ListOf ==
  ASSUME NEW T, NEW list \in Seq(T), NEW S, \A i \in DOMAIN list : list[i] \in S
  PROVE  list \in Seq(S)
<1>1. Len(list) \in Nat /\ list = [i \in 1..Len(list) |-> list[i]] /\ DOMAIN list = 1..Len(list)
  OBVIOUS
<1>2. list \in [1..Len(list) -> S]
  BY <1>1
<1>3. QED
  BY <1>1, <1>2

-----------------------------------------------------------------------------
(* Expressions of amend                                                    *)

\* What an expression may be worth, behind what it does to the storage.
AmendValues == STRING \cup BOOLEAN \cup {"", "true", "property", "several texts"}
Valued(s, X) ==
  {Out(t, Value(v)) : t \in After(s), v \in X} \cup {Out(t, Failed) : t \in After(s)}

LEMMA ValuedFurther ==
  ASSUME NEW s \in Storage, NEW t \in After(s), NEW X
  PROVE  Valued(t, X) \subseteq Valued(s, X)
BY AfterAll DEF Valued, After

LEMMA ValuedOne ==
  ASSUME NEW s, NEW t \in After(s), NEW X, NEW v \in X
  PROVE  Out(t, Value(v)) \in Valued(s, X) /\ Out(t, Failed) \in Valued(s, X)
BY DEF Valued

LEMMA ValuedIs ==
  ASSUME NEW s, NEW X, NEW o \in Valued(s, X)
  PROVE  /\ o.s \in After(s)
         /\ o.ret.ok => o.ret.value \in X
<1>1. \/ \E t \in After(s), v \in X : o = Out(t, Value(v))
      \/ \E t \in After(s) : o = Out(t, Failed)
  BY DEF Valued
<1>2. CASE \E t \in After(s), v \in X : o = Out(t, Value(v))
  <2>1. PICK t \in After(s), v \in X : o = Out(t, Value(v))
    BY <1>2
  <2>2. o.s = t /\ o.ret = Value(v)
    BY <2>1 DEF Out
  <2>3. Value(v).value = v
    BY DEF Value
  <2>4. QED
    BY <2>2, <2>3
<1>3. CASE \E t \in After(s) : o = Out(t, Failed)
  <2>1. PICK t \in After(s) : o = Out(t, Failed)
    BY <1>3
  <2>2. o.s = t /\ o.ret = Failed
    BY <2>1 DEF Out
  <2>3. ~Failed.ok
    BY DEF Failed
  <2>4. QED
    BY <2>2, <2>3
<1>4. QED
  BY <1>1, <1>2, <1>3

LEMMA Concatenated ==
  ASSUME NEW texts \in Seq(AmendValues)
  PROVE  Joined(texts) \in AmendValues
<1> DEFINE some == {i \in DOMAIN texts : texts[i] # ""}
<1>1. \A i \in DOMAIN texts : texts[i] \in AmendValues
  OBVIOUS
<1>2. "" \in AmendValues /\ "several texts" \in AmendValues
  BY DEF AmendValues
<1>3. ASSUME some # {}
      PROVE  texts[CHOOSE i \in some : TRUE] \in AmendValues
  BY <1>1, <1>3
<1>4. QED
  BY <1>2, <1>3 DEF Joined

LEMMA FunctionValued ==
  ASSUME NEW s \in Storage, NEW fn \in Functions, NEW argv \in Seq(AmendValues)
  PROVE  callFunction(s, fn, argv) \subseteq Valued(s, AmendValues)
<1> DEFINE texts == {"", "true", "property"}
<1>1. s \in After(s) /\ texts \subseteq AmendValues
  BY SameKeeps DEF After, AmendValues
<1>2. Out(s, Failed) \in Valued(s, AmendValues)
      /\ \A v \in AmendValues : Out(s, Value(v)) \in Valued(s, AmendValues)
  BY <1>1, ValuedOne
<1>3. ASSUME NEW r, r = Failed \/ \E v \in AmendValues : r = Value(v)
      PROVE  {Out(s, r)} \subseteq Valued(s, AmendValues)
  BY <1>2, <1>3
<1>4. CASE fn = "file_contains"
  <2> SUFFICES ASSUME NEW o \in fn_file_contains(s, argv)
               PROVE  o \in Valued(s, AmendValues)
    BY <1>4 DEF callFunction
  <2>1. CASE Len(argv) # 2 \/ PointOf(s, argv[1]) = "NULL"
    BY <1>2, <2>1 DEF fn_file_contains
  <2>2. CASE ~(Len(argv) # 2 \/ PointOf(s, argv[1]) = "NULL")
    <3>1. PICK p \in ensure_root_path_mounted(s, RootOf(argv[1])) :
            \/ o = Out(p.s, Failed) \/ o = Out(p.s, Value("")) \/ o = Out(p.s, Value("true"))
      BY <2>2 DEF fn_file_contains, Then
    <3>2. p.s \in After(s)
      BY EnsureMounted, FollowOn DEF AllKeep, After
    <3>3. QED
      BY <1>1, <3>1, <3>2, ValuedOne
  <2>3. QED
    BY <2>1, <2>2
<1>5. CASE fn = "compatible_with"
  <2>1. fn_compatible_with(argv) \in {Failed, Value("true"), Value("")}
    BY DEF fn_compatible_with, Chosen
  <2>2. QED
    BY <1>1, <1>3, <1>5, <2>1 DEF callFunction
<1>6. CASE fn = "update_forced"
  <2>1. fn_update_forced(argv) \in {Failed, Value("true")}
    BY DEF fn_update_forced
  <2>2. QED
    BY <1>1, <1>3, <1>6, <2>1 DEF callFunction
<1>7. CASE fn = "get_mark"
  <2>1. fn_get_mark(argv) \in {Failed, Value("")}
    BY DEF fn_get_mark
  <2>2. QED
    BY <1>1, <1>3, <1>7, <2>1 DEF callFunction
<1>8. CASE fn = "hash_dir"
  <2>1. fn_hash_dir(argv) = Failed
    BY DEF fn_hash_dir
  <2>2. QED
    BY <1>3, <1>8, <2>1 DEF callFunction
<1>9. CASE fn = "matches"
  <2>1. Len(argv) >= 2 => argv[1] \in AmendValues
    OBVIOUS
  <2>2. \/ fn_matches(argv) \in {Failed, Value("")}
        \/ Len(argv) >= 2 /\ fn_matches(argv) = Value(argv[1])
    BY DEF fn_matches, Chosen
  <2>3. QED
    BY <1>1, <1>3, <1>9, <2>1, <2>2 DEF callFunction
<1>10. CASE fn = "concat"
  <2>1. fn_concat(argv) = Value(Joined(argv)) /\ Joined(argv) \in AmendValues
    BY Concatenated DEF fn_concat
  <2>2. QED
    BY <1>3, <1>10, <2>1 DEF callFunction
<1>11. CASE fn = "getprop"
  <2>1. fn_getprop(argv) \in {Failed, Value("property")}
    BY DEF fn_getprop
  <2>2. QED
    BY <1>1, <1>3, <1>11, <2>1 DEF callFunction
<1>12. QED
  BY <1>4, <1>5, <1>6, <1>7, <1>8, <1>9, <1>10, <1>11 DEF Functions

\* What the nodes of an expression are worth in every state.
NodesValued(inner, nodes) ==
  \A t \in Storage : \A n \in nodes : inner[<<t, n>>] \subseteq Valued(t, AmendValues)

LEMMA ArgumentsValued ==
  ASSUME NEW s \in Storage, NEW nodes, NEW inner, NodesValued(inner, nodes),
         NEW args \in Seq(nodes)
  PROVE  execFunctionArguments(inner, s, args) \subseteq Valued(s, Seq(AmendValues))
<1> DEFINE n == Len(args)
           U == SUBSET Valued(s, Seq(AmendValues))
           V == [k \in 0..n |-> U]
           start == {Out(s, Value(<<>>))}
           Turn(x, k) ==
             BindValue(x, LAMBDA t, sofar :
               BindValue(inner[<<t, args[k]>>], LAMBDA u, v : {Out(u, Value(Append(sofar, v)))}))
           Turned(f) == [k \in 0..n |-> IF k = 0 THEN start ELSE Turn(f[k - 1], k)]
           after == CHOOSE f : f = Turned(f)
           turn == [k \in 1..n |-> [x \in U |-> Turn(x, k)]]
<1>1. n \in Nat /\ start \in U
  <2>1. n \in Nat
    OBVIOUS
  <2>2. s \in After(s) /\ <<>> \in Seq(AmendValues)
    BY SameKeeps DEF After
  <2>3. QED
    BY <2>1, <2>2, ValuedOne
<1>2. \A k \in 1..n : \A x \in U : Turn(x, k) \in U
  <2> TAKE k \in 1..n
  <2> TAKE x \in U
  <2>1. args[k] \in nodes
    OBVIOUS
  <2>2. ASSUME NEW o \in Turn(x, k)
        PROVE  o \in Valued(s, Seq(AmendValues))
    <3>1. PICK p \in x :
            o \in IF p.ret.ok
                  THEN BindValue(inner[<<p.s, args[k]>>],
                                 LAMBDA u, v : {Out(u, Value(Append(p.ret.value, v)))})
                  ELSE {Out(p.s, Failed)}
      BY DEF BindValue, Then
    <3>2. /\ p.s \in After(s) /\ p.s \in Storage
          /\ p.ret.ok => p.ret.value \in Seq(AmendValues)
      BY ValuedIs, AfterAll
    <3> HIDE DEF Turn, U, n
    <3>3. CASE ~p.ret.ok
      <4>1. o = Out(p.s, Failed)
        BY <3>1, <3>3
      <4>2. <<>> \in Seq(AmendValues)
        OBVIOUS
      <4>3. QED
        BY <3>2, <4>1, <4>2, ValuedOne
    <3>4. CASE p.ret.ok
      <4>1. PICK q \in inner[<<p.s, args[k]>>] :
              o \in IF q.ret.ok THEN {Out(q.s, Value(Append(p.ret.value, q.ret.value)))}
                    ELSE {Out(q.s, Failed)}
        BY <3>1, <3>4 DEF BindValue, Then
      <4>2. q \in Valued(p.s, AmendValues)
        BY <2>1, <3>2, <4>1 DEF NodesValued
      <4>3. q.s \in After(s) /\ (q.ret.ok => q.ret.value \in AmendValues)
        <5>1. q.s \in After(p.s) /\ (q.ret.ok => q.ret.value \in AmendValues)
          BY <4>2, ValuedIs
        <5>2. QED
          BY <3>2, <5>1, AfterAll DEF After
      <4>4. q.ret.ok => Append(p.ret.value, q.ret.value) \in Seq(AmendValues)
        BY <3>2, <3>4, <4>3
      <4>5. <<>> \in Seq(AmendValues)
        OBVIOUS
      <4>6. QED
        BY <4>1, <4>3, <4>4, <4>5, ValuedOne
    <3>5. QED
      BY <3>3, <3>4
  <2>3. QED
    BY <2>2
<1> HIDE DEF start
<1>3. \E f : f = Turned(f)
  <2>1. \A k \in 1..n : \A x \in U : turn[k][x] = Turn(x, k)
    <3> HIDE DEF Turn, U
    <3>1. QED
      OBVIOUS
  <2> HIDE DEF Turn, turn, U
  <2>2. \A k \in 1..n : \A x \in V[k - 1] : turn[k][x] \in V[k]
    <3>1. \A k \in 1..n : V[k - 1] = U /\ V[k] = U
      BY <1>1
    <3>2. QED
      BY <2>1, <1>2, <3>1
  <2>3. 0 \in 0..n /\ start \in V[0]
    BY <1>1
  <2> HIDE DEF V
  <2>4. PICK f : Values(f, n, start, turn) /\ \A k \in 0..n : f[k] \in V[k]
    BY <1>1, <2>2, <2>3, LoopExists
  <2>5. \A k \in 0..n : k = 0 \/ (turn[k][f[k - 1]] = Turn(f[k - 1], k))
    <3>1. \A k \in 1..n : f[k - 1] \in U
      BY <1>1, <2>4 DEF V
    <3>2. QED
      BY <1>1, <2>1, <3>1
  <2>6. f = Turned(f)
    BY <2>4, <2>5 DEF Values
  <2>7. QED
    BY <2>6, Zenon
<1>4. after = Turned(after)
  <2> HIDE DEF Turned
  <2>1. QED
    BY <1>3, Zenon
<1>5. after[0] = start /\ \A k \in 1..n : after[k] = Turn(after[k - 1], k)
  <2> HIDE DEF after, Turn, U
  <2>1. \A k \in 0..n : after[k] = IF k = 0 THEN start ELSE Turn(after[k - 1], k)
    BY <1>4, Zenon
  <2>2. 0 \in 0..n /\ \A k \in 1..n : k \in 0..n /\ k # 0
    BY <1>1
  <2>3. QED
    BY <2>1, <2>2
<1>6. after[n] \in U
  <2> HIDE DEF after, Turn, U, turn
  <2>1. \A k \in 0..n : V[k] = U
    OBVIOUS
  <2> HIDE DEF V
  <2>2. after[0] \in V[0] /\ n \in 0..n
    BY <1>1, <1>5, <2>1
  <2>3. \A k \in 1..n : after[k - 1] \in V[k - 1] => after[k] \in V[k]
    <3>1. \A k \in 1..n : k - 1 \in 0..n /\ k \in 0..n
      BY <1>1
    <3>2. QED
      BY <1>2, <1>5, <2>1, <3>1
  <2>4. QED
    BY <1>1, <2>1, <2>2, <2>3, LoopStays
<1>7. execFunctionArguments(inner, s, args) = after[n]
  BY Zenon DEF execFunctionArguments, Loop, start
<1>8. QED
  BY <1>6, <1>7


\* A node that the parser makes, over earlier ones.
AmendNode(e) ==
  \/ e.fn = "literal" \/ e.fn \in Functions
  \/ e.fn \in Comparisons \cup Connectives /\ Len(e.args) = 2
  \/ e.fn = "!" /\ Len(e.args) = 1

LEMMA NodeValued ==
  ASSUME NEW s \in Storage, NEW nodes, NEW inner, NodesValued(inner, nodes),
         NEW e \in Nodes, AmendNode(e), e.args \in Seq(nodes)
  PROVE  execNode(inner, s, e) \subseteq Valued(s, AmendValues)
<1>1. s \in After(s) /\ e.name \in STRING /\ STRING \subseteq AmendValues
      /\ BOOLEAN \subseteq AmendValues /\ "" \in AmendValues
  BY SameKeeps DEF After, Nodes, AmendValues
<1>2. CASE e.fn = "literal"
  <2>1. execNode(inner, s, e) = {Out(s, Value(e.name))}
    BY <1>2 DEF execNode, Comparisons, Connectives
  <2>2. QED
    BY <1>1, <2>1, ValuedOne
<1>3. CASE e.fn \in Comparisons \cup Connectives
  <2> SUFFICES ASSUME NEW o \in execNode(inner, s, e) PROVE o \in Valued(s, AmendValues)
    OBVIOUS
  <2>1. execNode(inner, s, e) = execTwo(inner, s, e)
    BY <1>3 DEF execNode, Comparisons, Connectives
  <2>2. Len(e.args) = 2 /\ e.args[1] \in nodes /\ e.args[2] \in nodes
    <3>1. Len(e.args) = 2
      BY <1>3 DEF AmendNode, Functions, Comparisons, Connectives
    <3>2. QED
      BY <3>1
  <2>3. PICK p \in inner[<<s, e.args[1]>>] :
          o \in IF p.ret.ok
                THEN BindValue(inner[<<p.s, e.args[2]>>], LAMBDA u, b :
                       {Out(u, Value(r)) : r \in Operate(e.fn, p.ret.value, b)})
                ELSE {Out(p.s, Failed)}
    BY <2>1 DEF execTwo, BindValue, Then
  <2>4. p \in Valued(s, AmendValues) /\ p.s \in After(s) /\ p.s \in Storage
    BY <2>2, <2>3, ValuedIs, AfterAll DEF NodesValued
  <2>5. CASE ~p.ret.ok
    BY <1>1, <2>3, <2>4, <2>5, ValuedOne
  <2>6. CASE p.ret.ok
    <3>1. PICK q \in inner[<<p.s, e.args[2]>>] :
            o \in IF q.ret.ok
                  THEN {Out(q.s, Value(r)) : r \in Operate(e.fn, p.ret.value, q.ret.value)}
                  ELSE {Out(q.s, Failed)}
      BY <2>3, <2>6 DEF BindValue, Then
    <3>2. q \in Valued(p.s, AmendValues)
      BY <2>2, <2>4, <3>1 DEF NodesValued
    <3>3. q.s \in After(s)
      BY <2>4, <3>2, ValuedIs, AfterAll DEF After
    <3>4. \A a, b : Operate(e.fn, a, b) \subseteq BOOLEAN
      <4>1. ASSUME NEW a, NEW b
            PROVE  Operate(e.fn, a, b) \subseteq BOOLEAN
        <5>1. CASE e.fn \in {"strings ==", "=="}
          <6>1. Operate(e.fn, a, b) = {a = b}
            BY <5>1 DEF Operate
          <6>2. QED
            BY <6>1, Zenon
        <5>2. CASE e.fn \in {"strings !=", "!="}
          <6>1. Operate(e.fn, a, b) = {a # b}
            BY <5>2 DEF Operate
          <6>2. QED
            BY <6>1, Zenon
        <5>3. CASE e.fn = "&&"
          <6>1. Operate(e.fn, a, b) = {a /\ b}
            BY <5>3 DEF Operate
          <6>2. QED
            BY <6>1, Zenon
        <5>4. CASE e.fn = "||"
          <6>1. Operate(e.fn, a, b) = {a \/ b}
            BY <5>4 DEF Operate
          <6>2. QED
            BY <6>1, Zenon
        <5>5. CASE e.fn \in {"strings <", "strings >", "strings <=", "strings >="}
          <6>1. \/ Operate(e.fn, a, b) = IF a = b THEN {FALSE} ELSE BOOLEAN
                \/ Operate(e.fn, a, b) = IF a = b THEN {TRUE} ELSE BOOLEAN
            BY <5>5 DEF Operate
          <6>2. QED
            BY <6>1
        <5>6. QED
          BY <1>3, <5>1, <5>2, <5>3, <5>4, <5>5 DEF Comparisons, Connectives
      <4>2. QED
        BY <4>1
    <3>5. CASE ~q.ret.ok
      BY <1>1, <3>1, <3>3, <3>5, ValuedOne
    <3>6. CASE q.ret.ok
      <4>1. PICK r \in Operate(e.fn, p.ret.value, q.ret.value) : o = Out(q.s, Value(r))
        BY <3>1, <3>6
      <4>2. r \in AmendValues
        BY <1>1, <3>4, <4>1
      <4>3. QED
        BY <3>3, <4>1, <4>2, ValuedOne
    <3>7. QED
      BY <3>5, <3>6
  <2>7. QED
    BY <2>5, <2>6
<1>4. CASE e.fn = "!"
  <2> SUFFICES ASSUME NEW o \in execNode(inner, s, e) PROVE o \in Valued(s, AmendValues)
    OBVIOUS
  <2>1. execNode(inner, s, e) = execNot(inner, s, e)
    BY <1>4 DEF execNode, Comparisons, Connectives
  <2>2. e.args[1] \in nodes
    <3>1. Len(e.args) = 1
      BY <1>4 DEF AmendNode, Functions, Comparisons, Connectives
    <3>2. QED
      BY <3>1
  <2>3. PICK p \in inner[<<s, e.args[1]>>] :
          o \in IF p.ret.ok THEN {Out(p.s, Value(~p.ret.value))} ELSE {Out(p.s, Failed)}
    BY <2>1 DEF execNot, BindValue, Then
  <2>4. p \in Valued(s, AmendValues) /\ p.s \in After(s)
    BY <2>2, <2>3, ValuedIs DEF NodesValued
  <2>5. (~p.ret.value) \in BOOLEAN
    BY Zenon
  <2>6. QED
    BY <1>1, <2>3, <2>4, <2>5, ValuedOne
<1>5. CASE e.fn \in Functions
  <2> SUFFICES ASSUME NEW o \in execNode(inner, s, e) PROVE o \in Valued(s, AmendValues)
    OBVIOUS
  <2>1. execNode(inner, s, e) = execFunctionCall(inner, s, e)
    BY <1>5 DEF execNode, Functions, Comparisons, Connectives
  <2>2. PICK p \in execFunctionArguments(inner, s, e.args) :
          o \in IF p.ret.ok THEN callFunction(p.s, e.fn, p.ret.value) ELSE {Out(p.s, Failed)}
    BY <2>1 DEF execFunctionCall, BindValue, Then
  <2>3. p \in Valued(s, Seq(AmendValues))
    BY <2>2, ArgumentsValued
  <2>4. /\ p.s \in After(s) /\ p.s \in Storage
        /\ p.ret.ok => p.ret.value \in Seq(AmendValues)
    BY <2>3, ValuedIs, AfterAll
  <2>5. CASE ~p.ret.ok
    BY <1>1, <2>2, <2>4, <2>5, ValuedOne
  <2>6. CASE p.ret.ok
    <3>1. o \in Valued(p.s, AmendValues)
      BY <1>5, <2>2, <2>4, <2>6, FunctionValued
    <3>2. QED
      BY <2>4, <3>1, ValuedFurther
  <2>7. QED
    BY <2>5, <2>6
<1>6. QED
  BY <1>2, <1>3, <1>4, <1>5 DEF AmendNode

LEMMA ExpressionValued ==
  ASSUME NEW s \in Storage, NEW expr \in AmendExpressions
  PROVE  execBooleanValue(s, expr) \subseteq Valued(s, AmendValues)
<1> DEFINE n == Len(expr)
           nodes == DOMAIN expr
           domain == Storage \X DOMAIN expr
           any == UNION {Valued(t, AmendValues) : t \in Storage}
           U == {f \in [domain -> SUBSET any] :
                   \A x \in domain : f[x] \subseteq Valued(x[1], AmendValues)}
           V == [k \in 0..n |-> U]
           start == [x \in domain |-> {}]
           Turn(inner, k) == [x \in domain |-> execNode(inner, x[1], expr[x[2]])]
           Turned(f) == [k \in 0..n |-> IF k = 0 THEN start ELSE Turn(f[k - 1], k)]
           after == CHOOSE f : f = Turned(f)
           turn == [k \in 1..n |-> [x \in U |-> Turn(x, k)]]
<1>1. n \in Nat /\ start \in U
  <2>1. n \in Nat
    BY DEF AmendExpressions, Expressions
  <2>2. QED
    BY <2>1
<1>2. \A k \in 1..n : \A x \in U : Turn(x, k) \in U
  <2> TAKE k \in 1..n
  <2> TAKE inner \in U
  <2>1. NodesValued(inner, nodes)
    <3>1. ASSUME NEW t \in Storage, NEW m \in nodes
          PROVE  inner[<<t, m>>] \subseteq Valued(t, AmendValues)
      <4>1. <<t, m>> \in domain /\ <<t, m>>[1] = t
        OBVIOUS
      <4> HIDE DEF domain
      <4>2. QED
        BY <4>1
    <3>2. QED
      BY <3>1 DEF NodesValued
  <2>2. ASSUME NEW x \in domain
        PROVE  execNode(inner, x[1], expr[x[2]]) \subseteq Valued(x[1], AmendValues)
    <3> DEFINE e == expr[x[2]]
    <3>1. x[1] \in Storage /\ x[2] \in DOMAIN expr
      OBVIOUS
    <3>2. e \in Nodes /\ AmendNode(e)
      BY <3>1 DEF AmendExpressions, Expressions, AmendNode
    <3>3. e.args \in Seq(nodes)
      <4>1. e.args \in Seq(Nat) /\ \A j \in DOMAIN e.args : e.args[j] \in 1..(x[2] - 1)
        <5>1. e.args \in Seq(Nat)
          BY <3>2 DEF Nodes
        <5>2. \A i \in DOMAIN expr : \A j \in DOMAIN expr[i].args : expr[i].args[j] \in 1..(i - 1)
          BY DEF AmendExpressions, Expressions
        <5>3. QED
          BY <3>1, <5>1, <5>2
      <4>2. DOMAIN expr = 1..n /\ n \in Nat
        BY DEF AmendExpressions, Expressions
      <4>3. \A j \in DOMAIN e.args : e.args[j] \in nodes
        BY <3>1, <4>1, <4>2
      <4> HIDE DEF e, nodes
      <4>4. QED
        BY <4>1, <4>3, ListOf
    <3> HIDE DEF e, nodes
    <3>4. QED
      BY <2>1, <3>1, <3>2, <3>3, NodeValued DEF e
  <2>3. \A x \in domain : Valued(x[1], AmendValues) \subseteq any
    OBVIOUS
  <2> HIDE DEF domain, any, n, nodes
  <2>4. QED
    BY <2>2, <2>3
<1> HIDE DEF start
<1>3. \E f : f = Turned(f)
  <2>1. \A k \in 1..n : \A x \in U : turn[k][x] = Turn(x, k)
    <3> HIDE DEF Turn, U
    <3>1. QED
      OBVIOUS
  <2> HIDE DEF Turn, turn, U
  <2>2. \A k \in 1..n : \A x \in V[k - 1] : turn[k][x] \in V[k]
    <3>1. \A k \in 1..n : V[k - 1] = U /\ V[k] = U
      BY <1>1
    <3>2. QED
      BY <2>1, <1>2, <3>1
  <2>3. 0 \in 0..n /\ start \in V[0]
    BY <1>1
  <2> HIDE DEF V
  <2>4. PICK f : Values(f, n, start, turn) /\ \A k \in 0..n : f[k] \in V[k]
    BY <1>1, <2>2, <2>3, LoopExists
  <2>5. \A k \in 0..n : k = 0 \/ (turn[k][f[k - 1]] = Turn(f[k - 1], k))
    <3>1. \A k \in 1..n : f[k - 1] \in U
      BY <1>1, <2>4 DEF V
    <3>2. QED
      BY <1>1, <2>1, <3>1
  <2>6. f = Turned(f)
    BY <2>4, <2>5 DEF Values
  <2>7. QED
    BY <2>6, Zenon
<1>4. after = Turned(after)
  <2> HIDE DEF Turned
  <2>1. QED
    BY <1>3, Zenon
<1>5. after[0] = start /\ \A k \in 1..n : after[k] = Turn(after[k - 1], k)
  <2> HIDE DEF after, Turn, U
  <2>1. \A k \in 0..n : after[k] = IF k = 0 THEN start ELSE Turn(after[k - 1], k)
    BY <1>4, Zenon
  <2>2. 0 \in 0..n /\ \A k \in 1..n : k \in 0..n /\ k # 0
    BY <1>1
  <2>3. QED
    BY <2>1, <2>2
<1>6. after[n] \in U
  <2> HIDE DEF after, Turn, U, turn
  <2>1. \A k \in 0..n : V[k] = U
    OBVIOUS
  <2> HIDE DEF V
  <2>2. after[0] \in V[0] /\ n \in 0..n
    BY <1>1, <1>5, <2>1
  <2>3. \A k \in 1..n : after[k - 1] \in V[k - 1] => after[k] \in V[k]
    <3>1. \A k \in 1..n : k - 1 \in 0..n /\ k \in 0..n
      BY <1>1
    <3>2. QED
      BY <1>2, <1>5, <2>1, <3>1
  <2>4. QED
    BY <1>1, <2>1, <2>2, <2>3, LoopStays
<1>7. execBooleanValue(s, expr) = after[n][<<s, n>>]
  BY Zenon DEF execBooleanValue, ValueOf, Loop, start
<1>8. <<s, n>> \in domain /\ <<s, n>>[1] = s
  <2>1. n \in DOMAIN expr
    BY DEF AmendExpressions, Expressions
  <2>2. QED
    BY <2>1
<1> HIDE DEF after, domain, n, any
<1>9. QED
  BY <1>6, <1>7, <1>8


-----------------------------------------------------------------------------
(* Commands of amend                                                       *)

\* What a command leaves of the storage of its context.
ContextFollows(c, outcomes) == \A o \in outcomes : Follows(c.s, o.s.s)

LEMMA WithFollows ==
  ASSUME NEW c, "s" \in DOMAIN c, NEW outcomes, AllFollow(c.s, outcomes)
  PROVE  ContextFollows(c, With(c, outcomes))
<1> SUFFICES ASSUME NEW o \in With(c, outcomes) PROVE Follows(c.s, o.s.s)
  BY DEF ContextFollows
<1>1. PICK p \in outcomes : o.s = [c EXCEPT !.s = p.s]
  BY DEF With, Out
<1>2. o.s.s = p.s
  BY <1>1
<1>3. QED
  BY <1>2 DEF AllFollow

LEMMA FailIfFollows ==
  ASSUME NEW c, c.s \in Storage, NEW wrong, NEW outcomes,
         ~wrong => ContextFollows(c, outcomes)
  PROVE  ContextFollows(c, FailIf(wrong, c, outcomes))
BY SameKeeps DEF FailIf, Out, ContextFollows

\* What follows once the root is mounted.
LEMMA MountedFirst ==
  ASSUME NEW s \in Storage, NEW root, NEW p \in ensure_root_path_mounted(s, root)
  PROVE  /\ Follows(s, p.s) /\ p.s \in Storage
         /\ \A u : Follows(p.s, u) => Follows(s, u)
BY EnsureMounted, FollowOn DEF AllKeep

LEMMA AssertFollows ==
  ASSUME NEW c, c.s \in Storage, "s" \in DOMAIN c, NEW expr \in AmendExpressions
  PROVE  ContextFollows(c, cmd_assert(c, expr))
<1> DEFINE X == execBooleanValue(c.s, expr)
<1>1. AllFollow(c.s, X)
  BY ExpressionValued, ValuedIs DEF AllFollow, After
<1>2. \A o \in cmd_assert(c, expr) : \E p \in With(c, X) : o.s = p.s
  BY DEF cmd_assert, Out
<1> HIDE DEF X
<1>3. QED
  BY <1>1, <1>2, WithFollows DEF ContextFollows

LEMMA CommandFormats ==
  ASSUME NEW c, c.s \in Storage, "s" \in DOMAIN c, NEW argv
  PROVE  ContextFollows(c, cmd_format(c, argv))
<1> DEFINE X == format_root_device(c.s, RootOf(argv[1]))
           Y == {Out(o.s, IF o.ret # 0 THEN 1 ELSE 0) : o \in With(c, X)}
<1>1. cmd_format(c, argv) = FailIf(Len(argv) # 1, c, Y)
  BY DEF cmd_format
<1>2. AllFollow(c.s, X)
  BY RootFormatted, SparesFollow
<1> HIDE DEF X
<1>3. ContextFollows(c, Y)
  BY <1>2, WithFollows DEF ContextFollows, Out
<1> HIDE DEF Y
<1>4. QED
  BY <1>1, <1>3, FailIfFollows

LEMMA DeleteFollows ==
  ASSUME NEW c, c.s \in Storage, "s" \in DOMAIN c, NEW argv \in Seq(STRING), NEW recurse
  PROVE  ContextFollows(c, cmd_delete(c, argv, recurse))
<1> DEFINE Unlink(s, point, file) ==
             IF recurse /\ file = "NULL" THEN RemoveAll(s, point)
             ELSE IF file \in s.files[Where(s, point)] /\ Writable(s, point)
             THEN Try(s, [s EXCEPT !.files[Where(s, point)] = @ \ {file}], -1)
             ELSE {Out(s, -1)}
           One(s, word) ==
             IF PointOf(s, word) = "NULL" THEN {Out(s, -1)}
             ELSE Then(ensure_root_path_mounted(s, RootOf(word)), LAMBDA t, ret :
                    IF ret < 0 THEN {Out(t, ret)}
                    ELSE Unlink(t, PointOf(t, word), FileOf(word)))
           n == Len(argv)
           U == SUBSET After(c.s)
           V == [k \in 0..n |-> U]
           start == {c.s}
           Turn(states, k) == {o.s : o \in UNION {One(s, argv[k]) : s \in states}}
           Turned(f) == [k \in 0..n |-> IF k = 0 THEN start ELSE Turn(f[k - 1], k)]
           after == CHOOSE f : f = Turned(f)
           turn == [k \in 1..n |-> [x \in U |-> Turn(x, k)]]
<1>0. ASSUME NEW s \in Storage, NEW word
      PROVE  AllFollow(s, One(s, word))
  <2> SUFFICES ASSUME NEW o \in One(s, word) PROVE Follows(s, o.s)
    BY DEF AllFollow
  <2>1. CASE o = Out(s, -1)
    BY <2>1, SameKeeps DEF Out
  <2>2. CASE \E p \in ensure_root_path_mounted(s, RootOf(word)) :
               o \in IF p.ret < 0 THEN {Out(p.s, p.ret)}
                     ELSE Unlink(p.s, PointOf(p.s, word), FileOf(word))
    <3>1. PICK p \in ensure_root_path_mounted(s, RootOf(word)) :
            o \in IF p.ret < 0 THEN {Out(p.s, p.ret)}
                  ELSE Unlink(p.s, PointOf(p.s, word), FileOf(word))
      BY <2>2
    <3>2. p.s \in Storage
      BY MountedFirst
    <3> DEFINE point == PointOf(p.s, word)
               file == FileOf(word)
               done == [p.s EXCEPT !.files[Where(p.s, point)] = @ \ {file}]
    <3>3. \/ o = Out(p.s, p.ret) \/ o = Out(p.s, -1)
          \/ o \in RemoveAll(p.s, point) \/ o \in Try(p.s, done, -1)
      <4> HIDE DEF point, file
      <4>1. QED
        BY <3>1 DEF point, file
    <3>4. Follows(p.s, done)
      BY <3>2, OneFile
    <3> HIDE DEF done, point
    <3>5. AllFollow(p.s, Try(p.s, done, -1)) /\ AllFollow(p.s, RemoveAll(p.s, point))
      BY <3>2, <3>4, TryFollows, RemoveFollows
    <3>6. Follows(p.s, o.s)
      <4>1. CASE o = Out(p.s, p.ret) \/ o = Out(p.s, -1)
        <5> HIDE DEF One, Unlink
        <5>1. o.s = p.s
          BY <4>1 DEF Out
        <5>2. QED
          BY <3>2, <5>1, SameKeeps
      <4>2. CASE o \in RemoveAll(p.s, point) \/ o \in Try(p.s, done, -1)
        BY <3>5, <4>2 DEF AllFollow
      <4>3. QED
        BY <3>3, <4>1, <4>2
    <3>7. QED
      BY <3>6, MountedFirst
  <2>3. QED
    BY <2>1, <2>2 DEF Then
<1>1. n \in Nat /\ start \in U
  BY SameKeeps DEF After
<1> HIDE DEF One
<1>2. \A k \in 1..n : \A x \in U : Turn(x, k) \in U
  <2> TAKE k \in 1..n
  <2> TAKE x \in U
  <2>1. ASSUME NEW s \in x, NEW o \in One(s, argv[k])
        PROVE  o.s \in After(c.s)
    <3>1. s \in After(c.s) /\ s \in Storage
      BY AfterAll
    <3>2. Follows(s, o.s)
      BY <1>0, <3>1 DEF AllFollow
    <3>3. QED
      BY <3>1, <3>2, AfterAll
  <2>2. QED
    BY <2>1
<1> HIDE DEF start
<1>3. \E f : f = Turned(f)
  <2>1. \A k \in 1..n : \A x \in U : turn[k][x] = Turn(x, k)
    <3> HIDE DEF Turn, U
    <3>1. QED
      OBVIOUS
  <2> HIDE DEF Turn, turn, U
  <2>2. \A k \in 1..n : \A x \in V[k - 1] : turn[k][x] \in V[k]
    <3>1. \A k \in 1..n : V[k - 1] = U /\ V[k] = U
      BY <1>1
    <3>2. QED
      BY <2>1, <1>2, <3>1
  <2>3. 0 \in 0..n /\ start \in V[0]
    BY <1>1
  <2> HIDE DEF V
  <2>4. PICK f : Values(f, n, start, turn) /\ \A k \in 0..n : f[k] \in V[k]
    BY <1>1, <2>2, <2>3, LoopExists
  <2>5. \A k \in 0..n : k = 0 \/ (turn[k][f[k - 1]] = Turn(f[k - 1], k))
    <3>1. \A k \in 1..n : f[k - 1] \in U
      BY <1>1, <2>4 DEF V
    <3>2. QED
      BY <1>1, <2>1, <3>1
  <2>6. f = Turned(f)
    BY <2>4, <2>5 DEF Values
  <2>7. QED
    BY <2>6, Zenon
<1>4. after = Turned(after)
  <2> HIDE DEF Turned
  <2>1. QED
    BY <1>3, Zenon
<1>5. after[0] = start /\ \A k \in 1..n : after[k] = Turn(after[k - 1], k)
  <2> HIDE DEF after, Turn, U
  <2>1. \A k \in 0..n : after[k] = IF k = 0 THEN start ELSE Turn(after[k - 1], k)
    BY <1>4, Zenon
  <2>2. 0 \in 0..n /\ \A k \in 1..n : k \in 0..n /\ k # 0
    BY <1>1
  <2>3. QED
    BY <2>1, <2>2
<1>6. after[n] \in U
  <2> HIDE DEF after, Turn, U, turn
  <2>1. \A k \in 0..n : V[k] = U
    OBVIOUS
  <2> HIDE DEF V
  <2>2. after[0] \in V[0] /\ n \in 0..n
    BY <1>1, <1>5, <2>1
  <2>3. \A k \in 1..n : after[k - 1] \in V[k - 1] => after[k] \in V[k]
    <3>1. \A k \in 1..n : k - 1 \in 0..n /\ k \in 0..n
      BY <1>1
    <3>2. QED
      BY <1>2, <1>5, <2>1, <3>1
  <2>4. QED
    BY <1>1, <2>1, <2>2, <2>3, LoopStays
<1>7. cmd_delete(c, argv, recurse)
        = FailIf(argv = <<>>, c, With(c, {Out(s, 0) : s \in after[n]}))
  BY Zenon DEF cmd_delete, Loop, start, One
<1> HIDE DEF after, n
<1>8. AllFollow(c.s, {Out(s, 0) : s \in after[n]})
  BY <1>6 DEF AllFollow, Out, After
<1>9. QED
  BY <1>7, <1>8, WithFollows, FailIfFollows


LEMMA CopyFollows ==
  ASSUME NEW c, c.s \in Storage, "s" \in DOMAIN c, NEW argv,
         NEW cd \in Seq(EntryType), ArchiveOf(c.zip, cd)
  PROVE  ContextFollows(c, cmd_copy_dir(c, argv))
<1> DEFINE point == PointOf(c.s, argv[2])
           Extract(s, ret) ==
             CASE ret < 0 -> {Out(s, 1)}
               [] ret >= 0 /\ point = "NULL" -> {Out(s, 1)}
               [] ret >= 0 /\ point # "NULL" /\ ~is_package_root_path(argv[1]) ->
                    {Out(s, 255)}
               [] OTHER ->
                    IF ~c.package THEN {Out(s, 1)}
                    ELSE {Out(o.s, IF o.ret.ok THEN 0 ELSE 1) :
                            o \in mzExtractRecursive(s, c.zip, FileOf(argv[1]), point, TRUE)}
           X == Then(ensure_root_path_mounted(c.s, RootOf(argv[2])), Extract)
<1>1. \E wrong : cmd_copy_dir(c, argv) = FailIf(wrong, c, With(c, X))
  BY Zenon DEF cmd_copy_dir
<1>2. \A s, ret : \A o \in Extract(s, ret) :
        \/ o.s = s
        \/ \E q \in mzExtractRecursive(s, c.zip, FileOf(argv[1]), point, TRUE) : o.s = q.s
  <2> TAKE s, ret
  <2> TAKE o \in Extract(s, ret)
  <2> DEFINE Q == mzExtractRecursive(s, c.zip, FileOf(argv[1]), point, TRUE)
             R == {Out(q.s, IF q.ret.ok THEN 0 ELSE 1) : q \in Q}
  <2>1. o \in {Out(s, 1)} \/ o \in {Out(s, 255)} \/ o \in R
    <3>1. Extract(s, ret) \in {{Out(s, 1)}, {Out(s, 255)}, R}
      <4> HIDE DEF point, Q
      <4>1. QED
        BY DEF Q
    <3> HIDE DEF Extract, R
    <3>2. QED
      BY <3>1
  <2>2. o \in R => \E q \in Q : o.s = q.s
    <3> HIDE DEF Q
    <3>1. QED
      BY DEF Out
  <2> HIDE DEF R, Extract, Q
  <2>3. Out(s, 1).s = s /\ Out(s, 255).s = s
    BY DEF Out
  <2>4. o.s = s \/ \E q \in Q : o.s = q.s
    BY <2>1, <2>2, <2>3
  <2>5. QED
    BY <2>4 DEF Q
<1> HIDE DEF Extract, point
<1>3. AllFollow(c.s, X)
  <2> SUFFICES ASSUME NEW o \in X PROVE Follows(c.s, o.s)
    BY DEF AllFollow
  <2>1. PICK p \in ensure_root_path_mounted(c.s, RootOf(argv[2])) : o \in Extract(p.s, p.ret)
    BY DEF Then
  <2> HIDE DEF X
  <2>2. p.s \in Storage
    BY MountedFirst
  <2>3. Follows(p.s, o.s)
    <3>1. CASE o.s = p.s
      BY <2>2, <3>1, SameKeeps
    <3>2. CASE \E q \in mzExtractRecursive(p.s, c.zip, FileOf(argv[1]), point, TRUE) : o.s = q.s
      BY <2>2, <3>2, ExtractingFollows DEF AllFollow
    <3>3. QED
      BY <1>2, <2>1, <3>1, <3>2
  <2>4. QED
    BY <2>3, MountedFirst
<1> HIDE DEF X
<1>4. QED
  BY <1>1, <1>3, WithFollows, FailIfFollows

LEMMA ProgramFollows ==
  ASSUME NEW c, c.s \in Storage, "s" \in DOMAIN c, NEW argv
  PROVE  ContextFollows(c, cmd_run_program(c, argv))
<1> DEFINE entry == PackageEntry(c, argv[1])
           Wait(s) == {Out(s, IF entry.data = "exit 0" THEN 0 ELSE 1)}
           Run(s, ok) ==
             IF ~ok THEN {Out(s, 1)}
             ELSE Wait(s) \cup UNION {{Out(t, 0), Out(t, 1)} : t \in Failing(s)}
           Copy(s, ret) ==
             IF ret < 0 THEN {Out(s, 1)} ELSE Then(mzReadZipEntry(s, entry), Run)
           X == Then(Try(c.s, c.s, -1), Copy)
<1>1. \E wrong : cmd_run_program(c, argv) = FailIf(wrong, c, With(c, X))
  BY Zenon DEF cmd_run_program
<1>2. \A s, ok : \A o \in Run(s, ok) : o.s = s \/ o.s \in Failing(s)
  <2> TAKE s, ok
  <2> TAKE o \in Run(s, ok)
  <2> HIDE DEF entry
  <2>1. \/ o = Out(s, 1) \/ o \in Wait(s)
        \/ \E t \in Failing(s) : o = Out(t, 0) \/ o = Out(t, 1)
    <3> HIDE DEF Wait
    <3>1. CASE ~ok
      BY <3>1
    <3>2. CASE ok
      BY <3>2
    <3>3. QED
      BY <3>1, <3>2
  <2> HIDE DEF Run
  <2>2. \A t, r : Out(t, r).s = t
    BY DEF Out
  <2>3. \A q \in Wait(s) : q.s = s
    <3>1. PICK ret : Wait(s) = {Out(s, ret)}
      OBVIOUS
    <3> HIDE DEF Wait
    <3>2. QED
      BY <2>2, <3>1
  <2> HIDE DEF Wait
  <2>4. CASE o = Out(s, 1)
    BY <2>2, <2>4
  <2>5. CASE o \in Wait(s)
    BY <2>3, <2>5
  <2>6. CASE \E t \in Failing(s) : o = Out(t, 0) \/ o = Out(t, 1)
    <3>1. PICK t \in Failing(s) : o = Out(t, 0) \/ o = Out(t, 1)
      BY <2>6
    <3>2. o.s = t
      BY <2>2, <3>1
    <3>3. QED
      BY <3>1, <3>2
  <2>7. QED
    BY <2>1, <2>4, <2>5, <2>6
<1> HIDE DEF Run, entry
<1>3. \A s, ret : \A o \in Copy(s, ret) :
        \/ o.s = s
        \/ \E q \in mzReadZipEntry(s, entry) : o \in Run(q.s, q.ret)
  BY DEF Then, Out
<1> HIDE DEF Copy
<1>4. AllFollow(c.s, X)
  <2> SUFFICES ASSUME NEW o \in X PROVE Follows(c.s, o.s)
    BY DEF AllFollow
  <2>1. PICK p \in Try(c.s, c.s, -1) : o \in Copy(p.s, p.ret)
    BY DEF Then
  <2> HIDE DEF X
  <2>2. Follows(c.s, p.s) /\ p.s \in Storage
    BY TryFollows, SameKeeps, FollowOn DEF AllFollow
  <2>3. CASE o.s = p.s
    BY <2>2, <2>3
  <2>4. ASSUME NEW q \in mzReadZipEntry(p.s, entry), o \in Run(q.s, q.ret)
        PROVE  Follows(c.s, o.s)
    <3>1. Follows(p.s, q.s) /\ q.s \in Storage
      BY <2>2, ReadKeeps, FollowOn DEF AllKeep
    <3>2. Follows(q.s, o.s)
      BY <1>2, <2>4, <3>1, SameKeeps, FailingKeeps, FollowOn
    <3>3. QED
      BY <2>2, <3>1, <3>2, FollowOn
  <2>5. QED
    BY <1>3, <2>1, <2>3, <2>4
<1> HIDE DEF X
<1>5. QED
  BY <1>1, <1>4, WithFollows, FailIfFollows

LEMMA PermFollows ==
  ASSUME NEW c, c.s \in Storage, "s" \in DOMAIN c, NEW argv, NEW numbers
  PROVE  ContextFollows(c, cmd_set_perm(c, argv, numbers))
<1> DEFINE word == argv[numbers + 1]
           Set(s, ret) ==
             IF ret # 0 \/ ~Writable(s, PointOf(c.s, word)) THEN {Out(s, 1)} ELSE Try(s, s, 1)
           X == Then(ensure_root_path_mounted(c.s, RootOf(word)), Set)
<1>1. \E wrong : cmd_set_perm(c, argv, numbers) = FailIf(wrong, c, With(c, X))
  BY Zenon DEF cmd_set_perm
<1>2. AllFollow(c.s, X)
  <2> SUFFICES ASSUME NEW o \in X PROVE Follows(c.s, o.s)
    BY DEF AllFollow
  <2>1. PICK p \in ensure_root_path_mounted(c.s, RootOf(word)) : o \in Set(p.s, p.ret)
    BY DEF Then
  <2> HIDE DEF X, word
  <2>2. p.s \in Storage
    BY MountedFirst
  <2>3. o = Out(p.s, 1) \/ o \in Try(p.s, p.s, 1)
    BY <2>1
  <2>4. Follows(p.s, o.s)
    BY <2>2, <2>3, SameKeeps, TryFollows DEF AllFollow, Out
  <2>5. QED
    BY <2>4, MountedFirst
<1> HIDE DEF X
<1>3. QED
  BY <1>1, <1>2, WithFollows, FailIfFollows

LEMMA LinkFollows ==
  ASSUME NEW c, c.s \in Storage, "s" \in DOMAIN c, NEW argv
  PROVE  ContextFollows(c, cmd_symlink(c, argv))
<1> DEFINE point == PointOf(c.s, argv[2])
           file == FileOf(argv[2])
           Link(s, ret) ==
             IF \/ ret # 0
                \/ ~Writable(s, point)
                \/ file \in s.files[Where(s, point)]
             THEN {Out(s, 1)}
             ELSE Try(s, [s EXCEPT !.files[Where(s, point)] = @ \cup {file}], 1)
           X == Then(ensure_root_path_mounted(c.s, RootOf(argv[2])), Link)
           wrong == Len(argv) # 2 \/ point = "NULL"
<1>1. cmd_symlink(c, argv) = FailIf(wrong, c, With(c, X))
  BY Zenon DEF cmd_symlink
<1>2. ASSUME ~wrong
      PROVE  AllFollow(c.s, X)
  <2> SUFFICES ASSUME NEW o \in X PROVE Follows(c.s, o.s)
    BY DEF AllFollow
  <2>1. file \in STRING
    <3>1. argv[2] \in DOMAIN RootPaths
      BY <1>2 DEF PointOf, RootOf
    <3>2. QED
      BY <3>1, AmendAssumption
  <2>2. PICK p \in ensure_root_path_mounted(c.s, RootOf(argv[2])) : o \in Link(p.s, p.ret)
    BY DEF Then
  <2> HIDE DEF X, file, point
  <2> DEFINE done == [p.s EXCEPT !.files[Where(p.s, point)] = @ \cup {file}]
  <2>3. o = Out(p.s, 1) \/ o \in Try(p.s, done, 1)
    BY <2>2
  <2>4. p.s \in Storage
    BY MountedFirst
  <2>5. Follows(p.s, done)
    BY <2>1, <2>4, OneFile
  <2> HIDE DEF done
  <2>6. Follows(p.s, o.s)
    BY <2>3, <2>4, <2>5, SameKeeps, TryFollows DEF AllFollow, Out
  <2>7. QED
    BY <2>6, MountedFirst
<1> HIDE DEF X, wrong
<1>3. QED
  BY <1>1, <1>2, WithFollows, FailIfFollows

LEMMA FirmwareFollows ==
  ASSUME NEW c, c.s \in Storage, "s" \in DOMAIN c, NEW argv
  PROVE  ContextFollows(c, cmd_write_firmware_image(c, argv))
<1> DEFINE entry == PackageEntry(c, argv[1])
           Keep(d, ok) ==
             IF ~ok THEN {Out(d, 1)}
             ELSE {Out(o.s, IF o.ret # 0 THEN 1 ELSE 0) :
                     o \in remember_firmware_update(d, entry.data)}
           X == mzReadZipEntry(c.s, entry)
           Y == Then(With(c, X), Keep)
<1>1. \E wrong : cmd_write_firmware_image(c, argv) = FailIf(wrong, c, Y)
  BY Zenon DEF cmd_write_firmware_image
<1>2. AllFollow(c.s, X)
  BY ReadKeeps, FollowOn DEF AllKeep, AllFollow
<1>3. ContextFollows(c, Y)
  <2> SUFFICES ASSUME NEW o \in Y PROVE Follows(c.s, o.s.s)
    BY DEF ContextFollows
  <2>1. PICK p \in With(c, X) : o \in Keep(p.s, p.ret)
    BY DEF Then
  <2> HIDE DEF X, Y, entry
  <2>2. \/ o.s = p.s
        \/ \E q \in remember_firmware_update(p.s, entry.data) : o.s = q.s
    BY <2>1 DEF Out
  <2>3. \A q \in remember_firmware_update(p.s, entry.data) : q.s.s = p.s.s
    <3>1. PICK r \in X : p.s = [c EXCEPT !.s = r.s]
      BY <2>1 DEF With, Out
    <3>2. "s" \in DOMAIN p.s /\ \A image : [p.s EXCEPT !.firmware = image].s = p.s.s
      BY <3>1
    <3>3. QED
      BY <3>2 DEF remember_firmware_update, Out
  <2>4. o.s.s = p.s.s
    BY <2>2, <2>3
  <2>5. QED
    BY <1>2, <2>4, WithFollows DEF ContextFollows
<1> HIDE DEF Y
<1>4. QED
  BY <1>1, <1>3, FailIfFollows


LEMMA RawImageFollows ==
  ASSUME NEW c, c.s \in Storage, "s" \in DOMAIN c, NEW argv,
         NEW cd \in Seq(EntryType), ArchiveOf(c.zip, cd)
  PROVE  ContextFollows(c, cmd_write_raw_image(c, argv))
<1> DEFINE entry == PackageEntry(c, argv[1])
           Written(s, volume) == [s EXCEPT !.files[volume] = {entry.name}]
           Spoilt(s, volume) == {Out(s, 1), Out(Emptied(s, volume), 1)}
           Finish(s, volume) ==
             {Out(Written(s, volume), 0)}
               \cup {Out(Written(t, volume), -1) : t \in Failing(s)}
           Write(s, volume) ==
             IF volume = "NULL" THEN {Out(s, 1)}
             ELSE (IF entry.intact THEN Finish(s, volume) ELSE Spoilt(s, volume))
                    \cup UNION {Spoilt(t, volume) : t \in Failing(s)}
           Unmounted(s, ret) ==
             IF ret < 0 THEN {Out(s, 1)}
             ELSE Then(get_root_mtd_partition(s, RootOf(argv[2])), Write)
           X == Then(ensure_root_path_unmounted(c.s, RootOf(argv[2])), Unmounted)
<1>1. \/ \E ret : cmd_write_raw_image(c, argv) = {Out(c, ret)}
      \/ cmd_write_raw_image(c, argv) = FailIf(entry = NoEntry, c, With(c, X))
  BY Zenon DEF cmd_write_raw_image
<1>2. \A ret : ContextFollows(c, {Out(c, ret)})
  BY SameKeeps DEF ContextFollows, Out
<1>3. ASSUME entry # NoEntry
      PROVE  AllFollow(c.s, X)
  <2>1. {entry.name} \in SUBSET STRING
    <3>1. entry = mzFindZipEntry(c.zip, FileOf(argv[1]))
      BY <1>3 DEF PackageEntry
    <3> HIDE DEF entry
    <3>2. entry.name \in Names
      <4>1. FoundOf(entry, cd, FileOf(argv[1]))
        BY <3>1, LookupFinds
      <4>2. entry = Placed(cd, entry.at) /\ entry.at \in 1..Len(cd)
        BY <1>3, <4>1 DEF FoundOf
      <4>3. entry \in EntryType
        BY <4>2, PlacedIsEntry
      <4>4. QED
        BY <4>3 DEF EntryType
    <3>3. QED
      BY <3>2, NamesAssumption
  <2> HIDE DEF entry
  <2>2. ASSUME NEW s \in Storage, NEW volume \in VolumeNames, NEW o \in Write(s, volume)
        PROVE  Follows(s, o.s)
    <3>1. volume # "NULL" /\ volume \in Places
      BY DEF VolumeNames, Places
    <3>2. ASSUME NEW t \in Storage
          PROVE  Follows(t, Written(t, volume)) /\ Follows(t, Emptied(t, volume))
      BY <2>1, <3>1, NewFilesAt, EmptiedFollows
    <3>3. \A t \in Failing(s) : Follows(s, t) /\ t \in Storage
      BY FailingKeeps, FollowOn
    <3>4. \/ o \in Finish(s, volume) \/ o \in Spoilt(s, volume)
          \/ \E t \in Failing(s) : o \in Spoilt(t, volume)
      <4> HIDE DEF Finish, Spoilt
      <4>1. QED
        BY <3>1
    <3>5. \A t : \A q \in Spoilt(t, volume) : q.s = t \/ q.s = Emptied(t, volume)
      BY DEF Out
    <3>6. \A q \in Finish(s, volume) :
            \/ q.s = Written(s, volume) \/ \E t \in Failing(s) : q.s = Written(t, volume)
      <4> HIDE DEF Written
      <4>1. QED
        BY DEF Out
    <3> HIDE DEF Written, Spoilt, Finish, Write
    <3>7. CASE o.s = s \/ o.s = Emptied(s, volume) \/ o.s = Written(s, volume)
      BY <3>2, <3>7, SameKeeps
    <3>8. ASSUME NEW t \in Failing(s),
                 o.s = t \/ o.s = Emptied(t, volume) \/ o.s = Written(t, volume)
          PROVE  Follows(s, o.s)
      <4>1. Follows(t, o.s)
        BY <3>2, <3>3, <3>8, SameKeeps
      <4>2. QED
        BY <3>3, <4>1, FollowOn
    <3>9. QED
      BY <3>4, <3>5, <3>6, <3>7, <3>8
  <2>3. \A s : \A o \in Write(s, "NULL") : o.s = s
    BY DEF Out
  <2> HIDE DEF Write
  <2> SUFFICES ASSUME NEW o \in X PROVE Follows(c.s, o.s)
    BY DEF AllFollow
  <2>4. PICK p \in ensure_root_path_unmounted(c.s, RootOf(argv[2])) :
          o \in Unmounted(p.s, p.ret)
    BY DEF Then
  <2> HIDE DEF X
  <2>5. Follows(c.s, p.s) /\ p.s \in Storage
    BY EnsureUnmounted, FollowOn DEF AllKeep
  <2>6. CASE o = Out(p.s, 1)
    BY <2>5, <2>6 DEF Out
  <2>7. CASE \E q \in get_root_mtd_partition(p.s, RootOf(argv[2])) : o \in Write(q.s, q.ret)
    <3>1. PICK q \in get_root_mtd_partition(p.s, RootOf(argv[2])) : o \in Write(q.s, q.ret)
      BY <2>7
    <3> HIDE DEF Unmounted
    <3>2. Follows(p.s, q.s) /\ q.s \in Storage /\ q.ret \in VolumeNames \cup {"NULL"}
      <4> DEFINE found == get_root_mtd_partition(p.s, RootOf(argv[2]))
      <4>1. AllKeep(p.s, found) /\ \A r \in found : r.ret \in VolumeNames \cup {"NULL"}
        BY <2>5, PartitionKeeps
      <4>2. q \in found
        OBVIOUS
      <4> HIDE DEF found
      <4>3. Keeps(p.s, q.s) /\ q.ret \in VolumeNames \cup {"NULL"}
        BY <4>1, <4>2 DEF AllKeep
      <4>4. QED
        BY <2>5, <4>3, FollowOn
    <3>3. Follows(q.s, o.s)
      <4>1. CASE q.ret = "NULL"
        BY <2>3, <3>1, <3>2, <4>1, SameKeeps
      <4>2. CASE q.ret \in VolumeNames
        BY <2>2, <3>1, <3>2, <4>2
      <4>3. QED
        BY <3>2, <4>1, <4>2
    <3>4. QED
      BY <2>5, <3>2, <3>3, FollowOn
  <2>8. QED
    BY <2>4, <2>6, <2>7 DEF Then
<1> HIDE DEF X, entry, Unmounted, Write, Finish, Spoilt, Written
<1>4. CASE \E ret : cmd_write_raw_image(c, argv) = {Out(c, ret)}
  <2>1. PICK ret : cmd_write_raw_image(c, argv) = {Out(c, ret)}
    BY <1>4
  <2>2. ContextFollows(c, {Out(c, ret)})
    BY <1>2
  <2>3. QED
    BY Zenon, <2>1, <2>2
<1>5. CASE cmd_write_raw_image(c, argv) = FailIf(entry = NoEntry, c, With(c, X))
  <2> DEFINE wrong == entry = NoEntry
  <2>1. cmd_write_raw_image(c, argv) = FailIf(wrong, c, With(c, X))
    BY <1>5
  <2>2. ~wrong => ContextFollows(c, With(c, X))
    BY <1>3, WithFollows
  <2> HIDE DEF wrong
  <2>3. QED
    BY <2>1, <2>2, FailIfFollows
<1>6. QED
  BY <1>1, <1>4, <1>5

\* Whatever a command does, it leaves a storage: of the same device, with the
\* same files open, and with no more failures to come than before.
LEMMA CommandFollows ==
  ASSUME NEW c, c.s \in Storage, "s" \in DOMAIN c,
         NEW cd \in Seq(EntryType), ArchiveOf(c.zip, cd),
         NEW it \in CommandType, WellFormed(it), it.cmd \in Commands
  PROVE  ContextFollows(c, execCommand(c, it))
<1> DEFINE argv == it.argv
<1>1. argv \in Seq(STRING) /\ it.test \in AmendExpressions \cup {<<>>}
  BY DEF CommandType
<1> HIDE DEF argv
<1>2. ContextFollows(c, {Out(c, 0)}) /\ ContextFollows(c, {Out(c, -1)})
  BY SameKeeps DEF ContextFollows, Out
<1>3. ContextFollows(c, cmd_show_progress(c, argv)) /\ ContextFollows(c, cmd_mark(c))
  BY <1>2, FailIfFollows DEF cmd_show_progress, cmd_mark
<1>4. CASE it.cmd = "assert"
  <2>1. execCommand(c, it) = cmd_assert(c, it.test)
    BY <1>4 DEF execCommand
  <2>2. it.test \in AmendExpressions
    BY <1>1, <1>4 DEF WellFormed
  <2>3. QED
    BY <2>1, <2>2, AssertFollows
<1>5. CASE it.cmd # "assert"
  <2>1. execCommand(c, it) \in
         {cmd_format(c, argv), cmd_delete(c, argv, FALSE),
          cmd_delete(c, argv, TRUE), cmd_copy_dir(c, argv), cmd_run_program(c, argv),
          cmd_set_perm(c, argv, 3), cmd_set_perm(c, argv, 4), cmd_show_progress(c, argv),
          cmd_symlink(c, argv), cmd_write_firmware_image(c, argv),
          cmd_write_raw_image(c, argv), cmd_mark(c)}
    BY <1>5 DEF execCommand, Commands, argv
  <2>2. /\ ContextFollows(c, cmd_format(c, argv)) /\ ContextFollows(c, cmd_delete(c, argv, FALSE))
        /\ ContextFollows(c, cmd_delete(c, argv, TRUE)) /\ ContextFollows(c, cmd_copy_dir(c, argv))
        /\ ContextFollows(c, cmd_run_program(c, argv)) /\ ContextFollows(c, cmd_set_perm(c, argv, 3))
        /\ ContextFollows(c, cmd_set_perm(c, argv, 4)) /\ ContextFollows(c, cmd_symlink(c, argv))
        /\ ContextFollows(c, cmd_write_firmware_image(c, argv))
        /\ ContextFollows(c, cmd_write_raw_image(c, argv))
    BY <1>1, CommandFormats, DeleteFollows, CopyFollows, ProgramFollows, PermFollows, LinkFollows, FirmwareFollows, RawImageFollows
  <2>3. QED
    BY <1>3, <2>1, <2>2
<1>6. QED
  BY <1>4, <1>5

-----------------------------------------------------------------------------
(* The evaluator of edify                                                  *)

\* What a function may return, and what an argument may be worth.
Returned == Texts \cup Ends \cup {"RAW"}
Worth == Texts \cup Ends

\* The states that may follow one of the evaluator, and outcomes in them.
Onward(ev) == {u \in EvaluatorStates(ev.zip) : Leads(ev.s, u.s)}
Good(ev, X) == {Out(t, v) : t \in Onward(ev), v \in X}

LEMMA EvaluatorFields ==
  ASSUME NEW zip, NEW ev \in EvaluatorStates(zip)
  PROVE  /\ ev.s \in Storage /\ ev.zip = zip /\ ev.out \in Seq(PieceType)
         /\ ev.errmsg \in STRING /\ ev \in Onward(ev)
<1>1. /\ ev.s \in Storage /\ ev.zip = zip /\ ev.out \in Seq(PieceType)
      /\ ev.errmsg \in STRING
  BY DEF EvaluatorStates
<1>2. QED
  BY <1>1, SameKeeps DEF Onward

\* One step of the evaluator: on the storage, the output or the message.
LEMMA EvaluatorSteps ==
  ASSUME NEW zip, NEW ev \in EvaluatorStates(zip)
  PROVE  /\ \A s : Leads(ev.s, s) \/ Follows(ev.s, s) => [ev EXCEPT !.s = s] \in Onward(ev)
         /\ \A out \in Seq(PieceType) : [ev EXCEPT !.out = out] \in Onward(ev)
         /\ \A msg \in STRING : [ev EXCEPT !.errmsg = msg] \in Onward(ev)
<1>1. /\ ev.s \in Storage /\ ev.zip = zip /\ ev.out \in Seq(PieceType)
      /\ ev.errmsg \in STRING /\ Leads(ev.s, ev.s)
  BY EvaluatorFields, SameKeeps
<1>2. ASSUME NEW s, Leads(ev.s, s) \/ Follows(ev.s, s)
      PROVE  [ev EXCEPT !.s = s] \in Onward(ev)
  <2>1. s \in Storage /\ Leads(ev.s, s)
    BY <1>1, <1>2, FollowOn
  <2>2. QED
    BY <1>1, <1>2, <2>1 DEF Onward, EvaluatorStates
<1>3. ASSUME NEW out \in Seq(PieceType)
      PROVE  [ev EXCEPT !.out = out] \in Onward(ev)
  BY <1>1 DEF Onward, EvaluatorStates
<1>4. ASSUME NEW msg \in STRING
      PROVE  [ev EXCEPT !.errmsg = msg] \in Onward(ev)
  BY <1>1 DEF Onward, EvaluatorStates
<1>5. QED
  BY <1>2, <1>3, <1>4

LEMMA FurtherOn ==
  ASSUME NEW zip, NEW ev \in EvaluatorStates(zip), NEW t \in Onward(ev)
  PROVE  /\ t \in EvaluatorStates(zip) /\ t.s \in Storage
         /\ \A u \in Onward(t) : u \in Onward(ev)
         /\ \A X : Good(t, X) \subseteq Good(ev, X)
<1>1. ev.zip = zip /\ ev.s \in Storage
  BY EvaluatorFields
<1>2. t \in EvaluatorStates(zip) /\ Leads(ev.s, t.s)
  BY <1>1 DEF Onward
<1>3. t.zip = zip /\ t.s \in Storage
  BY <1>2, EvaluatorFields
<1>4. \A u \in Onward(t) : u \in Onward(ev)
  BY <1>1, <1>2, <1>3, FollowOn DEF Onward
<1>5. QED
  BY <1>2, <1>3, <1>4 DEF Good

LEMMA GoodIs ==
  ASSUME NEW ev, NEW X, NEW o \in Good(ev, X)
  PROVE  o.s \in Onward(ev) /\ o.ret \in X /\ o = Out(o.s, o.ret)
BY DEF Good, Out

LEMMA GoodOne ==
  ASSUME NEW ev, NEW X, NEW t \in Onward(ev), NEW v \in X
  PROVE  Out(t, v) \in Good(ev, X)
BY DEF Good

LEMMA GoodMore ==
  ASSUME NEW ev, NEW X, NEW Y, X \subseteq Y
  PROVE  Good(ev, X) \subseteq Good(ev, Y)
BY DEF Good

LEMMA AbortIsGood ==
  ASSUME NEW zip, NEW ev \in EvaluatorStates(zip)
  PROVE  ErrorAbort(ev) \subseteq Good(ev, Ends)
<1>1. [ev EXCEPT !.errmsg = "message"] \in Onward(ev)
  BY EvaluatorSteps, EdifyAssumption
<1>2. "NULL" \in Ends
  BY DEF Ends
<1>3. QED
  BY <1>1, <1>2, GoodOne DEF ErrorAbort

LEMMA RawIsGood ==
  ASSUME NEW zip, NEW ev \in EvaluatorStates(zip), NEW outcomes,
         AllLead(ev.s, outcomes) \/ AllFollow(ev.s, outcomes)
  PROVE  Raw(ev, outcomes) \subseteq Good(ev, {"RAW"})
<1> SUFFICES ASSUME NEW o \in outcomes
             PROVE  Out([ev EXCEPT !.s = o.s], "RAW") \in Good(ev, {"RAW"})
  BY DEF Raw
<1>1. [ev EXCEPT !.s = o.s] \in Onward(ev)
  BY EvaluatorSteps DEF AllLead, AllFollow
<1>2. QED
  BY <1>1, GoodOne

LEMMA UnlessIsGood ==
  ASSUME NEW zip, NEW ev \in EvaluatorStates(zip), NEW wrong, NEW outcomes, NEW X,
         ~wrong => outcomes \subseteq Good(ev, X)
  PROVE  Unless(wrong, ev, outcomes) \subseteq Good(ev, X \cup Ends)
<1>1. Good(ev, X) \subseteq Good(ev, X \cup Ends) /\ Good(ev, Ends) \subseteq Good(ev, X \cup Ends)
  BY GoodMore
<1>2. QED
  BY <1>1, AbortIsGood DEF Unless

LEMMA EvaluateIsGood ==
  ASSUME NEW zip, NEW ev \in EvaluatorStates(zip), NEW outcomes,
         outcomes \subseteq Good(ev, Returned)
  PROVE  Evaluate(outcomes) \subseteq Good(ev, Worth)
<1> SUFFICES ASSUME NEW o \in Evaluate(outcomes)
             PROVE  o \in Good(ev, Worth)
  OBVIOUS
<1>1. PICK p \in outcomes :
        o \in IF p.ret \in Ends THEN {Out(p.s, p.ret)}
              ELSE IF p.ret = "RAW" THEN ErrorAbort(p.s) \cup {Out(p.s, "CRASH")}
              ELSE {Out(p.s, p.ret)}
  BY DEF Evaluate, Bind, Then
<1>2. p.s \in Onward(ev) /\ p.ret \in Returned
  BY GoodIs
<1>3. ErrorAbort(p.s) \subseteq Good(ev, Ends)
  BY <1>2, FurtherOn, AbortIsGood
<1>4. Good(ev, Ends) \subseteq Good(ev, Worth) /\ "CRASH" \in Worth
  BY GoodMore DEF Worth, Ends
<1>5. CASE o = Out(p.s, p.ret) /\ p.ret # "RAW"
  <2>1. p.ret \in Worth
    BY <1>2, <1>5 DEF Returned, Worth
  <2>2. QED
    BY <1>2, <1>5, <2>1, GoodOne
<1>6. CASE o = Out(p.s, "CRASH")
  BY <1>2, <1>4, <1>6, GoodOne
<1>7. "RAW" \notin Ends
  BY DEF Ends
<1>8. QED
  BY <1>1, <1>3, <1>4, <1>5, <1>6, <1>7

LEMMA FreeIsGood ==
  ASSUME NEW zip, NEW ev \in EvaluatorStates(zip), NEW v
  PROVE  FreeValue(ev, v) \subseteq Good(ev, {"", "CRASH"})
<1>1. ev \in Onward(ev)
  BY EvaluatorFields
<1>2. Out(ev, "") \in Good(ev, {"", "CRASH"}) /\ Out(ev, "CRASH") \in Good(ev, {"", "CRASH"})
  BY <1>1, GoodOne
<1>3. QED
  BY <1>2 DEF FreeValue

\* What the code itself writes into values and pieces.
LEMMA TextsOfCode ==
  /\ {"", "t", "several texts", "hboot", "PACKAGE:radio.img"} \subseteq Texts
  /\ {"ui_print", "firmware", "progress", "set_progress"} \subseteq STRING
BY EdifyAssumption DEF Texts

-----------------------------------------------------------------------------
(* What the functions of install.c do to the storage                       *)

LEMMA OneFollows ==
  ASSUME NEW s \in Storage, NEW ret
  PROVE  AllFollow(s, {Out(s, ret)}) /\ AllLead(s, {Out(s, ret)})
BY SameKeeps DEF AllFollow, AllLead, Out

\* Two calls, one on what the other leaves.
LEMMA OnStorage ==
  ASSUME NEW s \in Storage, NEW t, Follows(s, t), NEW outcomes, AllFollow(t, outcomes)
  PROVE  AllFollow(s, outcomes) /\ t \in Storage
<1>1. t \in Storage
  BY FollowOn
<1>2. QED
  BY <1>1, FollowOn DEF AllFollow

LEMMA MmcMounts ==
  ASSUME NEW s \in Storage, NEW volume, NEW point \in STRING
  PROVE  AllLead(s, mmc_mount_partition(s, volume, point))
<1>1. CASE volume \notin ToSet(ext3_partitions)
  BY <1>1, OneFollows DEF mmc_mount_partition
<1>2. CASE volume \in ToSet(ext3_partitions)
  <2>1. volume \in VolumeNames
    BY <1>2 DEF ToSet, ext3_partitions, VolumeNames
  <2> DEFINE X == mmc_mount_partition(s, volume, point)
  <2> SUFFICES ASSUME NEW o \in X PROVE Leads(s, o.s)
    BY DEF AllLead
  <2>2. PICK p \in mount(s, volume, point, "ext3", FALSE) :
          o \in IF p.ret < 0 THEN mount(p.s, volume, point, "ext3", TRUE) ELSE {Out(p.s, p.ret)}
    BY <1>2 DEF mmc_mount_partition, Then
  <2> HIDE DEF X
  <2>3. Leads(s, p.s) /\ p.s \in Storage
    BY <2>1, MountKeeps, MountsOn DEF AllMount
  <2>4. CASE o \in mount(p.s, volume, point, "ext3", TRUE)
    <3>1. Leads(p.s, o.s)
      BY <2>1, <2>3, <2>4, MountKeeps, MountsOn DEF AllMount
    <3>2. QED
      BY <2>3, <3>1, FollowOn
  <2>5. CASE o = Out(p.s, p.ret)
    BY <2>3, <2>5 DEF Out
  <2>6. QED
    BY <2>2, <2>4, <2>5
<1>3. QED
  BY <1>1, <1>2

LEMMA MountedAs ==
  ASSUME NEW s \in Storage, NEW type, NEW location, NEW point \in STRING
  PROVE  AllLead(s, MountAs(s, type, location, point))
<1> DEFINE X == MountAs(s, type, location, point)
<1> SUFFICES ASSUME NEW o \in X PROVE Leads(s, o.s)
  BY DEF AllLead
<1>1. CASE type = "MTD"
  <2>1. PICK p \in mtd_find_partition(s, location) :
          o \in IF p.ret = "NULL" THEN {Out(p.s, -1)}
                ELSE mtd_mount_partition(p.s, p.ret, point, "yaffs2")
    BY <1>1 DEF MountAs, OnFound, Then
  <2> HIDE DEF X
  <2>2. Leads(s, p.s) /\ p.s \in Storage /\ p.ret \in VolumeNames \cup {"NULL"}
    BY MtdFound, FollowOn
  <2>3. CASE o = Out(p.s, -1)
    BY <2>2, <2>3 DEF Out
  <2>4. CASE p.ret \in VolumeNames /\ o \in mtd_mount_partition(p.s, p.ret, point, "yaffs2")
    <3>1. Leads(p.s, o.s)
      BY <2>2, <2>4, MtdMounts, MountsOn DEF AllMount
    <3>2. QED
      BY <2>2, <3>1, FollowOn
  <2>5. QED
    BY <2>1, <2>2, <2>3, <2>4
<1>2. CASE type = "MMC"
  <2>1. PICK p \in mmc_find_partition(s, location) :
          o \in IF p.ret = "NULL" THEN {Out(p.s, -1)}
                ELSE mmc_mount_partition(p.s, p.ret, point)
    BY <1>2 DEF MountAs, OnFound, Then
  <2> HIDE DEF X
  <2>2. Leads(s, p.s) /\ p.s \in Storage
    BY MmcFound, FollowOn
  <2>3. CASE o = Out(p.s, -1)
    BY <2>2, <2>3 DEF Out
  <2>4. CASE o \in mmc_mount_partition(p.s, p.ret, point)
    <3>1. Leads(p.s, o.s)
      BY <2>2, <2>4, MmcMounts DEF AllLead
    <3>2. QED
      BY <2>2, <3>1, FollowOn
  <2>5. QED
    BY <2>1, <2>3, <2>4
<1>3. CASE type \notin {"MTD", "MMC"}
  <2>1. o \in IF location \in VolumeNames
              THEN mount(s, location, point, type, FALSE) ELSE {Out(s, -1)}
    BY <1>3 DEF MountAs
  <2> HIDE DEF X
  <2>2. CASE location \in VolumeNames
    BY <2>1, <2>2, MountKeeps, MountsOn DEF AllMount
  <2>3. CASE location \notin VolumeNames
    BY <2>1, <2>3, OneFollows DEF AllLead
  <2>4. QED
    BY <2>2, <2>3
<1>4. QED
  BY <1>1, <1>2, <1>3

LEMMA FormattedAs ==
  ASSUME NEW s \in Storage, NEW type, NEW location
  PROVE  AllFollow(s, FormatAsType(s, type, location))
<1> DEFINE X == FormatAsType(s, type, location)
<1> SUFFICES ASSUME NEW o \in X PROVE Follows(s, o.s)
  BY DEF AllFollow
<1>1. CASE type = "MTD"
  <2>1. PICK p \in mtd_find_partition(s, location) :
          o \in IF p.ret = "NULL" THEN {Out(p.s, -1)} ELSE EraseMtd(p.s, p.ret)
    BY <1>1 DEF FormatAsType, OnFound, Then
  <2> HIDE DEF X
  <2>2. Follows(s, p.s) /\ p.s \in Storage /\ p.ret \in VolumeNames \cup {"NULL"}
    BY MtdFound, FollowOn
  <2>3. CASE o = Out(p.s, -1)
    BY <2>2, <2>3 DEF Out
  <2>4. CASE p.ret \in VolumeNames /\ o \in EraseMtd(p.s, p.ret)
    <3>1. p.ret \in Places
      BY <2>4 DEF Places
    <3>2. Follows(p.s, o.s)
      BY <2>2, <2>4, <3>1, EraseFollows DEF AllFollow
    <3>3. QED
      BY <2>2, <3>2, FollowOn
  <2>5. QED
    BY <2>1, <2>2, <2>3, <2>4
<1>2. CASE type = "MMC"
  <2>1. PICK p \in mmc_find_partition(s, location) :
          o \in IF p.ret = "NULL" THEN {Out(p.s, -1)} ELSE format_ext3(p.s, p.ret)
    BY <1>2 DEF FormatAsType, OnFound, Then
  <2> HIDE DEF X
  <2>2. Follows(s, p.s) /\ p.s \in Storage
    BY MmcFound, FollowOn
  <2>3. CASE o = Out(p.s, -1)
    BY <2>2, <2>3 DEF Out
  <2>4. CASE o \in format_ext3(p.s, p.ret)
    <3>1. Follows(p.s, o.s)
      BY <2>2, <2>4, FormatFollows DEF AllFollow
    <3>2. QED
      BY <2>2, <3>1, FollowOn
  <2>5. QED
    BY <2>1, <2>3, <2>4
<1>3. CASE type \notin {"MTD", "MMC"}
  <2>1. o \in {Out(s, 0)}
    BY <1>3 DEF FormatAsType
  <2> HIDE DEF X
  <2>2. QED
    BY <2>1, OneFollows DEF AllFollow
<1>4. QED
  BY <1>1, <1>2, <1>3

LEMMA UnmountedAt ==
  ASSUME NEW s \in Storage, NEW point
  PROVE  AllFollow(s, Then(scan_mounted_volumes(s, point), LAMBDA t, seen :
                        IF seen = "mounted" THEN umount(t, point) ELSE {Out(t, -1)}))
<1> DEFINE X == Then(scan_mounted_volumes(s, point), LAMBDA t, seen :
                  IF seen = "mounted" THEN umount(t, point) ELSE {Out(t, -1)})
<1> SUFFICES ASSUME NEW o \in X PROVE Follows(s, o.s)
  BY DEF AllFollow
<1>1. PICK p \in scan_mounted_volumes(s, point) :
        o \in IF p.ret = "mounted" THEN umount(p.s, point) ELSE {Out(p.s, -1)}
  BY DEF Then
<1> HIDE DEF X
<1>2. Follows(s, p.s) /\ p.s \in Storage
  BY ScanKeeps, FollowOn
<1>3. CASE p.ret = "mounted"
  <2>1. Keeps(p.s, o.s)
    BY <1>1, <1>2, <1>3, ScanKeeps, UmountKeeps DEF AllKeep
  <2>2. QED
    BY <1>2, <2>1, FollowOn
<1>4. CASE o = Out(p.s, -1)
  BY <1>2, <1>4 DEF Out
<1>5. QED
  BY <1>1, <1>3, <1>4

LEMMA CreatedAt ==
  ASSUME NEW s \in Storage, NEW path
  PROVE  AllFollow(s, create(s, path))
<1>1. CASE path \in DOMAIN Paths
  <2> DEFINE p == Paths[path]
  <2>1. p.file \in STRING
    BY <1>1, EdifyAssumption
  <2>2. create(s, path) = Try(s, Put(s, p.point, p.file), -1) \/ create(s, path) = {Out(s, -1)}
    BY Zenon DEF create
  <2> HIDE DEF p
  <2>3. Follows(s, Put(s, p.point, p.file))
    BY <2>1, OneFile DEF Put
  <2>4. QED
    BY <2>2, <2>3, TryFollows, OneFollows
<1>2. CASE path \notin DOMAIN Paths
  <2>1. create(s, path) = {Out(s, -1)}
    BY <1>2 DEF create
  <2>2. QED
    BY <2>1, OneFollows
<1>3. QED
  BY <1>1, <1>2

LEMMA Unlinked ==
  ASSUME NEW s \in Storage, NEW path
  PROVE  /\ AllFollow(s, unlink(s, path)) /\ AllFollow(s, dirUnlinkHierarchy(s, path))
<1> DEFINE p == Paths[path]
<1>1. \/ unlink(s, path) = Try(s, Drop(s, p.point, p.file), -1)
      \/ unlink(s, path) = {Out(s, -1)}
  <2>1. CASE path \notin DOMAIN Paths
    BY <2>1 DEF unlink
  <2>2. CASE path \in DOMAIN Paths /\ p.file = "NULL"
    BY <2>2 DEF unlink
  <2>3. CASE path \in DOMAIN Paths /\ p.file # "NULL"
    BY <2>3 DEF unlink
  <2>4. QED
    BY <2>1, <2>2, <2>3
<1>2. \/ dirUnlinkHierarchy(s, path) = RemoveAll(s, p.point)
      \/ dirUnlinkHierarchy(s, path) = unlink(s, path)
  BY Zenon DEF dirUnlinkHierarchy
<1> HIDE DEF p
<1>3. Follows(s, Drop(s, p.point, p.file))
  BY OneFile DEF Drop
<1>4. AllFollow(s, unlink(s, path))
  BY <1>1, <1>3, TryFollows, OneFollows
<1>5. QED
  BY <1>2, <1>4, RemoveFollows


LEMMA NotEmptyList ==
  ASSUME NEW S, NEW list \in Seq(S), list # <<>>
  PROVE  Len(list) \in Nat \ {0} /\ 1 \in DOMAIN list
OBVIOUS

\* delete and symlink: the storages that may follow each turn of their loops.
LEMMA DeletedIsGood ==
  ASSUME NEW zip, NEW ev \in EvaluatorStates(zip), NEW v \in Seq(Texts), NEW recursive
  PROVE  DeleteFn(ev, v, recursive) \subseteq Good(ev, {"RAW"})
<1> DEFINE Delete(s, path) ==
             IF recursive THEN dirUnlinkHierarchy(s, path) ELSE unlink(s, path)
           n == Len(v)
           U == SUBSET After(ev.s)
           V == [k \in 0..n |-> U]
           start == {ev.s}
           Turn(states, k) == {o.s : o \in UNION {Delete(s, v[k]) : s \in states}}
           Turned(f) == [k \in 0..n |-> IF k = 0 THEN start ELSE Turn(f[k - 1], k)]
           after == CHOOSE f : f = Turned(f)
           turn == [k \in 1..n |-> [x \in U |-> Turn(x, k)]]
<1>0. ASSUME NEW s \in Storage, NEW path
      PROVE  AllFollow(s, Delete(s, path))
  BY Unlinked
<1>1. n \in Nat /\ start \in U
  BY EvaluatorFields, SameKeeps DEF After
<1> HIDE DEF Delete
<1>2. \A k \in 1..n : \A x \in U : Turn(x, k) \in U
  <2> TAKE k \in 1..n
  <2> TAKE x \in U
  <2>1. ASSUME NEW s \in x, NEW o \in Delete(s, v[k])
        PROVE  o.s \in After(ev.s)
    <3>1. s \in After(ev.s) /\ s \in Storage
      BY EvaluatorFields, AfterAll
    <3>2. Follows(s, o.s)
      BY <1>0, <3>1 DEF AllFollow
    <3>3. QED
      BY <3>1, <3>2, EvaluatorFields, AfterAll
  <2>2. QED
    BY <2>1
<1> HIDE DEF start
<1>3. \E f : f = Turned(f)
  <2>1. \A k \in 1..n : \A x \in U : turn[k][x] = Turn(x, k)
    <3> HIDE DEF Turn, U
    <3>1. QED
      OBVIOUS
  <2> HIDE DEF Turn, turn, U
  <2>2. \A k \in 1..n : \A x \in V[k - 1] : turn[k][x] \in V[k]
    <3>1. \A k \in 1..n : V[k - 1] = U /\ V[k] = U
      BY <1>1
    <3>2. QED
      BY <2>1, <1>2, <3>1
  <2>3. 0 \in 0..n /\ start \in V[0]
    BY <1>1
  <2> HIDE DEF V
  <2>4. PICK f : Values(f, n, start, turn) /\ \A k \in 0..n : f[k] \in V[k]
    BY <1>1, <2>2, <2>3, LoopExists
  <2>5. \A k \in 0..n : k = 0 \/ (turn[k][f[k - 1]] = Turn(f[k - 1], k))
    <3>1. \A k \in 1..n : f[k - 1] \in U
      BY <1>1, <2>4 DEF V
    <3>2. QED
      BY <1>1, <2>1, <3>1
  <2>6. f = Turned(f)
    BY <2>4, <2>5 DEF Values
  <2>7. QED
    BY <2>6, Zenon
<1>4. after = Turned(after)
  <2> HIDE DEF Turned
  <2>1. QED
    BY <1>3, Zenon
<1>5. after[0] = start /\ \A k \in 1..n : after[k] = Turn(after[k - 1], k)
  <2> HIDE DEF after, Turn, U
  <2>1. \A k \in 0..n : after[k] = IF k = 0 THEN start ELSE Turn(after[k - 1], k)
    BY <1>4, Zenon
  <2>2. 0 \in 0..n /\ \A k \in 1..n : k \in 0..n /\ k # 0
    BY <1>1
  <2>3. QED
    BY <2>1, <2>2
<1>6. after[n] \in U
  <2> HIDE DEF after, Turn, U, turn
  <2>1. \A k \in 0..n : V[k] = U
    OBVIOUS
  <2> HIDE DEF V
  <2>2. after[0] \in V[0] /\ n \in 0..n
    BY <1>1, <1>5, <2>1
  <2>3. \A k \in 1..n : after[k - 1] \in V[k - 1] => after[k] \in V[k]
    <3>1. \A k \in 1..n : k - 1 \in 0..n /\ k \in 0..n
      BY <1>1
    <3>2. QED
      BY <1>2, <1>5, <2>1, <3>1
  <2>4. QED
    BY <1>1, <2>1, <2>2, <2>3, LoopStays
<1>7. DeleteFn(ev, v, recursive) = Raw(ev, {Out(s, 0) : s \in after[n]})
  BY Zenon DEF DeleteFn, Loop, start, Delete
<1> HIDE DEF after, n
<1>8. AllFollow(ev.s, {Out(s, 0) : s \in after[n]})
  BY <1>6 DEF AllFollow, Out, After
<1>9. QED
  BY <1>7, <1>8, RawIsGood

LEMMA LinkedIsGood ==
  ASSUME NEW zip, NEW ev \in EvaluatorStates(zip), NEW v \in Seq(Texts), v # <<>>
  PROVE  SymlinkFn(ev, v) \subseteq Good(ev, {"RAW"})
<1> DEFINE n == Len(v) - 1
           U == SUBSET After(ev.s)
           V == [k \in 0..n |-> U]
           start == {ev.s}
           Turn(states, k) == {o.s : o \in UNION {create(s, v[k + 1]) : s \in states}}
           Turned(f) == [k \in 0..n |-> IF k = 0 THEN start ELSE Turn(f[k - 1], k)]
           after == CHOOSE f : f = Turned(f)
           turn == [k \in 1..n |-> [x \in U |-> Turn(x, k)]]
<1>1. n \in Nat /\ start \in U
  <2>1. start \in U
    BY EvaluatorFields, SameKeeps DEF After
  <2>2. Len(v) \in Nat \ {0}
    BY NotEmptyList
  <2>3. QED
    BY <2>1, <2>2
<1>2. \A k \in 1..n : \A x \in U : Turn(x, k) \in U
  <2> TAKE k \in 1..n
  <2> TAKE x \in U
  <2>1. ASSUME NEW s \in x, NEW o \in create(s, v[k + 1])
        PROVE  o.s \in After(ev.s)
    <3>1. s \in After(ev.s) /\ s \in Storage
      BY EvaluatorFields, AfterAll
    <3>2. Follows(s, o.s)
      BY <3>1, CreatedAt DEF AllFollow
    <3>3. QED
      BY <3>1, <3>2, EvaluatorFields, AfterAll
  <2>2. QED
    BY <2>1
<1> HIDE DEF start
<1>3. \E f : f = Turned(f)
  <2>1. \A k \in 1..n : \A x \in U : turn[k][x] = Turn(x, k)
    <3> HIDE DEF Turn, U
    <3>1. QED
      OBVIOUS
  <2> HIDE DEF Turn, turn, U
  <2>2. \A k \in 1..n : \A x \in V[k - 1] : turn[k][x] \in V[k]
    <3>1. \A k \in 1..n : V[k - 1] = U /\ V[k] = U
      BY <1>1
    <3>2. QED
      BY <2>1, <1>2, <3>1
  <2>3. 0 \in 0..n /\ start \in V[0]
    BY <1>1
  <2> HIDE DEF V
  <2>4. PICK f : Values(f, n, start, turn) /\ \A k \in 0..n : f[k] \in V[k]
    BY <1>1, <2>2, <2>3, LoopExists
  <2>5. \A k \in 0..n : k = 0 \/ (turn[k][f[k - 1]] = Turn(f[k - 1], k))
    <3>1. \A k \in 1..n : f[k - 1] \in U
      BY <1>1, <2>4 DEF V
    <3>2. QED
      BY <1>1, <2>1, <3>1
  <2>6. f = Turned(f)
    BY <2>4, <2>5 DEF Values
  <2>7. QED
    BY <2>6, Zenon
<1>4. after = Turned(after)
  <2> HIDE DEF Turned
  <2>1. QED
    BY <1>3, Zenon
<1>5. after[0] = start /\ \A k \in 1..n : after[k] = Turn(after[k - 1], k)
  <2> HIDE DEF after, Turn, U
  <2>1. \A k \in 0..n : after[k] = IF k = 0 THEN start ELSE Turn(after[k - 1], k)
    BY <1>4, Zenon
  <2>2. 0 \in 0..n /\ \A k \in 1..n : k \in 0..n /\ k # 0
    BY <1>1
  <2>3. QED
    BY <2>1, <2>2
<1>6. after[n] \in U
  <2> HIDE DEF after, Turn, U, turn
  <2>1. \A k \in 0..n : V[k] = U
    OBVIOUS
  <2> HIDE DEF V
  <2>2. after[0] \in V[0] /\ n \in 0..n
    BY <1>1, <1>5, <2>1
  <2>3. \A k \in 1..n : after[k - 1] \in V[k - 1] => after[k] \in V[k]
    <3>1. \A k \in 1..n : k - 1 \in 0..n /\ k \in 0..n
      BY <1>1
    <3>2. QED
      BY <1>2, <1>5, <2>1, <3>1
  <2>4. QED
    BY <1>1, <2>1, <2>2, <2>3, LoopStays
<1>7. SymlinkFn(ev, v) = Raw(ev, {Out(s, 0) : s \in after[n]})
  BY Zenon DEF SymlinkFn, Loop, start
<1> HIDE DEF after, n
<1>8. AllFollow(ev.s, {Out(s, 0) : s \in after[n]})
  BY <1>6 DEF AllFollow, Out, After
<1>9. QED
  BY <1>7, <1>8, RawIsGood


LEMMA ReturnsIsGood ==
  ASSUME NEW zip, NEW ev \in EvaluatorStates(zip), NEW v, NEW X, v \in X
  PROVE  {Out(ev, v)} \subseteq Good(ev, X)
BY EvaluatorFields, GoodOne

LEMMA ExtractedDirIsGood ==
  ASSUME NEW zip, NEW ev \in EvaluatorStates(zip), NEW v,
         NEW cd \in Seq(EntryType), ArchiveOf(zip, cd)
  PROVE  PackageExtractDirFn(ev, v) \subseteq Good(ev, {"RAW"})
<1>1. ev.zip = zip /\ ev.s \in Storage
  BY EvaluatorFields
<1>2. CASE v[2] \notin DOMAIN Paths
  BY <1>2, ReturnsIsGood DEF PackageExtractDirFn
<1>3. CASE v[2] \in DOMAIN Paths
  <2> DEFINE X == mzExtractRecursive(ev.s, ev.zip, v[1], Paths[v[2]].point, TRUE)
  <2>1. PackageExtractDirFn(ev, v) = Raw(ev, X)
    BY <1>3 DEF PackageExtractDirFn
  <2>2. AllFollow(ev.s, X)
    BY <1>1, ExtractingFollows
  <2> HIDE DEF X
  <2>3. QED
    BY <2>1, <2>2, RawIsGood
<1>4. QED
  BY <1>2, <1>3

LEMMA ExtractedFileIsGood ==
  ASSUME NEW zip, NEW ev \in EvaluatorStates(zip), NEW v
  PROVE  PackageExtractFileFn(ev, v) \subseteq Good(ev, {"RAW"})
<1> DEFINE entry == mzFindZipEntry(ev.zip, v[1])
           p == Paths[v[2]]
           Emptying == {Out(Drop(o.s, p.point, p.file), o.ret) : o \in create(ev.s, v[2])}
           Fill(s, ret) ==
             IF ret < 0 THEN {Out(s, ret)}
             ELSE {Out(IF o.ret THEN Put(o.s, p.point, p.file) ELSE o.s, 0) :
                     o \in mzReadZipEntry(s, entry)}
           X == Then(Emptying, Fill)
           wrong == entry = NoEntry \/ v[2] \notin DOMAIN Paths
<1>1. ev.s \in Storage
  BY EvaluatorFields
<1>2. PackageExtractFileFn(ev, v) = IF wrong THEN {Out(ev, "RAW")} ELSE Raw(ev, X)
  BY Zenon DEF PackageExtractFileFn
<1>3. ASSUME ~wrong
      PROVE  AllFollow(ev.s, X)
  <2>1. p.file \in STRING
    BY <1>3, EdifyAssumption
  <2> HIDE DEF p, entry
  <2>2. ASSUME NEW s \in Storage
        PROVE  Follows(s, Put(s, p.point, p.file)) /\ Follows(s, Drop(s, p.point, p.file))
    BY <2>1, OneFile DEF Put, Drop
  <2> SUFFICES ASSUME NEW o \in X PROVE Follows(ev.s, o.s)
    BY DEF AllFollow
  <2>3. PICK q \in Emptying : o \in Fill(q.s, q.ret)
    BY DEF Then
  <2> HIDE DEF X
  <2>4. Follows(ev.s, q.s) /\ q.s \in Storage
    <3>1. PICK r \in create(ev.s, v[2]) : q = Out(Drop(r.s, p.point, p.file), r.ret)
      BY <2>3
    <3>2. Follows(ev.s, r.s) /\ r.s \in Storage
      BY <1>1, CreatedAt, FollowOn DEF AllFollow
    <3>3. q.s = Drop(r.s, p.point, p.file)
      BY <3>1 DEF Out
    <3>4. Follows(r.s, q.s)
      BY <2>2, <3>2, <3>3
    <3>5. QED
      BY <1>1, <3>2, <3>4, FollowOn
  <2> HIDE DEF Emptying
  <2>5. \/ o.s = q.s
        \/ \E r \in mzReadZipEntry(q.s, entry) : o.s = r.s \/ o.s = Put(r.s, p.point, p.file)
    BY <2>3 DEF Out
  <2> HIDE DEF Fill
  <2>6. CASE o.s = q.s
    BY <2>4, <2>6
  <2>7. ASSUME NEW r \in mzReadZipEntry(q.s, entry),
               o.s = r.s \/ o.s = Put(r.s, p.point, p.file)
        PROVE  Follows(ev.s, o.s)
    <3>1. Follows(q.s, r.s) /\ r.s \in Storage
      BY <2>4, ReadKeeps, FollowOn DEF AllKeep
    <3>2. Follows(r.s, o.s)
      BY <2>2, <2>7, <3>1, SameKeeps
    <3>3. QED
      BY <1>1, <2>4, <3>1, <3>2, FollowOn
  <2>8. QED
    BY <2>5, <2>6, <2>7
<1> HIDE DEF X, wrong
<1>4. QED
  BY <1>2, <1>3, RawIsGood, ReturnsIsGood

LEMMA ImageWritten ==
  ASSUME NEW s \in Storage, NEW volume \in VolumeNames, NEW image \in STRING
  PROVE  AllFollow(s, WriteImage(s, volume, image))
<1> DEFINE X == WriteImage(s, volume, image)
<1> SUFFICES ASSUME NEW o \in X PROVE Follows(s, o.s)
  BY DEF AllFollow
<1>1. volume \in Places /\ {image} \in SUBSET STRING
  BY DEF Places
<1>2. \/ o.s = [s EXCEPT !.files[volume] = {image}]
      \/ \E t \in Failing(s) : o.s = t \/ o.s = Emptied(t, volume)
  BY DEF WriteImage, Out
<1> HIDE DEF X
<1>3. CASE o.s = [s EXCEPT !.files[volume] = {image}]
  BY <1>1, <1>3, NewFilesAt
<1>4. ASSUME NEW t \in Failing(s), o.s = t \/ o.s = Emptied(t, volume)
      PROVE  Follows(s, o.s)
  <2>1. Follows(s, t) /\ t \in Storage
    BY FailingKeeps, FollowOn
  <2>2. Follows(t, o.s)
    BY <1>1, <1>4, <2>1, SameKeeps, EmptiedFollows
  <2>3. QED
    BY <2>1, <2>2, FollowOn
<1>5. QED
  BY <1>2, <1>3, <1>4

LEMMA RawImageIsGood ==
  ASSUME NEW zip, NEW ev \in EvaluatorStates(zip), NEW v
  PROVE  WriteRawImageFn(ev, v) \subseteq Good(ev, {"RAW"} \cup Ends)
<1> DEFINE path == v[1]
           OnMmc(s) == OnFound(mmc_find_partition(s, v[2]), LAMBDA t, volume :
                         mmc_raw_copy(t, volume, path))
           OnMtd(s, volume) ==
             IF FileExists(s, path) THEN WriteImage(s, volume, Paths[path].file)
             ELSE {Out(s, -1)}
           X == Then(mtd_find_partition(ev.s, v[2]), LAMBDA t, volume :
                  IF volume = "NULL" THEN OnMmc(t) ELSE OnMtd(t, volume))
<1>1. \E wrong : WriteRawImageFn(ev, v) = Unless(wrong, ev, Raw(ev, X))
  BY Zenon DEF WriteRawImageFn
<1>2. \A s : FileExists(s, path) => Paths[path].file \in STRING
  BY EdifyAssumption DEF FileExists
<1>3. ASSUME NEW s \in Storage, NEW volume \in VolumeNames
      PROVE  AllFollow(s, OnMtd(s, volume))
  BY <1>2, ImageWritten, OneFollows
<1>4. ASSUME NEW s \in Storage, NEW volume
      PROVE  AllFollow(s, mmc_raw_copy(s, volume, path))
  BY <1>2, ImageWritten, OneFollows DEF mmc_raw_copy
<1>5. ASSUME NEW s \in Storage, NEW o \in OnMmc(s)
      PROVE  Follows(s, o.s)
  <2>1. PICK p \in mmc_find_partition(s, v[2]) :
          o \in IF p.ret = "NULL" THEN {Out(p.s, -1)} ELSE mmc_raw_copy(p.s, p.ret, path)
    BY DEF OnFound, Then
  <2> HIDE DEF OnMmc
  <2>2. Follows(s, p.s) /\ p.s \in Storage
    BY MmcFound, FollowOn
  <2>3. CASE o = Out(p.s, -1)
    BY <2>2, <2>3 DEF Out
  <2>4. CASE o \in mmc_raw_copy(p.s, p.ret, path)
    BY <1>4, <2>2, <2>4, FollowOn DEF AllFollow
  <2>5. QED
    BY <2>1, <2>3, <2>4
<1> HIDE DEF OnMtd, OnMmc
<1>6. AllFollow(ev.s, X)
  <2> SUFFICES ASSUME NEW o \in X PROVE Follows(ev.s, o.s)
    BY DEF AllFollow
  <2>1. PICK p \in mtd_find_partition(ev.s, v[2]) :
          o \in IF p.ret = "NULL" THEN OnMmc(p.s) ELSE OnMtd(p.s, p.ret)
    BY DEF Then
  <2> HIDE DEF X
  <2>2. /\ ev.s \in Storage /\ Follows(ev.s, p.s) /\ p.s \in Storage
        /\ p.ret \in VolumeNames \cup {"NULL"}
    <3>1. ev.s \in Storage
      BY EvaluatorFields
    <3>2. Keeps(ev.s, p.s) /\ p.ret \in VolumeNames \cup {"NULL"}
      BY <3>1, MtdFound
    <3>3. QED
      BY <3>1, <3>2, FollowOn
  <2>3. Follows(p.s, o.s)
    <3>1. CASE p.ret = "NULL"
      BY <1>5, <2>1, <2>2, <3>1
    <3>2. CASE p.ret \in VolumeNames /\ p.ret # "NULL"
      BY <1>3, <2>1, <2>2, <3>2 DEF AllFollow
    <3>3. QED
      BY <2>2, <3>1, <3>2
  <2>4. QED
    BY <2>2, <2>3, FollowOn
<1> HIDE DEF X
<1>7. QED
  BY <1>1, <1>6, RawIsGood, UnlessIsGood

-----------------------------------------------------------------------------
(* What the functions of the script return                                 *)

LEMMA ShortLists ==
  ASSUME NEW S, NEW a \in S, NEW b \in S
  PROVE  <<a>> \in Seq(S) /\ <<a, b>> \in Seq(S)
OBVIOUS

LEMMA PieceOf ==
  ASSUME NEW command \in STRING, NEW args \in Seq(Texts)
  PROVE  Piece(command, args) \in PieceType
BY DEF Piece, PieceType

LEMMA PrintedOn ==
  ASSUME NEW zip, NEW ev \in EvaluatorStates(zip), NEW pieces \in Seq(PieceType)
  PROVE  Printing(ev, pieces) \in Onward(ev)
<1>1. ev.out \o pieces \in Seq(PieceType)
  BY EvaluatorFields
<1>2. QED
  BY <1>1, EvaluatorSteps DEF Printing

\* What one or several texts make is a text.
LEMMA JoinedIsText ==
  ASSUME NEW texts \in Seq(Texts)
  PROVE  Joined(texts) \in Texts
<1> DEFINE some == {i \in DOMAIN texts : texts[i] # ""}
           one == CHOOSE i \in some : TRUE
<1>1. Joined(texts) = IF some = {} THEN ""
                      ELSE IF \E i \in some : some = {i} THEN texts[one] ELSE "several texts"
  BY DEF Joined
<1>2. some # {} => one \in some
  BY Zenon
<1>3. \A i \in DOMAIN texts : texts[i] \in Texts
  OBVIOUS
<1>4. some # {} => texts[one] \in Texts
  <2> HIDE DEF one
  <2>1. some # {} => one \in DOMAIN texts
    BY <1>2
  <2>2. QED
    BY <1>3, <2>1
<1> HIDE DEF some, one
<1>5. QED
  BY <1>1, <1>4, TextsOfCode

LEMMA TruthIsText ==
  ASSUME NEW b
  PROVE  Truth(b) \in Texts
BY TextsOfCode DEF Truth

LEMMA PiecesAreTyped ==
  ASSUME NEW text
  PROVE  Pieces(text) \in Seq(PieceType)
<1>1. <<>> \in Seq(Texts) /\ <<"hboot", "PACKAGE:radio.img">> \in Seq(Texts)
  <2>1. "hboot" \in Texts /\ "PACKAGE:radio.img" \in Texts
    BY TextsOfCode
  <2>2. QED
    BY <2>1, ShortLists
<1>2. /\ Piece("ui_print", <<>>) \in PieceType
      /\ Piece("firmware", <<"hboot", "PACKAGE:radio.img">>) \in PieceType
  BY <1>1, PieceOf, TextsOfCode
<1> DEFINE a == Piece("ui_print", <<>>)
           b == Piece("firmware", <<"hboot", "PACKAGE:radio.img">>)
<1>3. Pieces(text) \in {<<>>, <<a, b>>, <<a>>}
  <2>1. CASE text = ""
    BY <2>1 DEF Pieces
  <2>2. CASE text = LongText
    <3>1. LongText # ""
      BY DEF LongText
    <3>2. QED
      BY <2>2, <3>1 DEF Pieces
  <2>3. CASE text # "" /\ text # LongText
    BY <2>3 DEF Pieces
  <2>4. QED
    BY <2>1, <2>2, <2>3
<1>4. a \in PieceType /\ b \in PieceType
  BY <1>2
<1> HIDE DEF a, b
<1>5. <<>> \in Seq(PieceType) /\ <<a, b>> \in Seq(PieceType) /\ <<a>> \in Seq(PieceType)
  BY <1>4, ShortLists
<1>6. QED
  BY <1>3, <1>5

LEMMA BuiltinIsGood ==
  ASSUME NEW zip, NEW ev \in EvaluatorStates(zip), NEW fn \in Builtins, NEW v \in Seq(Texts),
         fn = "sleep" => Len(v) >= 1
  PROVE  BuiltinFn(ev, fn, v) \subseteq Good(ev, Texts)
<1>1. \A x \in Texts : {Out(ev, x)} \subseteq Good(ev, Texts)
  BY ReturnsIsGood
<1>2. \E x \in Texts : BuiltinFn(ev, fn, v) = {Out(ev, x)}
  <2>1. CASE fn \in {"concat", "+"}
    BY <2>1, JoinedIsText DEF BuiltinFn, ConcatFn
  <2>2. CASE fn = "is_substring"
    BY <2>2, TruthIsText DEF BuiltinFn, SubstringFn
  <2>3. CASE fn = "stdout"
    BY <2>3, TextsOfCode DEF BuiltinFn, StdoutFn
  <2>4. CASE fn = "sleep"
    <3>1. BuiltinFn(ev, fn, v) = {Out(ev, v[1])}
      BY <2>4 DEF BuiltinFn, SleepFn
    <3>2. QED
      BY <2>4, <3>1
  <2>5. CASE fn \in {"less_than_int", "greater_than_int"}
    BY <2>5, TruthIsText DEF BuiltinFn, LessThanIntFn
  <2>6. CASE fn = "!"
    BY <2>6, TruthIsText DEF BuiltinFn, LogicalNotFn
  <2>7. CASE fn = "=="
    BY <2>7, TruthIsText DEF BuiltinFn, EqualityFn
  <2>8. CASE fn = "!="
    BY <2>8, TruthIsText DEF BuiltinFn, InequalityFn
  <2>9. QED
    BY <2>1, <2>2, <2>3, <2>4, <2>5, <2>6, <2>7, <2>8 DEF Builtins
<1>3. QED
  BY <1>1, <1>2

\* The functions that do nothing to the storage.
LEMMA QuietIsGood ==
  ASSUME NEW zip, NEW ev \in EvaluatorStates(zip), NEW v \in Seq(Texts)
  PROVE  /\ ShowProgressFn(ev, v) \subseteq Good(ev, {"RAW"})
         /\ SetProgressFn(ev, v) \subseteq Good(ev, {"RAW"})
         /\ UIPrintFn(ev, v) \subseteq Good(ev, {"RAW"})
         /\ GetPropFn(ev, v) \subseteq Good(ev, {"RAW"})
         /\ \A numbers : SetPermFn(ev, v, numbers) \subseteq Good(ev, {"RAW"} \cup Ends)
         /\ Len(v) >= 2 => WriteFirmwareImageFn(ev, v) \subseteq Good(ev, {"RAW"} \cup Ends)
<1>1. \A t \in Onward(ev) : {Out(t, "RAW")} \subseteq Good(ev, {"RAW"})
  BY GoodOne
<1>2. ASSUME NEW pieces \in Seq(PieceType)
      PROVE  {Out(Printing(ev, pieces), "RAW")} \subseteq Good(ev, {"RAW"})
  BY <1>1, PrintedOn
<1>3. ASSUME NEW command \in STRING, NEW args \in Seq(Texts)
      PROVE  {Out(Printing(ev, <<Piece(command, args)>>), "RAW")} \subseteq Good(ev, {"RAW"})
  <2> DEFINE piece == Piece(command, args)
  <2>1. piece \in PieceType
    BY PieceOf
  <2> HIDE DEF piece
  <2>2. <<piece>> \in Seq(PieceType)
    BY <2>1, ShortLists
  <2>3. {Out(Printing(ev, <<piece>>), "RAW")} \subseteq Good(ev, {"RAW"})
    BY <1>2, <2>2
  <2>4. QED
    BY <2>3 DEF piece
<1>4. /\ ShowProgressFn(ev, v) \subseteq Good(ev, {"RAW"})
      /\ SetProgressFn(ev, v) \subseteq Good(ev, {"RAW"})
  <2>1. "progress" \in STRING /\ "set_progress" \in STRING
    BY TextsOfCode
  <2>2. QED
    BY <1>3, <2>1 DEF ShowProgressFn, SetProgressFn
<1>5. UIPrintFn(ev, v) \subseteq Good(ev, {"RAW"})
  <2> DEFINE piece == Piece("ui_print", <<>>)
             lines == Pieces(Joined(v))
  <2>1. <<>> \in Seq(Texts) /\ "ui_print" \in STRING
    <3>1. "ui_print" \in STRING
      BY TextsOfCode
    <3>2. QED
      BY <3>1
  <2>2. piece \in PieceType /\ lines \in Seq(PieceType)
    BY <2>1, PieceOf, PiecesAreTyped
  <2>3. UIPrintFn(ev, v) = {Out(Printing(ev, Append(lines, piece)), "RAW")}
    BY DEF UIPrintFn
  <2> HIDE DEF piece, lines
  <2>4. Append(lines, piece) \in Seq(PieceType)
    BY <2>2
  <2>5. QED
    BY <1>2, <2>3, <2>4
<1>6. GetPropFn(ev, v) \subseteq Good(ev, {"RAW"})
  BY ReturnsIsGood DEF GetPropFn
<1>7. ASSUME NEW numbers
      PROVE  SetPermFn(ev, v, numbers) \subseteq Good(ev, {"RAW"} \cup Ends)
  <2>1. \E wrong : SetPermFn(ev, v, numbers) = Unless(wrong, ev, {Out(ev, "RAW")})
    BY Zenon DEF SetPermFn
  <2>2. {Out(ev, "RAW")} \subseteq Good(ev, {"RAW"})
    BY ReturnsIsGood
  <2>3. QED
    BY <2>1, <2>2, UnlessIsGood
<1>8. ASSUME Len(v) >= 2
      PROVE  WriteFirmwareImageFn(ev, v) \subseteq Good(ev, {"RAW"} \cup Ends)
  <2> DEFINE args == <<v[2], v[1]>>
             outcomes == {Out(Printing(ev, <<Piece("firmware", args)>>), "RAW")}
  <2>1. args \in Seq(Texts)
    <3>1. v[1] \in Texts /\ v[2] \in Texts
      BY <1>8
    <3>2. QED
      BY <3>1
  <2>2. \E wrong : WriteFirmwareImageFn(ev, v) = Unless(wrong, ev, outcomes)
    BY Zenon DEF WriteFirmwareImageFn
  <2> HIDE DEF args
  <2>3. outcomes \subseteq Good(ev, {"RAW"})
    BY <1>3, <2>1, TextsOfCode
  <2> HIDE DEF outcomes
  <2>4. QED
    BY <2>2, <2>3, UnlessIsGood
<1>9. QED
  BY <1>4, <1>5, <1>6, <1>7, <1>8


LEMMA CheckedRaw ==
  ASSUME NEW zip, NEW ev \in EvaluatorStates(zip), NEW wrong, NEW outcomes,
         AllLead(ev.s, outcomes) \/ AllFollow(ev.s, outcomes)
  PROVE  Unless(wrong, ev, Raw(ev, outcomes)) \subseteq Good(ev, {"RAW"} \cup Ends)
BY RawIsGood, UnlessIsGood

LEMMA FilesAreGood ==
  ASSUME NEW zip, NEW ev \in EvaluatorStates(zip), NEW v \in Seq(Texts)
  PROVE  /\ Len(v) = 3 => MountFn(ev, v) \subseteq Good(ev, {"RAW"} \cup Ends)
         /\ IsMountedFn(ev, v) \subseteq Good(ev, {"RAW"} \cup Ends)
         /\ UnmountFn(ev, v) \subseteq Good(ev, {"RAW"} \cup Ends)
         /\ FormatFn(ev, v) \subseteq Good(ev, {"RAW"} \cup Ends)
         /\ FileGetPropFn(ev, v) \subseteq Good(ev, {"RAW"} \cup Ends)
         /\ ApplyPatchFn(ev, v) \subseteq Good(ev, {"RAW"} \cup Ends)
<1>1. ev.s \in Storage
  BY EvaluatorFields
<1>2. ASSUME Len(v) = 3
      PROVE  MountFn(ev, v) \subseteq Good(ev, {"RAW"} \cup Ends)
  <2> DEFINE X == MountAs(ev.s, v[1], v[2], v[3])
  <2>1. \E wrong : MountFn(ev, v) = Unless(wrong, ev, Raw(ev, X))
    BY Zenon DEF MountFn
  <2>2. v[3] \in STRING
    <3>1. v[3] \in Texts
      BY <1>2
    <3>2. QED
      BY <3>1 DEF Texts
  <2>3. AllLead(ev.s, X)
    BY <1>1, <2>2, MountedAs
  <2> HIDE DEF X
  <2>4. QED
    BY <2>1, <2>3, CheckedRaw
<1>3. IsMountedFn(ev, v) \subseteq Good(ev, {"RAW"} \cup Ends)
  <2> DEFINE X == scan_mounted_volumes(ev.s, v[1])
  <2>1. \E wrong : IsMountedFn(ev, v) = Unless(wrong, ev, Raw(ev, X))
    BY Zenon DEF IsMountedFn
  <2>2. AllFollow(ev.s, X)
    BY <1>1, ScanKeeps, FollowOn DEF AllFollow
  <2> HIDE DEF X
  <2>3. QED
    BY <2>1, <2>2, CheckedRaw
<1>4. UnmountFn(ev, v) \subseteq Good(ev, {"RAW"} \cup Ends)
  <2> DEFINE X == Then(scan_mounted_volumes(ev.s, v[1]), LAMBDA s, seen :
                    IF seen = "mounted" THEN umount(s, v[1]) ELSE {Out(s, -1)})
  <2>1. \E wrong : UnmountFn(ev, v) = Unless(wrong, ev, Raw(ev, X))
    BY Zenon DEF UnmountFn
  <2>2. AllFollow(ev.s, X)
    BY <1>1, UnmountedAt DEF Then
  <2> HIDE DEF X
  <2>3. QED
    BY <2>1, <2>2, CheckedRaw
<1>5. FormatFn(ev, v) \subseteq Good(ev, {"RAW"} \cup Ends)
  <2> DEFINE X == FormatAsType(ev.s, v[1], v[2])
  <2>1. \E wrong : FormatFn(ev, v) = Unless(wrong, ev, Raw(ev, X))
    BY Zenon DEF FormatFn
  <2>2. AllFollow(ev.s, X)
    BY <1>1, FormattedAs
  <2> HIDE DEF X
  <2>3. QED
    BY <2>1, <2>2, CheckedRaw
<1>6. FileGetPropFn(ev, v) \subseteq Good(ev, {"RAW"} \cup Ends)
  <2> DEFINE X == {Out(ev, "RAW"), Out(ev, "CRASH")} \cup ErrorAbort(ev)
                    \cup UNION {ErrorAbort([ev EXCEPT !.s = s]) : s \in Failing(ev.s)}
  <2>1. \E wrong : FileGetPropFn(ev, v) = Unless(wrong, ev, X)
    BY Zenon DEF FileGetPropFn
  <2>2. /\ {Out(ev, "RAW")} \subseteq Good(ev, {"RAW"})
        /\ {Out(ev, "CRASH")} \subseteq Good(ev, Ends)
        /\ ErrorAbort(ev) \subseteq Good(ev, Ends)
    BY ReturnsIsGood, AbortIsGood DEF Ends
  <2>3. ASSUME NEW s \in Failing(ev.s)
        PROVE  ErrorAbort([ev EXCEPT !.s = s]) \subseteq Good(ev, Ends)
    <3>1. Follows(ev.s, s)
      BY <1>1, FailingKeeps, FollowOn
    <3>2. [ev EXCEPT !.s = s] \in Onward(ev)
      BY <3>1, EvaluatorSteps
    <3>3. QED
      BY <3>2, FurtherOn, AbortIsGood
  <2>4. /\ Good(ev, {"RAW"}) \subseteq Good(ev, {"RAW"} \cup Ends)
        /\ Good(ev, Ends) \subseteq Good(ev, {"RAW"} \cup Ends)
    BY GoodMore
  <2>5. X \subseteq Good(ev, {"RAW"} \cup Ends)
    BY <2>2, <2>3, <2>4
  <2> HIDE DEF X
  <2>6. ({"RAW"} \cup Ends) \cup Ends = {"RAW"} \cup Ends
    OBVIOUS
  <2>7. \A wrong : Unless(wrong, ev, X) \subseteq Good(ev, ({"RAW"} \cup Ends) \cup Ends)
    BY <2>5, UnlessIsGood
  <2>8. QED
    BY <2>1, <2>6, <2>7
<1>7. ApplyPatchFn(ev, v) \subseteq Good(ev, {"RAW"} \cup Ends)
  <2> DEFINE X == IF FileExists(ev.s, v[1]) THEN Raw(ev, create(ev.s, v[1])) ELSE {Out(ev, "RAW")}
  <2>1. \E wrong : ApplyPatchFn(ev, v) = Unless(wrong, ev, X)
    BY Zenon DEF ApplyPatchFn
  <2>2. X \subseteq Good(ev, {"RAW"})
    BY <1>1, ReturnsIsGood, RawIsGood, CreatedAt
  <2> HIDE DEF X
  <2>3. QED
    BY <2>1, <2>2, UnlessIsGood
<1>8. QED
  BY <1>2, <1>3, <1>4, <1>5, <1>6, <1>7

LEMMA InstallIsGood ==
  ASSUME NEW zip, NEW ev \in EvaluatorStates(zip), NEW v \in Seq(Texts),
         NEW cd \in Seq(EntryType), ArchiveOf(zip, cd),
         NEW fn \in InstallFunctions,
         fn = "mount" => Len(v) = 3,
         fn = "symlink" => v # <<>>,
         fn = "write_firmware_image" => Len(v) >= 2
  PROVE  InstallFn(ev, fn, v) \subseteq Good(ev, {"RAW"} \cup Ends)
<1>1. Good(ev, {"RAW"}) \subseteq Good(ev, {"RAW"} \cup Ends)
  BY GoodMore
<1>2. CASE fn \in {"mount", "is_mounted", "unmount", "format"}
  BY <1>2, FilesAreGood DEF InstallFn
<1>3. CASE fn \in {"show_progress", "set_progress", "ui_print", "getprop"}
  BY <1>1, <1>3, QuietIsGood DEF InstallFn
<1>4. CASE fn \in {"delete", "delete_recursive"}
  BY <1>1, <1>4, DeletedIsGood DEF InstallFn
<1>5. CASE fn \in {"package_extract_dir", "package_extract_file"}
  BY <1>1, <1>5, ExtractedDirIsGood, ExtractedFileIsGood DEF InstallFn
<1>6. CASE fn = "symlink"
  BY <1>1, <1>6, LinkedIsGood DEF InstallFn
<1>7. CASE fn \in {"set_perm", "set_perm_recursive"}
  BY <1>7, QuietIsGood DEF InstallFn
<1>8. CASE fn = "write_raw_image"
  BY <1>8, RawImageIsGood DEF InstallFn
<1>9. CASE fn = "write_firmware_image"
  BY <1>9, QuietIsGood DEF InstallFn
<1>10. CASE fn \in {"file_getprop", "apply_patch", "apply_patch_check", "apply_patch_space"}
  BY <1>10, FilesAreGood DEF InstallFn
<1>11. QED
  BY <1>2, <1>3, <1>4, <1>5, <1>6, <1>7, <1>8, <1>9, <1>10 DEF InstallFunctions


-----------------------------------------------------------------------------
(* Evaluating an expression                                                *)

\* What the nodes of an expression are worth in every state.
InnerIsGood(inner, zip, nodes) ==
  \A t \in EvaluatorStates(zip) : \A n \in nodes : inner[<<t, n>>] \subseteq Good(t, Returned)

LEMMA ListGrows ==
  ASSUME NEW S, NEW list \in Seq(S), NEW v \in S
  PROVE  Append(list, v) \in Seq(S) /\ Len(Append(list, v)) = Len(list) + 1
OBVIOUS

LEMMA ListElements ==
  ASSUME NEW S, NEW list \in Seq(S)
  PROVE  Len(list) \in Nat /\ \A k \in 1..Len(list) : list[k] \in S
OBVIOUS

LEMMA InnerEvaluated ==
  ASSUME NEW zip, NEW ev \in EvaluatorStates(zip), NEW nodes, NEW inner,
         InnerIsGood(inner, zip, nodes), NEW t \in Onward(ev), NEW n \in nodes
  PROVE  /\ inner[<<t, n>>] \subseteq Good(ev, Returned)
         /\ Evaluate(inner[<<t, n>>]) \subseteq Good(ev, Worth)
<1>1. t \in EvaluatorStates(zip) /\ \A X : Good(t, X) \subseteq Good(ev, X)
  BY FurtherOn
<1>2. inner[<<t, n>>] \subseteq Good(t, Returned)
  BY <1>1 DEF InnerIsGood
<1>3. Evaluate(inner[<<t, n>>]) \subseteq Good(t, Worth)
  BY <1>1, <1>2, EvaluateIsGood
<1>4. QED
  BY <1>1, <1>2, <1>3

\* k arguments have been evaluated, or the evaluation ended.
SoFar(k) ==
  {a \in [vals : Seq(Texts), end : {""} \cup Ends] : a.end = "" => Len(a.vals) = k}

LEMMA ArgumentRead ==
  ASSUME NEW a, NEW k \in Nat, a \in SoFar(k), a.end = "", NEW v \in Worth
  PROVE  (IF v \in Ends THEN [a EXCEPT !.end = v] ELSE [a EXCEPT !.vals = Append(@, v)])
           \in SoFar(k + 1)
<1>1. a \in [vals : Seq(Texts), end : {""} \cup Ends] /\ a.vals \in Seq(Texts) /\ Len(a.vals) = k
  BY DEF SoFar
<1>2. CASE v \in Ends
  <2>1. "" \notin Ends
    BY DEF Ends
  <2>2. [a EXCEPT !.end = v] \in [vals : Seq(Texts), end : {""} \cup Ends]
    BY <1>1, <1>2
  <2>3. [a EXCEPT !.end = v].end = v
    BY <1>1
  <2>4. QED
    BY <1>2, <2>1, <2>2, <2>3 DEF SoFar
<1>3. CASE v \notin Ends
  <2> DEFINE more == Append(a.vals, v)
  <2>1. v \in Texts
    BY <1>3 DEF Worth
  <2>2. more \in Seq(Texts) /\ Len(more) = k + 1
    BY <1>1, <2>1, ListGrows
  <2>3. [a EXCEPT !.vals = Append(@, v)] = [a EXCEPT !.vals = more]
    BY <1>1
  <2> HIDE DEF more
  <2>4. [a EXCEPT !.vals = more] \in SoFar(k + 1)
    BY <1>1, <2>2 DEF SoFar
  <2>5. QED
    BY <1>3, <2>3, <2>4
<1>4. QED
  BY <1>2, <1>3

LEMMA ArgumentsAreGood ==
  ASSUME NEW zip, NEW ev \in EvaluatorStates(zip), NEW nodes, NEW inner,
         InnerIsGood(inner, zip, nodes), NEW argv \in Seq(nodes)
  PROVE  ReadVarArgs(inner, ev, argv) \subseteq Good(ev, SoFar(Len(argv)))
<1> DEFINE n == Len(argv)
           V == [k \in 0..n |-> SUBSET Good(ev, SoFar(k))]
           start == {Out(ev, [vals |-> <<>>, end |-> ""])}
           ReadOne(t, a, node) ==
             IF a.end # "" THEN {Out(t, a)}
             ELSE {Out(o.s, IF o.ret \in Ends THEN [a EXCEPT !.end = o.ret]
                            ELSE [a EXCEPT !.vals = Append(@, o.ret)]) :
                     o \in Evaluate(inner[<<t, node>>])}
           Turn(outcomes, k) == Then(outcomes, LAMBDA t, a : ReadOne(t, a, argv[k]))
           Turned(f) == [k \in 0..n |-> IF k = 0 THEN start ELSE Turn(f[k - 1], k)]
           after == CHOOSE f : f = Turned(f)
           turn == [k \in 1..n |-> [x \in V[k - 1] |-> Turn(x, k)]]
<1>1. n \in Nat /\ start \in SUBSET Good(ev, SoFar(0))
  <2>1. n \in Nat
    OBVIOUS
  <2>2. [vals |-> <<>>, end |-> ""] \in SoFar(0)
    <3>1. <<>> \in Seq(Texts) /\ Len(<<>>) = 0
      OBVIOUS
    <3>2. QED
      BY <3>1 DEF SoFar
  <2>3. ev \in Onward(ev)
    BY EvaluatorFields
  <2>4. QED
    BY <2>1, <2>2, <2>3, GoodOne
<1> HIDE DEF ReadOne
<1>2. ASSUME NEW k \in 1..n, NEW x \in SUBSET Good(ev, SoFar(k - 1))
      PROVE  Turn(x, k) \in SUBSET Good(ev, SoFar(k))
  <2> SUFFICES ASSUME NEW o \in Turn(x, k)
               PROVE  o \in Good(ev, SoFar(k))
    OBVIOUS
  <2>1. PICK p \in x : o \in ReadOne(p.s, p.ret, argv[k])
    BY DEF Then
  <2>2. argv[k] \in nodes /\ k - 1 \in Nat /\ (k - 1) + 1 = k
    <3>1. argv[k] \in nodes
      BY ListElements
    <3> HIDE DEF n, start, Turn
    <3>2. k - 1 \in Nat /\ (k - 1) + 1 = k
      BY <1>1
    <3>3. QED
      BY <3>1, <3>2
  <2> HIDE DEF Turn, n
  <2>3. p.s \in Onward(ev) /\ p.ret \in SoFar(k - 1)
    BY GoodIs
  <2>4. CASE p.ret.end # ""
    <3>1. o = Out(p.s, p.ret)
      BY <2>1, <2>4 DEF ReadOne
    <3>2. p.ret \in SoFar(k)
      BY <2>3, <2>4 DEF SoFar
    <3>3. QED
      BY <2>3, <3>1, <3>2, GoodOne
  <2>5. CASE p.ret.end = ""
    <3> DEFINE Next(r) == IF r \in Ends THEN [p.ret EXCEPT !.end = r]
                          ELSE [p.ret EXCEPT !.vals = Append(@, r)]
    <3>1. PICK q \in Evaluate(inner[<<p.s, argv[k]>>]) : o = Out(q.s, Next(q.ret))
      BY <2>1, <2>5 DEF ReadOne
    <3>2. q \in Good(ev, Worth)
      BY <2>2, <2>3, <3>1, InnerEvaluated
    <3>3. q.s \in Onward(ev) /\ q.ret \in Worth
      BY <3>2, GoodIs
    <3>4. Next(q.ret) \in SoFar(k)
      BY <2>2, <2>3, <2>5, <3>3, ArgumentRead
    <3> HIDE DEF Next
    <3>5. QED
      BY <3>1, <3>3, <3>4, GoodOne
  <2>6. QED
    BY <2>4, <2>5
<1> HIDE DEF start, Turn
<1>3. \E f : f = Turned(f)
  <2>1. \A k \in 1..n : \A x \in V[k - 1] : turn[k][x] = Turn(x, k)
    <3> HIDE DEF V
    <3>1. QED
      OBVIOUS
  <2> HIDE DEF turn
  <2>2. \A k \in 1..n : \A x \in V[k - 1] : Turn(x, k) \in V[k]
    <3>1. \A k \in 1..n : /\ V[k - 1] = SUBSET Good(ev, SoFar(k - 1))
                          /\ V[k] = SUBSET Good(ev, SoFar(k))
      BY <1>1
    <3> HIDE DEF V
    <3>2. QED
      BY <1>2, <3>1
  <2>3. 0 \in 0..n /\ start \in V[0]
    BY <1>1
  <2> HIDE DEF V
  <2>4. PICK f : Values(f, n, start, turn) /\ \A k \in 0..n : f[k] \in V[k]
    <3>1. \A k \in 1..n : \A x \in V[k - 1] : turn[k][x] \in V[k]
      BY <2>1, <2>2
    <3>2. QED
      BY <1>1, <2>3, <3>1, LoopExists
  <2>5. \A k \in 0..n : k = 0 \/ (turn[k][f[k - 1]] = Turn(f[k - 1], k))
    <3>1. \A k \in 1..n : f[k - 1] \in V[k - 1]
      BY <1>1, <2>4
    <3>2. QED
      BY <1>1, <2>1, <3>1
  <2>6. f = Turned(f)
    BY <2>4, <2>5 DEF Values
  <2>7. QED
    BY <2>6, Zenon
<1>4. after = Turned(after)
  <2> HIDE DEF Turned
  <2>1. QED
    BY <1>3, Zenon
<1>5. after[0] = start /\ \A k \in 1..n : after[k] = Turn(after[k - 1], k)
  <2> HIDE DEF after
  <2>1. \A k \in 0..n : after[k] = IF k = 0 THEN start ELSE Turn(after[k - 1], k)
    BY <1>4, Zenon
  <2>2. 0 \in 0..n /\ \A k \in 1..n : k \in 0..n /\ k # 0
    BY <1>1
  <2>3. QED
    BY <2>1, <2>2
<1>6. after[n] \in SUBSET Good(ev, SoFar(n))
  <2> HIDE DEF after, turn
  <2>1. \A k \in 0..n : V[k] = SUBSET Good(ev, SoFar(k))
    OBVIOUS
  <2> HIDE DEF V
  <2>2. after[0] \in V[0] /\ n \in 0..n
    BY <1>1, <1>5, <2>1
  <2>3. \A k \in 1..n : after[k - 1] \in V[k - 1] => after[k] \in V[k]
    <3>1. \A k \in 1..n : k - 1 \in 0..n /\ k \in 0..n
      BY <1>1
    <3>2. QED
      BY <1>2, <1>5, <2>1, <3>1
  <2>4. QED
    BY <1>1, <2>1, <2>2, <2>3, LoopStays
<1>7. ReadVarArgs(inner, ev, argv) = after[n]
  BY Zenon DEF ReadVarArgs, Loop, start, Turn, ReadOne
<1> HIDE DEF after, n
<1>8. QED
  BY <1>6, <1>7 DEF n

LEMMA AssertedIsGood ==
  ASSUME NEW zip, NEW ev \in EvaluatorStates(zip), NEW nodes, NEW inner,
         InnerIsGood(inner, zip, nodes), NEW e, e.args \in Seq(nodes)
  PROVE  AssertFn(inner, ev, e) \subseteq Good(ev, Worth)
<1> DEFINE n == Len(e.args)
           U == SUBSET Good(ev, Worth)
           V == [k \in 0..n |-> U]
           start == {Out(ev, "")}
           Check(t, node) ==
             Bind(Evaluate(inner[<<t, node>>]), LAMBDA u, v :
               IF BooleanString(v) THEN {Out(u, "")} ELSE ErrorAbort(u))
           Turn(outcomes, k) == Bind(outcomes, LAMBDA t, sofar : Check(t, e.args[k]))
           Turned(f) == [k \in 0..n |-> IF k = 0 THEN start ELSE Turn(f[k - 1], k)]
           after == CHOOSE f : f = Turned(f)
           turn == [k \in 1..n |-> [x \in U |-> Turn(x, k)]]
<1>0. "" \in Worth /\ Good(ev, Ends) \subseteq Good(ev, Worth)
  BY TextsOfCode, GoodMore DEF Worth
<1>1. n \in Nat /\ start \in U
  <2>1. n \in Nat
    OBVIOUS
  <2>2. ev \in Onward(ev)
    BY EvaluatorFields
  <2>3. QED
    BY <1>0, <2>1, <2>2, GoodOne
<1> HIDE DEF Check
<1>2. \A k \in 1..n : \A x \in U : Turn(x, k) \in U
  <2> TAKE k \in 1..n
  <2> TAKE x \in U
  <2>1. ASSUME NEW o \in Turn(x, k)
        PROVE  o \in Good(ev, Worth)
    <3>1. PICK p \in x : o \in IF p.ret \in Ends THEN {Out(p.s, p.ret)}
                               ELSE Check(p.s, e.args[k])
      BY DEF Bind, Then
    <3>2. e.args[k] \in nodes
      BY ListElements
    <3>3. p.s \in Onward(ev) /\ p.ret \in Worth
      BY GoodIs
    <3> HIDE DEF Turn, U, n
    <3>4. CASE o = Out(p.s, p.ret)
      BY <3>3, <3>4, GoodOne
    <3>5. CASE o \in Check(p.s, e.args[k])
      <4>1. PICK q \in Evaluate(inner[<<p.s, e.args[k]>>]) :
              \/ o = Out(q.s, q.ret) \/ o = Out(q.s, "") \/ o \in ErrorAbort(q.s)
        BY <3>5 DEF Check, Bind, Then
      <4>2. q \in Good(ev, Worth)
        BY <3>2, <3>3, <4>1, InnerEvaluated
      <4>3. q.s \in Onward(ev) /\ q.ret \in Worth
        BY <4>2, GoodIs
      <4>4. ErrorAbort(q.s) \subseteq Good(ev, Worth)
        BY <1>0, <4>3, FurtherOn, AbortIsGood
      <4>5. QED
        BY <1>0, <4>1, <4>3, <4>4, GoodOne
    <3>6. QED
      BY <3>1, <3>4, <3>5
  <2>2. QED
    BY <2>1
<1> HIDE DEF start
<1>3. \E f : f = Turned(f)
  <2>1. \A k \in 1..n : \A x \in U : turn[k][x] = Turn(x, k)
    <3> HIDE DEF Turn, U
    <3>1. QED
      OBVIOUS
  <2> HIDE DEF Turn, turn, U
  <2>2. \A k \in 1..n : \A x \in V[k - 1] : turn[k][x] \in V[k]
    <3>1. \A k \in 1..n : V[k - 1] = U /\ V[k] = U
      BY <1>1
    <3>2. QED
      BY <2>1, <1>2, <3>1
  <2>3. 0 \in 0..n /\ start \in V[0]
    BY <1>1
  <2> HIDE DEF V
  <2>4. PICK f : Values(f, n, start, turn) /\ \A k \in 0..n : f[k] \in V[k]
    BY <1>1, <2>2, <2>3, LoopExists
  <2>5. \A k \in 0..n : k = 0 \/ (turn[k][f[k - 1]] = Turn(f[k - 1], k))
    <3>1. \A k \in 1..n : f[k - 1] \in U
      BY <1>1, <2>4 DEF V
    <3>2. QED
      BY <1>1, <2>1, <3>1
  <2>6. f = Turned(f)
    BY <2>4, <2>5 DEF Values
  <2>7. QED
    BY <2>6, Zenon
<1>4. after = Turned(after)
  <2> HIDE DEF Turned
  <2>1. QED
    BY <1>3, Zenon
<1>5. after[0] = start /\ \A k \in 1..n : after[k] = Turn(after[k - 1], k)
  <2> HIDE DEF after, Turn, U
  <2>1. \A k \in 0..n : after[k] = IF k = 0 THEN start ELSE Turn(after[k - 1], k)
    BY <1>4, Zenon
  <2>2. 0 \in 0..n /\ \A k \in 1..n : k \in 0..n /\ k # 0
    BY <1>1
  <2>3. QED
    BY <2>1, <2>2
<1>6. after[n] \in U
  <2> HIDE DEF after, Turn, U, turn
  <2>1. \A k \in 0..n : V[k] = U
    OBVIOUS
  <2> HIDE DEF V
  <2>2. after[0] \in V[0] /\ n \in 0..n
    BY <1>1, <1>5, <2>1
  <2>3. \A k \in 1..n : after[k - 1] \in V[k - 1] => after[k] \in V[k]
    <3>1. \A k \in 1..n : k - 1 \in 0..n /\ k \in 0..n
      BY <1>1
    <3>2. QED
      BY <1>2, <1>5, <2>1, <3>1
  <2>4. QED
    BY <1>1, <2>1, <2>2, <2>3, LoopStays
<1>7. AssertFn(inner, ev, e) = after[n]
  BY Zenon DEF AssertFn, Loop, start, Check
<1>8. QED
  BY <1>6, <1>7


\* A node that the parser makes, over earlier ones.
EdifyNode(e) ==
  /\ e.fn \in {"Literal"} \cup Lazy \cup Builtins \cup InstallFunctions
  /\ e.name \in Texts
  /\ \A f \in Read : f[1] = e.fn => Len(e.args) >= f[2]

LEMMA IfElseIsGood ==
  ASSUME NEW zip, NEW ev \in EvaluatorStates(zip), NEW nodes, NEW inner,
         InnerIsGood(inner, zip, nodes), NEW e, e.args \in Seq(nodes)
  PROVE  IfElseFn(inner, ev, e) \subseteq Good(ev, Returned)
<1>1. /\ Good(ev, Ends) \subseteq Good(ev, Returned) /\ Worth \subseteq Returned
      /\ ev \in Onward(ev)
  BY GoodMore, EvaluatorFields DEF Returned, Worth
<1>2. CASE Len(e.args) \notin 2..3
  BY <1>1, <1>2, AbortIsGood DEF IfElseFn
<1>3. CASE Len(e.args) \in 2..3
  <2> SUFFICES ASSUME NEW o \in IfElseFn(inner, ev, e)
               PROVE  o \in Good(ev, Returned)
    OBVIOUS
  <2>1. /\ e.args[1] \in nodes /\ e.args[2] \in nodes
        /\ Len(e.args) = 3 => e.args[3] \in nodes
    BY <1>3, ListElements
  <2>2. PICK p \in Evaluate(inner[<<ev, e.args[1]>>]) :
          \/ o = Out(p.s, p.ret)
          \/ o \in inner[<<p.s, e.args[2]>>]
          \/ Len(e.args) = 3 /\ o \in inner[<<p.s, e.args[3]>>]
    <3>1. PICK p \in Evaluate(inner[<<ev, e.args[1]>>]) :
            o \in IF p.ret \in Ends THEN {Out(p.s, p.ret)}
                  ELSE CASE BooleanString(p.ret) -> inner[<<p.s, e.args[2]>>]
                         [] ~BooleanString(p.ret) /\ Len(e.args) = 3 -> inner[<<p.s, e.args[3]>>]
                         [] OTHER -> {Out(p.s, p.ret)}
      BY <1>3 DEF IfElseFn, Bind, Then
    <3>2. CASE p.ret \in Ends
      BY <3>1, <3>2
    <3>3. CASE p.ret \notin Ends /\ BooleanString(p.ret)
      BY <3>1, <3>3
    <3>4. CASE p.ret \notin Ends /\ ~BooleanString(p.ret) /\ Len(e.args) = 3
      BY <3>1, <3>4
    <3>5. CASE p.ret \notin Ends /\ ~BooleanString(p.ret) /\ Len(e.args) # 3
      BY <3>1, <3>5
    <3>6. QED
      BY <3>2, <3>3, <3>4, <3>5
  <2>3. p.s \in Onward(ev) /\ p.ret \in Returned
    <3>1. p \in Good(ev, Worth)
      BY <1>1, <2>1, <2>2, InnerEvaluated
    <3>2. QED
      BY <1>1, <3>1, GoodIs
  <2>4. QED
    BY <2>1, <2>2, <2>3, InnerEvaluated, GoodOne
<1>4. QED
  BY <1>2, <1>3

LEMMA AbortedIsGood ==
  ASSUME NEW zip, NEW ev \in EvaluatorStates(zip), NEW nodes, NEW inner,
         InnerIsGood(inner, zip, nodes), NEW e, e.args \in Seq(nodes)
  PROVE  AbortFn(inner, ev, e) \subseteq Good(ev, Returned)
<1>1. Good(ev, Ends) \subseteq Good(ev, Returned) /\ Worth \subseteq Returned /\ ev \in Onward(ev)
  BY GoodMore, EvaluatorFields DEF Returned, Worth
<1>2. CASE e.args = <<>>
  BY <1>1, <1>2, AbortIsGood DEF AbortFn
<1>3. CASE e.args # <<>>
  <2> SUFFICES ASSUME NEW o \in AbortFn(inner, ev, e)
               PROVE  o \in Good(ev, Returned)
    OBVIOUS
  <2>1. e.args[1] \in nodes
    BY <1>3, NotEmptyList, ListElements
  <2>2. PICK p \in Evaluate(inner[<<ev, e.args[1]>>]) :
          o \in IF p.ret \in {"CRASH", "HANG"} THEN {Out(p.s, p.ret)} ELSE ErrorAbort(p.s)
    BY <1>3 DEF AbortFn, Then
  <2>3. p.s \in Onward(ev) /\ p.ret \in Returned
    <3>1. p \in Good(ev, Worth)
      BY <1>1, <2>1, <2>2, InnerEvaluated
    <3>2. QED
      BY <1>1, <3>1, GoodIs
  <2>4. ErrorAbort(p.s) \subseteq Good(ev, Returned)
    BY <1>1, <2>3, FurtherOn, AbortIsGood
  <2>5. QED
    BY <2>2, <2>3, <2>4, GoodOne
<1>4. QED
  BY <1>2, <1>3

LEMMA LogicalIsGood ==
  ASSUME NEW zip, NEW ev \in EvaluatorStates(zip), NEW nodes, NEW inner,
         InnerIsGood(inner, zip, nodes), NEW e, e.args \in Seq(nodes), Len(e.args) >= 2
  PROVE  /\ \A goesOn : LogicalFn(inner, ev, e, goesOn) \subseteq Good(ev, Returned)
         /\ SequenceFn(inner, ev, e) \subseteq Good(ev, Returned)
<1>1. Worth \subseteq Returned /\ ev \in Onward(ev) /\ {"", "CRASH"} \subseteq Returned
  BY EvaluatorFields, TextsOfCode DEF Returned, Worth, Ends
<1>2. e.args[1] \in nodes /\ e.args[2] \in nodes
  BY ListElements
<1>3. ASSUME NEW goesOn, NEW o \in LogicalFn(inner, ev, e, goesOn)
      PROVE  o \in Good(ev, Returned)
  <2>1. PICK p \in Evaluate(inner[<<ev, e.args[1]>>]) :
          o = Out(p.s, p.ret) \/ o \in inner[<<p.s, e.args[2]>>]
    BY DEF LogicalFn, Bind, Then
  <2>2. p \in Good(ev, Worth)
    BY <1>1, <1>2, <2>1, InnerEvaluated
  <2>3. p.s \in Onward(ev) /\ p.ret \in Returned
    BY <1>1, <2>2, GoodIs
  <2>4. QED
    BY <1>2, <2>1, <2>3, InnerEvaluated, GoodOne
<1>4. ASSUME NEW o \in SequenceFn(inner, ev, e)
      PROVE  o \in Good(ev, Returned)
  <2>1. PICK p \in inner[<<ev, e.args[1]>>] :
          o \in IF p.ret \in Ends THEN {Out(p.s, p.ret)}
                ELSE Bind(FreeValue(p.s, p.ret), LAMBDA u, freed : inner[<<u, e.args[2]>>])
    BY DEF SequenceFn, Bind, Then
  <2>2. p \in Good(ev, Returned)
    BY <1>1, <1>2, <2>1, InnerEvaluated
  <2>3. p.s \in Onward(ev) /\ p.ret \in Returned
    BY <2>2, GoodIs
  <2>4. CASE o = Out(p.s, p.ret)
    BY <2>3, <2>4, GoodOne
  <2>5. CASE o \in Bind(FreeValue(p.s, p.ret), LAMBDA u, freed : inner[<<u, e.args[2]>>])
    <3>1. PICK q \in FreeValue(p.s, p.ret) :
            o = Out(q.s, q.ret) \/ o \in inner[<<q.s, e.args[2]>>]
      BY <2>5 DEF Bind, Then
    <3>2. q \in Good(p.s, {"", "CRASH"})
      BY <2>3, <3>1, FurtherOn, FreeIsGood
    <3>3. q \in Good(ev, {"", "CRASH"})
      <4>1. Good(p.s, {"", "CRASH"}) \subseteq Good(ev, {"", "CRASH"})
        BY <2>3, FurtherOn
      <4>2. QED
        BY <3>2, <4>1
    <3>4. q.s \in Onward(ev) /\ q.ret \in Returned
      <4>1. q.s \in Onward(ev) /\ q.ret \in {"", "CRASH"}
        BY <3>3, GoodIs
      <4>2. QED
        BY <1>1, <4>1
    <3>5. QED
      BY <1>2, <3>1, <3>4, InnerEvaluated, GoodOne
  <2>6. QED
    BY <2>1, <2>4, <2>5
<1>5. QED
  BY <1>3, <1>4


LEMMA ReversedList ==
  ASSUME NEW S, NEW list \in Seq(S)
  PROVE  Reverse(list) \in Seq(S) /\ Len(Reverse(list)) = Len(list)
BY DEF Reverse

\* A function whose arguments, as many as it wants, have been read.
LEMMA CallIsGood ==
  ASSUME NEW zip, NEW ev \in EvaluatorStates(zip),
         NEW cd \in Seq(EntryType), ArchiveOf(zip, cd),
         NEW e, EdifyNode(e), e.fn \in Builtins \cup InstallFunctions, ~WrongNumber(e),
         Len(e.args) \in Nat, e.args = <<>> <=> Len(e.args) = 0,
         NEW a \in SoFar(Len(e.args))
  PROVE  CallFn(ev, e.fn, a) \subseteq Good(ev, Returned)
<1>1. /\ Good(ev, Texts) \subseteq Good(ev, Returned)
      /\ Good(ev, {"RAW"} \cup Ends) \subseteq Good(ev, Returned)
      /\ ev \in Onward(ev)
  BY GoodMore, EvaluatorFields DEF Returned
<1>2. /\ a.vals \in Seq(Texts) /\ a.end \in {""} \cup Ends
      /\ a.end = "" => Len(a.vals) = Len(e.args)
  BY DEF SoFar
<1>3. CASE a.end = ""
  <2>1. CallFn(ev, e.fn, a) = IF e.fn \in Builtins THEN BuiltinFn(ev, e.fn, a.vals)
                              ELSE InstallFn(ev, e.fn, a.vals)
    BY <1>3 DEF CallFn
  <2>2. CASE e.fn \in Builtins
    <3>1. e.fn = "sleep" => Len(a.vals) >= 1
      <4>1. <<"sleep", 1>> \in Read
        BY DEF Read
      <4>2. QED
        BY <1>2, <1>3, <4>1 DEF EdifyNode
    <3>2. QED
      BY <1>1, <1>2, <2>1, <2>2, <3>1, BuiltinIsGood
  <2>3. CASE e.fn \in InstallFunctions /\ e.fn \notin Builtins
    <3>1. e.fn = "mount" => Len(a.vals) = 3
      <4>1. <<"mount", 3>> \in Numbered
        BY DEF Numbered
      <4>2. QED
        BY <1>2, <1>3, <4>1 DEF WrongNumber
    <3>2. e.fn = "symlink" => a.vals # <<>>
      <4>1. e.fn = "symlink" => Len(a.vals) # 0
        BY <1>2, <1>3 DEF WrongNumber
      <4>2. QED
        BY <4>1
    <3>3. e.fn = "write_firmware_image" => Len(a.vals) >= 2
      <4>1. <<"write_firmware_image", 2>> \in Read
        BY DEF Read
      <4>2. QED
        BY <1>2, <1>3, <4>1 DEF EdifyNode
    <3>4. InstallFn(ev, e.fn, a.vals) \subseteq Good(ev, {"RAW"} \cup Ends)
      BY <1>2, <2>3, <3>1, <3>2, <3>3, InstallIsGood
    <3>5. QED
      BY <1>1, <2>1, <2>3, <3>4
  <2>4. QED
    BY <2>2, <2>3
<1>4. CASE a.end # ""
  <2>1. \A v \in Ends : Out(ev, v) \in Good(ev, Returned)
    BY <1>1, GoodOne DEF Returned
  <2>2. CallFn(ev, e.fn, a) \in {DeleteAborts(ev, a.vals), {Out(ev, a.end)}}
    <3>1. CASE a.end = "NULL" /\ e.fn \in {"delete", "delete_recursive"}
      BY <3>1 DEF CallFn
    <3>2. CASE ~(a.end = "NULL" /\ e.fn \in {"delete", "delete_recursive"})
      BY <1>4, <3>2 DEF CallFn
    <3>3. QED
      BY <3>1, <3>2
  <2>3. DeleteAborts(ev, a.vals) \subseteq Good(ev, Returned)
    <3>1. \A v \in {"CRASH", "HANG", "NULL"} : Out(ev, v) \in Good(ev, Returned)
      BY <2>1 DEF Ends
    <3>2. CASE a.vals = <<>>
      <4>1. \A o \in DeleteAborts(ev, a.vals) : o \in {Out(ev, v) : v \in {"CRASH", "HANG", "NULL"}}
        BY <3>2 DEF DeleteAborts
      <4>2. QED
        BY <3>1, <4>1
    <3>3. CASE a.vals # <<>>
      <4>1. \A o \in DeleteAborts(ev, a.vals) : o \in {Out(ev, v) : v \in {"CRASH", "HANG", "NULL"}}
        BY <3>3 DEF DeleteAborts
      <4>2. QED
        BY <3>1, <4>1
    <3>4. QED
      BY <3>2, <3>3
  <2>4. {Out(ev, a.end)} \subseteq Good(ev, Returned)
    <3>1. a.end \in Ends
      BY <1>2, <1>4
    <3>2. Out(ev, a.end) \in Good(ev, Returned)
      BY <2>1, <3>1
    <3>3. QED
      BY <3>2
  <2>5. QED
    BY <2>2, <2>3, <2>4
<1>5. QED
  BY <1>3, <1>4

LEMMA CalledIsGood ==
  ASSUME NEW zip, NEW ev \in EvaluatorStates(zip), NEW nodes, NEW inner,
         InnerIsGood(inner, zip, nodes),
         NEW cd \in Seq(EntryType), ArchiveOf(zip, cd),
         NEW e, EdifyNode(e), e.args \in Seq(nodes)
  PROVE  Called(inner, ev, e) \subseteq Good(ev, Returned)
<1>1. /\ Good(ev, Ends) \subseteq Good(ev, Returned) /\ Good(ev, Worth) \subseteq Good(ev, Returned)
      /\ ev \in Onward(ev)
  BY GoodMore, EvaluatorFields DEF Returned, Worth
<1>2. CASE e.fn = "Literal"
  <2>1. Called(inner, ev, e) = {Out(ev, e.name)}
    BY <1>2 DEF Called, Lazy
  <2>2. e.name \in Returned
    BY DEF EdifyNode, Returned
  <2>3. QED
    BY <1>1, <2>1, <2>2, GoodOne
<1>3. CASE e.fn \in Lazy
  <2>1. Called(inner, ev, e) = LazyFn(inner, ev, e)
    BY <1>3 DEF Called, Lazy
  <2>2. CASE e.fn = "ifelse"
    BY <2>1, <2>2, IfElseIsGood DEF LazyFn
  <2>3. CASE e.fn = "abort"
    BY <2>1, <2>3, AbortedIsGood DEF LazyFn
  <2>4. CASE e.fn = "assert"
    BY <1>1, <2>1, <2>4, AssertedIsGood DEF LazyFn
  <2>5. CASE e.fn \in {"&&", "||", ";"}
    <3>1. Len(e.args) >= 2
      <4>1. <<"&&", 2>> \in Read /\ <<"||", 2>> \in Read /\ <<";", 2>> \in Read
        BY DEF Read
      <4>2. QED
        BY <2>5, <4>1 DEF EdifyNode
    <3> DEFINE both == e.fn = "&&"
    <3>2. LazyFn(inner, ev, e) \in {LogicalFn(inner, ev, e, both), SequenceFn(inner, ev, e)}
      BY <2>5 DEF LazyFn
    <3> HIDE DEF both
    <3>3. QED
      BY <2>1, <3>1, <3>2, LogicalIsGood
  <2>6. QED
    BY <1>3, <2>2, <2>3, <2>4, <2>5 DEF Lazy
<1>4. CASE e.fn \in Builtins \cup InstallFunctions
  <2> DEFINE X == Then(ReadVarArgs(inner, ev, Swapped(e)), LAMBDA t, a : CallFn(t, e.fn, a))
  <2>1. Called(inner, ev, e) = IF WrongNumber(e) THEN ErrorAbort(ev) ELSE X
    BY <1>4 DEF Called, Lazy, Builtins, InstallFunctions
  <2>2. /\ Swapped(e) \in Seq(nodes) /\ Len(Swapped(e)) = Len(e.args)
        /\ Len(e.args) \in Nat /\ (e.args = <<>> <=> Len(e.args) = 0)
    <3>1. Len(e.args) \in Nat /\ (e.args = <<>> <=> Len(e.args) = 0)
      OBVIOUS
    <3>2. QED
      BY <3>1, ReversedList DEF Swapped
  <2>3. ASSUME ~WrongNumber(e), NEW o \in X
        PROVE  o \in Good(ev, Returned)
    <3>1. PICK p \in ReadVarArgs(inner, ev, Swapped(e)) : o \in CallFn(p.s, e.fn, p.ret)
      BY DEF Then
    <3> HIDE DEF X
    <3>2. p \in Good(ev, SoFar(Len(e.args)))
      BY <2>2, <3>1, ArgumentsAreGood
    <3>3. p.s \in Onward(ev) /\ p.ret \in SoFar(Len(e.args))
      BY <3>2, GoodIs
    <3>4. p.s \in EvaluatorStates(zip) /\ Good(p.s, Returned) \subseteq Good(ev, Returned)
      BY <3>3, FurtherOn
    <3>5. CallFn(p.s, e.fn, p.ret) \subseteq Good(p.s, Returned)
      BY <1>4, <2>2, <2>3, <3>3, <3>4, CallIsGood
    <3>6. QED
      BY <3>1, <3>4, <3>5
  <2> HIDE DEF X
  <2>4. QED
    BY <1>1, <2>1, <2>3, AbortIsGood
<1>5. QED
  BY <1>2, <1>3, <1>4 DEF EdifyNode


\* What an expression is worth, and what it leaves.
LEMMA ExpressionIsGood ==
  ASSUME NEW zip, NEW ev \in EvaluatorStates(zip), NEW expr \in EdifyExpressions,
         NEW cd \in Seq(EntryType), ArchiveOf(zip, cd)
  PROVE  EvaluateValue(ev, expr) \subseteq Good(ev, Returned)
<1> DEFINE n == Len(expr)
           nodes == DOMAIN expr
           states == EvaluatorStates(ev.zip)
           domain == states \X DOMAIN expr
           any == UNION {Good(t, Returned) : t \in states}
           U == {f \in [domain -> SUBSET any] :
                   \A x \in domain : f[x] \subseteq Good(x[1], Returned)}
           V == [k \in 0..n |-> U]
           start == [x \in domain |-> {}]
           Turn(inner, k) == [x \in domain |-> Called(inner, x[1], expr[x[2]])]
           Turned(f) == [k \in 0..n |-> IF k = 0 THEN start ELSE Turn(f[k - 1], k)]
           after == CHOOSE f : f = Turned(f)
           turn == [k \in 1..n |-> [x \in U |-> Turn(x, k)]]
<1>0. ev.zip = zip
  BY EvaluatorFields
<1> HIDE DEF states
<1>1. n \in Nat /\ start \in U
  <2>1. n \in Nat
    BY DEF EdifyExpressions, Expressions
  <2>2. QED
    BY <2>1
<1>2. \A k \in 1..n : \A x \in U : Turn(x, k) \in U
  <2> TAKE k \in 1..n
  <2> TAKE inner \in U
  <2>1. InnerIsGood(inner, zip, nodes)
    <3>1. ASSUME NEW t \in states, NEW m \in nodes
          PROVE  inner[<<t, m>>] \subseteq Good(t, Returned)
      <4>1. <<t, m>> \in domain /\ <<t, m>>[1] = t
        OBVIOUS
      <4> HIDE DEF domain
      <4>2. QED
        BY <4>1
    <3>2. QED
      BY <1>0, <3>1 DEF InnerIsGood, states
  <2>2. ASSUME NEW x \in domain
        PROVE  Called(inner, x[1], expr[x[2]]) \subseteq Good(x[1], Returned)
    <3> DEFINE e == expr[x[2]]
    <3>1. x[1] \in states /\ x[2] \in DOMAIN expr
      OBVIOUS
    <3>2. e \in Nodes /\ EdifyNode(e)
      <4>1. expr \in Seq(Nodes)
        BY DEF EdifyExpressions, Expressions
      <4>2. \A i \in DOMAIN expr : EdifyNode(expr[i])
        BY Zenon DEF EdifyExpressions, EdifyNode
      <4>3. QED
        BY <3>1, <4>1, <4>2
    <3>3. e.args \in Seq(nodes)
      <4>1. e.args \in Seq(Nat) /\ \A j \in DOMAIN e.args : e.args[j] \in 1..(x[2] - 1)
        <5>1. e.args \in Seq(Nat)
          BY <3>2 DEF Nodes
        <5>2. \A i \in DOMAIN expr : \A j \in DOMAIN expr[i].args : expr[i].args[j] \in 1..(i - 1)
          BY DEF EdifyExpressions, Expressions
        <5>3. QED
          BY <3>1, <5>1, <5>2
      <4>2. DOMAIN expr = 1..n /\ n \in Nat
        BY DEF EdifyExpressions, Expressions
      <4>3. \A j \in DOMAIN e.args : e.args[j] \in nodes
        BY <3>1, <4>1, <4>2
      <4> HIDE DEF e, nodes
      <4>4. QED
        BY <4>1, <4>3, ListOf
    <3> HIDE DEF e, nodes
    <3>4. x[1] \in EvaluatorStates(zip)
      BY <1>0, <3>1 DEF states
    <3>5. QED
      BY <2>1, <3>2, <3>3, <3>4, CalledIsGood DEF e
  <2>3. \A x \in domain : Good(x[1], Returned) \subseteq any
    OBVIOUS
  <2> HIDE DEF domain, any, n, nodes
  <2>4. QED
    BY <2>2, <2>3
<1> HIDE DEF start
<1>3. \E f : f = Turned(f)
  <2>1. \A k \in 1..n : \A x \in U : turn[k][x] = Turn(x, k)
    <3> HIDE DEF Turn, U
    <3>1. QED
      OBVIOUS
  <2> HIDE DEF Turn, turn, U
  <2>2. \A k \in 1..n : \A x \in V[k - 1] : turn[k][x] \in V[k]
    <3>1. \A k \in 1..n : V[k - 1] = U /\ V[k] = U
      BY <1>1
    <3>2. QED
      BY <2>1, <1>2, <3>1
  <2>3. 0 \in 0..n /\ start \in V[0]
    BY <1>1
  <2> HIDE DEF V
  <2>4. PICK f : Values(f, n, start, turn) /\ \A k \in 0..n : f[k] \in V[k]
    BY <1>1, <2>2, <2>3, LoopExists
  <2>5. \A k \in 0..n : k = 0 \/ (turn[k][f[k - 1]] = Turn(f[k - 1], k))
    <3>1. \A k \in 1..n : f[k - 1] \in U
      BY <1>1, <2>4 DEF V
    <3>2. QED
      BY <1>1, <2>1, <3>1
  <2>6. f = Turned(f)
    BY <2>4, <2>5 DEF Values
  <2>7. QED
    BY <2>6, Zenon
<1>4. after = Turned(after)
  <2> HIDE DEF Turned
  <2>1. QED
    BY <1>3, Zenon
<1>5. after[0] = start /\ \A k \in 1..n : after[k] = Turn(after[k - 1], k)
  <2> HIDE DEF after, Turn, U
  <2>1. \A k \in 0..n : after[k] = IF k = 0 THEN start ELSE Turn(after[k - 1], k)
    BY <1>4, Zenon
  <2>2. 0 \in 0..n /\ \A k \in 1..n : k \in 0..n /\ k # 0
    BY <1>1
  <2>3. QED
    BY <2>1, <2>2
<1>6. after[n] \in U
  <2> HIDE DEF after, Turn, U, turn
  <2>1. \A k \in 0..n : V[k] = U
    OBVIOUS
  <2> HIDE DEF V
  <2>2. after[0] \in V[0] /\ n \in 0..n
    BY <1>1, <1>5, <2>1
  <2>3. \A k \in 1..n : after[k - 1] \in V[k - 1] => after[k] \in V[k]
    <3>1. \A k \in 1..n : k - 1 \in 0..n /\ k \in 0..n
      BY <1>1
    <3>2. QED
      BY <1>2, <1>5, <2>1, <3>1
  <2>4. QED
    BY <1>1, <2>1, <2>2, <2>3, LoopStays
<1>7. EvaluateValue(ev, expr) = after[n][<<ev, n>>]
  BY Zenon DEF EvaluateValue, ValueOf, Loop, start, states
<1>8. <<ev, n>> \in domain /\ <<ev, n>>[1] = ev
  <2>1. n \in DOMAIN expr
    BY DEF EdifyExpressions, Expressions
  <2>2. ev \in states
    BY <1>0 DEF states
  <2>3. QED
    BY <2>1, <2>2
<1> HIDE DEF after, domain, n, any
<1>9. QED
  BY <1>6, <1>7, <1>8

=============================================================================
