-------------------------- MODULE NandroidProofs --------------------------
(***************************************************************************)
(* What nandroid-mobile.sh keeps for every device, set of directories,     *)
(* selection and number of failures: its types; that a restore erases only *)
(* while all it has read is what a backup found; and that it writes back   *)
(* what was there.                                                         *)
(***************************************************************************)
EXTENDS Nandroid, FiniteSetTheorems, WellFoundedInduction, TLAPS

-----------------------------------------------------------------------------
(* The inductive invariant                                                 *)

\* What the script cannot see: a tool that failed, a wrong block, a short read.
Blind(dir, i) == i \in dir.missed \/ WrongBlock(i) \/ ReadShort(i)

\* A sum was computed from what was on the partition.
Attested(dir, sums) ==
  \A i \in Images : sums[i] \in {None, dir.was[i]} \/ Blind(dir, i)

\* A directory between two commands.  What has a file has been on a partition;
\* eMMC devices other than HTC's have no backup of wimax.
Kept(dir) ==
  /\ Attested(dir, dir.sums) /\ Attested(dir, dir.packedSums)
  /\ dir.sumsIn = {} => dir.sums = Nothing /\ dir.packedSums = Nothing
  /\ \A i \in Images : dir.was[i] = None =>
       dir.plain[i] = None /\ dir.packed[i] = None
  /\ device = "emmc" => dir.was["wimax"] = None

\* The file of an image is what was on its partition, or is not there.
Good(dir, i) == dir.plain[i] \in {None, dir.was[i]} \/ Blind(dir, i)

RawImages == ToSet(Raw)
TreeImages == ToSet(Trees) \cup ToSet(Archives)
Pending == ToSet(s.todo)

\* A process at work has a list of images; gzip's lists have the sums as well.
Types ==
  /\ TypeOK
  /\ \A i \in Images : part[i] # None
  /\ s.pc \in {"raw", "dump", "tree", "flash", "erase", "fill"} =>
       /\ s.todo \in Seq(Images) /\ Pending \subseteq s.sel
       /\ device = "emmc" => "wimax" \notin Pending
  /\ s.pc \in {"dump", "fill"} => s.todo # <<>>
  /\ s.pc \in {"pack", "unpack"} =>
       \A i \in Pending : i # Md5 => Dir.was[i] # None

Cards == \A n \in Names : Kept(card[n])

\* A backup before its sums: what it has behind it is good, or was not selected.
SavingInv ==
  /\ s.pc \in Saving \ {"pack"} =>
       Dir.sumsIn = {} /\ \A i \in Images \ s.sel : Dir.was[i] = None
  /\ s.pc \in {"raw", "dump"} => \A i \in RawImages \ Pending : Good(Dir, i)
  /\ s.pc = "dump" =>
       /\ s.block \in {Image, "foo"} \/ WrongBlock(Image)
       /\ s.md5 \in {Reads(s.block), Misread(1)}
  /\ s.pc = "tree" => \A i \in Images \ Pending : Good(Dir, i)
  /\ s.pc = "sums" => \A i \in Images : Good(Dir, i)

\* A restore behind the sums: all of the directory is intact, and what has a file
\* and is behind the process has been written back.
Restored(i) == i \in s.missed \/ part[i] = Dir.plain[i]
ToRestore == s.sel \cap Files(Dir.plain)

RestoringInv ==
  s.pc \in {"flash", "erase", "fill", "restored"} =>
    /\ \A i \in Images : Intact(Dir, i)
    /\ s.sel \subseteq Restorable(Dir, Images)
    /\ s.pc = "flash" =>
         \A i \in ToRestore \cap RawImages : i \in Pending \/ Restored(i)
    /\ s.pc # "flash" =>
         /\ \A i \in ToRestore : i \in Pending \/ Restored(i)
         /\ Pending \cap RawImages = {}
    /\ s.pc = "restored" => s.todo = <<>>

NandroidInv == Types /\ Cards /\ SavingInv /\ RestoringInv

-----------------------------------------------------------------------------
(* Lists                                                                   *)

\* Every set of numbers that is not empty has a least one: among the intervals
\* that end in it there is one that contains no other.
LEMMA LeastNumber ==
  ASSUME NEW T \in SUBSET Nat, T # {}
  PROVE  \E n \in T : \A m \in T : n <= m
<1> DEFINE below == {0..n : n \in T}
<1>1. /\ below \subseteq FiniteSubsetsOf(Nat) /\ below # {}
  <2>1. \A n \in T : IsFiniteSet(0..n)
    BY FS_Interval
  <2>2. \A n \in T : 0..n \in SUBSET Nat
    OBVIOUS
  <2>3. QED
    BY <2>1, <2>2 DEF FiniteSubsetsOf
<1>2. PICK x \in below : \A y \in below : ~(<<y, x>> \in StrictSubsetOrdering(Nat))
  <2> HIDE DEF below
  <2>1. IsWellFoundedOn(StrictSubsetOrdering(Nat), FiniteSubsetsOf(Nat))
    BY FS_StrictSubsetOrderingWellFounded
  <2>2. QED
    BY <1>1, <2>1, WFMin, Zenon
<1>3. PICK n \in T : x = 0..n
  OBVIOUS
<1>4. ASSUME NEW m \in T, ~(n <= m)
      PROVE  FALSE
  <2>1. n \in Nat /\ m \in Nat /\ m < n
    BY <1>4
  <2>2. 0..m \subseteq 0..n /\ n \in 0..n /\ n \notin 0..m
    BY <2>1
  <2>3. <<0..m, 0..n>> \in StrictSubsetOrdering(Nat)
    <3>1. 0..m \in SUBSET Nat /\ 0..n \in SUBSET Nat /\ 0..m # 0..n
      BY <2>1, <2>2
    <3>2. QED
      BY <3>1, <2>2 DEF StrictSubsetOrdering
  <2>4. 0..m \in below
    OBVIOUS
  <2> HIDE DEF below
  <2>5. QED
    BY <1>2, <1>3, <2>3, <2>4
<1>5. QED
  BY <1>4

\* The elements of a list, of its tail, and of one more element.
LEMMA Elements ==
  ASSUME NEW S, NEW list \in Seq(S)
  PROVE  /\ \A x : x \in ToSet(list) <=> \E i \in 1..Len(list) : x = list[i]
         /\ ToSet(list) \subseteq S
         /\ list = <<>> <=> ToSet(list) = {}
<1>1. DOMAIN list = 1..Len(list) /\ Len(list) \in Nat
  OBVIOUS
<1>2. \A x : x \in ToSet(list) <=> \E i \in 1..Len(list) : x = list[i]
  BY <1>1 DEF ToSet
<1>3. \A i \in 1..Len(list) : list[i] \in S
  OBVIOUS
<1>4. list = <<>> => ToSet(list) = {}
  BY <1>1, <1>2
<1>5. list # <<>> => 1 \in 1..Len(list)
  OBVIOUS
<1>6. QED
  BY <1>2, <1>3, <1>4, <1>5

LEMMA HeadAndTail ==
  ASSUME NEW S, NEW list \in Seq(S), list # <<>>
  PROVE  /\ Head(list) \in S /\ Tail(list) \in Seq(S)
         /\ Head(list) \in ToSet(list)
         /\ ToSet(Tail(list)) \subseteq ToSet(list)
         /\ ToSet(list) \subseteq {Head(list)} \cup ToSet(Tail(list))
<1>1. /\ Head(list) \in S /\ Tail(list) \in Seq(S) /\ Head(list) = list[1]
      /\ Len(list) \in Nat \ {0} /\ Len(Tail(list)) = Len(list) - 1
      /\ \A i \in 1..(Len(list) - 1) : Tail(list)[i] = list[i + 1]
  OBVIOUS
<1>2. /\ \A x : x \in ToSet(list) <=> \E i \in 1..Len(list) : x = list[i]
      /\ \A x : x \in ToSet(Tail(list)) <=>
           \E i \in 1..Len(Tail(list)) : x = Tail(list)[i]
  BY <1>1, Elements
<1>3. 1 \in 1..Len(list)
  BY <1>1
<1>4. \A i \in 1..(Len(list) - 1) : i + 1 \in 1..Len(list)
  BY <1>1
<1>5. \A i \in 1..Len(list) : i = 1 \/ i - 1 \in 1..(Len(list) - 1)
  BY <1>1
<1>6. \A i \in 1..Len(list) : i = 1 \/ (Tail(list)[i - 1] = list[i])
  BY <1>1, <1>5
<1>7. QED
  BY <1>1, <1>2, <1>3, <1>4, <1>5, <1>6

LEMMA Appended ==
  ASSUME NEW S, NEW list \in Seq(S), NEW x \in S
  PROVE  /\ Append(list, x) \in Seq(S)
         /\ ToSet(Append(list, x)) = ToSet(list) \cup {x}
<1> DEFINE longer == Append(list, x)
           N == Len(list)
<1>1. /\ longer \in Seq(S) /\ N \in Nat /\ Len(longer) = N + 1
      /\ \A i \in 1..N : longer[i] = list[i]
      /\ longer[N + 1] = x
  OBVIOUS
<1>2. \A y : y \in ToSet(list) <=> \E i \in 1..N : y = list[i]
  BY Elements
<1>3. \A y : y \in ToSet(longer) <=> \E i \in 1..(N + 1) : y = longer[i]
  BY <1>1, Elements
<1>4. /\ \A i \in 1..(N + 1) : i \in 1..N \/ i = N + 1
      /\ 1..N \subseteq 1..(N + 1) /\ N + 1 \in 1..(N + 1)
  BY <1>1
<1> HIDE DEF longer, N
<1>5. \A y : y \in ToSet(longer) <=> y \in ToSet(list) \/ y = x
  BY <1>1, <1>2, <1>3, <1>4
<1>6. QED
  BY <1>1, <1>5 DEF longer

\* A list backwards has the same elements.
LEMMA Reversed ==
  ASSUME NEW S, NEW list \in Seq(S)
  PROVE  Reverse(list) \in Seq(S) /\ ToSet(Reverse(list)) = ToSet(list)
<1> DEFINE back == Reverse(list)
           N == Len(list)
<1>1. /\ N \in Nat /\ \A i \in 1..N : list[i] \in S
      /\ back = [i \in 1..N |-> list[(N - i) + 1]]
  BY DEF Reverse
<1>2. \A i \in 1..N : (N - i) + 1 \in 1..N /\ (N - ((N - i) + 1)) + 1 = i
  BY <1>1
<1> HIDE DEF back, N
<1>3. back \in [1..N -> S]
  BY <1>1, <1>2
<1>4. back \in Seq(S) /\ Len(back) = N
  BY <1>1, <1>3
<1>5. \A y : y \in ToSet(list) <=> \E i \in 1..N : y = list[i]
  BY Elements DEF N
<1>6. \A y : y \in ToSet(back) <=> \E i \in 1..N : y = back[i]
  BY <1>4, Elements
<1>7. \A i \in 1..N : back[i] = list[(N - i) + 1] /\ back[(N - i) + 1] = list[i]
  BY <1>1, <1>2
<1>8. \A y : y \in ToSet(back) <=> y \in ToSet(list)
  BY <1>2, <1>5, <1>6, <1>7
<1>9. QED
  BY <1>4, <1>8 DEF back


\* A loop's list of the first m elements that are kept, for every length.
Longer(list, keep, f, n) ==
  IF list[n] \in keep THEN Append(f[n - 1], list[n]) ELSE f[n - 1]
Lists(list, keep, f, m) ==
  f[0] = <<>> /\ \A n \in 1..m : f[n] = Longer(list, keep, f, n)
Filters(list, keep, f, m) ==
  /\ DOMAIN f = 0..m
  /\ Lists(list, keep, f, m)

LEMMA FilterExists ==
  ASSUME NEW S, NEW list \in Seq(S), NEW keep
  PROVE  \A m \in 0..Len(list) : \E f : Filters(list, keep, f, m)
<1> DEFINE T == {m \in 0..Len(list) : ~ \E f : Filters(list, keep, f, m)}
<1>1. SUFFICES ASSUME T # {} PROVE FALSE
  OBVIOUS
<1>2. PICK m \in T : \A k \in T : m <= k
  <2>1. T \in SUBSET Nat
    OBVIOUS
  <2> HIDE DEF T
  <2>2. QED
    BY <1>1, <2>1, LeastNumber
<1>3. m \in 0..Len(list) /\ ~ \E f : Filters(list, keep, f, m)
  OBVIOUS
<1>4. m # 0
  <2> DEFINE first == [k \in 0..0 |-> <<>>]
  <2>1. Filters(list, keep, first, 0)
    BY DEF Filters, Lists
  <2> HIDE DEF first
  <2>2. QED
    BY <1>3, <2>1
<1>5. m \in Nat \ {0} /\ m - 1 \in 0..Len(list) /\ m - 1 \notin T
  BY <1>2, <1>3, <1>4
<1>6. PICK f : Filters(list, keep, f, m - 1)
  BY <1>5
<1> HIDE DEF T
<1> DEFINE next == [k \in 0..m |-> IF k = m THEN Longer(list, keep, f, m)
                                   ELSE f[k]]
<1>7. DOMAIN next = 0..m /\ next[0] = <<>>
  <2>1. 0 \in 0..m /\ 0 # m
    BY <1>5
  <2>2. f[0] = <<>>
    BY <1>6 DEF Filters, Lists
  <2>3. QED
    BY <2>1, <2>2
<1>8. ASSUME NEW n \in 1..m
      PROVE  next[n] = Longer(list, keep, next, n)
  <2>1. n \in 0..m /\ n - 1 \in 0..m /\ n - 1 # m /\ (n # m => n \in 1..(m - 1))
    BY <1>5
  <2>2. next[n - 1] = f[n - 1]
    BY <2>1
  <2>3. next[n] = Longer(list, keep, f, n)
    <3>1. CASE n = m
      BY <2>1, <3>1
    <3>2. CASE n # m
      <4>1. next[n] = f[n]
        BY <2>1, <3>2
      <4>2. f[n] = Longer(list, keep, f, n)
        BY <2>1, <3>2, <1>6 DEF Filters, Lists
      <4>3. QED
        BY <4>1, <4>2
    <3>3. QED
      BY <3>1, <3>2
  <2> HIDE DEF next
  <2>4. QED
    BY <2>2, <2>3 DEF Longer
<1> HIDE DEF next
<1>9. Filters(list, keep, next, m)
  BY <1>7, <1>8 DEF Filters, Lists
<1>10. QED
  BY <1>3, <1>9

\* Only returns what such a list ends with.
LEMMA OnlyFilters ==
  ASSUME NEW S, NEW list \in Seq(S), NEW keep
  PROVE  \E f : /\ Lists(list, keep, f, Len(list))
                /\ Only(list, keep) = f[Len(list)]
<1> DEFINE N == Len(list)
           Turned(f) == [n \in 0..N |->
             IF n = 0 THEN <<>>
             ELSE IF list[n] \in keep THEN Append(f[n - 1], list[n])
             ELSE f[n - 1]]
           first == CHOOSE f : f = Turned(f)
<1>1. N \in Nat
  OBVIOUS
<1>2. PICK f : Filters(list, keep, f, N)
  <2>1. N \in 0..N
    BY <1>1
  <2>2. QED
    BY <2>1, FilterExists
<1>3. f = Turned(f)
  <2>1. DOMAIN f = 0..N /\ f[0] = <<>>
        /\ \A n \in 1..N : f[n] = Longer(list, keep, f, n)
    BY <1>2 DEF Filters, Lists
  <2>2. \A n \in 0..N : n # 0 => n \in 1..N
    BY <1>1
  <2>3. f = [n \in 0..N |-> f[n]]
    BY <2>1
  <2>4. \A n \in 0..N : f[n] = IF n = 0 THEN <<>>
             ELSE IF list[n] \in keep THEN Append(f[n - 1], list[n])
             ELSE f[n - 1]
    BY <2>1, <2>2 DEF Longer
  <2>5. QED
    BY <2>3, <2>4, Zenon
<1>4. first = Turned(first)
  <2> HIDE DEF Turned
  <2>1. QED
    BY <1>3, Zenon
<1>5. /\ first[0] = <<>>
      /\ \A n \in 1..N : first[n] = Longer(list, keep, first, n)
  <2> HIDE DEF first
  <2>1. \A n \in 0..N : first[n] = IF n = 0 THEN <<>>
             ELSE IF list[n] \in keep THEN Append(first[n - 1], list[n])
             ELSE first[n - 1]
    BY <1>4, Zenon
  <2>2. 0 \in 0..N /\ \A n \in 1..N : n \in 0..N /\ n # 0
    BY <1>1
  <2>3. QED
    BY <2>1, <2>2 DEF Longer
<1>6. Only(list, keep) = first[N]
  BY Zenon DEF Only
<1> HIDE DEF first
<1>7. Lists(list, keep, first, N)
  BY <1>5 DEF Lists
<1>8. QED
  BY <1>6, <1>7

\* The list of a loop has the elements of the first list that are kept.
LEMMA OnlyKept ==
  ASSUME NEW S, NEW list \in Seq(S), NEW keep
  PROVE  /\ Only(list, keep) \in Seq(S)
         /\ ToSet(Only(list, keep)) = ToSet(list) \cap keep
<1> DEFINE N == Len(list)
<1>1. N \in Nat /\ \A i \in 1..N : list[i] \in S
  OBVIOUS
<1>2. PICK f : Lists(list, keep, f, N) /\ Only(list, keep) = f[N]
  BY OnlyFilters
<1> DEFINE Of(n) == {list[i] : i \in 1..n} \cap keep
           T == {n \in 0..N : ~(f[n] \in Seq(S) /\ ToSet(f[n]) = Of(n))}
<1>3. T = {}
  <2>1. SUFFICES ASSUME T # {} PROVE FALSE
    OBVIOUS
  <2>2. PICK m \in T : \A k \in T : m <= k
    <3>1. T \in SUBSET Nat
      OBVIOUS
    <3> HIDE DEF T
    <3>2. QED
      BY <2>1, <3>1, LeastNumber
  <2>3. m \in 0..N /\ ~(f[m] \in Seq(S) /\ ToSet(f[m]) = Of(m))
    OBVIOUS
  <2>4. m # 0
    <3>1. f[0] = <<>>
      BY <1>2 DEF Lists
    <3>2. <<>> \in Seq(S)
      OBVIOUS
    <3>3. ToSet(<<>>) = {}
      BY <3>2, Elements
    <3>4. Of(0) = {}
      OBVIOUS
    <3> HIDE DEF Of, T
    <3>5. QED
      BY <2>3, <3>1, <3>2, <3>3, <3>4
  <2>5. m \in 1..N /\ m - 1 \in 0..N /\ m - 1 \notin T
    <3>1. m \in 1..N /\ m - 1 \in 0..N /\ ~(m <= m - 1)
      BY <1>1, <2>3, <2>4
    <3> HIDE DEF T
    <3>2. QED
      BY <2>2, <3>1
  <2>6. f[m - 1] \in Seq(S) /\ ToSet(f[m - 1]) = Of(m - 1)
    BY <2>5
  <2> HIDE DEF T
  <2>7. f[m] = IF list[m] \in keep THEN Append(f[m - 1], list[m]) ELSE f[m - 1]
    BY <1>2, <2>5 DEF Lists, Longer
  <2>8. list[m] \in S
    BY <1>1, <2>5
  <2>9. {list[i] : i \in 1..m} = {list[i] : i \in 1..(m - 1)} \cup {list[m]}
    <3>1. \A i \in 1..m : i = m \/ i \in 1..(m - 1)
      BY <1>1, <2>5
    <3>2. m \in 1..m /\ \A i \in 1..(m - 1) : i \in 1..m
      BY <1>1, <2>5
    <3>3. QED
      BY <3>1, <3>2
  <2>10. CASE list[m] \in keep
    <3>1. Of(m) = Of(m - 1) \cup {list[m]}
      BY <2>9, <2>10
    <3>2. /\ Append(f[m - 1], list[m]) \in Seq(S)
          /\ ToSet(Append(f[m - 1], list[m])) = ToSet(f[m - 1]) \cup {list[m]}
      BY <2>6, <2>8, Appended
    <3> HIDE DEF Of
    <3>3. QED
      BY <2>3, <2>6, <2>7, <2>10, <3>1, <3>2
  <2>11. CASE list[m] \notin keep
    <3>1. Of(m) = Of(m - 1)
      BY <2>9, <2>11
    <3> HIDE DEF Of
    <3>2. QED
      BY <2>3, <2>6, <2>7, <2>11, <3>1
  <2>12. QED
    BY <2>10, <2>11
<1>4. N \in 0..N
  BY <1>1
<1>5. f[N] \in Seq(S) /\ ToSet(f[N]) = Of(N)
  BY <1>3, <1>4
<1>6. {list[i] : i \in 1..N} = ToSet(list)
  <2>1. \A x : x \in ToSet(list) <=> \E i \in 1..N : x = list[i]
    BY Elements
  <2>2. QED
    BY <2>1
<1>7. QED
  BY <1>2, <1>5, <1>6

-----------------------------------------------------------------------------
(* Images, loops and contents                                              *)

LEMMA ImageLists ==
  /\ Raw \in Seq(Images) /\ RawRestored \in Seq(Images)
  /\ Trees \in Seq(Images) /\ TreesRestored \in Seq(Images)
  /\ Archives \in Seq(Images)
  /\ Trees \o Archives \in Seq(Images) /\ TreesRestored \o Archives \in Seq(Images)
<1>1. {"boot", "recovery", "misc", "wimax", "system", "data", "cache", "flexrom",
       "ext", "android_secure", "android_internalsd_secure"} \subseteq Images
  <2>1. /\ ToSet(Raw) = {"boot", "recovery", "misc", "wimax"}
        /\ ToSet(Trees) = {"system", "data", "cache", "flexrom"}
        /\ ToSet(Archives) =
             {"ext", "android_secure", "android_internalsd_secure"}
    BY DEF ToSet, Raw, Trees, Archives
  <2>2. QED
    BY <2>1 DEF Images
<1> HIDE DEF Images
<1>2. Raw \in Seq(Images) /\ RawRestored \in Seq(Images)
  BY <1>1 DEF Raw, RawRestored
<1>3. Trees \in Seq(Images) /\ TreesRestored \in Seq(Images) /\ Archives \in Seq(Images)
  BY <1>1 DEF Trees, TreesRestored, Archives
<1>4. QED
  BY <1>2, <1>3

LEMMA Joined ==
  ASSUME NEW S, NEW list \in Seq(S), NEW more \in Seq(S)
  PROVE  ToSet(list \o more) = ToSet(list) \cup ToSet(more)
<1> DEFINE N == Len(list)
           M == Len(more)
           both == list \o more
<1>1. /\ N \in Nat /\ M \in Nat /\ both \in Seq(S) /\ Len(both) = N + M
      /\ \A i \in 1..N : both[i] = list[i]
      /\ \A i \in 1..M : both[N + i] = more[i]
  OBVIOUS
<1>2. /\ \A x : x \in ToSet(list) <=> \E i \in 1..N : x = list[i]
      /\ \A x : x \in ToSet(more) <=> \E i \in 1..M : x = more[i]
      /\ \A x : x \in ToSet(both) <=> \E i \in 1..(N + M) : x = both[i]
  <2>1. \A x : x \in ToSet(list) <=> \E i \in 1..N : x = list[i]
    BY Elements
  <2>2. \A x : x \in ToSet(more) <=> \E i \in 1..M : x = more[i]
    BY Elements
  <2> HIDE DEF both
  <2>3. \A x : x \in ToSet(both) <=> \E i \in 1..Len(both) : x = both[i]
    BY <1>1, Elements
  <2>4. QED
    BY <1>1, <2>1, <2>2, <2>3
<1>3. /\ \A i \in 1..(N + M) : i \in 1..N \/ (i - N \in 1..M /\ N + (i - N) = i)
      /\ \A i \in 1..N : i \in 1..(N + M)
      /\ \A i \in 1..M : N + i \in 1..(N + M)
  BY <1>1
<1> HIDE DEF N, M, both
<1>4. \A x : x \in ToSet(both) => x \in ToSet(list) \/ x \in ToSet(more)
  <2>1. SUFFICES ASSUME NEW i \in 1..(N + M)
                 PROVE  both[i] \in ToSet(list) \/ both[i] \in ToSet(more)
    BY <1>2
  <2>2. CASE i \in 1..N
    BY <1>1, <1>2, <2>2
  <2>3. CASE i - N \in 1..M /\ N + (i - N) = i
    <3>1. both[N + (i - N)] = more[i - N]
      BY <1>1, <2>3
    <3>2. QED
      BY <1>2, <2>3, <3>1
  <2>4. QED
    BY <1>3, <2>2, <2>3
<1>5. \A x : x \in ToSet(list) \/ x \in ToSet(more) => x \in ToSet(both)
  BY <1>1, <1>2, <1>3
<1>6. QED
  BY <1>4, <1>5 DEF both

LEMMA ImageSets ==
  /\ RawImages = {"boot", "recovery", "misc", "wimax"}
  /\ ToSet(RawRestored) = RawImages
  /\ ToSet(Trees \o Archives) = TreeImages
  /\ ToSet(TreesRestored \o Archives) = TreeImages
  /\ ToSet(Archives) \subseteq TreeImages
  /\ Images = RawImages \cup TreeImages /\ RawImages \cap TreeImages = {}
  /\ "wimax" \in Images /\ Md5 \notin Images
<1>1. /\ ToSet(Raw) = {"boot", "recovery", "misc", "wimax"}
      /\ ToSet(RawRestored) = {"boot", "recovery", "misc", "wimax"}
  BY DEF ToSet, Raw, RawRestored
<1>2. /\ ToSet(Trees) = {"system", "data", "cache", "flexrom"}
      /\ ToSet(Archives) =
           {"ext", "android_secure", "android_internalsd_secure"}
  BY DEF ToSet, Trees, Archives
<1>3. ToSet(TreesRestored) = {"data", "system", "cache", "flexrom"}
  BY DEF ToSet, TreesRestored
<1>4. /\ ToSet(Trees \o Archives) = ToSet(Trees) \cup ToSet(Archives)
      /\ ToSet(TreesRestored \o Archives) = ToSet(TreesRestored) \cup ToSet(Archives)
  BY ImageLists, Joined
<1>5. QED
  BY <1>1, <1>2, <1>3, <1>4 DEF Images, RawImages, TreeImages, Md5

\* A loop of the script takes what is selected of its list, in the list's order.
LEMMA LoopTakes ==
  ASSUME NEW images \in Seq(Images), NEW sel
  PROVE  /\ Wanted(images, sel) \in Seq(Images)
         /\ ToSet(Wanted(images, sel)) =
              ToSet(images) \cap (IF device = "emmc" THEN sel \ {"wimax"} ELSE sel)
BY OnlyKept DEF Wanted

LEMMA FilesListed ==
  ASSUME NEW files \in SUBSET (Images \cup {Md5})
  PROVE  /\ OfSize(files) \in Seq(Images \cup {Md5})
         /\ ToSet(OfSize(files)) = files
<1>1. BySize \in Seq(Images \cup {Md5}) /\ ToSet(BySize) = Images \cup {Md5}
  BY NandroidAssumption
<1>2. /\ OfSize(files) \in Seq(Images \cup {Md5})
      /\ ToSet(OfSize(files)) = ToSet(BySize) \cap files
  BY <1>1, OnlyKept DEF OfSize
<1>3. QED
  BY <1>1, <1>2

\* Nothing that is on a partition, and nothing a tool leaves, is no file.
LEMMA Something ==
  /\ None \in Contents
  /\ {Empty, Short, Partial, Torn, Rotten, Misread(1), Misread(2)} \subseteq
       Contents \ {None}
  /\ \A i \in Images, v \in 0..MaxVersion : <<i, v>> \in Contents \ {None}
  /\ Misread(1) # Misread(2) /\ Misread(1) # Short
<1>1. "none" \notin Images
  <2>1. /\ ToSet(Raw) = {"boot", "recovery", "misc", "wimax"}
        /\ ToSet(Trees) = {"system", "data", "cache", "flexrom"}
        /\ ToSet(Archives) =
             {"ext", "android_secure", "android_internalsd_secure"}
    BY DEF ToSet, Raw, Trees, Archives
  <2>2. QED
    BY <2>1 DEF Images
<1>2. \A i \in Images, v \in 0..MaxVersion : <<i, v>> \in Originals /\ <<i, v>> # None
  <2> HIDE DEF Images
  <2>1. QED
    BY <1>1 DEF Originals, None
<1>3. {Empty, Short, Partial, Torn, Rotten, Misread(1), Misread(2)} \subseteq Contents
  BY DEF Contents
<1>4. None \notin {Empty, Short, Partial, Torn, Rotten, Misread(1), Misread(2)}
  BY DEF None, Empty, Short, Partial, Torn, Rotten, Misread
<1>5. Misread(1) # Misread(2) /\ Misread(1) # Short
  BY DEF Misread, Short
<1>6. QED
  BY <1>2, <1>3, <1>4, <1>5 DEF Contents

-----------------------------------------------------------------------------
(* What the commands make of a directory                                   *)

LEMMA FilesOf ==
  ASSUME NEW d \in Directories
  PROVE  /\ d.plain \in [Images -> Contents] /\ d.packed \in [Images -> Contents]
         /\ d.sums \in [Images -> Contents] /\ d.packedSums \in [Images -> Contents]
         /\ d.sumsIn \in SUBSET {"plain", "packed"}
         /\ d.was \in [Images -> Contents] /\ d.missed \in SUBSET Images
         /\ d = [plain |-> d.plain, packed |-> d.packed, sums |-> d.sums,
                 packedSums |-> d.packedSums, sumsIn |-> d.sumsIn,
                 was |-> d.was, missed |-> d.missed]
BY DEF Directories

\* A new directory, and one that is deleted.
LEMMA KeptEmpty ==
  ASSUME NEW was \in [Images -> Contents], device = "emmc" => was["wimax"] = None
  PROVE  /\ [NoDirectory EXCEPT !.was = was] \in Directories
         /\ Kept([NoDirectory EXCEPT !.was = was])
<1> DEFINE d == [NoDirectory EXCEPT !.was = was]
<1>1. /\ d.plain = Nothing /\ d.packed = Nothing /\ d.sums = Nothing
      /\ d.packedSums = Nothing /\ d.sumsIn = {} /\ d.was = was /\ d.missed = {}
  BY DEF NoDirectory
<1>2. Nothing \in [Images -> Contents] /\ \A i \in Images : Nothing[i] = None
  BY Something DEF Nothing
<1>3. d \in Directories
  BY <1>2 DEF NoDirectory, Directories
<1> HIDE DEF d
<1>4. Kept(d)
  BY <1>1, <1>2 DEF Kept, Attested
<1>5. QED
  BY <1>3, <1>4 DEF d

\* A dump, or an archive, before there are sums: whatever is in the file.
LEMMA KeptWrote ==
  ASSUME NEW d \in Directories, Kept(d), d.sumsIn = {},
         NEW i \in Images, device = "emmc" => i # "wimax",
         NEW content \in Contents, NEW x \in Contents \ {None},
         NEW missed \in SUBSET Images
  PROVE  LET e == [d EXCEPT !.plain[i] = content, !.was[i] = x, !.missed = missed]
         IN  e \in Directories /\ Kept(e)
<1> DEFINE e == [d EXCEPT !.plain[i] = content, !.was[i] = x, !.missed = missed]
<1>1. /\ e.plain = [d.plain EXCEPT ![i] = content] /\ e.packed = d.packed
      /\ e.sums = d.sums /\ e.packedSums = d.packedSums /\ e.sumsIn = d.sumsIn
      /\ e.was = [d.was EXCEPT ![i] = x] /\ e.missed = missed
  BY DEF Directories
<1>2. e \in Directories
  BY DEF Directories
<1> HIDE DEF e
<1>3. d.sums = Nothing /\ d.packedSums = Nothing
  BY DEF Kept
<1>4. \A j \in Images : Nothing[j] = None
  BY DEF Nothing
<1>5. Attested(e, e.sums) /\ Attested(e, e.packedSums)
  BY <1>1, <1>3, <1>4 DEF Attested
<1>6. \A j \in Images : e.was[j] = None => e.plain[j] = None /\ e.packed[j] = None
  BY <1>1, FilesOf DEF Kept
<1>7. device = "emmc" => e.was["wimax"] = None
  BY <1>1, FilesOf, ImageSets DEF Kept
<1>8. Kept(e)
  BY <1>1, <1>3, <1>5, <1>6, <1>7 DEF Kept
<1>9. QED
  BY <1>2, <1>8 DEF e

\* md5sum, whose list may be torn.
LEMMA KeptSums ==
  ASSUME NEW d \in Directories, Kept(d), d.sumsIn = {},
         \A i \in Images : Good(d, i), NEW listed \in SUBSET Images
  PROVE  LET e == [d EXCEPT !.sums = [i \in Images |-> IF i \in listed
                                        THEN d.plain[i] ELSE None],
                            !.sumsIn = @ \cup {"plain"}]
         IN  e \in Directories /\ Kept(e)
<1> DEFINE sums == [i \in Images |-> IF i \in listed THEN d.plain[i] ELSE None]
           e == [d EXCEPT !.sums = sums, !.sumsIn = @ \cup {"plain"}]
<1>1. sums \in [Images -> Contents]
  BY FilesOf, Something
<1>2. \A i \in Images : sums[i] = None \/ sums[i] = d.plain[i]
  OBVIOUS
<1> HIDE DEF sums
<1>3. /\ e.plain = d.plain /\ e.packed = d.packed
      /\ e.sums = sums /\ e.packedSums = d.packedSums
      /\ e.sumsIn = d.sumsIn \cup {"plain"}
      /\ e.was = d.was /\ e.missed = d.missed
  BY DEF Directories
<1>4. e \in Directories
  BY <1>1 DEF Directories
<1> HIDE DEF e
<1>5. Attested(e, e.sums)
  <2>1. ASSUME NEW i \in Images
        PROVE  sums[i] \in {None, d.was[i]} \/ Blind(d, i)
    BY <1>2 DEF Good
  <2>2. QED
    BY <1>3, <2>1 DEF Attested, Blind
<1>6. Attested(e, e.packedSums)
  BY <1>3 DEF Kept, Attested, Blind
<1>7. Kept(e)
  BY <1>3, <1>5, <1>6 DEF Kept
<1>8. QED
  BY <1>4, <1>7 DEF e, sums

\* gzip and gzip -d of nandroid.md5.
LEMMA KeptSumsMoved ==
  ASSUME NEW d \in Directories, Kept(d)
  PROVE  /\ LET e == [d EXCEPT !.packedSums = d.sums, !.sumsIn = {"packed"}]
            IN  e \in Directories /\ Kept(e)
         /\ LET e == [d EXCEPT !.sums = d.packedSums, !.sumsIn = {"plain"}]
            IN  e \in Directories /\ Kept(e)
<1>1. LET e == [d EXCEPT !.packedSums = d.sums, !.sumsIn = {"packed"}]
      IN  e \in Directories /\ Kept(e)
  <2> DEFINE e == [d EXCEPT !.packedSums = d.sums, !.sumsIn = {"packed"}]
  <2>1. /\ e.plain = d.plain /\ e.packed = d.packed
        /\ e.sums = d.sums /\ e.packedSums = d.sums /\ e.sumsIn = {"packed"}
        /\ e.was = d.was /\ e.missed = d.missed
    BY DEF Directories
  <2>2. e \in Directories
    BY DEF Directories
  <2> HIDE DEF e
  <2>3. Kept(e)
    BY <2>1 DEF Kept, Attested, Blind
  <2>4. QED
    BY <2>2, <2>3 DEF e
<1>2. LET e == [d EXCEPT !.sums = d.packedSums, !.sumsIn = {"plain"}]
      IN  e \in Directories /\ Kept(e)
  <2> DEFINE e == [d EXCEPT !.sums = d.packedSums, !.sumsIn = {"plain"}]
  <2>1. /\ e.plain = d.plain /\ e.packed = d.packed
        /\ e.sums = d.packedSums /\ e.packedSums = d.packedSums
        /\ e.sumsIn = {"plain"} /\ e.was = d.was /\ e.missed = d.missed
    BY DEF Directories
  <2>2. e \in Directories
    BY DEF Directories
  <2> HIDE DEF e
  <2>3. Kept(e)
    BY <2>1 DEF Kept, Attested, Blind
  <2>4. QED
    BY <2>2, <2>3 DEF e
<1>3. QED
  BY <1>1, <1>2

\* gzip, gzip -d, rot and power losses change the files of an image that has, or
\* had, some: the sums stay what they were.
LEMMA KeptFiles ==
  ASSUME NEW d \in Directories, Kept(d), NEW i \in Images,
         NEW plain \in Contents, NEW packed \in Contents,
         d.was[i] # None \/ (plain = None /\ packed = None)
  PROVE  LET e == [d EXCEPT !.plain[i] = plain, !.packed[i] = packed]
         IN  e \in Directories /\ Kept(e)
<1> DEFINE e == [d EXCEPT !.plain[i] = plain, !.packed[i] = packed]
<1>1. /\ e.plain = [d.plain EXCEPT ![i] = plain]
      /\ e.packed = [d.packed EXCEPT ![i] = packed]
      /\ e.sums = d.sums /\ e.packedSums = d.packedSums
      /\ e.sumsIn = d.sumsIn /\ e.was = d.was /\ e.missed = d.missed
  BY DEF Directories
<1>2. e \in Directories
  BY DEF Directories
<1> HIDE DEF e
<1>3. Attested(e, e.sums) /\ Attested(e, e.packedSums)
  BY <1>1 DEF Kept, Attested, Blind
<1>4. \A j \in Images : e.was[j] = None => e.plain[j] = None /\ e.packed[j] = None
  BY <1>1, FilesOf DEF Kept
<1>5. Kept(e)
  BY <1>1, <1>3, <1>4 DEF Kept
<1>6. QED
  BY <1>2, <1>5 DEF e

-----------------------------------------------------------------------------
(* Steps that leave no script behind, and steps that leave the card alone  *)

\* What an action may rely on.
LEMMA Now ==
  ASSUME NandroidInv
  PROVE  /\ s \in Scripts
         /\ s.pc \in Stopped \cup Saving \cup Restoring
         /\ s.todo \in Seq(Images \cup {Md5})
         /\ s.sel \in SUBSET Images /\ s.name \in Names /\ s.compress \in BOOLEAN
         /\ s.block \in Images \cup {"foo"} /\ s.md5 \in Contents
         /\ s.attempt \in 0..4 /\ s.missed \in SUBSET Images
         /\ card \in [Names -> Directories] /\ Dir \in Directories /\ Kept(Dir)
         /\ part \in [Images -> Contents] /\ \A i \in Images : part[i] # None
         /\ device \in Devices /\ worn \subseteq Images /\ faults \in 0..MaxFaults
<1>1. TypeOK /\ Cards /\ \A i \in Images : part[i] # None
  BY DEF NandroidInv, Types
<1>2. s \in Scripts
  BY <1>1 DEF TypeOK
<1>3. /\ s.pc \in Stopped \cup Saving \cup Restoring
      /\ s.todo \in Seq(Images \cup {Md5})
      /\ s.sel \in SUBSET Images /\ s.name \in Names /\ s.compress \in BOOLEAN
      /\ s.block \in Images \cup {"foo"} /\ s.md5 \in Contents
      /\ s.attempt \in 0..4 /\ s.missed \in SUBSET Images
  BY <1>2 DEF Scripts
<1>4. Dir \in Directories /\ Kept(Dir)
  BY <1>1, <1>3 DEF TypeOK, Cards, Dir
<1>5. QED
  BY <1>1, <1>2, <1>3, <1>4 DEF TypeOK

\* A process that starts has the type of a script; so has the one that is over.
LEMMA Starts ==
  ASSUME NEW pc \in Stopped \cup Saving \cup Restoring, NEW name \in Names,
         NEW sel \in SUBSET Images, NEW compress \in BOOLEAN
  PROVE  /\ Process(pc, name, sel, compress) \in Scripts
         /\ Process(pc, name, sel, compress).pc = pc
         /\ Process(pc, name, sel, compress).name = name
         /\ Process(pc, name, sel, compress).sel = sel
         /\ Process(pc, name, sel, compress).todo = <<>>
<1>1. <<>> \in Seq(Images \cup {Md5})
  OBVIOUS
<1>2. QED
  BY <1>1, Something DEF Process, Scripts

LEMMA NoScript ==
  Over("stopped") \in Scripts /\ Over("stopped").pc = "stopped"
<1>1. (CHOOSE n \in Names : TRUE) \in Names
  BY NandroidAssumption
<1>2. "stopped" \in Stopped
  BY DEF Stopped
<1>3. \A name \in Names : /\ Process("stopped", name, {}, FALSE) \in Scripts
                           /\ Process("stopped", name, {}, FALSE).pc = "stopped"
  <2>1. {} \in SUBSET Images /\ FALSE \in BOOLEAN
        /\ "stopped" \in Stopped \cup Saving \cup Restoring
    BY <1>2
  <2>2. QED
    BY <2>1, Starts
<1>4. QED
  BY <1>1, <1>3, Zenon DEF Over

LEMMA OneCard ==
  ASSUME NandroidInv, NEW n \in Names, NEW d \in Directories, Kept(d),
         card' = [card EXCEPT ![n] = d]
  PROVE  /\ card' \in [Names -> Directories] /\ card'[n] = d
         /\ \A m \in Names : Kept(card'[m])
BY Now DEF NandroidInv, Cards

LEMMA CardsNext ==
  ASSUME UNCHANGED <<device, worn>>, \A m \in Names : Kept(card'[m])
  PROVE  Cards'
BY DEF Cards, Kept, Attested, Blind, WrongBlock, ReadShort

LEMMA SameCards ==
  ASSUME NandroidInv, UNCHANGED <<device, worn, card>>
  PROVE  Cards'
BY CardsNext DEF NandroidInv, Cards

LEMMA SameTypes ==
  ASSUME NandroidInv, UNCHANGED <<device, worn, part>>,
         card' \in [Names -> Directories],
         s' \in Scripts, faults' \in 0..MaxFaults
  PROVE  TypeOK' /\ \A i \in Images : part'[i] # None
BY Now DEF TypeOK

\* One more fault is within the bound.
LEMMA Counted ==
  ASSUME NandroidInv, Fault
  PROVE  faults' \in 0..MaxFaults
BY Now, NandroidAssumption DEF Fault

\* When the script is over, only types and directories matter.
LEMMA Idle ==
  ASSUME NandroidInv, s' = Over("stopped"), UNCHANGED <<device, worn>>,
         part' \in [Images -> Contents], \A i \in Images : part'[i] # None,
         card' \in [Names -> Directories], \A m \in Names : Kept(card'[m]),
         faults' \in 0..MaxFaults
  PROVE  NandroidInv'
<1>1. s' \in Scripts /\ s'.pc = "stopped"
  BY NoScript
<1>2. TypeOK'
  BY <1>1, Now DEF TypeOK
<1>3. Types'
  BY <1>1, <1>2 DEF Types
<1>4. SavingInv'
  BY <1>1 DEF SavingInv, Saving
<1>5. RestoringInv'
  BY <1>1 DEF RestoringInv
<1>6. Cards'
  BY CardsNext
<1>7. QED
  BY <1>3, <1>4, <1>5, <1>6 DEF NandroidInv

LEMMA AbortStep ==
  ASSUME NandroidInv, Abort
  PROVE  NandroidInv'
<1>1. /\ s' = Over("stopped") /\ UNCHANGED <<device, worn>>
      /\ part' = part /\ card' = card /\ faults' = faults
  BY DEF Abort, Phone
<1>2. \A m \in Names : Kept(card'[m])
  BY <1>1 DEF NandroidInv, Cards
<1>3. QED
  BY <1>1, <1>2, Now, Idle

LEMMA Initially ==
  Init => NandroidInv
<1> SUFFICES ASSUME Init PROVE NandroidInv
  OBVIOUS
<1>1. s \in Scripts /\ s.pc = "stopped"
  BY NoScript DEF Init
<1>2. [NoDirectory EXCEPT !.was = Nothing] = NoDirectory
  BY DEF NoDirectory
<1>3. Nothing \in [Images -> Contents] /\ Nothing["wimax"] = None
  BY Something, ImageSets DEF Nothing
<1>4. NoDirectory \in Directories /\ Kept(NoDirectory)
  BY <1>2, <1>3, KeptEmpty
<1>5. part \in [Images -> Contents] /\ \A i \in Images : part[i] # None
  <2>1. 0 \in 0..MaxVersion
    BY NandroidAssumption
  <2>2. \A i \in Images : <<i, 0>> \in Contents \ {None}
    BY <2>1, Something
  <2>3. QED
    BY <2>2 DEF Init
<1>6. worn \subseteq Images
  BY NandroidAssumption, ImageSets DEF Init, RawImages
<1>7. TypeOK
  BY <1>1, <1>4, <1>5, <1>6, NandroidAssumption DEF Init, TypeOK
<1>8. Types
  BY <1>1, <1>5, <1>7 DEF Types
<1>9. Cards
  BY <1>4 DEF Init, Cards
<1>10. SavingInv /\ RestoringInv
  BY <1>1 DEF SavingInv, RestoringInv, Saving
<1>11. QED
  BY <1>8, <1>9, <1>10 DEF NandroidInv

-----------------------------------------------------------------------------
(* The steps of a backup                                                   *)

Working == {"raw", "dump", "tree", "flash", "erase", "fill"}

LEMMA Listed ==
  ASSUME NandroidInv, s.pc \in Working
  PROVE  /\ s.todo \in Seq(Images) /\ Pending \subseteq s.sel
         /\ Pending \subseteq Images
         /\ device = "emmc" => "wimax" \notin Pending
         /\ s.todo = <<>> <=> Pending = {}
<1>1. /\ s.todo \in Seq(Images) /\ Pending \subseteq s.sel
      /\ device = "emmc" => "wimax" \notin Pending
  BY DEF NandroidInv, Types, Working
<1>2. Pending \subseteq Images /\ (s.todo = <<>> <=> Pending = {})
  BY <1>1, Elements DEF Pending
<1>3. QED
  BY <1>1, <1>2

LEMMA AtImage ==
  ASSUME NandroidInv, s.pc \in Working, s.todo # <<>>
  PROVE  /\ Image \in Images /\ Image \in s.sel /\ Image \in Pending
         /\ device = "emmc" => Image # "wimax"
         /\ Tail(s.todo) \in Seq(Images)
         /\ ToSet(Tail(s.todo)) \subseteq Pending
         /\ Pending \subseteq {Image} \cup ToSet(Tail(s.todo))
<1>1. s.todo \in Seq(Images)
  BY Listed
<1>2. /\ Image \in Images /\ Image \in Pending
      /\ Tail(s.todo) \in Seq(Images)
      /\ ToSet(Tail(s.todo)) \subseteq Pending
      /\ Pending \subseteq {Image} \cup ToSet(Tail(s.todo))
  BY <1>1, HeadAndTail DEF Image, Pending
<1>3. QED
  BY <1>2, Listed

\* A list of images is also one that may hold nandroid.md5.
LEMMA ImagesOrSums ==
  ASSUME NEW list \in Seq(Images)
  PROVE  list \in Seq(Images \cup {Md5})
OBVIOUS

\* What is not selected has never been in a directory that has no sums.
LEMMA NotSaved ==
  ASSUME NandroidInv, s.pc \in Saving \ {"pack"}
  PROVE  /\ Dir.sumsIn = {}
         /\ \A i \in Images : Dir.was[i] = None => Good(Dir, i)
         /\ \A i \in Images \ s.sel : Dir.was[i] = None
         /\ device = "emmc" => Dir.was["wimax"] = None
BY Now DEF NandroidInv, SavingInv, Kept, Good

\* A command of the backup that leaves the card alone, for the next loop.
LEMMA LoopStep ==
  ASSUME NandroidInv, UNCHANGED <<Phone, card, faults>>,
         NEW pc \in {"raw", "tree"}, NEW images \in Seq(Images),
         s.pc \in Saving \ {"pack"}, Loop(pc, images),
         pc = "raw" => ToSet(images) = RawImages,
         pc = "tree" => ToSet(images) = TreeImages /\ \A i \in RawImages : Good(Dir, i)
  PROVE  NandroidInv'
<1> DEFINE todo == Wanted(images, s.sel)
<1>1. /\ todo \in Seq(Images)
      /\ ToSet(todo) = ToSet(images) \cap
           (IF device = "emmc" THEN s.sel \ {"wimax"} ELSE s.sel)
  BY LoopTakes
<1>2. s' = [s EXCEPT !.pc = pc, !.todo = todo]
  BY DEF Loop
<1>3. /\ device' = device /\ worn' = worn /\ part' = part
      /\ card' = card /\ faults' = faults
  BY DEF Phone
<1> HIDE DEF todo
<1>4. /\ s' \in Scripts /\ s'.pc = pc /\ s'.todo = todo
      /\ s'.sel = s.sel /\ s'.name = s.name
  BY <1>1, <1>2, Now, ImagesOrSums DEF Scripts, Saving
<1>5. Dir' = Dir /\ Pending' = ToSet(todo)
  BY <1>3, <1>4 DEF Dir, Pending
<1>6. Types'
  <2>1. TypeOK' /\ \A i \in Images : part'[i] # None
    BY <1>3, <1>4, Now, SameTypes
  <2>2. QED
    BY <1>1, <1>3, <1>4, <1>5, <2>1 DEF Types
<1>7. SavingInv'
  <2>1. Dir'.sumsIn = {} /\ \A i \in Images \ s'.sel : Dir'.was[i] = None
    BY <1>4, <1>5, NotSaved
  <2>2. ASSUME NEW i \in Images, i \in ToSet(images), i \notin Pending'
        PROVE  Good(Dir, i)
    <3>1. Dir.was[i] = None
      BY <1>1, <1>5, <2>2, NotSaved
    <3>2. QED
      BY <3>1, NotSaved
  <2>3. pc = "raw" => \A i \in RawImages \ Pending' : Good(Dir, i)
    BY <2>2, ImageSets
  <2>4. pc = "tree" => \A i \in Images \ Pending' : Good(Dir, i)
    BY <2>2, ImageSets
  <2>5. \A i \in Images : Good(Dir, i) => Good(Dir, i)'
    BY <1>3, <1>5 DEF Good, Blind, WrongBlock, ReadShort
  <2>6. pc = "raw" => \A i \in RawImages \ Pending' : Good(Dir, i)'
    BY <2>3, <2>5, ImageSets
  <2>7. pc = "tree" => \A i \in Images \ Pending' : Good(Dir, i)'
    BY <2>4, <2>5
  <2>8. QED
    BY <1>4, <2>1, <2>6, <2>7 DEF SavingInv
<1>8. RestoringInv'
  BY <1>4 DEF RestoringInv
<1>9. Cards'
  BY <1>3, SameCards
<1>10. QED
  BY <1>6, <1>7, <1>8, <1>9 DEF NandroidInv

LEMMA MountAllStep ==
  ASSUME NandroidInv, MountAll
  PROVE  NandroidInv'
<1>1. s.pc = "mount" /\ Loop("raw", Raw) /\ UNCHANGED <<Phone, card, faults>>
  BY DEF MountAll, At
<1>2. Raw \in Seq(Images) /\ ToSet(Raw) = RawImages
  BY ImageLists DEF RawImages
<1>3. s.pc \in Saving \ {"pack"}
  BY <1>1 DEF Saving
<1>4. QED
  BY <1>1, <1>2, <1>3, LoopStep

LEMMA RawDoneStep ==
  ASSUME NandroidInv, RawDone
  PROVE  NandroidInv'
<1>1. /\ s.pc = "raw" /\ s.todo = <<>> /\ Loop("tree", Trees \o Archives)
      /\ UNCHANGED <<Phone, card, faults>>
  BY DEF RawDone, At
<1>2. Trees \o Archives \in Seq(Images) /\ ToSet(Trees \o Archives) = TreeImages
  BY ImageLists, ImageSets
<1>3. s.pc \in Saving \ {"pack"}
  BY <1>1 DEF Saving
<1>4. \A i \in RawImages : Good(Dir, i)
  <2>1. Pending = {}
    BY <1>1, Listed DEF Working
  <2>2. QED
    BY <1>1, <2>1 DEF NandroidInv, SavingInv
<1>5. QED
  BY <1>1, <1>2, <1>3, <1>4, LoopStep

LEMMA DumpStarts ==
  ASSUME NandroidInv, NEW block \in Images \cup {"foo"}, NEW md5 \in Contents,
         s' = [s EXCEPT !.pc = "dump", !.block = block, !.md5 = md5, !.attempt = 0]
  PROVE  /\ s' \in Scripts /\ s'.pc = "dump" /\ s'.todo = s.todo
         /\ s'.sel = s.sel /\ s'.name = s.name
         /\ s'.block = block /\ s'.md5 = md5
<1>1. s \in Scripts
  BY Now
<1>2. s' = [pc |-> "dump", todo |-> s.todo, sel |-> s.sel, name |-> s.name,
            compress |-> s.compress, block |-> block, md5 |-> md5,
            attempt |-> 0, missed |-> s.missed]
  BY <1>1 DEF Scripts
<1>3. "dump" \in Stopped \cup Saving \cup Restoring /\ 0 \in 0..4
  BY DEF Saving
<1>4. s' \in Scripts
  BY <1>2, <1>3, Now DEF Scripts
<1>5. QED
  BY <1>2, <1>4

\* 5a: the block and the sum that the dump is compared with.
LEMMA FirstSumStep ==
  ASSUME NandroidInv, FirstSum
  PROVE  NandroidInv'
<1>1. s.pc = "raw" /\ s.todo # <<>>
  BY DEF FirstSum, At
<1>2. PICK md5 \in {Reads(Block(Image)), Misread(1)} :
        /\ s' = [s EXCEPT !.pc = "dump", !.block = Block(Image), !.md5 = md5,
                          !.attempt = 0]
        /\ IF md5 = Misread(1) THEN Fault ELSE UNCHANGED faults
  BY DEF FirstSum
<1>3. device' = device /\ worn' = worn /\ part' = part /\ card' = card
  BY DEF FirstSum, Phone
<1>4. s.pc \in Working /\ s.pc \in Saving \ {"pack"}
  BY <1>1 DEF Working, Saving
<1>5. /\ Image \in Images /\ s.todo \in Seq(Images) /\ Pending \subseteq s.sel
      /\ device = "emmc" => "wimax" \notin Pending
  BY <1>1, <1>4, AtImage, Listed
<1>6. /\ Block(Image) \in Images \cup {"foo"}
      /\ Block(Image) \in {Image, "foo"} \/ WrongBlock(Image)
  BY <1>5, Now DEF Block, WrongBlock
<1>7. md5 \in Contents
  BY <1>6, Now, Something DEF Reads
<1>8. faults' \in 0..MaxFaults
  <2>1. CASE md5 = Misread(1)
    BY <1>2, <2>1, Counted
  <2>2. CASE md5 # Misread(1)
    BY <1>2, <2>2, Now
  <2>3. QED
    BY <2>1, <2>2
<1>9. /\ s' \in Scripts /\ s'.pc = "dump" /\ s'.todo = s.todo
      /\ s'.sel = s.sel /\ s'.name = s.name
      /\ s'.block = Block(Image) /\ s'.md5 = md5
  <2> HIDE DEF Block
  <2>1. QED
    BY <1>2, <1>6, <1>7, DumpStarts
<1>10. Dir' = Dir /\ Pending' = Pending /\ Image' = Image
  BY <1>3, <1>9 DEF Dir, Pending, Image
<1>11. Types'
  <2>1. TypeOK' /\ \A i \in Images : part'[i] # None
    BY <1>3, <1>8, <1>9, Now, SameTypes
  <2>2. QED
    BY <1>1, <1>3, <1>5, <1>9, <1>10, <2>1 DEF Types
<1>12. SavingInv'
  <2>1. Dir'.sumsIn = {} /\ \A i \in Images \ s'.sel : Dir'.was[i] = None
    BY <1>4, <1>9, <1>10, NotSaved
  <2>2. \A i \in RawImages \ Pending' : Good(Dir, i)'
    <3>1. \A i \in RawImages \ Pending : Good(Dir, i)
      BY <1>1 DEF NandroidInv, SavingInv
    <3>2. QED
      BY <1>3, <1>10, <3>1 DEF Good, Blind, WrongBlock, ReadShort
  <2>3. s'.block \in {Image', "foo"} \/ WrongBlock(Image)'
    BY <1>3, <1>6, <1>9, <1>10 DEF WrongBlock
  <2>4. s'.md5 \in {Reads(s.block)', Misread(1)}
    <3>1. Reads(s.block)' = Reads(Block(Image))
      BY <1>3, <1>9 DEF Reads
    <3>2. QED
      BY <1>9, <3>1
  <2>5. QED
    BY <1>9, <2>1, <2>2, <2>3, <2>4 DEF SavingInv
<1>13. RestoringInv'
  BY <1>9 DEF RestoringInv
<1>14. Cards'
  BY <1>3, SameCards
<1>15. QED
  BY <1>11, <1>12, <1>13, <1>14 DEF NandroidInv

\* What a dump, an archive or a torn one makes of the directory and of the card.
New(content, missed) ==
  [Dir EXCEPT !.plain[Image] = content, !.was[Image] = part[Image],
              !.missed = missed]

LEMMA NewFile ==
  ASSUME NandroidInv, s.pc \in {"dump", "tree"}, s.todo # <<>>,
         NEW content \in Contents, NEW missed \in SUBSET Images,
         missed \cup {Image} = Dir.missed \cup {Image},
         card' = [card EXCEPT ![s.name] = New(content, missed)]
  PROVE  /\ card' \in [Names -> Directories] /\ \A m \in Names : Kept(card'[m])
         /\ card'[s.name].sumsIn = {}
         /\ \A i \in Images \ s.sel : card'[s.name].was[i] = None
         /\ \A i \in Images \ {Image} : Good(Dir, i) => Good(card'[s.name], i)
         /\ \/ content = part[Image] \/ Image \in missed
            \/ WrongBlock(Image) \/ ReadShort(Image)
            => Good(card'[s.name], Image)
<1> DEFINE e == New(content, missed)
<1>1. /\ Image \in Images /\ Image \in s.sel /\ (device = "emmc" => Image # "wimax")
      /\ part[Image] \in Contents \ {None}
      /\ s.name \in Names /\ Dir \in Directories /\ Kept(Dir)
  BY AtImage, Now DEF Working
<1>2. Dir.sumsIn = {} /\ \A i \in Images \ s.sel : Dir.was[i] = None
  BY NotSaved DEF Saving
<1>3. e \in Directories /\ Kept(e)
  BY <1>1, <1>2, KeptWrote DEF New
<1>4. /\ e.plain = [Dir.plain EXCEPT ![Image] = content]
      /\ e.sumsIn = Dir.sumsIn
      /\ e.was = [Dir.was EXCEPT ![Image] = part[Image]] /\ e.missed = missed
  BY <1>1 DEF New, Directories
<1>5. Dir.plain \in [Images -> Contents] /\ Dir.was \in [Images -> Contents]
  BY <1>1, FilesOf
<1> HIDE DEF e
<1>6. /\ card' \in [Names -> Directories] /\ card'[s.name] = e
      /\ \A m \in Names : Kept(card'[m])
  BY <1>1, <1>3, OneCard DEF e
<1>7. \A i \in Images \ {Image} : Good(Dir, i) => Good(e, i)
  BY <1>1, <1>4, <1>5 DEF Good, Blind
<1>8. \/ content = part[Image] \/ Image \in missed
      \/ WrongBlock(Image) \/ ReadShort(Image)
      => Good(e, Image)
  BY <1>1, <1>4, <1>5 DEF Good, Blind
<1>9. QED
  BY <1>1, <1>2, <1>4, <1>5, <1>6, <1>7, <1>8

\* The same by the script's own name for it.
LEMMA WroteIsNew ==
  ASSUME NandroidInv, NEW content
  PROVE  /\ Wrote(Dir, Image, content) = New(content, Dir.missed \ {Image})
         /\ [Wrote(Dir, Image, content) EXCEPT !.missed = @ \cup {Image}]
              = New(content, Dir.missed \cup {Image})
<1>1. Dir \in Directories
  BY Now
<1>2. Wrote(Dir, Image, content) = New(content, Dir.missed \ {Image})
  BY <1>1 DEF Wrote, New, Directories
<1>3. [New(content, Dir.missed \ {Image}) EXCEPT !.missed = @ \cup {Image}]
        = New(content, Dir.missed \cup {Image})
  BY <1>1 DEF New, Directories
<1>4. QED
  BY <1>2, <1>3

LEMMA GoodNext ==
  ASSUME UNCHANGED <<device, worn>>, NEW i, Good(Dir', i)
  PROVE  Good(Dir, i)'
BY DEF Good, Blind, WrongBlock, ReadShort

LEMMA ReadsSomething ==
  ASSUME NandroidInv, NEW block \in Images \cup {"foo"}
  PROVE  Reads(block) \in Contents
BY Now, Something DEF Reads

\* 5b3: a dump that is accepted is what is on the partition, as far as the script
\* can see.
LEMMA Accepted ==
  ASSUME NandroidInv, s.pc = "dump", NEW read \in {Reads(s.block), Misread(2)},
         read = s.md5, read # None
  PROVE  \/ read = part[Image] \/ WrongBlock(Image) \/ ReadShort(Image)
<1>1. /\ s.block \in {Image, "foo"} \/ WrongBlock(Image)
      /\ s.md5 \in {Reads(s.block), Misread(1)}
  BY DEF NandroidInv, SavingInv
<1>2. read = Reads(s.block)
  BY <1>1, Something
<1>3. s.block # "foo"
  BY <1>2 DEF Reads
<1>4. QED
  BY <1>1, <1>2, <1>3 DEF Reads, ReadShort

\* A script whose image is done, or whose dump is tried again.
LEMMA NextTodo ==
  ASSUME NandroidInv, s.pc \in Working, s.todo # <<>>,
         NEW pc \in Working, s' = [s EXCEPT !.pc = pc, !.todo = Tail(@)]
  PROVE  /\ s' \in Scripts /\ s'.pc = pc /\ s'.todo = Tail(s.todo)
         /\ s'.sel = s.sel /\ s'.name = s.name /\ s'.missed = s.missed
         /\ s'.todo \in Seq(Images)
         /\ Pending' \subseteq Pending /\ Pending \subseteq {Image} \cup Pending'
<1>1. Tail(s.todo) \in Seq(Images)
  BY AtImage
<1>2. /\ s'.pc = pc /\ s'.todo = Tail(s.todo) /\ s'.sel = s.sel
      /\ s'.name = s.name /\ s'.missed = s.missed
  BY Now DEF Scripts
<1>3. s' \in Scripts
  <2>1. Tail(s.todo) \in Seq(Images \cup {Md5})
    BY <1>1, ImagesOrSums
  <2>2. pc \in Stopped \cup Saving \cup Restoring
    BY DEF Working, Saving, Restoring
  <2>3. QED
    BY <2>1, <2>2, Now DEF Scripts
<1>4. QED
  BY <1>1, <1>2, <1>3, AtImage DEF Pending

LEMMA TryAgain ==
  ASSUME NandroidInv, s.pc = "dump", s.attempt # 4,
         s' = [s EXCEPT !.attempt = @ + 1]
  PROVE  /\ s' \in Scripts /\ s'.pc = "dump" /\ s'.todo = s.todo
         /\ s'.sel = s.sel /\ s'.name = s.name
         /\ s'.block = s.block /\ s'.md5 = s.md5
<1>1. s.attempt + 1 \in 0..4
  BY Now
<1>2. QED
  BY <1>1, Now DEF Scripts

LEMMA DumpStep ==
  ASSUME NandroidInv, Dump
  PROVE  NandroidInv'
<1>1. s.pc = "dump" /\ s.todo # <<>> /\ s.pc \in Working /\ s.pc \in Saving \ {"pack"}
  BY DEF Dump, At, NandroidInv, Types, Working, Saving
<1>2. PICK read \in {Reads(s.block), Misread(2)} :
        /\ card' = IF read = None THEN card
                   ELSE [card EXCEPT ![s.name] = Wrote(@, Image, read)]
        /\ s' = AfterDump(read)
        /\ IF read = Misread(2) THEN Fault ELSE UNCHANGED faults
  BY DEF Dump
<1>3. device' = device /\ worn' = worn /\ part' = part
  BY DEF Dump, Phone
<1>4. read \in Contents
  BY Now, ReadsSomething, Something
<1>5. faults' \in 0..MaxFaults
  <2>1. CASE read = Misread(2)
    BY <1>2, <2>1, Counted
  <2>2. CASE read # Misread(2)
    BY <1>2, <2>2, Now
  <2>3. QED
    BY <2>1, <2>2
<1> DEFINE missed == Dir.missed \ {Image}
           files == card'[s.name]
<1>6. /\ card' \in [Names -> Directories] /\ \A m \in Names : Kept(card'[m])
      /\ files.sumsIn = {} /\ \A i \in Images \ s.sel : files.was[i] = None
      /\ \A i \in Images \ {Image} : Good(Dir, i) => Good(files, i)
      /\ read # None /\ (read = part[Image] \/ WrongBlock(Image) \/ ReadShort(Image))
           => Good(files, Image)
  <2>1. CASE read = None
    <3>1. card' = card /\ files = Dir
      BY <1>2, <2>1 DEF Dir
    <3>2. QED
      BY <1>1, <2>1, <3>1, Now, NotSaved DEF NandroidInv, Cards
  <2>2. CASE read # None
    <3>1. card' = [card EXCEPT ![s.name] = New(read, missed)]
      <4>1. card' = [card EXCEPT ![s.name] = Wrote(Dir, Image, read)]
        BY <1>2, <2>2 DEF Dir
      <4>2. QED
        BY <4>1, WroteIsNew
    <3>2. missed \in SUBSET Images /\ missed \cup {Image} = Dir.missed \cup {Image}
      BY Now, FilesOf
    <3> HIDE DEF missed
    <3>3. QED
      BY <1>1, <1>4, <3>1, <3>2, NewFile
  <2>3. QED
    BY <2>1, <2>2
<1> HIDE DEF missed
<1>7. CASE s' = Over("stopped")
  BY <1>3, <1>5, <1>6, <1>7, Now, Idle
<1>8. ASSUME s'.name = s.name, s'.sel = s.sel
      PROVE  /\ Dir' = files /\ Dir'.sumsIn = {}
             /\ \A i \in Images \ s'.sel : Dir'.was[i] = None
  BY <1>6, <1>8 DEF Dir
<1>9. \A i \in RawImages \ Pending : Good(files, i)
  <2>1. \A i \in RawImages \ Pending : Good(Dir, i)
    BY <1>1 DEF NandroidInv, SavingInv
  <2>2. Image \in Pending /\ RawImages \subseteq Images
    BY <1>1, AtImage, ImageSets
  <2>3. QED
    BY <1>6, <2>1, <2>2
<1>10. Cards'
  BY <1>3, <1>6, CardsNext
<1>11. /\ s.todo \in Seq(Images) /\ Pending \subseteq s.sel
       /\ device = "emmc" => "wimax" \notin Pending
  BY <1>1, Listed
<1>12. CASE s' = [s EXCEPT !.pc = "raw", !.todo = Tail(@)] /\ read = s.md5 /\ read # None
  <2>1. "raw" \in Working
    BY DEF Working
  <2>2. /\ s' \in Scripts /\ s'.pc = "raw"
        /\ s'.sel = s.sel /\ s'.name = s.name /\ s'.todo \in Seq(Images)
        /\ Pending' \subseteq Pending /\ Pending \subseteq {Image} \cup Pending'
    BY <1>1, <1>12, <2>1, NextTodo
  <2>3. Types'
    <3>1. TypeOK' /\ \A i \in Images : part'[i] # None
      BY <1>3, <1>5, <1>6, <2>2, SameTypes
    <3>2. QED
      BY <1>3, <1>11, <2>2, <3>1 DEF Types
  <2>4. Good(files, Image)
    BY <1>1, <1>6, <1>12, Accepted
  <2>5. \A i \in RawImages \ Pending' : Good(Dir', i)
    BY <1>8, <1>9, <2>2, <2>4
  <2>6. SavingInv'
    <3>1. \A i \in RawImages \ Pending' : Good(Dir, i)'
      BY <1>3, <2>5, GoodNext
    <3>2. QED
      BY <1>8, <2>2, <3>1 DEF SavingInv
  <2>7. RestoringInv'
    BY <2>2 DEF RestoringInv
  <2>8. QED
    BY <1>10, <2>3, <2>6, <2>7 DEF NandroidInv
<1>13. CASE s' = [s EXCEPT !.attempt = @ + 1] /\ s.attempt # 4
  <2>1. /\ s' \in Scripts /\ s'.pc = "dump" /\ s'.todo = s.todo
        /\ s'.sel = s.sel /\ s'.name = s.name
        /\ s'.block = s.block /\ s'.md5 = s.md5
    BY <1>1, <1>13, TryAgain
  <2>2. Pending' = Pending /\ Image' = Image
    BY <2>1 DEF Pending, Image
  <2>3. Types'
    <3>1. TypeOK' /\ \A i \in Images : part'[i] # None
      BY <1>3, <1>5, <1>6, <2>1, SameTypes
    <3>2. QED
      BY <1>1, <1>3, <1>11, <2>1, <2>2, <3>1 DEF Types
  <2>4. \A i \in RawImages \ Pending' : Good(Dir', i)
    BY <1>8, <1>9, <2>1, <2>2
  <2>5. /\ s.block \in {Image, "foo"} \/ WrongBlock(Image)
        /\ s.md5 \in {Reads(s.block), Misread(1)}
    BY <1>1 DEF NandroidInv, SavingInv
  <2>6. s'.block \in {Image', "foo"} \/ WrongBlock(Image)'
    BY <1>3, <2>1, <2>2, <2>5 DEF WrongBlock
  <2>7. s'.md5 \in {Reads(s.block)', Misread(1)}
    BY <1>3, <2>1, <2>5 DEF Reads
  <2>8. SavingInv'
    <3>1. \A i \in RawImages \ Pending' : Good(Dir, i)'
      BY <1>3, <2>4, GoodNext
    <3>2. QED
      BY <1>8, <2>1, <2>6, <2>7, <3>1 DEF SavingInv
  <2>9. RestoringInv'
    BY <2>1 DEF RestoringInv
  <2>10. QED
    BY <1>10, <2>3, <2>8, <2>9 DEF NandroidInv
<1>14. QED
  BY <1>2, <1>7, <1>12, <1>13 DEF AfterDump

\* An archive that is written, or whose tool fails and nobody notices.
LEMMA TreeStep ==
  ASSUME NandroidInv, s.pc = "tree", s.todo # <<>>, UNCHANGED Phone, NextImage,
         faults' \in 0..MaxFaults,
         NEW content \in Contents, NEW missed \in SUBSET Images,
         missed \cup {Image} = Dir.missed \cup {Image},
         content = part[Image] \/ Image \in missed,
         card' = [card EXCEPT ![s.name] = New(content, missed)]
  PROVE  NandroidInv'
<1> DEFINE files == card'[s.name]
<1>1. device' = device /\ worn' = worn /\ part' = part
  BY DEF Phone
<1>2. s.pc \in Working
  BY DEF Working
<1>3. /\ card' \in [Names -> Directories] /\ \A m \in Names : Kept(card'[m])
      /\ files.sumsIn = {} /\ \A i \in Images \ s.sel : files.was[i] = None
      /\ \A i \in Images \ {Image} : Good(Dir, i) => Good(files, i)
      /\ Good(files, Image)
  BY NewFile
<1>4. /\ s' \in Scripts /\ s'.pc = "tree"
      /\ s'.sel = s.sel /\ s'.name = s.name /\ s'.todo \in Seq(Images)
      /\ Pending' \subseteq Pending /\ Pending \subseteq {Image} \cup Pending'
  <2>1. s' = [s EXCEPT !.pc = "tree", !.todo = Tail(@)]
    BY Now DEF NextImage, Scripts
  <2>2. QED
    BY <1>2, <2>1, NextTodo
<1>5. Dir' = files
  BY <1>4 DEF Dir
<1> HIDE DEF files
<1>6. Types'
  <2>1. TypeOK' /\ \A i \in Images : part'[i] # None
    BY <1>1, <1>3, <1>4, SameTypes
  <2>2. /\ Pending \subseteq s.sel /\ (device = "emmc" => "wimax" \notin Pending)
    BY <1>2, Listed
  <2>3. QED
    BY <1>1, <1>4, <2>1, <2>2 DEF Types
<1>7. SavingInv'
  <2>1. \A i \in Images \ Pending : Good(Dir, i)
    BY DEF NandroidInv, SavingInv
  <2>2. \A i \in Images \ Pending' : Good(Dir', i)
    BY <1>3, <1>4, <1>5, <2>1
  <2>3. \A i \in Images \ Pending' : Good(Dir, i)'
    BY <1>1, <2>2, GoodNext
  <2>4. QED
    BY <1>3, <1>4, <1>5, <2>3 DEF SavingInv
<1>8. RestoringInv'
  BY <1>4 DEF RestoringInv
<1>9. Cards'
  BY <1>1, <1>3, CardsNext
<1>10. QED
  BY <1>6, <1>7, <1>8, <1>9 DEF NandroidInv

LEMMA SaveTreeStep ==
  ASSUME NandroidInv, SaveTree
  PROVE  NandroidInv'
<1>1. s.pc = "tree" /\ s.todo # <<>> /\ UNCHANGED Phone /\ NextImage /\ faults' = faults
  BY DEF SaveTree, At
<1>2. card' = [card EXCEPT ![s.name] = New(part[Image], Dir.missed \ {Image})]
  <2>1. card' = [card EXCEPT ![s.name] = Wrote(Dir, Image, part[Image])]
    BY DEF SaveTree, Dir
  <2>2. QED
    BY <2>1, WroteIsNew
<1>3. Image \in Images
  BY <1>1, AtImage DEF Working
<1>4. /\ part[Image] \in Contents /\ Dir.missed \ {Image} \in SUBSET Images
      /\ (Dir.missed \ {Image}) \cup {Image} = Dir.missed \cup {Image}
      /\ faults' \in 0..MaxFaults
  BY <1>1, <1>3, Now, FilesOf
<1>5. QED
  BY <1>1, <1>2, <1>4, TreeStep

LEMMA SaveTreeFailsStep ==
  ASSUME NandroidInv, SaveTreeFails
  PROVE  NandroidInv'
<1>1. s.pc = "tree" /\ s.todo # <<>> /\ UNCHANGED Phone /\ NextImage /\ Fault
  BY DEF SaveTreeFails, At
<1>2. PICK content \in {Partial, Dir.plain[Image]} :
        card' = [card EXCEPT ![s.name] =
                   [Wrote(Dir, Image, content) EXCEPT !.missed = @ \cup {Image}]]
  BY DEF SaveTreeFails
<1>3. card' = [card EXCEPT ![s.name] = New(content, Dir.missed \cup {Image})]
  BY <1>2, WroteIsNew
<1>4. Image \in Images
  BY <1>1, AtImage DEF Working
<1>5. content \in Contents /\ Dir.missed \cup {Image} \in SUBSET Images
  BY <1>4, Now, FilesOf, Something
<1>6. faults' \in 0..MaxFaults
  BY <1>1, Counted
<1>7. /\ (Dir.missed \cup {Image}) \cup {Image} = Dir.missed \cup {Image}
      /\ Image \in Dir.missed \cup {Image}
  OBVIOUS
<1>8. QED
  BY <1>1, <1>3, <1>5, <1>6, <1>7, TreeStep

LEMMA TreesDoneStep ==
  ASSUME NandroidInv, TreesDone
  PROVE  NandroidInv'
<1>1. s.pc = "tree" /\ s.todo = <<>> /\ s' = [s EXCEPT !.pc = "sums"]
  BY DEF TreesDone, At, Goto
<1>2. /\ device' = device /\ worn' = worn /\ part' = part /\ card' = card
      /\ faults' = faults
  BY DEF TreesDone, Phone
<1>3. /\ s' \in Scripts /\ s'.pc = "sums"
      /\ s'.sel = s.sel /\ s'.name = s.name /\ Dir' = Dir
  BY <1>1, <1>2, Now DEF Scripts, Saving, Dir
<1>4. Pending = {}
  BY <1>1, Listed DEF Working
<1>5. \A i \in Images : Good(Dir', i)
  BY <1>1, <1>3, <1>4 DEF NandroidInv, SavingInv
<1>6. Types'
  <2>1. TypeOK' /\ \A i \in Images : part'[i] # None
    BY <1>2, <1>3, Now, SameTypes
  <2>2. QED
    BY <1>3, <2>1 DEF Types
<1>7. SavingInv'
  <2>1. \A i \in Images : Good(Dir, i)'
    BY <1>2, <1>5, GoodNext
  <2>2. s.pc \in Saving \ {"pack"}
    BY <1>1 DEF Saving
  <2>3. QED
    BY <1>3, <2>1, <2>2, NotSaved DEF SavingInv
<1>8. RestoringInv'
  BY <1>3 DEF RestoringInv
<1>9. QED
  BY <1>2, <1>6, <1>7, <1>8, SameCards DEF NandroidInv

\* A backup, a compression or a restore that ends leaves no list.
LEMMA Ended ==
  ASSUME NandroidInv, NEW pc \in {"saved", "restored"}, Finish(pc)
  PROVE  /\ s' \in Scripts /\ s'.pc = pc /\ s'.todo = <<>>
         /\ s'.sel = s.sel /\ s'.name = s.name /\ s'.missed = s.missed
<1>1. pc \in Stopped \cup Saving \cup Restoring
  BY DEF Stopped
<1>2. /\ Process(pc, s.name, s.sel, FALSE) \in Scripts
      /\ Process(pc, s.name, s.sel, FALSE).pc = pc
      /\ Process(pc, s.name, s.sel, FALSE).name = s.name
      /\ Process(pc, s.name, s.sel, FALSE).sel = s.sel
      /\ Process(pc, s.name, s.sel, FALSE).todo = <<>>
  <2>1. FALSE \in BOOLEAN /\ s.name \in Names /\ s.sel \in SUBSET Images
    BY Now
  <2>2. QED
    BY <1>1, <2>1, Starts
<1>3. QED
  BY <1>2, Now DEF Finish, Scripts

LEMMA SavedStep ==
  ASSUME NandroidInv, UNCHANGED <<Phone, faults>>, Finish("saved"),
         card' \in [Names -> Directories], \A m \in Names : Kept(card'[m])
  PROVE  NandroidInv'
<1>1. /\ device' = device /\ worn' = worn /\ part' = part /\ faults' = faults
  BY DEF Phone
<1>2. s' \in Scripts /\ s'.pc = "saved"
  BY Ended
<1>3. TypeOK' /\ \A i \in Images : part'[i] # None
  BY <1>1, <1>2, Now, SameTypes
<1>4. Types' /\ SavingInv' /\ RestoringInv'
  BY <1>2, <1>3 DEF Types, SavingInv, RestoringInv, Saving
<1>5. QED
  BY <1>1, <1>4, CardsNext DEF NandroidInv

\* gzip and gzip -d work on what has been on a partition.
LEMMA GzipStep ==
  ASSUME NandroidInv, UNCHANGED Phone, faults' \in 0..MaxFaults,
         card' \in [Names -> Directories], \A m \in Names : Kept(card'[m]),
         s' \in Scripts, s'.pc \in {"pack", "unpack"},
         \A i \in Pending' : i # Md5 => Dir'.was[i] # None
  PROVE  NandroidInv'
<1>1. /\ device' = device /\ worn' = worn /\ part' = part
  BY DEF Phone
<1>2. TypeOK' /\ \A i \in Images : part'[i] # None
  BY <1>1, SameTypes
<1>3. Types' /\ SavingInv' /\ RestoringInv'
  BY <1>2 DEF Types, SavingInv, RestoringInv, Saving, Dir
<1>4. QED
  BY <1>1, <1>3, CardsNext DEF NandroidInv

\* What has a file has been on a partition.
LEMMA FilesWere ==
  ASSUME NEW d \in Directories, Kept(d), NEW i \in Images,
         d.plain[i] # None \/ d.packed[i] # None
  PROVE  d.was[i] # None
BY DEF Kept

LEMMA WriteSumsStep ==
  ASSUME NandroidInv, WriteSums
  PROVE  NandroidInv'
<1>1. s.pc = "sums" /\ UNCHANGED <<Phone, faults>>
  BY DEF WriteSums, At
<1> DEFINE sums == [i \in Images |-> IF i \in Images THEN Dir.plain[i] ELSE None]
           e == [Dir EXCEPT !.sums = sums, !.sumsIn = @ \cup {"plain"}]
<1>2. Dir \in Directories /\ Kept(Dir) /\ s.name \in Names
      /\ Dir.plain \in [Images -> Contents]
  BY Now, FilesOf
<1>3. sums = Dir.plain
  BY <1>2
<1>4. e \in Directories /\ Kept(e)
  <2>1. Dir.sumsIn = {}
    BY <1>1, NotSaved DEF Saving
  <2>2. \A i \in Images : Good(Dir, i)
    BY <1>1 DEF NandroidInv, SavingInv
  <2>3. Images \in SUBSET Images
    OBVIOUS
  <2>4. QED
    BY <1>2, <2>1, <2>2, <2>3, KeptSums
<1> HIDE DEF sums
<1>5. card' = [card EXCEPT ![s.name] = e]
  <2>1. card' = [card EXCEPT ![s.name].sums = Dir.plain,
                             ![s.name].sumsIn = @ \cup {"plain"}]
    BY DEF WriteSums
  <2>2. card \in [Names -> Directories]
    BY Now
  <2>3. QED
    BY <1>2, <1>3, <2>1, <2>2 DEF Dir, Directories
<1>6. e.was = Dir.was
  BY <1>2 DEF Directories
<1> HIDE DEF e
<1>7. /\ card' \in [Names -> Directories] /\ card'[s.name] = e
      /\ \A m \in Names : Kept(card'[m])
  BY <1>2, <1>4, <1>5, OneCard
<1>8. CASE Finish("saved")
  BY <1>1, <1>7, <1>8, SavedStep
<1>9. CASE s' = [s EXCEPT !.pc = "pack",
                          !.todo = OfSize(({Md5} \cup Files(Dir.plain)) \ {"ext"})]
  <2> DEFINE files == ({Md5} \cup Files(Dir.plain)) \ {"ext"}
  <2>1. /\ files \in SUBSET (Images \cup {Md5})
        /\ \A i \in files : i # Md5 => i \in Files(Dir.plain)
    BY DEF Files
  <2> HIDE DEF files
  <2>2. OfSize(files) \in Seq(Images \cup {Md5}) /\ ToSet(OfSize(files)) = files
    BY <2>1, FilesListed
  <2>3. s' \in Scripts /\ s'.pc = "pack" /\ s'.todo = OfSize(files) /\ s'.name = s.name
    BY <1>9, <2>2, Now DEF Scripts, Saving, files
  <2>4. Pending' = files /\ Dir' = e
    BY <1>7, <2>2, <2>3 DEF Pending, Dir
  <2>5. \A i \in Pending' : i # Md5 => Dir'.was[i] # None
    BY <1>2, <1>6, <2>1, <2>4, FilesWere DEF Files
  <2>6. UNCHANGED Phone /\ faults' \in 0..MaxFaults /\ s'.pc \in {"pack", "unpack"}
    BY <1>1, <2>3, Now
  <2>7. QED
    BY <1>7, <2>3, <2>5, <2>6, GzipStep
<1>10. QED
  BY <1>8, <1>9 DEF WriteSums

LEMMA StartBackupStep ==
  ASSUME NandroidInv, StartBackup
  PROVE  NandroidInv'
<1>1. PICK n \in Names, sel \in Selections, compress \in BOOLEAN :
        /\ Begin("mount", n, sel, compress)
        /\ card[n].sumsIn = {}
        /\ \A i \in Images :
             card[n].was[i] \in IF i \in sel THEN {None, part[i]} ELSE {None}
  BY DEF StartBackup
<1>2. /\ s' = Process("mount", n, sel, compress)
      /\ device' = device /\ worn' = worn /\ part' = part /\ card' = card
      /\ faults' = faults
  BY <1>1 DEF Begin, Phone
<1>3. s' \in Scripts /\ s'.pc = "mount" /\ s'.name = n /\ s'.sel = sel
  <2>1. sel \in SUBSET Images /\ "mount" \in Stopped \cup Saving \cup Restoring
    BY NandroidAssumption DEF Saving
  <2>2. QED
    BY <1>2, <2>1, Starts
<1>4. Types'
  <2>1. TypeOK' /\ \A i \in Images : part'[i] # None
    BY <1>2, <1>3, Now, SameTypes
  <2>2. QED
    BY <1>3, <2>1 DEF Types
<1>5. SavingInv' /\ RestoringInv'
  BY <1>1, <1>2, <1>3 DEF SavingInv, RestoringInv, Dir
<1>6. QED
  BY <1>2, <1>4, <1>5, SameCards DEF NandroidInv

LEMMA StartCompressStep ==
  ASSUME NandroidInv, StartCompress
  PROVE  NandroidInv'
<1>1. PICK n \in Names :
        /\ s' = [Process("pack", n, {}, FALSE) EXCEPT
                   !.todo = OfSize(Files(card[n].plain) \cup
                              (IF "plain" \in card[n].sumsIn THEN {Md5} ELSE {}))]
        /\ UNCHANGED <<Phone, card, faults>>
  BY DEF StartCompress
<1> DEFINE files == Files(card[n].plain) \cup
                      (IF "plain" \in card[n].sumsIn THEN {Md5} ELSE {})
<1>2. /\ files \in SUBSET (Images \cup {Md5})
      /\ \A i \in files : i # Md5 => i \in Files(card[n].plain)
  BY DEF Files
<1>3. s' = [Process("pack", n, {}, FALSE) EXCEPT !.todo = OfSize(files)]
  BY <1>1
<1> HIDE DEF files
<1>4. OfSize(files) \in Seq(Images \cup {Md5}) /\ ToSet(OfSize(files)) = files
  BY <1>2, FilesListed
<1>5. s' \in Scripts /\ s'.pc = "pack" /\ s'.name = n /\ s'.todo = OfSize(files)
  <2>1. /\ {} \in SUBSET Images /\ FALSE \in BOOLEAN /\ n \in Names
        /\ "pack" \in Stopped \cup Saving \cup Restoring
    BY DEF Saving
  <2>2. /\ Process("pack", n, {}, FALSE) \in Scripts
        /\ Process("pack", n, {}, FALSE).pc = "pack"
        /\ Process("pack", n, {}, FALSE).name = n
    <3>1. \A name \in Names, sel \in SUBSET Images, compress \in BOOLEAN :
            /\ Process("pack", name, sel, compress) \in Scripts
            /\ Process("pack", name, sel, compress).pc = "pack"
            /\ Process("pack", name, sel, compress).name = name
      BY <2>1, Starts
    <3>2. QED
      BY <2>1, <3>1
  <2>3. QED
    BY <1>3, <1>4, <2>2 DEF Scripts
<1>6. UNCHANGED Phone /\ card' = card /\ faults' = faults
  BY <1>1
<1>7. Pending' = files /\ Dir' = card[n] /\ card[n] \in Directories /\ Kept(card[n])
  BY <1>4, <1>5, <1>6, Now DEF Pending, Dir, NandroidInv, Cards
<1>8. \A i \in Pending' : i # Md5 => Dir'.was[i] # None
  BY <1>2, <1>7, FilesWere DEF Files
<1>9. /\ faults' \in 0..MaxFaults /\ card' \in [Names -> Directories]
      /\ \A m \in Names : Kept(card'[m])
  BY <1>6, Now DEF NandroidInv, Cards
<1>10. QED
  BY <1>5, <1>6, <1>8, <1>9, GzipStep

\* A file that gzip or gzip -d has done, or passed over.
LEMMA NextGzip ==
  ASSUME NandroidInv, s.pc \in {"pack", "unpack"}, s.todo # <<>>, NextImage,
         UNCHANGED Phone, faults' \in 0..MaxFaults,
         card' \in [Names -> Directories], \A m \in Names : Kept(card'[m]),
         card'[s.name].was = Dir.was
  PROVE  NandroidInv'
<1>1. /\ Tail(s.todo) \in Seq(Images \cup {Md5})
      /\ ToSet(Tail(s.todo)) \subseteq ToSet(s.todo)
  BY Now, HeadAndTail
<1>2. /\ s' \in Scripts /\ s'.pc = s.pc /\ s'.name = s.name
      /\ s'.todo = Tail(s.todo)
  BY <1>1, Now DEF NextImage, Scripts
<1>3. Pending' \subseteq Pending /\ Dir' = card'[s.name]
  BY <1>1, <1>2 DEF Pending, Dir
<1>4. \A i \in Pending : i # Md5 => Dir.was[i] # None
  BY DEF NandroidInv, Types
<1>5. \A i \in Pending' : i # Md5 => Dir'.was[i] # None
  BY <1>3, <1>4
<1>6. s'.pc \in {"pack", "unpack"}
  BY <1>2
<1>7. QED
  BY <1>2, <1>5, <1>6, GzipStep

\* One that fails, or finds its target there.
LEMMA PassedOver ==
  ASSUME NandroidInv, s.pc \in {"pack", "unpack"}, s.todo # <<>>, NextImage,
         UNCHANGED <<Phone, card>>, faults' \in 0..MaxFaults
  PROVE  NandroidInv'
<1>1. UNCHANGED Phone /\ card' = card
  OBVIOUS
<1>2. /\ card' \in [Names -> Directories] /\ \A m \in Names : Kept(card'[m])
      /\ card'[s.name].was = Dir.was
  BY <1>1, Now DEF NandroidInv, Cards, Dir
<1>3. QED
  BY <1>1, <1>2, NextGzip

\* The image that gzip or gzip -d is at.
LEMMA AtFile ==
  ASSUME NandroidInv, s.pc \in {"pack", "unpack"}, s.todo # <<>>, Image # Md5
  PROVE  Image \in Images /\ Dir.was[Image] # None
<1>1. Image \in Images \cup {Md5} /\ Image \in Pending
  BY Now, HeadAndTail DEF Image, Pending
<1>2. QED
  BY <1>1 DEF NandroidInv, Types

\* What one file and its compressed form are made of.
LEMMA OneFile ==
  ASSUME NandroidInv, NEW i \in Images, Dir.was[i] # None,
         NEW plain \in Contents, NEW packed \in Contents,
         card' = [card EXCEPT ![s.name] =
                    [Dir EXCEPT !.plain[i] = plain, !.packed[i] = packed]]
  PROVE  /\ card' \in [Names -> Directories] /\ \A m \in Names : Kept(card'[m])
         /\ card'[s.name].was = Dir.was
<1> DEFINE e == [Dir EXCEPT !.plain[i] = plain, !.packed[i] = packed]
<1>1. Dir \in Directories /\ Kept(Dir) /\ s.name \in Names
  BY Now
<1>2. e \in Directories /\ Kept(e)
  BY <1>1, KeptFiles
<1>3. e.was = Dir.was
  BY <1>1 DEF Directories
<1> HIDE DEF e
<1>4. /\ card' \in [Names -> Directories] /\ card'[s.name] = e
      /\ \A m \in Names : Kept(card'[m])
  BY <1>1, <1>2, OneCard DEF e
<1>5. QED
  BY <1>3, <1>4

LEMMA PackFileStep ==
  ASSUME NandroidInv, PackFile
  PROVE  NandroidInv'
<1>1. /\ s.pc = "pack" /\ s.todo # <<>> /\ Image # Md5 /\ NextImage
      /\ UNCHANGED Phone /\ faults' = faults
  BY DEF PackFile, At
<1>2. faults' \in 0..MaxFaults
  BY <1>1, Now
<1>3. Image \in Images /\ Dir.was[Image] # None
  BY <1>1, AtFile
<1>4. CASE Dir.packed[Image] # None
  <2>1. card' = card
    <3>1. card' = [card EXCEPT ![s.name] = Dir]
      BY <1>4 DEF PackFile, Dir
    <3>2. QED
      BY <3>1, Now DEF Dir
  <2>2. QED
    BY <1>1, <1>2, <2>1, PassedOver
<1>5. CASE ~(Dir.packed[Image] # None)
  <2> DEFINE content == Dir.plain[Image]
  <2>1. card' = [card EXCEPT ![s.name] =
                   [Dir EXCEPT !.packed[Image] = content, !.plain[Image] = None]]
    BY <1>5 DEF PackFile, Dir
  <2>2. content \in Contents /\ None \in Contents
    BY <1>3, Now, FilesOf, Something
  <2> HIDE DEF content
  <2>3. [Dir EXCEPT !.packed[Image] = content, !.plain[Image] = None]
          = [Dir EXCEPT !.plain[Image] = None, !.packed[Image] = content]
    BY Now DEF Directories
  <2>4. card' = [card EXCEPT ![s.name] =
                   [Dir EXCEPT !.plain[Image] = None, !.packed[Image] = content]]
    BY <2>1, <2>3
  <2>5. /\ card' \in [Names -> Directories] /\ \A m \in Names : Kept(card'[m])
        /\ card'[s.name].was = Dir.was
    BY <1>3, <2>2, <2>4, OneFile
  <2>6. QED
    BY <1>1, <1>2, <2>5, NextGzip
<1>6. QED
  BY <1>4, <1>5

LEMMA PackSumsStep ==
  ASSUME NandroidInv, PackSums
  PROVE  NandroidInv'
<1>1. /\ s.pc = "pack" /\ s.todo # <<>> /\ NextImage
      /\ UNCHANGED Phone /\ faults' = faults
  BY DEF PackSums, At
<1>2. faults' \in 0..MaxFaults
  BY <1>1, Now
<1>3. CASE "packed" \in Dir.sumsIn
  <2>1. card' = card
    <3>1. card' = [card EXCEPT ![s.name] = Dir]
      BY <1>3 DEF PackSums, Dir
    <3>2. QED
      BY <3>1, Now DEF Dir
  <2>2. QED
    BY <1>1, <1>2, <2>1, PassedOver
<1>4. CASE ~("packed" \in Dir.sumsIn)
  <2> DEFINE e == [Dir EXCEPT !.packedSums = Dir.sums, !.sumsIn = {"packed"}]
  <2>1. card' = [card EXCEPT ![s.name] = e]
    BY <1>4 DEF PackSums, Dir
  <2>2. Dir \in Directories /\ Kept(Dir) /\ s.name \in Names
    BY Now
  <2>3. e \in Directories /\ Kept(e)
    BY <2>2, KeptSumsMoved
  <2>4. e.was = Dir.was
    BY <2>2 DEF Directories
  <2> HIDE DEF e
  <2>5. /\ card' \in [Names -> Directories] /\ card'[s.name] = e
        /\ \A m \in Names : Kept(card'[m])
    BY <2>1, <2>2, <2>3, OneCard
  <2>6. card'[s.name].was = Dir.was
    BY <2>4, <2>5
  <2>7. QED
    BY <1>1, <1>2, <2>5, <2>6, NextGzip
<1>5. QED
  BY <1>3, <1>4

LEMMA PackFailsStep ==
  ASSUME NandroidInv, PackFails
  PROVE  NandroidInv'
<1>1. /\ s.pc = "pack" /\ s.todo # <<>> /\ NextImage
      /\ UNCHANGED <<Phone, card>> /\ Fault
  BY DEF PackFails, At
<1>2. faults' \in 0..MaxFaults
  BY <1>1, Counted
<1>3. s.pc \in {"pack", "unpack"}
  BY <1>1
<1>4. QED
  BY <1>1, <1>2, <1>3, PassedOver

LEMMA PackedStep ==
  ASSUME NandroidInv, Packed
  PROVE  NandroidInv'
<1>1. UNCHANGED <<Phone, faults>> /\ Finish("saved") /\ card' = card
  BY DEF Packed
<1>2. card' \in [Names -> Directories] /\ \A m \in Names : Kept(card'[m])
  BY <1>1, Now DEF NandroidInv, Cards
<1>3. QED
  BY <1>1, <1>2, SavedStep

-----------------------------------------------------------------------------
(* The steps of a restore                                                  *)

\* A script that has read no sums yet.
LEMMA QuietStep ==
  ASSUME NandroidInv, UNCHANGED <<Phone, card, faults>>,
         s' \in Scripts, s'.pc \in {"check", "verify"}
  PROVE  NandroidInv'
<1>1. device' = device /\ worn' = worn /\ part' = part /\ card' = card /\ faults' = faults
  BY DEF Phone
<1>2. TypeOK' /\ \A i \in Images : part'[i] # None
  BY <1>1, Now, SameTypes
<1>3. Types' /\ SavingInv' /\ RestoringInv'
  BY <1>2 DEF Types, SavingInv, RestoringInv, Saving
<1>4. QED
  BY <1>1, <1>3, SameCards DEF NandroidInv

LEMMA StartRestoreStep ==
  ASSUME NandroidInv, StartRestore
  PROVE  NandroidInv'
<1>1. PICK n \in Names, sel \in Selections : Begin("check", n, sel, FALSE)
  BY DEF StartRestore
<1>2. s' = Process("check", n, sel, FALSE) /\ UNCHANGED <<Phone, card, faults>>
  BY <1>1 DEF Begin
<1>3. s' \in Scripts /\ s'.pc = "check"
  <2>1. /\ sel \in SUBSET Images /\ FALSE \in BOOLEAN
        /\ "check" \in Stopped \cup Saving \cup Restoring
    BY NandroidAssumption DEF Restoring
  <2>2. \A name \in Names, chosen \in SUBSET Images, compress \in BOOLEAN :
          /\ Process("check", name, chosen, compress) \in Scripts
          /\ Process("check", name, chosen, compress).pc = "check"
    BY <2>1, Starts
  <2>3. QED
    BY <1>2, <2>1, <2>2
<1>4. QED
  BY <1>2, <1>3, QuietStep

LEMMA CheckSumsFileStep ==
  ASSUME NandroidInv, CheckSumsFile
  PROVE  NandroidInv'
<1>1. UNCHANGED <<Phone, card, faults>>
  BY DEF CheckSumsFile
<1>2. CASE AnyPacked(Dir)
  <2> DEFINE files == {Md5} \cup Files(Dir.packed)
             todo == Reverse(OfSize(files))
  <2>1. /\ files \in SUBSET (Images \cup {Md5})
        /\ \A i \in files : i # Md5 => i \in Files(Dir.packed)
    BY DEF Files
  <2>2. s' = [s EXCEPT !.pc = "unpack", !.todo = todo]
    BY <1>2 DEF CheckSumsFile
  <2> HIDE DEF files
  <2>3. OfSize(files) \in Seq(Images \cup {Md5}) /\ ToSet(OfSize(files)) = files
    BY <2>1, FilesListed
  <2>4. todo \in Seq(Images \cup {Md5}) /\ ToSet(todo) = files
    BY <2>3, Reversed
  <2> HIDE DEF todo
  <2>5. s' \in Scripts /\ s'.pc = "unpack" /\ s'.name = s.name /\ s'.todo = todo
    BY <2>2, <2>4, Now DEF Scripts, Restoring
  <2>6. Pending' = files /\ Dir' = Dir
    BY <1>1, <2>4, <2>5 DEF Pending, Dir
  <2>7. \A i \in Pending' : i # Md5 => Dir'.was[i] # None
    BY <2>1, <2>6, Now, FilesWere DEF Files
  <2>8. /\ UNCHANGED Phone /\ faults' \in 0..MaxFaults
        /\ card' \in [Names -> Directories] /\ \A m \in Names : Kept(card'[m])
    BY <1>1, Now DEF NandroidInv, Cards
  <2>9. QED
    BY <2>5, <2>7, <2>8, GzipStep
<1>3. CASE ~AnyPacked(Dir)
  <2>1. s' = [s EXCEPT !.pc = "verify"]
    BY <1>3 DEF CheckSumsFile, Goto
  <2>2. s' \in Scripts /\ s'.pc = "verify"
    BY <2>1, Now DEF Scripts, Restoring
  <2>3. QED
    BY <1>1, <2>2, QuietStep
<1>4. QED
  BY <1>2, <1>3

LEMMA UnpackFileStep ==
  ASSUME NandroidInv, UnpackFile
  PROVE  NandroidInv'
<1>1. /\ s.pc = "unpack" /\ s.todo # <<>> /\ Image # Md5 /\ NextImage
      /\ UNCHANGED Phone /\ faults' = faults
  BY DEF UnpackFile, At
<1>2. faults' \in 0..MaxFaults
  BY <1>1, Now
<1>3. Image \in Images /\ Dir.was[Image] # None
  BY <1>1, AtFile
<1>4. CASE card' = card
  BY <1>1, <1>2, <1>4, PassedOver
<1>5. CASE card' = [card EXCEPT ![s.name].plain[Image] = Dir.packed[Image],
                                ![s.name].packed[Image] = None]
  <2> DEFINE content == Dir.packed[Image]
  <2>1. content \in Contents /\ None \in Contents
    BY <1>3, Now, FilesOf, Something
  <2>2. card' = [card EXCEPT ![s.name].plain[Image] = content,
                             ![s.name].packed[Image] = None]
    BY <1>5
  <2> HIDE DEF content
  <2>3. card' = [card EXCEPT ![s.name] =
                   [Dir EXCEPT !.plain[Image] = content, !.packed[Image] = None]]
    BY <2>2, Now DEF Dir, Directories
  <2>4. /\ card' \in [Names -> Directories] /\ \A m \in Names : Kept(card'[m])
        /\ card'[s.name].was = Dir.was
    BY <1>3, <2>1, <2>3, OneFile
  <2>5. QED
    BY <1>1, <1>2, <2>4, NextGzip
<1>6. QED
  BY <1>4, <1>5 DEF UnpackFile

LEMMA UnpackSumsStep ==
  ASSUME NandroidInv, UnpackSums
  PROVE  NandroidInv'
<1>1. /\ s.pc = "unpack" /\ s.todo # <<>> /\ NextImage
      /\ UNCHANGED Phone /\ faults' = faults
  BY DEF UnpackSums, At
<1>2. faults' \in 0..MaxFaults
  BY <1>1, Now
<1>3. CASE card' = card
  BY <1>1, <1>2, <1>3, PassedOver
<1>4. CASE card' = [card EXCEPT ![s.name].sums = Dir.packedSums,
                                ![s.name].sumsIn = {"plain"}]
  <2> DEFINE e == [Dir EXCEPT !.sums = Dir.packedSums, !.sumsIn = {"plain"}]
  <2>1. Dir \in Directories /\ Kept(Dir) /\ s.name \in Names
    BY Now
  <2>2. card' = [card EXCEPT ![s.name] = e]
    BY <1>4, Now DEF Dir, Directories
  <2>3. e \in Directories /\ Kept(e)
    BY <2>1, KeptSumsMoved
  <2>4. e.was = Dir.was
    BY <2>1 DEF Directories
  <2> HIDE DEF e
  <2>5. /\ card' \in [Names -> Directories] /\ card'[s.name] = e
        /\ \A m \in Names : Kept(card'[m])
    BY <2>1, <2>2, <2>3, OneCard
  <2>6. card'[s.name].was = Dir.was
    BY <2>4, <2>5
  <2>7. QED
    BY <1>1, <1>2, <2>5, <2>6, NextGzip
<1>5. QED
  BY <1>3, <1>4 DEF UnpackSums

LEMMA UnpackFailsStep ==
  ASSUME NandroidInv, UnpackFails
  PROVE  NandroidInv'
<1>1. /\ s.pc = "unpack" /\ s.todo # <<>> /\ NextImage
      /\ UNCHANGED <<Phone, card>> /\ Fault
  BY DEF UnpackFails, At
<1>2. faults' \in 0..MaxFaults
  BY <1>1, Counted
<1>3. s.pc \in {"pack", "unpack"}
  BY <1>1
<1>4. QED
  BY <1>1, <1>2, <1>3, PassedOver

LEMMA UnpackedStep ==
  ASSUME NandroidInv, Unpacked
  PROVE  NandroidInv'
<1>1. s' = [s EXCEPT !.pc = "verify"] /\ UNCHANGED <<Phone, card, faults>>
  BY DEF Unpacked, Goto
<1>2. s' \in Scripts /\ s'.pc = "verify"
  BY <1>1, Now DEF Scripts, Restoring
<1>3. QED
  BY <1>1, <1>2, QuietStep

\* Behind the sums, the invariant of a restore is all there is to show.
LEMMA RestoreStep ==
  ASSUME NandroidInv, UNCHANGED <<device, worn, card>>, faults' \in 0..MaxFaults,
         part' \in [Images -> Contents], \A i \in Images : part'[i] # None,
         s' \in Scripts, s'.pc \in {"flash", "erase", "fill"}, s'.name = s.name,
         s'.todo \in Seq(Images), Pending' \subseteq s'.sel,
         device = "emmc" => "wimax" \notin Pending',
         s'.pc = "fill" => s'.todo # <<>>,
         \A i \in Images : Intact(Dir, i),
         s'.sel \subseteq Restorable(Dir, Images),
         s'.pc = "flash" =>
           \A i \in (s'.sel \cap Files(Dir.plain)) \cap RawImages :
             i \in Pending' \/ i \in s'.missed \/ part'[i] = Dir.plain[i],
         s'.pc # "flash" =>
           /\ \A i \in s'.sel \cap Files(Dir.plain) :
                i \in Pending' \/ i \in s'.missed \/ part'[i] = Dir.plain[i]
           /\ Pending' \cap RawImages = {}
  PROVE  NandroidInv'
<1>1. Dir' = Dir
  BY DEF Dir
<1>2. TypeOK'
  BY Now DEF TypeOK
<1>3. Types'
  BY <1>2 DEF Types
<1>4. SavingInv'
  BY DEF SavingInv, Saving
<1>5. RestoringInv'
  <2>1. \A i \in Images : Intact(Dir, i)'
    BY <1>1 DEF Intact, WrongBlock, ReadShort
  <2>2. s'.sel \subseteq Restorable(Dir, Images)'
    BY <1>1 DEF Restorable
  <2>3. \A i \in Images :
          (i \in s'.missed \/ part'[i] = Dir.plain[i]) => Restored(i)'
    BY <1>1 DEF Restored
  <2>4. ToRestore' = s'.sel \cap Files(Dir.plain) /\ ToRestore' \subseteq Images
    BY <1>1 DEF ToRestore, Files
  <2>5. QED
    BY <2>1, <2>2, <2>3, <2>4 DEF RestoringInv
<1>6. Cards'
  BY SameCards
<1>7. QED
  BY <1>3, <1>4, <1>5, <1>6 DEF NandroidInv

\* What a restore knows behind the sums.
LEMMA Behind ==
  ASSUME NandroidInv, s.pc \in {"flash", "erase", "fill"}
  PROVE  /\ \A i \in Images : Intact(Dir, i)
         /\ s.sel \subseteq Restorable(Dir, Images)
         /\ s.pc = "flash" =>
              \A i \in (s.sel \cap Files(Dir.plain)) \cap RawImages :
                i \in Pending \/ i \in s.missed \/ part[i] = Dir.plain[i]
         /\ s.pc # "flash" =>
              /\ \A i \in s.sel \cap Files(Dir.plain) :
                   i \in Pending \/ i \in s.missed \/ part[i] = Dir.plain[i]
              /\ Pending \cap RawImages = {}
BY DEF NandroidInv, RestoringInv, ToRestore, Restored

LEMMA VerifyStep ==
  ASSUME NandroidInv, Verify
  PROVE  NandroidInv'
<1> DEFINE sel == Restorable(Dir, s.sel)
           todo == Wanted(RawRestored, sel)
<1>1. /\ s.pc = "verify" /\ Verified(Dir)
      /\ s' = [s EXCEPT !.pc = "flash", !.sel = sel, !.todo = todo]
      /\ device' = device /\ worn' = worn /\ part' = part /\ card' = card
      /\ faults' = faults
  BY Now DEF Verify, At, Phone, Scripts
<1>2. /\ sel \in SUBSET Images /\ sel \subseteq s.sel
      /\ sel \subseteq Restorable(Dir, Images)
  BY Now DEF Restorable
<1> HIDE DEF sel
<1>3. /\ todo \in Seq(Images)
      /\ ToSet(todo) = RawImages \cap
           (IF device = "emmc" THEN sel \ {"wimax"} ELSE sel)
  BY ImageLists, ImageSets, LoopTakes
<1> HIDE DEF todo
<1>4. /\ s' \in Scripts /\ s'.pc = "flash" /\ s'.name = s.name
      /\ s'.sel = sel /\ s'.todo = todo
  BY <1>1, <1>2, <1>3, Now, ImagesOrSums DEF Scripts, Restoring
<1>5. Pending' = ToSet(todo)
  BY <1>4 DEF Pending
<1>6. \A i \in Images : Intact(Dir, i)
  BY <1>1, Now DEF Verified, Intact, Kept, Attested, Blind
<1>7. \A i \in (sel \cap Files(Dir.plain)) \cap RawImages : i \in Pending'
  <2>1. device = "emmc" => "wimax" \notin Files(Dir.plain)
    BY Now, ImageSets DEF Kept, Files
  <2>2. QED
    BY <1>3, <1>5, <2>1
<1>8. Pending' \subseteq s'.sel /\ (device = "emmc" => "wimax" \notin Pending')
  BY <1>3, <1>4, <1>5
<1>9. /\ part' \in [Images -> Contents] /\ \A i \in Images : part'[i] # None
      /\ faults' \in 0..MaxFaults
  BY <1>1, Now
<1>10. /\ UNCHANGED <<device, worn, card>> /\ s'.todo \in Seq(Images)
       /\ s'.sel \subseteq Restorable(Dir, Images)
       /\ \A i \in (s'.sel \cap Files(Dir.plain)) \cap RawImages : i \in Pending'
  BY <1>1, <1>2, <1>3, <1>4, <1>7
<1>11. QED
  BY <1>4, <1>6, <1>8, <1>9, <1>10, RestoreStep

\* What a step of a restore makes of the partition it is at.
LEMMA OnePart ==
  ASSUME NandroidInv, NEW i \in Images, NEW content \in Contents \ {None},
         part' \in {part, [part EXCEPT ![i] = content]}
  PROVE  /\ part' \in [Images -> Contents] /\ \A j \in Images : part'[j] # None
         /\ \A j \in Images \ {i} : part'[j] = part[j]
BY Now

LEMMA FilledPart ==
  ASSUME NandroidInv, NEW i \in Images, part' = Filled(i)
  PROVE  /\ part' \in [Images -> Contents] /\ \A j \in Images : part'[j] # None
         /\ \A j \in Images \ {i} : part'[j] = part[j]
         /\ i \in Files(Dir.plain) => part'[i] = Dir.plain[i]
<1>1. Dir.plain \in [Images -> Contents] /\ part \in [Images -> Contents]
  BY Now, FilesOf
<1>2. CASE Dir.plain[i] = None
  BY <1>1, <1>2, Now DEF Filled, Files
<1>3. CASE Dir.plain[i] # None
  BY <1>1, <1>3, Now DEF Filled, Files
<1>4. QED
  BY <1>2, <1>3

\* The image behind: written, or missed.
LEMMA RestoreNext ==
  ASSUME NandroidInv, UNCHANGED <<device, worn, card>>, faults' \in 0..MaxFaults,
         s.pc \in {"flash", "fill"}, s.todo # <<>>,
         part' \in [Images -> Contents], \A i \in Images : part'[i] # None,
         \A j \in Images \ {Image} : part'[j] = part[j],
         s' \in Scripts, s'.pc = IF s.pc = "flash" THEN "flash" ELSE "erase",
         s'.todo = Tail(s.todo), s'.sel = s.sel, s'.name = s.name,
         s.missed \subseteq s'.missed,
         Image \in Files(Dir.plain) =>
           Image \in s'.missed \/ part'[Image] = Dir.plain[Image]
  PROVE  NandroidInv'
<1>1. s.pc \in Working /\ s.pc \in {"flash", "erase", "fill"}
  BY DEF Working
<1>2. /\ s'.todo \in Seq(Images)
      /\ Pending' \subseteq Pending /\ Pending \subseteq {Image} \cup Pending'
      /\ Pending \subseteq s.sel /\ (device = "emmc" => "wimax" \notin Pending)
  BY <1>1, AtImage, Listed DEF Pending
<1>3. Files(Dir.plain) \subseteq Images
  BY DEF Files
<1>4. s.pc = "flash" =>
        \A i \in (s'.sel \cap Files(Dir.plain)) \cap RawImages :
          i \in Pending' \/ i \in s'.missed \/ part'[i] = Dir.plain[i]
  BY <1>1, <1>2, <1>3, Behind
<1>5. s.pc = "fill" =>
        /\ \A i \in s'.sel \cap Files(Dir.plain) :
             i \in Pending' \/ i \in s'.missed \/ part'[i] = Dir.plain[i]
        /\ Pending' \cap RawImages = {}
  BY <1>1, <1>2, <1>3, Behind
<1>6. \A i \in Images : Intact(Dir, i)
  BY <1>1, Behind
<1>7. s'.sel \subseteq Restorable(Dir, Images)
  BY <1>1, Behind
<1>8. s'.pc \in {"flash", "erase", "fill"} /\ s'.pc # "fill"
      /\ (s'.pc = "flash" => s.pc = "flash") /\ (s'.pc # "flash" => s.pc = "fill")
  OBVIOUS
<1>9. Pending' \subseteq s'.sel /\ (device = "emmc" => "wimax" \notin Pending')
  BY <1>2
<1>10. QED
  BY <1>2, <1>4, <1>5, <1>6, <1>7, <1>8, <1>9, RestoreStep

LEMMA FlashStep ==
  ASSUME NandroidInv, Flash
  PROVE  NandroidInv'
<1>1. /\ s.pc = "flash" /\ s.todo # <<>> /\ part' = Filled(Image)
      /\ s' = [s EXCEPT !.pc = "flash", !.todo = Tail(@)]
      /\ UNCHANGED <<device, worn, card>> /\ faults' \in 0..MaxFaults
  BY Now DEF Flash, At, NextImage, Fixed, Scripts
<1>2. s.pc \in Working /\ "flash" \in Working
  BY <1>1 DEF Working
<1>3. Image \in Images
  BY <1>1, <1>2, AtImage
<1>4. /\ s' \in Scripts /\ s'.pc = "flash" /\ s'.todo = Tail(s.todo)
      /\ s'.sel = s.sel /\ s'.name = s.name /\ s'.missed = s.missed
  BY <1>1, <1>2, NextTodo
<1>5. /\ part' \in [Images -> Contents] /\ \A j \in Images : part'[j] # None
      /\ \A j \in Images \ {Image} : part'[j] = part[j]
      /\ Image \in Files(Dir.plain) => part'[Image] = Dir.plain[Image]
  BY <1>1, <1>3, FilledPart
<1>6. QED
  BY <1>1, <1>4, <1>5, RestoreNext

LEMMA FillStep ==
  ASSUME NandroidInv, Fill
  PROVE  NandroidInv'
<1>1. /\ s.pc = "fill" /\ s.todo # <<>> /\ part' = Filled(Image)
      /\ s' = [s EXCEPT !.pc = "erase", !.todo = Tail(@)]
      /\ UNCHANGED <<device, worn, card>> /\ faults' \in 0..MaxFaults
  BY Now DEF Fill, At, Fixed, NandroidInv, Types
<1>2. s.pc \in Working /\ "erase" \in Working
  BY <1>1 DEF Working
<1>3. Image \in Images
  BY <1>1, <1>2, AtImage
<1>4. /\ s' \in Scripts /\ s'.pc = "erase" /\ s'.todo = Tail(s.todo)
      /\ s'.sel = s.sel /\ s'.name = s.name /\ s'.missed = s.missed
  BY <1>1, <1>2, NextTodo
<1>5. /\ part' \in [Images -> Contents] /\ \A j \in Images : part'[j] # None
      /\ \A j \in Images \ {Image} : part'[j] = part[j]
      /\ Image \in Files(Dir.plain) => part'[Image] = Dir.plain[Image]
  BY <1>1, <1>3, FilledPart
<1>6. QED
  BY <1>1, <1>4, <1>5, RestoreNext

\* flash_image, dd, unyaffs or tar fail, and nobody looks.
LEMMA UnnoticedStep ==
  ASSUME NandroidInv, s.pc \in {"flash", "fill"}, s.todo # <<>>,
         part' \in {part, [part EXCEPT ![Image] = Partial]},
         Unnoticed(IF s.pc = "flash" THEN "flash" ELSE "erase")
  PROVE  NandroidInv'
<1> DEFINE pc == IF s.pc = "flash" THEN "flash" ELSE "erase"
<1>1. /\ s' = [s EXCEPT !.pc = pc, !.todo = Tail(@), !.missed = @ \cup {Image}]
      /\ UNCHANGED <<device, worn, card>> /\ Fault
  BY DEF Unnoticed, Fixed
<1>2. s.pc \in Working /\ pc \in Stopped \cup Saving \cup Restoring
  BY DEF Working, Restoring
<1>3. Image \in Images /\ Tail(s.todo) \in Seq(Images)
  BY <1>2, AtImage
<1>4. faults' \in 0..MaxFaults
  BY <1>1, Counted
<1> HIDE DEF pc
<1>5. /\ s' \in Scripts /\ s'.pc = pc /\ s'.todo = Tail(s.todo)
      /\ s'.sel = s.sel /\ s'.name = s.name
      /\ s'.missed = s.missed \cup {Image}
  <2>1. s.missed \cup {Image} \in SUBSET Images
    BY <1>3, Now
  <2>2. Tail(s.todo) \in Seq(Images \cup {Md5})
    BY <1>3, ImagesOrSums
  <2>3. QED
    BY <1>1, <1>2, <2>1, <2>2, Now DEF Scripts
<1>6. /\ part' \in [Images -> Contents] /\ \A j \in Images : part'[j] # None
      /\ \A j \in Images \ {Image} : part'[j] = part[j]
  BY <1>3, OnePart, Something
<1>7. s.missed \subseteq s'.missed /\ Image \in s'.missed
  BY <1>5
<1>8. QED
  BY <1>1, <1>4, <1>5, <1>6, <1>7, RestoreNext DEF pc

LEMMA FlashFailsStep ==
  ASSUME NandroidInv, FlashFails
  PROVE  NandroidInv'
<1>1. /\ s.pc = "flash" /\ s.todo # <<>> /\ Unnoticed("flash")
      /\ part' \in {part, [part EXCEPT ![Image] = Partial]}
  BY DEF FlashFails, At
<1>2. QED
  BY <1>1, UnnoticedStep

LEMMA FillFailsStep ==
  ASSUME NandroidInv, FillFails
  PROVE  NandroidInv'
<1>1. /\ s.pc = "fill" /\ s.todo # <<>> /\ Unnoticed("erase")
      /\ part' \in {part, [part EXCEPT ![Image] = Partial]}
  BY DEF FillFails, At, NandroidInv, Types
<1>2. QED
  BY <1>1, UnnoticedStep

LEMMA FlashDoneStep ==
  ASSUME NandroidInv, FlashDone
  PROVE  NandroidInv'
<1> DEFINE todo == Wanted(TreesRestored \o Archives, s.sel)
<1>1. /\ s.pc = "flash" /\ s.todo = <<>>
      /\ s' = [s EXCEPT !.pc = "erase", !.todo = todo]
      /\ device' = device /\ worn' = worn /\ part' = part /\ card' = card
      /\ faults' = faults
  BY DEF FlashDone, At, Loop, Phone
<1>2. /\ todo \in Seq(Images)
      /\ ToSet(todo) = TreeImages \cap
           (IF device = "emmc" THEN s.sel \ {"wimax"} ELSE s.sel)
  BY ImageLists, ImageSets, LoopTakes
<1> HIDE DEF todo
<1>3. /\ s' \in Scripts /\ s'.pc = "erase" /\ s'.name = s.name
      /\ s'.sel = s.sel /\ s'.todo = todo /\ s'.missed = s.missed
  BY <1>1, <1>2, Now, ImagesOrSums DEF Scripts, Restoring
<1>4. Pending' = ToSet(todo) /\ Pending = {}
  BY <1>1, <1>3, Listed DEF Pending, Working
<1>5. \A i \in s'.sel \cap Files(Dir.plain) :
        i \in Pending' \/ i \in s'.missed \/ part'[i] = Dir.plain[i]
  <2>1. ASSUME NEW i \in s.sel \cap Files(Dir.plain)
        PROVE  i \in Pending' \/ i \in s.missed \/ part[i] = Dir.plain[i]
    <3>1. i \in Images
      BY DEF Files
    <3>2. CASE i \in RawImages
      BY <1>1, <1>4, <3>2, Behind
    <3>3. CASE i \in TreeImages
      BY <1>2, <1>4, <3>3, ImageSets
    <3>4. QED
      BY <3>1, <3>2, <3>3, ImageSets
  <2>2. QED
    BY <1>1, <1>3, <2>1
<1>6. /\ Pending' \cap RawImages = {} /\ Pending' \subseteq s'.sel
      /\ (device = "emmc" => "wimax" \notin Pending')
  BY <1>2, <1>3, <1>4, ImageSets
<1>7. (\A i \in Images : Intact(Dir, i)) /\ s'.sel \subseteq Restorable(Dir, Images)
  BY <1>1, <1>3, Behind
<1>8. /\ UNCHANGED <<device, worn, card>> /\ faults' \in 0..MaxFaults
      /\ part' \in [Images -> Contents] /\ \A i \in Images : part'[i] # None
      /\ s'.todo \in Seq(Images)
  BY <1>1, <1>2, <1>3, Now
<1>9. QED
  BY <1>3, <1>5, <1>6, <1>7, <1>8, RestoreStep

LEMMA EraseStep ==
  ASSUME NandroidInv, Erase
  PROVE  NandroidInv'
<1>1. /\ s.pc = "erase" /\ s.todo # <<>> /\ part' = Erased(Image)
      /\ s' = [s EXCEPT !.pc = "fill"]
      /\ UNCHANGED <<device, worn, card>> /\ faults' = faults
  BY DEF Erase, At, Goto, Fixed
<1>2. s.pc \in Working
  BY <1>1 DEF Working
<1>3. /\ Image \in Images /\ Image \in Pending /\ s.todo \in Seq(Images)
      /\ Pending \subseteq s.sel /\ (device = "emmc" => "wimax" \notin Pending)
  BY <1>1, <1>2, AtImage, Listed
<1>4. /\ s' \in Scripts /\ s'.pc = "fill" /\ s'.name = s.name
      /\ s'.sel = s.sel /\ s'.todo = s.todo /\ s'.missed = s.missed
  BY <1>1, Now DEF Scripts, Restoring
<1>5. Pending' = Pending
  BY <1>4 DEF Pending
<1>6. /\ part' \in [Images -> Contents] /\ \A j \in Images : part'[j] # None
      /\ \A j \in Images \ {Image} : part'[j] = part[j]
  <2>1. part' \in {part, [part EXCEPT ![Image] = Empty]}
    BY <1>1 DEF Erased
  <2>2. QED
    BY <1>3, <2>1, OnePart, Something
<1>7. /\ \A i \in s'.sel \cap Files(Dir.plain) :
           i \in Pending' \/ i \in s'.missed \/ part'[i] = Dir.plain[i]
      /\ Pending' \cap RawImages = {}
  <2>1. /\ \A i \in s.sel \cap Files(Dir.plain) :
             i \in Pending \/ i \in s.missed \/ part[i] = Dir.plain[i]
        /\ Pending \cap RawImages = {}
    BY <1>1, Behind
  <2>2. \A i \in s.sel \cap Files(Dir.plain) : i \in Images
    BY DEF Files
  <2>3. QED
    BY <1>3, <1>4, <1>5, <1>6, <2>1, <2>2
<1>8. (\A i \in Images : Intact(Dir, i)) /\ s'.sel \subseteq Restorable(Dir, Images)
  BY <1>1, <1>4, Behind
<1>9. /\ faults' \in 0..MaxFaults /\ s'.todo \in Seq(Images) /\ s'.todo # <<>>
      /\ Pending' \subseteq s'.sel /\ (device = "emmc" => "wimax" \notin Pending')
  BY <1>1, <1>3, <1>4, <1>5, Now
<1>10. QED
  BY <1>1, <1>4, <1>6, <1>7, <1>8, <1>9, RestoreStep

LEMMA RestoreDoneStep ==
  ASSUME NandroidInv, RestoreDone
  PROVE  NandroidInv'
<1>1. /\ s.pc = "erase" /\ s.todo = <<>> /\ Finish("restored")
      /\ device' = device /\ worn' = worn /\ part' = part /\ card' = card
      /\ faults' = faults
  BY DEF RestoreDone, At, Phone
<1>2. /\ s' \in Scripts /\ s'.pc = "restored" /\ s'.todo = <<>>
      /\ s'.sel = s.sel /\ s'.name = s.name /\ s'.missed = s.missed
  BY <1>1, Ended
<1>3. Dir' = Dir /\ Pending' = {}
  <2>1. <<>> \in Seq(Images)
    OBVIOUS
  <2>2. ToSet(<<>>) = {}
    BY <2>1, Elements
  <2>3. QED
    BY <1>1, <1>2, <2>2 DEF Dir, Pending
<1>4. Types'
  <2>1. TypeOK' /\ \A i \in Images : part'[i] # None
    BY <1>1, <1>2, Now, SameTypes
  <2>2. QED
    BY <1>2, <2>1 DEF Types
<1>5. SavingInv'
  BY <1>2 DEF SavingInv, Saving
<1>6. RestoringInv'
  <2>1. Pending = {}
    BY <1>1, Listed DEF Working
  <2>2. /\ \A i \in Images : Intact(Dir, i)
        /\ s.sel \subseteq Restorable(Dir, Images)
        /\ \A i \in s.sel \cap Files(Dir.plain) :
             i \in s.missed \/ part[i] = Dir.plain[i]
    BY <1>1, <2>1, Behind
  <2>3. \A i \in Images : Intact(Dir, i)'
    BY <1>1, <1>3, <2>2 DEF Intact, WrongBlock, ReadShort
  <2>4. s'.sel \subseteq Restorable(Dir, Images)'
    BY <1>2, <1>3, <2>2 DEF Restorable
  <2>5. \A i \in ToRestore' : Restored(i)'
    BY <1>1, <1>2, <1>3, <2>2 DEF ToRestore, Restored, Files
  <2>6. QED
    BY <1>2, <1>3, <2>3, <2>4, <2>5 DEF RestoringInv
<1>7. QED
  BY <1>1, <1>4, <1>5, <1>6, SameCards DEF NandroidInv

-----------------------------------------------------------------------------
(* The owner, and the battery                                              *)

LEMMA UseStep ==
  ASSUME NandroidInv, Use
  PROVE  NandroidInv'
<1>1. PICK v \in 1..MaxVersion : part' = [i \in Images |-> <<i, v>>]
  BY DEF Use
<1>2. /\ s' = Over("stopped") /\ UNCHANGED <<device, worn>>
      /\ card' = card /\ faults' = faults
  BY DEF Use, Fixed
<1>3. v \in 0..MaxVersion
  BY NandroidAssumption
<1>4. \A i \in Images : <<i, v>> \in Contents \ {None}
  BY <1>3, Something
<1>5. part' \in [Images -> Contents] /\ \A i \in Images : part'[i] # None
  BY <1>1, <1>4
<1>6. /\ card' \in [Names -> Directories] /\ \A m \in Names : Kept(card'[m])
      /\ faults' \in 0..MaxFaults
  BY <1>2, Now DEF NandroidInv, Cards
<1>7. QED
  BY <1>2, <1>5, <1>6, Idle

LEMMA DeleteStep ==
  ASSUME NandroidInv, Delete
  PROVE  NandroidInv'
<1>1. PICK n \in Names :
        /\ card' = [card EXCEPT ![n] = [NoDirectory EXCEPT !.was = card[n].was]]
        /\ s' = Over("stopped") /\ UNCHANGED <<Phone, faults>>
  BY DEF Delete
<1> DEFINE was == card[n].was
           e == [NoDirectory EXCEPT !.was = was]
<1>2. card[n] \in Directories /\ Kept(card[n])
  BY Now DEF NandroidInv, Cards
<1>3. was \in [Images -> Contents] /\ (device = "emmc" => was["wimax"] = None)
  BY <1>2, FilesOf DEF Kept
<1> HIDE DEF was
<1>4. e \in Directories /\ Kept(e)
  BY <1>3, KeptEmpty
<1>5. card' = [card EXCEPT ![n] = e]
  BY <1>1 DEF was
<1> HIDE DEF e
<1>6. card' \in [Names -> Directories] /\ \A m \in Names : Kept(card'[m])
  BY <1>4, <1>5, OneCard
<1>7. /\ UNCHANGED <<device, worn>> /\ part' = part /\ faults' = faults
  BY <1>1 DEF Phone
<1>8. /\ part' \in [Images -> Contents] /\ \A i \in Images : part'[i] # None
      /\ faults' \in 0..MaxFaults
  BY <1>7, Now
<1>9. QED
  BY <1>1, <1>6, <1>7, <1>8, Idle

\* Any one file of any directory that has a history.
LEMMA AnyFile ==
  ASSUME NandroidInv, NEW n \in Names, NEW i \in Images, card[n].was[i] # None,
         NEW content \in Contents,
         \/ card' = [card EXCEPT ![n].plain[i] = content]
         \/ card' = [card EXCEPT ![n].packed[i] = content]
  PROVE  card' \in [Names -> Directories] /\ \A m \in Names : Kept(card'[m])
<1> DEFINE d == card[n]
<1>1. d \in Directories /\ Kept(d) /\ card \in [Names -> Directories]
  BY Now DEF NandroidInv, Cards
<1>2. d.plain[i] \in Contents /\ d.packed[i] \in Contents /\ d.was[i] # None
  BY <1>1, FilesOf
<1>3. CASE card' = [card EXCEPT ![n].plain[i] = content]
  <2> DEFINE e == [d EXCEPT !.plain[i] = content, !.packed[i] = d.packed[i]]
  <2>1. card' = [card EXCEPT ![n] = e]
    <3>1. [d EXCEPT !.plain[i] = content] = e
      <4>1. d.plain = [d.plain EXCEPT ![i] = d.plain[i]]
            /\ d.packed = [d.packed EXCEPT ![i] = d.packed[i]]
        BY <1>1, FilesOf
      <4> HIDE DEF d
      <4>2. QED
        BY <1>1, <4>1 DEF Directories
    <3>2. card' = [card EXCEPT ![n] = [d EXCEPT !.plain[i] = content]]
      BY <1>1, <1>3 DEF Directories
    <3> HIDE DEF e
    <3>3. QED
      BY <3>1, <3>2
  <2> HIDE DEF d
  <2>2. e \in Directories /\ Kept(e)
    BY <1>1, <1>2, KeptFiles
  <2> HIDE DEF e
  <2>3. QED
    BY <2>1, <2>2, OneCard
<1>4. CASE card' = [card EXCEPT ![n].packed[i] = content]
  <2> DEFINE e == [d EXCEPT !.plain[i] = d.plain[i], !.packed[i] = content]
  <2>1. card' = [card EXCEPT ![n] = e]
    <3>1. [d EXCEPT !.packed[i] = content] = e
      <4>1. d.plain = [d.plain EXCEPT ![i] = d.plain[i]]
            /\ d.packed = [d.packed EXCEPT ![i] = d.packed[i]]
        BY <1>1, FilesOf
      <4> HIDE DEF d
      <4>2. QED
        BY <1>1, <4>1 DEF Directories
    <3>2. card' = [card EXCEPT ![n] = [d EXCEPT !.packed[i] = content]]
      BY <1>1, <1>4 DEF Directories
    <3> HIDE DEF e
    <3>3. QED
      BY <3>1, <3>2
  <2> HIDE DEF d
  <2>2. e \in Directories /\ Kept(e)
    BY <1>1, <1>2, KeptFiles
  <2> HIDE DEF e
  <2>3. QED
    BY <2>1, <2>2, OneCard
<1>5. QED
  BY <1>3, <1>4

LEMMA RotStep ==
  ASSUME NandroidInv, Rot
  PROVE  NandroidInv'
<1>1. PICK n \in Names, i \in Images :
        /\ \/ card[n].plain[i] # None /\ card' = [card EXCEPT ![n].plain[i] = Rotten]
           \/ card[n].packed[i] # None
              /\ card' = [card EXCEPT ![n].packed[i] = Rotten]
        /\ s' = Over("stopped") /\ Fault /\ UNCHANGED Phone
  BY DEF Rot
<1>2. card[n] \in Directories /\ Kept(card[n])
  BY Now DEF NandroidInv, Cards
<1>3. card[n].was[i] # None
  BY <1>1, <1>2, FilesWere
<1>4. Rotten \in Contents
  BY Something
<1>5. card' \in [Names -> Directories] /\ \A m \in Names : Kept(card'[m])
  BY <1>1, <1>3, <1>4, AnyFile
<1>6. /\ UNCHANGED <<device, worn>> /\ part' = part /\ faults' \in 0..MaxFaults
  BY <1>1, Counted DEF Phone
<1>7. /\ part' \in [Images -> Contents] /\ \A j \in Images : part'[j] # None
  BY <1>6, Now
<1>8. QED
  BY <1>1, <1>5, <1>6, <1>7, Idle

\* The card, when power goes.
LEMMA TornCardKept ==
  ASSUME NandroidInv, card' \in TornCard
  PROVE  card' \in [Names -> Directories] /\ \A m \in Names : Kept(card'[m])
<1>1. Torn \in Contents
  BY Something
<1>2. CASE s.pc \in {"dump", "tree"} /\ s.todo # <<>>
  <2> DEFINE missed == Dir.missed \ {Image}
  <2>1. card' = [card EXCEPT ![s.name] = New(Torn, missed)]
    <3>1. card' = [card EXCEPT ![s.name] = Wrote(Dir, Image, Torn)]
      BY <1>2 DEF TornCard, Dir
    <3>2. QED
      BY <3>1, WroteIsNew
  <2>2. missed \in SUBSET Images /\ missed \cup {Image} = Dir.missed \cup {Image}
    BY Now, FilesOf
  <2> HIDE DEF missed
  <2>3. QED
    BY <1>1, <1>2, <2>1, <2>2, NewFile
<1>3. CASE s.pc = "sums"
  <2>1. PICK listed \in SUBSET s.sel :
          card' = [card EXCEPT ![s.name].sums =
                     [i \in Images |-> IF i \in listed THEN Dir.plain[i] ELSE None],
                               ![s.name].sumsIn = @ \cup {"plain"}]
    BY <1>3 DEF TornCard, At
  <2> DEFINE sums == [i \in Images |-> IF i \in listed THEN Dir.plain[i] ELSE None]
             e == [Dir EXCEPT !.sums = sums, !.sumsIn = @ \cup {"plain"}]
  <2>2. Dir \in Directories /\ Kept(Dir) /\ s.name \in Names
        /\ listed \in SUBSET Images
    BY Now
  <2>3. e \in Directories /\ Kept(e)
    <3>1. Dir.sumsIn = {}
      BY <1>3, NotSaved DEF Saving
    <3>2. \A i \in Images : Good(Dir, i)
      BY <1>3 DEF NandroidInv, SavingInv
    <3>3. QED
      BY <2>2, <3>1, <3>2, KeptSums
  <2>4. card' = [card EXCEPT ![s.name].sums = sums,
                             ![s.name].sumsIn = @ \cup {"plain"}]
    BY <2>1
  <2> HIDE DEF sums
  <2>5. card' = [card EXCEPT ![s.name] = e]
    BY <2>2, <2>4, Now DEF Dir, Directories
  <2> HIDE DEF e
  <2>6. QED
    BY <2>2, <2>3, <2>5, OneCard
<1>4. CASE s.pc \in {"pack", "unpack"} /\ s.todo # <<>> /\ Image # Md5
  <2>1. Image \in Images /\ card[s.name].was[Image] # None /\ s.name \in Names
    BY <1>4, AtFile, Now DEF Dir
  <2>2. \/ card' = [card EXCEPT ![s.name].plain[Image] = Torn]
        \/ card' = [card EXCEPT ![s.name].packed[Image] = Torn]
    BY <1>4 DEF TornCard, At
  <2>3. QED
    BY <1>1, <2>1, <2>2, AnyFile
<1>5. QED
  BY <1>2, <1>3, <1>4 DEF TornCard, At

LEMMA TornPartKept ==
  ASSUME NandroidInv, part' \in TornPart
  PROVE  part' \in [Images -> Contents] /\ \A i \in Images : part'[i] # None
<1>1. /\ s.pc \in Working /\ s.todo # <<>>
      /\ part' = [part EXCEPT ![Image] = Torn]
  BY DEF TornPart, At, Working
<1>2. Image \in Images
  BY <1>1, AtImage
<1>3. QED
  BY <1>1, <1>2, OnePart, Something

LEMMA PowerLossStep ==
  ASSUME NandroidInv, PowerLoss
  PROVE  NandroidInv'
<1>1. /\ card' \in {card} \cup TornCard /\ part' \in {part} \cup TornPart
      /\ s' = Over("stopped") /\ Fault /\ UNCHANGED <<device, worn>>
  BY DEF PowerLoss, Fixed
<1>2. card' \in [Names -> Directories] /\ \A m \in Names : Kept(card'[m])
  <2>1. CASE card' = card
    BY <2>1, Now DEF NandroidInv, Cards
  <2>2. CASE card' \in TornCard
    BY <2>2, TornCardKept
  <2>3. QED
    BY <1>1, <2>1, <2>2
<1>3. part' \in [Images -> Contents] /\ \A i \in Images : part'[i] # None
  <2>1. CASE part' = part
    BY <2>1, Now
  <2>2. CASE part' \in TornPart
    BY <2>2, TornPartKept
  <2>3. QED
    BY <1>1, <2>1, <2>2
<1>4. faults' \in 0..MaxFaults
  BY <1>1, Counted
<1>5. QED
  BY <1>1, <1>2, <1>3, <1>4, Idle

LEMMA StutterStep ==
  ASSUME NandroidInv, UNCHANGED vars
  PROVE  NandroidInv'
BY DEF NandroidInv, vars, Types, TypeOK, Cards, Kept, Attested, Blind, WrongBlock,
       ReadShort, SavingInv, Good, Dir, Pending, Image, Reads, RestoringInv,
       ToRestore, Restored, Restorable, Intact, Files

LEMMA Preserved ==
  ASSUME NandroidInv, [Next]_vars
  PROVE  NandroidInv'
<1>1. CASE Backup
  <2>1. MountFails => NandroidInv'
    BY AbortStep DEF MountFails
  <2>2. NoInternalCard => NandroidInv'
    BY AbortStep DEF NoInternalCard
  <2>3. QED
    BY <1>1, <2>1, <2>2, MountAllStep, FirstSumStep, DumpStep, RawDoneStep,
       SaveTreeStep, SaveTreeFailsStep, TreesDoneStep, WriteSumsStep, PackSumsStep,
       PackFileStep, PackFailsStep, PackedStep DEF Backup
<1>2. CASE Restore
  <2>1. CheckFails => NandroidInv'
    BY AbortStep DEF CheckFails
  <2>2. VerifyFails => NandroidInv'
    BY AbortStep DEF VerifyFails
  <2>3. NoSuchCard => NandroidInv'
    BY AbortStep DEF NoSuchCard
  <2>4. QED
    BY <1>2, <2>1, <2>2, <2>3, CheckSumsFileStep, UnpackFileStep, UnpackFailsStep,
       UnpackSumsStep, UnpackedStep, VerifyStep, FlashStep, FlashFailsStep,
       FlashDoneStep, EraseStep, FillStep, FillFailsStep, RestoreDoneStep DEF Restore
<1>3. CASE Owner
  BY <1>3, StartBackupStep, StartCompressStep, StartRestoreStep, UseStep, DeleteStep,
     RotStep DEF Owner
<1>4. CASE PowerLoss
  BY <1>4, PowerLossStep
<1>5. CASE UNCHANGED vars
  BY <1>5, StutterStep
<1>6. QED
  BY <1>1, <1>2, <1>3, <1>4, <1>5 DEF Next

LEMMA Invariant ==
  Spec => []NandroidInv
<1>1. NandroidInv /\ [Next]_vars => NandroidInv'
  BY Preserved
<1>2. QED
  BY <1>1, Initially, PTL DEF Spec

-----------------------------------------------------------------------------
(* The theorems                                                            *)

\* The directories hold only what the script, gzip and a power loss can have put
\* there, every list is one of images, and no dump has more than five attempts.
THEOREM TypeCorrect == Spec => []TypeOK
<1>1. NandroidInv => TypeOK
  BY DEF NandroidInv, Types
<1>2. QED
  BY <1>1, Invariant, PTL

\* A restore that ends well has written back what the backup read, but for what a
\* tool failed to write unnoticed, and for what the sums cannot tell.
THEOREM RestoresWhatWas == Spec => []RoundTrip
<1>1. NandroidInv => RoundTrip
  <2>1. SUFFICES ASSUME NandroidInv, s.pc = "restored",
                        NEW i \in s.sel \cap Files(Dir.plain)
                 PROVE  i \in s.missed \/ (Intact(Dir, i) /\ part[i] = Dir.plain[i])
    BY DEF RoundTrip, At
  <2>2. s.todo = <<>> /\ Pending = {}
    <3>1. s.todo = <<>>
      BY <2>1 DEF NandroidInv, RestoringInv
    <3>2. <<>> \in Seq(Images)
      OBVIOUS
    <3>3. QED
      BY <3>1, <3>2, Elements DEF Pending
  <2>3. i \in Images
    BY <2>1 DEF Files
  <2>4. QED
    BY <2>1, <2>2, <2>3 DEF NandroidInv, RestoringInv, ToRestore, Restored
<1>2. QED
  BY <1>1, Invariant, PTL

\* Who writes to a partition: the owner, or a restore behind the sums.
LEMMA WhoWrites ==
  ASSUME NandroidInv, Next, part' # part
  PROVE  \/ Use /\ s.pc \in Stopped
         \/ s.pc \in {"flash", "erase", "fill"}
            /\ (Flash \/ FlashFails \/ Erase \/ Fill \/ FillFails \/ PowerLoss)
<1>1. ~Backup
  BY DEF Backup, MountAll, MountFails, FirstSum, Dump, RawDone, SaveTree,
     SaveTreeFails, NoInternalCard, TreesDone, WriteSums, PackSums, PackFile,
     PackFails, Packed, Abort, Phone
<1>2. CASE Restore
  BY <1>2 DEF Restore, CheckSumsFile, CheckFails, UnpackFile, UnpackFails,
     UnpackSums, Unpacked, Verify, VerifyFails, FlashDone, NoSuchCard, RestoreDone,
     Abort, Phone, Flash, FlashFails, Erase, Fill, FillFails, At
<1>3. CASE Owner
  BY <1>3 DEF Owner, StartBackup, StartCompress, StartRestore, Delete, Rot, Begin,
     Phone, Use
<1>4. CASE PowerLoss
  BY <1>4 DEF PowerLoss, TornPart, At
<1>5. QED
  BY <1>1, <1>2, <1>3, <1>4 DEF Next

\* The sums stand between a damaged backup and the phone: while a restore changes
\* a partition, every file of its directory is what was on the partitions.
THEOREM SumsComeFirst == Spec => ErasesOnlyIntact
<1>1. ASSUME NandroidInv, Next, s.pc \in Restoring, part' # part
      PROVE  \A i \in Images : Intact(Dir, i)
  <2>1. s.pc \in {"flash", "erase", "fill"}
    BY <1>1, WhoWrites DEF Restoring, Stopped
  <2>2. QED
    BY <1>1, <2>1, Behind
<1>2. NandroidInv /\ [Next]_vars =>
        [s.pc \in Restoring /\ part' # part => \A i \in Images : Intact(Dir, i)]_vars
  BY <1>1
<1>3. QED
  BY <1>2, Invariant, PTL DEF Spec, ErasesOnlyIntact

\* What is no empty partition.
LEMMA NotEmpty ==
  /\ Partial # Empty /\ Torn # Empty
  /\ \A i \in Images, v \in Nat : <<i, v>> # Empty
<1>1. "empty" \notin Images
  BY ImageSets DEF TreeImages, Trees, Archives, ToSet
<1>2. \A i \in Images, v \in Nat : <<i, v>> # Empty
  <2> HIDE DEF Images
  <2>1. QED
    BY <1>1 DEF Empty
<1>3. QED
  BY <1>2 DEF Partial, Torn, Empty

\* A restore empties a partition only when it has a file to fill it from, or a
\* compressed one; /cache it empties in any case.
THEOREM FileBeforeErase == Spec => EmptiesOnlyToFill
<1>1. ASSUME NandroidInv, Next, NEW i \in Images, part'[i] = Empty, part[i] # Empty
      PROVE  i \in Files(Dir.plain) \cup Files(Dir.packed) \cup {"cache"}
  <2>1. part' # part
    BY <1>1
  <2>2. CASE Use
    <3>1. PICK v \in 1..MaxVersion : part' = [j \in Images |-> <<j, v>>]
      BY <2>2 DEF Use
    <3>2. part'[i] = <<i, v>> /\ v \in Nat
      BY <3>1, NandroidAssumption
    <3>3. QED
      BY <1>1, <3>2, NotEmpty
  <2>3. ASSUME s.pc \in {"flash", "erase", "fill"}, s.todo # <<>>
        PROVE  Image \in Images /\ Image \in s.sel /\ part \in [Images -> Contents]
    BY <1>1, <2>3, AtImage, Now DEF Working
  <2>4. ASSUME s.pc \in {"flash", "fill"}, s.todo # <<>>, part' = Filled(Image)
        PROVE  i \in Files(Dir.plain)
    BY <1>1, <2>3, <2>4 DEF Filled, Files
  <2>5. ASSUME s.pc \in {"flash", "erase", "fill"}, s.todo # <<>>,
               part' \in {part, [part EXCEPT ![Image] = Partial],
                          [part EXCEPT ![Image] = Torn]}
        PROVE  FALSE
    BY <1>1, <2>3, <2>5, NotEmpty
  <2>6. CASE Erase
    <3>1. /\ s.pc = "erase" /\ s.todo # <<>>
          /\ part' \in {part, [part EXCEPT ![Image] = Empty]}
      BY <2>6 DEF Erase, At, Erased
    <3>2. i = Image
      BY <1>1, <2>3, <3>1
    <3>3. Image \in Restorable(Dir, Images) /\ Image \notin RawImages
      <4>1. Image \in Pending
        BY <1>1, <3>1, AtImage DEF Working
      <4>2. QED
        BY <1>1, <2>3, <3>1, <4>1, Behind
    <3>4. "misc" \in RawImages
      BY ImageSets
    <3>5. QED
      BY <1>1, <3>2, <3>3, <3>4 DEF Restorable, Files
  <2>7. s.pc = "fill" => s.todo # <<>>
    BY <1>1 DEF NandroidInv, Types
  <2>8. CASE Flash
    BY <2>4, <2>8 DEF Flash, At
  <2>9. CASE Fill
    BY <2>4, <2>7, <2>9 DEF Fill, At
  <2>10. CASE FlashFails
    BY <2>5, <2>10 DEF FlashFails, At
  <2>11. CASE FillFails
    BY <2>5, <2>7, <2>11 DEF FillFails, At
  <2>12. CASE PowerLoss
    <3>1. part' \in TornPart
      BY <2>1, <2>12 DEF PowerLoss
    <3>2. QED
      BY <2>5, <3>1 DEF TornPart, At
  <2>13. QED
    BY <1>1, <2>1, <2>2, <2>6, <2>8, <2>9, <2>10, <2>11, <2>12, WhoWrites
<1>2. NandroidInv /\ [Next]_vars =>
        [\A i \in Images : part'[i] = Empty /\ part[i] # Empty =>
           i \in Files(Dir.plain) \cup Files(Dir.packed) \cup {"cache"}]_vars
  BY <1>1
<1>3. QED
  BY <1>2, Invariant, PTL DEF Spec, EmptiesOnlyToFill

=============================================================================
