--------------------------- MODULE MtdWriterProofs ---------------------------
(***************************************************************************)
(* Facts about the write context of mtdutils.c that hold for partitions    *)
(* and blocks of every size: what mtd_write_data hands to write_block, and *)
(* what write_block does to the flash.  The proofs about its callers rest  *)
(* on them.                                                                *)
(***************************************************************************)
EXTENDS MtdWriter, FiniteSetTheorems, TLAPS

-----------------------------------------------------------------------------
(* Types of the helpers                                                    *)

\* A block filled with one value, or a write padded with zeros, is a block.
LEMMA BlockTypes ==
  /\ \A v \in Values \cup {"erased", "garbled"} : Filled(v) \in Block
  /\ \A pages \in Seq(Values) : Padded(pages) \in [Pages -> Values]
  /\ [Pages -> Values] \subseteq Block
BY DeviceAssumption DEF Filled, Padded, Block, Pages

\* mtd_write_partition returns a well-formed context.
LEMMA OpenedType == Opened \in Contexts
<1>1. 0 \in 0..NBlocks /\ 1 \in Pages
  BY DeviceAssumption DEF Pages
<1>2. Filled("zero") \in Block
  BY BlockTypes, DeviceAssumption
<1>3. QED
  BY <1>1, <1>2 DEF Opened, Contexts

\* Starting write_block keeps the context well-formed.
LEMMA BeginBlockType ==
  ASSUME NEW c \in Contexts, NEW pages \in Seq(Values)
  PROVE  /\ BeginBlock(c, pages) \in Contexts
         /\ BeginBlock(c, pages).stored = c.stored
         /\ BeginBlock(c, pages).pc = "block"
<1>1. Padded(pages) \in Block
  BY BlockTypes
<1>2. QED
  BY <1>1 DEF BeginBlock, Contexts

\* mtd_write_data's loop takes as many pages as there are, and as fit.
LEMMA TakenRange ==
  ASSUME NEW c \in Contexts, NEW todo \in Seq(Values),
         Len(c.stored) < PerBlock
  PROVE  /\ Taken(c, todo) \in 0..Len(todo)
         /\ Len(c.stored) + Taken(c, todo) <= PerBlock
         /\ todo # <<>> => Taken(c, todo) > 0
BY DeviceAssumption DEF Taken, Contexts

\* It keeps the context well-formed and ctx->buffer within its size.
LEMMA PutType ==
  ASSUME NEW c \in Contexts, NEW todo \in Seq(Values),
         Len(c.stored) < PerBlock, c.pc = "idle"
  PROVE  /\ Put(c, todo) \in Contexts
         /\ Len(Put(c, todo).stored) <= PerBlock
         /\ Put(c, todo).pc \in {"idle", "block"}
         /\ Put(c, todo).pc = "idle" => Len(Put(c, todo).stored) < PerBlock
         /\ Rest(c, todo) \in Seq(Values)
<1> DEFINE n == Taken(c, todo)
           buffer == c.stored \o SubSeq(todo, 1, n)
<1>1. n \in 0..Len(todo) /\ Len(c.stored) + n <= PerBlock
  BY TakenRange
<1>2. c.stored \in Seq(Values)
  BY DEF Contexts
<1>3. SubSeq(todo, 1, n) \in Seq(Values) /\ Len(SubSeq(todo, 1, n)) = n
  BY <1>1
<1>4. buffer \in Seq(Values) /\ Len(buffer) = Len(c.stored) + n
  BY <1>2, <1>3
<1>5. Rest(c, todo) \in Seq(Values)
  BY <1>1 DEF Rest
<1>a. PerBlock \in Nat \ {0} /\ Len(c.stored) \in Nat
  BY <1>2, DeviceAssumption
<1> HIDE DEF n, buffer
<1>6. CASE c.stored = <<>> /\ n = PerBlock
  <2>1. Put(c, todo) = BeginBlock(c, buffer)
    BY <1>6 DEF Put, n, buffer
  <2>2. /\ BeginBlock(c, buffer) \in Contexts
        /\ BeginBlock(c, buffer).stored = c.stored
        /\ BeginBlock(c, buffer).pc = "block"
    BY <1>4, BeginBlockType
  <2>3. QED
    BY <2>1, <2>2, <1>5, <1>a
<1>7. CASE ~(c.stored = <<>> /\ n = PerBlock) /\ Len(buffer) = PerBlock
  <2>1. [c EXCEPT !.stored = buffer] \in Contexts
    BY <1>4 DEF Contexts
  <2>2. Put(c, todo) = BeginBlock([c EXCEPT !.stored = buffer], buffer)
    <3>1. CASE c.stored = <<>> /\ n = PerBlock
      BY <3>1, <1>7
    <3>2. CASE ~(c.stored = <<>> /\ n = PerBlock)
      BY <3>2, <1>7 DEF Put, n, buffer
    <3>3. QED
      BY <3>1, <3>2
  <2>3. [c EXCEPT !.stored = buffer].stored = buffer
    BY DEF Contexts
  <2> DEFINE d == [c EXCEPT !.stored = buffer]
  <2> HIDE DEF d
  <2>4. /\ BeginBlock(d, buffer) \in Contexts
        /\ BeginBlock(d, buffer).stored = d.stored
        /\ BeginBlock(d, buffer).pc = "block"
    BY <2>1, <1>4, BeginBlockType DEF d
  <2>6. /\ Put(c, todo) \in Contexts
        /\ Put(c, todo).stored = buffer /\ Put(c, todo).pc = "block"
    BY <2>2, <2>3, <2>4 DEF d
  <2>5. QED
    BY <2>6, <1>5, <1>7, <1>a
<1>8. CASE ~(c.stored = <<>> /\ n = PerBlock) /\ Len(buffer) # PerBlock
  <2>1. Put(c, todo) = [c EXCEPT !.stored = buffer]
    BY <1>8 DEF Put, n, buffer
  <2>2. /\ Put(c, todo) \in Contexts
        /\ Put(c, todo).stored = buffer /\ Put(c, todo).pc = "idle"
    BY <2>1, <1>4 DEF Contexts
  <2>3. Len(buffer) <= PerBlock /\ Len(buffer) < PerBlock
    BY <1>1, <1>4, <1>8, <1>a
  <2>4. QED
    BY <2>2, <2>3, <1>5
<1>9. QED
  BY <1>6, <1>7, <1>8

\* So does the padding of mtd_erase_blocks and of mtd_write_close.
LEMMA SyncType ==
  ASSUME NEW c \in Contexts
  PROVE  /\ Sync(c) \in Contexts
         /\ Sync(c).stored = c.stored
         /\ Sync(c).pc = IF c.stored = <<>> THEN "idle" ELSE "block"
<1>1. CASE c.stored = <<>>
  BY <1>1 DEF Sync, Contexts
<1>2. CASE c.stored # <<>>
  BY <1>2, BeginBlockType DEF Sync, Contexts
<1>3. QED
  BY <1>1, <1>2

\* A failed attempt leads to the retry or to giving up.
LEMMA NextTryType ==
  ASSUME NEW c \in Contexts
  PROVE  /\ NextTry(c) \in Contexts
         /\ NextTry(c).pos = c.pos /\ NextTry(c).stored = c.stored
         /\ NextTry(c).data = c.data /\ NextTry(c).seek = c.seek
         /\ NextTry(c).page = c.page /\ NextTry(c).skipped = c.skipped
         /\ NextTry(c).pc \in {"block", "giveup"}
BY DEF NextTry, Contexts

-----------------------------------------------------------------------------
(* write_block                                                             *)

\* write_block works on a block that is not bad, programs only what it has
\* erased, and ctx->buffer is within its size.
WriterOK ==
  /\ DeviceTypeOK
  /\ w.pc \in {"program", "verify", "giveup"} => w.pos \in Blocks \ bad
  /\ w.pc = "program" =>
       \A p \in Pages : p >= w.page => nand[w.pos][p] = "erased"
  /\ Len(w.stored) <= PerBlock
  /\ w.pc = "idle" => Len(w.stored) < PerBlock

\* Pages change in the order erase, program; no bad block changes.
PageStep ==
  \A b \in Blocks : \A p \in Pages :
    nand'[b][p] # nand[b][p] =>
      /\ b \notin bad
      /\ nand[b][p] = "erased" \/ nand'[b][p] \in {"erased", "garbled"}

\* Every step of write_block keeps the invariant and changes pages in order.
LEMMA WriteBlockStep ==
  WriterOK /\ WriteBlock => WriterOK' /\ PageStep
<1> SUFFICES ASSUME WriterOK, WriteBlock
             PROVE  WriterOK' /\ PageStep
  OBVIOUS
<1>a. /\ nand \in [Blocks -> Block] /\ bad \subseteq Blocks /\ w \in Contexts
      /\ lost \subseteq Blocks /\ faults \in 0..MaxFaults
  BY DEF WriterOK, DeviceTypeOK
<1>b. NBlocks \in Nat \ {0} /\ PerBlock \in Nat \ {0} /\ MaxFaults \in Nat
  BY DeviceAssumption
<1>c. Fault => faults' \in 0..MaxFaults
  BY <1>a, <1>b DEF Fault
<1>d. Filled("erased") \in Block
  BY BlockTypes
<1> USE <1>a, <1>b, <1>c DEF WriterOK, DeviceTypeOK, PageStep
<1>e. w.pos \in Blocks => /\ w.pos + 1 \in 0..NBlocks
                           /\ Append(w.skipped, w.pos) \in Seq(Blocks)
  BY <1>a, <1>b DEF Contexts, Blocks
<1>1. CASE SkipBadBlock
  BY <1>1, <1>e DEF SkipBadBlock, AtBlock, Contexts
<1>2. CASE NoSpace
  BY <1>2 DEF NoSpace, Contexts
<1>3. CASE EraseBlock
  <2>1. \A p \in Pages : Filled("erased")[p] = "erased"
    BY DEF Filled
  <2>2. /\ w.pos \in Blocks \ bad
        /\ nand' = [nand EXCEPT ![w.pos] = Filled("erased")]
        /\ w' = [w EXCEPT !.pc = "program", !.page = 1]
        /\ UNCHANGED <<bad, lost, faults>>
    BY <1>3 DEF EraseBlock, AtBlock
  <2>3. 1 \in Pages
    BY DEF Pages
  <2>4. w' \in Contexts
    BY <2>2, <2>3 DEF Contexts
  <2>5. QED
    BY <1>d, <2>1, <2>2, <2>4 DEF Contexts
<1>4. CASE EraseFails
  BY <1>4, NextTryType DEF EraseFails, AtBlock, Contexts
<1>5. CASE ProgramPage
  <2>1. /\ w.pc = "program" /\ w.pos \in Blocks \ bad /\ w.page \in Pages
        /\ w.data \in Block
        /\ nand' = [nand EXCEPT ![w.pos][w.page] = w.data[w.page]]
        /\ w' = IF w.page = PerBlock THEN [w EXCEPT !.pc = "verify"]
                ELSE [w EXCEPT !.page = @ + 1]
        /\ UNCHANGED <<bad, lost, faults>>
    BY <1>5 DEF ProgramPage, Contexts
  <2>2. nand' \in [Blocks -> Block]
    BY <2>1 DEF Block
  <2>3. w' \in Contexts /\ w'.pos = w.pos /\ w'.stored = w.stored
    <3>1. w.page # PerBlock => w.page + 1 \in Pages
      BY <2>1 DEF Pages
    <3>2. QED
      BY <2>1, <3>1 DEF Contexts
  <2>4. /\ w'.pc \in {"program", "verify"}
        /\ w'.pc = "program" => w'.page = w.page + 1
    BY <2>1 DEF Contexts, Pages
  <2>5. \A b \in Blocks, p \in Pages :
          nand'[b][p] = IF b = w.pos /\ p = w.page THEN w.data[p]
                        ELSE nand[b][p]
    BY <2>1 DEF Block
  <2>6. w'.pc = "program" =>
          \A p \in Pages : p >= w'.page => nand'[w'.pos][p] = "erased"
    BY <2>1, <2>3, <2>4, <2>5 DEF Pages
  <2>7. PageStep
    BY <2>1, <2>5 DEF Pages
  <2>8. QED
    BY <2>1, <2>2, <2>3, <2>4, <2>6, <2>7
<1>6. CASE ProgramFails
  <2>1. /\ w.pc = "program" /\ w.pos \in Blocks \ bad /\ w.page \in Pages
        /\ nand' = [nand EXCEPT ![w.pos][w.page] = "garbled"]
        /\ w' = [w EXCEPT !.pc = "verify"]
        /\ Fault /\ UNCHANGED <<bad, lost>>
    BY <1>6 DEF ProgramFails, Contexts
  <2>2. nand' \in [Blocks -> Block]
    BY <2>1 DEF Block
  <2>3. \A b \in Blocks, p \in Pages :
          nand'[b][p] = IF b = w.pos /\ p = w.page THEN "garbled"
                        ELSE nand[b][p]
    BY <2>1 DEF Block
  <2>4. QED
    BY <2>1, <2>2, <2>3 DEF Contexts
<1>7. CASE Verified
  <2>1. w.pc = "verify" /\ UNCHANGED <<nand, bad, lost, faults>>
        /\ w' = [w EXCEPT !.pc = "idle", !.seek = w.pos + 1, !.stored = <<>>]
    BY <1>7 DEF Verified
  <2>4. w.pos + 1 \in 0..NBlocks /\ <<>> \in Seq(Values)
    BY <2>1, <1>e
  <2>2. w' \in Contexts /\ w'.pc = "idle" /\ w'.stored = <<>>
    BY <2>1, <2>4 DEF Contexts
  <2>3. QED
    BY <2>1, <2>2
<1>8. CASE VerifyFails
  <2>1. /\ w.pc = "verify" /\ w.pos \in Blocks \ bad
        /\ UNCHANGED <<nand, bad, lost>>
        /\ Fault \/ UNCHANGED faults
    BY <1>8 DEF VerifyFails
  <2>2. PICK seek \in {w.pos, w.pos + 1} : w' = [NextTry(w) EXCEPT !.seek = seek]
    BY <1>8 DEF VerifyFails
  <2>3. seek \in 0..NBlocks
    BY <2>1, <2>2 DEF Blocks
  <2>4. /\ w' \in Contexts /\ w'.pos = w.pos /\ w'.stored = w.stored
        /\ w'.pc \in {"block", "giveup"}
    BY <2>2, <2>3, NextTryType DEF Contexts
  <2>5. QED
    BY <2>1, <2>4
<1>9. CASE GiveUp
  <2>1. /\ w.pc = "giveup" /\ w.pos \in Blocks \ bad
        /\ nand' \in {nand, [nand EXCEPT ![w.pos] = Filled("erased")]}
        /\ w' = [w EXCEPT !.pc = "block", !.pos = @ + 1, !.try = 0,
                          !.skipped = Append(@, w.pos)]
        /\ lost' = lost \cup {w.pos} /\ UNCHANGED <<bad, faults>>
    BY <1>9 DEF GiveUp
  <2>2. \A p \in Pages : Filled("erased")[p] = "erased"
    BY DEF Filled
  <2>3. w' \in Contexts /\ w'.pc = "block" /\ w'.stored = w.stored
    BY <2>1, <1>e DEF Contexts
  <2>4. nand' \in [Blocks -> Block] /\ PageStep
    BY <1>d, <2>1, <2>2
  <2>5. QED
    BY <2>1, <2>3, <2>4
<1>10. QED
  BY <1>1, <1>2, <1>3, <1>4, <1>5, <1>6, <1>7, <1>8, <1>9 DEF WriteBlock

\* What a step of write_block does to the context: it stays with its block and
\* its data, or has verified the block, or skips it and records it as skipped.
LEMMA WriteBlockContext ==
  ASSUME WriterOK, WriteBlock
  PROVE  /\ w.pc # "idle" /\ bad' = bad /\ w'.data = w.data
         /\ \/ /\ w'.pc # "idle" /\ w'.stored = w.stored
               /\ w'.pos = w.pos /\ w'.skipped = w.skipped /\ lost' = lost
            \/ /\ w'.pc = "idle" /\ w'.stored = <<>> /\ w'.seek = w.pos + 1
               /\ w'.pos = w.pos /\ w'.skipped = w.skipped /\ lost' = lost
               /\ w.pos \in Blocks \ bad /\ nand' = nand /\ nand[w.pos] = w.data
            \/ /\ w'.pc = "block" /\ w'.stored = w.stored
               /\ w'.pos = w.pos + 1 /\ w'.skipped = Append(w.skipped, w.pos)
               /\ w.pos \in Blocks
               /\ \/ w.pos \in bad /\ lost' = lost
                  \/ lost' = lost \cup {w.pos}
<1>a. /\ w \in Contexts
      /\ w.pc \in {"program", "verify", "giveup"} => w.pos \in Blocks \ bad
  BY DEF WriterOK, DeviceTypeOK
<1>1. CASE SkipBadBlock
  BY <1>1, <1>a DEF SkipBadBlock, AtBlock, Contexts
<1>2. CASE NoSpace
  BY <1>2, <1>a DEF NoSpace, Contexts
<1>3. CASE EraseBlock
  BY <1>3, <1>a DEF EraseBlock, AtBlock, Contexts
<1>4. CASE EraseFails
  BY <1>4, <1>a, NextTryType DEF EraseFails, AtBlock
<1>5. CASE ProgramPage
  BY <1>5, <1>a DEF ProgramPage, Contexts
<1>6. CASE ProgramFails
  BY <1>6, <1>a DEF ProgramFails, Contexts
<1>7. CASE Verified
  BY <1>7, <1>a DEF Verified, Contexts
<1>8. CASE VerifyFails
  <2>1. \E seek \in {w.pos, w.pos + 1} : w' = [NextTry(w) EXCEPT !.seek = seek]
    BY <1>8 DEF VerifyFails
  <2>2. /\ w'.pc \in {"block", "giveup"} /\ w'.stored = w.stored
        /\ w'.pos = w.pos /\ w'.skipped = w.skipped /\ w'.data = w.data
    BY <1>a, <2>1, NextTryType DEF Contexts
  <2>3. w.pc = "verify" /\ bad' = bad /\ lost' = lost
    BY <1>8 DEF VerifyFails
  <2>4. QED
    BY <2>2, <2>3
<1>9. CASE GiveUp
  BY <1>9, <1>a DEF GiveUp, Contexts
<1>10. QED
  BY <1>1, <1>2, <1>3, <1>4, <1>5, <1>6, <1>7, <1>8, <1>9 DEF WriteBlock

\* A power loss spoils at most what write_block was erasing or programming.
LEMMA PowerLossPages ==
  ASSUME WriterOK, nand' \in AfterPowerLoss
  PROVE  nand' \in [Blocks -> Block] /\ PageStep
<1>a. nand \in [Blocks -> Block] /\ w \in Contexts
  BY DEF WriterOK, DeviceTypeOK
<1>b. Filled("garbled") \in Block
  BY BlockTypes
<1>1. CASE nand' = nand
  BY <1>1, <1>a DEF PageStep
<1>2. CASE /\ AtBlock /\ w.pos \notin bad
           /\ nand' = [nand EXCEPT ![w.pos] = Filled("garbled")]
  <2>1. \A p \in Pages : Filled("garbled")[p] = "garbled"
    BY DEF Filled
  <2>2. QED
    BY <1>2, <1>a, <1>b, <2>1 DEF PageStep, AtBlock
<1>3. CASE /\ w.pc = "program"
           /\ nand' = [nand EXCEPT ![w.pos][w.page] = "garbled"]
  <2>1. w.pos \in Blocks \ bad /\ w.page \in Pages
    BY <1>3, <1>a DEF WriterOK, Contexts
  <2>2. \A b \in Blocks, p \in Pages :
          nand'[b][p] = IF b = w.pos /\ p = w.page THEN "garbled"
                        ELSE nand[b][p]
    BY <1>3, <1>a, <2>1 DEF Block
  <2>3. nand' \in [Blocks -> Block]
    BY <1>3, <1>a, <2>1 DEF Block
  <2>4. QED
    BY <2>1, <2>2, <2>3 DEF PageStep
<1>4. QED
  BY <1>1, <1>2, <1>3 DEF AfterPowerLoss

-----------------------------------------------------------------------------
(* Blocks by their rank, files by their chunks                             *)

\* Fewer than b numbers come before b.
LEMMA RankType ==
  ASSUME NEW S \in SUBSET Nat, NEW b \in Nat
  PROVE  IsFiniteSet({c \in S : c < b}) /\ Rank(S, b) \in Nat
<1>1. {c \in S : c < b} \in SUBSET Nat
  OBVIOUS
<1>2. \A d \in {c \in S : c < b} : d <= b
  OBVIOUS
<1>4. IsFiniteSet({c \in S : c < b})
  BY <1>1, <1>2, FS_BoundedSetOfNaturals
<1>3. QED
  BY <1>4, FS_CardinalityType DEF Rank

\* No block comes before the first.
LEMMA RankFirst ==
  ASSUME NEW S \in SUBSET Nat
  PROVE  Rank(S, 0) = 0
<1>0. \A c \in S : ~(c < 0)
  OBVIOUS
<1>1. {c \in S : c < 0} = {}
  BY <1>0
<1>2. Cardinality({c \in S : c < 0}) = 0
  BY <1>1, FS_EmptySet, Zenon
<1>3. QED
  BY <1>2 DEF Rank

\* Going one block on, past a block of S or past another one.
LEMMA RankNext ==
  ASSUME NEW S \in SUBSET Nat, NEW b \in Nat
  PROVE  Rank(S, b + 1) = IF b \in S THEN Rank(S, b) + 1 ELSE Rank(S, b)
<1>0. \A c \in S : c \in Nat /\ (c < b + 1 <=> c < b \/ c = b)
  OBVIOUS
<1>1. CASE b \in S
  <2>1. {c \in S : c < b + 1} = {c \in S : c < b} \cup {b}
    BY <1>0, <1>1
  <2>2. b \notin {c \in S : c < b}
    OBVIOUS
  <2>3. IsFiniteSet({c \in S : c < b})
    BY RankType
  <2>4. Cardinality({c \in S : c < b + 1}) = Cardinality({c \in S : c < b}) + 1
    BY <2>1, <2>2, <2>3, FS_AddElement
  <2>5. QED
    BY <1>1, <2>4 DEF Rank
<1>2. CASE b \notin S
  <2>1. {c \in S : c < b + 1} = {c \in S : c < b}
    BY <1>0, <1>2
  <2>2. QED
    BY <1>2, <2>1 DEF Rank
<1>3. QED
  BY <1>1, <1>2

\* Ranks follow the order of the blocks, so that no two blocks share one.
LEMMA RankOrder ==
  ASSUME NEW S \in SUBSET Nat
  PROVE  /\ \A b, c \in S : b < c => Rank(S, b) < Rank(S, c)
         /\ \A b, c \in S : Rank(S, b) = Rank(S, c) => b = c
<1>1. ASSUME NEW b \in S, NEW c \in S, b < c
      PROVE  Rank(S, b) < Rank(S, c)
  <2>0. b \in Nat /\ c \in Nat /\ \A d \in S : d \in Nat
    OBVIOUS
  <2>1. Rank(S, b + 1) = Rank(S, b) + 1
    BY <2>0, RankNext
  <2>2. \A d \in S : d < b + 1 => d < c
    BY <2>0, <1>1
  <2>3. IsFiniteSet({d \in S : d < c})
    BY <2>0, RankType
  <2>4. Rank(S, b + 1) <= Rank(S, c)
    <3>1. {d \in S : d < b + 1} \in SUBSET {d \in S : d < c}
      BY <2>2, Zenon
    <3>2. Cardinality({d \in S : d < b + 1}) <= Cardinality({d \in S : d < c})
      BY <3>1, <2>3, FS_Subset
    <3>3. QED
      BY <3>2 DEF Rank
  <2>5. Rank(S, b) \in Nat /\ Rank(S, c) \in Nat
    BY <2>0, RankType
  <2>6. QED
    BY <2>1, <2>4, <2>5
<1>2. ASSUME NEW b \in S, NEW c \in S, Rank(S, b) = Rank(S, c)
      PROVE  b = c
  <2>1. Rank(S, b) \in Nat /\ Rank(S, c) \in Nat /\ b \in Nat /\ c \in Nat
    BY RankType
  <2>2. ~(b < c) /\ ~(c < b)
    BY <1>1, <1>2, <2>1
  <2>3. QED
    BY <2>1, <2>2
<1>3. QED
  BY <1>1, <1>2

\* What multiplying by the size of a block does to order.
LEMMA BlockMultiples ==
  ASSUME NEW k \in Nat, NEW t \in Nat
  PROVE  /\ k * PerBlock \in Nat /\ k <= k * PerBlock
         /\ (k + 1) * PerBlock = k * PerBlock + PerBlock
         /\ k < t => k * PerBlock + PerBlock <= t * PerBlock
         /\ k * PerBlock < t * PerBlock => k < t
         /\ k * PerBlock < t * PerBlock + PerBlock => k <= t
<1>1. PerBlock \in Nat \ {0}
  BY DeviceAssumption
<1>2. k * PerBlock \in Nat /\ t * PerBlock \in Nat /\ k <= k * PerBlock
  BY <1>1
<1>3. (k + 1) * PerBlock = k * PerBlock + PerBlock
  BY <1>1
<1>4. ASSUME NEW i \in Nat, NEW j \in Nat, i < j
      PROVE  i * PerBlock + PerBlock <= j * PerBlock
  <2>1. (j - i) \in Nat /\ j - i >= 1
    BY <1>4
  <2>2. (j - i) * PerBlock >= PerBlock
    BY <1>1, <2>1
  <2>3. (j - i) * PerBlock = j * PerBlock - i * PerBlock
    BY <1>1, <1>4
  <2>4. i * PerBlock \in Nat /\ j * PerBlock \in Nat
    BY <1>1
  <2>5. QED
    BY <1>1, <2>2, <2>3, <2>4
<1>5. k * PerBlock < t * PerBlock => k < t
  <2>1. CASE t < k
    BY <2>1, <1>1, <1>2, <1>4
  <2>2. CASE t = k
    BY <2>2, <1>2
  <2>3. QED
    BY <2>1, <2>2
<1>6. k * PerBlock < t * PerBlock + PerBlock => k <= t
  <2>1. CASE t < k
    BY <2>1, <1>1, <1>2, <1>4
  <2>2. QED
    BY <2>1
<1>7. QED
  BY <1>2, <1>3, <1>4, <1>5, <1>6

\* Consecutive parts of a file, and parts of its parts.
LEMMA Parts ==
  ASSUME NEW file \in Seq(Values), NEW a \in 0..Len(file), NEW b \in a..Len(file),
         NEW c \in b..Len(file)
  PROVE  /\ SubSeq(file, a + 1, b) \in Seq(Values)
         /\ Len(SubSeq(file, a + 1, b)) = b - a
         /\ SubSeq(file, a + 1, b) \o SubSeq(file, b + 1, c) = SubSeq(file, a + 1, c)
         /\ SubSeq(SubSeq(file, a + 1, c), 1, b - a) = SubSeq(file, a + 1, b)
         /\ SubSeq(SubSeq(file, a + 1, c), b - a + 1, c - a) = SubSeq(file, b + 1, c)
<1>1. /\ Len(file) \in Nat /\ a \in Nat /\ b \in Nat /\ c \in Nat
      /\ a <= b /\ b <= c /\ c <= Len(file)
  OBVIOUS
<1>2. \A i, j \in Nat : i <= j /\ j <= Len(file) =>
        /\ SubSeq(file, i + 1, j) \in Seq(Values)
        /\ Len(SubSeq(file, i + 1, j)) = j - i
        /\ \A p \in 1..(j - i) : SubSeq(file, i + 1, j)[p] = file[i + p]
  OBVIOUS
<1>3. SubSeq(file, a + 1, b) \o SubSeq(file, b + 1, c) = SubSeq(file, a + 1, c)
  BY <1>1, <1>2
<1>4. SubSeq(SubSeq(file, a + 1, c), 1, b - a) = SubSeq(file, a + 1, b)
  BY <1>1, <1>2
<1>5. SubSeq(SubSeq(file, a + 1, c), b - a + 1, c - a) = SubSeq(file, b + 1, c)
  BY <1>1, <1>2
<1>6. QED
  BY <1>1, <1>2, <1>3, <1>4, <1>5

\* The pages of a chunk: those of the file, and zeros after its end.
LEMMA ChunkPages ==
  ASSUME NEW file \in Seq(Values), NEW k \in Chunks(file)
  PROVE  /\ Chunk(file, k) \in [Pages -> Values]
         /\ \A p \in Pages :
              Chunk(file, k)[p] = IF k * PerBlock + p <= Len(file)
                                  THEN file[k * PerBlock + p] ELSE "zero"
<1> DEFINE a == k * PerBlock
           z == IF (k + 1) * PerBlock < Len(file) THEN (k + 1) * PerBlock
                ELSE Len(file)
<1>1. /\ PerBlock \in Nat \ {0} /\ k \in Nat /\ Len(file) \in Nat
      /\ "zero" \in Values
  BY DeviceAssumption DEF Chunks
<1>2. a \in Nat /\ (k + 1) * PerBlock = a + PerBlock
  BY <1>1
<1>3. a < Len(file)
  BY DEF Chunks
<1>4. Chunk(file, k) = Padded(SubSeq(file, a + 1, z))
  BY DEF Chunk
<1> HIDE DEF a
<1>5. z \in Nat /\ z > a /\ z <= Len(file) /\ z <= a + PerBlock
      /\ (z = Len(file) \/ z = a + PerBlock)
  BY <1>1, <1>2, <1>3
<1> HIDE DEF z
<1>6. /\ SubSeq(file, a + 1, z) \in Seq(Values)
      /\ Len(SubSeq(file, a + 1, z)) = z - a
      /\ \A p \in 1..(z - a) : SubSeq(file, a + 1, z)[p] = file[a + p]
  BY <1>1, <1>2, <1>5
<1>7. Chunk(file, k) =
        [p \in Pages |-> IF a + p <= Len(file) THEN file[a + p] ELSE "zero"]
  BY <1>1, <1>2, <1>4, <1>5, <1>6 DEF Padded, Pages
<1>8. \A p \in Pages : a + p <= Len(file) => file[a + p] \in Values
  BY <1>1, <1>2 DEF Pages
<1>9. QED
  BY <1>1, <1>7, <1>8 DEF a

Good == Blocks \ bad

\* Chunk k of the file is where a reader expects it on the flash nd, when "from"
\* good blocks come before the file.
Placed(nd, good, from, file, k) ==
  \E b \in good : Rank(good, b) = from + k /\ nd[b] = Chunk(file, k)

\* A file whose chunks are all placed reads back, if no bad block garbles it.
LEMMA PlacedReadsBack ==
  ASSUME NEW file \in Seq(Values), DeviceTypeOK,
         \A k \in Chunks(file) : Placed(nand, Good, 0, file, k),
         \A b \in bad : ~Unreadable(b)
  PROVE  ReadsAs(file)
<1> DEFINE visible == {k \in Chunks(file) : Chunk(file, k) # Filled("zero")}
<1>1. /\ Good \in SUBSET Nat /\ Readable \in SUBSET Nat
      /\ visible \in SUBSET Nat /\ Blocks \in SUBSET Nat
      /\ Readable \subseteq Good
  BY DeviceAssumption DEF Good, Readable, Blocks, Chunks
<1>2. \A k \in Chunks(file), j \in Nat : j < k => j \in Chunks(file)
  <2>1. SUFFICES ASSUME NEW k \in Chunks(file), NEW j \in Nat, j < k
                 PROVE  j \in Chunks(file)
    OBVIOUS
  <2>2. /\ PerBlock \in Nat \ {0} /\ k \in 0..Len(file) /\ Len(file) \in Nat
        /\ k * PerBlock < Len(file)
    BY DeviceAssumption DEF Chunks
  <2>3. j * PerBlock <= k * PerBlock /\ j * PerBlock \in Nat
    BY <2>1, <2>2
  <2>4. j * PerBlock < Len(file) /\ j \in 0..Len(file)
    BY <2>1, <2>2, <2>3
  <2>5. QED
    BY <2>4 DEF Chunks
\* A good block whose rank is that of a chunk holds it, and can be read.
<1>3. \A b \in Good : Rank(Good, b) \in Chunks(file) =>
        nand[b] = Chunk(file, Rank(Good, b))
  <2>1. \A k \in Chunks(file) :
          \E b \in Good : Rank(Good, b) = k /\ nand[b] = Chunk(file, k)
    BY DEF Placed, Chunks
  <2>2. QED
    BY <1>1, <2>1, RankOrder
<1>4. \A b \in Good : Rank(Good, b) \in Chunks(file) => ~Unreadable(b)
  <2>1. SUFFICES ASSUME NEW b \in Good, Rank(Good, b) \in Chunks(file)
                 PROVE  \A p \in Pages : nand[b][p] # "garbled"
    BY DEF Unreadable
  <2>2. nand[b] \in [Pages -> Values]
    BY <1>3, <2>1, ChunkPages
  <2>3. QED
    BY <2>2, DeviceAssumption
<1>5. \A b \in Good : Rank(Good, b) \in Chunks(file) =>
        \A c \in 0..b : ~Unreadable(c)
  <2>1. SUFFICES ASSUME NEW b \in Good, Rank(Good, b) \in Chunks(file),
                        NEW c \in 0..b
                 PROVE  ~Unreadable(c)
    OBVIOUS
  <2>2. b \in Nat /\ c \in Nat /\ c <= b /\ c \in Blocks
    BY <1>1, DeviceAssumption DEF Good, Blocks
  <2>3. CASE c \in bad
    BY <2>3
  <2>4. CASE c \in Good
    <3>1. Rank(Good, c) \in Nat /\ Rank(Good, b) \in Nat
      BY <1>1, <2>2, RankType
    <3>2. c = b \/ Rank(Good, c) < Rank(Good, b)
      BY <1>1, <2>2, <2>4, RankOrder
    <3>3. Rank(Good, c) \in Chunks(file)
      BY <1>2, <2>1, <3>1, <3>2
    <3>4. QED
      BY <1>4, <2>4, <3>3
  <2>5. QED
    BY <2>2, <2>3, <2>4 DEF Good
<1>6. \A b \in Good : Rank(Good, b) \in Chunks(file) =>
        (b \in Readable <=> Rank(Good, b) \in visible)
  BY <1>3, <1>5 DEF Readable, Good
<1>7. SUFFICES ASSUME NEW k \in visible
               PROVE  \E b \in Readable : /\ Rank(Readable, b) = Rank(visible, k)
                                          /\ nand[b] = Chunk(file, k)
  BY DEF ReadsAs
<1>8. PICK b \in Good : Rank(Good, b) = k /\ nand[b] = Chunk(file, k)
  BY DEF Placed, Chunks
<1>9. b \in Readable /\ k \in Chunks(file) /\ k \in Nat /\ b \in Nat
  BY <1>1, <1>6, <1>8
<1> DEFINE X == {c \in Readable : c < b}
           Y == {j \in visible : j < k}
           g == [c \in X |-> Rank(Good, c)]
<1>10. \A c \in X : /\ c \in Good /\ c \in Nat /\ Rank(Good, c) \in Nat
                     /\ Rank(Good, c) < k
                     /\ Rank(Good, c) \in Chunks(file)
  <2>1. SUFFICES ASSUME NEW c \in X
                 PROVE  /\ c \in Good /\ c \in Nat /\ Rank(Good, c) \in Nat
                        /\ Rank(Good, c) < k
                        /\ Rank(Good, c) \in Chunks(file)
    OBVIOUS
  <2>2. c \in Good /\ c \in Nat /\ c < b
    BY <1>1
  <2>3. Rank(Good, c) \in Nat
    BY <1>1, <2>2, RankType
  <2>4. Rank(Good, c) < k
    BY <1>1, <1>8, <2>2, RankOrder
  <2>5. QED
    BY <1>2, <1>9, <2>2, <2>3, <2>4
<1>11. g \in [X -> Y]
  BY <1>6, <1>10
<1>12. \A c, d \in X : g[c] = g[d] => c = d
  BY <1>1, <1>10, RankOrder
<1>13. \A j \in Y : \E c \in X : g[c] = j
  <2>1. SUFFICES ASSUME NEW j \in Y PROVE \E c \in X : g[c] = j
    OBVIOUS
  <2>2. j \in Chunks(file) /\ j \in visible /\ j < k /\ j \in Nat
    BY <1>1
  <2>3. PICK c \in Good : Rank(Good, c) = j
    BY <2>2 DEF Placed, Chunks
  <2>4. c \in Readable /\ c \in Nat
    BY <1>1, <1>6, <2>2, <2>3
  <2>5. c < b
    <3>1. b # c
      BY <1>8, <1>9, <2>2, <2>3
    <3>2. b < c => k < j
      BY <1>1, <1>8, <2>3, RankOrder
    <3>3. QED
      BY <3>1, <3>2, <2>2, <2>4, <1>9
  <2>6. QED
    BY <2>3, <2>4, <2>5
<1>14. g \in Bijection(X, Y)
  <2> HIDE DEF X, Y, g
  <2>1. DOMAIN g = X
    BY <1>11
  <2>2. g \in Injection(X, Y)
    BY <1>11, <1>12, <2>1 DEF Injection, IsInjective
  <2>3. g \in Surjection(X, Y)
    BY <1>11, <1>13 DEF Surjection
  <2>4. QED
    BY <2>2, <2>3 DEF Bijection
<1>15. IsFiniteSet(X) /\ Cardinality(Y) = Cardinality(X)
  <2>1. IsFiniteSet(X)
    BY <1>1, <1>9, RankType
  <2>2. ExistsBijection(X, Y)
    BY <1>14 DEF ExistsBijection
  <2>3. QED
    BY <2>1, <2>2, FS_Bijection
<1>16. Rank(Readable, b) = Rank(visible, k)
  BY <1>15 DEF Rank
<1>17. QED
  BY <1>8, <1>9, <1>16

-----------------------------------------------------------------------------
(* A file on its way to the flash                                          *)

\* A chunk begins inside the file.
LEMMA ChunkOrder ==
  ASSUME NEW file \in Seq(Values), NEW k \in Chunks(file), NEW t \in Nat
  PROVE  /\ k \in Nat
         /\ Len(file) <= t * PerBlock => k < t
         /\ Len(file) < t * PerBlock + PerBlock => k <= t
<1>1. k \in Nat /\ k * PerBlock < Len(file) /\ Len(file) \in Nat
  BY DEF Chunks
<1>2. /\ k * PerBlock \in Nat /\ t * PerBlock \in Nat
      /\ k * PerBlock < t * PerBlock => k < t
      /\ k * PerBlock < t * PerBlock + PerBlock => k <= t
  BY <1>1, BlockMultiples
<1> DEFINE a == k * PerBlock
           b == t * PerBlock
<1>3. PerBlock \in Nat /\ a \in Nat /\ b \in Nat
  BY <1>2, DeviceAssumption
<1>4. a < Len(file) /\ (a < b => k < t) /\ (a < b + PerBlock => k <= t)
  BY <1>1, <1>2
<1> HIDE DEF a, b
<1>5. /\ Len(file) <= b => k < t
      /\ Len(file) < b + PerBlock => k <= t
  BY <1>1, <1>3, <1>4
<1>6. QED
  BY <1>1, <1>5 DEF b

\* The block that is next to be written, or being written, and how many good
\* blocks come before it.
Here(c) == IF c.pc = "idle" THEN c.seek ELSE c.pos
Turn(c, good) == Rank(good, Here(c))

\* A file is being fed to mtd_write_data: what came before is placed, the block
\* at hand holds the next chunk, ctx->buffer a part of one, todo the rest.
Feeding(nd, good, c, from, file, todo) ==
  LET t == Turn(c, good) - from
      a == t * PerBlock
  IN  /\ t \in Nat
      /\ \A k \in Chunks(file) : k < t => Placed(nd, good, from, file, k)
      /\ c.pc = "idle" =>
           /\ a + Len(c.stored) <= Len(file)
           /\ c.stored = SubSeq(file, a + 1, a + Len(c.stored))
           /\ todo = SubSeq(file, a + Len(c.stored) + 1, Len(file))
      /\ c.pc # "idle" =>
           /\ a + PerBlock <= Len(file)
           /\ c.data = Chunk(file, t)
           /\ todo = SubSeq(file, a + PerBlock + 1, Len(file))

\* The last block of the file is padded and written, if there is a part of one.
Closing(nd, good, c, from, file) ==
  LET t == Turn(c, good) - from
  IN  /\ t \in Nat
      /\ \A k \in Chunks(file) : k < t => Placed(nd, good, from, file, k)
      /\ c.pc = "idle" => \A k \in Chunks(file) : k < t
      /\ c.pc # "idle" => /\ t \in Chunks(file) /\ c.data = Chunk(file, t)
                          /\ \A k \in Chunks(file) : k <= t

\* mtd_write_data takes the next pages of the file.
LEMMA PutFeeds ==
  ASSUME NEW nd, NEW good \in SUBSET Nat, NEW c \in Contexts, NEW from \in Nat,
         NEW file \in Seq(Values), NEW todo \in Seq(Values),
         c.pc = "idle", Len(c.stored) < PerBlock,
         Feeding(nd, good, c, from, file, todo)
  PROVE  Feeding(nd, good, Put(c, todo), from, file, Rest(c, todo))
<1> DEFINE t == Turn(c, good) - from
           a == t * PerBlock
           s == Len(c.stored)
           n == Taken(c, todo)
           buffer == c.stored \o SubSeq(todo, 1, n)
           d == Put(c, todo)
<1>0. /\ PerBlock \in Nat \ {0} /\ Len(file) \in Nat /\ s \in Nat
      /\ c.stored \in Seq(Values)
  BY DeviceAssumption DEF Contexts
<1>1. /\ t \in Nat
      /\ a + s <= Len(file)
      /\ c.stored = SubSeq(file, a + 1, a + s)
      /\ todo = SubSeq(file, a + s + 1, Len(file))
      /\ \A k \in Chunks(file) : k < t => Placed(nd, good, from, file, k)
  BY DEF Feeding
<1>2. a \in Nat /\ (t + 1) * PerBlock = a + PerBlock
  BY <1>1, BlockMultiples
<1>3. n \in 0..Len(todo) /\ s + n <= PerBlock
  BY TakenRange
<1> HIDE DEF t, a, s, n
<1>4. Len(todo) = Len(file) - (a + s)
  BY <1>0, <1>1, <1>2
<1>5. n \in Nat /\ a + s \in 0..Len(file) /\ a + s + n \in (a + s)..Len(file)
      /\ a \in 0..Len(file)
  BY <1>0, <1>1, <1>2, <1>3, <1>4
<1>6. SubSeq(todo, 1, n) = SubSeq(file, a + s + 1, a + s + n)
  <2>1. SubSeq(SubSeq(file, a + s + 1, Len(file)), 1, a + s + n - (a + s))
          = SubSeq(file, a + s + 1, a + s + n)
    BY <1>0, <1>5, Parts
  <2>2. a + s + n - (a + s) = n
    BY <1>0, <1>2, <1>5
  <2>3. QED
    BY <1>1, <2>1, <2>2
<1>7. Rest(c, todo) = SubSeq(file, a + s + n + 1, Len(file))
  <2>1. SubSeq(SubSeq(file, a + s + 1, Len(file)), a + s + n - (a + s) + 1,
               Len(file) - (a + s))
          = SubSeq(file, a + s + n + 1, Len(file))
    BY <1>0, <1>5, Parts
  <2>2. a + s + n - (a + s) = n
    BY <1>0, <1>2, <1>5
  <2>3. QED
    BY <1>1, <1>4, <2>1, <2>2 DEF Rest, n
<1>8. buffer = SubSeq(file, a + 1, a + s + n) /\ Len(buffer) = s + n
  <2>1. SubSeq(file, a + 1, a + s) \o SubSeq(file, a + s + 1, a + s + n)
          = SubSeq(file, a + 1, a + s + n)
    BY <1>0, <1>2, <1>5, Parts
  <2>2. Len(SubSeq(file, a + 1, a + s + n)) = a + s + n - a
    <3>1. a + s + n \in a..Len(file)
      BY <1>0, <1>2, <1>5
    <3>2. QED
      BY <3>1, <1>0, <1>5, Parts
  <2>3. a + s + n - a = s + n
    BY <1>0, <1>2, <1>5
  <2>4. QED
    BY <1>1, <1>6, <2>1, <2>2, <2>3, Zenon
<1>9. CASE s + n = PerBlock
  <2>1. Chunk(file, t) = Padded(buffer)
    <3>1. (IF (t + 1) * PerBlock < Len(file) THEN (t + 1) * PerBlock
           ELSE Len(file)) = a + s + n
      BY <1>0, <1>2, <1>5, <1>9
    <3>2. QED
      BY <1>8, <3>1 DEF Chunk, a
  <2>2. /\ d.pc = "block" /\ d.pos = c.seek /\ d.data = Padded(buffer)
    <3>1. CASE c.stored = <<>> /\ n = PerBlock
      <4>1. d = BeginBlock(c, buffer)
        BY <3>1 DEF Put, n
      <4>2. QED
        BY <4>1 DEF BeginBlock, Contexts
    <3>2. CASE ~(c.stored = <<>> /\ n = PerBlock)
      <4>1. Len(buffer) = PerBlock
        BY <1>8, <1>9
      <4>2. d = BeginBlock([c EXCEPT !.stored = buffer], buffer)
        BY <3>2, <4>1 DEF Put, n
      <4>3. QED
        BY <4>2 DEF BeginBlock, Contexts
    <3>3. QED
      BY <3>1, <3>2
  <2>3. Turn(d, good) - from = t
    BY <2>2 DEF Turn, Here, t
  <2>4. a + PerBlock <= Len(file) /\ a + s + n = a + PerBlock
    BY <1>0, <1>2, <1>5, <1>9
  <2> HIDE DEF d
  <2>5. QED
    BY <1>1, <1>7, <2>1, <2>2, <2>3, <2>4 DEF Feeding, a, d
<1>10. CASE s + n # PerBlock
  <2>1. d = [c EXCEPT !.stored = buffer]
    <3>1. ~(c.stored = <<>> /\ n = PerBlock)
      <4>1. c.stored = <<>> => s = 0
        BY DEF s
      <4>2. QED
        BY <1>10, <1>0, <4>1
    <3>2. Len(buffer) # PerBlock
      BY <1>8, <1>10
    <3>3. QED
      BY <3>1, <3>2 DEF Put, n
  <2>2. d.pc = "idle" /\ d.seek = c.seek /\ d.stored = buffer
    BY <2>1 DEF Contexts
  <2>3. Turn(d, good) - from = t
    BY <2>2 DEF Turn, Here, t
  <2>7. a + (s + n) = a + s + n
    BY <1>0, <1>2, <1>5
  <2>4. Len(d.stored) = s + n /\ a + (s + n) = a + s + n
    BY <1>8, <2>2, <2>7, Zenon
  <2> HIDE DEF d
  <2>5. a + Len(d.stored) <= Len(file)
    BY <1>5, <2>4
  <2>6. QED
    BY <1>1, <1>7, <1>8, <2>2, <2>3, <2>4, <2>5 DEF Feeding, a, d
<1>11. QED
  BY <1>9, <1>10

\* mtd_write_close pads what is left when all has been taken.
LEMMA SyncCloses ==
  ASSUME NEW nd, NEW good \in SUBSET Nat, NEW c \in Contexts, NEW from \in Nat,
         NEW file \in Seq(Values), c.pc = "idle", Len(c.stored) < PerBlock,
         Feeding(nd, good, c, from, file, <<>>)
  PROVE  Closing(nd, good, Sync(c), from, file)
<1> DEFINE t == Turn(c, good) - from
           a == t * PerBlock
           s == Len(c.stored)
           d == Sync(c)
<1>0. /\ PerBlock \in Nat \ {0} /\ Len(file) \in Nat /\ s \in Nat
      /\ c.stored \in Seq(Values) /\ s < PerBlock
  BY DeviceAssumption DEF Contexts
<1>1. /\ t \in Nat
      /\ a + s <= Len(file)
      /\ c.stored = SubSeq(file, a + 1, a + s)
      /\ <<>> = SubSeq(file, a + s + 1, Len(file))
      /\ \A k \in Chunks(file) : k < t => Placed(nd, good, from, file, k)
  BY DEF Feeding
<1>2. a \in Nat /\ (t + 1) * PerBlock = a + PerBlock /\ t <= a
  BY <1>1, BlockMultiples
<1> HIDE DEF t, a, s
<1>4. \A k \in Chunks(file) : /\ Len(file) <= a => k < t
                              /\ Len(file) < a + PerBlock => k <= t
  BY <1>1, ChunkOrder DEF a
<1>5. a + s = Len(file)
  <2>1. a + s \in 0..Len(file)
    BY <1>0, <1>1, <1>2
  <2>2. Len(SubSeq(file, a + s + 1, Len(file))) = Len(file) - (a + s)
    BY <1>0, <2>1, Parts
  <2>3. Len(<<>>) = 0
    OBVIOUS
  <2>4. Len(file) - (a + s) = 0
    BY <1>1, <2>2, <2>3, Zenon
  <2>5. a + s \in Nat
    BY <2>1, <1>0
  <2>6. QED
    BY <1>0, <2>4, <2>5
<1>6. CASE c.stored = <<>>
  <2>1. s = 0
    BY <1>6 DEF s
  <2>2. d.pc = "idle" /\ d.seek = c.seek
    BY <1>6 DEF Sync, Contexts
  <2>3. Turn(d, good) - from = t
    BY <2>2 DEF Turn, Here, t
  <2>4. \A k \in Chunks(file) : k < t
    <3>1. Len(file) = a
      BY <1>0, <1>2, <1>5, <2>1
    <3>2. Len(file) <= a
      BY <1>0, <1>2, <3>1
    <3>3. QED
      BY <1>4, <3>2
  <2> HIDE DEF d
  <2>5. QED
    BY <1>1, <2>2, <2>3, <2>4 DEF Closing, d
<1>7. CASE c.stored # <<>>
  <2>1. s > 0
    BY <1>0, <1>7 DEF s
  <2>2. d.pc = "block" /\ d.pos = c.seek /\ d.data = Padded(c.stored)
    BY <1>7 DEF Sync, BeginBlock, Contexts
  <2>3. Turn(d, good) - from = t
    BY <2>2 DEF Turn, Here, t
  <2>4. \A k \in Chunks(file) : k <= t
    <3>1. Len(file) < a + PerBlock
      BY <1>0, <1>2, <1>5
    <3>2. QED
      BY <1>4, <3>1
  <2>5. a < Len(file) /\ t \in 0..Len(file)
    BY <1>0, <1>1, <1>2, <1>5, <2>1
  <2>6. t \in Chunks(file)
    BY <2>5 DEF Chunks, a
  <2>7. Chunk(file, t) = Padded(c.stored)
    <3>1. (IF (t + 1) * PerBlock < Len(file) THEN (t + 1) * PerBlock
           ELSE Len(file)) = a + s
      BY <1>0, <1>2, <1>5
    <3>2. QED
      BY <1>1, <3>1 DEF Chunk, a
  <2> HIDE DEF d
  <2>8. QED
    BY <1>1, <2>2, <2>3, <2>4, <2>6, <2>7 DEF Closing, d
<1>8. QED
  BY <1>6, <1>7

\* The blocks that are neither bad nor given up.
Sound == Blocks \ (bad \cup lost)

\* write_block stays with its block, or comes to the next sound one when the
\* block has been verified or given up; no other sound block changes, and those
\* before the one at hand keep their ranks.
LEMMA SoundTurn ==
  ASSUME WriterOK, WriteBlock, w.pos \notin lost
  PROVE  /\ w.pc # "idle" /\ Turn(w, Sound) \in Nat /\ Sound' \subseteq Sound
         /\ \/ /\ w'.pc # "idle" /\ w'.data = w.data
               /\ Turn(w', Sound') = Turn(w, Sound)
            \/ /\ w'.pc = "idle" /\ w'.stored = <<>> /\ w'.seek = w.pos + 1
               /\ Sound' = Sound
               /\ Turn(w', Sound') = Turn(w, Sound) + 1
               /\ w.pos \in Sound /\ Rank(Sound, w.pos) = Turn(w, Sound)
               /\ nand'[w.pos] = w.data
         /\ \A b \in Sound : Rank(Sound, b) # Turn(w, Sound) =>
              nand'[b] = nand[b]
         /\ \A b \in Nat : b <= w.pos => Rank(Sound', b) = Rank(Sound, b)
         /\ \A b \in Sound : Rank(Sound, b) < Turn(w, Sound) =>
              b \in Sound' /\ Rank(Sound', b) = Rank(Sound, b)
<1>a. /\ nand \in [Blocks -> Block] /\ bad \subseteq Blocks /\ w \in Contexts
      /\ lost \subseteq Blocks
      /\ NBlocks \in Nat \ {0} /\ PerBlock \in Nat \ {0}
      /\ w.pc \in {"program", "verify", "giveup"} => w.pos \in Blocks \ bad
  BY DeviceAssumption DEF WriterOK, DeviceTypeOK
<1>b. Sound \in SUBSET Nat /\ w.pos \in Nat
  BY <1>a DEF Sound, Blocks, Contexts
<1>c. w.pc # "idle" => Turn(w, Sound) = Rank(Sound, w.pos) /\ Turn(w, Sound) \in Nat
  BY <1>b, RankType DEF Turn, Here
<1>f. w.pc # "idle"
  BY DEF WriteBlock, SkipBadBlock, NoSpace, EraseBlock, EraseFails,
         ProgramPage, ProgramFails, Verified, VerifyFails, GiveUp, AtBlock
\* Only giving up makes a block unsound.
<1>e. ~GiveUp => Sound' = Sound
  <2>1. ~GiveUp => UNCHANGED <<bad, lost>>
    BY DEF WriteBlock, SkipBadBlock, NoSpace, EraseBlock, EraseFails,
           ProgramPage, ProgramFails, Verified, VerifyFails
  <2>2. QED
    BY <2>1 DEF Sound
<1>1. ASSUME ~GiveUp
      PROVE  /\ \/ /\ w'.pc # "idle" /\ w'.data = w.data
                  /\ Turn(w', Sound) = Turn(w, Sound)
               \/ /\ w'.pc = "idle" /\ w'.stored = <<>> /\ w'.seek = w.pos + 1
                  /\ Turn(w', Sound) = Turn(w, Sound) + 1
                  /\ w.pos \in Sound /\ Rank(Sound, w.pos) = Turn(w, Sound)
                  /\ nand'[w.pos] = w.data
             /\ \A b \in Sound : Rank(Sound, b) # Turn(w, Sound) =>
                  nand'[b] = nand[b]
  \* The turn is that of w.pos, as long as write_block is at work.
  <2>g. w'.pc # "idle" /\ w'.pos = w.pos => Turn(w', Sound) = Turn(w, Sound)
    BY <1>c, <1>f DEF Turn, Here
  <2>1. CASE SkipBadBlock
    <3>1. /\ w.pos \in bad /\ nand' = nand
          /\ w' = [w EXCEPT !.pos = @ + 1, !.skipped = Append(@, w.pos)]
          /\ w.pc = "block"
      BY <2>1 DEF SkipBadBlock, AtBlock
    <3>2. w'.pc = "block" /\ w'.pos = w.pos + 1 /\ w'.data = w.data
      BY <3>1, <1>a DEF Contexts
    <3>3. Rank(Sound, w.pos + 1) = Rank(Sound, w.pos)
      BY <1>b, <3>1, RankNext DEF Sound
    <3>4. Turn(w', Sound) = Turn(w, Sound)
      BY <1>c, <3>1, <3>2, <3>3 DEF Turn, Here
    <3>5. QED
      BY <1>c, <1>f, <3>1, <3>2, <3>4
  <2>2. CASE NoSpace
    <3>1. w'.pc = "full" /\ w'.pos = w.pos /\ w'.data = w.data /\ nand' = nand
      BY <2>2, <1>a DEF NoSpace, Contexts
    <3>2. QED
      BY <1>c, <1>f, <2>g, <3>1
  <2>3. CASE EraseBlock
    <3>1. /\ w.pos \in Blocks
          /\ nand' = [nand EXCEPT ![w.pos] = Filled("erased")]
          /\ w'.pc = "program" /\ w'.pos = w.pos /\ w'.data = w.data
      BY <2>3, <1>a DEF EraseBlock, AtBlock, Contexts
    <3>2. \A b \in Sound : b # w.pos => nand'[b] = nand[b]
      BY <1>a, <3>1 DEF Sound
    <3>3. QED
      BY <1>c, <1>f, <2>g, <3>1, <3>2
  <2>4. CASE EraseFails
    <3>1. nand' = nand /\ w' = NextTry(w)
      BY <2>4 DEF EraseFails
    <3>2. w'.pc # "idle" /\ w'.pos = w.pos /\ w'.data = w.data
      BY <1>a, <3>1, NextTryType
    <3>3. QED
      BY <1>c, <1>f, <2>g, <3>1, <3>2
  <2>5. CASE ProgramPage
    <3>1. /\ w.pos \in Blocks
          /\ nand' = [nand EXCEPT ![w.pos][w.page] = w.data[w.page]]
          /\ w' = IF w.page = PerBlock THEN [w EXCEPT !.pc = "verify"]
                  ELSE [w EXCEPT !.page = @ + 1]
          /\ w.pc = "program"
      BY <2>5, <1>a DEF ProgramPage
    <3>2. w'.pc # "idle" /\ w'.pos = w.pos /\ w'.data = w.data
      BY <1>a, <3>1 DEF Contexts
    <3>3. \A b \in Sound : b # w.pos => nand'[b] = nand[b]
      BY <1>a, <3>1 DEF Sound
    <3>4. QED
      BY <1>c, <1>f, <2>g, <3>2, <3>3
  <2>6. CASE ProgramFails
    <3>1. /\ w.pos \in Blocks
          /\ nand' = [nand EXCEPT ![w.pos][w.page] = "garbled"]
          /\ w' = [w EXCEPT !.pc = "verify"]
      BY <2>6, <1>a DEF ProgramFails
    <3>2. w'.pc # "idle" /\ w'.pos = w.pos /\ w'.data = w.data
      BY <1>a, <3>1 DEF Contexts
    <3>3. \A b \in Sound : b # w.pos => nand'[b] = nand[b]
      BY <1>a, <3>1 DEF Sound
    <3>4. QED
      BY <1>c, <1>f, <2>g, <3>2, <3>3
  <2>7. CASE Verified
    <3>1. /\ w.pc = "verify" /\ nand[w.pos] = w.data /\ nand' = nand
          /\ w' = [w EXCEPT !.pc = "idle", !.seek = w.pos + 1, !.stored = <<>>]
      BY <2>7 DEF Verified
    <3>2. w'.pc = "idle" /\ w'.seek = w.pos + 1 /\ w'.stored = <<>>
      BY <1>a, <3>1 DEF Contexts
    <3>3. w.pos \in Sound
      BY <1>a, <3>1 DEF Sound
    <3>4. Rank(Sound, w.pos + 1) = Rank(Sound, w.pos) + 1
      BY <1>b, <3>3, RankNext
    <3>5. Turn(w', Sound) = Turn(w, Sound) + 1
      BY <1>c, <1>f, <3>2, <3>4 DEF Turn, Here
    <3>6. QED
      BY <1>c, <1>f, <3>1, <3>2, <3>3, <3>5
  <2>8. CASE VerifyFails
    <3>1. nand' = nand /\ \E seek \in {w.pos, w.pos + 1} :
                             w' = [NextTry(w) EXCEPT !.seek = seek]
      BY <2>8 DEF VerifyFails
    <3>2. w'.pc # "idle" /\ w'.pos = w.pos /\ w'.data = w.data
      BY <1>a, <3>1, NextTryType DEF Contexts
    <3>3. QED
      BY <1>c, <1>f, <2>g, <3>1, <3>2
  <2>9. QED
    BY <1>1, <2>1, <2>2, <2>3, <2>4, <2>5, <2>6, <2>7, <2>8 DEF WriteBlock
<1>2. CASE ~GiveUp
  <2>1. Sound' = Sound
    BY <1>2, <1>e
  <2>2. QED
    BY <1>1, <1>2, <1>c, <1>f, <2>1, Zenon
<1>3. CASE GiveUp
  <2>1. /\ w.pc = "giveup" /\ bad' = bad /\ lost' = lost \cup {w.pos}
        /\ nand' \in {nand, [nand EXCEPT ![w.pos] = Filled("erased")]}
        /\ w' = [w EXCEPT !.pc = "block", !.pos = @ + 1, !.try = 0,
                          !.skipped = Append(@, w.pos)]
    BY <1>3 DEF GiveUp
  <2>2. w'.pc = "block" /\ w'.pos = w.pos + 1 /\ w'.data = w.data
    BY <1>a, <2>1 DEF Contexts
  <2>3. w.pos \in Sound /\ Sound' = Sound \ {w.pos}
    BY <1>a, <2>1 DEF Sound
  <2>4. \A b \in Sound : b # w.pos => nand'[b] = nand[b]
    BY <1>a, <2>1 DEF Sound
  <2>5. \A b \in Nat : b <= w.pos => Rank(Sound', b) = Rank(Sound, b)
    <3>1. SUFFICES ASSUME NEW b \in Nat, b <= w.pos
                   PROVE  Rank(Sound', b) = Rank(Sound, b)
      OBVIOUS
    <3>2. {c \in Sound' : c < b} = {c \in Sound : c < b}
      BY <1>b, <2>3, <3>1
    <3>3. QED
      BY <3>2 DEF Rank
  <2>6. Turn(w', Sound') = Turn(w, Sound)
    <3>1. Sound' \in SUBSET Nat /\ w.pos \notin Sound'
      BY <1>b, <2>3
    <3>2. Rank(Sound', w.pos + 1) = Rank(Sound', w.pos)
      BY <1>b, <3>1, RankNext
    <3>3. Rank(Sound', w.pos) = Rank(Sound, w.pos)
      BY <1>b, <2>5
    <3>4. QED
      BY <1>c, <1>f, <2>2, <3>2, <3>3 DEF Turn, Here
  <2>7. \A b \in Sound : Rank(Sound, b) < Turn(w, Sound) =>
          b \in Sound' /\ Rank(Sound', b) = Rank(Sound, b)
    <3>1. SUFFICES ASSUME NEW b \in Sound, Rank(Sound, b) < Turn(w, Sound)
                   PROVE  b \in Sound' /\ Rank(Sound', b) = Rank(Sound, b)
      OBVIOUS
    <3>2. w.pos < b => Rank(Sound, w.pos) < Rank(Sound, b)
      BY <1>b, <2>3, RankOrder
    <3>3. b \in Nat /\ Rank(Sound, b) \in Nat
      BY <1>b, RankType
    <3>4. b # w.pos /\ ~(w.pos < b)
      BY <1>c, <1>f, <3>1, <3>2, <3>3
    <3>5. b <= w.pos
      BY <1>b, <3>3, <3>4
    <3>6. QED
      BY <2>3, <2>5, <3>3, <3>4, <3>5
  <2>8. QED
    BY <1>c, <1>f, <2>2, <2>3, <2>4, <2>5, <2>6, <2>7
<1>4. QED
  BY <1>2, <1>3

\* What is placed before the block at hand stays placed.
LEMMA SoundPlaced ==
  ASSUME WriterOK, WriteBlock, w.pos \notin lost,
         NEW from \in Nat, NEW file, NEW k \in Nat,
         from + k < Turn(w, Sound), Placed(nand, Sound, from, file, k)
  PROVE  Placed(nand', Sound', from, file, k)
<1>1. PICK b \in Sound : Rank(Sound, b) = from + k /\ nand[b] = Chunk(file, k)
  BY DEF Placed
<1>2. Turn(w, Sound) \in Nat /\ from + k \in Nat /\ from + k # Turn(w, Sound)
  BY SoundTurn
<1>3. nand'[b] = nand[b] /\ b \in Sound' /\ Rank(Sound', b) = Rank(Sound, b)
  BY <1>1, <1>2, SoundTurn
<1>4. QED
  BY <1>1, <1>3 DEF Placed

\* write_block, at work for mtd_write_data.
LEMMA SoundFeeding ==
  ASSUME WriterOK, WriteBlock, w.pos \notin lost, NEW from \in Nat,
         NEW file \in Seq(Values), NEW todo,
         Feeding(nand, Sound, w, from, file, todo)
  PROVE  Feeding(nand', Sound', w', from, file, todo)
<1> DEFINE t == Turn(w, Sound) - from
           a == t * PerBlock
<1>1. /\ t \in Nat /\ w.pc # "idle"
      /\ \A k \in Chunks(file) : k < t => Placed(nand, Sound, from, file, k)
      /\ a + PerBlock <= Len(file)
      /\ w.data = Chunk(file, t)
      /\ todo = SubSeq(file, a + PerBlock + 1, Len(file))
  BY SoundTurn DEF Feeding
<1>2. \A k \in Chunks(file) : k \in Nat
  BY DEF Chunks
<1>3. Turn(w, Sound) \in Nat /\ from + t = Turn(w, Sound)
  BY SoundTurn
<1>4. \A k \in Chunks(file) : k < t => Placed(nand', Sound', from, file, k)
  <2>1. SUFFICES ASSUME NEW k \in Chunks(file), k < t
                 PROVE  Placed(nand', Sound', from, file, k)
    OBVIOUS
  <2>2. k \in Nat /\ from + k < Turn(w, Sound)
    BY <1>1, <1>2, <1>3, <2>1
  <2>3. Placed(nand, Sound, from, file, k)
    BY <1>1, <2>1
  <2>4. QED
    BY <2>2, <2>3, SoundPlaced
<1>5. CASE w'.pc # "idle"
  <2>1. Turn(w', Sound') = Turn(w, Sound) /\ w'.data = w.data
    BY <1>5, SoundTurn
  <2>2. QED
    BY <1>1, <1>4, <1>5, <2>1 DEF Feeding
<1>6. CASE w'.pc = "idle"
  <2>1. /\ w'.stored = <<>> /\ Turn(w', Sound') = Turn(w, Sound) + 1
        /\ w.pos \in Sound /\ Rank(Sound, w.pos) = Turn(w, Sound)
        /\ nand'[w.pos] = w.data /\ Sound' = Sound
    BY <1>6, SoundTurn
  <2>2. Placed(nand', Sound', from, file, t)
    <3>1. Rank(Sound', w.pos) = from + t /\ nand'[w.pos] = Chunk(file, t)
      BY <1>1, <1>3, <2>1
    <3>2. w.pos \in Sound'
      BY <2>1
    <3> HIDE DEF t
    <3>3. QED
      BY <3>1, <3>2 DEF Placed
  <2>3. Turn(w', Sound') - from = t + 1 /\ t + 1 \in Nat
    BY <1>1, <1>3, <2>1
  <2>4. PerBlock \in Nat /\ a \in Nat /\ (t + 1) * PerBlock = a + PerBlock
    BY <1>1, BlockMultiples, DeviceAssumption
  <2> HIDE DEF a, t
  <2>5. \A k \in Chunks(file) : k < t + 1 => Placed(nand', Sound', from, file, k)
    BY <1>1, <1>2, <1>4, <2>2
  <2>6. Len(w'.stored) = 0 /\ (t + 1) * PerBlock + 0 = a + PerBlock
    BY <2>1, <2>4
  <2>7. w'.stored = SubSeq(file, a + PerBlock + 1, a + PerBlock)
    BY <1>1, <2>1, <2>4
  <2>8. QED
    BY <1>1, <1>6, <2>3, <2>4, <2>5, <2>6, <2>7 DEF Feeding
<1>7. QED
  BY <1>5, <1>6

\* write_block, at work for mtd_write_close.
LEMMA SoundClosing ==
  ASSUME WriterOK, WriteBlock, w.pos \notin lost, NEW from \in Nat,
         NEW file \in Seq(Values), Closing(nand, Sound, w, from, file)
  PROVE  Closing(nand', Sound', w', from, file)
<1> DEFINE t == Turn(w, Sound) - from
<1>1. /\ t \in Nat /\ w.pc # "idle"
      /\ \A k \in Chunks(file) : k < t => Placed(nand, Sound, from, file, k)
      /\ t \in Chunks(file) /\ w.data = Chunk(file, t)
      /\ \A k \in Chunks(file) : k <= t
  BY SoundTurn DEF Closing
<1>2. \A k \in Chunks(file) : k \in Nat
  BY DEF Chunks
<1>3. Turn(w, Sound) \in Nat /\ from + t = Turn(w, Sound)
  BY SoundTurn
<1>4. \A k \in Chunks(file) : k < t => Placed(nand', Sound', from, file, k)
  <2>1. SUFFICES ASSUME NEW k \in Chunks(file), k < t
                 PROVE  Placed(nand', Sound', from, file, k)
    OBVIOUS
  <2>2. k \in Nat /\ from + k < Turn(w, Sound)
    BY <1>1, <1>2, <1>3, <2>1
  <2>3. Placed(nand, Sound, from, file, k)
    BY <1>1, <2>1
  <2>4. QED
    BY <2>2, <2>3, SoundPlaced
<1>5. CASE w'.pc # "idle"
  <2>1. Turn(w', Sound') = Turn(w, Sound) /\ w'.data = w.data
    BY <1>5, SoundTurn
  <2>2. QED
    BY <1>1, <1>4, <1>5, <2>1 DEF Closing
<1>6. CASE w'.pc = "idle"
  <2>1. /\ Turn(w', Sound') = Turn(w, Sound) + 1
        /\ w.pos \in Sound /\ Rank(Sound, w.pos) = Turn(w, Sound)
        /\ nand'[w.pos] = w.data /\ Sound' = Sound
    BY <1>6, SoundTurn
  <2>2. Placed(nand', Sound', from, file, t)
    <3>1. Rank(Sound', w.pos) = from + t /\ nand'[w.pos] = Chunk(file, t)
      BY <1>1, <1>3, <2>1
    <3>2. w.pos \in Sound'
      BY <2>1
    <3> HIDE DEF t
    <3>3. QED
      BY <3>1, <3>2 DEF Placed
  <2>3. Turn(w', Sound') - from = t + 1 /\ t + 1 \in Nat
    BY <1>1, <1>3, <2>1
  <2> HIDE DEF t
  <2>4. \A k \in Chunks(file) : k < t + 1 /\ Placed(nand', Sound', from, file, k)
    BY <1>1, <1>2, <1>4, <2>2
  <2>5. QED
    BY <1>6, <2>3, <2>4 DEF Closing
<1>7. QED
  BY <1>5, <1>6

\* As long as no block has been given up, the sound blocks are the good ones,
\* and the facts above are about these.
LEMMA NothingLost ==
  ASSUME WriterOK, WriteBlock, lost' = {}
  PROVE  /\ lost = {} /\ w.pos \notin lost
         /\ Sound = Good /\ Sound' = Good /\ Good' = Good
<1>1. lost \subseteq lost'
  BY DEF WriteBlock, SkipBadBlock, NoSpace, EraseBlock, EraseFails,
         ProgramPage, ProgramFails, Verified, VerifyFails, GiveUp
<1>2. lost = {}
  BY <1>1
<1>3. bad' = bad
  BY DEF WriteBlock, SkipBadBlock, NoSpace, EraseBlock, EraseFails,
         ProgramPage, ProgramFails, Verified, VerifyFails, GiveUp
<1>4. QED
  BY <1>2, <1>3 DEF Sound, Good

LEMMA WriteBlockTurn ==
  ASSUME WriterOK, WriteBlock, lost' = {}
  PROVE  /\ Good' = Good /\ w.pc # "idle" /\ Turn(w, Good) \in Nat
         /\ \/ /\ w'.pc # "idle" /\ w'.data = w.data
               /\ Turn(w', Good) = Turn(w, Good)
            \/ /\ w'.pc = "idle" /\ w'.stored = <<>>
               /\ Turn(w', Good) = Turn(w, Good) + 1
               /\ w.pos \in Good /\ Rank(Good, w.pos) = Turn(w, Good)
               /\ nand'[w.pos] = w.data
         /\ \A b \in Good : Rank(Good, b) # Turn(w, Good) => nand'[b] = nand[b]
BY NothingLost, SoundTurn, Zenon

LEMMA PlacedStep ==
  ASSUME WriterOK, WriteBlock, lost' = {}, NEW from \in Nat, NEW file, NEW k \in Nat,
         from + k # Turn(w, Good), Placed(nand, Good, from, file, k)
  PROVE  Placed(nand', Good, from, file, k)
<1>1. PICK b \in Good : Rank(Good, b) = from + k /\ nand[b] = Chunk(file, k)
  BY DEF Placed
<1>2. nand'[b] = nand[b]
  BY <1>1, WriteBlockTurn
<1>3. QED
  BY <1>1, <1>2 DEF Placed

LEMMA FeedingStep ==
  ASSUME WriterOK, WriteBlock, lost' = {}, NEW from \in Nat,
         NEW file \in Seq(Values), NEW todo,
         Feeding(nand, Good, w, from, file, todo)
  PROVE  Feeding(nand', Good, w', from, file, todo)
BY NothingLost, SoundFeeding, Zenon

LEMMA ClosingStep ==
  ASSUME WriterOK, WriteBlock, lost' = {}, NEW from \in Nat,
         NEW file \in Seq(Values), Closing(nand, Good, w, from, file)
  PROVE  Closing(nand', Good, w', from, file)
BY NothingLost, SoundClosing, Zenon

-----------------------------------------------------------------------------
(* The pages of the block at hand                                          *)

\* What has been programmed is the data, unless a fault has garbled the block.
Programmed ==
  /\ w.pc = "program" =>
       \A p \in Pages : p < w.page => nand[w.pos][p] = w.data[p]
  /\ w.pc = "verify" => nand[w.pos] = w.data \/ Unreadable(w.pos)

\* A page of another block, or one that a step of write_block leaves alone.
LEMMA ProgrammedStep ==
  ASSUME WriterOK, Programmed, WriteBlock
  PROVE  Programmed'
<1>a. /\ nand \in [Blocks -> Block] /\ w \in Contexts
      /\ w.pc \in {"program", "verify", "giveup"} => w.pos \in Blocks
      /\ PerBlock \in Nat \ {0}
  BY DeviceAssumption DEF WriterOK, DeviceTypeOK
<1>1. CASE EraseBlock
  <2>1. w'.pc = "program" /\ w'.page = 1
    BY <1>1, <1>a DEF EraseBlock, Contexts
  <2>2. \A p \in Pages : ~(p < 1)
    BY <1>a DEF Pages
  <2>3. QED
    BY <2>1, <2>2 DEF Programmed
<1>2. CASE ProgramPage
  <2>1. /\ w.pc = "program" /\ w.pos \in Blocks /\ w.page \in Pages
        /\ w.data \in Block
        /\ nand' = [nand EXCEPT ![w.pos][w.page] = w.data[w.page]]
        /\ w' = IF w.page = PerBlock THEN [w EXCEPT !.pc = "verify"]
                ELSE [w EXCEPT !.page = @ + 1]
    BY <1>2, <1>a DEF ProgramPage, Contexts
  <2>2. /\ w'.pos = w.pos /\ w'.data = w.data
        /\ w.page # PerBlock => w'.pc = "program" /\ w'.page = w.page + 1
        /\ w.page = PerBlock => w'.pc = "verify"
    BY <1>a, <2>1 DEF Contexts
  <2>3. \A p \in Pages : nand'[w.pos][p] = IF p = w.page THEN w.data[p]
                                           ELSE nand[w.pos][p]
    BY <1>a, <2>1 DEF Block
  <2>4. \A p \in Pages : p < w.page + 1 => nand'[w.pos][p] = w.data[p]
    BY <1>a, <2>1, <2>3 DEF Programmed, Pages
  <2>5. w.page = PerBlock => nand'[w.pos] = w.data
    <3>1. nand'[w.pos] \in Block
      BY <1>a, <2>1 DEF Block
    <3>2. w.page = PerBlock => \A p \in Pages : nand'[w.pos][p] = w.data[p]
      BY <1>a, <2>4 DEF Pages
    <3>3. QED
      BY <2>1, <3>1, <3>2 DEF Block
  <2>6. QED
    BY <2>2, <2>4, <2>5 DEF Programmed
<1>3. CASE ProgramFails
  <2>1. /\ w.pos \in Blocks /\ w.page \in Pages
        /\ nand' = [nand EXCEPT ![w.pos][w.page] = "garbled"]
        /\ w'.pc = "verify" /\ w'.pos = w.pos
    BY <1>3, <1>a DEF ProgramFails, Contexts
  <2>2. nand'[w.pos][w.page] = "garbled"
    BY <1>a, <2>1 DEF Block
  <2>3. QED
    BY <2>1, <2>2 DEF Programmed, Unreadable
<1>4. CASE SkipBadBlock
  BY <1>4, <1>a DEF SkipBadBlock, AtBlock, Programmed, Contexts
<1>5. CASE NoSpace
  BY <1>5, <1>a DEF NoSpace, Programmed, Contexts
<1>6. CASE EraseFails
  BY <1>6, <1>a, NextTryType DEF EraseFails, Programmed
<1>7. CASE Verified
  BY <1>7, <1>a DEF Verified, Programmed, Contexts
<1>8. CASE VerifyFails
  <2>1. \E seek \in {w.pos, w.pos + 1} : w' = [NextTry(w) EXCEPT !.seek = seek]
    BY <1>8 DEF VerifyFails
  <2>2. w'.pc \in {"block", "giveup"}
    BY <1>a, <2>1, NextTryType DEF Contexts
  <2>3. QED
    BY <2>2 DEF Programmed
<1>9. CASE GiveUp
  BY <1>9, <1>a DEF GiveUp, Programmed, Contexts
<1>10. QED
  BY <1>1, <1>2, <1>3, <1>4, <1>5, <1>6, <1>7, <1>8, <1>9 DEF WriteBlock

\* The first page of a good block changes by being erased, programmed with the
\* data or garbled, and only in the block at hand.
LEMMA FirstPageStep ==
  ASSUME WriterOK, Programmed, WriteBlock, NEW b \in Good, nand'[b] # nand[b]
  PROVE  /\ b = w.pos /\ w.pc # "idle"
         /\ nand'[b][1] \in {"erased", "garbled", nand[b][1], w.data[1]}
         /\ \/ Unreadable(b)'
            \/ nand'[b][1] = "erased"
            \/ nand'[b] = w.data
            \/ w'.pc = "program" /\ w'.page > 1 /\ nand'[b][1] = w.data[1]
<1>a. /\ nand \in [Blocks -> Block] /\ w \in Contexts /\ b \in Blocks
      /\ w.pc \in {"program", "verify", "giveup"} => w.pos \in Blocks
      /\ PerBlock \in Nat \ {0} /\ 1 \in Pages
  BY DeviceAssumption DEF WriterOK, DeviceTypeOK, Good, Pages
<1>b. Filled("erased")[1] = "erased"
  BY <1>a DEF Filled
<1>c. nand' # nand
  OBVIOUS
<1>1. CASE EraseBlock
  <2>1. /\ nand' = [nand EXCEPT ![w.pos] = Filled("erased")]
        /\ w.pos \in Blocks /\ w.pc = "block"
    BY <1>1 DEF EraseBlock, AtBlock
  <2>2. b = w.pos /\ nand'[b] = Filled("erased")
    BY <1>a, <2>1
  <2>3. QED
    BY <1>b, <2>1, <2>2
<1>2. CASE ProgramPage
  <2>1. /\ w.pc = "program" /\ w.pos \in Blocks /\ w.page \in Pages
        /\ nand' = [nand EXCEPT ![w.pos][w.page] = w.data[w.page]]
        /\ w' = IF w.page = PerBlock THEN [w EXCEPT !.pc = "verify"]
                ELSE [w EXCEPT !.page = @ + 1]
    BY <1>2, <1>a DEF ProgramPage, Contexts
  <2>2. b = w.pos
    BY <1>a, <2>1
  <2>3. /\ w.page = 1 => nand'[b][1] = w.data[1]
        /\ w.page # 1 => nand'[b][1] = nand[b][1]
    BY <1>a, <2>1, <2>2 DEF Block
  <2>4. w.page # 1 => w.page > 1 /\ nand[b][1] = w.data[1]
    BY <1>a, <2>1, <2>2 DEF Programmed, Pages
  <2>5. /\ w.page # PerBlock => /\ w'.pc = "program" /\ w'.page = w.page + 1
                                /\ w.page + 1 > 1
        /\ w.page = PerBlock => w'.pc = "verify"
    BY <1>a, <2>1 DEF Contexts, Pages
  <2>6. w'.pc = "verify" => nand'[b] = w.data \/ Unreadable(b)'
    <3>1. w'.pos = w.pos /\ w'.data = w.data
      BY <1>a, <2>1 DEF Contexts
    <3>2. Programmed'
      BY ProgrammedStep
    <3>3. Unreadable(b)' <=> \E p \in Pages : nand'[b][p] = "garbled"
      BY DEF Unreadable
    <3>4. w'.pc = "verify" => nand'[b] = w.data
                              \/ \E p \in Pages : nand'[b][p] = "garbled"
      BY <2>2, <3>1, <3>2 DEF Programmed, Unreadable
    <3>5. QED
      BY <3>3, <3>4
  <2>7. nand'[b][1] = w.data[1]
    BY <2>3, <2>4
  <2>8. QED
    BY <2>1, <2>2, <2>5, <2>6, <2>7
<1>3. CASE ProgramFails
  <2>1. /\ w.pc = "program" /\ w.pos \in Blocks /\ w.page \in Pages
        /\ nand' = [nand EXCEPT ![w.pos][w.page] = "garbled"]
    BY <1>3, <1>a DEF ProgramFails, Contexts
  <2>2. b = w.pos
    BY <1>a, <2>1
  <2>3. nand'[b][w.page] = "garbled"
        /\ (w.page # 1 => nand'[b][1] = nand[b][1])
    BY <1>a, <2>1, <2>2 DEF Block
  <2>4. w.page # 1 => w.page > 1
    BY <1>a, <2>1 DEF Pages
  <2>5. Unreadable(b)'
    BY <2>1, <2>3 DEF Unreadable
  <2>6. QED
    BY <2>1, <2>2, <2>3, <2>4, <2>5
<1>4. CASE GiveUp
  <2>1. w.pc = "giveup" /\ nand' \in {nand, [nand EXCEPT ![w.pos] = Filled("erased")]}
    BY <1>4 DEF GiveUp
  <2>2. b = w.pos /\ nand'[b] = Filled("erased")
    BY <1>a, <1>c, <2>1
  <2>3. QED
    BY <1>b, <2>1, <2>2
<1>5. QED
  BY <1>c, <1>1, <1>2, <1>3, <1>4
     DEF WriteBlock, SkipBadBlock, NoSpace, EraseFails, Verified, VerifyFails

\* A power loss garbles pages of the block at hand, or changes nothing.
LEMMA PowerLossBlock ==
  ASSUME WriterOK, nand' \in AfterPowerLoss, NEW b \in Good, nand'[b] # nand[b]
  PROVE  /\ b = w.pos /\ w.pc # "idle" /\ Unreadable(b)'
         /\ nand'[b][1] \in {nand[b][1], "garbled"}
<1>a. /\ nand \in [Blocks -> Block] /\ w \in Contexts /\ b \in Blocks
      /\ w.pc = "program" => w.pos \in Blocks
      /\ PerBlock \in Nat \ {0} /\ 1 \in Pages
  BY DeviceAssumption DEF WriterOK, DeviceTypeOK, Good, Pages
<1>1. CASE AtBlock /\ nand' = [nand EXCEPT ![w.pos] = Filled("garbled")]
  <2>1. b = w.pos /\ nand'[b] = Filled("garbled") /\ w.pc = "block"
    BY <1>1, <1>a DEF AtBlock
  <2>2. Filled("garbled")[1] = "garbled"
    BY <1>a DEF Filled
  <2>3. Unreadable(b)'
    BY <1>a, <2>1, <2>2 DEF Unreadable
  <2>4. QED
    BY <2>1, <2>2, <2>3
<1>2. CASE w.pc = "program" /\ nand' = [nand EXCEPT ![w.pos][w.page] = "garbled"]
  <2>1. b = w.pos /\ w.page \in Pages
    BY <1>2, <1>a DEF Contexts
  <2>2. nand'[b][w.page] = "garbled"
        /\ (w.page # 1 => nand'[b][1] = nand[b][1])
    BY <1>2, <1>a, <2>1 DEF Block
  <2>3. Unreadable(b)'
    BY <2>1, <2>2 DEF Unreadable
  <2>4. QED
    BY <1>2, <2>1, <2>2, <2>3
<1>3. QED
  BY <1>1, <1>2 DEF AfterPowerLoss

-----------------------------------------------------------------------------
(* mtd_find_write_start                                                    *)

\* Every set of numbers that is not empty has a least one: among the intervals
\* that end in it there is one that contains no other.
LEMMA LeastNumber ==
  ASSUME NEW T \in SUBSET Nat, T # {}
  PROVE  \E n \in T : \A m \in T : n <= m
<1> DEFINE below == {0..n : n \in T}
<1>1. /\ below \subseteq FiniteSubsetsOf(Nat) /\ below # {}
  <2>1. \A n \in T : IsFiniteSet(0..n)
    BY FS_Interval
  <2>2. \A n \in T : 0..n \in SUBSET Nat
    OBVIOUS
  <2>3. QED
    BY <2>1, <2>2 DEF FiniteSubsetsOf
<1>2. PICK x \in below : \A y \in below : ~(<<y, x>> \in StrictSubsetOrdering(Nat))
  <2> HIDE DEF below
  <2>1. IsWellFoundedOn(StrictSubsetOrdering(Nat), FiniteSubsetsOf(Nat))
    BY FS_StrictSubsetOrderingWellFounded
  <2>2. QED
    BY <1>1, <2>1, WFMin, Zenon
<1>3. PICK n \in T : x = 0..n
  OBVIOUS
<1>4. ASSUME NEW m \in T, ~(n <= m)
      PROVE  FALSE
  <2>1. n \in Nat /\ m \in Nat /\ m < n
    BY <1>4
  <2>2. 0..m \subseteq 0..n /\ n \in 0..n /\ n \notin 0..m
    BY <2>1
  <2>3. <<0..m, 0..n>> \in StrictSubsetOrdering(Nat)
    <3>1. 0..m \in SUBSET Nat /\ 0..n \in SUBSET Nat /\ 0..m # 0..n
      BY <2>1, <2>2
    <3>2. QED
      BY <3>1, <2>2 DEF StrictSubsetOrdering
  <2>4. 0..m \in below
    OBVIOUS
  <2> HIDE DEF below
  <2>5. QED
    BY <1>2, <1>3, <2>3, <2>4
<1>5. QED
  BY <1>4

\* The loop of mtd_find_write_start: one turn, and the states it goes through.
Step(skipped, n, s) ==
  IF s.found THEN s
  ELSE IF skipped[n] = s.pos THEN [pos |-> skipped[n] + 1, found |-> FALSE]
  ELSE [pos |-> s.pos, found |-> skipped[n] > s.pos]

Searches == [pos : Int, found : BOOLEAN]

Walk(skipped, from, at, m) ==
  /\ at \in [0..m -> Searches]
  /\ at[0] = [pos |-> from, found |-> FALSE]
  /\ \A n \in 1..m : at[n] = Step(skipped, n, at[n - 1])

\* The loop runs to its end.
LEMMA WalkExists ==
  ASSUME NEW skipped \in Seq(Blocks), NEW from \in Int
  PROVE  \A m \in 0..Len(skipped) : \E at : Walk(skipped, from, at, m)
<1> DEFINE T == {m \in 0..Len(skipped) : ~ \E at : Walk(skipped, from, at, m)}
<1>1. SUFFICES ASSUME T # {} PROVE FALSE
  OBVIOUS
<1>2. PICK m \in T : \A k \in T : m <= k
  <2>1. T \in SUBSET Nat
    OBVIOUS
  <2> HIDE DEF T
  <2>2. QED
    BY <1>1, <2>1, LeastNumber
<1>3. m \in 0..Len(skipped) /\ ~ \E at : Walk(skipped, from, at, m)
  OBVIOUS
<1>4. m # 0
  <2> DEFINE first == [k \in 0..0 |-> [pos |-> from, found |-> FALSE]]
  <2>1. Walk(skipped, from, first, 0)
    BY DEF Walk, Searches
  <2> HIDE DEF first
  <2>2. QED
    BY <1>3, <2>1
<1>5. m \in Nat \ {0} /\ m - 1 \in 0..Len(skipped) /\ m - 1 \notin T
  BY <1>2, <1>3, <1>4
<1>6. PICK at : Walk(skipped, from, at, m - 1)
  BY <1>5
<1> HIDE DEF T
<1> DEFINE next == [k \in 0..m |-> IF k = m THEN Step(skipped, m, at[m - 1])
                                   ELSE at[k]]
<1>7. Step(skipped, m, at[m - 1]) \in Searches
  <2>1. at[m - 1] \in Searches /\ skipped[m] \in Int
    BY <1>3, <1>5, <1>6, DeviceAssumption DEF Walk, Blocks
  <2>2. QED
    BY <2>1 DEF Step, Searches
<1>8. next \in [0..m -> Searches] /\ next[0] = [pos |-> from, found |-> FALSE]
  <2>1. /\ at \in [0..(m - 1) -> Searches]
        /\ at[0] = [pos |-> from, found |-> FALSE]
    BY <1>6 DEF Walk
  <2>2. \A k \in 0..m : k # m => k \in 0..(m - 1) /\ at[k] \in Searches
    BY <1>5, <2>1
  <2>3. \A k \in 0..m : next[k] \in Searches
    BY <1>7, <2>2
  <2>4. 0 \in 0..m /\ 0 # m
    BY <1>5
  <2>5. next[0] = at[0]
    BY <2>4
  <2>6. next = [k \in 0..m |-> next[k]]
    OBVIOUS
  <2> HIDE DEF next
  <2>7. next \in [0..m -> Searches]
    BY <2>3, <2>6
  <2>8. QED
    BY <2>1, <2>5, <2>7
<1>9. \A n \in 1..m : next[n] = Step(skipped, n, next[n - 1])
  <2>1. SUFFICES ASSUME NEW n \in 1..m
                 PROVE  next[n] = Step(skipped, n, next[n - 1])
    OBVIOUS
  <2>2. next[n - 1] = at[n - 1]
    BY <1>5
  <2>3. CASE n = m
    BY <2>2, <2>3, <1>5
  <2>4. CASE n # m
    <3>1. next[n] = at[n] /\ n \in 1..(m - 1)
      BY <1>5, <2>4
    <3>2. at[n] = Step(skipped, n, at[n - 1])
      BY <3>1, <1>6 DEF Walk
    <3> HIDE DEF next
    <3>3. QED
      BY <2>2, <3>1, <3>2
  <2>5. QED
    BY <2>3, <2>4
<1>10. Walk(skipped, from, next, m)
  <2> HIDE DEF next
  <2>1. QED
    BY <1>8, <1>9 DEF Walk
<1>11. QED
  BY <1>3, <1>10

\* mtd_find_write_start returns what the loop ends with.
LEMMA StartIsWalk ==
  ASSUME NEW skipped \in Seq(Blocks), NEW from \in Int
  PROVE  \E at : /\ Walk(skipped, from, at, Len(skipped))
                 /\ FindWriteStart(skipped, from) = at[Len(skipped)].pos
<1> DEFINE N == Len(skipped)
           Turned(f) == [n \in 0..N |->
             IF n = 0 THEN [pos |-> from, found |-> FALSE]
             ELSE IF f[n - 1].found THEN f[n - 1]
             ELSE IF skipped[n] = f[n - 1].pos
             THEN [pos |-> skipped[n] + 1, found |-> FALSE]
             ELSE [pos |-> f[n - 1].pos, found |-> skipped[n] > f[n - 1].pos]]
           walk == CHOOSE f : f = Turned(f)
<1>1. N \in Nat
  OBVIOUS
<1>2. PICK at : Walk(skipped, from, at, N)
  <2>1. N \in 0..N
    BY <1>1
  <2>2. QED
    BY <2>1, WalkExists
<1>3. at = Turned(at)
  <2>1. at = [n \in 0..N |-> at[n]] /\ at[0] = [pos |-> from, found |-> FALSE]
    BY <1>2 DEF Walk
  <2>2. \A n \in 0..N : n # 0 => n \in 1..N
    BY <1>1
  <2>3. \A n \in 1..N : at[n] = Step(skipped, n, at[n - 1])
    BY <1>2 DEF Walk
  <2>4. \A n \in 0..N : Turned(at)[n] = at[n]
    BY <2>1, <2>2, <2>3 DEF Step
  <2>5. Turned(at) = [n \in 0..N |-> Turned(at)[n]]
    OBVIOUS
  <2> HIDE DEF Turned
  <2>6. QED
    BY <2>1, <2>4, <2>5
<1>4. walk = Turned(walk)
  BY <1>3, Zenon
<1>5. FindWriteStart(skipped, from) = walk[N].pos
  BY DEF FindWriteStart
<1>6. \A n \in 0..N : walk[n] =
             IF n = 0 THEN [pos |-> from, found |-> FALSE]
             ELSE IF walk[n - 1].found THEN walk[n - 1]
             ELSE IF skipped[n] = walk[n - 1].pos
             THEN [pos |-> skipped[n] + 1, found |-> FALSE]
             ELSE [pos |-> walk[n - 1].pos, found |-> skipped[n] > walk[n - 1].pos]
  <2> HIDE DEF walk
  <2>1. QED
    BY <1>4
<1> HIDE DEF walk, Turned
<1>7. walk = at
  <2> DEFINE T == {n \in 0..N : walk[n] # at[n]}
  <2>1. ASSUME T # {}
        PROVE  FALSE
    <3>1. PICK n \in T : \A k \in T : n <= k
      <4>1. T \in SUBSET Nat
        OBVIOUS
      <4> HIDE DEF T
      <4>2. QED
        BY <2>1, <4>1, LeastNumber
    <3>2. n \in 0..N /\ walk[n] # at[n]
      OBVIOUS
    <3>3. n # 0
      BY <1>1, <1>2, <1>6, <3>2 DEF Walk
    <3>4. n \in 1..N /\ n - 1 \in 0..N /\ n - 1 \notin T
      BY <1>1, <3>1, <3>2, <3>3
    <3>5. walk[n - 1] = at[n - 1]
      BY <3>4
    <3>6. walk[n] = Step(skipped, n, walk[n - 1])
      BY <1>6, <3>3, <3>4 DEF Step
    <3>7. at[n] = Step(skipped, n, at[n - 1])
      BY <1>2, <3>4 DEF Walk
    <3>8. QED
      BY <3>2, <3>5, <3>6, <3>7
  <2>2. \A n \in 0..N : walk[n] = at[n]
    BY <2>1
  <2>3. walk = [n \in 0..N |-> walk[n]]
    <3>1. walk = Turned(walk)
      BY <1>4
    <3>2. QED
      BY <3>1 DEF Turned
  <2>4. at = [n \in 0..N |-> at[n]]
    BY <1>2 DEF Walk
  <2>5. QED
    BY <2>2, <2>3, <2>4
<1>8. QED
  BY <1>2, <1>5, <1>7

\* An offset stays one: the end of the partition, or -1 for a failure before.
LEMMA FindWriteStartType ==
  ASSUME NEW skipped \in Seq(Blocks), NEW from \in -1..NBlocks
  PROVE  FindWriteStart(skipped, from) \in -1..NBlocks
<1> DEFINE N == Len(skipped)
<1>1. N \in Nat /\ NBlocks \in Nat /\ from \in Int
  BY DeviceAssumption
<1>2. PICK at : Walk(skipped, from, at, N)
                /\ FindWriteStart(skipped, from) = at[N].pos
  BY <1>1, StartIsWalk
<1> DEFINE T == {n \in 0..N : at[n].pos \notin -1..NBlocks}
<1>3. ASSUME T # {}
      PROVE  FALSE
  <2>1. PICK n \in T : \A k \in T : n <= k
    <3>1. T \in SUBSET Nat
      OBVIOUS
    <3> HIDE DEF T
    <3>2. QED
      BY <1>3, <3>1, LeastNumber
  <2>2. n \in 0..N /\ at[n].pos \notin -1..NBlocks
    OBVIOUS
  <2>3. n # 0
    BY <1>2, <2>2 DEF Walk
  <2>4. n \in 1..N /\ n - 1 \in 0..N /\ n - 1 \notin T
    BY <1>1, <2>1, <2>2, <2>3
  <2>5. at[n - 1].pos \in -1..NBlocks
    BY <2>4
  <2>6. skipped[n] \in 0..(NBlocks - 1)
    <3>1. \A i \in 1..N : skipped[i] \in Blocks
      OBVIOUS
    <3>2. QED
      BY <2>4, <3>1 DEF Blocks
  <2>7. at[n] = Step(skipped, n, at[n - 1])
    BY <1>2, <2>4 DEF Walk
  <2>8. QED
    BY <1>1, <2>2, <2>5, <2>6, <2>7 DEF Step
<1>4. QED
  BY <1>1, <1>2, <1>3

\* Blocks are skipped in their order.
Ascending(skipped) ==
  \A i, j \in 1..Len(skipped) : i < j => skipped[i] < skipped[j]

Skips(skipped, b) == \E i \in 1..Len(skipped) : skipped[i] = b

\* What mtd_find_write_start returns is the first block from "from" on that was
\* not skipped.
LEMMA FindWriteStartSkips ==
  ASSUME NEW skipped \in Seq(Blocks), NEW from \in Nat, Ascending(skipped)
  PROVE  /\ FindWriteStart(skipped, from) \in Nat
         /\ from <= FindWriteStart(skipped, from)
         /\ \A b \in Nat : from <= b /\ b < FindWriteStart(skipped, from) =>
              Skips(skipped, b)
         /\ ~Skips(skipped, FindWriteStart(skipped, from))
<1> DEFINE N == Len(skipped)
<1>1. /\ N \in Nat /\ from \in Int
      /\ \A i \in 1..N : skipped[i] \in Nat
  BY DeviceAssumption DEF Blocks
<1>2. PICK at : Walk(skipped, from, at, N)
                /\ FindWriteStart(skipped, from) = at[N].pos
  BY <1>1, StartIsWalk
<1> DEFINE Past(n) ==
      /\ at[n].pos \in Nat /\ from <= at[n].pos
      /\ \A b \in Nat : from <= b /\ b < at[n].pos => Skips(skipped, b)
      /\ at[n].found => \A i \in 1..N : skipped[i] # at[n].pos
      /\ ~at[n].found => \A i \in 1..n : skipped[i] < at[n].pos
           T == {n \in 0..N : ~Past(n)}
<1>3. ASSUME T # {}
      PROVE  FALSE
  <2>1. PICK n \in T : \A k \in T : n <= k
    <3>1. T \in SUBSET Nat
      OBVIOUS
    <3> HIDE DEF T
    <3>2. QED
      BY <1>3, <3>1, LeastNumber
  <2>2. n \in 0..N /\ ~Past(n)
    OBVIOUS
  <2>3. n # 0
    <3>1. at[0] = [pos |-> from, found |-> FALSE]
      BY <1>2 DEF Walk
    <3>2. Past(0)
      BY <3>1, <1>1
    <3>3. QED
      BY <2>2, <3>2
  <2>4. n \in 1..N /\ n - 1 \in 0..N /\ n - 1 \notin T
    BY <1>1, <2>1, <2>2, <2>3
  <2>5. Past(n - 1)
    BY <2>4
  <2> DEFINE s == at[n - 1]
  <2>6. /\ s.pos \in Nat /\ from <= s.pos
        /\ \A b \in Nat : from <= b /\ b < s.pos => Skips(skipped, b)
        /\ s.found => \A i \in 1..N : skipped[i] # s.pos
        /\ ~s.found => \A i \in 1..(n - 1) : skipped[i] < s.pos
    BY <2>5
  <2>7. at[n] = Step(skipped, n, s) /\ skipped[n] \in Nat
    BY <1>1, <1>2, <2>4 DEF Walk
  <2>8. \A i \in 1..N : n < i => skipped[n] < skipped[i]
    BY <2>4 DEF Ascending
  <2> HIDE DEF s, T
  <2>9. CASE s.found
    <3>1. at[n] = s
      BY <2>7, <2>9 DEF Step
    <3>2. QED
      BY <2>2, <2>6, <2>9, <3>1
  <2>10. CASE ~s.found /\ skipped[n] = s.pos
    <3>1. at[n].pos = s.pos + 1 /\ ~at[n].found
      BY <2>7, <2>10 DEF Step
    <3>2. \A i \in 1..n : skipped[i] < s.pos + 1
      <4>1. \A i \in 1..n : i = n \/ i \in 1..(n - 1)
        BY <2>4
      <4>2. \A i \in 1..(n - 1) : skipped[i] \in Nat
        BY <1>1, <2>4
      <4>3. QED
        BY <2>6, <2>10, <4>1, <4>2
    <3>3. Skips(skipped, s.pos)
      BY <2>4, <2>10 DEF Skips
    <3>4. \A b \in Nat : from <= b /\ b < s.pos + 1 => Skips(skipped, b)
      <4>1. \A b \in Nat : b < s.pos + 1 => b = s.pos \/ b < s.pos
        BY <2>6
      <4>2. QED
        BY <2>6, <3>3, <4>1
    <3>5. s.pos + 1 \in Nat /\ from <= s.pos + 1
      BY <2>6
    <3>6. QED
      BY <2>2, <3>1, <3>2, <3>4, <3>5
  <2>11. CASE ~s.found /\ skipped[n] # s.pos
    <3>1. at[n].pos = s.pos /\ at[n].found = (skipped[n] > s.pos)
      BY <2>7, <2>11 DEF Step
    <3>2. skipped[n] > s.pos => \A i \in 1..N : skipped[i] # s.pos
      <4>1. \A i \in 1..N : i = n \/ i \in 1..(n - 1) \/ n < i
        BY <2>4
      <4>2. QED
        BY <1>1, <2>6, <2>7, <2>8, <2>11, <4>1
    <3>3. ~(skipped[n] > s.pos) => \A i \in 1..n : skipped[i] < s.pos
      <4>1. \A i \in 1..n : i = n \/ i \in 1..(n - 1)
        BY <2>4
      <4>2. QED
        BY <2>6, <2>7, <2>11, <4>1
    <3>4. QED
      BY <2>2, <2>6, <3>1, <3>2, <3>3
  <2>12. QED
    BY <2>9, <2>10, <2>11
<1>4. Past(N)
  BY <1>1, <1>3
<1> DEFINE r == at[N].pos
<1>5. /\ r \in Nat /\ from <= r
      /\ \A b \in Nat : from <= b /\ b < r => Skips(skipped, b)
  BY <1>4
<1>6. \A i \in 1..N : skipped[i] # r
  BY <1>1, <1>4
<1> HIDE DEF r
<1>7. ~Skips(skipped, r)
  BY <1>6 DEF Skips
<1>8. QED
  BY <1>2, <1>5, <1>7 DEF r

=============================================================================
