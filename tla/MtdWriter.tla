----------------------------- MODULE MtdWriter -----------------------------
(***************************************************************************)
(* A NAND partition and the write context of mtdutils.c: write_block() with*)
(* its bad blocks, its one retry, its verification and its giving up; and  *)
(* the part of read_block() that decides which blocks a reader sees.  The  *)
(* callers, flash_image and write_update_for_bootloader, extend it.        *)
(*                                                                         *)
(* The unit is the page, which the chip programs as a whole: a page holds a*)
(* value, and a block is a sequence of pages.                              *)
(***************************************************************************)
EXTENDS Integers, Sequences, FiniteSets

CONSTANTS
  NBlocks,    \* partition->size / partition->erase_size
  PerBlock,   \* partition->erase_size in pages
  Values,     \* what the callers write to a page
  MaxBad,     \* bound: blocks that are bad from the start
  MaxFaults   \* bound: driver errors and power losses in a behaviour

ASSUME DeviceAssumption ==
  /\ NBlocks \in Nat \ {0}
  /\ PerBlock \in Nat \ {0}
  /\ MaxBad \in Nat /\ MaxFaults \in Nat
  /\ {"zero", "old"} \subseteq Values
  /\ Values \cap {"erased", "garbled"} = {}

VARIABLES
  nand,     \* the pages of every block
  bad,      \* the blocks the driver reports as bad
  w,        \* the write context, and the write_block() at work in it
  lost,     \* history: blocks that were ever given up
  faults

device == <<nand, bad, w, lost, faults>>

Blocks == 0..(NBlocks - 1)
Pages == 1..PerBlock
Block == [Pages -> Values \cup {"erased", "garbled"}]

Filled(value) == [p \in Pages |-> value]

\* A write padded with zeros to the size of a block.
Padded(pages) ==
  [p \in Pages |-> IF p <= Len(pages) THEN pages[p] ELSE "zero"]

Fault == faults < MaxFaults /\ faults' = faults + 1

-----------------------------------------------------------------------------
(* The write context.  w.seek is the offset of the file descriptor, w.pos  *)
(* the loop variable of write_block, w.skipped is bad_block_offsets.       *)

Contexts == [pc : {"idle", "block", "program", "verify", "giveup", "full"},
             pos : 0..NBlocks, seek : 0..NBlocks, try : {0, 1}, page : Pages,
             data : Block, stored : Seq(Values), skipped : Seq(Blocks)]

\* mtd_write_partition
Opened == [pc |-> "idle", pos |-> 0, seek |-> 0, try |-> 0, page |-> 1,
           data |-> Filled("zero"), stored |-> <<>>, skipped |-> <<>>]

BeginBlock(c, pages) ==
  [c EXCEPT !.pc = "block", !.pos = c.seek, !.try = 0, !.data = Padded(pages)]

\* One turn of mtd_write_data's loop: whole blocks go straight to the flash,
\* parts of one wait in ctx->buffer until it is full.
Taken(c, todo) ==
  IF c.stored = <<>> /\ Len(todo) >= PerBlock THEN PerBlock
  ELSE IF Len(todo) < PerBlock - Len(c.stored) THEN Len(todo)
  ELSE PerBlock - Len(c.stored)

Put(c, todo) ==
  LET n == Taken(c, todo)
      buffer == c.stored \o SubSeq(todo, 1, n)
  IN  IF c.stored = <<>> /\ n = PerBlock THEN BeginBlock(c, buffer)
      ELSE IF Len(buffer) = PerBlock
      THEN BeginBlock([c EXCEPT !.stored = buffer], buffer)
      ELSE [c EXCEPT !.stored = buffer]

Rest(c, todo) == SubSeq(todo, Taken(c, todo) + 1, Len(todo))

\* mtd_erase_blocks(ctx, 0): zero-pad and write what is pending.
Sync(c) == IF c.stored = <<>> THEN [c EXCEPT !.pc = "idle"]
           ELSE BeginBlock(c, c.stored)

\* mtd_find_write_start: walk over the bad blocks met, in the order they were.
FindWriteStart(skipped, from) ==
  LET at[n \in 0..Len(skipped)] ==      \* after the first n of them
        IF n = 0 THEN [pos |-> from, found |-> FALSE]
        ELSE IF at[n - 1].found THEN at[n - 1]
        ELSE IF skipped[n] = at[n - 1].pos
        THEN [pos |-> skipped[n] + 1, found |-> FALSE]
        ELSE [pos |-> at[n - 1].pos, found |-> skipped[n] > at[n - 1].pos]
  IN  at[Len(skipped)].pos

-----------------------------------------------------------------------------
(* write_block                                                             *)

AtBlock == w.pc = "block" /\ w.pos \in Blocks

\* Mutant of SkipBadBlock: the block is skipped, but not recorded.
SkipUnrecorded ==
  /\ AtBlock /\ w.pos \in bad
  /\ w' = [w EXCEPT !.pos = @ + 1]
  /\ UNCHANGED <<nand, bad, lost, faults>>

SkipBadBlock ==
  /\ AtBlock /\ w.pos \in bad
  /\ w' = [w EXCEPT !.pos = @ + 1, !.skipped = Append(@, w.pos)]
  /\ UNCHANGED <<nand, bad, lost, faults>>

NoSpace ==
  /\ w.pc = "block" /\ w.pos = NBlocks
  /\ w' = [w EXCEPT !.pc = "full"]
  /\ UNCHANGED <<nand, bad, lost, faults>>

EraseBlock ==
  /\ AtBlock /\ w.pos \notin bad
  /\ nand' = [nand EXCEPT ![w.pos] = Filled("erased")]
  /\ w' = [w EXCEPT !.pc = "program", !.page = 1]
  /\ UNCHANGED <<bad, lost, faults>>

\* Mutant of NextTry: retry <= 2.
OneTryMore(c) ==
  IF c.try <= 1 THEN [c EXCEPT !.pc = "block", !.try = @ + 1]
  ELSE [c EXCEPT !.pc = "giveup"]

NextTry(c) ==
  IF c.try = 0 THEN [c EXCEPT !.pc = "block", !.try = 1]
  ELSE [c EXCEPT !.pc = "giveup"]

\* Mutant of EraseFails: the message is printed, the "continue" is missing.
EraseFailureIgnored ==
  /\ AtBlock /\ w.pos \notin bad
  /\ w' = [w EXCEPT !.pc = "program", !.page = 1]
  /\ Fault /\ UNCHANGED <<nand, bad, lost>>

EraseFails ==
  /\ AtBlock /\ w.pos \notin bad
  /\ w' = NextTry(w)
  /\ Fault /\ UNCHANGED <<nand, bad, lost>>

ProgramPage ==
  /\ w.pc = "program"
  /\ nand' = [nand EXCEPT ![w.pos][w.page] = w.data[w.page]]
  /\ w' = IF w.page = PerBlock THEN [w EXCEPT !.pc = "verify"]
          ELSE [w EXCEPT !.page = @ + 1]
  /\ UNCHANGED <<bad, lost, faults>>

\* write() stops at a page; the code goes on to verify all the same.
ProgramFails ==
  /\ w.pc = "program"
  /\ nand' = [nand EXCEPT ![w.pos][w.page] = "garbled"]
  /\ w' = [w EXCEPT !.pc = "verify"]
  /\ Fault /\ UNCHANGED <<bad, lost>>

\* Mutant of Verified: the "continue" after the memcmp is missing.
VerifiedAnyway ==
  /\ w.pc = "verify"
  /\ w' = [w EXCEPT !.pc = "idle", !.seek = w.pos + 1, !.stored = <<>>]
  /\ UNCHANGED <<nand, bad, lost, faults>>

Verified ==
  /\ w.pc = "verify" /\ nand[w.pos] = w.data
  /\ w' = [w EXCEPT !.pc = "idle", !.seek = w.pos + 1, !.stored = <<>>]
  /\ UNCHANGED <<nand, bad, lost, faults>>

\* The block differs from the data, or cannot be read back.
VerifyFails ==
  /\ w.pc = "verify"
  /\ \E seek \in {w.pos, w.pos + 1} : w' = [NextTry(w) EXCEPT !.seek = seek]
  /\ nand[w.pos] = w.data => w'.seek = w.pos
  /\ IF nand[w.pos] = w.data THEN Fault ELSE UNCHANGED faults
  /\ UNCHANGED <<nand, bad, lost>>

\* The block is recorded and erased once more; nothing marks it as bad.
GiveUp ==
  /\ w.pc = "giveup"
  /\ nand' \in {nand, [nand EXCEPT ![w.pos] = Filled("erased")]}
  /\ w' = [w EXCEPT !.pc = "block", !.pos = @ + 1, !.try = 0,
                    !.skipped = Append(@, w.pos)]
  /\ lost' = lost \cup {w.pos}
  /\ UNCHANGED <<bad, faults>>

WriteBlock ==
  \/ SkipBadBlock \/ NoSpace \/ EraseBlock \/ EraseFails
  \/ ProgramPage \/ ProgramFails \/ Verified \/ VerifyFails \/ GiveUp

\* What a power loss leaves of the block being erased or programmed.
AfterPowerLoss ==
  {nand} \cup
  (IF AtBlock /\ w.pos \notin bad
   THEN {[nand EXCEPT ![w.pos] = Filled("garbled")]} ELSE {}) \cup
  (IF w.pc = "program"
   THEN {[nand EXCEPT ![w.pos][w.page] = "garbled"]} ELSE {})

-----------------------------------------------------------------------------
(* read_block: an all-zero block and a bad one are skipped.  An ECC failure*)
(* ends the reading: "before" is not read again, so that the counters      *)
(* differ for every block that follows.                                    *)

Unreadable(b) == \E p \in Pages : nand[b][p] = "garbled"

Readable ==
  {b \in Blocks \ bad :
     nand[b] # Filled("zero") /\ \A c \in 0..b : ~Unreadable(c)}

\* How many of the blocks of S come before b.
Rank(S, b) == Cardinality({c \in S : c < b})

\* The k-th block of a file, counting from 0, as mtd_write_data pads it.
Chunk(file, k) ==
  Padded(SubSeq(file, k * PerBlock + 1,
                IF (k + 1) * PerBlock < Len(file) THEN (k + 1) * PerBlock
                ELSE Len(file)))

Chunks(file) == {k \in 0..Len(file) : k * PerBlock < Len(file)}

\* Reading the partition from its start gives the file, without the blocks of
\* zeros that a reader never sees.
ReadsAs(file) ==
  LET visible == {k \in Chunks(file) : Chunk(file, k) # Filled("zero")}
  IN  \A k \in visible :
        \E b \in Readable :
          Rank(Readable, b) = Rank(visible, k) /\ nand[b] = Chunk(file, k)

-----------------------------------------------------------------------------

DeviceTypeOK ==
  /\ nand \in [Blocks -> Block]
  /\ bad \subseteq Blocks
  /\ w \in Contexts
  /\ lost \subseteq Blocks
  /\ faults \in 0..MaxFaults

\* write_block never touches a bad block, and never programs a page that it has
\* not erased: a page changes to "erased", or from it, or is spoilt by a fault.
PagesAreErasedFirst ==
  [][\A b \in Blocks : \A p \in Pages :
       nand'[b][p] # nand[b][p] =>
         /\ b \notin bad
         /\ nand[b][p] = "erased" \/ nand'[b][p] \in {"erased", "garbled"}]_device

=============================================================================
