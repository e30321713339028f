-------------------------- MODULE UpdateImageProofs --------------------------
(***************************************************************************)
(* What write_update_for_bootloader keeps for every update, partition and  *)
(* set of bad blocks: its types, and that a header on the flash has behind *)
(* it what it refers to, wherever power goes.                              *)
(***************************************************************************)
EXTENDS UpdateImage, MtdWriterProofs

-----------------------------------------------------------------------------
(* Type correctness                                                        *)

\* What write_block keeps as long as the function runs, and what the function
\* keeps around it: ctx->buffer is empty behind a section, and only a failure that
\* was ignored leaves the sections without a start.
FunctionInv ==
  /\ TypeOK
  /\ Running => WriterOK
  /\ u.pc = "pad" => /\ Len(w.stored) < PerBlock
                     /\ w.pc = "idle" => w.stored = <<>>
  /\ u.pc = "close" => u.section = 3
  /\ start[1] = -1 \/ u.pc = "nowhere" => ignored

\* What is written are sequences of page values.
LEMMA ContentTypes ==
  ASSUME update \in Updates
  PROVE  /\ \A k \in 1..3 : update[k] \in Seq(Values) /\ Content(k) = update[k]
         /\ \A k \in Sections : Content(k) \in Seq(Values)
<1>1. "zero" \in Values /\ "hdr" \in Values
  BY DeviceAssumption, UpdatesAssumption
<1>2. <<"zero">> \in Seq(Values) /\ <<"hdr">> \in Seq(Values)
  BY <1>1
<1>3. \A k \in 1..3 : update[k] \in Seq(Values)
  BY UpdatesAssumption
<1>4. \A k \in Sections : k = 0 \/ k = 4 \/ k \in 1..3
  BY DEF Sections
<1>5. \A k \in 1..3 : k # 0 /\ k # 4
  OBVIOUS
<1>6. QED
  BY <1>2, <1>3, <1>4, <1>5 DEF Content

\* A step of the function that hands a context to write_block, or takes it back.
LEMMA ContextStep ==
  ASSUME WriterOK, UNCHANGED <<nand, bad, lost, faults>>,
         w' \in Contexts, w'.pc \in {"idle", "block", "full"},
         Len(w'.stored) <= PerBlock, w'.pc = "idle" => Len(w'.stored) < PerBlock
  PROVE  WriterOK'
BY DEF WriterOK, DeviceTypeOK

\* mtd_erase_blocks and mtd_write_close, with a context that may be full.
LEMMA SyncStep ==
  ASSUME WriterOK, UNCHANGED <<nand, bad, lost, faults>>, w' = Sync(w)
  PROVE  /\ WriterOK' /\ w'.stored = w.stored
         /\ w'.pc = IF w.stored = <<>> THEN "idle" ELSE "block"
<1>1. w \in Contexts /\ Len(w.stored) <= PerBlock
  BY DEF WriterOK, DeviceTypeOK
<1>2. /\ w' \in Contexts /\ w'.stored = w.stored
      /\ w'.pc = IF w.stored = <<>> THEN "idle" ELSE "block"
  BY <1>1, SyncType
<1>3. w'.pc = "idle" => Len(w'.stored) < PerBlock
  BY <1>2, DeviceAssumption
<1>4. QED
  BY <1>1, <1>2, <1>3, ContextStep

LEMMA InitFunction == Init => FunctionInv
<1> SUFFICES ASSUME Init PROVE FunctionInv
  OBVIOUS
<1>1. nand \in [Blocks -> Block]
  BY BlockTypes, DeviceAssumption DEF Init
<1>2. bad \subseteq Blocks /\ lost \subseteq Blocks /\ faults \in 0..MaxFaults
  BY DeviceAssumption DEF Init
<1>3. w = Opened /\ w \in Contexts
  BY OpenedType DEF Init
<1>4. WriterOK
  BY <1>1, <1>2, <1>3, DeviceAssumption DEF WriterOK, DeviceTypeOK, Opened
<1>5. update \in Updates /\ u \in Functions
  BY ContentTypes DEF Init, Functions, Sections
<1>6. start \in [1..3 -> -1..NBlocks] /\ offset \in [1..3 -> -1..NBlocks]
      /\ ignored \in BOOLEAN
  <2>1. 0 \in -1..NBlocks
    BY DeviceAssumption
  <2>2. QED
    BY <2>1 DEF Init
<1>7. QED
  BY <1>4, <1>5, <1>6 DEF FunctionInv, TypeOK, WriterOK, Init

\* Going on to the next section, from an offset or from -1.
LEMMA NextSectionType ==
  ASSUME TypeOK, u.section < 4, NEW pos \in -1..NBlocks, NextSection(pos)
  PROVE  /\ start' \in [1..3 -> -1..NBlocks] /\ offset' \in [1..3 -> -1..NBlocks]
         /\ u' \in Functions /\ u'.pc \in {"data", "close"}
         /\ u'.pc = "close" => u'.section = 3
<1>1. /\ w \in Contexts /\ update \in Updates /\ u \in Functions
      /\ start \in [1..3 -> -1..NBlocks] /\ offset \in [1..3 -> -1..NBlocks]
  BY DEF TypeOK, DeviceTypeOK
<1>2. u.section \in 0..3
  BY <1>1 DEF Functions, Sections
<1>3. start' \in [1..3 -> -1..NBlocks]
  BY <1>1, <1>2 DEF NextSection
<1>4. offset' \in [1..3 -> -1..NBlocks]
  <2>1. CASE u.section > 0
    <3>1. w.skipped \in Seq(Blocks) /\ start[u.section] \in -1..NBlocks
      BY <1>1, <1>2, <2>1 DEF Contexts
    <3>2. FindWriteStart(w.skipped, start[u.section]) \in -1..NBlocks
      BY <3>1, FindWriteStartType
    <3>3. QED
      BY <1>1, <2>1, <3>2 DEF NextSection
  <2>2. CASE ~(u.section > 0)
    BY <1>1, <2>2 DEF NextSection
  <2>3. QED
    BY <2>1, <2>2
<1>5. /\ u' \in Functions /\ u'.pc \in {"data", "close"}
      /\ u'.pc = "close" => u'.section = 3
  <2>1. CASE u.section < 3
    <3>1. /\ u' = [pc |-> "data", section |-> u.section + 1,
                   todo |-> Content(u.section + 1)]
          /\ u.section + 1 \in Sections
      BY <1>2, <2>1 DEF NextSection, Sections
    <3>2. Content(u.section + 1) \in Seq(Values)
      BY <1>1, <3>1, ContentTypes
    <3>3. QED
      BY <3>1, <3>2 DEF Functions
  <2>2. CASE ~(u.section < 3)
    <3>1. u' = [u EXCEPT !.pc = "close"] /\ u.section = 3
      BY <1>2, <2>2 DEF NextSection
    <3>2. QED
      BY <1>1, <3>1 DEF Functions
  <2>3. QED
    BY <2>1, <2>2
<1>6. QED
  BY <1>3, <1>4, <1>5

LEMMA NextFunction == FunctionInv /\ [Next]_vars => FunctionInv'
<1> SUFFICES ASSUME FunctionInv, [Next]_vars PROVE FunctionInv'
  OBVIOUS
<1>a. /\ TypeOK /\ DeviceTypeOK /\ nand \in [Blocks -> Block] /\ w \in Contexts
      /\ update \in Updates /\ u \in Functions /\ ignored \in BOOLEAN
      /\ start \in [1..3 -> -1..NBlocks] /\ offset \in [1..3 -> -1..NBlocks]
  BY DEF FunctionInv, TypeOK, DeviceTypeOK
<1>b. Running => WriterOK
  BY DEF FunctionInv
<1>c. WriterOK' /\ UNCHANGED <<update, start, offset, ignored>> /\ u' \in Functions
      => TypeOK'
  BY <1>a DEF TypeOK, WriterOK
<1>d. UNCHANGED <<device, update, start, offset, ignored>> /\ u' \in Functions
      => TypeOK' /\ (WriterOK => WriterOK')
  BY <1>a DEF TypeOK, WriterOK, DeviceTypeOK, device
<1>e. 0 \in Sections /\ 3 \in Sections /\ 4 \in Sections
  BY DEF Sections
<1>1. CASE Write
  <2>1. WriterOK /\ w.pc = "idle" /\ u.pc = "data" /\ u.todo \in Seq(Values)
        /\ Len(w.stored) < PerBlock
    BY <1>1, <1>a, <1>b DEF Write, Running, Functions, WriterOK
  <2>2. /\ w' \in Contexts /\ Len(w'.stored) <= PerBlock
        /\ w'.pc \in {"idle", "block"}
        /\ w'.pc = "idle" => Len(w'.stored) < PerBlock
        /\ Rest(w, u.todo) \in Seq(Values)
    BY <1>1, <1>a, <2>1, PutType DEF Write
  <2>3. WriterOK'
    BY <1>1, <2>1, <2>2, ContextStep DEF Write
  <2>4. u' \in Functions /\ u'.pc = "data"
    BY <1>1, <1>a, <2>1, <2>2 DEF Write, Functions
  <2>5. QED
    BY <1>1, <1>c, <2>3, <2>4 DEF Write, FunctionInv
<1>2. CASE Pad
  <2>1. WriterOK /\ w.pc = "idle" /\ Len(w.stored) < PerBlock
    BY <1>2, <1>b DEF Pad, Running, WriterOK
  <2>2. /\ WriterOK' /\ w'.stored = w.stored
        /\ w'.pc = IF w.stored = <<>> THEN "idle" ELSE "block"
    BY <1>2, <2>1, SyncStep DEF Pad
  <2>3. u' \in Functions /\ u'.pc = "pad"
    BY <1>2, <1>a DEF Pad, Functions
  <2>4. QED
    BY <1>2, <1>c, <2>1, <2>2, <2>3 DEF Pad, FunctionInv
<1>3. CASE WriteFails
  <2>1. WriterOK
    BY <1>3, <1>b DEF WriteFails, Running
  <2>2. WriterOK'
    BY <1>3, <2>1, SyncStep DEF WriteFails
  <2>3. u' \in Functions /\ u'.pc = "closing"
    BY <1>3, <1>a DEF WriteFails, Functions
  <2>4. QED
    BY <1>3, <1>c, <2>2, <2>3 DEF WriteFails, FunctionInv
<1>4. CASE Padded0
  <2>1. WriterOK /\ u.section < 4 /\ w.seek \in -1..NBlocks
    BY <1>4, <1>a, <1>b, DeviceAssumption DEF Padded0, Running, Contexts
  <2>2. /\ start' \in [1..3 -> -1..NBlocks] /\ offset' \in [1..3 -> -1..NBlocks]
        /\ u' \in Functions /\ u'.pc \in {"data", "close"}
        /\ u'.pc = "close" => u'.section = 3
    BY <1>4, <1>a, <2>1, NextSectionType DEF Padded0
  <2>3. WriterOK'
    BY <1>4, <2>1 DEF Padded0, device, WriterOK, DeviceTypeOK
  <2>4. TypeOK'
    BY <1>4, <1>a, <2>2, <2>3 DEF Padded0, TypeOK, WriterOK
  <2>5. start'[1] = -1 => ignored'
    <3>1. start'[1] \in {start[1], w.seek} /\ ignored' = ignored
      BY <1>4, <1>a DEF Padded0, NextSection, Functions, Sections
    <3>2. w.seek # -1
      BY <1>a, DeviceAssumption DEF Contexts
    <3>3. QED
      BY <3>1, <3>2 DEF FunctionInv
  <2>6. QED
    BY <2>2, <2>3, <2>4, <2>5 DEF FunctionInv
<1>5. CASE PadFails
  <2>1. WriterOK /\ u.section < 4 /\ -1 \in -1..NBlocks /\ Len(w.stored) < PerBlock
    BY <1>5, <1>b, DeviceAssumption DEF PadFails, Running, FunctionInv
  <2>2. /\ start' \in [1..3 -> -1..NBlocks] /\ offset' \in [1..3 -> -1..NBlocks]
        /\ u' \in Functions /\ u'.pc \in {"data", "close"}
        /\ u'.pc = "close" => u'.section = 3
    BY <1>5, <1>a, <2>1, NextSectionType DEF PadFails
  <2>3. w' \in Contexts /\ w'.pc = "idle" /\ w'.stored = w.stored
    BY <1>5, <1>a DEF PadFails, Contexts
  <2>4. WriterOK'
    BY <1>5, <1>a, <2>1, <2>3 DEF PadFails, WriterOK, DeviceTypeOK
  <2>5. TypeOK'
    BY <1>5, <1>a, <2>2, <2>4 DEF PadFails, TypeOK, WriterOK
  <2>6. ignored'
    BY <1>5 DEF PadFails
  <2>7. QED
    BY <2>2, <2>4, <2>5, <2>6 DEF FunctionInv
<1>6. CASE Close
  <2>1. WriterOK
    BY <1>6, <1>b DEF Close, Running
  <2>2. WriterOK'
    BY <1>6, <2>1, SyncStep DEF Close
  <2>3. QED
    BY <1>6, <1>a, <1>c, <2>2 DEF Close, FunctionInv
<1>7. CASE CloseFails
  <2>1. u' \in Functions /\ u'.pc = "failed"
    BY <1>7, <1>a DEF CloseFails, Functions
  <2>2. QED
    BY <1>7, <1>d, <2>1 DEF CloseFails, FunctionInv, Running
<1>8. CASE Reopen
  <2>1. WriterOK
    BY <1>8, <1>b DEF Reopen, Running
  <2>2. w' \in Contexts /\ w'.pc = "idle" /\ w'.stored = <<>>
    BY <1>8, OpenedType DEF Reopen, Opened
  <2>3. WriterOK'
    BY <1>8, <2>1, <2>2, DeviceAssumption DEF Reopen, WriterOK, DeviceTypeOK
  <2>4. u' \in Functions /\ u'.pc = "data"
    BY <1>8, <1>a, <1>e, ContentTypes DEF Reopen, Functions
  <2>5. QED
    BY <1>8, <1>c, <2>3, <2>4 DEF Reopen, FunctionInv
<1>9. CASE Finish
  <2>1. u' \in Functions /\ u'.pc = "done"
    BY <1>9, <1>a DEF Finish, Functions
  <2>2. QED
    BY <1>9, <1>d, <2>1 DEF Finish, FunctionInv, Running
<1>10. CASE Misaligned
  <2>1. WriterOK
    BY <1>10, <1>b DEF Misaligned, Running
  <2>2. WriterOK'
    BY <1>10, <2>1, SyncStep DEF Misaligned
  <2>3. u' \in Functions /\ u'.pc = "closing"
    BY <1>10, <1>a DEF Misaligned, Functions
  <2>4. QED
    BY <1>10, <1>c, <2>2, <2>3 DEF Misaligned, FunctionInv
<1>11. CASE Nowhere
  <2>1. WriterOK
    BY <1>11, <1>b DEF Nowhere, Running
  <2>2. WriterOK'
    BY <1>11, <2>1, SyncStep DEF Nowhere
  <2>3. u' \in Functions /\ u'.pc = "nowhere"
    BY <1>11, <1>a DEF Nowhere, Functions
  <2>4. ignored'
    BY <1>11 DEF Nowhere, HeaderAligned, FunctionInv
  <2>5. QED
    BY <1>11, <1>c, <2>2, <2>3, <2>4 DEF Nowhere, FunctionInv
<1>12. CASE FinishNowhere
  <2>1. u' \in Functions /\ u'.pc = "done"
    BY <1>12, <1>a DEF FinishNowhere, Functions
  <2>2. QED
    BY <1>12, <1>d, <2>1 DEF FinishNowhere, FunctionInv, Running
<1>13. CASE Fail
  <2>1. u' \in Functions /\ u'.pc = "failed"
    BY <1>13, <1>a DEF Fail, Functions
  <2>2. QED
    BY <1>13, <1>d, <2>1 DEF Fail, FunctionInv, Running
<1>14. CASE PowerLoss
  <2>1. nand' \in [Blocks -> Block]
    BY <1>14, <1>b, PowerLossPages DEF PowerLoss
  <2>2. faults' \in 0..MaxFaults
    BY <1>14, <1>a, DeviceAssumption DEF PowerLoss, Fault, DeviceTypeOK
  <2>3. u' \in Functions /\ u'.pc = "off"
    BY <1>14, <1>a DEF PowerLoss, Functions
  <2>4. TypeOK'
    BY <1>14, <1>a, <2>1, <2>2, <2>3 DEF PowerLoss, TypeOK, DeviceTypeOK
  <2>5. QED
    BY <1>14, <2>3, <2>4 DEF PowerLoss, FunctionInv, Running
<1>15. CASE Running /\ WriteBlock /\ UNCHANGED <<update, u, start, offset, ignored>>
  <2>1. WriterOK /\ WriterOK'
    BY <1>15, <1>b, WriteBlockStep
  <2>2. TypeOK'
    BY <1>15, <1>a, <1>c, <2>1
  <2>3. (w'.stored = w.stored /\ w'.pc # "idle") \/ w'.stored = <<>>
    BY <1>15, <2>1, WriteBlockContext
  <2>4. u.pc = "pad" => /\ Len(w'.stored) < PerBlock
                        /\ w'.pc = "idle" => w'.stored = <<>>
    BY <2>3, DeviceAssumption DEF FunctionInv
  <2>5. QED
    BY <1>15, <2>1, <2>2, <2>4 DEF FunctionInv
<1>16. CASE UNCHANGED vars
  BY <1>16, <1>a, <1>d DEF vars, device, FunctionInv, Running
<1>17. QED
  BY <1>1, <1>2, <1>3, <1>4, <1>5, <1>6, <1>7, <1>8, <1>9, <1>10, <1>11, <1>12,
     <1>13, <1>14, <1>15, <1>16 DEF Next

LEMMA FunctionAlways == Spec => []FunctionInv
<1>1. QED
  BY InitFunction, NextFunction, PTL DEF Spec

\* The types of the function and of the write context it drives, for every
\* update and every partition: every offset it records is one of the partition,
\* or the -1 of a failure.
THEOREM TypeCorrect == Spec => []TypeOK
<1>1. FunctionInv => TypeOK
  BY DEF FunctionInv
<1>2. QED
  BY <1>1, FunctionAlways, PTL

-----------------------------------------------------------------------------
(* The walk over the partition                                             *)

\* The function has not failed so far.
Writing == u.pc \in {"data", "pad", "close", "done"}

\* The blocks behind the writer are those it has written and those it has
\* recorded as skipped; in the first pass, these are the bad ones and the ones
\* given up, and none was given up ahead.
Walked ==
  Writing /\ ~ignored =>
    /\ Ascending(w.skipped)
    /\ \A i \in 1..Len(w.skipped) : w.skipped[i] < Here(w)
    /\ u.section < 4 =>
         /\ \A b \in Blocks : b < Here(w) =>
              (b \in bad \cup lost <=> Skips(w.skipped, b))
         /\ \A b \in lost : b < Here(w)

\* write_block comes to a block from the one it skipped, or begins with it.
Swept ==
  /\ w.pos <= w.seek \/ Skips(w.skipped, w.pos - 1)
  /\ w.pc = "full" => w.pos = NBlocks
  /\ u.section = 4 /\ u.pc = "data" /\ w.pc = "idle" => w.pos <= w.seek

\* mtd_write_data and mtd_erase_blocks go on where the writer is.
LEMMA PutHere ==
  ASSUME NEW c \in Contexts, NEW todo, c.pc = "idle"
  PROVE  /\ Here(Put(c, todo)) = c.seek
         /\ Put(c, todo).seek = c.seek /\ Put(c, todo).skipped = c.skipped
         /\ Put(c, todo).pos \in {c.pos, c.seek}
         /\ Put(c, todo).pc \in {"idle", "block"}
         /\ Put(c, todo).pc = "idle" => Put(c, todo).pos = c.pos
BY DEF Put, BeginBlock, Here, Contexts

LEMMA SyncHere ==
  ASSUME NEW c \in Contexts
  PROVE  /\ Here(Sync(c)) = c.seek
         /\ Sync(c).seek = c.seek /\ Sync(c).skipped = c.skipped
         /\ Sync(c).pc \in {"idle", "block"}
         /\ Sync(c).pos = IF c.stored = <<>> THEN c.pos ELSE c.seek
BY DEF Sync, BeginBlock, Here, Contexts

\* What is skipped after one more block has been.
LEMMA SkipsAppend ==
  ASSUME NEW skipped \in Seq(Blocks), NEW b \in Blocks
  PROVE  /\ Append(skipped, b) \in Seq(Blocks)
         /\ \A c : Skips(Append(skipped, b), c) <=> Skips(skipped, c) \/ c = b
         /\ Ascending(skipped) /\ (\A i \in 1..Len(skipped) : skipped[i] < b) =>
              Ascending(Append(skipped, b))
         /\ \A h \in Int : (\A i \in 1..Len(skipped) : skipped[i] < h) /\ b < h =>
              \A i \in 1..Len(Append(skipped, b)) : Append(skipped, b)[i] < h
<1> DEFINE longer == Append(skipped, b)
           N == Len(skipped)
<1>1. /\ longer \in Seq(Blocks) /\ N \in Nat /\ Len(longer) = N + 1
      /\ \A i \in 1..N : longer[i] = skipped[i]
      /\ longer[N + 1] = b
  OBVIOUS
<1> HIDE DEF longer, N
<1>2. \A i \in 1..(N + 1) : i \in 1..N \/ i = N + 1
  BY <1>1
<1>3. 1..N \subseteq 1..(N + 1) /\ N + 1 \in 1..(N + 1) /\ N + 1 \notin 1..N
  BY <1>1
<1>4. \A c : Skips(longer, c) <=> Skips(skipped, c) \/ c = b
  BY <1>1, <1>2, <1>3 DEF Skips, N
<1>5. Ascending(skipped) /\ (\A i \in 1..N : skipped[i] < b) => Ascending(longer)
  <2>1. SUFFICES ASSUME Ascending(skipped), \A i \in 1..N : skipped[i] < b,
                        NEW i \in 1..(N + 1), NEW j \in 1..(N + 1), i < j
                 PROVE  longer[i] < longer[j]
    BY <1>1 DEF Ascending
  <2>2. i \in 1..N
    BY <1>1, <2>1
  <2>3. CASE j = N + 1
    BY <1>1, <2>1, <2>2, <2>3
  <2>4. CASE j # N + 1
    BY <1>1, <1>2, <2>1, <2>2, <2>4 DEF Ascending, N
  <2>5. QED
    BY <2>3, <2>4
<1>6. ASSUME NEW h \in Int, \A i \in 1..N : skipped[i] < h, b < h,
             NEW i \in 1..(N + 1)
      PROVE  longer[i] < h
  BY <1>1, <1>2, <1>6
<1>7. QED
  BY <1>1, <1>4, <1>5, <1>6 DEF longer, N

LEMMA InitWalk == Init => Walked /\ Swept
<1> SUFFICES ASSUME Init PROVE Walked /\ Swept
  OBVIOUS
<1>1. /\ w.skipped = <<>> /\ Here(w) = 0 /\ w.pos = 0 /\ w.seek = 0
      /\ w.pc = "idle" /\ lost = {}
  BY DEF Init, Opened, Here
<1>2. \A b \in Blocks : ~(b < 0)
  BY DEF Blocks
<1>3. Len(w.skipped) = 0
  BY <1>1
<1>4. \A i \in 1..Len(w.skipped) : FALSE
  BY <1>3
<1>5. QED
  BY <1>1, <1>2, <1>4 DEF Walked, Swept, Ascending

\* A step of write_block, at the block behind what was walked over.
LEMMA WalkStep ==
  ASSUME FunctionInv, Walked, Swept, Running, WriteBlock,
         UNCHANGED <<update, u, start, offset, ignored>>
  PROVE  Walked' /\ Swept'
<1>a. /\ w \in Contexts /\ WriterOK /\ w.skipped \in Seq(Blocks)
      /\ w.pos \in Nat /\ w.pos \in 0..NBlocks /\ w.seek \in Nat
      /\ NBlocks \in Nat /\ \A b \in Blocks : b \in Nat
      /\ lost \subseteq Blocks /\ bad \subseteq Blocks
  <2>1. w \in Contexts /\ WriterOK /\ lost \subseteq Blocks /\ bad \subseteq Blocks
    BY DEF FunctionInv, TypeOK, DeviceTypeOK
  <2>2. w.pos \in 0..NBlocks /\ w.seek \in 0..NBlocks /\ w.skipped \in Seq(Blocks)
    BY <2>1 DEF Contexts
  <2>3. NBlocks \in Nat /\ \A b \in Blocks : b \in Nat
    BY DeviceAssumption DEF Blocks
  <2>4. QED
    BY <2>1, <2>2, <2>3
<1>b. /\ w.pc # "idle" /\ bad' = bad /\ Here(w) = w.pos
      /\ \A i \in 1..Len(w.skipped) : w.skipped[i] \in Nat
  BY <1>a, WriteBlockContext DEF Here
<1>1. CASE /\ w'.pc # "idle" /\ w'.pos = w.pos /\ w'.skipped = w.skipped
           /\ lost' = lost
  <2>1. Here(w') = w.pos
    BY <1>1 DEF Here
  <2>2. Walked'
    BY <1>1, <1>b, <2>1 DEF Walked, Writing
  <2>3. w'.seek = w.seek \/ w.pos <= w'.seek
    <3>1. CASE VerifyFails
      <4>1. \E seek \in {w.pos, w.pos + 1} : w' = [NextTry(w) EXCEPT !.seek = seek]
        BY <3>1 DEF VerifyFails
      <4>2. w'.seek \in {w.pos, w.pos + 1}
        BY <1>a, <4>1, NextTryType DEF Contexts
      <4>3. QED
        BY <1>a, <4>2
    <3>2. CASE EraseFails
      BY <3>2, <1>a, NextTryType DEF EraseFails
    <3>3. CASE Verified
      BY <3>3, <1>1, <1>a DEF Verified, Contexts
    <3>4. CASE SkipBadBlock \/ NoSpace \/ EraseBlock \/ ProgramPage \/ ProgramFails
               \/ GiveUp
      BY <3>4, <1>a DEF SkipBadBlock, NoSpace, EraseBlock, ProgramPage,
           ProgramFails, GiveUp, Contexts
    <3>5. QED
      BY <3>1, <3>2, <3>3, <3>4 DEF WriteBlock
  <2>4. w'.pc = "full" => w.pos = NBlocks
    <3>1. CASE NoSpace
      BY <3>1 DEF NoSpace
    <3>2. CASE VerifyFails
      <4>1. \E seek \in {w.pos, w.pos + 1} : w' = [NextTry(w) EXCEPT !.seek = seek]
        BY <3>2 DEF VerifyFails
      <4>2. w'.pc \in {"block", "giveup"}
        BY <1>a, <4>1, NextTryType DEF Contexts
      <4>3. QED
        BY <4>2
    <3>3. CASE EraseFails
      BY <3>3, <1>a, NextTryType DEF EraseFails
    <3>4. CASE SkipBadBlock \/ EraseBlock \/ ProgramPage \/ ProgramFails \/ Verified
               \/ GiveUp
      BY <3>4, <1>a DEF SkipBadBlock, AtBlock, EraseBlock, ProgramPage,
           ProgramFails, Verified, GiveUp, Contexts
    <3>5. QED
      BY <3>1, <3>2, <3>3, <3>4 DEF WriteBlock
  <2>5. Swept'
    BY <1>1, <1>a, <2>3, <2>4 DEF Swept
  <2>6. QED
    BY <2>2, <2>5
<1>2. CASE /\ w'.pc = "idle" /\ w'.seek = w.pos + 1 /\ w'.pos = w.pos
           /\ w'.skipped = w.skipped /\ lost' = lost /\ w.pos \in Blocks \ bad
  <2>1. Here(w') = w.pos + 1
    BY <1>2 DEF Here
  <2>2. Walked'
    <3>1. SUFFICES ASSUME Writing, ~ignored
                   PROVE  /\ \A i \in 1..Len(w.skipped) : w.skipped[i] < w.pos + 1
                          /\ u.section < 4 =>
                               /\ \A b \in Blocks : b < w.pos + 1 =>
                                    (b \in bad \cup lost <=> Skips(w.skipped, b))
                               /\ \A b \in lost : b < w.pos + 1
      BY <1>2, <1>b, <2>1 DEF Walked, Writing
    <3>2. \A i \in 1..Len(w.skipped) : w.skipped[i] < w.pos
      BY <3>1, <1>b DEF Walked
    <3>3. ~Skips(w.skipped, w.pos)
      BY <1>a, <1>b, <3>2 DEF Skips
    <3>4. \A b \in Nat : b < w.pos + 1 => b = w.pos \/ b < w.pos
      BY <1>a
    <3>5. u.section < 4 => w.pos \notin lost
      BY <3>1, <1>a, <1>b DEF Walked
    <3>6. \A i \in 1..Len(w.skipped) : w.skipped[i] < w.pos + 1
      BY <1>a, <1>b, <3>2
    <3>7. u.section < 4 => \A b \in lost : b < w.pos + 1
      BY <3>1, <1>a, <1>b DEF Walked
    <3>8. u.section < 4 => \A b \in Blocks : b < w.pos + 1 =>
            (b \in bad \cup lost <=> Skips(w.skipped, b))
      BY <3>1, <1>2, <1>a, <1>b, <3>3, <3>4, <3>5 DEF Walked
    <3>9. QED
      BY <3>6, <3>7, <3>8
  <2>3. Swept'
    BY <1>2, <1>a DEF Swept
  <2>4. QED
    BY <2>2, <2>3
<1>3. CASE /\ w'.pc = "block" /\ w'.pos = w.pos + 1
           /\ w'.skipped = Append(w.skipped, w.pos) /\ w.pos \in Blocks
           /\ \/ w.pos \in bad /\ lost' = lost
              \/ lost' = lost \cup {w.pos}
  <2>1. Here(w') = w.pos + 1 /\ w.pos + 1 \in Int
    BY <1>3, <1>a DEF Here
  <2>2. \A c : Skips(w'.skipped, c) <=> Skips(w.skipped, c) \/ c = w.pos
    BY <1>3, <1>a, SkipsAppend
  <2>3. Walked'
    <3>1. SUFFICES ASSUME Writing, ~ignored
                   PROVE  /\ Ascending(w'.skipped)
                          /\ \A i \in 1..Len(w'.skipped) : w'.skipped[i] < w.pos + 1
                          /\ u.section < 4 =>
                               /\ \A b \in Blocks : b < w.pos + 1 =>
                                    (b \in bad \cup lost' <=> Skips(w'.skipped, b))
                               /\ \A b \in lost' : b < w.pos + 1
      BY <1>b, <2>1 DEF Walked, Writing
    <3>2. Ascending(w.skipped) /\ \A i \in 1..Len(w.skipped) : w.skipped[i] < w.pos
      BY <3>1, <1>b DEF Walked
    <3>3. Ascending(w'.skipped)
      BY <1>3, <1>a, <3>2, SkipsAppend
    <3>4. \A i \in 1..Len(w.skipped) : w.skipped[i] < w.pos + 1
      BY <1>a, <1>b, <3>2
    <3>5. \A i \in 1..Len(w'.skipped) : w'.skipped[i] < w.pos + 1
      <4>1. w.pos < w.pos + 1
        BY <1>a
      <4>2. QED
        BY <1>3, <1>a, <2>1, <3>4, <4>1, SkipsAppend
    <3>6. \A b \in Nat : b < w.pos + 1 => b = w.pos \/ b < w.pos
      BY <1>a
    <3>7. u.section < 4 => \A b \in lost' : b < w.pos + 1
      BY <3>1, <1>3, <1>a, <1>b DEF Walked
    <3>8. u.section < 4 => \A b \in Blocks : b < w.pos + 1 =>
            (b \in bad \cup lost' <=> Skips(w'.skipped, b))
      BY <3>1, <1>3, <1>a, <1>b, <2>2, <3>6 DEF Walked
    <3>9. QED
      BY <3>3, <3>5, <3>7, <3>8
  <2>4. Skips(w'.skipped, w'.pos - 1)
    BY <1>3, <1>a, <2>2
  <2>5. Swept'
    BY <1>3, <2>4 DEF Swept
  <2>6. QED
    BY <2>3, <2>5
<1>4. QED
  BY <1>a, <1>1, <1>2, <1>3, WriteBlockContext

LEMMA NextWalk ==
  FunctionInv /\ Walked /\ Swept /\ [Next]_vars => Walked' /\ Swept'
<1> SUFFICES ASSUME FunctionInv, Walked, Swept, [Next]_vars
             PROVE  Walked' /\ Swept'
  OBVIOUS
<1>a. /\ w \in Contexts /\ u \in Functions /\ w.seek \in 0..NBlocks
      /\ w.pos \in 0..NBlocks /\ NBlocks \in Nat
  <2>1. w \in Contexts /\ u \in Functions
    BY DEF FunctionInv, TypeOK, DeviceTypeOK
  <2>2. QED
    BY <2>1, DeviceAssumption DEF Contexts
\* A failure, or an error that is ignored, ends the walk.
<1>b. ~Writing' \/ ignored' => Walked'
  BY DEF Walked
\* The walk goes on from where the writer is.
<1>c. ASSUME Writing, ignored' = ignored, u'.section < 4 => u.section < 4,
             UNCHANGED <<bad, lost>>, w'.skipped = w.skipped, Here(w') = Here(w)
      PROVE  Walked'
  BY <1>c DEF Walked, Writing
\* The context goes to write_block, and with it its position.
<1>d. ASSUME w'.skipped = w.skipped, w'.seek = w.seek, w'.pos = w.seek,
             w'.pc # "full"
      PROVE  Swept'
  BY <1>a, <1>d DEF Swept
<1>e. ASSUME w'.skipped = w.skipped, w'.seek = w.seek, w'.pos = w.pos,
             w'.pc # "full",
             u'.section = 4 /\ u'.pc = "data" /\ w'.pc = "idle" => w.pos <= w.seek
      PROVE  Swept'
  BY <1>e DEF Swept
<1>f. ASSUME w' = w, u'.section = 4 /\ u'.pc = "data" => u.section = 4 /\ u.pc = "data"
      PROVE  Swept'
  BY <1>f DEF Swept
<1>g. ASSUME w' = Sync(w), u'.pc # "data"
      PROVE  Swept'
  <2>1. /\ w'.seek = w.seek /\ w'.skipped = w.skipped
        /\ w'.pc \in {"idle", "block"} /\ w'.pos \in {w.pos, w.seek}
    BY <1>a, <1>g, SyncHere
  <2>2. QED
    BY <1>d, <1>e, <1>g, <2>1
<1>1. CASE Write
  <2>1. w' = Put(w, u.todo) /\ w.pc = "idle" /\ u.pc = "data"
        /\ u' = [u EXCEPT !.todo = Rest(w, u.todo)] /\ ignored' = ignored
        /\ UNCHANGED <<bad, lost>>
    BY <1>1 DEF Write
  <2>2. /\ Here(w') = w.seek /\ w'.seek = w.seek /\ w'.skipped = w.skipped
        /\ w'.pos \in {w.pos, w.seek} /\ w'.pc \in {"idle", "block"}
    BY <1>a, <2>1, PutHere
  <2>3. u'.pc = "data" /\ u'.section = u.section
    BY <1>a, <2>1 DEF Functions
  <2>4. Here(w) = w.seek /\ Writing
    BY <2>1 DEF Here, Writing
  <2>5. Walked'
    BY <1>c, <2>1, <2>2, <2>3, <2>4
  <2>6. Swept'
    <3>1. u.section = 4 => w.pos <= w.seek
      BY <2>1 DEF Swept
    <3>2. QED
      BY <1>d, <1>e, <2>1, <2>2, <2>3, <3>1
  <2>7. QED
    BY <2>5, <2>6
<1>2. CASE Pad
  <2>1. w' = Sync(w) /\ w.pc = "idle" /\ u.pc = "data"
        /\ u' = [u EXCEPT !.pc = "pad"] /\ ignored' = ignored
        /\ UNCHANGED <<bad, lost>>
    BY <1>2 DEF Pad
  <2>2. /\ Here(w') = w.seek /\ w'.skipped = w.skipped
    BY <1>a, <2>1, SyncHere
  <2>3. u'.pc = "pad" /\ u'.section = u.section
    BY <1>a, <2>1 DEF Functions
  <2>4. Here(w) = w.seek /\ Writing
    BY <2>1 DEF Here, Writing
  <2>5. Walked'
    BY <1>c, <2>1, <2>2, <2>3, <2>4
  <2>6. QED
    BY <1>g, <2>1, <2>3, <2>5
<1>3. CASE WriteFails \/ Misaligned \/ Nowhere
  <2>1. w' = Sync(w) /\ \E pc \in {"closing", "nowhere"} : u' = [u EXCEPT !.pc = pc]
    BY <1>3 DEF WriteFails, Misaligned, Nowhere
  <2>2. u'.pc \in {"closing", "nowhere"}
    BY <1>a, <2>1 DEF Functions
  <2>3. QED
    BY <1>b, <1>g, <2>1, <2>2 DEF Writing
<1>4. CASE Padded0
  <2>1. /\ w' = w /\ bad' = bad /\ lost' = lost /\ ignored' = ignored
        /\ u.pc = "pad" /\ u.section < 4 /\ NextSection(w.seek)
    BY <1>4 DEF Padded0, device
  <2>2. u'.section # 4
    BY <1>a, <2>1 DEF NextSection, Functions, Sections
  <2>3. QED
    BY <1>c, <1>f, <2>1, <2>2 DEF Writing
<1>5. CASE PadFails
  <2>1. /\ w' = [w EXCEPT !.pc = "idle"] /\ ignored' = TRUE
        /\ u.pc = "pad" /\ u.section < 4 /\ NextSection(-1)
    BY <1>5 DEF PadFails
  <2>2. u'.section # 4
    BY <1>a, <2>1 DEF NextSection, Functions, Sections
  <2>3. /\ w'.skipped = w.skipped /\ w'.seek = w.seek /\ w'.pos = w.pos
        /\ w'.pc = "idle"
    BY <1>a, <2>1 DEF Contexts
  <2>4. QED
    BY <1>b, <1>e, <2>1, <2>2, <2>3
<1>6. CASE Close
  <2>1. /\ w' = Sync(w) /\ w.pc = "idle" /\ u.pc = "close" /\ u' = u
        /\ ignored' = ignored /\ UNCHANGED <<bad, lost>>
    BY <1>6 DEF Close
  <2>2. /\ Here(w') = w.seek /\ w'.skipped = w.skipped
    BY <1>a, <2>1, SyncHere
  <2>3. Here(w) = w.seek /\ Writing
    BY <2>1 DEF Here, Writing
  <2>4. QED
    BY <1>c, <1>g, <2>1, <2>2, <2>3
<1>7. CASE CloseFails \/ Fail \/ FinishNowhere
  <2>1. /\ w' = w
        /\ \/ u'.pc = "failed"
           \/ u'.pc = "done" /\ ignored'
    BY <1>7, <1>a DEF CloseFails, Fail, FinishNowhere, FunctionInv, Functions, device
  <2>2. QED
    BY <1>b, <1>f, <2>1 DEF Writing
<1>8. CASE Reopen
  <2>1. /\ w' = Opened
        /\ u' = [pc |-> "data", section |-> 4, todo |-> Content(4)]
    BY <1>8 DEF Reopen
  <2>2. /\ w'.skipped = <<>> /\ w'.pos = 0 /\ w'.seek = 0 /\ w'.pc = "idle"
        /\ u'.section = 4
    BY <2>1 DEF Opened
  <2>3. Len(w'.skipped) = 0
    BY <2>2
  <2>4. \A i \in 1..Len(w'.skipped) : FALSE
    BY <2>3
  <2>5. Walked'
    BY <2>2, <2>4 DEF Walked, Ascending
  <2>6. Swept'
    BY <2>2 DEF Swept
  <2>7. QED
    BY <2>5, <2>6
<1>9. CASE Finish
  <2>1. /\ w' = w /\ bad' = bad /\ lost' = lost /\ ignored' = ignored
        /\ u.pc = "pad" /\ u' = [u EXCEPT !.pc = "done"]
    BY <1>9 DEF Finish, device
  <2>2. u'.pc = "done" /\ u'.section = u.section
    BY <1>a, <2>1 DEF Functions
  <2>3. QED
    BY <1>c, <1>f, <2>1, <2>2 DEF Writing
<1>10. CASE PowerLoss
  <2>1. w' = w /\ u'.pc = "off"
    BY <1>10, <1>a DEF PowerLoss, Functions
  <2>2. QED
    BY <1>b, <1>f, <2>1 DEF Writing
<1>11. CASE Running /\ WriteBlock /\ UNCHANGED <<update, u, start, offset, ignored>>
  BY <1>11, WalkStep
<1>12. CASE UNCHANGED vars
  BY <1>12 DEF vars, device, Walked, Swept, Writing
<1>13. QED
  BY <1>1, <1>2, <1>3, <1>4, <1>5, <1>6, <1>7, <1>8, <1>9, <1>10, <1>11, <1>12
     DEF Next

-----------------------------------------------------------------------------
(* The sections of the first pass                                          *)

\* How many sound blocks come before section k.
From(k) == Rank(Sound, start[k])

\* Section k is on the flash, on the sound blocks from its start on, and a reader
\* who skips what mtd_find_write_start skipped finds the first of them.
Stored(k) ==
  /\ start[1] <= start[k] /\ start[k] <= Here(w)
  /\ \A c \in Chunks(update[k]) :
       /\ From(k) + c < Turn(w, Sound)
       /\ Placed(nand, Sound, From(k), update[k], c)
  /\ update[k] # <<>> =>
       /\ offset[k] \in Sound /\ start[k] <= offset[k]
       /\ Rank(Sound, offset[k]) = From(k)

\* Every section behind the one at hand is stored; the one at hand is being fed
\* to mtd_write_data or has its last block padded.
Storing ==
  u.pc \in {"data", "pad", "close"} /\ ~ignored /\ u.section < 4 =>
    /\ \A k \in 1..3 : k <= u.section => start[k] \in Nat
    /\ \A k \in 1..3 : k < u.section \/ u.pc = "close" => Stored(k)
    /\ u.section \in 1..3 =>
         /\ start[1] <= start[u.section] /\ start[u.section] <= Here(w)
         /\ u.pc = "data" => Feeding(nand, Sound, w, From(u.section),
                                     update[u.section], u.todo)
         /\ u.pc = "pad" => Closing(nand, Sound, w, From(u.section),
                                    update[u.section])

\* Ranks do not decrease.
LEMMA RankMonotone ==
  ASSUME NEW S \in SUBSET Nat, NEW b \in Nat, NEW c \in Nat, b <= c
  PROVE  Rank(S, b) <= Rank(S, c)
<1>1. \A d \in S : d < b => d < c
  OBVIOUS
<1>2. {d \in S : d < b} \in SUBSET {d \in S : d < c}
  BY <1>1, Zenon
<1>3. IsFiniteSet({d \in S : d < c})
  BY RankType
<1>4. Cardinality({d \in S : d < b}) <= Cardinality({d \in S : d < c})
  BY <1>2, <1>3, FS_Subset
<1>5. QED
  BY <1>4 DEF Rank

\* A file begins where the writer is, when nothing is pending.
LEMMA FreshFeeds ==
  ASSUME NEW nd, NEW good \in SUBSET Nat, NEW c \in Contexts,
         NEW file \in Seq(Values), c.pc = "idle", c.stored = <<>>
  PROVE  Feeding(nd, good, c, Turn(c, good), file, file)
<1> DEFINE t == Turn(c, good) - Turn(c, good)
<1>1. c.seek \in Nat
  BY DeviceAssumption DEF Contexts
<1>2. Turn(c, good) \in Nat
  BY <1>1, RankType DEF Turn, Here
<1>3. t = 0 /\ PerBlock \in Nat /\ Len(file) \in Nat /\ Len(c.stored) = 0
  BY <1>2, DeviceAssumption
<1>4. 0 * PerBlock = 0
  BY <1>3
<1>5. \A k \in Chunks(file) : ~(k < 0)
  BY DEF Chunks
<1>6. c.stored = SubSeq(file, 1, 0) /\ file = SubSeq(file, 1, Len(file))
  OBVIOUS
<1>7. 0 + 0 <= Len(file) /\ 0 + 0 = 0 /\ 0 + 1 = 1 /\ 0 + 0 + 1 = 1
  BY <1>3
<1> HIDE DEF t
<1>8. /\ t \in Nat
      /\ \A k \in Chunks(file) : k < t => Placed(nd, good, Turn(c, good), file, k)
      /\ t * PerBlock + Len(c.stored) <= Len(file)
      /\ c.stored = SubSeq(file, t * PerBlock + 1, t * PerBlock + Len(c.stored))
      /\ file = SubSeq(file, t * PerBlock + Len(c.stored) + 1, Len(file))
  BY <1>3, <1>4, <1>5, <1>6, <1>7
<1>9. QED
  BY <1>8 DEF Feeding, t

\* The first chunk of a section that is not empty.
LEMMA FirstChunk ==
  ASSUME NEW file \in Seq(Values), file # <<>>
  PROVE  0 \in Chunks(file)
<1>1. Len(file) \in Nat /\ Len(file) > 0 /\ PerBlock \in Nat
  BY DeviceAssumption
<1>2. 0 * PerBlock = 0 /\ 0 \in 0..Len(file)
  BY <1>1
<1>3. QED
  BY <1>1, <1>2 DEF Chunks

\* What mtd_find_write_start finds for a section is the block that its first
\* chunk went to, whatever was skipped before it.
LEMMA OffsetFound ==
  ASSUME FunctionInv, Walked, Writing, ~ignored, u.section < 4,
         NEW s \in 1..3, start[s] \in Nat, start[s] <= Here(w), update[s] # <<>>,
         From(s) < Turn(w, Sound), Placed(nand, Sound, From(s), update[s], 0),
         NEW r, r = FindWriteStart(w.skipped, start[s])
  PROVE  r \in Sound /\ start[s] <= r /\ Rank(Sound, r) = From(s)
<1>1. /\ w.skipped \in Seq(Blocks) /\ Here(w) \in Nat
      /\ Sound \in SUBSET Nat /\ Sound = Blocks \ (bad \cup lost)
  <2>1. w \in Contexts
    BY DEF FunctionInv, TypeOK, DeviceTypeOK
  <2>2. QED
    BY <2>1, DeviceAssumption DEF Contexts, Here, Sound, Blocks
<1>2. /\ Ascending(w.skipped)
      /\ \A b \in Blocks : b < Here(w) =>
           (b \in bad \cup lost <=> Skips(w.skipped, b))
  BY DEF Walked
<1>3. /\ r \in Nat /\ start[s] <= r /\ ~Skips(w.skipped, r)
      /\ \A b \in Nat : start[s] <= b /\ b < r => Skips(w.skipped, b)
  BY <1>1, <1>2, FindWriteStartSkips
<1>4. PICK b \in Sound : Rank(Sound, b) = From(s) + 0
  BY DEF Placed
<1>5. b \in Nat /\ b \in Blocks /\ From(s) \in Nat /\ Rank(Sound, b) = From(s)
  <2>1. From(s) \in Nat
    BY <1>1, RankType DEF From
  <2>2. b \in Nat /\ b \in Blocks
    BY <1>1, <1>4
  <2>3. QED
    BY <1>4, <2>1, <2>2
<1>6. b < Here(w)
  <2>1. ASSUME Here(w) <= b
        PROVE  FALSE
    <3>1. Rank(Sound, Here(w)) <= Rank(Sound, b)
      BY <1>1, <1>5, <2>1, RankMonotone
    <3>2. Rank(Sound, Here(w)) \in Nat
      BY <1>1, RankType
    <3>3. QED
      BY <1>5, <3>1, <3>2 DEF Turn
  <2>2. QED
    BY <1>1, <1>5, <2>1
<1>7. start[s] <= b
  <2>1. ASSUME b + 1 <= start[s]
        PROVE  FALSE
    <3>1. Rank(Sound, b + 1) = Rank(Sound, b) + 1
      BY <1>1, <1>4, <1>5, RankNext
    <3>2. Rank(Sound, b + 1) <= Rank(Sound, start[s])
      BY <1>1, <1>5, <2>1, RankMonotone
    <3>3. QED
      BY <1>5, <3>1, <3>2 DEF From
  <2>2. QED
    BY <1>5, <2>1
<1>8. r <= b
  <2>1. b < r => Skips(w.skipped, b)
    BY <1>3, <1>5, <1>7
  <2>2. ~Skips(w.skipped, b)
    BY <1>1, <1>2, <1>4, <1>5, <1>6
  <2>3. QED
    BY <1>3, <1>5, <2>1, <2>2
<1>9. r \in Sound
  <2>1. r \in Blocks /\ r < Here(w)
    BY <1>1, <1>3, <1>5, <1>6, <1>8, DeviceAssumption DEF Blocks
  <2>2. QED
    BY <1>1, <1>2, <1>3, <2>1
<1>10. Rank(Sound, r) = From(s)
  <2>1. Rank(Sound, start[s]) <= Rank(Sound, r) /\ Rank(Sound, r) <= Rank(Sound, b)
    BY <1>1, <1>3, <1>5, <1>8, RankMonotone
  <2>2. Rank(Sound, r) \in Nat
    BY <1>1, <1>3, RankType
  <2>3. QED
    BY <1>5, <2>1, <2>2 DEF From
<1>11. QED
  BY <1>3, <1>9, <1>10

\* A stored section stays stored while write_block is at work behind it.
LEMMA StoredStep ==
  ASSUME FunctionInv, WriterOK, WriteBlock, w.pos \notin lost,
         UNCHANGED <<update, start, offset>>,
         NEW k \in 1..3, start[k] \in Nat, Stored(k)
  PROVE  Stored(k)'
<1>a. /\ update[k] \in Seq(Values) /\ w \in Contexts /\ w' \in Contexts
      /\ Sound \in SUBSET Nat
  <2>1. update \in Updates /\ w \in Contexts
    BY DEF FunctionInv, TypeOK, DeviceTypeOK
  <2>2. w' \in Contexts
    BY WriteBlockStep DEF WriterOK, DeviceTypeOK
  <2>3. QED
    BY <2>1, <2>2, ContentTypes, DeviceAssumption DEF Sound, Blocks
<1>1. Here(w) = w.pos /\ Here(w) <= Here(w') /\ Here(w') \in Nat /\ w.pos \in Nat
  BY <1>a, WriteBlockContext, DeviceAssumption DEF Here, Contexts
<1>2. From(k)' = From(k) /\ From(k) \in Nat
  <2>1. Rank(Sound', start[k]) = Rank(Sound, start[k])
    BY <1>1, SoundTurn DEF Stored
  <2>2. QED
    BY <1>a, <2>1, RankType DEF From
<1>3. Turn(w, Sound) <= Turn(w', Sound') /\ Turn(w, Sound) \in Nat
  BY SoundTurn
<1>4. \A c \in Chunks(update[k]) : c \in Nat
  BY DEF Chunks
<1>5. \A c \in Chunks(update[k]) :
        /\ From(k) + c < Turn(w', Sound')
        /\ Placed(nand', Sound', From(k), update[k], c)
  <2>1. SUFFICES ASSUME NEW c \in Chunks(update[k])
                 PROVE  /\ From(k) + c < Turn(w', Sound')
                        /\ Placed(nand', Sound', From(k), update[k], c)
    OBVIOUS
  <2>2. From(k) + c < Turn(w, Sound) /\ Placed(nand, Sound, From(k), update[k], c)
    BY DEF Stored
  <2>3. Placed(nand', Sound', From(k), update[k], c)
    BY <1>2, <1>4, <2>2, SoundPlaced
  <2>4. Turn(w', Sound') \in Nat
    BY <1>3, SoundTurn
  <2>5. QED
    BY <1>2, <1>3, <1>4, <2>2, <2>3, <2>4
<1>6. update[k] # <<>> => /\ offset[k] \in Sound' /\ start[k] <= offset[k]
                          /\ Rank(Sound', offset[k]) = From(k)
  <2>1. SUFFICES ASSUME update[k] # <<>>
                 PROVE  /\ offset[k] \in Sound' /\ start[k] <= offset[k]
                        /\ Rank(Sound', offset[k]) = From(k)
    OBVIOUS
  <2>2. From(k) + 0 < Turn(w, Sound)
    BY <1>a, <2>1, FirstChunk DEF Stored
  <2>3. /\ offset[k] \in Sound /\ start[k] <= offset[k]
        /\ Rank(Sound, offset[k]) = From(k)
    BY <2>1 DEF Stored
  <2>4. Rank(Sound, offset[k]) < Turn(w, Sound)
    BY <1>2, <2>2, <2>3
  <2>5. offset[k] \in Sound' /\ Rank(Sound', offset[k]) = Rank(Sound, offset[k])
    BY <2>3, <2>4, SoundTurn
  <2>6. QED
    BY <2>3, <2>5
<1>7. start[1] <= start[k] /\ start[k] <= Here(w')
  <2>1. start[1] <= start[k] /\ start[k] <= Here(w)
    BY DEF Stored
  <2>2. QED
    BY <1>1, <2>1
<1>8. QED
  BY <1>2, <1>5, <1>6, <1>7 DEF Stored

\* A step that leaves the flash and the sections behind alone.
LEMMA StoredQuiet ==
  ASSUME UNCHANGED <<nand, bad, lost, update>>, Here(w') = Here(w), NEW k \in 1..3,
         start'[k] = start[k], start'[1] = start[1], offset'[k] = offset[k],
         Stored(k)
  PROVE  Stored(k)'
<1>1. Sound' = Sound
  BY DEF Sound
<1>2. From(k)' = From(k) /\ Turn(w', Sound') = Turn(w, Sound)
  BY <1>1 DEF From, Turn
<1>3. QED
  BY <1>1, <1>2 DEF Stored

LEMMA InitStoring == Init => Storing
<1> SUFFICES ASSUME Init PROVE Storing
  OBVIOUS
<1>1. u.section = 0 /\ u.pc = "data"
  BY DEF Init
<1>2. start = [k \in 1..3 |-> 0]
  BY DEF Init
<1>3. \A k \in 1..3 : ~(k < 0)
  OBVIOUS
<1>4. 0 \notin 1..3
  OBVIOUS
<1>5. QED
  BY <1>1, <1>2, <1>3, <1>4 DEF Storing

\* write_block, at work for a section of the first pass.
LEMMA StoringStep ==
  ASSUME FunctionInv, Walked, Storing, Running, WriteBlock,
         UNCHANGED <<update, u, start, offset, ignored>>
  PROVE  Storing'
<1>1. SUFFICES ASSUME u.pc \in {"data", "pad", "close"}, ~ignored, u.section < 4
               PROVE  Storing'
  BY DEF Storing
<1>2. WriterOK /\ update \in Updates /\ w \in Contexts /\ lost \subseteq Blocks
  BY DEF FunctionInv, TypeOK, DeviceTypeOK
<1>3. w.pos \notin lost
  <2>1. Here(w) = w.pos
    BY <1>2, WriteBlockContext DEF Here
  <2>2. \A b \in lost : b < w.pos
    BY <1>1, <2>1 DEF Walked, Writing
  <2>3. \A b \in lost : b # w.pos
    BY <1>2, <2>2, DeviceAssumption DEF Contexts, Blocks
  <2>4. QED
    BY <2>3
<1>4. \A k \in 1..3 : k <= u.section => start[k] \in Nat
  BY <1>1 DEF Storing
<1>5. \A k \in 1..3 : k < u.section \/ u.pc = "close" => Stored(k)'
  <2>1. SUFFICES ASSUME NEW k \in 1..3, k < u.section \/ u.pc = "close"
                 PROVE  Stored(k)'
    OBVIOUS
  <2>2. Stored(k)
    BY <1>1, <2>1 DEF Storing
  <2>3. k <= u.section
    <3>1. u.pc = "close" => u.section = 3
      BY DEF FunctionInv
    <3>2. u.section \in Sections
      BY DEF FunctionInv, TypeOK, Functions
    <3>3. QED
      BY <2>1, <3>1, <3>2 DEF Sections
  <2>4. start[k] \in Nat
    BY <1>4, <2>3
  <2>5. QED
    BY <1>2, <1>3, <2>2, <2>4, StoredStep
<1>6. ASSUME u.section \in 1..3
      PROVE  /\ start[1] <= start[u.section] /\ start[u.section] <= Here(w')
             /\ u.pc = "data" => Feeding(nand', Sound', w', From(u.section)',
                                         update[u.section], u.todo)
             /\ u.pc = "pad" => Closing(nand', Sound', w', From(u.section)',
                                        update[u.section])
  <2> DEFINE s == u.section
  <2>1. s \in 1..3 /\ start[s] \in Nat
    BY <1>4, <1>6
  <2> HIDE DEF s
  <2>2. /\ start[1] <= start[s] /\ start[s] <= Here(w)
        /\ u.pc = "data" => Feeding(nand, Sound, w, From(s), update[s], u.todo)
        /\ u.pc = "pad" => Closing(nand, Sound, w, From(s), update[s])
    BY <1>1, <1>6 DEF Storing, s
  <2>3. /\ Here(w) = w.pos /\ w.pos \in Nat
        /\ Here(w') \in Nat /\ Here(w) <= Here(w')
    BY <1>2, WriteBlockContext, DeviceAssumption DEF Here, Contexts
  <2>4. update[s] \in Seq(Values) /\ Sound \in SUBSET Nat
    BY <1>2, <2>1, ContentTypes, DeviceAssumption DEF Sound, Blocks
  <2>5. From(s) \in Nat
    BY <2>1, <2>4, RankType DEF From
  <2>6. Rank(Sound', start[s]) = From(s)
    BY <1>2, <1>3, <2>1, <2>2, <2>3, SoundTurn DEF From
  <2>7. From(u.section)' = From(s)
    BY <2>6 DEF From, s
  <2>8. u.pc = "data" => Feeding(nand', Sound', w', From(s), update[s], u.todo)
    BY <1>2, <1>3, <2>2, <2>4, <2>5, SoundFeeding
  <2>9. u.pc = "pad" => Closing(nand', Sound', w', From(s), update[s])
    BY <1>2, <1>3, <2>2, <2>4, <2>5, SoundClosing
  <2>10. start[s] <= Here(w')
    BY <2>1, <2>2, <2>3
  <2>11. QED
    BY <2>2, <2>7, <2>8, <2>9, <2>10 DEF s
<1>7. QED
  BY <1>1, <1>4, <1>5, <1>6 DEF Storing

\* mtd_erase_blocks has ended a section: it is stored, its offset is found, and
\* the next one begins where the writer is.
LEMMA SectionEnds ==
  ASSUME FunctionInv, Walked, Storing, Padded0, ~ignored
  PROVE  Storing'
<1> DEFINE s == u.section
<1>a. /\ w \in Contexts /\ update \in Updates /\ u \in Functions
      /\ start \in [1..3 -> -1..NBlocks] /\ offset \in [1..3 -> -1..NBlocks]
      /\ NBlocks \in Nat
  BY DeviceAssumption DEF FunctionInv, TypeOK, DeviceTypeOK
<1>b. /\ u.pc = "pad" /\ s < 4 /\ w.pc = "idle" /\ NextSection(w.seek)
      /\ UNCHANGED <<nand, bad, lost, update, w, ignored>>
  BY DEF Padded0, device
<1>c. s \in 0..3 /\ w.stored = <<>> /\ w.seek \in Nat /\ Here(w) = w.seek
  <2>1. u.section \in 0..4
    BY <1>a DEF Functions, Sections
  <2>2. w.stored = <<>>
    BY <1>b DEF FunctionInv
  <2>3. QED
    BY <1>a, <1>b, <2>1, <2>2 DEF Contexts, Here
<1>d. Sound \in SUBSET Nat /\ Sound' = Sound
  BY <1>b, DeviceAssumption DEF Sound, Blocks
<1>e. /\ \A k \in 1..3 : k <= s => start[k] \in Nat
      /\ \A k \in 1..3 : k < s => Stored(k)
      /\ s \in 1..3 => /\ start[1] <= start[s] /\ start[s] <= Here(w)
                       /\ Closing(nand, Sound, w, From(s), update[s])
  BY <1>b, <1>c DEF Storing
<1>f. /\ s < 3 => start' = [start EXCEPT ![s + 1] = w.seek]
      /\ s = 3 => start' = start
      /\ s > 0 => offset' = [offset EXCEPT ![s] =
                               FindWriteStart(w.skipped, start[s])]
      /\ s = 0 => offset' = offset
      /\ s < 3 => u' = [pc |-> "data", section |-> s + 1, todo |-> Content(s + 1)]
      /\ s = 3 => u' = [u EXCEPT !.pc = "close"]
  BY <1>b, <1>c DEF NextSection
<1>g. \A k \in 1..3 : k <= s => start'[k] = start[k] /\ start'[1] = start[1]
  BY <1>a, <1>c, <1>f
<1> HIDE DEF s
\* The sections before.
<1>1. \A k \in 1..3 : k < s => Stored(k)'
  <2>1. SUFFICES ASSUME NEW k \in 1..3, k < s
                 PROVE  Stored(k)'
    OBVIOUS
  <2>2. offset'[k] = offset[k]
    BY <1>a, <1>c, <1>f, <2>1
  <2>3. start'[k] = start[k] /\ start'[1] = start[1]
    BY <1>c, <1>g, <2>1
  <2>4. Here(w') = Here(w)
    BY <1>b
  <2>5. QED
    BY <1>b, <1>e, <2>1, <2>2, <2>3, <2>4, StoredQuiet
\* The one that ends.
<1>2. ASSUME NEW k \in 1..3, k = s
      PROVE  Stored(k)'
  <2>1. /\ start[k] \in Nat /\ start[1] <= start[k] /\ start[k] <= Here(w)
        /\ start'[k] = start[k] /\ start'[1] = start[1]
    BY <1>2, <1>c, <1>e, <1>g
  <2>2. From(k) \in Nat /\ Turn(w, Sound) \in Nat
    BY <1>c, <1>d, <2>1, RankType DEF From, Turn
  <2>3. \A c \in Chunks(update[k]) :
          /\ c \in Nat /\ c < Turn(w, Sound) - From(k)
          /\ Placed(nand, Sound, From(k), update[k], c)
    BY <1>2, <1>b, <1>e DEF Closing, Chunks
  <2>4. \A c \in Chunks(update[k]) : From(k) + c < Turn(w, Sound)
    BY <2>2, <2>3
  <2>5. offset'[k] = FindWriteStart(w.skipped, start[k])
    BY <1>2, <1>a, <1>f
  <2>6. update[k] # <<>> => /\ offset'[k] \in Sound /\ start[k] <= offset'[k]
                            /\ Rank(Sound, offset'[k]) = From(k)
    <3>1. SUFFICES ASSUME update[k] # <<>>
                   PROVE  /\ offset'[k] \in Sound /\ start[k] <= offset'[k]
                          /\ Rank(Sound, offset'[k]) = From(k)
      OBVIOUS
    <3>2. update[k] \in Seq(Values)
      BY <1>2, <1>a, ContentTypes
    <3>3. 0 \in Chunks(update[k])
      BY <3>1, <3>2, FirstChunk
    <3>4. From(k) < Turn(w, Sound) /\ Placed(nand, Sound, From(k), update[k], 0)
      BY <2>2, <2>3, <2>4, <3>3
    <3>5. Writing /\ u.section < 4
      BY <1>b, <1>c DEF Writing, s
    <3>6. QED
      BY <1>2, <2>1, <2>5, <3>1, <3>4, <3>5, OffsetFound
  <2>7. From(k)' = From(k) /\ Turn(w', Sound') = Turn(w, Sound) /\ Here(w') = Here(w)
    <3>1. Rank(Sound', start'[k]) = Rank(Sound, start[k])
      BY <1>d, <2>1
    <3>2. Turn(w', Sound') = Turn(w, Sound) /\ Here(w') = Here(w)
      BY <1>b, <1>d
    <3>3. QED
      BY <3>1, <3>2 DEF From
  <2>8. QED
    BY <1>b, <1>d, <2>1, <2>3, <2>4, <2>6, <2>7 DEF Stored
\* The one that begins.
<1>3. CASE s < 3
  <2>1. /\ u'.pc = "data" /\ u'.section = s + 1 /\ u'.todo = Content(s + 1)
        /\ s + 1 \in 1..3 /\ start'[s + 1] = w.seek
    BY <1>3, <1>a, <1>c, <1>f
  <2>2. PICK k \in 1..3 : k = s + 1
    BY <2>1
  <2>3. Content(k) = update[k] /\ update[k] \in Seq(Values)
    BY <1>a, ContentTypes
  <2>4. Feeding(nand, Sound, w, Turn(w, Sound), update[k], update[k])
    BY <1>a, <1>b, <1>c, <1>d, <2>3, FreshFeeds
  <2>5. Rank(Sound', start'[k]) = Turn(w, Sound)
    BY <1>c, <1>d, <2>1, <2>2 DEF Turn
  <2>6. /\ u'.pc = "data" /\ u'.section = k /\ u'.todo = update'[k]
        /\ start'[k] = Here(w') /\ start'[k] = w.seek
        /\ Feeding(nand', Sound', w', Rank(Sound', start'[k]), update'[k], u'.todo)
    BY <1>b, <1>c, <1>d, <2>1, <2>2, <2>3, <2>4, <2>5
  <2>7. start'[1] <= start'[k]
    <3>1. CASE s = 0
      BY <1>c, <2>2, <2>6, <3>1
    <3>2. CASE s # 0
      <4>1. s \in 1..3
        BY <1>c, <3>2
      <4>2. /\ start[1] <= start[s] /\ start[s] <= w.seek /\ start[s] \in Nat
            /\ start'[1] = start[1]
        BY <1>c, <1>e, <1>g, <4>1
      <4>3. start[1] \in Int
        BY <1>a
      <4>4. QED
        BY <1>c, <2>6, <4>2, <4>3
    <3>3. QED
      BY <3>1, <3>2
  <2>8. \A j \in 1..3 : j <= k => start'[j] \in Nat
    BY <1>c, <1>e, <1>g, <2>2, <2>6
  <2>9. \A j \in 1..3 : j < k => Stored(j)'
    BY <1>1, <1>2, <1>c, <2>2
  <2>10. start'[k] <= Here(w')
    BY <1>c, <2>6
  <2>11. /\ \A j \in 1..3 : j <= u'.section => start'[j] \in Nat
         /\ \A j \in 1..3 : j < u'.section \/ u'.pc = "close" => Stored(j)'
         /\ start'[1] <= start'[u'.section] /\ start'[u'.section] <= Here(w')
         /\ Feeding(nand', Sound', w', Rank(Sound', start'[u'.section]),
                    update'[u'.section], u'.todo)
         /\ u'.pc = "data"
    BY <2>6, <2>7, <2>8, <2>9, <2>10
  <2>12. QED
    BY <2>11 DEF Storing, From
<1>4. CASE s = 3
  <2>1. u'.pc = "close" /\ u'.section = 3
    BY <1>4, <1>a, <1>f DEF Functions, s
  <2>2. \A j \in 1..3 : Stored(j)'
    BY <1>1, <1>2, <1>4
  <2>3. \A j \in 1..3 : start'[j] \in Nat
    BY <1>4, <1>c, <1>e, <1>g
  <2>4. start'[1] <= start'[3] /\ start'[3] <= Here(w')
    BY <2>2 DEF Stored
  <2>5. QED
    BY <2>1, <2>2, <2>3, <2>4 DEF Storing
<1>5. QED
  BY <1>3, <1>4, <1>c

\* The function hands the writer more of a section, or has its end padded.
LEMMA SectionGoesOn ==
  ASSUME FunctionInv, Storing, Write \/ Pad \/ Close, ~ignored, u.section < 4
  PROVE  Storing'
<1>a. /\ w \in Contexts /\ update \in Updates /\ u \in Functions /\ WriterOK
      /\ u.pc \in {"data", "close"} /\ w.pc = "idle" /\ Len(w.stored) < PerBlock
      /\ UNCHANGED <<nand, bad, lost, update, start, offset, ignored>>
  <2>1. u.pc \in {"data", "close"} /\ w.pc = "idle"
        /\ UNCHANGED <<nand, bad, lost, update, start, offset, ignored>>
    BY DEF Write, Pad, Close
  <2>2. WriterOK
    BY <2>1 DEF FunctionInv, Running
  <2>3. QED
    BY <2>1, <2>2 DEF FunctionInv, TypeOK, DeviceTypeOK, WriterOK
<1>b. Sound \in SUBSET Nat /\ Sound' = Sound
  BY <1>a, DeviceAssumption DEF Sound, Blocks
<1>c. Here(w') = Here(w) /\ u'.section = u.section
      /\ u'.pc = (IF Pad THEN "pad" ELSE u.pc)
  <2>1. CASE Write
    BY <2>1, <1>a, PutHere DEF Write, Pad, Here, Functions
  <2>2. CASE Pad
    BY <2>2, <1>a, SyncHere DEF Pad, Here, Functions
  <2>3. CASE Close
    BY <2>3, <1>a, SyncHere DEF Close, Pad, Here, Functions
  <2>4. QED
    BY <2>1, <2>2, <2>3
<1>d. /\ \A k \in 1..3 : k <= u.section => start[k] \in Nat
      /\ \A k \in 1..3 : k < u.section \/ u.pc = "close" => Stored(k)
  BY <1>a DEF Storing
<1>1. \A k \in 1..3 : k < u.section \/ u'.pc = "close" => Stored(k)'
  <2>1. SUFFICES ASSUME NEW k \in 1..3, k < u.section \/ u'.pc = "close"
                 PROVE  Stored(k)'
    OBVIOUS
  <2>2. Stored(k)
    BY <1>c, <1>d, <2>1
  <2>3. QED
    BY <1>a, <1>c, <2>2, StoredQuiet
<1>2. ASSUME NEW k \in 1..3, k = u.section
      PROVE  /\ start'[1] <= start'[k] /\ start'[k] <= Here(w')
             /\ u'.pc = "data" =>
                  Feeding(nand', Sound', w', From(k)', update'[k], u'.todo)
             /\ u'.pc = "pad" => Closing(nand', Sound', w', From(k)', update'[k])
  <2>1. /\ start[1] <= start[k] /\ start[k] <= Here(w) /\ start[k] \in Nat
        /\ u.pc = "data" => Feeding(nand, Sound, w, From(k), update[k], u.todo)
    BY <1>2, <1>a, <1>d DEF Storing
  <2>2. From(k)' = From(k) /\ From(k) \in Nat
    BY <1>a, <1>b, <2>1, RankType DEF From
  <2>3. update[k] \in Seq(Values) /\ u.todo \in Seq(Values)
    BY <1>a, ContentTypes DEF Functions
  <2>4. ASSUME u'.pc = "data"
        PROVE  Feeding(nand, Sound, w', From(k), update[k], u'.todo)
    <3>1. Write
      BY <2>4, <1>a, <1>c DEF Close, Pad
    <3>2. /\ w' = Put(w, u.todo) /\ u.pc = "data"
          /\ u' = [u EXCEPT !.todo = Rest(w, u.todo)]
      BY <3>1 DEF Write
    <3>3. u'.todo = Rest(w, u.todo)
      BY <3>2, <1>a DEF Functions
    <3>4. Feeding(nand, Sound, Put(w, u.todo), From(k), update[k], Rest(w, u.todo))
      BY <1>a, <1>b, <2>1, <2>2, <2>3, <3>2, PutFeeds
    <3>5. QED
      BY <3>2, <3>3, <3>4
  <2>5. ASSUME u'.pc = "pad"
        PROVE  Closing(nand, Sound, w', From(k), update[k])
    <3>1. Pad
      BY <2>5, <1>a, <1>c
    <3>2. w' = Sync(w) /\ u.pc = "data" /\ u.todo = <<>>
      BY <3>1 DEF Pad
    <3>3. Closing(nand, Sound, Sync(w), From(k), update[k])
      BY <1>a, <1>b, <2>1, <2>2, <2>3, <3>2, SyncCloses
    <3>4. QED
      BY <3>2, <3>3
  <2>6. QED
    BY <1>a, <1>b, <1>c, <2>1, <2>2, <2>4, <2>5
<1>3. /\ \A k \in 1..3 : k <= u'.section => start'[k] \in Nat
      /\ \A k \in 1..3 : k < u'.section \/ u'.pc = "close" => Stored(k)'
  BY <1>a, <1>c, <1>d, <1>1
<1>4. ASSUME u'.section \in 1..3
      PROVE  /\ start'[1] <= start'[u'.section] /\ start'[u'.section] <= Here(w')
             /\ u'.pc = "data" =>
                  Feeding(nand', Sound', w', Rank(Sound', start'[u'.section]),
                          update'[u'.section], u'.todo)
             /\ u'.pc = "pad" =>
                  Closing(nand', Sound', w', Rank(Sound', start'[u'.section]),
                          update'[u'.section])
  <2>1. PICK k \in 1..3 : k = u'.section
    BY <1>4
  <2>2. k = u.section
    BY <1>c, <2>1
  <2>3. From(k)' = Rank(Sound', start'[k])
    BY DEF From
  <2>4. QED
    BY <1>2, <2>1, <2>2, <2>3
<1>5. QED
  BY <1>3, <1>4 DEF Storing, From

LEMMA NextStoring ==
  FunctionInv /\ Walked /\ Storing /\ [Next]_vars => Storing'
<1> SUFFICES ASSUME FunctionInv, Walked, Storing, [Next]_vars
             PROVE  Storing'
  OBVIOUS
<1>a. u \in Functions
  BY DEF FunctionInv, TypeOK
\* The first pass has failed, is over, or has an error behind it.
<1>b. u'.pc \notin {"data", "pad", "close"} \/ ignored' \/ u'.section = 4 => Storing'
  BY DEF Storing
<1>1. CASE Write \/ Pad \/ Close
  <2>1. u'.section = u.section /\ ignored' = ignored /\ u.section \in 0..4
    BY <1>1, <1>a DEF Write, Pad, Close, Functions, Sections
  <2>2. CASE ~ignored /\ u.section < 4
    BY <1>1, <2>2, SectionGoesOn
  <2>3. CASE ignored \/ ~(u.section < 4)
    BY <1>b, <2>1, <2>3
  <2>4. QED
    BY <2>2, <2>3
<1>2. CASE \/ WriteFails \/ CloseFails \/ Finish \/ Misaligned
          \/ Nowhere \/ FinishNowhere \/ Fail \/ PowerLoss
  <2>1. u'.pc \in {"closing", "nowhere", "failed", "done", "off"}
    BY <1>2, <1>a DEF WriteFails, CloseFails, Finish, Misaligned, Nowhere,
         FinishNowhere, Fail, PowerLoss, Functions
  <2>2. QED
    BY <1>b, <2>1
<1>3. CASE Padded0
  <2>1. ignored' = ignored
    BY <1>3 DEF Padded0
  <2>2. QED
    BY <1>3, <1>b, <2>1, SectionEnds
<1>4. CASE PadFails
  BY <1>4, <1>b DEF PadFails
<1>5. CASE Reopen
  BY <1>5, <1>b DEF Reopen
<1>6. CASE Running /\ WriteBlock /\ UNCHANGED <<update, u, start, offset, ignored>>
  BY <1>6, StoringStep
<1>7. CASE UNCHANGED vars
  <2>1. UNCHANGED <<nand, bad, w, lost, update, u, start, offset, ignored>>
    BY <1>7 DEF vars, device
  <2>2. Sound' = Sound
    BY <2>1 DEF Sound
  <2>3. QED
    BY <2>1, <2>2 DEF Storing, Stored, From
<1>8. QED
  BY <1>1, <1>2, <1>3, <1>4, <1>5, <1>6, <1>7 DEF Next

\* The first pass stores the sections one behind the other.
LEMMA StoringAlways == Spec => [](FunctionInv /\ Walked /\ Swept /\ Storing)
<1> DEFINE Inv == FunctionInv /\ Walked /\ Swept /\ Storing
<1>1. Init => Inv
  BY InitFunction, InitWalk, InitStoring
<1>2. Inv /\ [Next]_vars => Inv'
  BY NextFunction, NextWalk, NextStoring
<1>3. QED
  BY <1>1, <1>2, PTL DEF Spec

-----------------------------------------------------------------------------
(* The sections behind the header                                          *)

\* Sections that are not empty begin behind the header's place.
Located ==
  u.section = 4 /\ ~ignored =>
    \A k \in 1..3 : update[k] # <<>> =>
      start[1] <= offset[k] /\ offset[k] \in Blocks \ bad

\* The second pass leaves the sections alone until it comes to them.
Kept ==
  u.section = 4 /\ ~ignored /\ ~Displaced =>
    \A k \in 1..3 : Begins(k) /\ (lost = {} => Complete(k))

\* Ranks among the blocks from o on.
LEMMA RankSuffix ==
  ASSUME NEW S \in SUBSET Nat, NEW o \in Nat, NEW b \in Nat, o <= b,
         NEW G, G = {x \in S : x >= o}
  PROVE  Rank(G, b) = Rank(S, b) - Rank(S, o)
<1> DEFINE before == {x \in S : x < o}
           between == {x \in G : x < b}
           all == {x \in S : x < b}
<1>1. before \cup between = all /\ before \cap between = {}
  <2>1. /\ \A x \in S : x \in Nat
        /\ \A x : x \in before <=> x \in S /\ x < o
        /\ \A x : x \in between <=> x \in S /\ x >= o /\ x < b
        /\ \A x : x \in all <=> x \in S /\ x < b
    <3>1. \A x \in S : x \in Nat
      OBVIOUS
    <3>2. \A x : x \in G <=> x \in S /\ x >= o
      BY Zenon
    <3>3. QED
      BY <3>1, <3>2, Zenon
  <2> HIDE DEF before, between, all
  <2>2. ASSUME NEW x \in S
        PROVE  /\ x \in all <=> x \in before \/ x \in between
               /\ ~(x \in before /\ x \in between)
    <3>1. x \in Nat
      OBVIOUS
    <3>2. /\ x < b <=> x < o \/ (x >= o /\ x < b)
          /\ ~(x < o /\ x >= o)
      BY <3>1
    <3>3. QED
      BY <2>1, <3>2, Zenon
  <2>3. \A x : x \in all \/ x \in before \/ x \in between => x \in S
    BY <2>1, Zenon
  <2>4. QED
    BY <2>2, <2>3
<1>2. IsFiniteSet(before) /\ IsFiniteSet(between)
  <2>1. G \in SUBSET Nat
    OBVIOUS
  <2>2. QED
    BY <2>1, RankType
<1>3. /\ Cardinality(before) \in Nat /\ Cardinality(between) \in Nat
      /\ Cardinality(before \cap between) = 0
  BY <1>1, <1>2, FS_CardinalityType, FS_EmptySet
<1>4. Cardinality(before \cup between)
        = Cardinality(before) + Cardinality(between) - Cardinality(before \cap between)
  <2> HIDE DEF before, between
  <2>1. QED
    BY <1>2, FS_Union
<1>5. Cardinality(all) = Cardinality(before) + Cardinality(between)
  <2> HIDE DEF before, between, all
  <2>1. QED
    BY <1>1, <1>3, <1>4
<1>6. QED
  <2>1. /\ Rank(S, b) = Cardinality(all) /\ Rank(S, o) = Cardinality(before)
        /\ Rank(G, b) = Cardinality(between)
    BY DEF Rank
  <2> HIDE DEF before, between, all
  <2>2. QED
    BY <1>3, <1>5, <2>1

\* What the first pass has stored, a reader finds.
LEMMA StoredIsFound ==
  ASSUME FunctionInv, NEW k \in 1..3, start[k] \in Nat, Stored(k)
  PROVE  /\ Begins(k) /\ (lost = {} => Complete(k))
         /\ update[k] # <<>> =>
              start[1] <= offset[k] /\ offset[k] \in Blocks \ bad
<1>a. /\ update[k] \in Seq(Values) /\ Sound \in SUBSET Nat /\ start[1] \in Int
      /\ Sound = Blocks \ (bad \cup lost)
  <2>1. update \in Updates /\ start \in [1..3 -> -1..NBlocks]
    BY DEF FunctionInv, TypeOK
  <2>2. QED
    BY <2>1, ContentTypes, DeviceAssumption DEF Sound, Blocks
<1>b. From(k) \in Nat
  BY <1>a, RankType DEF From
<1>c. \A c \in Chunks(update[k]) : c \in Nat /\ update[k] # <<>>
  <2>1. SUFFICES ASSUME NEW c \in Chunks(update[k])
                 PROVE  c \in Nat /\ update[k] # <<>>
    OBVIOUS
  <2>2. c \in Nat /\ c * PerBlock < Len(update[k])
    BY DEF Chunks
  <2>3. c * PerBlock \in Nat
    BY <2>2, BlockMultiples
  <2>4. Len(update[k]) # 0
    BY <1>a, <2>2, <2>3
  <2>5. QED
    BY <2>2, <2>4
<1>1. ASSUME update[k] # <<>>
      PROVE  /\ offset[k] \in Sound /\ start[1] <= offset[k]
             /\ Rank(Sound, offset[k]) = From(k)
  BY <1>1, <1>a DEF Stored
<1>2. ASSUME NEW c \in Chunks(update[k])
      PROVE  \E b \in Sound : /\ Rank(Sound, b) = From(k) + c
                              /\ nand[b] = Chunk(update[k], c)
  BY <1>2 DEF Stored, Placed
<1>3. Begins(k)
  <2>1. SUFFICES ASSUME update[k] # <<>>
                 PROVE  /\ offset[k] \in Blocks \ bad
                        /\ nand[offset[k]] = Chunk(update[k], 0)
    BY DEF Begins
  <2>2. 0 \in Chunks(update[k])
    BY <1>a, <2>1, FirstChunk
  <2>3. PICK b \in Sound : Rank(Sound, b) = From(k) + 0
                           /\ nand[b] = Chunk(update[k], 0)
    BY <1>2, <2>2
  <2>4. Rank(Sound, b) = Rank(Sound, offset[k])
    BY <1>1, <1>b, <2>1, <2>3
  <2>5. b = offset[k]
    <3>1. \A x, y \in Sound : Rank(Sound, x) = Rank(Sound, y) => x = y
      BY <1>a, RankOrder
    <3>2. offset[k] \in Sound
      BY <1>1, <2>1
    <3>3. QED
      BY <2>3, <2>4, <3>1, <3>2
  <2>6. QED
    BY <1>1, <1>a, <2>1, <2>3, <2>5
<1>4. ASSUME lost = {}
      PROVE  Complete(k)
  <2> DEFINE G == {b \in Blocks \ bad : b >= offset[k]}
  <2>1. SUFFICES ASSUME NEW c \in Chunks(update[k])
                 PROVE  \E b \in G : Rank(G, b) = c /\ nand[b] = Chunk(update[k], c)
    BY DEF Complete
  <2>2. /\ offset[k] \in Sound /\ offset[k] \in Nat
        /\ Rank(Sound, offset[k]) = From(k) /\ c \in Nat
    BY <1>1, <1>a, <1>c, <2>1
  <2>3. PICK b \in Sound : Rank(Sound, b) = From(k) + c
                           /\ nand[b] = Chunk(update[k], c)
    BY <1>2, <2>1
  <2>4. b \in Nat /\ offset[k] <= b
    <3>1. b < offset[k] => Rank(Sound, b) < Rank(Sound, offset[k])
      BY <1>a, <2>2, <2>3, RankOrder
    <3>2. ~(b < offset[k])
      BY <1>b, <2>2, <2>3, <3>1
    <3>3. b \in Nat
      BY <1>a
    <3>4. QED
      BY <2>2, <3>2, <3>3
  <2>5. G = {x \in Sound : x >= offset[k]}
    BY <1>4, <1>a
  <2> HIDE DEF G
  <2>6. Rank(G, b) = Rank(Sound, b) - Rank(Sound, offset[k])
    BY <1>a, <2>2, <2>4, <2>5, RankSuffix
  <2>7. Rank(G, b) = c
    BY <1>b, <2>2, <2>3, <2>6
  <2>8. b \in G
    BY <1>a, <2>2, <2>4, <2>5
  <2>9. QED
    BY <2>3, <2>7, <2>8
<1>5. QED
  BY <1>1, <1>3, <1>4, <1>a

\* Neither write_block nor a power loss changes another block than the one at
\* hand.
LEMMA OnlyHere ==
  ASSUME WriterOK, WriteBlock \/ nand' \in AfterPowerLoss,
         NEW b \in Blocks, b # w.pos
  PROVE  nand'[b] = nand[b]
<1>1. nand \in [Blocks -> Block]
  BY DEF WriterOK, DeviceTypeOK
<1>2. CASE WriteBlock
  BY <1>1, <1>2 DEF WriteBlock, SkipBadBlock, NoSpace, EraseBlock, EraseFails,
       ProgramPage, ProgramFails, Verified, VerifyFails, GiveUp
<1>3. CASE nand' \in AfterPowerLoss
  BY <1>1, <1>3 DEF AfterPowerLoss
<1>4. QED
  BY <1>2, <1>3

\* A section without data has no chunks.
LEMMA EmptyChunks == Chunks(<<>>) = {}
<1>1. ASSUME NEW c \in Chunks(<<>>)
      PROVE  FALSE
  <2>1. c \in Nat /\ c * PerBlock < 0
    BY <1>1 DEF Chunks
  <2>2. c * PerBlock \in Nat
    BY <2>1, BlockMultiples
  <2>3. QED
    BY <2>1, <2>2
<1>2. QED
  BY <1>1

\* Sections keep what they have while only blocks before start[1] change.
LEMMA KeptStep ==
  ASSUME FunctionInv, Located, u.section = 4, ~ignored,
         UNCHANGED <<bad, update, start, offset>>, lost \subseteq lost',
         \A b \in Blocks : start[1] <= b => nand'[b] = nand[b],
         NEW k \in 1..3, Begins(k) /\ (lost = {} => Complete(k))
  PROVE  Begins(k)' /\ (lost' = {} => Complete(k)')
<1>1. CASE update[k] = <<>>
  <2>1. Chunks(update[k]) = {}
    BY <1>1, EmptyChunks
  <2>2. QED
    BY <1>1, <2>1 DEF Begins, Complete
<1>2. CASE update[k] # <<>>
  <2>1. start[1] <= offset[k] /\ offset[k] \in Blocks \ bad /\ start[1] \in Int
    <3>1. start \in [1..3 -> -1..NBlocks]
      BY DEF FunctionInv, TypeOK
    <3>2. QED
      BY <1>2, <3>1 DEF Located
  <2>2. \A b \in Blocks : b >= offset[k] => nand'[b] = nand[b]
    BY <2>1, DeviceAssumption DEF Blocks
  <2>3. Begins(k)'
    BY <1>2, <2>1, <2>2, DeviceAssumption DEF Begins, Blocks
  <2>4. ASSUME lost' = {}
        PROVE  Complete(k)'
    <3>1. Complete(k)
      BY <2>4
    <3>2. QED
      BY <3>1, <2>2 DEF Complete
  <2>5. QED
    BY <2>3, <2>4
<1>3. QED
  BY <1>1, <1>2

\* What the second pass does not touch.
LEMMA HeaderPass ==
  ASSUME FunctionInv, [Next]_vars, u'.section = 4, ~Reopen
  PROVE  /\ u.section = 4 /\ UNCHANGED <<bad, update, start, offset, ignored>>
         /\ lost \subseteq lost'
<1>a. u \in Functions /\ (u.pc = "close" => u.section = 3)
  BY DEF FunctionInv, TypeOK
<1>1. CASE Write \/ Pad \/ WriteFails
  BY <1>1, <1>a DEF Write, Pad, WriteFails, Functions
<1>2. CASE Padded0 \/ PadFails
  <2>1. u.section < 4 /\ \E pos : NextSection(pos)
    BY <1>2 DEF Padded0, PadFails
  <2>2. u'.section # 4
    BY <1>a, <2>1 DEF NextSection, Functions, Sections
  <2>3. QED
    BY <2>2
<1>3. CASE Close \/ CloseFails
  BY <1>3, <1>a DEF Close, CloseFails, Functions
<1>4. CASE Finish \/ Misaligned \/ Nowhere \/ FinishNowhere \/ Fail \/ PowerLoss
  BY <1>4, <1>a DEF Finish, Misaligned, Nowhere, FinishNowhere, Fail, PowerLoss,
       Functions, device
<1>5. CASE Running /\ WriteBlock /\ UNCHANGED <<update, u, start, offset, ignored>>
  <2>1. WriterOK
    BY <1>5 DEF FunctionInv
  <2>2. bad' = bad /\ lost \subseteq lost'
    BY <1>5, <2>1, WriteBlockContext
  <2>3. QED
    BY <1>5, <2>2
<1>6. CASE UNCHANGED vars
  BY <1>6 DEF vars, device
<1>7. QED
  BY <1>1, <1>2, <1>3, <1>4, <1>5, <1>6 DEF Next

\* The second pass has come neither to a block of the image nor past one: then
\* it has not written one, either.  write_block is started anew behind the block
\* it wrote last; or, by mtd_write_close, after it has been through them all.
LEMMA Undisplaced ==
  ASSUME FunctionInv, Swept, [Next]_vars, ~Reopen, u'.section = 4, ~Displaced',
         start[1] < NBlocks
  PROVE  ~Displaced /\ \A b \in Blocks : start[1] <= b => nand'[b] = nand[b]
<1>a. /\ w \in Contexts /\ u \in Functions /\ w.pos \in 0..NBlocks
      /\ w.seek \in 0..NBlocks /\ w.skipped \in Seq(Blocks) /\ NBlocks \in Nat
      /\ start[1] \in Int /\ \A b \in Blocks : b \in Int
  <2>1. w \in Contexts /\ u \in Functions /\ start \in [1..3 -> -1..NBlocks]
    BY DEF FunctionInv, TypeOK, DeviceTypeOK
  <2>2. start[1] \in -1..NBlocks
    BY <2>1
  <2>3. QED
    BY <2>1, <2>2, DeviceAssumption DEF Contexts, Blocks
<1>b. /\ u.section = 4 /\ start' = start
  BY HeaderPass
<1>c. ~(w'.pos >= start[1]) /\ \A i \in 1..Len(w'.skipped) : ~(w'.skipped[i] >= start[1])
  BY <1>b DEF Displaced
\* The writer has not moved, or has moved on.
<1>d. ASSUME nand' = nand, w'.skipped = w.skipped, w'.pos \in Int, w.pos <= w'.pos
      PROVE  ~Displaced /\ \A b \in Blocks : start[1] <= b => nand'[b] = nand[b]
  <2>1. ~(w.pos >= start[1])
    BY <1>a, <1>c, <1>d
  <2>2. QED
    BY <1>c, <1>d, <2>1 DEF Displaced
\* It was through all the blocks, those of the image with them.
<1>e. ASSUME w.pc = "full", w' = Sync(w)
      PROVE  FALSE
  <2>1. w.pos = NBlocks /\ (w.pos <= w.seek \/ Skips(w.skipped, w.pos - 1))
    BY <1>e DEF Swept
  <2>2. w'.skipped = w.skipped /\ w'.pos \in {w.pos, w.seek}
    BY <1>a, <1>e, SyncHere
  <2>3. w.seek < w.pos
    BY <1>a, <1>c, <2>1, <2>2
  <2>4. PICK i \in 1..Len(w.skipped) : w.skipped[i] = NBlocks - 1
    BY <1>a, <2>1, <2>3 DEF Skips
  <2>5. NBlocks - 1 >= start[1]
    BY <1>a
  <2>6. QED
    BY <1>c, <2>2, <2>4, <2>5
<1>1. CASE Write
  <2>1. /\ u.pc = "data" /\ w.pc = "idle" /\ w' = Put(w, u.todo) /\ nand' = nand
    BY <1>1 DEF Write
  <2>2. w.pos <= w.seek
    BY <1>b, <2>1 DEF Swept
  <2>3. w'.pos \in {w.pos, w.seek} /\ w'.skipped = w.skipped
    BY <1>a, <2>1, PutHere
  <2>4. QED
    BY <1>a, <1>d, <2>1, <2>2, <2>3
<1>2. CASE Pad
  <2>1. /\ u.pc = "data" /\ w.pc = "idle" /\ w' = Sync(w) /\ nand' = nand
    BY <1>2 DEF Pad
  <2>2. w.pos <= w.seek
    BY <1>b, <2>1 DEF Swept
  <2>3. w'.pos \in {w.pos, w.seek} /\ w'.skipped = w.skipped
    BY <1>a, <2>1, SyncHere
  <2>4. QED
    BY <1>a, <1>d, <2>1, <2>2, <2>3
<1>3. CASE WriteFails \/ Nowhere
  BY <1>3, <1>e DEF WriteFails, Nowhere
<1>4. CASE Padded0 \/ PadFails
  BY <1>4, <1>b DEF Padded0, PadFails
<1>5. CASE Close \/ CloseFails
  BY <1>5, <1>b DEF Close, CloseFails, FunctionInv
<1>6. CASE Finish \/ FinishNowhere \/ Fail
  <2>1. w' = w /\ nand' = nand
    BY <1>6 DEF Finish, FinishNowhere, Fail, device
  <2>2. QED
    BY <1>a, <1>d, <2>1
<1>7. CASE Misaligned
  <2>1. /\ u.pc = "pad" /\ w.pc \in {"idle", "full"} /\ w' = Sync(w) /\ nand' = nand
    BY <1>7 DEF Misaligned
  <2>2. CASE w.pc = "idle"
    <3>1. w.stored = <<>>
      BY <2>1, <2>2 DEF FunctionInv
    <3>2. w'.pos = w.pos /\ w'.skipped = w.skipped
      BY <1>a, <2>1, <3>1, SyncHere
    <3>3. QED
      BY <1>a, <1>d, <2>1, <3>2
  <2>3. CASE w.pc = "full"
    BY <1>e, <2>1, <2>3
  <2>4. QED
    BY <2>1, <2>2, <2>3
<1>8. CASE PowerLoss
  <2>1. w' = w /\ WriterOK /\ nand' \in AfterPowerLoss
    BY <1>8 DEF PowerLoss, FunctionInv
  <2>2. ~Displaced
    BY <1>c, <2>1 DEF Displaced
  <2>3. \A b \in Blocks : start[1] <= b => b # w.pos
    BY <1>a, <1>c, <2>1
  <2>4. QED
    BY <2>1, <2>2, <2>3, OnlyHere
<1>9. CASE Running /\ WriteBlock /\ UNCHANGED <<update, u, start, offset, ignored>>
  <2>1. WriterOK /\ WriteBlock
    BY <1>9 DEF FunctionInv
  <2>2. /\ w'.pos \in {w.pos, w.pos + 1}
        /\ \/ w'.skipped = w.skipped
           \/ w'.skipped = Append(w.skipped, w.pos) /\ w.pos \in Blocks
    BY <2>1, WriteBlockContext
  <2>3. ~(w.pos >= start[1])
    BY <1>a, <1>c, <2>2
  <2>4. \A i \in 1..Len(w.skipped) : ~(w.skipped[i] >= start[1])
    <3>1. CASE w'.skipped = w.skipped
      BY <1>c, <3>1
    <3>2. CASE w'.skipped = Append(w.skipped, w.pos)
      <4>1. \A i \in 1..Len(w.skipped) :
              i \in 1..Len(w'.skipped) /\ w'.skipped[i] = w.skipped[i]
        BY <1>a, <3>2
      <4>2. QED
        BY <1>c, <4>1
    <3>3. QED
      BY <2>2, <3>1, <3>2
  <2>5. \A b \in Blocks : start[1] <= b => b # w.pos
    BY <1>a, <2>3
  <2>6. QED
    BY <2>1, <2>3, <2>4, <2>5, OnlyHere DEF Displaced
<1>10. CASE UNCHANGED vars
  BY <1>10, <1>a, <1>d DEF vars, device
<1>11. QED
  BY <1>1, <1>2, <1>3, <1>4, <1>5, <1>6, <1>7, <1>8, <1>9, <1>10 DEF Next

LEMMA NextKept ==
  FunctionInv /\ Walked /\ Swept /\ Storing /\ Located /\ Kept /\ [Next]_vars
    => Located' /\ Kept'
<1> SUFFICES ASSUME FunctionInv, Walked, Swept, Storing, Located, Kept, [Next]_vars,
                    u'.section = 4, ~ignored'
             PROVE  Located' /\ Kept'
  BY DEF Located, Kept
<1>1. CASE Reopen
  <2>1. /\ u.pc = "close" /\ u.section = 3 /\ ~ignored
        /\ UNCHANGED <<nand, bad, lost, update, start, offset>>
    BY <1>1 DEF Reopen, FunctionInv
  <2>2. \A k \in 1..3 : start[k] \in Nat /\ Stored(k)
    BY <2>1 DEF Storing
  <2>3. \A k \in 1..3 :
          /\ Begins(k) /\ (lost = {} => Complete(k))
          /\ update[k] # <<>> =>
               start[1] <= offset[k] /\ offset[k] \in Blocks \ bad
    BY <2>2, StoredIsFound
  <2>4. \A k \in 1..3 : Begins(k)' = Begins(k) /\ Complete(k)' = Complete(k)
    BY <2>1 DEF Begins, Complete
  <2>5. QED
    BY <2>1, <2>3, <2>4 DEF Located, Kept
<1>2. CASE ~Reopen
  <2>1. /\ u.section = 4 /\ UNCHANGED <<bad, update, start, offset, ignored>>
        /\ lost \subseteq lost' /\ ~ignored
    BY <1>2, HeaderPass
  <2>2. Located'
    BY <2>1 DEF Located
  <2>3. ASSUME ~Displaced', NEW k \in 1..3
        PROVE  Begins(k)' /\ (lost' = {} => Complete(k)')
    <3>1. CASE update[k] = <<>>
      <4>1. update'[k] = <<>>
        BY <2>1, <3>1
      <4>2. Chunks(update'[k]) = {}
        BY <4>1, EmptyChunks
      <4>3. QED
        BY <4>1, <4>2 DEF Begins, Complete
    <3>2. CASE update[k] # <<>>
      <4>1. start[1] < NBlocks
        <5>1. start[1] <= offset[k] /\ offset[k] \in Blocks
          BY <2>1, <3>2 DEF Located
        <5>2. start[1] \in Int
          <6>1. start \in [1..3 -> -1..NBlocks]
            BY DEF FunctionInv, TypeOK
          <6>2. QED
            BY <6>1
        <5>3. QED
          BY <5>1, <5>2, DeviceAssumption DEF Blocks
      <4>2. ~Displaced /\ \A b \in Blocks : start[1] <= b => nand'[b] = nand[b]
        BY <1>2, <2>3, <4>1, Undisplaced
      <4>3. Begins(k) /\ (lost = {} => Complete(k))
        BY <2>1, <4>2 DEF Kept
      <4>4. QED
        BY <2>1, <4>2, <4>3, KeptStep
    <3>3. QED
      BY <3>1, <3>2
  <2>4. QED
    BY <2>2, <2>3 DEF Kept
<1>3. QED
  BY <1>1, <1>2

LEMMA KeptAlways == Spec => [](FunctionInv /\ Walked /\ Located /\ Kept)
<1> DEFINE First == FunctionInv /\ Walked /\ Swept /\ Storing
           Second == Located /\ Kept
<1>1. Init => Second
  BY DEF Init, Located, Kept
<1>2. First /\ Second /\ [Next]_vars => Second'
  BY NextKept
<1>3. First => FunctionInv /\ Walked
  OBVIOUS
<1>4. Spec => []First
  BY StoringAlways
<1>5. QED
  BY <1>1, <1>2, <1>3, <1>4, PTL DEF Spec

-----------------------------------------------------------------------------
(* The header                                                              *)

\* The block behind the writer holds the header.
Headed == /\ w.pos \in Blocks /\ w.seek = w.pos + 1
          /\ nand[w.pos][1] = "hdr"

\* Where the header is in the second pass: ahead of mtd_write_data, in
\* ctx->buffer, in write_block, or on the flash.
Heading ==
  /\ u.pc = "done" /\ ~ignored => u.section = 4 /\ w.pc = "idle" /\ w.seek = start[1]
  /\ u.section = 4 =>
       /\ u.pc = "data" /\ w.pc = "idle" =>
            \/ w.stored = <<>> /\ u.todo = <<"hdr">>
            \/ w.stored = <<"hdr">> /\ u.todo = <<>>
            \/ w.stored = <<>> /\ u.todo = <<>> /\ Headed
       /\ u.pc = "data" /\ w.pc # "idle" => w.data[1] = "hdr" /\ u.todo = <<>>
       /\ u.pc = "pad" /\ w.pc # "idle" => w.data[1] = "hdr"
       /\ u.pc = "pad" /\ w.pc = "idle" => Headed
       /\ u.pc = "done" /\ ~ignored => Headed

LEMMA InitHeading == Init => Heading
<1>1. Init => u.section = 0 /\ u.pc = "data"
  BY DEF Init
<1>2. QED
  BY <1>1 DEF Heading

\* What mtd_write_data does with the header.
LEMMA PutHeader ==
  ASSUME NEW c \in Contexts, c.pc = "idle", c.stored = <<>>
  PROVE  /\ Rest(c, <<"hdr">>) = <<>>
         /\ \/ /\ Put(c, <<"hdr">>).pc = "idle"
               /\ Put(c, <<"hdr">>).stored = <<"hdr">>
            \/ /\ Put(c, <<"hdr">>).pc = "block"
               /\ Put(c, <<"hdr">>).data[1] = "hdr"
<1>1. PerBlock \in Nat \ {0} /\ Len(<<"hdr">>) = 1 /\ Len(<<>>) = 0
  BY DeviceAssumption
<1>2. Taken(c, <<"hdr">>) = 1
  BY <1>1 DEF Taken
<1>3. c.stored \o SubSeq(<<"hdr">>, 1, 1) = <<"hdr">>
  <2>1. \A s \in Seq(Values) : Len(s) = 1 => SubSeq(s, 1, 1) = s /\ <<>> \o s = s
    OBVIOUS
  <2>2. <<"hdr">> \in Seq(Values)
    BY UpdatesAssumption
  <2>3. QED
    BY <1>1, <2>1, <2>2
<1>4. Rest(c, <<"hdr">>) = <<>>
  BY <1>2 DEF Rest
<1>5. Padded(<<"hdr">>)[1] = "hdr"
  BY <1>1 DEF Padded, Pages
<1>6. CASE PerBlock = 1
  <2>1. Put(c, <<"hdr">>) = BeginBlock(c, <<"hdr">>)
    BY <1>2, <1>3, <1>6 DEF Put
  <2>2. /\ BeginBlock(c, <<"hdr">>).pc = "block"
        /\ BeginBlock(c, <<"hdr">>).data = Padded(<<"hdr">>)
    BY DEF BeginBlock, Contexts
  <2>3. QED
    BY <1>4, <1>5, <2>1, <2>2
<1>7. CASE PerBlock # 1
  <2>1. Put(c, <<"hdr">>) = [c EXCEPT !.stored = <<"hdr">>]
    BY <1>1, <1>2, <1>3, <1>7 DEF Put
  <2>2. QED
    BY <1>4, <2>1 DEF Contexts
<1>8. QED
  BY <1>6, <1>7

\* Padding it, and padding nothing.
LEMMA SyncHeader ==
  ASSUME NEW c \in Contexts, c.pc = "idle"
  PROVE  /\ c.stored = <<>> =>
              /\ Sync(c).pc = "idle" /\ Sync(c).pos = c.pos
              /\ Sync(c).seek = c.seek
         /\ c.stored = <<"hdr">> =>
              Sync(c).pc = "block" /\ Sync(c).data[1] = "hdr"
<1>1. c.stored = <<>> => Sync(c) = [c EXCEPT !.pc = "idle"]
  BY DEF Sync
<1>2. c.stored = <<"hdr">> => Sync(c) = BeginBlock(c, <<"hdr">>)
  BY DEF Sync
<1>3. /\ BeginBlock(c, <<"hdr">>).pc = "block"
      /\ BeginBlock(c, <<"hdr">>).data = Padded(<<"hdr">>)
  BY DEF BeginBlock, Contexts
<1>4. Padded(<<"hdr">>)[1] = "hdr"
  BY DeviceAssumption DEF Padded, Pages
<1>5. QED
  BY <1>1, <1>2, <1>3, <1>4 DEF Contexts

LEMMA NextHeading == FunctionInv /\ Heading /\ [Next]_vars => Heading'
<1> SUFFICES ASSUME FunctionInv, Heading, [Next]_vars PROVE Heading'
  OBVIOUS
<1>a. w \in Contexts /\ u \in Functions /\ (u.pc = "close" => u.section = 3)
  BY DEF FunctionInv, TypeOK, DeviceTypeOK
\* The function has failed, or is at work on what the header describes.
<1>b. u'.pc \notin {"data", "pad"} /\ (u'.pc = "done" => ignored') => Heading'
  BY DEF Heading
<1>c. u'.section # 4 /\ u'.pc # "done" => Heading'
  BY DEF Heading
<1>1. CASE Write
  <2>1. /\ u.pc = "data" /\ w.pc = "idle" /\ u.todo # <<>> /\ w' = Put(w, u.todo)
        /\ u' = [u EXCEPT !.todo = Rest(w, u.todo)]
    BY <1>1 DEF Write
  <2>2. u'.pc = "data" /\ u'.section = u.section /\ u'.todo = Rest(w, u.todo)
    BY <1>a, <2>1 DEF Functions
  <2>3. CASE u.section = 4
    <3>1. w.stored = <<>> /\ u.todo = <<"hdr">>
      BY <2>1, <2>3 DEF Heading
    <3>2. /\ u'.todo = <<>>
          /\ (w'.pc = "idle" /\ w'.stored = <<"hdr">>)
               \/ (w'.pc = "block" /\ w'.data[1] = "hdr")
      BY <1>a, <2>1, <2>2, <3>1, PutHeader
    <3>3. QED
      BY <2>2, <3>2 DEF Heading
  <2>4. QED
    BY <1>c, <2>2, <2>3
<1>2. CASE Pad
  <2>1. /\ u.pc = "data" /\ w.pc = "idle" /\ u.todo = <<>> /\ w' = Sync(w)
        /\ u' = [u EXCEPT !.pc = "pad"] /\ nand' = nand
    BY <1>2 DEF Pad
  <2>2. u'.pc = "pad" /\ u'.section = u.section
    BY <1>a, <2>1 DEF Functions
  <2>3. CASE u.section = 4
    <3>1. w.stored = <<"hdr">> \/ (w.stored = <<>> /\ Headed)
      BY <2>1, <2>3 DEF Heading
    <3>2. \/ w'.pc = "block" /\ w'.data[1] = "hdr"
          \/ w'.pc = "idle" /\ w'.pos = w.pos /\ w'.seek = w.seek /\ Headed
      BY <1>a, <2>1, <3>1, SyncHeader
    <3>3. QED
      BY <2>1, <2>2, <3>2 DEF Heading, Headed
  <2>4. QED
    BY <1>c, <2>2, <2>3
<1>3. CASE \/ WriteFails \/ CloseFails \/ Misaligned
          \/ Nowhere \/ FinishNowhere \/ Fail \/ PowerLoss
  BY <1>3, <1>a, <1>b DEF WriteFails, CloseFails, Misaligned, Nowhere,
       FinishNowhere, FunctionInv, Fail, PowerLoss, Functions
<1>4. CASE Padded0 \/ PadFails
  <2>1. u.section < 4 /\ u.pc = "pad" /\ \E pos : NextSection(pos)
    BY <1>4 DEF Padded0, PadFails
  <2>2. u'.section # 4 /\ u'.pc # "done"
    BY <1>a, <2>1 DEF NextSection, Functions, Sections
  <2>3. QED
    BY <1>c, <2>2
<1>5. CASE Close
  BY <1>5, <1>a, <1>c DEF Close
<1>6. CASE Reopen
  <2>1. /\ u'.pc = "data" /\ u'.section = 4 /\ u'.todo = <<"hdr">>
        /\ w'.pc = "idle" /\ w'.stored = <<>>
    BY <1>6 DEF Reopen, Opened, Content
  <2>2. QED
    BY <2>1 DEF Heading
<1>7. CASE Finish
  <2>1. /\ u.pc = "pad" /\ u.section = 4 /\ w.pc = "idle" /\ w.seek = start[1]
        /\ u' = [u EXCEPT !.pc = "done"] /\ w' = w /\ nand' = nand /\ start' = start
    BY <1>7 DEF Finish, HeaderAligned, device
  <2>2. u'.pc = "done" /\ u'.section = 4
    BY <1>a, <2>1 DEF Functions
  <2>3. Headed
    BY <2>1 DEF Heading
  <2>4. QED
    BY <2>1, <2>2, <2>3 DEF Heading, Headed
<1>8. CASE Running /\ WriteBlock /\ UNCHANGED <<update, u, start, offset, ignored>>
  <2>1. WriterOK /\ WriteBlock /\ u.pc # "done"
    BY <1>8 DEF FunctionInv, Running
  <2>2. CASE w'.pc # "idle"
    <3>1. w.pc # "idle" /\ w'.data = w.data
      BY <2>1, WriteBlockContext
    <3>2. QED
      BY <1>8, <2>1, <2>2, <3>1 DEF Heading
  <2>3. CASE w'.pc = "idle"
    <3>1. /\ w.pc # "idle" /\ w'.stored = <<>> /\ w'.seek = w.pos + 1
          /\ w'.pos = w.pos /\ w.pos \in Blocks /\ nand' = nand
          /\ nand[w.pos] = w.data
      BY <2>1, <2>3, WriteBlockContext
    <3>2. w.data[1] = "hdr" => Headed'
      BY <3>1 DEF Headed
    <3>3. u'.section = 4 /\ u'.pc \in {"data", "pad"} => Headed'
      BY <1>8, <3>1, <3>2 DEF Heading
    <3>4. QED
      BY <1>8, <2>1, <2>3, <3>1, <3>3 DEF Heading
  <2>4. QED
    BY <2>2, <2>3
<1>9. CASE UNCHANGED vars
  BY <1>9 DEF vars, device, Heading, Headed
<1>10. QED
  BY <1>1, <1>2, <1>3, <1>4, <1>5, <1>6, <1>7, <1>8, <1>9 DEF Next

\* write_update_for_bootloader returns 0 only behind a header in its place and
\* with every section at its offset, for every update, every set of bad blocks and
\* every sequence of driver errors (unless it passed over a result of -1).
THEOREM DoneMeansValid == Spec => []DoneIsValid
<1> DEFINE Inv == FunctionInv /\ Walked /\ Located /\ Kept
<1>1. Inv /\ Heading => DoneIsValid
  <2> SUFFICES ASSUME Inv, Heading, u.pc = "done", ~ignored
               PROVE  /\ \E b \in 0..(start[1] - 1) : nand[b][1] = "hdr"
                      /\ \A k \in 1..3 : Begins(k)
    BY DEF DoneIsValid
  <2>1. /\ u.section = 4 /\ w.pc = "idle" /\ w.seek = start[1] /\ Headed
    BY DEF Heading
  <2>2. w.pos \in Nat /\ start[1] = w.pos + 1
    BY <2>1, DeviceAssumption DEF Headed, Blocks
  <2>3. w.pos \in 0..(start[1] - 1) /\ nand[w.pos][1] = "hdr"
    BY <2>1, <2>2 DEF Headed
  <2>4. ~Displaced
    <3>1. \A i \in 1..Len(w.skipped) : w.skipped[i] < start[1]
      BY <2>1 DEF Walked, Writing, Here
    <3>2. \A i \in 1..Len(w.skipped) : w.skipped[i] \in Int
      <4>1. w.skipped \in Seq(Blocks)
        BY DEF FunctionInv, TypeOK, DeviceTypeOK, Contexts
      <4>2. \A b \in Blocks : b \in Int
        BY DeviceAssumption DEF Blocks
      <4>3. QED
        BY <4>1, <4>2
    <3>3. QED
      BY <2>2, <3>1, <3>2 DEF Displaced
  <2>5. \A k \in 1..3 : Begins(k)
    BY <2>1, <2>4 DEF Kept
  <2>6. QED
    BY <2>3, <2>5
<1>2. Inv => FunctionInv
  OBVIOUS
<1>3. QED
  BY <1>1, <1>2, InitHeading, NextHeading, KeptAlways, PTL DEF Spec

\* The first pass writes no header, when the update itself has no such page.
NoHeader ==
  u.section < 4 =>
    /\ \A b \in Blocks : \A p \in Pages : nand[b][p] # "hdr"
    /\ \A p \in Pages : w.data[p] # "hdr"
    /\ \A i \in 1..Len(w.stored) : w.stored[i] # "hdr"
    /\ \A i \in 1..Len(u.todo) : u.todo[i] # "hdr"

\* The elements of two sequences in a row.
LEMMA Joined ==
  ASSUME NEW s \in Seq(Values), NEW t \in Seq(Values)
  PROVE  /\ s \o t \in Seq(Values) /\ Len(s \o t) = Len(s) + Len(t)
         /\ \A i \in 1..Len(s) : (s \o t)[i] = s[i]
         /\ \A i \in (Len(s) + 1)..(Len(s) + Len(t)) : (s \o t)[i] = t[i - Len(s)]
<1>1. s \o t \in Seq(Values) /\ Len(s \o t) = Len(s) + Len(t)
  OBVIOUS
<1>2. \A i \in 1..Len(s) : (s \o t)[i] = s[i]
  OBVIOUS
<1>3. \A i \in (Len(s) + 1)..(Len(s) + Len(t)) : (s \o t)[i] = t[i - Len(s)]
  OBVIOUS
<1>4. QED
  BY <1>1, <1>2, <1>3

\* Handing pages to mtd_write_data makes none.
LEMMA PutNoHeader ==
  ASSUME NEW c \in Contexts, NEW todo \in Seq(Values), Len(c.stored) < PerBlock,
         \A p \in Pages : c.data[p] # "hdr",
         \A i \in 1..Len(c.stored) : c.stored[i] # "hdr",
         \A i \in 1..Len(todo) : todo[i] # "hdr"
  PROVE  /\ \A p \in Pages : Put(c, todo).data[p] # "hdr"
         /\ \A i \in 1..Len(Put(c, todo).stored) : Put(c, todo).stored[i] # "hdr"
         /\ \A i \in 1..Len(Rest(c, todo)) : Rest(c, todo)[i] # "hdr"
<1> DEFINE n == Taken(c, todo)
           front == SubSeq(todo, 1, n)
           buffer == c.stored \o front
<1>1. /\ n \in 0..Len(todo) /\ n \in Nat /\ Len(todo) \in Nat
      /\ c.stored \in Seq(Values) /\ Len(c.stored) \in Nat
  <2>1. n \in 0..Len(todo)
    BY TakenRange
  <2>2. Len(todo) \in Nat /\ c.stored \in Seq(Values)
    BY DEF Contexts
  <2>3. QED
    BY <2>1, <2>2
<1> HIDE DEF n
<1>2. /\ front \in Seq(Values) /\ Len(front) = n
      /\ \A i \in 1..n : front[i] = todo[i]
  BY <1>1
<1> HIDE DEF front
<1>3. /\ buffer \in Seq(Values) /\ Len(buffer) = Len(c.stored) + n
      /\ \A i \in 1..Len(c.stored) : buffer[i] = c.stored[i]
      /\ \A i \in (Len(c.stored) + 1)..Len(buffer) :
           buffer[i] = front[i - Len(c.stored)]
  <2>1. /\ buffer \in Seq(Values) /\ Len(buffer) = Len(c.stored) + Len(front)
        /\ \A i \in 1..Len(c.stored) : buffer[i] = c.stored[i]
        /\ \A i \in (Len(c.stored) + 1)..(Len(c.stored) + Len(front)) :
             buffer[i] = front[i - Len(c.stored)]
    BY <1>1, <1>2, Joined, Zenon
  <2>2. QED
    BY <1>1, <1>2, <2>1
<1> HIDE DEF buffer
<1>4. \A i \in 1..Len(buffer) : buffer[i] # "hdr"
  <2>1. SUFFICES ASSUME NEW i \in 1..Len(buffer) PROVE buffer[i] # "hdr"
    OBVIOUS
  <2>2. CASE i <= Len(c.stored)
    BY <1>1, <1>3, <2>2
  <2>3. CASE ~(i <= Len(c.stored))
    <3>1. i - Len(c.stored) \in 1..n /\ i \in (Len(c.stored) + 1)..Len(buffer)
      BY <1>1, <1>3, <2>3
    <3>2. buffer[i] = todo[i - Len(c.stored)] /\ i - Len(c.stored) \in 1..Len(todo)
      BY <1>1, <1>2, <1>3, <3>1
    <3>3. QED
      BY <3>2
  <2>4. QED
    BY <2>2, <2>3
<1>5. \A p \in Pages : Padded(buffer)[p] # "hdr"
  BY <1>1, <1>3, <1>4, DeviceAssumption DEF Padded, Pages
<1>6. /\ Put(c, todo).data \in {c.data, Padded(buffer)}
      /\ Put(c, todo).stored \in {c.stored, buffer}
  BY DEF Put, BeginBlock, Contexts, buffer, front, n
<1>7. \A i \in 1..Len(Rest(c, todo)) : Rest(c, todo)[i] # "hdr"
  <2>1. /\ Len(Rest(c, todo)) = Len(todo) - n
        /\ \A i \in 1..(Len(todo) - n) : Rest(c, todo)[i] = todo[i + n]
    BY <1>1 DEF Rest, n
  <2>2. \A i \in 1..(Len(todo) - n) : i + n \in 1..Len(todo)
    BY <1>1
  <2>3. QED
    BY <2>1, <2>2
<1>8. QED
  BY <1>4, <1>5, <1>6, <1>7

\* Nor does padding what is pending.
LEMMA SyncNoHeader ==
  ASSUME NEW c \in Contexts,
         \A p \in Pages : c.data[p] # "hdr",
         \A i \in 1..Len(c.stored) : c.stored[i] # "hdr"
  PROVE  /\ \A p \in Pages : Sync(c).data[p] # "hdr"
         /\ Sync(c).stored = c.stored
<1>1. c.stored \in Seq(Values) /\ Len(c.stored) \in Nat
  BY DEF Contexts
<1>2. \A p \in Pages : Padded(c.stored)[p] # "hdr"
  BY <1>1, DeviceAssumption DEF Padded, Pages
<1>3. Sync(c).data \in {c.data, Padded(c.stored)} /\ Sync(c).stored = c.stored
  BY DEF Sync, BeginBlock, Contexts
<1>4. QED
  BY <1>2, <1>3

\* write_block and a power loss leave on a page what was there, what the block
\* is to hold, or neither.
LEMMA PagesOnFlash ==
  ASSUME WriterOK, WriteBlock \/ nand' \in AfterPowerLoss,
         NEW b \in Blocks, NEW p \in Pages
  PROVE  nand'[b][p] \in {nand[b][p], w.data[p], "erased", "garbled"}
<1>1. nand \in [Blocks -> Block] /\ w.page \in Pages
  BY DEF WriterOK, DeviceTypeOK, Contexts
<1>2. nand[b] \in [Pages -> Values \cup {"erased", "garbled"}]
  BY <1>1 DEF Block
<1>3. Filled("erased")[p] = "erased" /\ Filled("garbled")[p] = "garbled"
  BY DEF Filled
<1>4. CASE UNCHANGED nand
  BY <1>4
<1>5. CASE EraseBlock \/ GiveUp
  <2>1. nand' = nand \/ nand' = [nand EXCEPT ![w.pos] = Filled("erased")]
    BY <1>5 DEF EraseBlock, GiveUp
  <2>2. nand'[b] = nand[b] \/ nand'[b] = Filled("erased")
    BY <1>1, <2>1
  <2>3. QED
    BY <1>3, <2>2
<1>6. CASE ProgramPage \/ ProgramFails
  <2>1. PICK v \in {w.data[w.page], "garbled"} :
             nand' = [nand EXCEPT ![w.pos][w.page] = v]
    BY <1>6 DEF ProgramPage, ProgramFails
  <2>2. nand'[b] = nand[b] \/ nand'[b] = [nand[b] EXCEPT ![w.page] = v]
    BY <1>1, <2>1
  <2>3. nand'[b][p] = nand[b][p] \/ (nand'[b][p] = v /\ p = w.page)
    BY <1>2, <2>2
  <2>4. QED
    BY <2>1, <2>3
<1>7. CASE nand' \in AfterPowerLoss
  <2>1. \/ nand' = nand
        \/ nand' = [nand EXCEPT ![w.pos] = Filled("garbled")]
        \/ nand' = [nand EXCEPT ![w.pos][w.page] = "garbled"]
    BY <1>7 DEF AfterPowerLoss
  <2>2. \/ nand'[b] = nand[b] \/ nand'[b] = Filled("garbled")
        \/ nand'[b] = [nand[b] EXCEPT ![w.page] = "garbled"]
    BY <1>1, <2>1
  <2>3. QED
    BY <1>2, <1>3, <2>2
<1>8. QED
  BY <1>4, <1>5, <1>6, <1>7 DEF WriteBlock, SkipBadBlock, NoSpace, EraseFails,
     Verified, VerifyFails

LEMMA InitNoHeader == Init => NoHeader
<1> SUFFICES ASSUME Init PROVE NoHeader
  OBVIOUS
<1>1. /\ nand = [b \in Blocks |-> Filled("old")] /\ w = Opened
      /\ u.todo = <<"zero">>
  BY DEF Init, Content
<1>2. \A b \in Blocks : \A p \in Pages : nand[b][p] # "hdr"
  BY <1>1 DEF Filled
<1>3. \A p \in Pages : w.data[p] # "hdr"
  BY <1>1 DEF Opened, Filled
<1>4. w.stored = <<>> /\ Len(<<>>) = 0
  BY <1>1 DEF Opened
<1>5. \A i \in 1..Len(w.stored) : w.stored[i] # "hdr"
  BY <1>4
<1>6. \A i \in 1..Len(u.todo) : u.todo[i] # "hdr"
  BY <1>1
<1>7. QED
  BY <1>2, <1>3, <1>5, <1>6 DEF NoHeader

\* What is handed over section by section.
LEMMA ContentNoHeader ==
  ASSUME HeaderApart, FunctionInv, NEW k \in 0..3
  PROVE  \A i \in 1..Len(Content(k)) : Content(k)[i] # "hdr"
<1>1. CASE k = 0
  BY <1>1 DEF Content
<1>2. CASE k # 0
  <2>1. k \in 1..3 /\ update \in Updates
    BY <1>2 DEF FunctionInv, TypeOK
  <2>2. QED
    BY <2>1, ContentTypes DEF HeaderApart
<1>3. QED
  BY <1>1, <1>2

LEMMA NextNoHeader ==
  ASSUME HeaderApart
  PROVE  FunctionInv /\ NoHeader /\ [Next]_vars => NoHeader'
<1> SUFFICES ASSUME FunctionInv, NoHeader, [Next]_vars, u'.section < 4
             PROVE  NoHeader'
  BY DEF NoHeader
<1>a. w \in Contexts /\ u \in Functions /\ u.section \in 0..4
  BY DEF FunctionInv, TypeOK, DeviceTypeOK, Functions, Sections
<1>b. u.section < 4
  BY <1>a DEF Next, Write, Pad, WriteFails, Padded0, PadFails, Close, CloseFails,
     Reopen, Finish, Misaligned, Nowhere, FinishNowhere, Fail, PowerLoss, vars, device,
     Functions
<1>c. /\ \A b \in Blocks : \A p \in Pages : nand[b][p] # "hdr"
      /\ \A p \in Pages : w.data[p] # "hdr"
      /\ \A i \in 1..Len(w.stored) : w.stored[i] # "hdr"
      /\ \A i \in 1..Len(u.todo) : u.todo[i] # "hdr"
  BY <1>b DEF NoHeader
<1>1. CASE Write
  <2>1. /\ w' = Put(w, u.todo) /\ u' = [u EXCEPT !.todo = Rest(w, u.todo)]
        /\ nand' = nand /\ w.pc = "idle" /\ u.pc = "data"
    BY <1>1 DEF Write
  <2>2. u'.todo = Rest(w, u.todo) /\ u.todo \in Seq(Values)
    BY <1>a, <2>1 DEF Functions
  <2>3. Len(w.stored) < PerBlock
    BY <2>1 DEF FunctionInv, Running, WriterOK
  <2>4. QED
    BY <1>a, <1>c, <2>1, <2>2, <2>3, PutNoHeader DEF NoHeader
<1>2. CASE Pad \/ WriteFails \/ Close \/ Misaligned \/ Nowhere
  <2>1. w' = Sync(w) /\ nand' = nand /\ u'.todo = u.todo
    BY <1>2, <1>a DEF Pad, WriteFails, Close, Misaligned, Nowhere, Functions
  <2>2. QED
    BY <1>a, <1>c, <2>1, SyncNoHeader DEF NoHeader
<1>3. CASE Padded0 \/ PadFails
  <2>1. /\ nand' = nand /\ w'.data = w.data /\ w'.stored = w.stored
        /\ \E pos : NextSection(pos)
    BY <1>3, <1>a DEF Padded0, PadFails, device, Contexts
  <2>2. u'.todo = u.todo \/ \E k \in 0..3 : u'.todo = Content(k)
    <3>1. CASE u.section < 3
      <4>1. u'.todo = Content(u.section + 1) /\ u.section + 1 \in 0..3
        BY <1>a, <2>1, <3>1 DEF NextSection
      <4>2. QED
        BY <4>1
    <3>2. CASE ~(u.section < 3)
      BY <1>a, <2>1, <3>2 DEF NextSection, Functions
    <3>3. QED
      BY <3>1, <3>2
  <2>3. QED
    BY <1>c, <2>1, <2>2, ContentNoHeader DEF NoHeader
<1>4. CASE CloseFails \/ Finish \/ FinishNowhere \/ Fail
  <2>1. w' = w /\ nand' = nand /\ u'.todo = u.todo
    BY <1>4, <1>a DEF CloseFails, Finish, FinishNowhere, Fail, device, Functions
  <2>2. QED
    BY <1>c, <2>1 DEF NoHeader
<1>5. CASE Reopen
  BY <1>5 DEF Reopen
<1>6. CASE PowerLoss
  <2>1. /\ w' = w /\ u'.todo = u.todo /\ WriterOK /\ nand' \in AfterPowerLoss
    BY <1>6, <1>a DEF PowerLoss, Functions, FunctionInv
  <2>2. \A b \in Blocks : \A p \in Pages : nand'[b][p] # "hdr"
    BY <1>c, <2>1, PagesOnFlash
  <2>3. QED
    BY <1>c, <2>1, <2>2 DEF NoHeader
<1>7. CASE Running /\ WriteBlock /\ UNCHANGED <<update, u, start, offset, ignored>>
  <2>1. WriterOK
    BY <1>7 DEF FunctionInv
  <2>2. /\ w'.data = w.data /\ w'.stored \in {w.stored, <<>>}
    BY <1>7, <2>1, WriteBlockContext
  <2>3. \A b \in Blocks : \A p \in Pages : nand'[b][p] # "hdr"
    BY <1>7, <1>c, <2>1, PagesOnFlash
  <2>4. \A i \in 1..Len(w'.stored) : w'.stored[i] # "hdr"
    <3>1. Len(<<>>) = 0
      OBVIOUS
    <3>2. QED
      BY <1>c, <2>2, <3>1
  <2>5. QED
    BY <1>7, <1>c, <2>2, <2>3, <2>4 DEF NoHeader
<1>8. CASE UNCHANGED vars
  BY <1>8, <1>c DEF vars, device, NoHeader
<1>9. QED
  BY <1>1, <1>2, <1>3, <1>4, <1>5, <1>6, <1>7, <1>8 DEF Next

\* Wherever power goes, a header on the flash has behind it what it refers to, for
\* every partition and every update without a page of the header's value.
THEOREM HeaderAnnouncesUpdate ==
  ASSUME HeaderApart
  PROVE  Spec => []HeaderIsValid
<1> DEFINE Inv == FunctionInv /\ Walked /\ Located /\ Kept
<1>1. Inv /\ NoHeader => HeaderIsValid
  <2> SUFFICES ASSUME Inv, NoHeader, \E b \in Blocks \ bad : nand[b][1] = "hdr",
                      ~ignored, ~Displaced
               PROVE  \A k \in 1..3 : Begins(k) /\ (lost = {} => Complete(k))
    BY DEF HeaderIsValid
  <2>1. 1 \in Pages
    BY DeviceAssumption DEF Pages
  <2>2. ~(u.section < 4)
    BY <2>1 DEF NoHeader
  <2>3. u.section \in 0..4
    BY DEF FunctionInv, TypeOK, Functions, Sections
  <2>4. u.section = 4
    BY <2>2, <2>3
  <2>5. QED
    BY <2>4 DEF Kept
<1>2. Inv => FunctionInv
  OBVIOUS
<1>3. QED
  BY <1>1, <1>2, InitNoHeader, NextNoHeader, KeptAlways, PTL DEF Spec

=============================================================================
