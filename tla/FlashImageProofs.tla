-------------------------- MODULE FlashImageProofs --------------------------
(***************************************************************************)
(* What flash_image keeps for every partition, file and set of bad blocks: *)
(* its types, and the order in which it erases and programs pages.         *)
(***************************************************************************)
EXTENDS FlashImage, MtdWriterProofs

-----------------------------------------------------------------------------
(* Type correctness                                                        *)

\* What write_block keeps, and what flash_image keeps around it.
WritingInv == WriterOK /\ TypeOK

\* The files and what is cut from them are sequences of page values.
LEMMA FileTypes ==
  ASSUME image \in Images
  PROVE  /\ image \in Seq(Values) /\ image # <<>>
         /\ FirstPass \in Seq(Values)
         /\ \A n \in 0..Len(image) : SubSeq(image, 1, n) \in Seq(Values)
<1>1. image \in Seq(Values) /\ image # <<>>
  BY ImagesAssumption
<1>2. Tail(image) \in Seq(Values)
  BY <1>1
<1>3. <<"zero">> \in Seq(Values)
  BY DeviceAssumption
<1>4. QED
  BY <1>1, <1>2, <1>3 DEF FirstPass

\* A process that starts with a fresh context has nothing under way.
LEMMA OpenedOK ==
  ASSUME DeviceTypeOK', w' = Opened
  PROVE  WriterOK'
BY DeviceAssumption DEF WriterOK, Opened

\* A fresh context on flash, bad blocks and counters that are well-formed.
LEMMA DeviceKept ==
  ASSUME WriterOK, w' = Opened, nand' \in [Blocks -> Block],
         UNCHANGED <<bad, lost>>, Fault \/ UNCHANGED faults
  PROVE  WriterOK'
<1>1. w' \in Contexts
  BY OpenedType
<1>2. faults' \in 0..MaxFaults
  BY DeviceAssumption DEF WriterOK, DeviceTypeOK, Fault
<1>3. DeviceTypeOK'
  BY <1>1, <1>2 DEF WriterOK, DeviceTypeOK
<1>4. QED
  BY <1>3, OpenedOK

LEMMA InitWriting == Init => WritingInv
<1> SUFFICES ASSUME Init PROVE WritingInv
  OBVIOUS
<1>1. nand \in [Blocks -> Block]
  <2>1. PICK content \in {"erased", "garbled"} :
          nand = [b \in Blocks |->
                    IF b \in bad THEN Filled(content) ELSE Filled("old")]
    BY DEF Init
  <2>2. Filled(content) \in Block /\ Filled("old") \in Block
    BY BlockTypes, DeviceAssumption
  <2>3. QED
    BY <2>1, <2>2
<1>2. bad \subseteq Blocks /\ lost \subseteq Blocks /\ faults \in 0..MaxFaults
  BY DeviceAssumption DEF Init
<1>3. w = Opened /\ w \in Contexts
  BY OpenedType DEF Init
<1>4. WriterOK
  BY <1>1, <1>2, <1>3, DeviceAssumption DEF WriterOK, DeviceTypeOK, Opened
<1>5. image \in Images /\ f \in Processes /\ torn \in BOOLEAN /\ runs \in 0..MaxRuns
  <2>1. /\ f = [pc |-> "off", todo |-> <<>>]
        /\ image \in Images /\ torn = FALSE /\ runs = 0
    BY DEF Init
  <2>2. f \in Processes
    BY <2>1 DEF Processes
  <2>3. MaxRuns \in Nat
    BY ImagesAssumption
  <2>4. runs \in 0..MaxRuns
    BY <2>1, <2>3
  <2>5. torn \in BOOLEAN
    BY <2>1
  <2>6. QED
    BY <2>1, <2>2, <2>4, <2>5
<1>6. QED
  BY <1>4, <1>5 DEF WritingInv, WriterOK, TypeOK

LEMMA NextWriting == WritingInv /\ [Next]_vars => WritingInv'
<1> SUFFICES ASSUME WritingInv, [Next]_vars PROVE WritingInv'
  OBVIOUS
<1>a. /\ WriterOK /\ DeviceTypeOK /\ nand \in [Blocks -> Block] /\ w \in Contexts
      /\ image \in Images /\ f \in Processes /\ torn \in BOOLEAN
      /\ runs \in 0..MaxRuns
  BY DEF WritingInv, TypeOK, WriterOK, DeviceTypeOK
<1>b. f.todo \in Seq(Values) /\ <<>> \in Seq(Values)
  BY <1>a DEF Processes
<1>c. WriterOK' /\ image' \in Images /\ f' \in Processes /\ torn' \in BOOLEAN
      /\ runs' \in 0..MaxRuns => WritingInv'
  BY DEF WritingInv, TypeOK, WriterOK
<1>1. CASE Run
  <2>1. WriterOK'
    BY <1>1, <1>a, DeviceKept DEF Run
  <2>2. runs' \in 0..MaxRuns
    BY <1>1, <1>a, ImagesAssumption DEF Run
  <2>3. QED
    BY <1>1, <1>a, <1>c, <2>1, <2>2 DEF Run, Processes
<1>2. CASE CheckSame
  <2>1. WriterOK'
    BY <1>2, <1>a DEF CheckSame, WriterOK, DeviceTypeOK, device
  <2>2. QED
    BY <1>2, <1>a, <1>c, <2>1 DEF CheckSame, Processes
<1>3. CASE CheckDiffers
  <2>1. faults' \in 0..MaxFaults
    BY <1>3, <1>a, DeviceAssumption DEF CheckDiffers, Fault, DeviceTypeOK
  <2>2. WriterOK'
    BY <1>3, <1>a, <2>1 DEF CheckDiffers, WriterOK, DeviceTypeOK
  <2>3. QED
    BY <1>3, <1>a, <1>c, <2>2, FileTypes DEF CheckDiffers, Processes
<1>4. CASE Write
  <2>1. Len(w.stored) < PerBlock
    BY <1>4, <1>a DEF Write, WriterOK
  <2>2. /\ w' \in Contexts /\ Len(w'.stored) <= PerBlock
        /\ w'.pc \in {"idle", "block"}
        /\ w'.pc = "idle" => Len(w'.stored) < PerBlock
        /\ f'.todo \in Seq(Values)
    BY <1>4, <1>a, <1>b, <2>1, PutType DEF Write, Processes
  <2>3. WriterOK'
    BY <1>4, <1>a, <2>2 DEF Write, WriterOK, DeviceTypeOK
  <2>4. f' \in Processes
    BY <1>4, <1>a, <2>2 DEF Write, Processes
  <2>5. QED
    BY <1>4, <1>a, <1>c, <2>3, <2>4 DEF Write
<1>5. CASE Close
  <2>1. /\ w' \in Contexts /\ w'.stored = w.stored
        /\ w'.pc = IF w.stored = <<>> THEN "idle" ELSE "block"
    BY <1>5, <1>a, SyncType DEF Close
  <2>2. WriterOK'
    BY <1>5, <1>a, <2>1, DeviceAssumption DEF Close, WriterOK, DeviceTypeOK
  <2>3. QED
    BY <1>5, <1>a, <1>c, <2>2 DEF Close, Processes
<1>6. CASE Reopen
  <2>1. WriterOK'
    BY <1>6, <1>a, DeviceKept DEF Reopen
  <2>2. f'.todo \in Seq(Values)
    <3>1. (IF Len(image) < PerBlock THEN Len(image) ELSE PerBlock) \in 0..Len(image)
      BY <1>a, FileTypes, DeviceAssumption
    <3>2. QED
      BY <1>6, <1>a, <3>1, FileTypes DEF Reopen
  <2>3. f' \in Processes
    BY <1>6, <2>2 DEF Reopen, Processes
  <2>4. QED
    BY <1>6, <1>a, <1>c, <2>1, <2>3 DEF Reopen
<1>7. CASE Finish
  <2>1. WriterOK'
    BY <1>7, <1>a DEF Finish, WriterOK, DeviceTypeOK, device
  <2>2. QED
    BY <1>7, <1>a, <1>c, <2>1 DEF Finish, Processes
<1>8. CASE Die
  <2>1. WriterOK'
    BY <1>8, <1>a, DeviceKept DEF Die
  <2>2. QED
    BY <1>8, <1>a, <1>c, <2>1 DEF Die, Processes
<1>9. CASE PowerLoss
  <2>1. WriterOK'
    BY <1>9, <1>a, DeviceKept, PowerLossPages DEF PowerLoss
  <2>2. torn' \in BOOLEAN
    BY <1>9, <1>a DEF PowerLoss
  <2>3. QED
    BY <1>9, <1>a, <1>b, <1>c, <2>1, <2>2 DEF PowerLoss, Processes
<1>10. CASE WriteBlock /\ UNCHANGED <<image, f, torn, runs>>
  BY <1>10, <1>a, <1>c, WriteBlockStep
<1>11. CASE UNCHANGED vars
  BY <1>11, <1>a, <1>c DEF vars, device, WriterOK, DeviceTypeOK
<1>12. QED
  BY <1>1, <1>2, <1>3, <1>4, <1>5, <1>6, <1>7, <1>8, <1>9, <1>10, <1>11
     DEF Next

LEMMA WritingAlways == Spec => []WritingInv
<1>1. QED
  BY InitWriting, NextWriting, PTL DEF Spec

\* The types of flash_image and of the write context it drives, for every
\* partition and every file.
THEOREM TypeCorrect == Spec => []TypeOK
<1>1. WritingInv => TypeOK
  BY DEF WritingInv
<1>2. QED
  BY <1>1, WritingAlways, PTL

-----------------------------------------------------------------------------
(* Erase before programming                                                *)

\* Neither flash_image nor a power loss changes a page of a bad block, or
\* programs a page that was not erased.
THEOREM ErasedFirst == Spec => PagesAreErasedFirst
<1>1. WritingInv /\ [Next]_vars => [PageStep]_device
  <2> SUFFICES ASSUME WritingInv, [Next]_vars PROVE [PageStep]_device
    OBVIOUS
  <2>a. WriterOK
    BY DEF WritingInv
  <2>b. UNCHANGED nand => PageStep
    BY DEF PageStep
  <2>1. CASE WriteBlock
    BY <2>1, <2>a, WriteBlockStep
  <2>2. CASE PowerLoss
    BY <2>2, <2>a, PowerLossPages DEF PowerLoss
  <2>3. CASE Run \/ CheckSame \/ CheckDiffers \/ Write \/ Close \/ Reopen
             \/ Finish \/ Die
    BY <2>3, <2>b DEF Run, CheckSame, CheckDiffers, Write, Close, Reopen,
                      Finish, Die, device
  <2>4. CASE UNCHANGED vars
    BY <2>4 DEF vars
  <2>5. QED
    BY <2>1, <2>2, <2>3, <2>4 DEF Next
<1>2. Spec => [][PageStep]_device
  BY <1>1, WritingAlways, PTL DEF Spec
<1>3. QED
  BY <1>2 DEF PagesAreErasedFirst, PageStep

-----------------------------------------------------------------------------
(* A file that is written reads back                                       *)

\* What the second pass writes: the first block of the file.
FirstBlock ==
  SubSeq(image, 1, IF Len(image) < PerBlock THEN Len(image) ELSE PerBlock)

\* Chunk k of the file is in its place.
InPlace(k) == Placed(nand, Good, 0, image, k)

\* write_block is at work only for a pass, which starts with a fresh context.
Resting ==
  /\ f.pc \notin {"first", "reopen", "second"} => w.pc = "idle"
  /\ f.pc = "check" => w = Opened

\* How far the passes have come, as long as no block has been given up.
Progress ==
  lost = {} =>
    /\ f.pc = "first" => Feeding(nand, Good, w, 0, FirstPass, f.todo)
    /\ f.pc = "reopen" => Closing(nand, Good, w, 0, FirstPass)
    /\ f.pc = "second" =>
         /\ Feeding(nand, Good, w, 0, FirstBlock, f.todo)
         /\ \A k \in Chunks(image) : k >= 1 => InPlace(k)
    /\ f.pc = "done" => \A k \in Chunks(image) : InPlace(k)

FlashInv == WritingInv /\ Resting /\ Progress

\* A fresh context has the whole file before it.
LEMMA OpenedFeeds ==
  ASSUME NEW nd, NEW good \in SUBSET Nat, NEW file \in Seq(Values)
  PROVE  Feeding(nd, good, Opened, 0, file, file)
<1>1. Opened.pc = "idle" /\ Opened.seek = 0 /\ Opened.stored = <<>>
  BY DEF Opened
<1>2. Turn(Opened, good) - 0 = 0
  BY <1>1, RankFirst DEF Turn, Here
<1>3. 0 * PerBlock = 0 /\ Len(<<>>) = 0
  BY DeviceAssumption
<1>4. SubSeq(file, 1, Len(file)) = file /\ <<>> = SubSeq(file, 1, 0)
  OBVIOUS
<1>5. \A k \in Chunks(file) : ~(k < 0)
  BY DEF Chunks
<1>6. Len(file) \in Nat /\ 0 + 0 <= Len(file) /\ 0 + 0 + 1 = 1 /\ 0 + 1 = 1
  OBVIOUS
<1>7. QED
  BY <1>1, <1>2, <1>3, <1>4, <1>5, <1>6 DEF Feeding

\* The two passes write the chunks of the file: the first all but the header,
\* the second the one with the header.
LEMMA PassChunks ==
  ASSUME image \in Images
  PROVE  /\ FirstPass \in Seq(Values) /\ Chunks(FirstPass) = Chunks(image)
         /\ \A k \in Chunks(image) : k >= 1 => Chunk(FirstPass, k) = Chunk(image, k)
         /\ FirstBlock \in Seq(Values) /\ Len(FirstBlock) \in 1..PerBlock
         /\ 0 \in Chunks(FirstBlock) /\ 0 \in Chunks(image)
         /\ Chunk(FirstBlock, 0) = Chunk(image, 0)
<1>0. PerBlock \in Nat \ {0}
  BY DeviceAssumption
<1>1. /\ image \in Seq(Values) /\ image # <<>> /\ Len(image) \in Nat \ {0}
      /\ FirstPass \in Seq(Values)
  BY FileTypes
<1>2. /\ Len(FirstPass) = Len(image)
      /\ \A p \in 2..Len(image) : FirstPass[p] = image[p]
  <2>1. /\ Tail(image) \in Seq(Values) /\ Len(Tail(image)) = Len(image) - 1
        /\ \A p \in 1..(Len(image) - 1) : Tail(image)[p] = image[p + 1]
    BY <1>1
  <2>2. <<"zero">> \in Seq(Values) /\ Len(<<"zero">>) = 1
    BY DeviceAssumption
  <2>3. QED
    BY <1>1, <2>1, <2>2 DEF FirstPass
<1>3. Chunks(FirstPass) = Chunks(image)
  BY <1>2 DEF Chunks
<1>4. ASSUME NEW k \in Chunks(image), k >= 1
      PROVE  Chunk(FirstPass, k) = Chunk(image, k)
  <2> DEFINE a == k * PerBlock
  <2>1. k \in Nat /\ a \in Nat /\ k <= a
    BY BlockMultiples DEF Chunks
  <2>2. /\ Chunk(FirstPass, k) \in [Pages -> Values]
        /\ \A p \in Pages : Chunk(FirstPass, k)[p] =
             IF a + p <= Len(FirstPass) THEN FirstPass[a + p] ELSE "zero"
    BY <1>1, <1>3, ChunkPages
  <2>3. /\ Chunk(image, k) \in [Pages -> Values]
        /\ \A p \in Pages : Chunk(image, k)[p] =
             IF a + p <= Len(image) THEN image[a + p] ELSE "zero"
    BY <1>1, ChunkPages
  <2> HIDE DEF a
  <2>4. \A p \in Pages : Chunk(FirstPass, k)[p] = Chunk(image, k)[p]
    BY <1>0, <1>1, <1>2, <1>4, <2>1, <2>2, <2>3 DEF Pages
  <2>5. QED
    BY <2>2, <2>3, <2>4
<1> DEFINE n == IF Len(image) < PerBlock THEN Len(image) ELSE PerBlock
<1>5. n \in 1..Len(image) /\ n \in 1..PerBlock
  BY <1>0, <1>1
<1>6. FirstBlock = SubSeq(image, 1, n)
  BY DEF FirstBlock
<1>7. FirstBlock \in Seq(Values) /\ Len(FirstBlock) = n
  BY <1>1, <1>5, <1>6
<1>8. 0 * PerBlock = 0 /\ (0 + 1) * PerBlock = PerBlock
  BY <1>0
<1>9. 0 \in Chunks(FirstBlock) /\ 0 \in Chunks(image)
  BY <1>1, <1>5, <1>7, <1>8 DEF Chunks
<1>10. Chunk(FirstBlock, 0) = Chunk(image, 0)
  <2>1. (IF (0 + 1) * PerBlock < Len(image) THEN (0 + 1) * PerBlock
         ELSE Len(image)) = n
    BY <1>0, <1>1, <1>8
  <2>2. (IF (0 + 1) * PerBlock < Len(FirstBlock) THEN (0 + 1) * PerBlock
         ELSE Len(FirstBlock)) = n
    BY <1>0, <1>1, <1>5, <1>7, <1>8
  <2>3. SubSeq(FirstBlock, 1, n) = FirstBlock
    BY <1>7
  <2>4. 0 * PerBlock + 1 = 1
    BY <1>8
  <2>5. Chunk(image, 0) = Padded(SubSeq(image, 1, n))
    BY <2>1, <2>4 DEF Chunk
  <2>6. Chunk(FirstBlock, 0) = Padded(SubSeq(FirstBlock, 1, n))
    BY <2>2, <2>4 DEF Chunk
  <2>7. QED
    BY <1>6, <2>3, <2>5, <2>6
<1>11. QED
  BY <1>1, <1>3, <1>4, <1>5, <1>7, <1>9, <1>10

LEMMA InitFlash == Init => FlashInv
<1> SUFFICES ASSUME Init PROVE FlashInv
  OBVIOUS
<1>1. w = Opened /\ f.pc = "off"
  BY DEF Init
<1>2. w.pc = "idle"
  BY <1>1 DEF Opened
<1>3. QED
  BY <1>1, <1>2, InitWriting DEF FlashInv, Resting, Progress

\* In the second pass the block at hand is the first good one.
LEMMA SecondTurn ==
  ASSUME FlashInv, lost = {}, f.pc = "second", w.pc # "idle"
  PROVE  Turn(w, Good) = 0
<1>1. image \in Images /\ w \in Contexts /\ bad \subseteq Blocks
  BY DEF FlashInv, WritingInv, TypeOK, DeviceTypeOK
<1>2. Feeding(nand, Good, w, 0, FirstBlock, f.todo)
  BY DEF FlashInv, Progress
<1> DEFINE t == Turn(w, Good)
           a == t * PerBlock
<1>3. t \in Nat /\ a + PerBlock <= Len(FirstBlock)
  <2>1. t - 0 \in Nat /\ (t - 0) * PerBlock + PerBlock <= Len(FirstBlock)
    BY <1>2 DEF Feeding
  <2>2. Good \in SUBSET Nat /\ w.pos \in Nat
    BY <1>1, DeviceAssumption DEF Good, Blocks, Contexts
  <2>3. t \in Nat
    BY <2>2, RankType DEF Turn, Here
  <2>4. t - 0 = t
    BY <2>3
  <2>5. QED
    BY <2>1, <2>3, <2>4
<1>4. a \in Nat /\ t <= a
  BY <1>3, BlockMultiples
<1>5. PerBlock \in Nat \ {0} /\ Len(FirstBlock) <= PerBlock /\ Len(FirstBlock) \in Nat
  BY <1>1, PassChunks, DeviceAssumption
<1> HIDE DEF a
<1>6. a = 0
  BY <1>3, <1>4, <1>5
<1>7. QED
  BY <1>3, <1>4, <1>6

LEMMA NextFlash == FlashInv /\ [Next]_vars => FlashInv'
<1> SUFFICES ASSUME FlashInv, [Next]_vars PROVE FlashInv'
  OBVIOUS
<1>a. /\ WritingInv /\ WriterOK /\ w \in Contexts /\ bad \subseteq Blocks
      /\ image \in Images /\ f \in Processes /\ f.todo \in Seq(Values)
  BY DEF FlashInv, WritingInv, WriterOK, DeviceTypeOK, TypeOK, Processes
<1>b. WritingInv'
  BY <1>a, NextWriting
<1>c. Resting' /\ Progress' => FlashInv'
  BY <1>b DEF FlashInv
<1>d. Good \in SUBSET Nat
  BY <1>a, DeviceAssumption DEF Good, Blocks
<1>e. Resting /\ Progress
  BY DEF FlashInv
<1>f. Opened.pc = "idle"
  BY DEF Opened
<1>1. CASE Run
  <2>1. f'.pc = "check" /\ w' = Opened
    BY <1>1 DEF Run
  <2>2. QED
    BY <1>c, <1>f, <2>1 DEF Resting, Progress
<1>2. CASE CheckSame
  <2>1. f'.pc = "same" /\ w' = w /\ w = Opened
    BY <1>2, <1>a, <1>e DEF CheckSame, device, Resting, Processes
  <2>2. QED
    BY <1>c, <1>f, <2>1 DEF Resting, Progress
<1>3. CASE CheckDiffers
  <2>1. /\ f'.pc = "first" /\ f'.todo = FirstPass /\ w' = w /\ w = Opened
        /\ UNCHANGED <<nand, bad, image>>
    BY <1>3, <1>e DEF CheckDiffers, Resting
  <2>2. Feeding(nand, Good, Opened, 0, FirstPass, FirstPass)
    BY <1>a, <1>d, FileTypes, OpenedFeeds
  <2>3. Good' = Good /\ FirstPass' = FirstPass
    BY <2>1 DEF Good, FirstPass
  <2>4. Feeding(nand', Good', w', 0, FirstPass', f'.todo)
    BY <2>1, <2>2, <2>3
  <2>5. Progress'
    BY <2>1, <2>4 DEF Progress
  <2>6. QED
    BY <1>c, <2>1, <2>5 DEF Resting
<1>4. CASE Write
  <2>1. /\ f.pc \in {"first", "second"} /\ w.pc = "idle"
        /\ w' = Put(w, f.todo) /\ f'.todo = Rest(w, f.todo) /\ f'.pc = f.pc
        /\ UNCHANGED <<nand, bad, lost, image>>
    BY <1>4, <1>a DEF Write, Processes
  <2>2. Len(w.stored) < PerBlock
    BY <1>a, <2>1 DEF WriterOK
  <2>3. ASSUME NEW file \in Seq(Values), Feeding(nand, Good, w, 0, file, f.todo)
        PROVE  Feeding(nand', Good', w', 0, file, f'.todo)
    <3>1. Feeding(nand, Good, Put(w, f.todo), 0, file, Rest(w, f.todo))
      BY <1>a, <1>d, <2>1, <2>2, <2>3, PutFeeds
    <3>2. Good' = Good
      BY <2>1 DEF Good
    <3>3. QED
      BY <2>1, <3>1, <3>2
  <2>4. FirstPass' = FirstPass /\ FirstBlock' = FirstBlock /\ Good' = Good
    BY <2>1 DEF FirstPass, FirstBlock, Good
  <2>5. FirstPass \in Seq(Values) /\ FirstBlock \in Seq(Values)
    BY <1>a, PassChunks
  <2>6. Progress'
    BY <1>e, <2>1, <2>3, <2>4, <2>5 DEF Progress, InPlace
  <2>7. QED
    BY <1>c, <2>1, <2>6 DEF Resting
<1>5. CASE Close
  <2>1. /\ f.pc = "first" /\ w.pc = "idle" /\ f.todo = <<>>
        /\ w' = Sync(w) /\ f'.pc = "reopen"
        /\ UNCHANGED <<nand, bad, lost, image>>
    BY <1>5, <1>a DEF Close, Processes
  <2>2. Len(w.stored) < PerBlock
    BY <1>a, <2>1 DEF WriterOK
  <2>3. FirstPass' = FirstPass /\ Good' = Good /\ FirstPass \in Seq(Values)
    BY <1>a, <2>1, PassChunks DEF FirstPass, Good
  <2>4. lost = {} => Closing(nand, Good, Sync(w), 0, FirstPass)
    BY <1>a, <1>d, <1>e, <2>1, <2>2, <2>3, SyncCloses DEF Progress
  <2>5. Progress'
    BY <2>1, <2>3, <2>4 DEF Progress
  <2>6. QED
    BY <1>c, <2>1, <2>5 DEF Resting
<1>6. CASE Reopen
  <2>1. /\ f.pc = "reopen" /\ w.pc = "idle" /\ w' = Opened
        /\ f'.pc = "second" /\ f'.todo = FirstBlock
        /\ UNCHANGED <<nand, bad, lost, image>>
    BY <1>6 DEF Reopen, FirstBlock
  <2>2. Good' = Good /\ FirstBlock' = FirstBlock
    BY <2>1 DEF Good, FirstBlock
  <2>3. Feeding(nand', Good', w', 0, FirstBlock', f'.todo)
    BY <1>a, <1>d, <2>1, <2>2, PassChunks, OpenedFeeds
  <2>4. ASSUME lost = {}, NEW k \in Chunks(image), k >= 1
        PROVE  InPlace(k)
    <3>1. Closing(nand, Good, w, 0, FirstPass)
      BY <1>e, <2>1, <2>4 DEF Progress
    <3>2. Placed(nand, Good, 0, FirstPass, k)
      BY <1>a, <2>1, <3>1, PassChunks DEF Closing
    <3>3. QED
      BY <1>a, <2>4, <3>2, PassChunks DEF Placed, InPlace
  <2>5. lost = {} => \A k \in Chunks(image) : k >= 1 => InPlace(k)'
    BY <2>1, <2>2, <2>4 DEF InPlace
  <2>6. Progress'
    BY <2>1, <2>3, <2>5 DEF Progress
  <2>7. QED
    BY <1>c, <2>1, <2>6 DEF Resting
<1>7. CASE Finish
  <2>1. /\ f.pc = "second" /\ w.pc = "idle" /\ f.todo = <<>>
        /\ f'.pc \in {"done", "failed"}
        /\ f'.pc = "done" => w.stored = <<>>
        /\ UNCHANGED <<nand, bad, w, lost, image>>
    BY <1>7, <1>a DEF Finish, device, Processes
  <2>2. ASSUME lost = {}, w.stored = <<>> PROVE \A k \in Chunks(image) : InPlace(k)
    <3>1. Feeding(nand, Good, w, 0, FirstBlock, <<>>)
      BY <1>e, <2>1, <2>2 DEF Progress
    <3>2. Closing(nand, Good, Sync(w), 0, FirstBlock)
      BY <1>a, <1>d, <2>1, <3>1, PassChunks, SyncCloses DEF WriterOK
    <3>3. Sync(w).pc = "idle"
      BY <1>a, <2>2, SyncType
    <3>4. Placed(nand, Good, 0, FirstBlock, 0)
      BY <1>a, <3>2, <3>3, PassChunks DEF Closing
    <3>5. InPlace(0)
      BY <1>a, <3>4, PassChunks DEF Placed, InPlace
    <3>6. \A k \in Chunks(image) : k = 0 \/ k >= 1
      BY DEF Chunks
    <3>7. QED
      BY <1>e, <2>1, <2>2, <3>5, <3>6 DEF Progress
  <2>3. Good' = Good
    BY <2>1 DEF Good
  <2>4. Progress'
    BY <2>1, <2>2, <2>3 DEF Progress, InPlace
  <2>5. QED
    BY <1>c, <2>1, <2>4 DEF Resting
<1>8. CASE Die
  <2>1. f'.pc = "failed" /\ w' = Opened
    BY <1>8, <1>a DEF Die, Processes
  <2>2. QED
    BY <1>c, <1>f, <2>1 DEF Resting, Progress
<1>9. CASE PowerLoss
  <2>1. f'.pc = "off" /\ w' = Opened
    BY <1>9 DEF PowerLoss
  <2>2. QED
    BY <1>c, <1>f, <2>1 DEF Resting, Progress
<1>10. CASE WriteBlock /\ UNCHANGED <<image, f, torn, runs>>
  <2>1. w.pc # "idle" /\ lost \subseteq lost'
    BY <1>10 DEF WriteBlock, SkipBadBlock, NoSpace, EraseBlock, EraseFails,
         ProgramPage, ProgramFails, Verified, VerifyFails, GiveUp, AtBlock
  <2>2. Resting'
    BY <1>10, <1>e, <2>1 DEF Resting
  <2>3. FirstPass' = FirstPass /\ FirstBlock' = FirstBlock
    BY <1>10 DEF FirstPass, FirstBlock
  <2>4. FirstPass \in Seq(Values) /\ FirstBlock \in Seq(Values)
    BY <1>a, PassChunks
  <2>5. ASSUME lost' = {} PROVE Progress'
    <3>1. lost = {}
      BY <2>1, <2>5
    <3>2. Good' = Good
      BY <1>10, <1>a, <2>5, WriteBlockTurn
    <3>3. f.pc = "first" => Feeding(nand', Good', w', 0, FirstPass', f'.todo)
      BY <1>10, <1>a, <1>e, <2>3, <2>4, <2>5, <3>1, <3>2, FeedingStep
         DEF Progress
    <3>4. f.pc = "reopen" => Closing(nand', Good', w', 0, FirstPass')
      BY <1>10, <1>a, <1>e, <2>3, <2>4, <2>5, <3>1, <3>2, ClosingStep
         DEF Progress
    <3>5. f.pc = "second" => Feeding(nand', Good', w', 0, FirstBlock', f'.todo)
      BY <1>10, <1>a, <1>e, <2>3, <2>4, <2>5, <3>1, <3>2, FeedingStep
         DEF Progress
    <3>6. ASSUME f.pc = "second", NEW k \in Chunks(image), k >= 1
          PROVE  InPlace(k)'
      <4>1. Turn(w, Good) = 0
        BY <2>1, <3>1, <3>6, SecondTurn
      <4>2. k \in Nat /\ 0 + k # 0
        BY <3>6 DEF Chunks
      <4>3. Placed(nand, Good, 0, image, k)
        BY <1>e, <3>1, <3>6 DEF Progress, InPlace
      <4>4. Placed(nand', Good, 0, image, k)
        BY <1>10, <1>a, <2>5, <4>1, <4>2, <4>3, PlacedStep
      <4>5. QED
        BY <1>10, <3>2, <4>4 DEF InPlace
    <3>7. f.pc # "done"
      BY <1>e, <2>1 DEF Resting
    <3>8. QED
      BY <1>10, <3>3, <3>4, <3>5, <3>6, <3>7 DEF Progress
  <2>6. QED
    BY <1>c, <2>2, <2>5 DEF Progress
<1>11. CASE UNCHANGED vars
  <2>1. UNCHANGED <<nand, bad, w, lost, image, f>>
    BY <1>11 DEF vars, device
  <2>2. Good' = Good /\ FirstPass' = FirstPass /\ FirstBlock' = FirstBlock
    BY <2>1 DEF Good, FirstPass, FirstBlock
  <2>3. QED
    BY <1>c, <1>e, <2>1, <2>2 DEF Resting, Progress, InPlace
<1>12. QED
  BY <1>1, <1>2, <1>3, <1>4, <1>5, <1>6, <1>7, <1>8, <1>9, <1>10, <1>11
     DEF Next

LEMMA FlashAlways == Spec => []FlashInv
BY InitFlash, NextFlash, PTL DEF Spec

\* flash_image that ends well has written a file that reads back.
THEOREM ReadsBack == Spec => []FlashedReadsBack
<1>1. FlashInv => FlashedReadsBack
  <2> SUFFICES ASSUME FlashInv, f.pc = "done", ~Excused
               PROVE  ReadsAs(image)
    BY DEF FlashedReadsBack
  <2>1. DeviceTypeOK /\ image \in Seq(Values)
    BY FileTypes DEF FlashInv, WritingInv, TypeOK
  <2>2. \A k \in Chunks(image) : Placed(nand, Good, 0, image, k)
    BY DEF FlashInv, Progress, InPlace, Excused
  <2>3. \A b \in bad : ~Unreadable(b)
    BY DEF Excused
  <2>4. QED
    BY <2>1, <2>2, <2>3, PlacedReadsBack
<1>2. QED
  BY <1>1, FlashAlways, PTL

-----------------------------------------------------------------------------
(* The header is the commit point                                          *)

\* No block but the first begins with a header.
OnlyFirst ==
  lost = {} =>
    \A b \in Good, i \in Images : Rank(Good, b) > 0 => nand[b][1] # Header(i)

\* A first block that begins with a header stands before its whole file, or is
\* spoilt, or is the one that the second pass is programming.
HeadOK ==
  lost = {} =>
    \A b \in Good, i \in Images :
      Rank(Good, b) = 0 /\ nand[b][1] = Header(i) =>
        \/ torn
        \/ Unreadable(b)
        \/ \A k \in Chunks(i) : Placed(nand, Good, 0, i, k)
        \/ f.pc = "second" /\ w.pc = "program" /\ w.page > 1

HeadInv == FlashInv /\ Programmed /\ OnlyFirst /\ HeadOK

\* The first page of what the two passes write.
LEMMA FirstPages ==
  ASSUME HeadersApart, image \in Images
  PROVE  /\ Chunk(FirstPass, 0)[1] = "zero"
         /\ Chunk(image, 0)[1] = Header(image)
         /\ \A k \in Chunks(image), i \in Images :
              k >= 1 => Chunk(FirstPass, k)[1] # Header(i)
         /\ \A i \in Images : Header(i) \in Values /\ Header(i) # "zero"
<1>0. 1 \in Pages /\ PerBlock \in Nat \ {0} /\ 0 * PerBlock + 1 = 1
  BY DeviceAssumption DEF Pages
<1>1. /\ image \in Seq(Values) /\ image # <<>> /\ FirstPass \in Seq(Values)
      /\ 0 \in Chunks(image) /\ Chunks(FirstPass) = Chunks(image)
  BY FileTypes, PassChunks
<1>2. Len(image) \in Nat \ {0}
  BY <1>1
<1>3. FirstPass[1] = "zero" /\ Len(FirstPass) = Len(image)
  <2>1. Tail(image) \in Seq(Values) /\ Len(Tail(image)) = Len(image) - 1
    BY <1>1
  <2>2. <<"zero">> \in Seq(Values) /\ Len(<<"zero">>) = 1 /\ <<"zero">>[1] = "zero"
    BY DeviceAssumption
  <2>3. QED
    BY <1>2, <2>1, <2>2 DEF FirstPass
<1>4. Chunk(FirstPass, 0)[1] = "zero"
  <2>1. Chunk(FirstPass, 0)[1] =
          IF 0 * PerBlock + 1 <= Len(FirstPass) THEN FirstPass[0 * PerBlock + 1]
          ELSE "zero"
    BY <1>0, <1>1, ChunkPages
  <2>2. QED
    BY <1>0, <1>3, <2>1
<1>5. Chunk(image, 0)[1] = Header(image)
  <2>1. Chunk(image, 0)[1] =
          IF 0 * PerBlock + 1 <= Len(image) THEN image[0 * PerBlock + 1]
          ELSE "zero"
    BY <1>0, <1>1, ChunkPages
  <2>2. QED
    BY <1>0, <1>2, <2>1 DEF Header
<1>6. ASSUME NEW k \in Chunks(image), NEW i \in Images, k >= 1
      PROVE  Chunk(FirstPass, k)[1] # Header(i)
  <2> DEFINE a == k * PerBlock
  <2>1. k \in Nat /\ a \in Nat /\ k <= a /\ a < Len(image)
    BY BlockMultiples DEF Chunks
  <2>2. Chunk(image, k)[1] = IF a + 1 <= Len(image) THEN image[a + 1] ELSE "zero"
    BY <1>0, <1>1, ChunkPages
  <2> HIDE DEF a
  <2>3. a + 1 \in 2..Len(image)
    BY <1>2, <1>6, <2>1
  <2>4. Chunk(image, k)[1] = image[a + 1]
    BY <2>2, <2>3
  <2>5. Chunk(FirstPass, k) = Chunk(image, k)
    BY <1>6, PassChunks
  <2>6. QED
    BY <2>3, <2>4, <2>5 DEF HeadersApart
<1>7. ASSUME NEW i \in Images PROVE Header(i) \in Values /\ Header(i) # "zero"
  <2>1. i \in Seq(Values) /\ i # <<>> /\ i[1] # "zero"
    BY ImagesAssumption
  <2>2. QED
    BY <2>1 DEF Header
<1>8. QED
  BY <1>4, <1>5, <1>6, <1>7

\* Past its first block, the first pass has left zeros for a header.
LEMMA ZeroHeader ==
  ASSUME HeadersApart, FlashInv, lost = {}, f.pc \in {"first", "reopen"},
         Turn(w, Good) > 0, NEW b \in Good, Rank(Good, b) = 0
  PROVE  nand[b][1] = "zero"
<1>1. image \in Images /\ w \in Contexts /\ bad \subseteq Blocks
  BY DEF FlashInv, WritingInv, TypeOK, DeviceTypeOK
<1>2. Good \in SUBSET Nat /\ w.pos \in Nat /\ w.seek \in Nat
  BY <1>1, DeviceAssumption DEF Good, Blocks, Contexts
<1>3. Turn(w, Good) \in Nat
  BY <1>2, RankType DEF Turn, Here
<1>4. 0 \in Chunks(FirstPass) /\ 0 < Turn(w, Good) - 0
  BY <1>1, <1>3, PassChunks
<1>5. Placed(nand, Good, 0, FirstPass, 0)
  <2>1. CASE f.pc = "first"
    <3>1. Feeding(nand, Good, w, 0, FirstPass, f.todo)
      BY <2>1 DEF FlashInv, Progress
    <3>2. QED
      BY <1>4, <3>1 DEF Feeding
  <2>2. CASE f.pc = "reopen"
    <3>1. Closing(nand, Good, w, 0, FirstPass)
      BY <2>2 DEF FlashInv, Progress
    <3>2. QED
      BY <1>4, <3>1 DEF Closing
  <2>3. QED
    BY <2>1, <2>2
<1>6. PICK c \in Good : Rank(Good, c) = 0 + 0 /\ nand[c] = Chunk(FirstPass, 0)
  BY <1>5 DEF Placed
<1>7. c = b
  BY <1>2, <1>6, RankOrder
<1>8. QED
  BY <1>1, <1>6, <1>7, FirstPages

\* The data that write_block is working on.
LEMMA DataAtHand ==
  ASSUME FlashInv, lost = {}, w.pc # "idle"
  PROVE  /\ image \in Images /\ Turn(w, Good) \in Nat
         /\ f.pc \in {"first", "reopen", "second"}
         /\ f.pc = "second" => Turn(w, Good) = 0 /\ w.data = Chunk(image, 0)
         /\ f.pc # "second" => /\ Turn(w, Good) \in Chunks(image)
                               /\ w.data = Chunk(FirstPass, Turn(w, Good))
<1>1. image \in Images /\ w \in Contexts /\ bad \subseteq Blocks
  BY DEF FlashInv, WritingInv, TypeOK, DeviceTypeOK
<1>2. Good \in SUBSET Nat /\ w.pos \in Nat
  BY <1>1, DeviceAssumption DEF Good, Blocks, Contexts
<1> DEFINE t == Turn(w, Good)
<1>9. t \in Nat
  BY <1>2, RankType DEF Turn, Here
<1>3. t \in Nat /\ t - 0 = t
  BY <1>9
<1>4. f.pc \in {"first", "reopen", "second"}
  BY DEF FlashInv, Resting
<1> HIDE DEF t
<1>5. CASE f.pc = "second"
  <2>1. t = 0
    BY <1>5, SecondTurn DEF t
  <2>2. Feeding(nand, Good, w, 0, FirstBlock, f.todo)
    BY <1>5 DEF FlashInv, Progress
  <2>3. w.data = Chunk(FirstBlock, t - 0)
    BY <2>2 DEF Feeding, t
  <2>4. QED
    BY <1>1, <1>3, <1>5, <2>1, <2>3, PassChunks DEF t
<1>6. CASE f.pc = "reopen"
  <2>1. Closing(nand, Good, w, 0, FirstPass)
    BY <1>6 DEF FlashInv, Progress
  <2>2. t - 0 \in Chunks(FirstPass) /\ w.data = Chunk(FirstPass, t - 0)
    BY <2>1 DEF Closing, t
  <2>3. QED
    BY <1>1, <1>3, <1>6, <2>2, PassChunks DEF t
<1>7. CASE f.pc = "first"
  <2>1. Feeding(nand, Good, w, 0, FirstPass, f.todo)
    BY <1>7 DEF FlashInv, Progress
  <2>2. /\ (t - 0) * PerBlock + PerBlock <= Len(FirstPass)
        /\ w.data = Chunk(FirstPass, t - 0)
    BY <2>1 DEF Feeding, t
  <2>3. t * PerBlock \in Nat /\ t <= t * PerBlock /\ PerBlock \in Nat \ {0}
        /\ Len(FirstPass) \in Nat
    BY <1>1, <1>3, PassChunks, BlockMultiples, DeviceAssumption
  <2>4. t * PerBlock < Len(FirstPass) /\ t \in 0..Len(FirstPass)
    BY <1>3, <2>2, <2>3
  <2>5. t \in Chunks(FirstPass)
    BY <2>4 DEF Chunks
  <2>6. QED
    BY <1>1, <1>3, <1>7, <2>2, <2>5, PassChunks DEF t
<1>8. QED
  BY <1>4, <1>5, <1>6, <1>7

LEMMA InitHead == ASSUME HeadersApart PROVE Init => HeadInv
<1> SUFFICES ASSUME Init PROVE HeadInv
  OBVIOUS
<1>1. FlashInv
  BY InitFlash
<1>2. Programmed
  BY DEF Init, Opened, Programmed
<1>3. \A b \in Good : nand[b][1] = "old"
  <2>1. PICK content \in {"erased", "garbled"} :
          nand = [b \in Blocks |->
                    IF b \in bad THEN Filled(content) ELSE Filled("old")]
    BY DEF Init
  <2>2. Filled("old")[1] = "old"
    BY DeviceAssumption DEF Filled, Pages
  <2>3. QED
    BY <2>1, <2>2 DEF Good
<1>4. \A i \in Images : Header(i) # "old"
  BY DEF HeadersApart
<1>5. QED
  BY <1>1, <1>2, <1>3, <1>4 DEF HeadInv, OnlyFirst, HeadOK

\* A step that leaves the flash alone keeps what is known of headers.
LEMMA QuietStep ==
  ASSUME HeadInv, FlashInv', UNCHANGED <<nand, bad, lost, torn>>,
         w.pc \notin {"program"}, w'.pc \notin {"program", "verify"}
  PROVE  HeadInv'
<1>1. Good' = Good
  BY DEF Good
<1>2. Programmed'
  BY DEF Programmed
<1>3. OnlyFirst'
  BY <1>1 DEF HeadInv, OnlyFirst
<1>4. HeadOK'
  <2>1. SUFFICES ASSUME lost = {}, NEW b \in Good, NEW i \in Images,
                        Rank(Good, b) = 0, nand[b][1] = Header(i)
                 PROVE  \/ torn \/ Unreadable(b)'
                        \/ \A k \in Chunks(i) : Placed(nand, Good, 0, i, k)
    BY <1>1 DEF HeadOK
  <2>2. \/ torn \/ Unreadable(b)
        \/ \A k \in Chunks(i) : Placed(nand, Good, 0, i, k)
    BY <2>1 DEF HeadInv, HeadOK
  <2>3. Unreadable(b) => Unreadable(b)'
    BY DEF Unreadable
  <2>4. QED
    BY <2>2, <2>3
<1>5. QED
  BY <1>2, <1>3, <1>4 DEF HeadInv

LEMMA WriteBlockHead ==
  ASSUME HeadersApart, HeadInv, FlashInv', WriteBlock,
         UNCHANGED <<image, f, torn, runs>>
  PROVE  HeadInv'
<1>a. /\ FlashInv /\ Programmed /\ OnlyFirst /\ HeadOK
      /\ WriterOK /\ image \in Images /\ w \in Contexts /\ bad \subseteq Blocks
  BY DEF HeadInv, FlashInv, WritingInv, TypeOK, DeviceTypeOK
<1>b. Programmed'
  BY <1>a, ProgrammedStep
<1>c. SUFFICES ASSUME lost' = {} PROVE OnlyFirst' /\ HeadOK'
  BY <1>b DEF HeadInv, OnlyFirst, HeadOK
<1>d. w.pc # "idle" /\ lost = {}
  <2>1. w.pc # "idle" /\ lost \subseteq lost'
    BY DEF WriteBlock, SkipBadBlock, NoSpace, EraseBlock, EraseFails,
           ProgramPage, ProgramFails, Verified, VerifyFails, GiveUp, AtBlock
  <2>2. QED
    BY <1>c, <2>1
<1>e. Good' = Good /\ Good \in SUBSET Nat
  BY <1>a, <1>c, WriteBlockTurn, DeviceAssumption DEF Good, Blocks
<1>f. /\ Turn(w, Good) \in Nat
      /\ f.pc \in {"first", "reopen", "second"}
      /\ f.pc = "second" => Turn(w, Good) = 0 /\ w.data = Chunk(image, 0)
      /\ f.pc # "second" => /\ Turn(w, Good) \in Chunks(image)
                            /\ w.data = Chunk(FirstPass, Turn(w, Good))
  BY <1>a, <1>d, DataAtHand
<1>g. Turn(w, Good) = Rank(Good, w.pos)
  BY <1>d DEF Turn, Here
<1>h. \A i \in Images : Header(i) \in Values /\ Header(i) # "zero"
                        /\ Header(i) \notin {"erased", "garbled"}
  BY <1>a, FirstPages, DeviceAssumption
<1>i. /\ nand \in [Blocks -> Block] /\ w.page \in Pages /\ w.data \in Block
      /\ w.pc = "program" => w.pos \in Blocks \ bad
  BY <1>a DEF WriterOK, DeviceTypeOK, Contexts
<1>j. w.pc = "program" => nand[w.pos][w.page] = "erased"
  <2>1. w.page >= w.page
    BY <1>i, DeviceAssumption DEF Pages
  <2>2. QED
    BY <1>a, <1>i, <2>1 DEF WriterOK
<1>k. \A b, c \in Good : Rank(Good, b) = Rank(Good, c) => b = c
  BY <1>e, RankOrder
<1>l. w.pc = "program" => w.pos \in Good
  BY <1>i DEF Good
<1>1. OnlyFirst'
  <2>1. SUFFICES ASSUME NEW b \in Good, NEW i \in Images, Rank(Good, b) > 0
                 PROVE  nand'[b][1] # Header(i)
    BY <1>e DEF OnlyFirst
  <2>2. nand[b][1] # Header(i)
    BY <1>a, <1>d, <2>1 DEF OnlyFirst
  <2>3. CASE nand'[b] = nand[b]
    BY <2>2, <2>3
  <2>4. CASE nand'[b] # nand[b]
    <3>1. /\ b = w.pos
          /\ nand'[b][1] \in {"erased", "garbled", nand[b][1], w.data[1]}
      BY <1>a, <2>4, FirstPageStep
    <3>2. f.pc # "second" /\ Turn(w, Good) >= 1
      BY <1>f, <1>g, <2>1, <3>1
    <3>3. w.data[1] # Header(i)
      BY <1>a, <1>f, <3>2, FirstPages
    <3>4. QED
      BY <1>h, <2>2, <3>1, <3>3
  <2>5. QED
    BY <2>3, <2>4
<1>2. HeadOK'
  <2>1. SUFFICES ASSUME NEW b \in Good, NEW i \in Images, Rank(Good, b) = 0,
                        nand'[b][1] = Header(i)
                 PROVE  \/ torn' \/ Unreadable(b)'
                        \/ \A k \in Chunks(i) : Placed(nand', Good', 0, i, k)
                        \/ f'.pc = "second" /\ w'.pc = "program" /\ w'.page > 1
    BY <1>e DEF HeadOK
  <2>2. CASE Turn(w, Good) # 0
    <3>1. nand'[b] = nand[b]
      BY <1>a, <1>c, <2>1, <2>2, WriteBlockTurn
    <3>2. nand[b][1] = "zero"
      BY <1>a, <1>d, <1>f, <2>1, <2>2, ZeroHeader
    <3>3. QED
      BY <1>h, <2>1, <3>1, <3>2
  <2>3. CASE Turn(w, Good) = 0 /\ nand'[b] # nand[b]
    <3>1. \/ Unreadable(b)' \/ nand'[b] = w.data
          \/ w'.pc = "program" /\ w'.page > 1 /\ nand'[b][1] = w.data[1]
      <4>1. nand'[b][1] # "erased"
        BY <1>h, <2>1
      <4>2. QED
        BY <1>a, <2>3, <4>1, FirstPageStep
    <3>2. nand'[b][1] = w.data[1] => f.pc = "second"
      <4>1. f.pc # "second" => w.data[1] = "zero"
        BY <1>a, <1>f, <2>3, FirstPages
      <4>2. QED
        BY <1>h, <2>1, <4>1
    <3>3. ASSUME nand'[b] = w.data
          PROVE  \A k \in Chunks(i) : Placed(nand', Good', 0, i, k)
      <4>1. f.pc = "second" /\ w.data = Chunk(image, 0)
        BY <1>f, <3>2, <3>3
      <4>2. Header(image) = Header(i)
        BY <1>a, <2>1, <3>3, <4>1, FirstPages
      <4>3. i = image
        BY <1>a, <4>2 DEF HeadersApart
      <4>4. Placed(nand', Good, 0, image, 0)
        BY <2>1, <3>3, <4>1 DEF Placed
      <4>5. \A k \in Chunks(image) : k >= 1 => InPlace(k)'
        BY <1>c, <4>1 DEF FlashInv, Progress
      <4>6. \A k \in Chunks(image) : k = 0 \/ k >= 1
        BY DEF Chunks
      <4>7. QED
        BY <1>e, <4>3, <4>4, <4>5, <4>6 DEF InPlace
    <3>4. QED
      BY <3>1, <3>2, <3>3
  <2>4. CASE Turn(w, Good) = 0 /\ nand'[b] = nand[b]
    <3>1. CASE w.pc = "program"
      <4>1. CASE ProgramPage
        <5>1. /\ w.pos \in Blocks /\ w.page \in Pages /\ nand \in [Blocks -> Block]
              /\ w.data \in Block
              /\ nand' = [nand EXCEPT ![w.pos][w.page] = w.data[w.page]]
              /\ nand[w.pos][w.page] = "erased"
          BY <1>i, <1>j, <3>1, <4>1 DEF ProgramPage
        <5>2. b = w.pos
          BY <1>g, <1>k, <1>l, <2>1, <2>4, <3>1
        <5>3. nand'[b][w.page] = w.data[w.page]
          BY <5>1, <5>2 DEF Block
        <5>4. w.data[w.page] = "erased"
          BY <2>4, <5>1, <5>2, <5>3
        <5>5. w.data \in [Pages -> Values]
          BY <1>a, <1>f, PassChunks, ChunkPages, FileTypes
        <5>6. QED
          BY <5>1, <5>4, <5>5, DeviceAssumption
      <4>2. CASE ProgramFails
        <5>1. /\ w.pos \in Blocks /\ w.page \in Pages /\ nand \in [Blocks -> Block]
              /\ nand' = [nand EXCEPT ![w.pos][w.page] = "garbled"]
          BY <1>i, <3>1, <4>2 DEF ProgramFails
        <5>2. b = w.pos
          BY <1>g, <1>k, <1>l, <2>1, <2>4, <3>1
        <5>3. nand'[b][w.page] = "garbled"
          BY <5>1, <5>2 DEF Block
        <5>4. Unreadable(b)'
          BY <5>1, <5>3 DEF Unreadable
        <5>5. QED
          BY <5>4
      <4>3. QED
        BY <3>1, <4>1, <4>2
           DEF WriteBlock, SkipBadBlock, NoSpace, EraseBlock, EraseFails,
               Verified, VerifyFails, GiveUp, AtBlock
    <3>2. CASE w.pc # "program"
      <4>1. \/ torn \/ Unreadable(b)
            \/ \A k \in Chunks(i) : Placed(nand, Good, 0, i, k)
        BY <1>a, <1>d, <2>1, <2>4, <3>2 DEF HeadOK
      <4>2. Unreadable(b) => Unreadable(b)'
        BY <2>4 DEF Unreadable
      <4>3. ASSUME \A k \in Chunks(i) : Placed(nand, Good, 0, i, k)
            PROVE  \A k \in Chunks(i) : Placed(nand', Good', 0, i, k)
        <5>1. CASE nand' = nand
          BY <1>e, <4>3, <5>1
        <5>2. CASE nand' # nand
          <6>1. PICK c \in Blocks : nand'[c] # nand[c]
            <7>1. nand \in [Blocks -> Block] /\ nand' \in [Blocks -> Block]
              BY <1>a DEF FlashInv, WritingInv, WriterOK, DeviceTypeOK
            <7>2. QED
              BY <5>2, <7>1
          <6>2. EraseBlock
            BY <3>2, <5>2, <1>c
               DEF WriteBlock, SkipBadBlock, NoSpace, EraseFails, ProgramPage,
                   ProgramFails, Verified, VerifyFails, GiveUp
          <6>3. /\ w.pos \in Good /\ nand \in [Blocks -> Block]
                /\ nand' = [nand EXCEPT ![w.pos] = Filled("erased")]
            BY <1>i, <6>2 DEF EraseBlock, AtBlock, Good
          <6>4. b = w.pos
            BY <1>g, <1>k, <2>1, <2>4, <6>3
          <6>5. nand'[c] = nand[c] \/ c = w.pos
            BY <6>1, <6>3
          <6>6. QED
            BY <2>4, <6>1, <6>4, <6>5
        <5>3. QED
          BY <5>1, <5>2
      <4>4. QED
        BY <4>1, <4>2, <4>3
    <3>3. QED
      BY <3>1, <3>2
  <2>5. QED
    BY <2>2, <2>3, <2>4
<1>3. QED
  BY <1>1, <1>2

LEMMA PowerLossHead ==
  ASSUME HeadersApart, HeadInv, FlashInv', PowerLoss
  PROVE  HeadInv'
<1>a. /\ FlashInv /\ Programmed /\ OnlyFirst /\ HeadOK
      /\ WriterOK /\ image \in Images /\ w \in Contexts /\ bad \subseteq Blocks
  BY DEF HeadInv, FlashInv, WritingInv, TypeOK, DeviceTypeOK
<1>b. /\ nand' \in AfterPowerLoss /\ w' = Opened
      /\ torn' = (torn \/ (f.pc = "second" /\ w.pc = "program" /\ w.page > 1))
      /\ UNCHANGED <<bad, lost>>
  BY DEF PowerLoss
<1>c. Programmed'
  BY <1>b DEF Programmed, Opened
<1>d. SUFFICES ASSUME lost = {} PROVE OnlyFirst' /\ HeadOK'
  BY <1>b, <1>c DEF HeadInv, OnlyFirst, HeadOK
<1>e. Good' = Good /\ Good \in SUBSET Nat
  BY <1>a, <1>b, DeviceAssumption DEF Good, Blocks
<1>f. \A i \in Images : Header(i) \in Values /\ Header(i) # "zero"
                        /\ Header(i) # "garbled"
  BY <1>a, FirstPages, DeviceAssumption
<1>g. \A b \in Good : nand'[b] # nand[b] =>
        /\ b = w.pos /\ w.pc # "idle" /\ Unreadable(b)'
        /\ nand'[b][1] \in {nand[b][1], "garbled"}
  BY <1>a, <1>b, PowerLossBlock
<1>h. \A b, c \in Good : Rank(Good, b) = Rank(Good, c) => b = c
  BY <1>e, RankOrder
<1>1. OnlyFirst'
  <2>1. SUFFICES ASSUME NEW b \in Good, NEW i \in Images, Rank(Good, b) > 0
                 PROVE  nand'[b][1] # Header(i)
    BY <1>e DEF OnlyFirst
  <2>2. nand[b][1] # Header(i)
    BY <1>a, <1>d, <2>1 DEF OnlyFirst
  <2>3. nand'[b][1] \in {nand[b][1], "garbled"}
    BY <1>g
  <2>4. QED
    BY <1>f, <2>2, <2>3
<1>2. HeadOK'
  <2>1. SUFFICES ASSUME NEW b \in Good, NEW i \in Images, Rank(Good, b) = 0,
                        nand'[b][1] = Header(i), ~torn', ~Unreadable(b)'
                 PROVE  \A k \in Chunks(i) : Placed(nand', Good, 0, i, k)
    BY <1>e DEF HeadOK
  <2>2. nand'[b] = nand[b]
    BY <1>g, <2>1
  <2>3. ~Unreadable(b)
    BY <2>1, <2>2 DEF Unreadable
  <2>4. \A k \in Chunks(i) : Placed(nand, Good, 0, i, k)
    BY <1>a, <1>b, <1>d, <2>1, <2>2, <2>3 DEF HeadOK
  <2>5. \A c \in Good : nand'[c] = nand[c]
    <3>1. SUFFICES ASSUME NEW c \in Good, nand'[c] # nand[c] PROVE FALSE
      OBVIOUS
    <3>2. c = w.pos /\ w.pc # "idle"
      BY <1>g, <3>1
    <3>3. Turn(w, Good) = Rank(Good, c)
      BY <3>2 DEF Turn, Here
    <3>4. Turn(w, Good) # 0
      BY <1>h, <2>1, <2>2, <3>1, <3>3
    <3>5. /\ Turn(w, Good) \in Nat /\ f.pc \in {"first", "reopen"}
      BY <1>a, <1>d, <3>2, <3>4, DataAtHand
    <3>6. nand[b][1] = "zero"
      BY <1>a, <1>d, <2>1, <3>4, <3>5, ZeroHeader
    <3>7. QED
      BY <1>f, <2>1, <2>2, <3>6
  <2>6. QED
    BY <2>4, <2>5 DEF Placed
<1>3. QED
  BY <1>1, <1>2

LEMMA ReopenHead ==
  ASSUME HeadersApart, HeadInv, FlashInv', Reopen
  PROVE  HeadInv'
<1>a. /\ FlashInv /\ Programmed /\ OnlyFirst /\ HeadOK
      /\ WriterOK /\ image \in Images /\ w \in Contexts /\ bad \subseteq Blocks
  BY DEF HeadInv, FlashInv, WritingInv, TypeOK, DeviceTypeOK
<1>b. /\ f.pc = "reopen" /\ w.pc = "idle" /\ w' = Opened
      /\ UNCHANGED <<nand, bad, lost>>
  BY DEF Reopen
<1>c. Programmed'
  BY <1>b DEF Programmed, Opened
<1>d. Good' = Good
  BY <1>b DEF Good
<1>e. OnlyFirst'
  BY <1>a, <1>b, <1>d DEF OnlyFirst
<1>f. HeadOK'
  <2>1. SUFFICES ASSUME lost = {}, NEW b \in Good, NEW i \in Images,
                        Rank(Good, b) = 0
                 PROVE  nand[b][1] # Header(i)
    BY <1>b, <1>d DEF HeadOK
  <2>2. Turn(w, Good) > 0
    <3>1. Closing(nand, Good, w, 0, FirstPass)
      BY <1>a, <1>b, <2>1 DEF FlashInv, Progress
    <3>2. 0 \in Chunks(FirstPass)
      BY <1>a, PassChunks
    <3>3. 0 < Turn(w, Good) - 0
      BY <1>b, <3>1, <3>2 DEF Closing
    <3>4. Turn(w, Good) \in Nat
      <4>1. Good \in SUBSET Nat /\ w.seek \in Nat
        BY <1>a, DeviceAssumption DEF Good, Blocks, Contexts
      <4>2. QED
        BY <1>b, <4>1, RankType DEF Turn, Here
    <3>5. QED
      BY <3>3, <3>4
  <2>3. nand[b][1] = "zero"
    BY <1>a, <1>b, <2>1, <2>2, ZeroHeader
  <2>4. QED
    BY <1>a, <2>3, FirstPages
<1>g. QED
  BY <1>c, <1>e, <1>f DEF HeadInv

LEMMA NextHead ==
  ASSUME HeadersApart
  PROVE  HeadInv /\ [Next]_vars => HeadInv'
<1> SUFFICES ASSUME HeadInv, [Next]_vars PROVE HeadInv'
  OBVIOUS
<1>a. FlashInv /\ Resting /\ w \in Contexts /\ f \in Processes
  BY DEF HeadInv, FlashInv, WritingInv, TypeOK, DeviceTypeOK
<1>b. FlashInv'
  BY <1>a, NextFlash
<1>c. Opened.pc = "idle"
  BY DEF Opened
<1>1. CASE Run \/ CheckSame \/ CheckDiffers
  <2>1. w.pc = "idle" /\ (w' = Opened \/ w' = w)
    BY <1>1, <1>a, <1>c DEF Run, CheckSame, CheckDiffers, Resting, Stopped, device
  <2>2. UNCHANGED <<nand, bad, lost, torn>>
    BY <1>1 DEF Run, CheckSame, CheckDiffers, device
  <2>3. QED
    BY <1>b, <1>c, <2>1, <2>2, QuietStep
<1>2. CASE Write
  <2>1. w.pc = "idle" /\ w' = Put(w, f.todo) /\ UNCHANGED <<nand, bad, lost, torn>>
    BY <1>2 DEF Write
  <2>2. w'.pc \in {"idle", "block"}
    <3>1. Len(w.stored) < PerBlock /\ f.todo \in Seq(Values)
      BY <1>a, <2>1 DEF FlashInv, WritingInv, WriterOK, Processes
    <3>2. QED
      BY <1>a, <2>1, <3>1, PutType
  <2>3. QED
    BY <1>b, <2>1, <2>2, QuietStep
<1>3. CASE Close
  <2>1. w.pc = "idle" /\ w' = Sync(w) /\ UNCHANGED <<nand, bad, lost, torn>>
    BY <1>3 DEF Close
  <2>2. w'.pc \in {"idle", "block"}
    BY <1>a, <2>1, SyncType
  <2>3. QED
    BY <1>b, <2>1, <2>2, QuietStep
<1>4. CASE Finish
  <2>1. w.pc = "idle" /\ w' = w /\ UNCHANGED <<nand, bad, lost, torn>>
    BY <1>4 DEF Finish, device
  <2>2. QED
    BY <1>b, <2>1, QuietStep
<1>5. CASE Die
  <2>1. w.pc = "full" /\ w' = Opened /\ UNCHANGED <<nand, bad, lost, torn>>
    BY <1>5 DEF Die
  <2>2. QED
    BY <1>b, <1>c, <2>1, QuietStep
<1>6. CASE Reopen
  BY <1>6, <1>b, ReopenHead
<1>7. CASE PowerLoss
  BY <1>7, <1>b, PowerLossHead
<1>8. CASE WriteBlock /\ UNCHANGED <<image, f, torn, runs>>
  BY <1>8, <1>b, WriteBlockHead
<1>9. CASE UNCHANGED vars
  <2>1. UNCHANGED <<nand, bad, w, lost, f, torn>>
    BY <1>9 DEF vars, device
  <2>2. Good' = Good
    BY <2>1 DEF Good
  <2>3. Programmed' /\ OnlyFirst' /\ HeadOK'
    BY <2>1, <2>2 DEF HeadInv, Programmed, OnlyFirst, HeadOK, Unreadable
  <2>4. QED
    BY <1>b, <2>3 DEF HeadInv
<1>10. QED
  BY <1>1, <1>2, <1>3, <1>4, <1>5, <1>6, <1>7, <1>8, <1>9 DEF Next

\* A partition that shows the header of a file holds the file, wherever the
\* runs of flash_image stopped; for every partition and every set of files whose
\* headers tell them apart.
THEOREM HeaderIsCommit ==
  ASSUME HeadersApart
  PROVE  Spec => []HeaderCommits
<1>1. HeadInv => HeaderCommits
  <2> SUFFICES ASSUME HeadInv, f.pc \in Stopped, NEW i \in Images,
                      ShowsHeader(i), ~torn, ~Excused
               PROVE  ReadsAs(i)
    BY DEF HeaderCommits
  <2>1. /\ DeviceTypeOK /\ i \in Seq(Values) /\ w.pc = "idle"
        /\ bad \subseteq Blocks
    BY ImagesAssumption
       DEF HeadInv, FlashInv, WritingInv, TypeOK, DeviceTypeOK, Resting, Stopped
  <2>2. lost = {} /\ \A b \in bad : ~Unreadable(b)
    BY DEF Excused
  <2>3. PICK b \in Readable : nand[b][1] = Header(i)
    BY DEF ShowsHeader
  <2>4. b \in Good /\ b \in 0..b /\ ~Unreadable(b)
    <3>1. b \in Blocks \ bad /\ \A c \in 0..b : ~Unreadable(c)
      BY DEF Readable
    <3>2. b \in 0..b
      BY <3>1, DeviceAssumption DEF Blocks
    <3>3. QED
      BY <3>1, <3>2 DEF Good
  <2>5. Rank(Good, b) = 0
    <3>1. Good \in SUBSET Nat
      BY <2>1, DeviceAssumption DEF Good, Blocks
    <3>2. Rank(Good, b) \in Nat
      BY <2>4, <3>1, RankType
    <3>3. ~(Rank(Good, b) > 0)
      BY <2>2, <2>3, <2>4 DEF HeadInv, OnlyFirst
    <3>4. QED
      BY <3>2, <3>3
  <2>6. \A k \in Chunks(i) : Placed(nand, Good, 0, i, k)
    BY <2>1, <2>2, <2>3, <2>4, <2>5 DEF HeadInv, HeadOK
  <2>7. QED
    BY <2>1, <2>2, <2>6, PlacedReadsBack
<1>2. Init => HeadInv
  BY InitHead
<1>3. HeadInv /\ [Next]_vars => HeadInv'
  BY NextHead
<1>4. QED
  BY <1>1, <1>2, <1>3, PTL DEF Spec

=============================================================================
