----------------------------- MODULE FlashImage -----------------------------
(***************************************************************************)
(* main() of flash_image.c: nothing is written when the partition already  *)
(* shows the file's header; otherwise the file is written with a header of *)
(* zeros first, and then its first block again with the header in it.      *)
(* Power may go at any step, and the program may be run again.             *)
(***************************************************************************)
EXTENDS MtdWriter

CONSTANTS
  Images,    \* the files that are flashed: sequences of pages, header first
  MaxRuns    \* bound: how often flash_image is run

ASSUME ImagesAssumption ==
  /\ MaxRuns \in Nat
  /\ \A i \in Images : i \in Seq(Values) /\ i # <<>> /\ i[1] # "zero"

VARIABLES
  image,   \* argv[2] of the last run
  f,       \* the process: where it is, and what it has still to write
  torn,    \* history: power went inside the block with the header
  runs

vars == <<device, image, f, torn, runs>>

Header(i) == i[1]
Processes == [pc : {"off", "check", "first", "reopen", "second",
                    "done", "same", "failed"},
              todo : Seq(Values)]
Stopped == {"off", "done", "same", "failed"}

Init ==
  /\ bad \in {S \in SUBSET Blocks : Cardinality(S) <= MaxBad}
  /\ \E content \in {"erased", "garbled"} :
       nand = [b \in Blocks |->
                 IF b \in bad THEN Filled(content) ELSE Filled("old")]
  /\ w = Opened /\ lost = {} /\ faults = 0
  /\ image \in Images
  /\ f = [pc |-> "off", todo |-> <<>>]
  /\ torn = FALSE /\ runs = 0

Run ==
  /\ f.pc \in Stopped /\ runs < MaxRuns
  /\ runs' = runs + 1
  /\ image' \in Images
  /\ f' = [pc |-> "check", todo |-> <<>>]
  /\ w' = Opened
  /\ UNCHANGED <<nand, bad, lost, faults, torn>>

ShowsHeader(i) ==
  \E b \in Readable : Rank(Readable, b) = 0 /\ nand[b][1] = Header(i)

\* "If the first part of the file matches the partition, skip writing"
CheckSame ==
  /\ f.pc = "check" /\ ShowsHeader(image)
  /\ f' = [f EXCEPT !.pc = "same"]
  /\ UNCHANGED <<device, image, torn, runs>>

\* Mutant of FirstPass: the header is written along with the rest.
WithHeader == image

FirstPass == <<"zero">> \o Tail(image)

\* The header differs, or the partition cannot be read.
CheckDiffers ==
  /\ f.pc = "check"
  /\ IF ShowsHeader(image) THEN Fault ELSE UNCHANGED faults
  /\ f' = [pc |-> "first", todo |-> FirstPass]
  /\ UNCHANGED <<nand, bad, w, lost, image, torn, runs>>

Write ==
  /\ f.pc \in {"first", "second"} /\ w.pc = "idle" /\ f.todo # <<>>
  /\ w' = Put(w, f.todo)
  /\ f' = [f EXCEPT !.todo = Rest(w, f.todo)]
  /\ UNCHANGED <<nand, bad, lost, faults, image, torn, runs>>

\* mtd_write_close pads and writes what is pending, ...
Close ==
  /\ f.pc = "first" /\ w.pc = "idle" /\ f.todo = <<>>
  /\ w' = Sync(w)
  /\ f' = [f EXCEPT !.pc = "reopen"]
  /\ UNCHANGED <<nand, bad, lost, faults, image, torn, runs>>

\* ... and the header is written, with the rest of its block.
Reopen ==
  /\ f.pc = "reopen" /\ w.pc = "idle"
  /\ w' = Opened
  /\ f' = [pc |-> "second",
           todo |-> SubSeq(image, 1, IF Len(image) < PerBlock THEN Len(image)
                                     ELSE PerBlock)]
  /\ torn' = FALSE
  /\ UNCHANGED <<nand, bad, lost, faults, image, runs>>

\* A file shorter than a block ends before the block does: die().
Finish ==
  /\ f.pc = "second" /\ w.pc = "idle" /\ f.todo = <<>>
  /\ f' = [f EXCEPT !.pc = IF w.stored = <<>> THEN "done" ELSE "failed"]
  /\ UNCHANGED <<device, image, torn, runs>>

Die ==
  /\ f.pc \notin Stopped /\ w.pc = "full"
  /\ f' = [f EXCEPT !.pc = "failed"]
  /\ w' = Opened
  /\ UNCHANGED <<nand, bad, lost, faults, image, torn, runs>>

PowerLoss ==
  /\ f.pc \notin Stopped
  /\ nand' \in AfterPowerLoss
  /\ torn' = (torn \/ (f.pc = "second" /\ w.pc = "program" /\ w.page > 1))
  /\ f' = [pc |-> "off", todo |-> <<>>]
  /\ w' = Opened
  /\ Fault /\ UNCHANGED <<bad, lost, image, runs>>

Next ==
  \/ Run \/ CheckSame \/ CheckDiffers \/ Write \/ Close \/ Reopen \/ Finish
  \/ Die \/ PowerLoss
  \/ WriteBlock /\ UNCHANGED <<image, f, torn, runs>>

Spec == Init /\ [][Next]_vars

-----------------------------------------------------------------------------
(* Properties                                                              *)

TypeOK ==
  /\ DeviceTypeOK
  /\ image \in Images
  /\ f \in Processes
  /\ torn \in BOOLEAN
  /\ runs \in 0..MaxRuns

\* A reader may see what write_block gave up, or stop at a bad block's ECC.
Excused == lost # {} \/ \E b \in bad : Unreadable(b)

\* flash_image that ends well after writing has written the file: whatever
\* blocks were bad, failed once, or were left over from runs before.
FlashedReadsBack == f.pc = "done" => ReadsAs(image) \/ Excused

\* What flash_image takes for granted when it compares the first page only:
\* headers tell files apart, from each other, from what was on the partition
\* before and from the pages inside files.
HeadersApart ==
  /\ \A i \in Images : Header(i) # "old"
  /\ \A i, j \in Images : Header(i) = Header(j) => i = j
  /\ \A i, j \in Images : \A p \in 2..Len(j) : j[p] # Header(i)

\* The header is the commit point: a partition that shows the header of a file
\* holds the file, wherever the runs before stopped - unless power went between
\* the pages of the block that is written last.
HeaderCommits ==
  f.pc \in Stopped =>
    \A i \in Images : ShowsHeader(i) => ReadsAs(i) \/ torn \/ Excused

=============================================================================
