---------------------------- MODULE UpdateImage ----------------------------
(***************************************************************************)
(* write_update_for_bootloader() of bootloader.c: the update image and two *)
(* bitmaps, each from a block of its own on, behind a header that gives    *)
(* their offsets.  The header's block holds zeros until the rest is there. *)
(* Its caller is step 8b of the restart protocol (RecoveryBoot), which     *)
(* formats /cache when this fails or is interrupted.                       *)
(***************************************************************************)
EXTENDS MtdWriter

CONSTANT Updates   \* what is written: <<image, busy bitmap, fail bitmap>>

ASSUME UpdatesAssumption ==
  /\ "hdr" \in Values
  /\ \A u \in Updates : \A s \in 1..3 : u[s] \in Seq(Values)

VARIABLES
  update,
  u,        \* the function: where it is in which section
  start,    \* image_start_pos, busy_start_pos, fail_start_pos
  offset,   \* header.image_offset, ... as the header gives them
  ignored   \* history: a result of -1 of mtd_erase_blocks was not looked at

vars == <<device, update, u, start, offset, ignored>>

\* Section 0 is the zero header, section 4 the real one.
Sections == 0..4

Content(k) == IF k = 0 THEN <<"zero">> ELSE IF k = 4 THEN <<"hdr">>
              ELSE update[k]

Functions == [pc : {"data", "pad", "close", "closing", "nowhere", "done", "failed", "off"},
              section : Sections, todo : Seq(Values)]
Running == u.pc \notin {"done", "failed", "off"}

Init ==
  /\ bad \in {S \in SUBSET Blocks : Cardinality(S) <= MaxBad}
  /\ nand = [b \in Blocks |-> Filled("old")]
  /\ w = Opened /\ lost = {} /\ faults = 0
  /\ update \in Updates
  /\ u = [pc |-> "data", section |-> 0, todo |-> Content(0)]
  /\ start = [k \in 1..3 |-> 0] /\ offset = [k \in 1..3 |-> 0]
  /\ ignored = FALSE

\* mtd_write_data of a section ...
Write ==
  /\ u.pc = "data" /\ w.pc = "idle" /\ u.todo # <<>>
  /\ w' = Put(w, u.todo)
  /\ u' = [u EXCEPT !.todo = Rest(w, u.todo)]
  /\ UNCHANGED <<nand, bad, lost, faults, update, start, offset, ignored>>

\* ... and mtd_erase_blocks(write, 0) behind it.
Pad ==
  /\ u.pc = "data" /\ w.pc = "idle" /\ u.todo = <<>>
  /\ w' = Sync(w)
  /\ u' = [u EXCEPT !.pc = "pad"]
  /\ UNCHANGED <<nand, bad, lost, faults, update, start, offset, ignored>>

\* The writing failed: mtd_write_close writes what is pending, and -1.
WriteFails ==
  /\ u.pc = "data" /\ w.pc = "full"
  /\ w' = Sync(w)
  /\ u' = [u EXCEPT !.pc = "closing"]
  /\ UNCHANGED <<nand, bad, lost, faults, update, start, offset, ignored>>

\* mtd_erase_blocks returned pos: the next section starts there, and the one
\* just written is found from where it started.
NextSection(pos) ==
  /\ start' = IF u.section < 3 THEN [start EXCEPT ![u.section + 1] = pos]
              ELSE start
  /\ offset' = IF u.section > 0
               THEN [offset EXCEPT ![u.section] =
                       FindWriteStart(w.skipped, start[u.section])]
               ELSE offset
  /\ u' = IF u.section < 3
          THEN [pc |-> "data", section |-> u.section + 1,
                todo |-> Content(u.section + 1)]
          ELSE [u EXCEPT !.pc = "close"]

Padded0 ==
  /\ u.pc = "pad" /\ u.section < 4 /\ w.pc = "idle"
  /\ NextSection(w.seek)
  /\ UNCHANGED <<device, update, ignored>>

\* The results of mtd_erase_blocks are not tested (what is tested is a field of
\* the header that has not been assigned).
PadFails ==
  /\ u.pc = "pad" /\ u.section < 4 /\ w.pc = "full"
  /\ NextSection(-1)
  /\ w' = [w EXCEPT !.pc = "idle"]
  /\ ignored' = TRUE
  /\ UNCHANGED <<nand, bad, lost, faults, update>>

\* mtd_write_close, and mtd_write_partition for the header.
Close ==
  /\ u.pc = "close" /\ w.pc = "idle" /\ w.stored # <<>>
  /\ w' = Sync(w)
  /\ UNCHANGED <<nand, bad, lost, faults, update, u, start, offset, ignored>>

CloseFails ==
  /\ u.pc = "close" /\ w.pc = "full"
  /\ u' = [u EXCEPT !.pc = "failed"]
  /\ UNCHANGED <<device, update, start, offset, ignored>>

Reopen ==
  /\ u.pc = "close" /\ w.pc = "idle" /\ w.stored = <<>>
  /\ w' = Opened
  /\ u' = [pc |-> "data", section |-> 4, todo |-> Content(4)]
  /\ UNCHANGED <<nand, bad, lost, faults, update, start, offset, ignored>>

\* Mutant of HeaderAligned: the alignment is not tested.
HeaderAnywhere == w.pc = "idle"

\* mtd_erase_blocks returns what it did behind the zero header.
HeaderAligned == (IF w.pc = "full" THEN -1 ELSE w.seek) = start[1]

Finish ==
  /\ u.pc = "pad" /\ u.section = 4 /\ w.pc = "idle" /\ HeaderAligned
  /\ u' = [u EXCEPT !.pc = "done"]
  /\ UNCHANGED <<device, update, start, offset, ignored>>

Misaligned ==
  /\ u.pc = "pad" /\ u.section = 4 /\ w.pc \in {"idle", "full"}
  /\ ~HeaderAligned
  /\ w' = Sync(w)
  /\ u' = [u EXCEPT !.pc = "closing"]
  /\ UNCHANGED <<nand, bad, lost, faults, update, start, offset, ignored>>

\* Neither header found a place, and -1 is -1: mtd_write_close tries once more, and
\* what it returns is the result.
Nowhere ==
  /\ u.pc = "pad" /\ u.section = 4 /\ w.pc = "full" /\ HeaderAligned
  /\ w' = Sync(w)
  /\ u' = [u EXCEPT !.pc = "nowhere"]
  /\ UNCHANGED <<nand, bad, lost, faults, update, start, offset, ignored>>

FinishNowhere ==
  /\ u.pc = "nowhere" /\ w.pc = "idle"
  /\ u' = [u EXCEPT !.pc = "done"]
  /\ UNCHANGED <<device, update, start, offset, ignored>>

Fail ==
  /\ \/ u.pc = "closing" /\ w.pc \in {"idle", "full"}
     \/ u.pc = "nowhere" /\ w.pc = "full"
  /\ u' = [u EXCEPT !.pc = "failed"]
  /\ UNCHANGED <<device, update, start, offset, ignored>>

PowerLoss ==
  /\ Running
  /\ nand' \in AfterPowerLoss
  /\ u' = [u EXCEPT !.pc = "off"]
  /\ Fault /\ UNCHANGED <<bad, w, lost, update, start, offset, ignored>>

Next ==
  \/ Write \/ Pad \/ WriteFails \/ Padded0 \/ PadFails
  \/ Close \/ CloseFails \/ Reopen \/ Finish \/ Misaligned
  \/ Nowhere \/ FinishNowhere \/ Fail \/ PowerLoss
  \/ Running /\ WriteBlock /\ UNCHANGED <<update, u, start, offset, ignored>>

Spec == Init /\ [][Next]_vars

-----------------------------------------------------------------------------
(* Properties                                                              *)

TypeOK ==
  /\ DeviceTypeOK
  /\ update \in Updates
  /\ u \in Functions
  /\ start \in [1..3 -> -1..NBlocks] /\ offset \in [1..3 -> -1..NBlocks]
  /\ ignored \in BOOLEAN

\* A reader finds the section at its offset, past the bad blocks it knows of.
Begins(k) ==
  update[k] # <<>> =>
    offset[k] \in Blocks \ bad /\ nand[offset[k]] = Chunk(update[k], 0)

Complete(k) ==
  LET Good == {b \in Blocks \ bad : b >= offset[k]}
  IN  \A c \in Chunks(update[k]) :
        \E b \in Good : Rank(Good, b) = c /\ nand[b] = Chunk(update[k], c)

\* The second pass found no block for the header before those of the image, and
\* has come to them: the function will fail.  (When no block takes the header at
\* all, mtd_write_close tries once more from where the first attempt began.)
Displaced ==
  /\ u.section = 4
  /\ w.pos >= start[1] \/ \E i \in 1..Len(w.skipped) : w.skipped[i] >= start[1]

\* Whenever power goes, a header on the flash has everything it refers to: each
\* section begins at its offset, also when blocks were given up on the way, and
\* is complete when none was (one given up inside a section is nowhere
\* recorded, and reads as a part of it).  Two cases are left out: a padding failed
\* and its result of -1 was taken for a place (ignored), or the header was about to
\* be written over the sections (Displaced), of which the function's result tells.
HeaderIsValid ==
  (\E b \in Blocks \ bad : nand[b][1] = "hdr") /\ ~ignored /\ ~Displaced =>
    \A k \in 1..3 : Begins(k) /\ (lost = {} => Complete(k))

\* The header's page is none of the update's.
HeaderApart ==
  \A x \in Updates : \A k \in 1..3 : \A i \in 1..Len(x[k]) : x[k][i] # "hdr"

\* A result of 0 says that the header is there, in its place, and that every
\* section begins at its offset; unless a padding failed and its result of -1 was
\* taken for a place (ignored), which a result of 0 may hide.
DoneIsValid ==
  u.pc = "done" /\ ~ignored =>
    /\ \E b \in 0..(start[1] - 1) : nand[b][1] = "hdr"
    /\ \A k \in 1..3 : Begins(k)

=============================================================================
