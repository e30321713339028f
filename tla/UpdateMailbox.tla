---------------------------- MODULE UpdateMailbox ----------------------------
(***************************************************************************)
(* What the firmware flow of firmware.c promises, without saying how: the  *)
(* cache partition is a mailbox with room for one letter, from recovery to *)
(* the bootloader.  Nobody posts a draft, nobody touches a posted letter   *)
(* but the bootloader, and the main system never finds one.                *)
(***************************************************************************)

VARIABLES
  box,     \* what the partition holds: files, a draft, a letter, a posted one
  holder   \* who has the processor

vars == <<box, holder>>

Init == box = "files" /\ holder = "main"

\* Recovery destroys what is there, to write a letter or to make room for files.
Scratch ==
  /\ holder = "recovery" /\ box \in {"files", "letter"}
  /\ box' = "draft" /\ UNCHANGED holder

Seal ==
  /\ holder = "recovery" /\ box = "draft"
  /\ box' = "letter" /\ UNCHANGED holder

Post ==
  /\ holder = "recovery" /\ box = "letter"
  /\ box' = "posted" /\ UNCHANGED holder

\* The bootloader leaves the letter where it is: recovery cleans up.
Collect ==
  /\ holder = "bootloader" /\ box = "posted"
  /\ box' = "letter" /\ UNCHANGED holder

Restore ==
  /\ holder = "recovery" /\ box = "draft"
  /\ box' = "files" /\ UNCHANGED holder

\* A reset always goes through the bootloader, which boots nothing before it
\* has collected a posted letter.
Reset ==
  /\ \/ holder # "bootloader" /\ holder' = "bootloader"
     \/ /\ holder = "bootloader" /\ box # "posted"
        /\ holder' \in {"recovery", "main"}
  /\ UNCHANGED box

Next == Scratch \/ Seal \/ Post \/ Collect \/ Restore \/ Reset

Safety == Init /\ [][Next]_vars

\* A posted letter is delivered.
Deliver == box = "posted" /\ (Collect \/ Reset)

Spec == Safety /\ WF_vars(Deliver)

=============================================================================
