------------------------- MODULE RecoveryBootProofs -------------------------
(***************************************************************************)
(* Proofs about RecoveryBoot, for every set of builds and requests and     *)
(* however many mishaps and choices: type correctness, the order in which  *)
(* image and message are written, the three restart guarantees, that data  *)
(* is erased only on request, and that the firmware flow implements the    *)
(* mailbox of UpdateMailbox; and that an image that was remembered is not  *)
(* dropped silently, a reset that is reported as done has been done, and   *)
(* the intent the main system waits for arrives.                           *)
(***************************************************************************)
EXTENDS RecoveryBoot, TLAPS

-----------------------------------------------------------------------------
(* The inductive invariant, part by part                                   *)

WipesCache(args) ==
  "update_package" \notin args /\ args \cap {"wipe_data", "wipe_cache"} # {}
WipesData(args) == "update_package" \notin args /\ "wipe_data" \in args
Installs(args) == "update_package" \in args

\* Who can be where: run is the power-on state outside recovery, main() has
\* not prompted yet before "status", and the firmware flow has an image.
Control ==
  /\ mode # "recovery" => run.pc = "get_args"
  /\ run.pc = "get_args" => run = PowerOn
  /\ run.pc \in {"dispatch", "status"} => run.caller = "main"
  /\ run.pc \in {"install", "installing", "remembered"} =>
       run.caller \in {"main", "menu"}
  /\ run.pc = "prompt" => run.caller = "menu"
  /\ run.pc \in {"finish", "finish_bcb", "finish_unlink"} => run.caller # "main"
  /\ run.pc \in {"firmware", "write_update", "writing", "reboot"} =>
       run.caller = "firmware"
  /\ run.pc \in {"set_bcb", "bcb_erased"} => run.caller \in {"main", "firmware"}
  /\ run.pc \in {"erase", "erasing"} =>
       /\ run.todo # {}
       /\ run.caller \in {"main", "menu", "firmware"}
       /\ run.caller = "firmware" => run.todo = {"cache"}
  /\ run.pc \in {"write_update", "writing"} \/
     (run.pc \in {"set_bcb", "bcb_erased"} /\ run.caller = "firmware") =>
       run.pending # "none"
  /\ run.pc \in {"set_bcb", "bcb_erased"} =>
       IF run.caller = "main"
       THEN run.msg = BootRecovery(run.opts) /\ config.nand
       ELSE run.msg \in {BootRecovery(ForwardedArgs), Update(ForwardedArgs)}
  /\ run.pc = "bcb_erased" => bcb = Cleared /\ config.nand

\* main() is at work on what its arguments say, or the user was at the menu.
Reasons ==
  /\ run.pc \in {"install", "installing", "remembered"} =>
       IF run.caller = "main" THEN Installs(run.opts)
       ELSE Excused({"menuInstall"})
  /\ run.pc \in {"erase", "erasing"} =>
       /\ run.caller = "main" =>
            /\ WipesCache(run.opts)
            /\ "data" \in run.todo => WipesData(run.opts)
       /\ run.caller = "menu" => Excused({"menuWipe"})

\* Only "boot-recovery" and "update" messages carry arguments, and the main
\* system runs under none.
Message ==
  /\ bcb.command = "none" => bcb = Cleared
  /\ mode = "main" => bcb.command = "none"

\* "update" is the last thing recovery writes before it reboots, and the image
\* was complete when it did.
ImageFirst ==
  /\ bcb.command = "update" =>
       /\ mode = "bootloader" \/ (Running("reboot") /\ run.pending # "none")
       /\ cache.state = "image"
  /\ run.pc \in {"set_bcb", "bcb_erased"} /\ run.msg.command = "update" =>
       run.caller = "firmware" /\ cache.state = "image"
  /\ run.pc = "writing" => cache.state = "raw" /\ config.nand
  /\ run.pc = "erasing" /\ NextRoot = "cache" /\ config.nand =>
       cache.state = "raw"
  /\ ~config.nand => cache.state = "fs"
  /\ ~config.amend => run.pending \in {"none", "complete"}

FirmwareInv == TypeOK /\ Control /\ Message /\ ImageFirst

\* The arguments a restart would find.
Standing == IF Running("bcb_erased") THEN run.msg.recovery ELSE bcb.recovery

\* While main() works on its arguments the message holds them.
Armed ==
  config.nand /\ mode = "recovery" /\ ~Excused({"bcbFailed"}) =>
    /\ run.caller = "main"
       /\ run.pc \notin {"get_args", "set_bcb", "bcb_erased"} =>
         bcb = BootRecovery(run.opts)
    /\ run.pc = "set_bcb" /\ run.caller = "main" /\ bcb.recovery # {} =>
         bcb.recovery = run.opts
    /\ run.pc \in {"write_update", "writing"} \/
       (run.pc = "set_bcb" /\ run.msg.command = "update") \/
       (run.pc \in {"erase", "erasing"} /\ run.caller = "firmware") =>
         bcb.recovery = ForwardedArgs

Restarting == {"get_args", "set_bcb", "bcb_erased", "dispatch"}

\* While a partition is in a state the main system must not see, a restart
\* finds the arguments that repair it.
CacheGuarded ==
  cache.state # "fs"
  /\ ~Excused({"torn", "bcbFailed", "formatFailed", "eraseIgnored", "menuWipe"})
  => /\ mode # "main"
     /\ WipesCache(Standing)
     /\ run.pc \in Restarting \cup
                   {"erase", "erasing", "write_update", "writing", "reboot"}
     /\ run.pc \in {"erase", "erasing"} => "cache" \in run.todo
     /\ run.pc = "reboot" => bcb.command = "update"

ResetGuarded ==
  config.nand /\ data = "partial"
  /\ ~Excused({"torn", "bcbFailed", "formatFailed", "eraseIgnored", "menuWipe"})
  => /\ mode # "main"
     /\ WipesData(Standing)
     /\ run.caller = "main"
     /\ run.pc \in Restarting \cup {"erase", "erasing"}
     /\ run.pc \in {"erase", "erasing"} => "data" \in run.todo

InstallGuarded ==
  config.nand /\ system = "mixed"
  /\ ~Excused({"torn", "bcbFailed", "installFailed", "menuInstall"})
  => /\ mode # "main"
     /\ Installs(Standing)
     /\ run.caller = "main"
     /\ run.pc \in Restarting \cup {"install", "installing", "remembered"}

RestartInv ==
  /\ FirmwareInv /\ Reasons /\ Armed
  /\ CacheGuarded /\ ResetGuarded /\ InstallGuarded

\* A partition without a file system has no command file; main() erases /cache
\* after /data, and with it the command file; before the first prompt the
\* command file is removed, or recovery knows that it could not be.
Sequel ==
  /\ cache.state # "fs" => cache.command = {}
  /\ run.pc \in {"erase", "erasing"} /\ run.caller = "main"
     /\ "data" \in run.todo => "cache" \in run.todo
  /\ run.caller = "menu"
     /\ run.pc \notin {"finish", "finish_bcb", "finish_unlink"}
     /\ ~Excused({"unlinkFailed"}) =>
       cache.command = {}

\* A command file that outlives the wipe it asked for is in good hands.
CommandSpent ==
  config.nand /\ ~wanted /\ "wipe_data" \in cache.command
  /\ ~Excused({"torn", "bcbFailed", "formatFailed", "unlinkFailed"})
  => /\ mode # "main"
     /\ WipesData(Standing)
     /\ run.caller = "main"
     /\ run.pc \in Restarting \cup {"erase", "erasing"}
     /\ run.pc \in {"erase", "erasing"} => "cache" \in run.todo

\* So do the arguments in the message and in memory.
ArgumentsSpent ==
  /\ config.nand /\ ~wanted
  /\ ~Excused({"torn", "bcbFailed", "formatFailed", "unlinkFailed"})
  /\ \/ "wipe_data" \in bcb.recovery \cup run.opts \cup run.msg.recovery
     \/ "data" \in run.todo
  => mode # "main" /\ data # "user"

RequestInv == RestartInv /\ Sequel /\ CommandSpent /\ ArgumentsSpent

-----------------------------------------------------------------------------
(* Type correctness                                                        *)

Pendings == {"none", "early", "complete"}
Statuses == {"success", "error"}

\* Steps of the code assign to one field of the process's memory at a time: each
\* assignment keeps its type and leaves the other fields alone.  First pc, ...
LEMMA SetPc == ASSUME NEW r \in Runs, NEW v \in Steps
               PROVE  [r EXCEPT !.pc = v] \in Runs
BY DEF Runs

\* ... then caller, ...
LEMMA SetCaller == ASSUME NEW r \in Runs, NEW v \in Callers
                   PROVE  [r EXCEPT !.caller = v] \in Runs
BY DEF Runs

\* ... status, ...
LEMMA SetStatus == ASSUME NEW r \in Runs, NEW v \in Statuses
                   PROVE  [r EXCEPT !.status = v] \in Runs
BY DEF Runs, Statuses

\* ... opts, what get_args found, ...
LEMMA SetOpts == ASSUME NEW r \in Runs, NEW v \in SUBSET Options
                 PROVE  [r EXCEPT !.opts = v] \in Runs
BY DEF Runs

\* ... msg, what set_bootloader_message is called with, ...
LEMMA SetMsg == ASSUME NEW r \in Runs, NEW v \in Messages
                PROVE  [r EXCEPT !.msg = v] \in Runs
BY DEF Runs

\* ... todo, the roots still to be erased, ...
LEMMA SetTodo == ASSUME NEW r \in Runs, NEW v \in SUBSET {"data", "cache"}
                 PROVE  [r EXCEPT !.todo = v] \in Runs
BY DEF Runs

\* ... and pending, firmware.c's statics.
LEMMA SetPending == ASSUME NEW r \in Runs, NEW v \in Pendings
                    PROVE  [r EXCEPT !.pending = v] \in Runs
BY DEF Runs, Pendings

\* main() starts with a well-formed memory.
LEMMA PowerOnType == PowerOn \in Runs
BY DEF PowerOn, Cleared, Runs, Steps, Callers, Messages, Commands, Options

\* What the fields of a well-formed memory hold.
LEMMA FieldTypes ==
  ASSUME NEW r \in Runs
  PROVE  /\ r.pc \in Steps /\ r.caller \in Callers /\ r.status \in Statuses
         /\ r.opts \in SUBSET Options /\ r.msg \in Messages
         /\ r.todo \in SUBSET {"data", "cache"} /\ r.pending \in Pendings
BY DEF Runs, Statuses, Pendings

\* The messages that get_args and maybe_install_firmware_update build have the
\* type of struct bootloader_message.
LEMMA MessageTypes ==
  ASSUME NEW args \in SUBSET Options
  PROVE  BootRecovery(args) \in Messages /\ Update(args) \in Messages
BY DEF BootRecovery, Update, Messages, Commands

\* So have the arguments that maybe_install_firmware_update passes on.
LEMMA ForwardedType ==
  ASSUME run \in Runs PROVE ForwardedArgs \in SUBSET Options
BY FieldTypes DEF ForwardedArgs, Options

\* Every step keeps the memory of the process well-formed.
LEMMA RunStep == TypeOK /\ Next => run' \in Runs
<1> SUFFICES ASSUME TypeOK, Next PROVE run' \in Runs
  OBVIOUS
<1> USE SetPc, SetCaller, SetStatus, SetOpts, SetMsg, SetTodo, SetPending
    DEF Smooth, Stay
<1>a. /\ run \in Runs /\ bcb.recovery \in SUBSET Options
      /\ cache.command \in SUBSET Options
  BY DEF TypeOK, Messages
<1>1. CASE GetArgs
  BY <1>1, <1>a, FieldTypes, MessageTypes
     DEF GetArgs, WithArgs, BootRecovery, flash, Steps, Statuses, Pendings,
         Callers
<1>2. CASE GetArgsUnreadable
  <2>1. PICK args \in {cache.command, {}} : run' = WithArgs(args)
    BY <1>2 DEF GetArgsUnreadable
  <2>2. args \in SUBSET Options
    BY <2>1, <1>a
  <2>3. QED
    BY <2>1, <2>2, <1>a, FieldTypes, MessageTypes
       DEF WithArgs, BootRecovery, Steps, Statuses, Pendings, Callers
<1>3. CASE GetArgsUnopened
  BY <1>3, <1>a, FieldTypes, MessageTypes
     DEF GetArgsUnopened, WithArgs, BootRecovery, flash, Steps, Statuses,
         Pendings, Callers
<1>4. CASE SetBcbErase
  BY <1>4, <1>a
     DEF SetBcbErase, flash, Steps, Statuses, Pendings, Callers
<1>5. CASE SetBcbWrite
  BY <1>5, <1>a, FieldTypes
     DEF SetBcbWrite, AfterSet, flash, Steps, Statuses, Pendings, Callers
<1>6. CASE SetBcbFail
  BY <1>6, <1>a, FieldTypes
     DEF SetBcbFail, AfterSet, flash, Steps, Statuses, Pendings, Callers
<1>7. CASE Dispatch
  BY <1>7, <1>a
     DEF Dispatch, flash, Steps, Statuses, Pendings, Callers
<1>8. CASE EraseBegin
  BY <1>8, <1>a
     DEF EraseBegin, flash, Steps, Statuses, Pendings, Callers
<1>9. CASE EraseEnd
  BY <1>9, <1>a, FieldTypes
     DEF EraseEnd, AfterRoot, flash, Steps, Statuses, Pendings, Callers
<1>10. CASE EraseFail
  BY <1>10, <1>a, FieldTypes
     DEF EraseFail, AfterRoot, flash, Steps, Statuses, Pendings, Callers
<1>11. CASE EraseIgnored
  BY <1>11, <1>a, FieldTypes
     DEF EraseIgnored, AfterRoot, flash, Steps, Statuses, Pendings, Callers
<1>12. CASE EraseSkip
  BY <1>12, <1>a, FieldTypes
     DEF EraseSkip, AfterRoot, flash, Steps, Statuses, Pendings, Callers
<1>13. CASE InstallWrite
  BY <1>13, <1>a
     DEF InstallWrite, flash, Steps, Statuses, Pendings, Callers
<1>14. CASE InstallRemember
  BY <1>14, <1>a
     DEF InstallRemember, flash, Steps, Statuses, Pendings, Callers
<1>15. CASE InstallSucceed
  BY <1>15, <1>a, FieldTypes
     DEF InstallSucceed, AfterInstall, flash, Steps, Statuses, Pendings,
         Callers
<1>16. CASE InstallRefused
  BY <1>16, <1>a, FieldTypes
     DEF InstallRefused, AfterInstall, flash, Steps, Statuses, Pendings,
         Callers
<1>17. CASE InstallFail
  BY <1>17, <1>a, FieldTypes
     DEF InstallFail, AfterInstall, flash, Steps, Statuses, Pendings, Callers
<1>18. CASE Status
  <2>1. \/ run' = [run EXCEPT !.pc = "finish", !.caller = "menu"]
        \/ run' = [run EXCEPT !.pc = "firmware", !.caller = "firmware"]
    BY <1>18 DEF Status
  <2>2. CASE run' = [run EXCEPT !.pc = "finish", !.caller = "menu"]
    BY <2>2, <1>a DEF Steps, Callers
  <2>3. CASE run' = [run EXCEPT !.pc = "firmware", !.caller = "firmware"]
    BY <2>3, <1>a DEF Steps, Callers
  <2>4. QED
    BY <2>1, <2>2, <2>3
<1>19. CASE FinishNotes
  BY <1>19, <1>a
     DEF FinishNotes, flash, Steps, Statuses, Pendings, Callers
<1>20. CASE FinishNotesFail
  BY <1>20, <1>a
     DEF FinishNotesFail, flash, Steps, Statuses, Pendings, Callers
<1>21. CASE FinishBcb
  BY <1>21, <1>a
     DEF FinishBcb, flash, Steps, Statuses, Pendings, Callers
<1>22. CASE FinishBcbFail
  BY <1>22, <1>a
     DEF FinishBcbFail, flash, Steps, Statuses, Pendings, Callers
<1>23. CASE FinishUnlink
  <2>1. \/ run' = PowerOn
        \/ run' = [run EXCEPT !.pc = "prompt"]
        \/ run' = [run EXCEPT !.pc = "reboot"]
    BY <1>23 DEF FinishUnlink, FinishReturn
  <2>2. QED
    BY <2>1, <1>a, PowerOnType DEF Steps
<1>24. CASE FinishUnlinkFail
  <2>1. \/ run' = PowerOn
        \/ run' = [run EXCEPT !.pc = "prompt"]
        \/ run' = [run EXCEPT !.pc = "reboot"]
    BY <1>24 DEF FinishUnlinkFail, FinishReturn
  <2>2. QED
    BY <2>1, <1>a, PowerOnType DEF Steps
<1>25. CASE MenuReboot
  BY <1>25, <1>a
     DEF MenuReboot, flash, Steps, Statuses, Pendings, Callers
<1>26. CASE MenuWipe
  <2>1. PICK roots \in SUBSET {"data", "cache"} :
          run' = [run EXCEPT !.pc = "erase", !.todo = roots]
    BY <1>26 DEF MenuWipe
  <2>2. QED
    BY <2>1, <1>a DEF Steps
<1>27. CASE MenuInstall
  BY <1>27, <1>a
     DEF MenuInstall, flash, Steps, Statuses, Pendings, Callers
<1>28. CASE MenuRebootDeveloper
  BY <1>28, <1>a
     DEF MenuRebootDeveloper, flash, Steps, Statuses, Pendings, Callers
<1>29. CASE MenuPowerOff
  BY <1>29, <1>a, PowerOnType
     DEF MenuPowerOff, flash, Steps, Statuses, Pendings, Callers
<1>30. CASE Firmware
  BY <1>30, <1>a, MessageTypes, ForwardedType
     DEF Firmware, BootRecovery, ForwardedArgs, flash, Steps, Statuses,
         Pendings, Callers
<1>31. CASE WriteUpdateBegin
  BY <1>31, <1>a
     DEF WriteUpdateBegin, flash, Steps, Statuses, Pendings, Callers
<1>32. CASE WriteUpdateEnd
  BY <1>32, <1>a, MessageTypes, ForwardedType
     DEF WriteUpdateEnd, Update, ForwardedArgs, flash, Steps, Statuses,
         Pendings, Callers
<1>33. CASE WriteUpdateFail
  BY <1>33, <1>a
     DEF WriteUpdateFail, AfterWriteFailed, flash, Steps, Statuses, Pendings,
         Callers
<1>34. CASE WriteUpdateImpossible
  BY <1>34, <1>a
     DEF WriteUpdateImpossible, AfterWriteFailed, flash, Steps, Statuses,
         Pendings, Callers
<1>35. CASE Reboot
  BY <1>35, <1>a, PowerOnType
     DEF Reboot, flash, Steps, Statuses, Pendings, Callers
<1>36. CASE PowerLoss
  BY <1>36, <1>a, PowerOnType
     DEF PowerLoss, flash, Steps, Statuses, Pendings, Callers
<1>37. CASE ChordReboot
  BY <1>37, <1>a, PowerOnType
     DEF ChordReboot, flash, Steps, Statuses, Pendings, Callers
<1>38. CASE BootloaderUpdate
  BY <1>38, <1>a
     DEF BootloaderUpdate, flash, Steps, Statuses, Pendings, Callers
<1>39. CASE BootRecoveryImage
  BY <1>39, <1>a
     DEF BootRecoveryImage, flash, Steps, Statuses, Pendings, Callers
<1>40. CASE BootMain
  BY <1>40, <1>a
     DEF BootMain, flash, Steps, Statuses, Pendings, Callers
<1>41. CASE MainUses
  BY <1>41, <1>a
     DEF MainUses, flash, Steps, Statuses, Pendings, Callers
<1>42. CASE MainRequest
  BY <1>42, <1>a
     DEF MainRequest, flash, Steps, Statuses, Pendings, Callers
<1>43. QED
  BY <1>1, <1>2, <1>3, <1>4, <1>5, <1>6, <1>7, <1>8, <1>9, <1>10, <1>11,
     <1>12, <1>13, <1>14, <1>15, <1>16, <1>17, <1>18, <1>19, <1>20, <1>21,
     <1>22, <1>23, <1>24, <1>25, <1>26, <1>27, <1>28, <1>29, <1>30, <1>31,
     <1>32, <1>33, <1>34, <1>35, <1>36, <1>37, <1>38, <1>39, <1>40, <1>41,
     <1>42
     DEF Next, Protocol, Failure, User, Boot

\* The types hold when the device leaves the factory ...
LEMMA TypeInit == Init => TypeOK
<1> SUFFICES ASSUME Init PROVE TypeOK
  OBVIOUS
<1>1. /\ bcb \in Messages
      /\ cache \in [state : {"fs", "raw", "image"}, command : SUBSET Options]
  BY DEF Init, Cleared, Formatted, Messages, Commands
<1>2. mishaps \in 0..MaxMishaps /\ choices \in 0..MaxChoices
  BY ConstantsAssumption DEF Init
<1>3. QED
  BY <1>1, <1>2, PowerOnType DEF Init, TypeOK

\* ... and every step keeps them.
LEMMA TypeStep == TypeOK /\ [Next]_vars => TypeOK'
<1> SUFFICES ASSUME TypeOK, [Next]_vars PROVE TypeOK'
  OBVIOUS
<1>a. run' \in Runs
  BY RunStep DEF vars, TypeOK
<1> USE <1>a, ConstantsAssumption
    DEF TypeOK, Stay, Smooth, Mishap, Choice, flash, ghost, Messages, Commands
<1>1. CASE GetArgs
  BY <1>1 DEF GetArgs
<1>2. CASE GetArgsUnreadable
  BY <1>2 DEF GetArgsUnreadable
<1>3. CASE GetArgsUnopened
  BY <1>3 DEF GetArgsUnopened
<1>4. CASE SetBcbErase
  BY <1>4 DEF SetBcbErase, Cleared
<1>5. CASE SetBcbWrite
  BY <1>5, FieldTypes DEF SetBcbWrite, Running
<1>6. CASE SetBcbFail
  <2>1. /\ mishaps < MaxMishaps /\ mishaps' = mishaps + 1
        /\ faults' = faults \cup {"bcbFailed"}
        /\ UNCHANGED <<mode, reason, bcb, cache, data, system, config, wanted,
                       intent, choices>>
    BY <1>6 DEF SetBcbFail
  <2>2. QED
    BY <2>1
<1>7. CASE Dispatch
  BY <1>7 DEF Dispatch
<1>8. CASE EraseBegin
  BY <1>8 DEF EraseBegin, Raw, Formatted
<1>9. CASE EraseEnd
  <2>1. /\ data' \in {data, "empty"} /\ wanted' \in BOOLEAN
        /\ cache' \in {cache, Formatted}
        /\ UNCHANGED <<mode, reason, bcb, system, config, faults, intent,
                       mishaps, choices>>
    BY <1>9 DEF EraseEnd
  <2>2. QED
    BY <2>1 DEF Formatted
<1>10. CASE EraseFail
  BY <1>10 DEF EraseFail
<1>11. CASE EraseIgnored
  BY <1>11 DEF EraseIgnored
<1>12. CASE EraseSkip
  BY <1>12 DEF EraseSkip
<1>13. CASE InstallWrite
  BY <1>13 DEF InstallWrite
<1>14. CASE InstallRemember
  BY <1>14 DEF InstallRemember
<1>15. CASE InstallSucceed
  BY <1>15 DEF InstallSucceed
<1>16. CASE InstallRefused
  BY <1>16 DEF InstallRefused
<1>17. CASE InstallFail
  BY <1>17 DEF InstallFail
<1>18. CASE Status
  BY <1>18 DEF Status
<1>19. CASE FinishNotes
  BY <1>19 DEF FinishNotes
<1>20. CASE FinishNotesFail
  BY <1>20 DEF FinishNotesFail
<1>21. CASE FinishBcb
  BY <1>21 DEF FinishBcb, Cleared
<1>22. CASE FinishBcbFail
  BY <1>22 DEF FinishBcbFail
<1>23. CASE FinishUnlink
  BY <1>23 DEF FinishUnlink, FinishReturn
<1>24. CASE FinishUnlinkFail
  BY <1>24 DEF FinishUnlinkFail, FinishReturn
<1>25. CASE MenuReboot
  BY <1>25 DEF MenuReboot
<1>26. CASE MenuWipe
  BY <1>26 DEF MenuWipe
<1>27. CASE MenuInstall
  BY <1>27 DEF MenuInstall
<1>28. CASE MenuRebootDeveloper
  BY <1>28 DEF MenuRebootDeveloper
<1>29. CASE MenuPowerOff
  BY <1>29 DEF MenuPowerOff
<1>30. CASE Firmware
  BY <1>30 DEF Firmware
<1>31. CASE WriteUpdateBegin
  BY <1>31 DEF WriteUpdateBegin, Raw
<1>32. CASE WriteUpdateEnd
  BY <1>32 DEF WriteUpdateEnd, Image
<1>33. CASE WriteUpdateFail
  BY <1>33 DEF WriteUpdateFail, Image
<1>34. CASE WriteUpdateImpossible
  BY <1>34 DEF WriteUpdateImpossible
<1>35. CASE Reboot
  BY <1>35 DEF Reboot
<1>36. CASE PowerLoss
  BY <1>36 DEF PowerLoss
<1>37. CASE ChordReboot
  BY <1>37 DEF ChordReboot
<1>38. CASE BootloaderUpdate
  BY <1>38 DEF BootloaderUpdate, BootRecovery
<1>39. CASE BootRecoveryImage
  BY <1>39 DEF BootRecoveryImage
<1>40. CASE BootMain
  BY <1>40 DEF BootMain
<1>41. CASE MainUses
  BY <1>41 DEF MainUses
<1>42. CASE MainRequest
  <2>1. CASE UNCHANGED <<cache, faults, wanted, intent>>
    BY <1>42, <2>1 DEF MainRequest
  <2>2. CASE ~UNCHANGED <<cache, faults, wanted, intent>>
    <3>1. PICK request \in Requests :
            /\ cache' = [cache EXCEPT !.command = request]
            /\ faults' = IF Clean THEN {} ELSE faults
            /\ wanted' = (wanted \/ "wipe_data" \in request)
            /\ intent' = IF "send_intent" \in request THEN "owed" ELSE "none"
      BY <1>42, <2>2 DEF MainRequest
    <3>2. cache' \in [state : {"fs", "raw", "image"}, command : SUBSET Options]
      BY <3>1
    <3>3. QED
      BY <1>42, <3>1, <3>2 DEF MainRequest
  <2>3. QED
    BY <2>1, <2>2
<1>43. CASE UNCHANGED vars
  BY <1>43 DEF vars
<1>44. QED
  BY <1>1, <1>2, <1>3, <1>4, <1>5, <1>6, <1>7, <1>8, <1>9, <1>10, <1>11,
     <1>12, <1>13, <1>14, <1>15, <1>16, <1>17, <1>18, <1>19, <1>20, <1>21,
     <1>22, <1>23, <1>24, <1>25, <1>26, <1>27, <1>28, <1>29, <1>30, <1>31,
     <1>32, <1>33, <1>34, <1>35, <1>36, <1>37, <1>38, <1>39, <1>40, <1>41,
     <1>42, <1>43
     DEF Next, Protocol, Failure, User, Boot

-----------------------------------------------------------------------------
(* Every step keeps every part of the invariant.  The parts say where run  *)
(* is, so each case unfolds one action and the operators it uses.          *)

\* The control points and who is at them.
LEMMA ControlStep == TypeOK /\ Control /\ [Next]_vars => Control'
<1> SUFFICES ASSUME TypeOK, Control, [Next]_vars
             PROVE  Control'
  OBVIOUS
<1>a. /\ run \in Runs /\ bcb \in Messages /\ config \in AllConfigs
      /\ cache \in [state : {"fs", "raw", "image"}, command : SUBSET Options]
  BY ConstantsAssumption DEF TypeOK, FirmwareInv
<1> USE <1>a DEF Control, Running, Stay, Smooth, Mishap, Choice, flash, ghost,
        Runs, Messages, AllConfigs, BootRecovery, Update, PowerOn, Cleared,
        ForwardedArgs, NextRoot, Steps, Callers
<1>1. CASE GetArgs
  BY <1>1 DEF GetArgs, WithArgs, BootRecovery
<1>2. CASE GetArgsUnreadable
  BY <1>2 DEF GetArgsUnreadable, WithArgs, BootRecovery
<1>3. CASE GetArgsUnopened
  BY <1>3 DEF GetArgsUnopened, WithArgs, BootRecovery
<1>4. CASE SetBcbErase
  BY <1>4 DEF SetBcbErase, Cleared
<1>5. CASE SetBcbWrite
  BY <1>5 DEF SetBcbWrite, AfterSet, Arming
<1>6. CASE SetBcbFail
  BY <1>6 DEF SetBcbFail, AfterSet, Arming
<1>7. CASE Dispatch
  BY <1>7 DEF Dispatch
<1>8. CASE EraseBegin
  BY <1>8 DEF EraseBegin, Raw, Formatted
<1>9. CASE EraseEnd
  BY <1>9 DEF EraseEnd, AfterRoot, Formatted, NextRoot
<1>10. CASE EraseFail
  BY <1>10 DEF EraseFail, AfterRoot, NextRoot
<1>11. CASE EraseIgnored
  BY <1>11 DEF EraseIgnored, AfterRoot, NextRoot
<1>12. CASE EraseSkip
  BY <1>12 DEF EraseSkip, AfterRoot, NextRoot
<1>13. CASE InstallWrite
  BY <1>13 DEF InstallWrite
<1>14. CASE InstallRemember
  BY <1>14 DEF InstallRemember
<1>15. CASE InstallSucceed
  BY <1>15 DEF InstallSucceed, AfterInstall
<1>16. CASE InstallRefused
  BY <1>16 DEF InstallRefused, AfterInstall
<1>17. CASE InstallFail
  BY <1>17 DEF InstallFail, AfterInstall
<1>18. CASE Status
  <2>1. CASE run' = [run EXCEPT !.pc = "finish", !.caller = "menu"]
    BY <1>18, <2>1 DEF Status
  <2>2. CASE run' = [run EXCEPT !.pc = "firmware", !.caller = "firmware"]
    BY <1>18, <2>2 DEF Status
  <2>3. QED
    BY <1>18, <2>1, <2>2 DEF Status
<1>19. CASE FinishNotes
  BY <1>19 DEF FinishNotes
<1>20. CASE FinishNotesFail
  BY <1>20 DEF FinishNotesFail
<1>21. CASE FinishBcb
  BY <1>21 DEF FinishBcb, Cleared
<1>22. CASE FinishBcbFail
  BY <1>22 DEF FinishBcbFail
<1>23. CASE FinishUnlink
  BY <1>23 DEF FinishUnlink, FinishReturn, PowerOn, Cleared
<1>24. CASE FinishUnlinkFail
  BY <1>24 DEF FinishUnlinkFail, FinishReturn, PowerOn, Cleared
<1>25. CASE MenuReboot
  BY <1>25 DEF MenuReboot
<1>26. CASE MenuWipe
  <2>1. PICK roots \in (SUBSET {"data", "cache"}) \ {{}} :
          run' = [run EXCEPT !.pc = "erase", !.todo = roots]
    BY <1>26 DEF MenuWipe
  <2>2. /\ run.pc = "prompt" /\ mode = "recovery" /\ run.caller = "menu"
        /\ UNCHANGED <<mode, bcb, config>>
    BY <1>26 DEF MenuWipe
  <2>3. run'.pc = "erase" /\ run'.todo # {} /\ run'.caller = "menu"
    BY <2>1, <2>2
  <2>4. QED
    BY ONLY <2>2, <2>3 DEF Control
<1>27. CASE MenuInstall
  BY <1>27 DEF MenuInstall
<1>28. CASE MenuRebootDeveloper
  BY <1>28 DEF MenuRebootDeveloper
<1>29. CASE MenuPowerOff
  BY <1>29 DEF MenuPowerOff, PowerOn, Cleared
<1>30. CASE Firmware
  BY <1>30 DEF Firmware, BootRecovery, ForwardedArgs
<1>31. CASE WriteUpdateBegin
  BY <1>31 DEF WriteUpdateBegin, Raw
<1>32. CASE WriteUpdateEnd
  BY <1>32 DEF WriteUpdateEnd, Image, Update, ForwardedArgs
<1>33. CASE WriteUpdateFail
  BY <1>33 DEF WriteUpdateFail, AfterWriteFailed, Image
<1>34. CASE WriteUpdateImpossible
  BY <1>34 DEF WriteUpdateImpossible, AfterWriteFailed
<1>35. CASE Reboot
  BY <1>35 DEF Reboot, PowerOn, Cleared
<1>36. CASE PowerLoss
  BY <1>36 DEF PowerLoss, PowerOn, Cleared
<1>37. CASE ChordReboot
  BY <1>37 DEF ChordReboot, PowerOn, Cleared
<1>38. CASE BootloaderUpdate
  BY <1>38 DEF BootloaderUpdate, BootRecovery
<1>39. CASE BootRecoveryImage
  BY <1>39 DEF BootRecoveryImage
<1>40. CASE BootMain
  BY <1>40 DEF BootMain
<1>41. CASE MainUses
  BY <1>41 DEF MainUses
<1>42. CASE MainRequest
  BY <1>42 DEF MainRequest, Clean
<1>43. CASE UNCHANGED vars
  BY <1>43 DEF vars
<1>44. QED
  BY <1>1, <1>2, <1>3, <1>4, <1>5, <1>6, <1>7, <1>8, <1>9, <1>10, <1>11,
     <1>12, <1>13, <1>14, <1>15, <1>16, <1>17, <1>18, <1>19, <1>20, <1>21,
     <1>22, <1>23, <1>24, <1>25, <1>26, <1>27, <1>28, <1>29, <1>30, <1>31,
     <1>32, <1>33, <1>34, <1>35, <1>36, <1>37, <1>38, <1>39, <1>40, <1>41,
     <1>42, <1>43
     DEF Next, Protocol, Failure, User, Boot

\* A message without a command is empty.
LEMMA MessageStep == TypeOK /\ Control /\ Message /\ [Next]_vars => Message'
<1> SUFFICES ASSUME TypeOK, Control, Message, [Next]_vars
             PROVE  Message'
  OBVIOUS
<1>a. /\ run \in Runs /\ bcb \in Messages /\ config \in AllConfigs
      /\ cache \in [state : {"fs", "raw", "image"}, command : SUBSET Options]
  BY ConstantsAssumption DEF TypeOK, FirmwareInv
<1> USE <1>a DEF Control, Message, Running, Stay, Smooth, Mishap, Choice,
        flash, ghost, Runs, Messages, AllConfigs, Cleared, BootRecovery, Update
<1>1. CASE GetArgs
  BY <1>1 DEF GetArgs, WithArgs, BootRecovery
<1>2. CASE GetArgsUnreadable
  BY <1>2 DEF GetArgsUnreadable, WithArgs, BootRecovery
<1>3. CASE GetArgsUnopened
  BY <1>3 DEF GetArgsUnopened, WithArgs, BootRecovery
<1>4. CASE SetBcbErase
  BY <1>4 DEF SetBcbErase, Cleared
<1>5. CASE SetBcbWrite
  BY <1>5 DEF SetBcbWrite, AfterSet, Arming
<1>6. CASE SetBcbFail
  BY <1>6 DEF SetBcbFail, AfterSet, Arming
<1>7. CASE Dispatch
  BY <1>7 DEF Dispatch
<1>8. CASE EraseBegin
  BY <1>8 DEF EraseBegin, Raw, Formatted
<1>9. CASE EraseEnd
  BY <1>9 DEF EraseEnd, AfterRoot, Formatted, NextRoot
<1>10. CASE EraseFail
  BY <1>10 DEF EraseFail, AfterRoot, NextRoot
<1>11. CASE EraseIgnored
  BY <1>11 DEF EraseIgnored, AfterRoot, NextRoot
<1>12. CASE EraseSkip
  BY <1>12 DEF EraseSkip, AfterRoot, NextRoot
<1>13. CASE InstallWrite
  BY <1>13 DEF InstallWrite
<1>14. CASE InstallRemember
  BY <1>14 DEF InstallRemember
<1>15. CASE InstallSucceed
  BY <1>15 DEF InstallSucceed, AfterInstall
<1>16. CASE InstallRefused
  BY <1>16 DEF InstallRefused, AfterInstall
<1>17. CASE InstallFail
  BY <1>17 DEF InstallFail, AfterInstall
<1>18. CASE Status
  BY <1>18 DEF Status
<1>19. CASE FinishNotes
  BY <1>19 DEF FinishNotes
<1>20. CASE FinishNotesFail
  BY <1>20 DEF FinishNotesFail
<1>21. CASE FinishBcb
  BY <1>21 DEF FinishBcb, Cleared
<1>22. CASE FinishBcbFail
  BY <1>22 DEF FinishBcbFail
<1>23. CASE FinishUnlink
  BY <1>23 DEF FinishUnlink, FinishReturn, PowerOn, Cleared
<1>24. CASE FinishUnlinkFail
  BY <1>24 DEF FinishUnlinkFail, FinishReturn, PowerOn, Cleared
<1>25. CASE MenuReboot
  BY <1>25 DEF MenuReboot
<1>26. CASE MenuWipe
  BY <1>26 DEF MenuWipe
<1>27. CASE MenuInstall
  BY <1>27 DEF MenuInstall
<1>28. CASE MenuRebootDeveloper
  BY <1>28 DEF MenuRebootDeveloper
<1>29. CASE MenuPowerOff
  BY <1>29 DEF MenuPowerOff, PowerOn, Cleared
<1>30. CASE Firmware
  BY <1>30 DEF Firmware, BootRecovery, ForwardedArgs
<1>31. CASE WriteUpdateBegin
  BY <1>31 DEF WriteUpdateBegin, Raw
<1>32. CASE WriteUpdateEnd
  BY <1>32 DEF WriteUpdateEnd, Image, Update, ForwardedArgs
<1>33. CASE WriteUpdateFail
  BY <1>33 DEF WriteUpdateFail, AfterWriteFailed, Image
<1>34. CASE WriteUpdateImpossible
  BY <1>34 DEF WriteUpdateImpossible, AfterWriteFailed
<1>35. CASE Reboot
  BY <1>35 DEF Reboot, PowerOn, Cleared
<1>36. CASE PowerLoss
  BY <1>36 DEF PowerLoss, PowerOn, Cleared
<1>37. CASE ChordReboot
  BY <1>37 DEF ChordReboot, PowerOn, Cleared
<1>38. CASE BootloaderUpdate
  BY <1>38 DEF BootloaderUpdate, BootRecovery
<1>39. CASE BootRecoveryImage
  BY <1>39 DEF BootRecoveryImage
<1>40. CASE BootMain
  BY <1>40 DEF BootMain
<1>41. CASE MainUses
  BY <1>41 DEF MainUses
<1>42. CASE MainRequest
  BY <1>42 DEF MainRequest, Clean
<1>43. CASE UNCHANGED vars
  BY <1>43 DEF vars
<1>44. QED
  BY <1>1, <1>2, <1>3, <1>4, <1>5, <1>6, <1>7, <1>8, <1>9, <1>10, <1>11,
     <1>12, <1>13, <1>14, <1>15, <1>16, <1>17, <1>18, <1>19, <1>20, <1>21,
     <1>22, <1>23, <1>24, <1>25, <1>26, <1>27, <1>28, <1>29, <1>30, <1>31,
     <1>32, <1>33, <1>34, <1>35, <1>36, <1>37, <1>38, <1>39, <1>40, <1>41,
     <1>42, <1>43
     DEF Next, Protocol, Failure, User, Boot

\* The image is complete before "update" is written.
LEMMA ImageStep == FirmwareInv /\ [Next]_vars => ImageFirst'
<1> SUFFICES ASSUME FirmwareInv, [Next]_vars
             PROVE  ImageFirst'
  OBVIOUS
<1>a. /\ run \in Runs /\ bcb \in Messages /\ config \in AllConfigs
      /\ cache \in [state : {"fs", "raw", "image"}, command : SUBSET Options]
  BY ConstantsAssumption DEF TypeOK, FirmwareInv
<1> USE <1>a DEF FirmwareInv, Control, Message, ImageFirst, Running, Stay,
        Smooth, Mishap, Choice, flash, ghost, Runs, Messages, AllConfigs,
        NextRoot, BootRecovery, Update
<1>1. CASE GetArgs
  BY <1>1 DEF GetArgs, WithArgs, BootRecovery
<1>2. CASE GetArgsUnreadable
  BY <1>2 DEF GetArgsUnreadable, WithArgs, BootRecovery
<1>3. CASE GetArgsUnopened
  BY <1>3 DEF GetArgsUnopened, WithArgs, BootRecovery
<1>4. CASE SetBcbErase
  BY <1>4 DEF SetBcbErase, Cleared
<1>5. CASE SetBcbWrite
  BY <1>5 DEF SetBcbWrite, AfterSet, Arming
<1>6. CASE SetBcbFail
  BY <1>6 DEF SetBcbFail, AfterSet, Arming
<1>7. CASE Dispatch
  BY <1>7 DEF Dispatch
<1>8. CASE EraseBegin
  BY <1>8 DEF EraseBegin, Raw, Formatted
<1>9. CASE EraseEnd
  BY <1>9 DEF EraseEnd, AfterRoot, Formatted, NextRoot
<1>10. CASE EraseFail
  BY <1>10 DEF EraseFail, AfterRoot, NextRoot
<1>11. CASE EraseIgnored
  BY <1>11 DEF EraseIgnored, AfterRoot, NextRoot
<1>12. CASE EraseSkip
  BY <1>12 DEF EraseSkip, AfterRoot, NextRoot
<1>13. CASE InstallWrite
  BY <1>13 DEF InstallWrite
<1>14. CASE InstallRemember
  BY <1>14 DEF InstallRemember
<1>15. CASE InstallSucceed
  BY <1>15 DEF InstallSucceed, AfterInstall
<1>16. CASE InstallRefused
  BY <1>16 DEF InstallRefused, AfterInstall
<1>17. CASE InstallFail
  BY <1>17 DEF InstallFail, AfterInstall
<1>18. CASE Status
  BY <1>18 DEF Status
<1>19. CASE FinishNotes
  BY <1>19 DEF FinishNotes
<1>20. CASE FinishNotesFail
  BY <1>20 DEF FinishNotesFail
<1>21. CASE FinishBcb
  BY <1>21 DEF FinishBcb, Cleared
<1>22. CASE FinishBcbFail
  BY <1>22 DEF FinishBcbFail
<1>23. CASE FinishUnlink
  BY <1>23 DEF FinishUnlink, FinishReturn, PowerOn, Cleared
<1>24. CASE FinishUnlinkFail
  BY <1>24 DEF FinishUnlinkFail, FinishReturn, PowerOn, Cleared
<1>25. CASE MenuReboot
  BY <1>25 DEF MenuReboot
<1>26. CASE MenuWipe
  BY <1>26 DEF MenuWipe
<1>27. CASE MenuInstall
  BY <1>27 DEF MenuInstall
<1>28. CASE MenuRebootDeveloper
  BY <1>28 DEF MenuRebootDeveloper
<1>29. CASE MenuPowerOff
  BY <1>29 DEF MenuPowerOff, PowerOn, Cleared
<1>30. CASE Firmware
  BY <1>30 DEF Firmware, BootRecovery, ForwardedArgs
<1>31. CASE WriteUpdateBegin
  BY <1>31 DEF WriteUpdateBegin, Raw
<1>32. CASE WriteUpdateEnd
  BY <1>32 DEF WriteUpdateEnd, Image, Update, ForwardedArgs
<1>33. CASE WriteUpdateFail
  BY <1>33 DEF WriteUpdateFail, AfterWriteFailed, Image
<1>34. CASE WriteUpdateImpossible
  BY <1>34 DEF WriteUpdateImpossible, AfterWriteFailed
<1>35. CASE Reboot
  BY <1>35 DEF Reboot, PowerOn, Cleared
<1>36. CASE PowerLoss
  BY <1>36 DEF PowerLoss, PowerOn, Cleared
<1>37. CASE ChordReboot
  BY <1>37 DEF ChordReboot, PowerOn, Cleared
<1>38. CASE BootloaderUpdate
  BY <1>38 DEF BootloaderUpdate, BootRecovery
<1>39. CASE BootRecoveryImage
  BY <1>39 DEF BootRecoveryImage
<1>40. CASE BootMain
  BY <1>40 DEF BootMain
<1>41. CASE MainUses
  BY <1>41 DEF MainUses
<1>42. CASE MainRequest
  BY <1>42 DEF MainRequest, Clean
<1>43. CASE UNCHANGED vars
  BY <1>43 DEF vars
<1>44. QED
  BY <1>1, <1>2, <1>3, <1>4, <1>5, <1>6, <1>7, <1>8, <1>9, <1>10, <1>11,
     <1>12, <1>13, <1>14, <1>15, <1>16, <1>17, <1>18, <1>19, <1>20, <1>21,
     <1>22, <1>23, <1>24, <1>25, <1>26, <1>27, <1>28, <1>29, <1>30, <1>31,
     <1>32, <1>33, <1>34, <1>35, <1>36, <1>37, <1>38, <1>39, <1>40, <1>41,
     <1>42, <1>43
     DEF Next, Protocol, Failure, User, Boot

\* What main() does is in its arguments.
LEMMA ReasonsStep == TypeOK /\ Control /\ Reasons /\ [Next]_vars => Reasons'
<1> SUFFICES ASSUME TypeOK, Control, Reasons, [Next]_vars
             PROVE  Reasons'
  OBVIOUS
<1>a. /\ run \in Runs /\ bcb \in Messages /\ config \in AllConfigs
      /\ cache \in [state : {"fs", "raw", "image"}, command : SUBSET Options]
  BY ConstantsAssumption DEF TypeOK, FirmwareInv
<1> USE <1>a DEF Reasons, Control, WipesCache, WipesData, Installs, Running,
        Stay, Smooth, Mishap, Choice, flash, ghost, Runs, Messages, AllConfigs,
        Excused, Cleared, BootRecovery, Update, PowerOn, NextRoot
<1>1. CASE GetArgs
  BY <1>1 DEF GetArgs, WithArgs, BootRecovery
<1>2. CASE GetArgsUnreadable
  BY <1>2 DEF GetArgsUnreadable, WithArgs, BootRecovery
<1>3. CASE GetArgsUnopened
  BY <1>3 DEF GetArgsUnopened, WithArgs, BootRecovery
<1>4. CASE SetBcbErase
  BY <1>4 DEF SetBcbErase, Cleared
<1>5. CASE SetBcbWrite
  BY <1>5 DEF SetBcbWrite, AfterSet, Arming
<1>6. CASE SetBcbFail
  BY <1>6 DEF SetBcbFail, AfterSet, Arming
<1>7. CASE Dispatch
  BY <1>7 DEF Dispatch
<1>8. CASE EraseBegin
  BY <1>8 DEF EraseBegin, Raw, Formatted
<1>9. CASE EraseEnd
  BY <1>9 DEF EraseEnd, AfterRoot, Formatted, NextRoot
<1>10. CASE EraseFail
  BY <1>10 DEF EraseFail, AfterRoot, NextRoot
<1>11. CASE EraseIgnored
  BY <1>11 DEF EraseIgnored, AfterRoot, NextRoot
<1>12. CASE EraseSkip
  BY <1>12 DEF EraseSkip, AfterRoot, NextRoot
<1>13. CASE InstallWrite
  BY <1>13 DEF InstallWrite
<1>14. CASE InstallRemember
  BY <1>14 DEF InstallRemember
<1>15. CASE InstallSucceed
  BY <1>15 DEF InstallSucceed, AfterInstall
<1>16. CASE InstallRefused
  BY <1>16 DEF InstallRefused, AfterInstall
<1>17. CASE InstallFail
  BY <1>17 DEF InstallFail, AfterInstall
<1>18. CASE Status
  BY <1>18 DEF Status
<1>19. CASE FinishNotes
  BY <1>19 DEF FinishNotes
<1>20. CASE FinishNotesFail
  BY <1>20 DEF FinishNotesFail
<1>21. CASE FinishBcb
  BY <1>21 DEF FinishBcb, Cleared
<1>22. CASE FinishBcbFail
  BY <1>22 DEF FinishBcbFail
<1>23. CASE FinishUnlink
  BY <1>23 DEF FinishUnlink, FinishReturn, PowerOn, Cleared
<1>24. CASE FinishUnlinkFail
  BY <1>24 DEF FinishUnlinkFail, FinishReturn, PowerOn, Cleared
<1>25. CASE MenuReboot
  BY <1>25 DEF MenuReboot
<1>26. CASE MenuWipe
  BY <1>26 DEF MenuWipe
<1>27. CASE MenuInstall
  BY <1>27 DEF MenuInstall
<1>28. CASE MenuRebootDeveloper
  BY <1>28 DEF MenuRebootDeveloper
<1>29. CASE MenuPowerOff
  BY <1>29 DEF MenuPowerOff, PowerOn, Cleared
<1>30. CASE Firmware
  BY <1>30 DEF Firmware, BootRecovery, ForwardedArgs
<1>31. CASE WriteUpdateBegin
  BY <1>31 DEF WriteUpdateBegin, Raw
<1>32. CASE WriteUpdateEnd
  BY <1>32 DEF WriteUpdateEnd, Image, Update, ForwardedArgs
<1>33. CASE WriteUpdateFail
  BY <1>33 DEF WriteUpdateFail, AfterWriteFailed, Image
<1>34. CASE WriteUpdateImpossible
  BY <1>34 DEF WriteUpdateImpossible, AfterWriteFailed
<1>35. CASE Reboot
  BY <1>35 DEF Reboot, PowerOn, Cleared
<1>36. CASE PowerLoss
  BY <1>36 DEF PowerLoss, PowerOn, Cleared
<1>37. CASE ChordReboot
  BY <1>37 DEF ChordReboot, PowerOn, Cleared
<1>38. CASE BootloaderUpdate
  BY <1>38 DEF BootloaderUpdate, BootRecovery
<1>39. CASE BootRecoveryImage
  BY <1>39 DEF BootRecoveryImage
<1>40. CASE BootMain
  BY <1>40 DEF BootMain
<1>41. CASE MainUses
  BY <1>41 DEF MainUses
<1>42. CASE MainRequest
  BY <1>42 DEF MainRequest, Clean
<1>43. CASE UNCHANGED vars
  BY <1>43 DEF vars
<1>44. QED
  BY <1>1, <1>2, <1>3, <1>4, <1>5, <1>6, <1>7, <1>8, <1>9, <1>10, <1>11,
     <1>12, <1>13, <1>14, <1>15, <1>16, <1>17, <1>18, <1>19, <1>20, <1>21,
     <1>22, <1>23, <1>24, <1>25, <1>26, <1>27, <1>28, <1>29, <1>30, <1>31,
     <1>32, <1>33, <1>34, <1>35, <1>36, <1>37, <1>38, <1>39, <1>40, <1>41,
     <1>42, <1>43
     DEF Next, Protocol, Failure, User, Boot

\* The message holds the arguments at work.
LEMMA ArmedStep == FirmwareInv /\ Armed /\ [Next]_vars => Armed'
<1> SUFFICES ASSUME FirmwareInv, Armed, [Next]_vars
             PROVE  Armed'
  OBVIOUS
<1>a. /\ run \in Runs /\ bcb \in Messages /\ config \in AllConfigs
      /\ cache \in [state : {"fs", "raw", "image"}, command : SUBSET Options]
  BY ConstantsAssumption DEF TypeOK, FirmwareInv
<1> USE <1>a DEF Armed, FirmwareInv, Control, Message, ImageFirst, Running,
        Stay, Smooth, Mishap, Choice, flash, ghost, Runs, Messages, AllConfigs,
        Excused, Cleared, BootRecovery, Update, PowerOn, ForwardedArgs
<1>1. CASE GetArgs
  BY <1>1 DEF GetArgs, WithArgs, BootRecovery
<1>2. CASE GetArgsUnreadable
  BY <1>2 DEF GetArgsUnreadable, WithArgs, BootRecovery
<1>3. CASE GetArgsUnopened
  BY <1>3 DEF GetArgsUnopened, WithArgs, BootRecovery
<1>4. CASE SetBcbErase
  BY <1>4 DEF SetBcbErase, Cleared
<1>5. CASE SetBcbWrite
  BY <1>5 DEF SetBcbWrite, AfterSet, Arming
<1>6. CASE SetBcbFail
  BY <1>6 DEF SetBcbFail, AfterSet, Arming
<1>7. CASE Dispatch
  BY <1>7 DEF Dispatch
<1>8. CASE EraseBegin
  BY <1>8 DEF EraseBegin, Raw, Formatted
<1>9. CASE EraseEnd
  BY <1>9 DEF EraseEnd, AfterRoot, Formatted, NextRoot
<1>10. CASE EraseFail
  BY <1>10 DEF EraseFail, AfterRoot, NextRoot
<1>11. CASE EraseIgnored
  BY <1>11 DEF EraseIgnored, AfterRoot, NextRoot
<1>12. CASE EraseSkip
  BY <1>12 DEF EraseSkip, AfterRoot, NextRoot
<1>13. CASE InstallWrite
  BY <1>13 DEF InstallWrite
<1>14. CASE InstallRemember
  BY <1>14 DEF InstallRemember
<1>15. CASE InstallSucceed
  BY <1>15 DEF InstallSucceed, AfterInstall
<1>16. CASE InstallRefused
  BY <1>16 DEF InstallRefused, AfterInstall
<1>17. CASE InstallFail
  BY <1>17 DEF InstallFail, AfterInstall
<1>18. CASE Status
  <2>1. CASE run' = [run EXCEPT !.pc = "finish", !.caller = "menu"]
    BY <1>18, <2>1 DEF Status
  <2>2. CASE run' = [run EXCEPT !.pc = "firmware", !.caller = "firmware"]
    BY <1>18, <2>2 DEF Status
  <2>3. QED
    BY <1>18, <2>1, <2>2 DEF Status
<1>19. CASE FinishNotes
  BY <1>19 DEF FinishNotes
<1>20. CASE FinishNotesFail
  BY <1>20 DEF FinishNotesFail
<1>21. CASE FinishBcb
  BY <1>21 DEF FinishBcb, Cleared
<1>22. CASE FinishBcbFail
  BY <1>22 DEF FinishBcbFail
<1>23. CASE FinishUnlink
  BY <1>23 DEF FinishUnlink, FinishReturn, PowerOn, Cleared
<1>24. CASE FinishUnlinkFail
  BY <1>24 DEF FinishUnlinkFail, FinishReturn, PowerOn, Cleared
<1>25. CASE MenuReboot
  BY <1>25 DEF MenuReboot
<1>26. CASE MenuWipe
  BY <1>26 DEF MenuWipe
<1>27. CASE MenuInstall
  BY <1>27 DEF MenuInstall
<1>28. CASE MenuRebootDeveloper
  BY <1>28 DEF MenuRebootDeveloper
<1>29. CASE MenuPowerOff
  BY <1>29 DEF MenuPowerOff, PowerOn, Cleared
<1>30. CASE Firmware
  BY <1>30 DEF Firmware, BootRecovery, ForwardedArgs
<1>31. CASE WriteUpdateBegin
  BY <1>31 DEF WriteUpdateBegin, Raw
<1>32. CASE WriteUpdateEnd
  BY <1>32 DEF WriteUpdateEnd, Image, Update, ForwardedArgs
<1>33. CASE WriteUpdateFail
  BY <1>33 DEF WriteUpdateFail, AfterWriteFailed, Image
<1>34. CASE WriteUpdateImpossible
  BY <1>34 DEF WriteUpdateImpossible, AfterWriteFailed
<1>35. CASE Reboot
  BY <1>35 DEF Reboot, PowerOn, Cleared
<1>36. CASE PowerLoss
  BY <1>36 DEF PowerLoss, PowerOn, Cleared
<1>37. CASE ChordReboot
  BY <1>37 DEF ChordReboot, PowerOn, Cleared
<1>38. CASE BootloaderUpdate
  BY <1>38 DEF BootloaderUpdate, BootRecovery
<1>39. CASE BootRecoveryImage
  BY <1>39 DEF BootRecoveryImage
<1>40. CASE BootMain
  BY <1>40 DEF BootMain
<1>41. CASE MainUses
  BY <1>41 DEF MainUses
<1>42. CASE MainRequest
  BY <1>42 DEF MainRequest, Clean
<1>43. CASE UNCHANGED vars
  BY <1>43 DEF vars
<1>44. QED
  BY <1>1, <1>2, <1>3, <1>4, <1>5, <1>6, <1>7, <1>8, <1>9, <1>10, <1>11,
     <1>12, <1>13, <1>14, <1>15, <1>16, <1>17, <1>18, <1>19, <1>20, <1>21,
     <1>22, <1>23, <1>24, <1>25, <1>26, <1>27, <1>28, <1>29, <1>30, <1>31,
     <1>32, <1>33, <1>34, <1>35, <1>36, <1>37, <1>38, <1>39, <1>40, <1>41,
     <1>42, <1>43
     DEF Next, Protocol, Failure, User, Boot

\* A damaged /cache is under repair.
LEMMA CacheStep ==
  FirmwareInv /\ Reasons /\ Armed /\ CacheGuarded /\ [Next]_vars
  => CacheGuarded'
<1> SUFFICES ASSUME FirmwareInv, Reasons, Armed, CacheGuarded, [Next]_vars
             PROVE  CacheGuarded'
  OBVIOUS
<1>a. /\ run \in Runs /\ bcb \in Messages /\ config \in AllConfigs
      /\ cache \in [state : {"fs", "raw", "image"}, command : SUBSET Options]
  BY ConstantsAssumption DEF TypeOK, FirmwareInv
<1> USE <1>a DEF CacheGuarded, FirmwareInv, Control, Message, ImageFirst,
        Reasons, Armed, Standing, Restarting, WipesCache, WipesData, Installs,
        Running, Stay, Smooth, Mishap, Choice, flash, ghost, Runs, Messages,
        AllConfigs, Excused, Cleared, BootRecovery, Update, PowerOn,
        ForwardedArgs, NextRoot
<1>1. CASE GetArgs
  BY <1>1 DEF GetArgs, WithArgs, BootRecovery
<1>2. CASE GetArgsUnreadable
  BY <1>2 DEF GetArgsUnreadable, WithArgs, BootRecovery
<1>3. CASE GetArgsUnopened
  BY <1>3 DEF GetArgsUnopened, WithArgs, BootRecovery
<1>4. CASE SetBcbErase
  BY <1>4 DEF SetBcbErase, Cleared
<1>5. CASE SetBcbWrite
  BY <1>5 DEF SetBcbWrite, AfterSet, Arming
<1>6. CASE SetBcbFail
  BY <1>6 DEF SetBcbFail, AfterSet, Arming
<1>7. CASE Dispatch
  BY <1>7 DEF Dispatch
<1>8. CASE EraseBegin
  BY <1>8 DEF EraseBegin, Raw, Formatted
<1>9. CASE EraseEnd
  BY <1>9 DEF EraseEnd, AfterRoot, Formatted, NextRoot
<1>10. CASE EraseFail
  BY <1>10 DEF EraseFail, AfterRoot, NextRoot
<1>11. CASE EraseIgnored
  BY <1>11 DEF EraseIgnored, AfterRoot, NextRoot
<1>12. CASE EraseSkip
  BY <1>12 DEF EraseSkip, AfterRoot, NextRoot
<1>13. CASE InstallWrite
  BY <1>13 DEF InstallWrite
<1>14. CASE InstallRemember
  BY <1>14 DEF InstallRemember
<1>15. CASE InstallSucceed
  BY <1>15 DEF InstallSucceed, AfterInstall
<1>16. CASE InstallRefused
  BY <1>16 DEF InstallRefused, AfterInstall
<1>17. CASE InstallFail
  BY <1>17 DEF InstallFail, AfterInstall
<1>18. CASE Status
  BY <1>18 DEF Status
<1>19. CASE FinishNotes
  BY <1>19 DEF FinishNotes
<1>20. CASE FinishNotesFail
  BY <1>20 DEF FinishNotesFail
<1>21. CASE FinishBcb
  BY <1>21 DEF FinishBcb, Cleared
<1>22. CASE FinishBcbFail
  BY <1>22 DEF FinishBcbFail
<1>23. CASE FinishUnlink
  BY <1>23 DEF FinishUnlink, FinishReturn, PowerOn, Cleared
<1>24. CASE FinishUnlinkFail
  BY <1>24 DEF FinishUnlinkFail, FinishReturn, PowerOn, Cleared
<1>25. CASE MenuReboot
  BY <1>25 DEF MenuReboot
<1>26. CASE MenuWipe
  BY <1>26 DEF MenuWipe
<1>27. CASE MenuInstall
  BY <1>27 DEF MenuInstall
<1>28. CASE MenuRebootDeveloper
  BY <1>28 DEF MenuRebootDeveloper
<1>29. CASE MenuPowerOff
  BY <1>29 DEF MenuPowerOff, PowerOn, Cleared
<1>30. CASE Firmware
  BY <1>30 DEF Firmware, BootRecovery, ForwardedArgs
<1>31. CASE WriteUpdateBegin
  BY <1>31 DEF WriteUpdateBegin, Raw
<1>32. CASE WriteUpdateEnd
  BY <1>32 DEF WriteUpdateEnd, Image, Update, ForwardedArgs
<1>33. CASE WriteUpdateFail
  BY <1>33 DEF WriteUpdateFail, AfterWriteFailed, Image
<1>34. CASE WriteUpdateImpossible
  BY <1>34 DEF WriteUpdateImpossible, AfterWriteFailed
<1>35. CASE Reboot
  BY <1>35 DEF Reboot, PowerOn, Cleared
<1>36. CASE PowerLoss
  BY <1>36 DEF PowerLoss, PowerOn, Cleared
<1>37. CASE ChordReboot
  BY <1>37 DEF ChordReboot, PowerOn, Cleared
<1>38. CASE BootloaderUpdate
  BY <1>38 DEF BootloaderUpdate, BootRecovery
<1>39. CASE BootRecoveryImage
  BY <1>39 DEF BootRecoveryImage
<1>40. CASE BootMain
  BY <1>40 DEF BootMain
<1>41. CASE MainUses
  BY <1>41 DEF MainUses
<1>42. CASE MainRequest
  BY <1>42 DEF MainRequest, Clean
<1>43. CASE UNCHANGED vars
  BY <1>43 DEF vars
<1>44. QED
  BY <1>1, <1>2, <1>3, <1>4, <1>5, <1>6, <1>7, <1>8, <1>9, <1>10, <1>11,
     <1>12, <1>13, <1>14, <1>15, <1>16, <1>17, <1>18, <1>19, <1>20, <1>21,
     <1>22, <1>23, <1>24, <1>25, <1>26, <1>27, <1>28, <1>29, <1>30, <1>31,
     <1>32, <1>33, <1>34, <1>35, <1>36, <1>37, <1>38, <1>39, <1>40, <1>41,
     <1>42, <1>43
     DEF Next, Protocol, Failure, User, Boot

\* A half-erased /data is under repair.
LEMMA ResetStep ==
  FirmwareInv /\ Reasons /\ Armed /\ ResetGuarded /\ [Next]_vars
  => ResetGuarded'
<1> SUFFICES ASSUME FirmwareInv, Reasons, Armed, ResetGuarded, [Next]_vars
             PROVE  ResetGuarded'
  OBVIOUS
<1>a. /\ run \in Runs /\ bcb \in Messages /\ config \in AllConfigs
      /\ cache \in [state : {"fs", "raw", "image"}, command : SUBSET Options]
  BY ConstantsAssumption DEF TypeOK, FirmwareInv
<1> USE <1>a DEF ResetGuarded, FirmwareInv, Control, Message, ImageFirst,
        Reasons, Armed, Standing, Restarting, WipesCache, WipesData, Installs,
        Running, Stay, Smooth, Mishap, Choice, flash, ghost, Runs, Messages,
        AllConfigs, Excused, Cleared, BootRecovery, Update, PowerOn,
        ForwardedArgs, NextRoot
<1>1. CASE GetArgs
  BY <1>1 DEF GetArgs, WithArgs, BootRecovery
<1>2. CASE GetArgsUnreadable
  BY <1>2 DEF GetArgsUnreadable, WithArgs, BootRecovery
<1>3. CASE GetArgsUnopened
  BY <1>3 DEF GetArgsUnopened, WithArgs, BootRecovery
<1>4. CASE SetBcbErase
  BY <1>4 DEF SetBcbErase, Cleared
<1>5. CASE SetBcbWrite
  BY <1>5 DEF SetBcbWrite, AfterSet, Arming
<1>6. CASE SetBcbFail
  BY <1>6 DEF SetBcbFail, AfterSet, Arming
<1>7. CASE Dispatch
  BY <1>7 DEF Dispatch
<1>8. CASE EraseBegin
  BY <1>8 DEF EraseBegin, Raw, Formatted
<1>9. CASE EraseEnd
  BY <1>9 DEF EraseEnd, AfterRoot, Formatted, NextRoot
<1>10. CASE EraseFail
  BY <1>10 DEF EraseFail, AfterRoot, NextRoot
<1>11. CASE EraseIgnored
  BY <1>11 DEF EraseIgnored, AfterRoot, NextRoot
<1>12. CASE EraseSkip
  BY <1>12 DEF EraseSkip, AfterRoot, NextRoot
<1>13. CASE InstallWrite
  BY <1>13 DEF InstallWrite
<1>14. CASE InstallRemember
  BY <1>14 DEF InstallRemember
<1>15. CASE InstallSucceed
  BY <1>15 DEF InstallSucceed, AfterInstall
<1>16. CASE InstallRefused
  BY <1>16 DEF InstallRefused, AfterInstall
<1>17. CASE InstallFail
  BY <1>17 DEF InstallFail, AfterInstall
<1>18. CASE Status
  BY <1>18 DEF Status
<1>19. CASE FinishNotes
  BY <1>19 DEF FinishNotes
<1>20. CASE FinishNotesFail
  BY <1>20 DEF FinishNotesFail
<1>21. CASE FinishBcb
  BY <1>21 DEF FinishBcb, Cleared
<1>22. CASE FinishBcbFail
  BY <1>22 DEF FinishBcbFail
<1>23. CASE FinishUnlink
  BY <1>23 DEF FinishUnlink, FinishReturn, PowerOn, Cleared
<1>24. CASE FinishUnlinkFail
  BY <1>24 DEF FinishUnlinkFail, FinishReturn, PowerOn, Cleared
<1>25. CASE MenuReboot
  BY <1>25 DEF MenuReboot
<1>26. CASE MenuWipe
  BY <1>26 DEF MenuWipe
<1>27. CASE MenuInstall
  BY <1>27 DEF MenuInstall
<1>28. CASE MenuRebootDeveloper
  BY <1>28 DEF MenuRebootDeveloper
<1>29. CASE MenuPowerOff
  BY <1>29 DEF MenuPowerOff, PowerOn, Cleared
<1>30. CASE Firmware
  BY <1>30 DEF Firmware, BootRecovery, ForwardedArgs
<1>31. CASE WriteUpdateBegin
  BY <1>31 DEF WriteUpdateBegin, Raw
<1>32. CASE WriteUpdateEnd
  BY <1>32 DEF WriteUpdateEnd, Image, Update, ForwardedArgs
<1>33. CASE WriteUpdateFail
  BY <1>33 DEF WriteUpdateFail, AfterWriteFailed, Image
<1>34. CASE WriteUpdateImpossible
  BY <1>34 DEF WriteUpdateImpossible, AfterWriteFailed
<1>35. CASE Reboot
  BY <1>35 DEF Reboot, PowerOn, Cleared
<1>36. CASE PowerLoss
  BY <1>36 DEF PowerLoss, PowerOn, Cleared
<1>37. CASE ChordReboot
  BY <1>37 DEF ChordReboot, PowerOn, Cleared
<1>38. CASE BootloaderUpdate
  BY <1>38 DEF BootloaderUpdate, BootRecovery
<1>39. CASE BootRecoveryImage
  BY <1>39 DEF BootRecoveryImage
<1>40. CASE BootMain
  BY <1>40 DEF BootMain
<1>41. CASE MainUses
  BY <1>41 DEF MainUses
<1>42. CASE MainRequest
  BY <1>42 DEF MainRequest, Clean
<1>43. CASE UNCHANGED vars
  BY <1>43 DEF vars
<1>44. QED
  BY <1>1, <1>2, <1>3, <1>4, <1>5, <1>6, <1>7, <1>8, <1>9, <1>10, <1>11,
     <1>12, <1>13, <1>14, <1>15, <1>16, <1>17, <1>18, <1>19, <1>20, <1>21,
     <1>22, <1>23, <1>24, <1>25, <1>26, <1>27, <1>28, <1>29, <1>30, <1>31,
     <1>32, <1>33, <1>34, <1>35, <1>36, <1>37, <1>38, <1>39, <1>40, <1>41,
     <1>42, <1>43
     DEF Next, Protocol, Failure, User, Boot

\* A half-installed /system is under repair.
LEMMA InstallStep ==
  FirmwareInv /\ Reasons /\ Armed /\ InstallGuarded /\ [Next]_vars
  => InstallGuarded'
<1> SUFFICES ASSUME FirmwareInv, Reasons, Armed, InstallGuarded, [Next]_vars
             PROVE  InstallGuarded'
  OBVIOUS
<1>a. /\ run \in Runs /\ bcb \in Messages /\ config \in AllConfigs
      /\ cache \in [state : {"fs", "raw", "image"}, command : SUBSET Options]
  BY ConstantsAssumption DEF TypeOK, FirmwareInv
<1> USE <1>a DEF InstallGuarded, FirmwareInv, Control, Message, ImageFirst,
        Reasons, Armed, Standing, Restarting, WipesCache, WipesData, Installs,
        Running, Stay, Smooth, Mishap, Choice, flash, ghost, Runs, Messages,
        AllConfigs, Excused, Cleared, BootRecovery, Update, PowerOn,
        ForwardedArgs, NextRoot
<1>1. CASE GetArgs
  BY <1>1 DEF GetArgs, WithArgs, BootRecovery
<1>2. CASE GetArgsUnreadable
  BY <1>2 DEF GetArgsUnreadable, WithArgs, BootRecovery
<1>3. CASE GetArgsUnopened
  BY <1>3 DEF GetArgsUnopened, WithArgs, BootRecovery
<1>4. CASE SetBcbErase
  BY <1>4 DEF SetBcbErase, Cleared
<1>5. CASE SetBcbWrite
  BY <1>5 DEF SetBcbWrite, AfterSet, Arming
<1>6. CASE SetBcbFail
  BY <1>6 DEF SetBcbFail, AfterSet, Arming
<1>7. CASE Dispatch
  BY <1>7 DEF Dispatch
<1>8. CASE EraseBegin
  BY <1>8 DEF EraseBegin, Raw, Formatted
<1>9. CASE EraseEnd
  BY <1>9 DEF EraseEnd, AfterRoot, Formatted, NextRoot
<1>10. CASE EraseFail
  BY <1>10 DEF EraseFail, AfterRoot, NextRoot
<1>11. CASE EraseIgnored
  BY <1>11 DEF EraseIgnored, AfterRoot, NextRoot
<1>12. CASE EraseSkip
  BY <1>12 DEF EraseSkip, AfterRoot, NextRoot
<1>13. CASE InstallWrite
  BY <1>13 DEF InstallWrite
<1>14. CASE InstallRemember
  BY <1>14 DEF InstallRemember
<1>15. CASE InstallSucceed
  BY <1>15 DEF InstallSucceed, AfterInstall
<1>16. CASE InstallRefused
  BY <1>16 DEF InstallRefused, AfterInstall
<1>17. CASE InstallFail
  BY <1>17 DEF InstallFail, AfterInstall
<1>18. CASE Status
  BY <1>18 DEF Status
<1>19. CASE FinishNotes
  BY <1>19 DEF FinishNotes
<1>20. CASE FinishNotesFail
  BY <1>20 DEF FinishNotesFail
<1>21. CASE FinishBcb
  BY <1>21 DEF FinishBcb, Cleared
<1>22. CASE FinishBcbFail
  BY <1>22 DEF FinishBcbFail
<1>23. CASE FinishUnlink
  BY <1>23 DEF FinishUnlink, FinishReturn, PowerOn, Cleared
<1>24. CASE FinishUnlinkFail
  BY <1>24 DEF FinishUnlinkFail, FinishReturn, PowerOn, Cleared
<1>25. CASE MenuReboot
  BY <1>25 DEF MenuReboot
<1>26. CASE MenuWipe
  BY <1>26 DEF MenuWipe
<1>27. CASE MenuInstall
  BY <1>27 DEF MenuInstall
<1>28. CASE MenuRebootDeveloper
  BY <1>28 DEF MenuRebootDeveloper
<1>29. CASE MenuPowerOff
  BY <1>29 DEF MenuPowerOff, PowerOn, Cleared
<1>30. CASE Firmware
  BY <1>30 DEF Firmware, BootRecovery, ForwardedArgs
<1>31. CASE WriteUpdateBegin
  BY <1>31 DEF WriteUpdateBegin, Raw
<1>32. CASE WriteUpdateEnd
  BY <1>32 DEF WriteUpdateEnd, Image, Update, ForwardedArgs
<1>33. CASE WriteUpdateFail
  BY <1>33 DEF WriteUpdateFail, AfterWriteFailed, Image
<1>34. CASE WriteUpdateImpossible
  BY <1>34 DEF WriteUpdateImpossible, AfterWriteFailed
<1>35. CASE Reboot
  BY <1>35 DEF Reboot, PowerOn, Cleared
<1>36. CASE PowerLoss
  BY <1>36 DEF PowerLoss, PowerOn, Cleared
<1>37. CASE ChordReboot
  BY <1>37 DEF ChordReboot, PowerOn, Cleared
<1>38. CASE BootloaderUpdate
  BY <1>38 DEF BootloaderUpdate, BootRecovery
<1>39. CASE BootRecoveryImage
  BY <1>39 DEF BootRecoveryImage
<1>40. CASE BootMain
  BY <1>40 DEF BootMain
<1>41. CASE MainUses
  BY <1>41 DEF MainUses
<1>42. CASE MainRequest
  BY <1>42 DEF MainRequest, Clean
<1>43. CASE UNCHANGED vars
  BY <1>43 DEF vars
<1>44. QED
  BY <1>1, <1>2, <1>3, <1>4, <1>5, <1>6, <1>7, <1>8, <1>9, <1>10, <1>11,
     <1>12, <1>13, <1>14, <1>15, <1>16, <1>17, <1>18, <1>19, <1>20, <1>21,
     <1>22, <1>23, <1>24, <1>25, <1>26, <1>27, <1>28, <1>29, <1>30, <1>31,
     <1>32, <1>33, <1>34, <1>35, <1>36, <1>37, <1>38, <1>39, <1>40, <1>41,
     <1>42, <1>43
     DEF Next, Protocol, Failure, User, Boot

\* /cache is erased after /data.
LEMMA SequelStep == TypeOK /\ Control /\ Sequel /\ [Next]_vars => Sequel'
<1> SUFFICES ASSUME TypeOK, Control, Sequel, [Next]_vars
             PROVE  Sequel'
  OBVIOUS
<1>a. /\ run \in Runs /\ bcb \in Messages /\ config \in AllConfigs
      /\ cache \in [state : {"fs", "raw", "image"}, command : SUBSET Options]
  BY ConstantsAssumption DEF TypeOK, FirmwareInv
<1> USE <1>a DEF Sequel, Control, Running, Stay, Smooth, Mishap, Choice, flash,
        ghost, Runs, Messages, AllConfigs, Excused, Cleared, BootRecovery,
        Update, PowerOn, NextRoot, Formatted, Raw
<1>1. CASE GetArgs
  BY <1>1 DEF GetArgs, WithArgs, BootRecovery
<1>2. CASE GetArgsUnreadable
  BY <1>2 DEF GetArgsUnreadable, WithArgs, BootRecovery
<1>3. CASE GetArgsUnopened
  BY <1>3 DEF GetArgsUnopened, WithArgs, BootRecovery
<1>4. CASE SetBcbErase
  BY <1>4 DEF SetBcbErase, Cleared
<1>5. CASE SetBcbWrite
  BY <1>5 DEF SetBcbWrite, AfterSet, Arming
<1>6. CASE SetBcbFail
  BY <1>6 DEF SetBcbFail, AfterSet, Arming
<1>7. CASE Dispatch
  BY <1>7 DEF Dispatch
<1>8. CASE EraseBegin
  BY <1>8 DEF EraseBegin, Raw, Formatted
<1>9. CASE EraseEnd
  BY <1>9 DEF EraseEnd, AfterRoot, Formatted, NextRoot
<1>10. CASE EraseFail
  BY <1>10 DEF EraseFail, AfterRoot, NextRoot
<1>11. CASE EraseIgnored
  BY <1>11 DEF EraseIgnored, AfterRoot, NextRoot
<1>12. CASE EraseSkip
  BY <1>12 DEF EraseSkip, AfterRoot, NextRoot
<1>13. CASE InstallWrite
  BY <1>13 DEF InstallWrite
<1>14. CASE InstallRemember
  BY <1>14 DEF InstallRemember
<1>15. CASE InstallSucceed
  BY <1>15 DEF InstallSucceed, AfterInstall
<1>16. CASE InstallRefused
  BY <1>16 DEF InstallRefused, AfterInstall
<1>17. CASE InstallFail
  BY <1>17 DEF InstallFail, AfterInstall
<1>18. CASE Status
  <2>1. CASE run' = [run EXCEPT !.pc = "finish", !.caller = "menu"]
    BY <1>18, <2>1 DEF Status
  <2>2. CASE run' = [run EXCEPT !.pc = "firmware", !.caller = "firmware"]
    BY <1>18, <2>2 DEF Status
  <2>3. QED
    BY <1>18, <2>1, <2>2 DEF Status
<1>19. CASE FinishNotes
  BY <1>19 DEF FinishNotes
<1>20. CASE FinishNotesFail
  BY <1>20 DEF FinishNotesFail
<1>21. CASE FinishBcb
  BY <1>21 DEF FinishBcb, Cleared
<1>22. CASE FinishBcbFail
  BY <1>22 DEF FinishBcbFail
<1>23. CASE FinishUnlink
  BY <1>23 DEF FinishUnlink, FinishReturn, PowerOn, Cleared
<1>24. CASE FinishUnlinkFail
  BY <1>24 DEF FinishUnlinkFail, FinishReturn, PowerOn, Cleared
<1>25. CASE MenuReboot
  BY <1>25 DEF MenuReboot
<1>26. CASE MenuWipe
  BY <1>26 DEF MenuWipe
<1>27. CASE MenuInstall
  BY <1>27 DEF MenuInstall
<1>28. CASE MenuRebootDeveloper
  BY <1>28 DEF MenuRebootDeveloper
<1>29. CASE MenuPowerOff
  BY <1>29 DEF MenuPowerOff, PowerOn, Cleared
<1>30. CASE Firmware
  BY <1>30 DEF Firmware, BootRecovery, ForwardedArgs
<1>31. CASE WriteUpdateBegin
  BY <1>31 DEF WriteUpdateBegin, Raw
<1>32. CASE WriteUpdateEnd
  BY <1>32 DEF WriteUpdateEnd, Image, Update, ForwardedArgs
<1>33. CASE WriteUpdateFail
  BY <1>33 DEF WriteUpdateFail, AfterWriteFailed, Image
<1>34. CASE WriteUpdateImpossible
  BY <1>34 DEF WriteUpdateImpossible, AfterWriteFailed
<1>35. CASE Reboot
  BY <1>35 DEF Reboot, PowerOn, Cleared
<1>36. CASE PowerLoss
  BY <1>36 DEF PowerLoss, PowerOn, Cleared
<1>37. CASE ChordReboot
  BY <1>37 DEF ChordReboot, PowerOn, Cleared
<1>38. CASE BootloaderUpdate
  BY <1>38 DEF BootloaderUpdate, BootRecovery
<1>39. CASE BootRecoveryImage
  BY <1>39 DEF BootRecoveryImage
<1>40. CASE BootMain
  BY <1>40 DEF BootMain
<1>41. CASE MainUses
  BY <1>41 DEF MainUses
<1>42. CASE MainRequest
  BY <1>42 DEF MainRequest, Clean
<1>43. CASE UNCHANGED vars
  BY <1>43 DEF vars
<1>44. QED
  BY <1>1, <1>2, <1>3, <1>4, <1>5, <1>6, <1>7, <1>8, <1>9, <1>10, <1>11,
     <1>12, <1>13, <1>14, <1>15, <1>16, <1>17, <1>18, <1>19, <1>20, <1>21,
     <1>22, <1>23, <1>24, <1>25, <1>26, <1>27, <1>28, <1>29, <1>30, <1>31,
     <1>32, <1>33, <1>34, <1>35, <1>36, <1>37, <1>38, <1>39, <1>40, <1>41,
     <1>42, <1>43
     DEF Next, Protocol, Failure, User, Boot

\* The command file does not outlive its wipe.
LEMMA CommandStep ==
  FirmwareInv /\ Reasons /\ Armed /\ Sequel /\ CommandSpent /\ [Next]_vars
  => CommandSpent'
<1> SUFFICES ASSUME FirmwareInv, Reasons, Armed, Sequel, CommandSpent,
    [Next]_vars
             PROVE  CommandSpent'
  OBVIOUS
<1>a. /\ run \in Runs /\ bcb \in Messages /\ config \in AllConfigs
      /\ cache \in [state : {"fs", "raw", "image"}, command : SUBSET Options]
  BY ConstantsAssumption DEF TypeOK, FirmwareInv
<1> USE <1>a DEF Sequel, CommandSpent, FirmwareInv, Control, Message,
        ImageFirst, Reasons, Armed, Standing, Restarting, WipesCache,
        WipesData, Installs, Running, Stay, Smooth, Mishap, Choice, flash,
        ghost, Runs, Messages, AllConfigs, Excused, Cleared, BootRecovery,
        Update, PowerOn, ForwardedArgs, NextRoot
<1>1. CASE GetArgs
  BY <1>1 DEF GetArgs, WithArgs, BootRecovery
<1>2. CASE GetArgsUnreadable
  BY <1>2 DEF GetArgsUnreadable, WithArgs, BootRecovery
<1>3. CASE GetArgsUnopened
  BY <1>3 DEF GetArgsUnopened, WithArgs, BootRecovery
<1>4. CASE SetBcbErase
  BY <1>4 DEF SetBcbErase, Cleared
<1>5. CASE SetBcbWrite
  BY <1>5 DEF SetBcbWrite, AfterSet, Arming
<1>6. CASE SetBcbFail
  BY <1>6 DEF SetBcbFail, AfterSet, Arming
<1>7. CASE Dispatch
  BY <1>7 DEF Dispatch
<1>8. CASE EraseBegin
  BY <1>8 DEF EraseBegin, Raw, Formatted
<1>9. CASE EraseEnd
  BY <1>9 DEF EraseEnd, AfterRoot, Formatted, NextRoot
<1>10. CASE EraseFail
  BY <1>10 DEF EraseFail, AfterRoot, NextRoot
<1>11. CASE EraseIgnored
  BY <1>11 DEF EraseIgnored, AfterRoot, NextRoot
<1>12. CASE EraseSkip
  BY <1>12 DEF EraseSkip, AfterRoot, NextRoot
<1>13. CASE InstallWrite
  BY <1>13 DEF InstallWrite
<1>14. CASE InstallRemember
  BY <1>14 DEF InstallRemember
<1>15. CASE InstallSucceed
  BY <1>15 DEF InstallSucceed, AfterInstall
<1>16. CASE InstallRefused
  BY <1>16 DEF InstallRefused, AfterInstall
<1>17. CASE InstallFail
  BY <1>17 DEF InstallFail, AfterInstall
<1>18. CASE Status
  BY <1>18 DEF Status
<1>19. CASE FinishNotes
  BY <1>19 DEF FinishNotes
<1>20. CASE FinishNotesFail
  BY <1>20 DEF FinishNotesFail
<1>21. CASE FinishBcb
  BY <1>21 DEF FinishBcb, Cleared
<1>22. CASE FinishBcbFail
  BY <1>22 DEF FinishBcbFail
<1>23. CASE FinishUnlink
  BY <1>23 DEF FinishUnlink, FinishReturn, PowerOn, Cleared
<1>24. CASE FinishUnlinkFail
  BY <1>24 DEF FinishUnlinkFail, FinishReturn, PowerOn, Cleared
<1>25. CASE MenuReboot
  BY <1>25 DEF MenuReboot
<1>26. CASE MenuWipe
  BY <1>26 DEF MenuWipe
<1>27. CASE MenuInstall
  BY <1>27 DEF MenuInstall
<1>28. CASE MenuRebootDeveloper
  BY <1>28 DEF MenuRebootDeveloper
<1>29. CASE MenuPowerOff
  BY <1>29 DEF MenuPowerOff, PowerOn, Cleared
<1>30. CASE Firmware
  BY <1>30 DEF Firmware, BootRecovery, ForwardedArgs
<1>31. CASE WriteUpdateBegin
  BY <1>31 DEF WriteUpdateBegin, Raw
<1>32. CASE WriteUpdateEnd
  BY <1>32 DEF WriteUpdateEnd, Image, Update, ForwardedArgs
<1>33. CASE WriteUpdateFail
  BY <1>33 DEF WriteUpdateFail, AfterWriteFailed, Image
<1>34. CASE WriteUpdateImpossible
  BY <1>34 DEF WriteUpdateImpossible, AfterWriteFailed
<1>35. CASE Reboot
  BY <1>35 DEF Reboot, PowerOn, Cleared
<1>36. CASE PowerLoss
  BY <1>36 DEF PowerLoss, PowerOn, Cleared
<1>37. CASE ChordReboot
  BY <1>37 DEF ChordReboot, PowerOn, Cleared
<1>38. CASE BootloaderUpdate
  BY <1>38 DEF BootloaderUpdate, BootRecovery
<1>39. CASE BootRecoveryImage
  BY <1>39 DEF BootRecoveryImage
<1>40. CASE BootMain
  BY <1>40 DEF BootMain
<1>41. CASE MainUses
  BY <1>41 DEF MainUses
<1>42. CASE MainRequest
  BY <1>42 DEF MainRequest, Clean
<1>43. CASE UNCHANGED vars
  BY <1>43 DEF vars
<1>44. QED
  BY <1>1, <1>2, <1>3, <1>4, <1>5, <1>6, <1>7, <1>8, <1>9, <1>10, <1>11,
     <1>12, <1>13, <1>14, <1>15, <1>16, <1>17, <1>18, <1>19, <1>20, <1>21,
     <1>22, <1>23, <1>24, <1>25, <1>26, <1>27, <1>28, <1>29, <1>30, <1>31,
     <1>32, <1>33, <1>34, <1>35, <1>36, <1>37, <1>38, <1>39, <1>40, <1>41,
     <1>42, <1>43
     DEF Next, Protocol, Failure, User, Boot

\* Neither do the arguments.
LEMMA ArgumentsStep ==
   FirmwareInv /\ Reasons /\ Armed /\ Sequel /\ CommandSpent /\ ArgumentsSpent
     /\ [Next]_vars
  => ArgumentsSpent'
<1> SUFFICES ASSUME FirmwareInv, Reasons, Armed, Sequel, CommandSpent,
    ArgumentsSpent, [Next]_vars
             PROVE  ArgumentsSpent'
  OBVIOUS
<1>a. /\ run \in Runs /\ bcb \in Messages /\ config \in AllConfigs
      /\ cache \in [state : {"fs", "raw", "image"}, command : SUBSET Options]
  BY ConstantsAssumption DEF TypeOK, FirmwareInv
<1> USE <1>a DEF ArgumentsSpent, Sequel, CommandSpent, FirmwareInv, Control,
        Message, ImageFirst, Reasons, Armed, Standing, Restarting, WipesCache,
        WipesData, Installs, Running, Stay, Smooth, Mishap, Choice, flash,
        ghost, Runs, Messages, AllConfigs, Excused, Cleared, BootRecovery,
        Update, PowerOn, ForwardedArgs, NextRoot
<1>1. CASE GetArgs
  BY <1>1 DEF GetArgs, WithArgs, BootRecovery
<1>2. CASE GetArgsUnreadable
  BY <1>2 DEF GetArgsUnreadable, WithArgs, BootRecovery
<1>3. CASE GetArgsUnopened
  BY <1>3 DEF GetArgsUnopened, WithArgs, BootRecovery
<1>4. CASE SetBcbErase
  BY <1>4 DEF SetBcbErase, Cleared
<1>5. CASE SetBcbWrite
  BY <1>5 DEF SetBcbWrite, AfterSet, Arming
<1>6. CASE SetBcbFail
  BY <1>6 DEF SetBcbFail, AfterSet, Arming
<1>7. CASE Dispatch
  BY <1>7 DEF Dispatch
<1>8. CASE EraseBegin
  BY <1>8 DEF EraseBegin, Raw, Formatted
<1>9. CASE EraseEnd
  BY <1>9 DEF EraseEnd, AfterRoot, Formatted, NextRoot
<1>10. CASE EraseFail
  BY <1>10 DEF EraseFail, AfterRoot, NextRoot
<1>11. CASE EraseIgnored
  BY <1>11 DEF EraseIgnored, AfterRoot, NextRoot
<1>12. CASE EraseSkip
  BY <1>12 DEF EraseSkip, AfterRoot, NextRoot
<1>13. CASE InstallWrite
  BY <1>13 DEF InstallWrite
<1>14. CASE InstallRemember
  BY <1>14 DEF InstallRemember
<1>15. CASE InstallSucceed
  BY <1>15 DEF InstallSucceed, AfterInstall
<1>16. CASE InstallRefused
  BY <1>16 DEF InstallRefused, AfterInstall
<1>17. CASE InstallFail
  BY <1>17 DEF InstallFail, AfterInstall
<1>18. CASE Status
  <2>1. CASE run' = [run EXCEPT !.pc = "finish", !.caller = "menu"]
    BY <1>18, <2>1 DEF Status
  <2>2. CASE run' = [run EXCEPT !.pc = "firmware", !.caller = "firmware"]
    BY <1>18, <2>2 DEF Status
  <2>3. QED
    BY <1>18, <2>1, <2>2 DEF Status
<1>19. CASE FinishNotes
  BY <1>19 DEF FinishNotes
<1>20. CASE FinishNotesFail
  BY <1>20 DEF FinishNotesFail
<1>21. CASE FinishBcb
  BY <1>21 DEF FinishBcb, Cleared
<1>22. CASE FinishBcbFail
  BY <1>22 DEF FinishBcbFail
<1>23. CASE FinishUnlink
  BY <1>23 DEF FinishUnlink, FinishReturn, PowerOn, Cleared
<1>24. CASE FinishUnlinkFail
  BY <1>24 DEF FinishUnlinkFail, FinishReturn, PowerOn, Cleared
<1>25. CASE MenuReboot
  BY <1>25 DEF MenuReboot
<1>26. CASE MenuWipe
  BY <1>26 DEF MenuWipe
<1>27. CASE MenuInstall
  BY <1>27 DEF MenuInstall
<1>28. CASE MenuRebootDeveloper
  BY <1>28 DEF MenuRebootDeveloper
<1>29. CASE MenuPowerOff
  BY <1>29 DEF MenuPowerOff, PowerOn, Cleared
<1>30. CASE Firmware
  BY <1>30 DEF Firmware, BootRecovery, ForwardedArgs
<1>31. CASE WriteUpdateBegin
  BY <1>31 DEF WriteUpdateBegin, Raw
<1>32. CASE WriteUpdateEnd
  BY <1>32 DEF WriteUpdateEnd, Image, Update, ForwardedArgs
<1>33. CASE WriteUpdateFail
  BY <1>33 DEF WriteUpdateFail, AfterWriteFailed, Image
<1>34. CASE WriteUpdateImpossible
  BY <1>34 DEF WriteUpdateImpossible, AfterWriteFailed
<1>35. CASE Reboot
  BY <1>35 DEF Reboot, PowerOn, Cleared
<1>36. CASE PowerLoss
  BY <1>36 DEF PowerLoss, PowerOn, Cleared
<1>37. CASE ChordReboot
  BY <1>37 DEF ChordReboot, PowerOn, Cleared
<1>38. CASE BootloaderUpdate
  BY <1>38 DEF BootloaderUpdate, BootRecovery
<1>39. CASE BootRecoveryImage
  BY <1>39 DEF BootRecoveryImage
<1>40. CASE BootMain
  BY <1>40 DEF BootMain
<1>41. CASE MainUses
  BY <1>41 DEF MainUses
<1>42. CASE MainRequest
  BY <1>42 DEF MainRequest, Clean
<1>43. CASE UNCHANGED vars
  BY <1>43 DEF vars
<1>44. QED
  BY <1>1, <1>2, <1>3, <1>4, <1>5, <1>6, <1>7, <1>8, <1>9, <1>10, <1>11,
     <1>12, <1>13, <1>14, <1>15, <1>16, <1>17, <1>18, <1>19, <1>20, <1>21,
     <1>22, <1>23, <1>24, <1>25, <1>26, <1>27, <1>28, <1>29, <1>30, <1>31,
     <1>32, <1>33, <1>34, <1>35, <1>36, <1>37, <1>38, <1>39, <1>40, <1>41,
     <1>42, <1>43
     DEF Next, Protocol, Failure, User, Boot

-----------------------------------------------------------------------------
(* The theorems                                                            *)

\* The variables have their types, whatever the constants.
THEOREM TypeCorrect == Spec => []TypeOK
<1>1. TypeOK /\ [Next]_vars => TypeOK'
  BY TypeStep
<1>2. QED
  BY TypeInit, <1>1, PTL DEF Spec

\* Control points, message and image keep step with each other.
THEOREM FirmwareInvariant == Spec => []FirmwareInv
<1>1. Init => FirmwareInv
  BY TypeInit DEF Init, FirmwareInv, Control, Message, ImageFirst, PowerOn,
     Cleared, Formatted, Running
<1>2. FirmwareInv /\ [Next]_vars => FirmwareInv'
  BY TypeStep, ControlStep, MessageStep, ImageStep DEF FirmwareInv
<1>3. QED
  BY <1>1, <1>2, PTL DEF Spec

\* maybe_install_firmware_update: the bootloader is never asked to flash an
\* image that is not completely written, at whatever step power went before.
THEOREM ImageCompleteAlways == Spec => []ImageComplete
<1>1. FirmwareInv => ImageComplete
  BY DEF FirmwareInv, ImageFirst, ImageComplete
<1>2. QED
  BY FirmwareInvariant, <1>1, PTL

\* install_package: an update binary's firmware is armed only when its whole
\* install succeeded.
THEOREM FirmwareAfterInstallAlways == Spec => []FirmwareAfterInstall
<1>1. FirmwareInv => FirmwareAfterInstall
  BY DEF FirmwareInv, ImageFirst, FirmwareAfterInstall, Running
<1>2. QED
  BY FirmwareInvariant, <1>1, PTL

\* get_args writes the arguments back before main() acts on them, so a restart
\* finds them as long as a partition is not fit for the main system.
THEOREM RestartInvariant == Spec => []RestartInv
<1>1. Init => RestartInv
  <2>1. Init => FirmwareInv
    BY TypeInit DEF Init, FirmwareInv, Control, Message, ImageFirst, PowerOn,
       Cleared, Formatted, Running
  <2>2. QED
    BY <2>1 DEF Init, RestartInv, Reasons, Armed, CacheGuarded, ResetGuarded,
       InstallGuarded, PowerOn, Formatted
<1>2. RestartInv /\ [Next]_vars => RestartInv'
  <2>1. FirmwareInv /\ [Next]_vars => FirmwareInv'
    BY TypeStep, ControlStep, MessageStep, ImageStep DEF FirmwareInv
  <2>2. FirmwareInv => TypeOK /\ Control
    BY DEF FirmwareInv
  <2>3. QED
    BY <2>1, <2>2, ReasonsStep, ArmedStep, CacheStep, ResetStep, InstallStep
       DEF RestartInv
<1>3. QED
  BY <1>1, <1>2, PTL DEF Spec

\* The main system always finds a file system in /cache.
THEOREM CacheAlwaysRestartable == Spec => []CacheRestartable
<1>1. RestartInv => CacheRestartable
  BY DEF RestartInv, CacheGuarded, CacheRestartable
<1>2. QED
  BY RestartInvariant, <1>1, PTL

\* FACTORY RESET: the main system never finds a half-erased /data.
THEOREM ResetAlwaysRestartable == Spec => []ResetRestartable
<1>1. RestartInv => ResetRestartable
  BY DEF RestartInv, ResetGuarded, ResetRestartable
<1>2. QED
  BY RestartInvariant, <1>1, PTL

\* OTA INSTALL: the main system never finds a half-installed /system.
THEOREM InstallAlwaysRestartable == Spec => []InstallRestartable
<1>1. RestartInv => InstallRestartable
  BY DEF RestartInv, InstallGuarded, InstallRestartable
<1>2. QED
  BY RestartInvariant, <1>1, PTL

\* Arguments that asked for a wipe are used up before the user has data again.
THEOREM RequestInvariant == Spec => []RequestInv
<1>1. Init => Sequel /\ CommandSpent /\ ArgumentsSpent
  BY DEF Init, Sequel, CommandSpent, ArgumentsSpent, PowerOn, Cleared, Formatted
<1>2. RestartInv /\ Sequel /\ CommandSpent /\ ArgumentsSpent /\ [Next]_vars
      => (Sequel /\ CommandSpent /\ ArgumentsSpent)'
  <2>1. RestartInv => FirmwareInv /\ TypeOK /\ Control /\ Reasons /\ Armed
    BY DEF RestartInv, FirmwareInv
  <2>2. QED
    BY <2>1, SequelStep, CommandStep, ArgumentsStep
<1>3. QED
  BY <1>1, <1>2, RestartInvariant, PTL DEF Spec, RequestInv

\* User data is erased only when someone asked for it since the last time.
THEOREM WipesAreRequested == Spec => WipeOnlyOnRequest
<1>1. RequestInv /\ [Next]_vars =>
        [config.nand /\ data = "user" /\ data' = "partial" =>
           \/ wanted
           \/ Excused({"torn", "bcbFailed", "formatFailed", "unlinkFailed"})]_vars
  <2> SUFFICES ASSUME RequestInv, Next, data = "user", data' = "partial",
                      config.nand, ~wanted,
                      ~Excused({"torn", "bcbFailed", "formatFailed",
                                "unlinkFailed"})
               PROVE  FALSE
    OBVIOUS
  <2>1. EraseBegin /\ "data" \in run.todo
    <3> USE DEF Smooth, Stay, flash, ghost
    <3>1. EraseBegin => "data" \in run.todo
      BY DEF EraseBegin, NextRoot
    <3>2. EraseEnd => FALSE
      BY DEF EraseEnd
    <3>3. QED
      BY <3>1, <3>2 DEF Next, Protocol, Failure, User, Boot, GetArgs,
         GetArgsUnreadable, GetArgsUnopened, SetBcbErase, SetBcbWrite,
         SetBcbFail, Dispatch, EraseFail, EraseIgnored, EraseSkip, InstallWrite,
         InstallRemember, InstallSucceed, InstallRefused, InstallFail, Status,
         FinishNotes, FinishNotesFail, FinishBcb, FinishBcbFail, FinishUnlink,
         FinishUnlinkFail, MenuReboot, MenuWipe, MenuInstall,
         MenuRebootDeveloper, MenuPowerOff, Firmware, WriteUpdateBegin,
         WriteUpdateEnd, WriteUpdateFail, WriteUpdateImpossible, Reboot,
         PowerLoss, ChordReboot, BootloaderUpdate, BootRecoveryImage, BootMain,
         MainUses, MainRequest
  <2>2. QED
    BY <2>1 DEF RequestInv, ArgumentsSpent
<1>2. QED
  BY <1>1, RequestInvariant, PTL DEF Spec, WipeOnlyOnRequest

-----------------------------------------------------------------------------
(* The refinement                                                          *)

\* Every step is a step of the mailbox or leaves it alone.
LEMMA MailboxStep ==
  FirmwareInv /\ [Next]_vars
  => [Mailbox!Next]_(Mailbox!vars)
<1> SUFFICES ASSUME FirmwareInv, [Next]_vars
             PROVE  [Mailbox!Next]_(Mailbox!vars)
  OBVIOUS
<1>a. /\ run \in Runs /\ bcb \in Messages /\ config \in AllConfigs
      /\ cache \in [state : {"fs", "raw", "image"}, command : SUBSET Options]
  BY ConstantsAssumption DEF TypeOK, FirmwareInv
<1> USE <1>a DEF FirmwareInv, Control, Message, ImageFirst, Running, Stay,
        Smooth, Mishap, Choice, flash, ghost, Runs, Messages, AllConfigs,
        BootRecovery, Update, PowerOn, Cleared, NextRoot, Formatted, Raw,
        Image, Mailbox!Next, Mailbox!vars, Mailbox!Scratch, Mailbox!Seal,
        Mailbox!Post, Mailbox!Collect, Mailbox!Restore, Mailbox!Reset
<1>1. CASE GetArgs
  BY <1>1 DEF GetArgs, WithArgs, BootRecovery
<1>2. CASE GetArgsUnreadable
  BY <1>2 DEF GetArgsUnreadable, WithArgs, BootRecovery
<1>3. CASE GetArgsUnopened
  BY <1>3 DEF GetArgsUnopened, WithArgs, BootRecovery
<1>4. CASE SetBcbErase
  BY <1>4 DEF SetBcbErase, Cleared
<1>5. CASE SetBcbWrite
  BY <1>5 DEF SetBcbWrite, AfterSet, Arming
<1>6. CASE SetBcbFail
  BY <1>6 DEF SetBcbFail, AfterSet, Arming
<1>7. CASE Dispatch
  BY <1>7 DEF Dispatch
<1>8. CASE EraseBegin
  BY <1>8 DEF EraseBegin, Raw, Formatted
<1>9. CASE EraseEnd
  BY <1>9 DEF EraseEnd, AfterRoot, Formatted, NextRoot
<1>10. CASE EraseFail
  BY <1>10 DEF EraseFail, AfterRoot, NextRoot
<1>11. CASE EraseIgnored
  BY <1>11 DEF EraseIgnored, AfterRoot, NextRoot
<1>12. CASE EraseSkip
  BY <1>12 DEF EraseSkip, AfterRoot, NextRoot
<1>13. CASE InstallWrite
  BY <1>13 DEF InstallWrite
<1>14. CASE InstallRemember
  BY <1>14 DEF InstallRemember
<1>15. CASE InstallSucceed
  BY <1>15 DEF InstallSucceed, AfterInstall
<1>16. CASE InstallRefused
  BY <1>16 DEF InstallRefused, AfterInstall
<1>17. CASE InstallFail
  BY <1>17 DEF InstallFail, AfterInstall
<1>18. CASE Status
  BY <1>18 DEF Status
<1>19. CASE FinishNotes
  BY <1>19 DEF FinishNotes
<1>20. CASE FinishNotesFail
  BY <1>20 DEF FinishNotesFail
<1>21. CASE FinishBcb
  BY <1>21 DEF FinishBcb, Cleared
<1>22. CASE FinishBcbFail
  BY <1>22 DEF FinishBcbFail
<1>23. CASE FinishUnlink
  BY <1>23 DEF FinishUnlink, FinishReturn, PowerOn, Cleared
<1>24. CASE FinishUnlinkFail
  BY <1>24 DEF FinishUnlinkFail, FinishReturn, PowerOn, Cleared
<1>25. CASE MenuReboot
  BY <1>25 DEF MenuReboot
<1>26. CASE MenuWipe
  BY <1>26 DEF MenuWipe
<1>27. CASE MenuInstall
  BY <1>27 DEF MenuInstall
<1>28. CASE MenuRebootDeveloper
  BY <1>28 DEF MenuRebootDeveloper
<1>29. CASE MenuPowerOff
  BY <1>29 DEF MenuPowerOff, PowerOn, Cleared
<1>30. CASE Firmware
  BY <1>30 DEF Firmware, BootRecovery, ForwardedArgs
<1>31. CASE WriteUpdateBegin
  BY <1>31 DEF WriteUpdateBegin, Raw
<1>32. CASE WriteUpdateEnd
  BY <1>32 DEF WriteUpdateEnd, Image, Update, ForwardedArgs
<1>33. CASE WriteUpdateFail
  BY <1>33 DEF WriteUpdateFail, AfterWriteFailed, Image
<1>34. CASE WriteUpdateImpossible
  BY <1>34 DEF WriteUpdateImpossible, AfterWriteFailed
<1>35. CASE Reboot
  BY <1>35 DEF Reboot, PowerOn, Cleared
<1>36. CASE PowerLoss
  BY <1>36 DEF PowerLoss, PowerOn, Cleared
<1>37. CASE ChordReboot
  BY <1>37 DEF ChordReboot, PowerOn, Cleared
<1>38. CASE BootloaderUpdate
  BY <1>38 DEF BootloaderUpdate, BootRecovery
<1>39. CASE BootRecoveryImage
  BY <1>39 DEF BootRecoveryImage
<1>40. CASE BootMain
  BY <1>40 DEF BootMain
<1>41. CASE MainUses
  BY <1>41 DEF MainUses
<1>42. CASE MainRequest
  BY <1>42 DEF MainRequest, Clean
<1>43. CASE UNCHANGED vars
  BY <1>43 DEF vars
<1>44. QED
  BY <1>1, <1>2, <1>3, <1>4, <1>5, <1>6, <1>7, <1>8, <1>9, <1>10, <1>11,
     <1>12, <1>13, <1>14, <1>15, <1>16, <1>17, <1>18, <1>19, <1>20, <1>21,
     <1>22, <1>23, <1>24, <1>25, <1>26, <1>27, <1>28, <1>29, <1>30, <1>31,
     <1>32, <1>33, <1>34, <1>35, <1>36, <1>37, <1>38, <1>39, <1>40, <1>41,
     <1>42, <1>43
     DEF Next, Protocol, Failure, User, Boot

\* The firmware flow implements the safety part of UpdateMailbox.
THEOREM ImplementsMailbox == Spec => MailboxSafety
<1>1. Init => Mailbox!Init
  BY DEF Init, Mailbox!Init, Cleared, Formatted
<1>2. QED
  BY <1>1, MailboxStep, FirmwareInvariant, PTL
     DEF Spec, MailboxSafety, Mailbox!Safety

-----------------------------------------------------------------------------
(* What a run of recovery leaves behind: the strengthenings, on top of     *)
(* RestartInv                                                              *)

\* maybe_install_firmware_update comes to its end, or to the end of main(), with
\* an image only when the message or the image could not be written, or when the
\* bootloader has been told.
FirmwareKept ==
  run.pending # "none" /\ run.caller = "firmware"
  /\ run.pc \in {"erase", "erasing", "finish", "finish_bcb", "finish_unlink",
                 "reboot"}
  => \/ run.pc = "reboot" /\ bcb.command = "update"
     \/ Excused({"bcbFailed", "imageFailed"})

\* main() has erased what is not in run.todo any more, and /cache comes last.
WipeUnderWay ==
  /\ WipeDone
  /\ run.caller = "main" /\ run.pc \in {"erase", "erasing"}
     /\ run.status = "success" /\ WipesData(run.opts)
     /\ ~Excused({"formatSkipped", "eraseIgnored"})
     => /\ "data" \notin run.todo => data = "empty"
        /\ "cache" \in run.todo

\* What may keep an intent from the main system.
NoIntent == {"interrupted", "bcbFailed", "formatFailed", "eraseIgnored",
             "cacheFailed"}

\* Unless one of these happened, recovery makes a file system of /cache again,
\* also when it was erased from the menu: there it does so at once.
CacheMended ==
  /\ "torn" \in faults => "interrupted" \in faults
  /\ cache.state # "fs" /\ ~Excused(NoIntent)
     => /\ mode # "main"
        /\ run.pc \in Restarting \cup
                      {"erase", "erasing", "write_update", "writing", "reboot"}
        /\ run.pc \in {"erase", "erasing"} => "cache" \in run.todo
        /\ run.pc = "reboot" => bcb.command = "update"
        /\ run.caller # "menu" => WipesCache(Standing)

\* What get_args would find.
NextArgs ==
  IF config.nand /\ bcb.recovery # {} THEN bcb.recovery ELSE cache.command

\* Until it is delivered the option to send the intent is in the message or in
\* the command file, then in memory, and in the message again across the
\* firmware update.
IntentCarried ==
  intent = "owed" /\ ~Excused(NoIntent)
  => /\ mode # "main"
     /\ mode = "bootloader" => reason = "recovery" \/ bcb.command # "none"
     /\ run.caller # "developer"
     /\ "send_intent" \in IF run.pc = "get_args" THEN NextArgs ELSE run.opts
     /\ run.pc \in {"set_bcb", "bcb_erased"} =>
          "send_intent" \in run.msg.recovery
     /\ run.pc \in {"finish_bcb", "finish_unlink"} => run.caller = "menu"
     /\ run.pc = "reboot" =>
          bcb.command = "update" /\ "send_intent" \in bcb.recovery

-----------------------------------------------------------------------------
(* Every step keeps them.                                                  *)

\* An image in memory is written, or an error excuses it.
LEMMA KeptStep ==
  TypeOK /\ Control /\ FirmwareKept /\ [Next]_vars => FirmwareKept'
<1> SUFFICES ASSUME TypeOK, Control, FirmwareKept, [Next]_vars
             PROVE  FirmwareKept'
  OBVIOUS
<1>a. /\ run \in Runs /\ bcb \in Messages /\ config \in AllConfigs
      /\ cache \in [state : {"fs", "raw", "image"}, command : SUBSET Options]
  BY ConstantsAssumption DEF TypeOK, FirmwareInv
<1> USE <1>a DEF FirmwareKept, Control, Running, Stay, Smooth, Mishap, Choice,
        flash, ghost, Runs, Messages, AllConfigs, Excused, Cleared, BootRecovery,
        Update, PowerOn
<1>1. CASE GetArgs
  BY <1>1 DEF GetArgs, WithArgs, BootRecovery
<1>2. CASE GetArgsUnreadable
  BY <1>2 DEF GetArgsUnreadable, WithArgs, BootRecovery
<1>3. CASE GetArgsUnopened
  BY <1>3 DEF GetArgsUnopened, WithArgs, BootRecovery
<1>4. CASE SetBcbErase
  BY <1>4 DEF SetBcbErase, Cleared
<1>5. CASE SetBcbWrite
  BY <1>5 DEF SetBcbWrite, AfterSet, Arming
<1>6. CASE SetBcbFail
  BY <1>6 DEF SetBcbFail, AfterSet, Arming
<1>7. CASE Dispatch
  BY <1>7 DEF Dispatch
<1>8. CASE EraseBegin
  BY <1>8 DEF EraseBegin, Raw, Formatted
<1>9. CASE EraseEnd
  BY <1>9 DEF EraseEnd, AfterRoot, Formatted, NextRoot
<1>10. CASE EraseFail
  BY <1>10 DEF EraseFail, AfterRoot, NextRoot
<1>11. CASE EraseIgnored
  BY <1>11 DEF EraseIgnored, AfterRoot, NextRoot
<1>12. CASE EraseSkip
  BY <1>12 DEF EraseSkip, AfterRoot, NextRoot
<1>13. CASE InstallWrite
  BY <1>13 DEF InstallWrite
<1>14. CASE InstallRemember
  BY <1>14 DEF InstallRemember
<1>15. CASE InstallSucceed
  BY <1>15 DEF InstallSucceed, AfterInstall
<1>16. CASE InstallRefused
  BY <1>16 DEF InstallRefused, AfterInstall
<1>17. CASE InstallFail
  BY <1>17 DEF InstallFail, AfterInstall
<1>18. CASE Status
  <2>1. CASE run' = [run EXCEPT !.pc = "finish", !.caller = "menu"]
    BY <1>18, <2>1 DEF Status
  <2>2. CASE run' = [run EXCEPT !.pc = "firmware", !.caller = "firmware"]
    BY <1>18, <2>2 DEF Status
  <2>3. QED
    BY <1>18, <2>1, <2>2 DEF Status
<1>19. CASE FinishNotes
  BY <1>19 DEF FinishNotes
<1>20. CASE FinishNotesFail
  BY <1>20 DEF FinishNotesFail
<1>21. CASE FinishBcb
  BY <1>21 DEF FinishBcb, Cleared
<1>22. CASE FinishBcbFail
  BY <1>22 DEF FinishBcbFail
<1>23. CASE FinishUnlink
  <2>1. CASE run.caller = "developer"
    BY <1>23, <2>1 DEF FinishUnlink, FinishReturn
  <2>2. CASE run.caller = "menu"
    BY <1>23, <2>2 DEF FinishUnlink, FinishReturn
  <2>3. CASE run.caller \notin {"developer", "menu"}
    <3>1. /\ run.pc = "finish_unlink" /\ run' = [run EXCEPT !.pc = "reboot"]
          /\ UNCHANGED <<mode, faults>>
      BY <1>23, <2>3 DEF FinishUnlink, FinishReturn
    <3>2. QED
      BY <2>3, <3>1 DEF Callers
  <2>4. QED
    BY <2>1, <2>2, <2>3
<1>24. CASE FinishUnlinkFail
  <2>1. CASE run.caller = "developer"
    BY <1>24, <2>1 DEF FinishUnlinkFail, FinishReturn
  <2>2. CASE run.caller = "menu"
    BY <1>24, <2>2 DEF FinishUnlinkFail, FinishReturn
  <2>3. CASE run.caller \notin {"developer", "menu"}
    <3>1. /\ run.pc = "finish_unlink" /\ run' = [run EXCEPT !.pc = "reboot"]
          /\ UNCHANGED mode /\ faults' = faults \cup {"unlinkFailed"}
      BY <1>24, <2>3 DEF FinishUnlinkFail, FinishReturn
    <3>2. QED
      BY <2>3, <3>1 DEF Callers
  <2>4. QED
    BY <2>1, <2>2, <2>3
<1>25. CASE MenuReboot
  BY <1>25 DEF MenuReboot
<1>26. CASE MenuWipe
  BY <1>26 DEF MenuWipe
<1>27. CASE MenuInstall
  BY <1>27 DEF MenuInstall
<1>28. CASE MenuRebootDeveloper
  BY <1>28 DEF MenuRebootDeveloper
<1>29. CASE MenuPowerOff
  BY <1>29 DEF MenuPowerOff, PowerOn, Cleared
<1>30. CASE Firmware
  BY <1>30 DEF Firmware, BootRecovery, ForwardedArgs
<1>31. CASE WriteUpdateBegin
  BY <1>31 DEF WriteUpdateBegin, Raw
<1>32. CASE WriteUpdateEnd
  BY <1>32 DEF WriteUpdateEnd, Image, Update, ForwardedArgs
<1>33. CASE WriteUpdateFail
  BY <1>33 DEF WriteUpdateFail, AfterWriteFailed, Image
<1>34. CASE WriteUpdateImpossible
  BY <1>34 DEF WriteUpdateImpossible, AfterWriteFailed
<1>35. CASE Reboot
  BY <1>35 DEF Reboot, PowerOn, Cleared
<1>36. CASE PowerLoss
  BY <1>36 DEF PowerLoss, PowerOn, Cleared
<1>37. CASE ChordReboot
  BY <1>37 DEF ChordReboot, PowerOn, Cleared
<1>38. CASE BootloaderUpdate
  BY <1>38 DEF BootloaderUpdate, BootRecovery
<1>39. CASE BootRecoveryImage
  BY <1>39 DEF BootRecoveryImage
<1>40. CASE BootMain
  BY <1>40 DEF BootMain
<1>41. CASE MainUses
  BY <1>41 DEF MainUses
<1>42. CASE MainRequest
  BY <1>42 DEF MainRequest, Clean
<1>43. CASE UNCHANGED vars
  BY <1>43 DEF vars
<1>44. QED
  BY <1>1, <1>2, <1>3, <1>4, <1>5, <1>6, <1>7, <1>8, <1>9, <1>10, <1>11,
     <1>12, <1>13, <1>14, <1>15, <1>16, <1>17, <1>18, <1>19, <1>20, <1>21,
     <1>22, <1>23, <1>24, <1>25, <1>26, <1>27, <1>28, <1>29, <1>30, <1>31,
     <1>32, <1>33, <1>34, <1>35, <1>36, <1>37, <1>38, <1>39, <1>40, <1>41,
     <1>42, <1>43
     DEF Next, Protocol, Failure, User, Boot

\* A reset goes through its roots one after the other.
LEMMA WipeStep ==
  TypeOK /\ Control /\ Reasons /\ WipeUnderWay /\ [Next]_vars => WipeUnderWay'
<1> SUFFICES ASSUME TypeOK, Control, Reasons, WipeUnderWay, [Next]_vars
             PROVE  WipeUnderWay'
  OBVIOUS
<1>a. /\ run \in Runs /\ bcb \in Messages /\ config \in AllConfigs
      /\ cache \in [state : {"fs", "raw", "image"}, command : SUBSET Options]
  BY ConstantsAssumption DEF TypeOK, FirmwareInv
<1> USE <1>a DEF WipeUnderWay, WipeDone, Reasons, WipesCache, WipesData,
        Installs, NextRoot, Formatted, Raw, Control, Running, Stay, Smooth, Mishap, Choice, flash,
        ghost, Runs, Messages, AllConfigs, Excused, Cleared, BootRecovery,
        Update, PowerOn
<1>1. CASE GetArgs
  BY <1>1 DEF GetArgs, WithArgs, BootRecovery
<1>2. CASE GetArgsUnreadable
  BY <1>2 DEF GetArgsUnreadable, WithArgs, BootRecovery
<1>3. CASE GetArgsUnopened
  BY <1>3 DEF GetArgsUnopened, WithArgs, BootRecovery
<1>4. CASE SetBcbErase
  BY <1>4 DEF SetBcbErase, Cleared
<1>5. CASE SetBcbWrite
  BY <1>5 DEF SetBcbWrite, AfterSet, Arming
<1>6. CASE SetBcbFail
  BY <1>6 DEF SetBcbFail, AfterSet, Arming
<1>7. CASE Dispatch
  BY <1>7 DEF Dispatch
<1>8. CASE EraseBegin
  BY <1>8 DEF EraseBegin, Raw, Formatted
<1>9. CASE EraseEnd
  BY <1>9 DEF EraseEnd, AfterRoot, Formatted, NextRoot
<1>10. CASE EraseFail
  BY <1>10 DEF EraseFail, AfterRoot, NextRoot
<1>11. CASE EraseIgnored
  BY <1>11 DEF EraseIgnored, AfterRoot, NextRoot
<1>12. CASE EraseSkip
  BY <1>12 DEF EraseSkip, AfterRoot, NextRoot
<1>13. CASE InstallWrite
  BY <1>13 DEF InstallWrite
<1>14. CASE InstallRemember
  BY <1>14 DEF InstallRemember
<1>15. CASE InstallSucceed
  BY <1>15 DEF InstallSucceed, AfterInstall
<1>16. CASE InstallRefused
  BY <1>16 DEF InstallRefused, AfterInstall
<1>17. CASE InstallFail
  BY <1>17 DEF InstallFail, AfterInstall
<1>18. CASE Status
  <2>1. CASE run' = [run EXCEPT !.pc = "finish", !.caller = "menu"]
    BY <1>18, <2>1 DEF Status
  <2>2. CASE run' = [run EXCEPT !.pc = "firmware", !.caller = "firmware"]
    BY <1>18, <2>2 DEF Status
  <2>3. QED
    BY <1>18, <2>1, <2>2 DEF Status
<1>19. CASE FinishNotes
  BY <1>19 DEF FinishNotes
<1>20. CASE FinishNotesFail
  BY <1>20 DEF FinishNotesFail
<1>21. CASE FinishBcb
  BY <1>21 DEF FinishBcb, Cleared
<1>22. CASE FinishBcbFail
  BY <1>22 DEF FinishBcbFail
<1>23. CASE FinishUnlink
  BY <1>23 DEF FinishUnlink, FinishReturn, PowerOn, Cleared
<1>24. CASE FinishUnlinkFail
  BY <1>24 DEF FinishUnlinkFail, FinishReturn, PowerOn, Cleared
<1>25. CASE MenuReboot
  BY <1>25 DEF MenuReboot
<1>26. CASE MenuWipe
  BY <1>26 DEF MenuWipe
<1>27. CASE MenuInstall
  BY <1>27 DEF MenuInstall
<1>28. CASE MenuRebootDeveloper
  BY <1>28 DEF MenuRebootDeveloper
<1>29. CASE MenuPowerOff
  BY <1>29 DEF MenuPowerOff, PowerOn, Cleared
<1>30. CASE Firmware
  BY <1>30 DEF Firmware, BootRecovery, ForwardedArgs
<1>31. CASE WriteUpdateBegin
  BY <1>31 DEF WriteUpdateBegin, Raw
<1>32. CASE WriteUpdateEnd
  BY <1>32 DEF WriteUpdateEnd, Image, Update, ForwardedArgs
<1>33. CASE WriteUpdateFail
  BY <1>33 DEF WriteUpdateFail, AfterWriteFailed, Image
<1>34. CASE WriteUpdateImpossible
  BY <1>34 DEF WriteUpdateImpossible, AfterWriteFailed
<1>35. CASE Reboot
  BY <1>35 DEF Reboot, PowerOn, Cleared
<1>36. CASE PowerLoss
  BY <1>36 DEF PowerLoss, PowerOn, Cleared
<1>37. CASE ChordReboot
  BY <1>37 DEF ChordReboot, PowerOn, Cleared
<1>38. CASE BootloaderUpdate
  BY <1>38 DEF BootloaderUpdate, BootRecovery
<1>39. CASE BootRecoveryImage
  BY <1>39 DEF BootRecoveryImage
<1>40. CASE BootMain
  BY <1>40 DEF BootMain
<1>41. CASE MainUses
  BY <1>41 DEF MainUses
<1>42. CASE MainRequest
  BY <1>42 DEF MainRequest, Clean
<1>43. CASE UNCHANGED vars
  BY <1>43 DEF vars
<1>44. QED
  BY <1>1, <1>2, <1>3, <1>4, <1>5, <1>6, <1>7, <1>8, <1>9, <1>10, <1>11,
     <1>12, <1>13, <1>14, <1>15, <1>16, <1>17, <1>18, <1>19, <1>20, <1>21,
     <1>22, <1>23, <1>24, <1>25, <1>26, <1>27, <1>28, <1>29, <1>30, <1>31,
     <1>32, <1>33, <1>34, <1>35, <1>36, <1>37, <1>38, <1>39, <1>40, <1>41,
     <1>42, <1>43
     DEF Next, Protocol, Failure, User, Boot

\* /cache is mended in the boot that broke it, or in the next.
LEMMA MendedStep ==
  FirmwareInv /\ Reasons /\ Armed /\ CacheMended /\ [Next]_vars => CacheMended'
<1> SUFFICES ASSUME FirmwareInv, Reasons, Armed, CacheMended, [Next]_vars
             PROVE  CacheMended'
  OBVIOUS
<1>a. /\ run \in Runs /\ bcb \in Messages /\ config \in AllConfigs
      /\ cache \in [state : {"fs", "raw", "image"}, command : SUBSET Options]
  BY ConstantsAssumption DEF TypeOK, FirmwareInv
<1> USE <1>a DEF CacheMended, NoIntent, FirmwareInv, Message, ImageFirst,
        Reasons, Armed, Standing, Restarting, WipesCache, WipesData, Installs,
        ForwardedArgs, NextRoot, Control, Running, Stay, Smooth, Mishap, Choice, flash,
        ghost, Runs, Messages, AllConfigs, Excused, Cleared, BootRecovery,
        Update, PowerOn
<1>1. CASE GetArgs
  BY <1>1 DEF GetArgs, WithArgs, BootRecovery
<1>2. CASE GetArgsUnreadable
  BY <1>2 DEF GetArgsUnreadable, WithArgs, BootRecovery
<1>3. CASE GetArgsUnopened
  BY <1>3 DEF GetArgsUnopened, WithArgs, BootRecovery
<1>4. CASE SetBcbErase
  BY <1>4 DEF SetBcbErase, Cleared
<1>5. CASE SetBcbWrite
  BY <1>5 DEF SetBcbWrite, AfterSet, Arming
<1>6. CASE SetBcbFail
  BY <1>6 DEF SetBcbFail, AfterSet, Arming
<1>7. CASE Dispatch
  BY <1>7 DEF Dispatch
<1>8. CASE EraseBegin
  BY <1>8 DEF EraseBegin, Raw, Formatted
<1>9. CASE EraseEnd
  BY <1>9 DEF EraseEnd, AfterRoot, Formatted, NextRoot
<1>10. CASE EraseFail
  BY <1>10 DEF EraseFail, AfterRoot, NextRoot
<1>11. CASE EraseIgnored
  BY <1>11 DEF EraseIgnored, AfterRoot, NextRoot
<1>12. CASE EraseSkip
  BY <1>12 DEF EraseSkip, AfterRoot, NextRoot
<1>13. CASE InstallWrite
  BY <1>13 DEF InstallWrite
<1>14. CASE InstallRemember
  BY <1>14 DEF InstallRemember
<1>15. CASE InstallSucceed
  BY <1>15 DEF InstallSucceed, AfterInstall
<1>16. CASE InstallRefused
  BY <1>16 DEF InstallRefused, AfterInstall
<1>17. CASE InstallFail
  BY <1>17 DEF InstallFail, AfterInstall
<1>18. CASE Status
  <2>1. CASE run' = [run EXCEPT !.pc = "finish", !.caller = "menu"]
    BY <1>18, <2>1 DEF Status
  <2>2. CASE run' = [run EXCEPT !.pc = "firmware", !.caller = "firmware"]
    BY <1>18, <2>2 DEF Status
  <2>3. QED
    BY <1>18, <2>1, <2>2 DEF Status
<1>19. CASE FinishNotes
  <2>1. /\ run.pc = "finish" /\ run' = [run EXCEPT !.pc = "finish_bcb"]
        /\ UNCHANGED <<mode, bcb, cache, faults>>
    BY <1>19 DEF FinishNotes
  <2>2. QED
    BY <2>1
<1>20. CASE FinishNotesFail
  BY <1>20 DEF FinishNotesFail
<1>21. CASE FinishBcb
  BY <1>21 DEF FinishBcb, Cleared
<1>22. CASE FinishBcbFail
  BY <1>22 DEF FinishBcbFail
<1>23. CASE FinishUnlink
  BY <1>23 DEF FinishUnlink, FinishReturn, PowerOn, Cleared
<1>24. CASE FinishUnlinkFail
  BY <1>24 DEF FinishUnlinkFail, FinishReturn, PowerOn, Cleared
<1>25. CASE MenuReboot
  BY <1>25 DEF MenuReboot
<1>26. CASE MenuWipe
  BY <1>26 DEF MenuWipe
<1>27. CASE MenuInstall
  BY <1>27 DEF MenuInstall
<1>28. CASE MenuRebootDeveloper
  BY <1>28 DEF MenuRebootDeveloper
<1>29. CASE MenuPowerOff
  BY <1>29 DEF MenuPowerOff, PowerOn, Cleared
<1>30. CASE Firmware
  BY <1>30 DEF Firmware, BootRecovery, ForwardedArgs
<1>31. CASE WriteUpdateBegin
  BY <1>31 DEF WriteUpdateBegin, Raw
<1>32. CASE WriteUpdateEnd
  BY <1>32 DEF WriteUpdateEnd, Image, Update, ForwardedArgs
<1>33. CASE WriteUpdateFail
  BY <1>33 DEF WriteUpdateFail, AfterWriteFailed, Image
<1>34. CASE WriteUpdateImpossible
  BY <1>34 DEF WriteUpdateImpossible, AfterWriteFailed
<1>35. CASE Reboot
  BY <1>35 DEF Reboot, PowerOn, Cleared
<1>36. CASE PowerLoss
  BY <1>36 DEF PowerLoss, PowerOn, Cleared
<1>37. CASE ChordReboot
  BY <1>37 DEF ChordReboot, PowerOn, Cleared
<1>38. CASE BootloaderUpdate
  BY <1>38 DEF BootloaderUpdate, BootRecovery
<1>39. CASE BootRecoveryImage
  BY <1>39 DEF BootRecoveryImage
<1>40. CASE BootMain
  BY <1>40 DEF BootMain
<1>41. CASE MainUses
  BY <1>41 DEF MainUses
<1>42. CASE MainRequest
  BY <1>42 DEF MainRequest, Clean
<1>43. CASE UNCHANGED vars
  BY <1>43 DEF vars
<1>44. QED
  BY <1>1, <1>2, <1>3, <1>4, <1>5, <1>6, <1>7, <1>8, <1>9, <1>10, <1>11,
     <1>12, <1>13, <1>14, <1>15, <1>16, <1>17, <1>18, <1>19, <1>20, <1>21,
     <1>22, <1>23, <1>24, <1>25, <1>26, <1>27, <1>28, <1>29, <1>30, <1>31,
     <1>32, <1>33, <1>34, <1>35, <1>36, <1>37, <1>38, <1>39, <1>40, <1>41,
     <1>42, <1>43
     DEF Next, Protocol, Failure, User, Boot

\* The intent changes hands.
LEMMA IntentStep ==
  FirmwareInv /\ Armed /\ CacheMended /\ IntentCarried /\ [Next]_vars => IntentCarried'
<1> SUFFICES ASSUME FirmwareInv, Armed, CacheMended, IntentCarried, [Next]_vars
             PROVE  IntentCarried'
  OBVIOUS
<1>a. /\ run \in Runs /\ bcb \in Messages /\ config \in AllConfigs
      /\ cache \in [state : {"fs", "raw", "image"}, command : SUBSET Options]
  BY ConstantsAssumption DEF TypeOK, FirmwareInv
<1> USE <1>a DEF IntentCarried, NextArgs, CacheMended, NoIntent, FirmwareInv, Message,
        ImageFirst, Armed, ForwardedArgs, Restarting, Formatted, Control, Running, Stay, Smooth, Mishap, Choice, flash,
        ghost, Runs, Messages, AllConfigs, Excused, Cleared, BootRecovery,
        Update, PowerOn
<1>1. CASE GetArgs
  BY <1>1 DEF GetArgs, WithArgs, BootRecovery
<1>2. CASE GetArgsUnreadable
  BY <1>2 DEF GetArgsUnreadable, WithArgs, BootRecovery
<1>3. CASE GetArgsUnopened
  BY <1>3 DEF GetArgsUnopened, WithArgs, BootRecovery
<1>4. CASE SetBcbErase
  BY <1>4 DEF SetBcbErase, Cleared
<1>5. CASE SetBcbWrite
  BY <1>5 DEF SetBcbWrite, AfterSet, Arming
<1>6. CASE SetBcbFail
  BY <1>6 DEF SetBcbFail, AfterSet, Arming
<1>7. CASE Dispatch
  BY <1>7 DEF Dispatch
<1>8. CASE EraseBegin
  BY <1>8 DEF EraseBegin, Raw, Formatted
<1>9. CASE EraseEnd
  BY <1>9 DEF EraseEnd, AfterRoot, Formatted, NextRoot
<1>10. CASE EraseFail
  BY <1>10 DEF EraseFail, AfterRoot, NextRoot
<1>11. CASE EraseIgnored
  BY <1>11 DEF EraseIgnored, AfterRoot, NextRoot
<1>12. CASE EraseSkip
  BY <1>12 DEF EraseSkip, AfterRoot, NextRoot
<1>13. CASE InstallWrite
  BY <1>13 DEF InstallWrite
<1>14. CASE InstallRemember
  BY <1>14 DEF InstallRemember
<1>15. CASE InstallSucceed
  BY <1>15 DEF InstallSucceed, AfterInstall
<1>16. CASE InstallRefused
  BY <1>16 DEF InstallRefused, AfterInstall
<1>17. CASE InstallFail
  BY <1>17 DEF InstallFail, AfterInstall
<1>18. CASE Status
  <2>1. CASE run' = [run EXCEPT !.pc = "finish", !.caller = "menu"]
    BY <1>18, <2>1 DEF Status
  <2>2. CASE run' = [run EXCEPT !.pc = "firmware", !.caller = "firmware"]
    BY <1>18, <2>2 DEF Status
  <2>3. QED
    BY <1>18, <2>1, <2>2 DEF Status
<1>19. CASE FinishNotes
  <2>1. /\ run.pc = "finish" /\ run' = [run EXCEPT !.pc = "finish_bcb"]
        /\ UNCHANGED <<mode, reason, bcb, cache, config, faults>>
    BY <1>19 DEF FinishNotes
  <2>2. CASE run.caller = "firmware" /\ cache.state = "fs"
    BY <1>19, <2>1, <2>2 DEF FinishNotes
  <2>3. CASE ~(run.caller = "firmware" /\ cache.state = "fs")
    <3>1. intent' = intent
      BY <1>19, <2>3 DEF FinishNotes
    <3>2. QED
      BY <2>1, <2>3, <3>1 DEF Callers
  <2>4. QED
    BY <2>2, <2>3
<1>20. CASE FinishNotesFail
  BY <1>20 DEF FinishNotesFail
<1>21. CASE FinishBcb
  BY <1>21 DEF FinishBcb, Cleared
<1>22. CASE FinishBcbFail
  BY <1>22 DEF FinishBcbFail
<1>23. CASE FinishUnlink
  BY <1>23 DEF FinishUnlink, FinishReturn, PowerOn, Cleared
<1>24. CASE FinishUnlinkFail
  BY <1>24 DEF FinishUnlinkFail, FinishReturn, PowerOn, Cleared
<1>25. CASE MenuReboot
  BY <1>25 DEF MenuReboot
<1>26. CASE MenuWipe
  BY <1>26 DEF MenuWipe
<1>27. CASE MenuInstall
  BY <1>27 DEF MenuInstall
<1>28. CASE MenuRebootDeveloper
  BY <1>28 DEF MenuRebootDeveloper
<1>29. CASE MenuPowerOff
  BY <1>29 DEF MenuPowerOff, PowerOn, Cleared
<1>30. CASE Firmware
  BY <1>30 DEF Firmware, BootRecovery, ForwardedArgs
<1>31. CASE WriteUpdateBegin
  BY <1>31 DEF WriteUpdateBegin, Raw
<1>32. CASE WriteUpdateEnd
  BY <1>32 DEF WriteUpdateEnd, Image, Update, ForwardedArgs
<1>33. CASE WriteUpdateFail
  BY <1>33 DEF WriteUpdateFail, AfterWriteFailed, Image
<1>34. CASE WriteUpdateImpossible
  BY <1>34 DEF WriteUpdateImpossible, AfterWriteFailed
<1>35. CASE Reboot
  BY <1>35 DEF Reboot, PowerOn, Cleared
<1>36. CASE PowerLoss
  BY <1>36 DEF PowerLoss, PowerOn, Cleared
<1>37. CASE ChordReboot
  BY <1>37 DEF ChordReboot, PowerOn, Cleared
<1>38. CASE BootloaderUpdate
  BY <1>38 DEF BootloaderUpdate, BootRecovery
<1>39. CASE BootRecoveryImage
  BY <1>39 DEF BootRecoveryImage
<1>40. CASE BootMain
  BY <1>40 DEF BootMain
<1>41. CASE MainUses
  BY <1>41 DEF MainUses
<1>42. CASE MainRequest
  BY <1>42 DEF MainRequest, Clean
<1>43. CASE UNCHANGED vars
  BY <1>43 DEF vars
<1>44. QED
  BY <1>1, <1>2, <1>3, <1>4, <1>5, <1>6, <1>7, <1>8, <1>9, <1>10, <1>11,
     <1>12, <1>13, <1>14, <1>15, <1>16, <1>17, <1>18, <1>19, <1>20, <1>21,
     <1>22, <1>23, <1>24, <1>25, <1>26, <1>27, <1>28, <1>29, <1>30, <1>31,
     <1>32, <1>33, <1>34, <1>35, <1>36, <1>37, <1>38, <1>39, <1>40, <1>41,
     <1>42, <1>43
     DEF Next, Protocol, Failure, User, Boot

-----------------------------------------------------------------------------
(* The theorems                                                            *)

\* However recovery is left with an image in memory, the bootloader has been told
\* of it, writing it or its message failed, power was lost, or the owner left by
\* one of the ways that do not look for it: the developer menu, power off and the
\* key chord.
THEOREM FirmwareNeverDropped == Spec => FirmwareNotDropped
<1>1. Init => FirmwareKept
  BY DEF Init, FirmwareKept, PowerOn
<1>2. FirmwareInv => TypeOK /\ Control
  BY DEF FirmwareInv
<1>3. FirmwareInv /\ FirmwareKept /\ [Next]_vars =>
        [mode = "recovery" /\ mode' # "recovery" /\ run.pending # "none" =>
           \/ bcb.command = "update"
           \/ Excused({"bcbFailed", "imageFailed"})
           \/ PowerLoss
           \/ run.caller = "developer" \/ MenuPowerOff \/ ChordReboot]_vars
  <2> SUFFICES ASSUME FirmwareInv, FirmwareKept, Next,
                      mode = "recovery", mode' # "recovery",
                      run.pending # "none", run.caller # "developer",
                      ~PowerLoss, ~MenuPowerOff, ~ChordReboot
               PROVE  \/ bcb.command = "update"
                      \/ Excused({"bcbFailed", "imageFailed"})
    OBVIOUS
  <2>1. Reboot
    <3> USE DEF Smooth, Stay, flash, ghost
    <3>1. mode' = mode \/ ~FinishReturn
      BY DEF FinishReturn
    <3>2. QED
      BY <3>1 DEF Next, Protocol, Failure, User, Boot, GetArgs,
         GetArgsUnreadable, GetArgsUnopened, SetBcbErase, SetBcbWrite,
         SetBcbFail, Dispatch, EraseBegin, EraseEnd, EraseFail, EraseIgnored,
         EraseSkip, InstallWrite, InstallRemember, InstallSucceed,
         InstallRefused, InstallFail, Status, FinishNotes, FinishNotesFail,
         FinishBcb, FinishBcbFail, FinishUnlink, FinishUnlinkFail, MenuReboot,
         MenuWipe, MenuInstall, MenuRebootDeveloper, Firmware,
         WriteUpdateBegin, WriteUpdateEnd, WriteUpdateFail,
         WriteUpdateImpossible, BootloaderUpdate, BootRecoveryImage, BootMain,
         MainUses, MainRequest
  <2>2. run.pc = "reboot" /\ run.caller = "firmware"
    BY <2>1 DEF Reboot, Running, FirmwareInv, Control
  <2>3. QED
    BY <2>2 DEF FirmwareKept
<1>4. QED
  BY <1>1, <1>2, <1>3, KeptStep, FirmwareInvariant, PTL
     DEF Spec, FirmwareNotDropped

\* main(), option 'w': a reset that is reported as done has emptied /data and
\* /cache, unless an eMMC build skipped a root it could not mount, or nobody
\* looked at the error: of a block that was not erased, of files not deleted.
THEOREM ResetIsDone == Spec => []WipeDone
<1>1. Init => WipeUnderWay
  BY DEF Init, WipeUnderWay, WipeDone, PowerOn, Running
<1>2. RestartInv => TypeOK /\ Control /\ Reasons
  BY DEF RestartInv, FirmwareInv
<1>3. WipeUnderWay => WipeDone
  BY DEF WipeUnderWay
<1>4. QED
  BY <1>1, <1>2, <1>3, WipeStep, RestartInvariant, PTL DEF Spec

\* finish_recovery(send_intent): the main system that waits for the intent gets
\* it, also when a firmware update comes in between, unless recovery was
\* interrupted, the message was not read or written, /cache not formatted, or
\* the command file or the intent file could not be opened.
THEOREM IntentArrives == Spec => []IntentDelivered
<1>1. Init => CacheMended /\ IntentCarried
  BY DEF Init, CacheMended, IntentCarried, Formatted
<1>2. RestartInv => FirmwareInv /\ Reasons /\ Armed
  BY DEF RestartInv
<1>3. IntentCarried => IntentDelivered
  BY DEF IntentCarried, IntentDelivered, NoIntent
<1>4. QED
  BY <1>1, <1>2, <1>3, MendedStep, IntentStep, RestartInvariant, PTL DEF Spec

=============================================================================
