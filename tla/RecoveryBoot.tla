---------------------------- MODULE RecoveryBoot ----------------------------
(***************************************************************************)
(* The restart protocol of recovery: main(), get_args(), finish_recovery(),*)
(* erase_root() and prompt_and_wait() of recovery.c together with          *)
(* maybe_install_firmware_update() of firmware.c and the bootloader message*)
(* (BCB) and the update image of bootloader.c.                             *)
(*                                                                         *)
(* Flash survives a power loss, the memory of the recovery process does    *)
(* not.  Every step below is one flash write (or one decision) of the      *)
(* code, and power may go between any two of them.  The bootloader and the *)
(* main system are not in this repository: they are modelled from the flow *)
(* comments of firmware.c and recovery.c.                                  *)
(***************************************************************************)
EXTENDS Naturals

CONSTANTS
  Configs,     \* the builds (USES_NAND_MTD or eMMC) and packages considered
  Requests,    \* the command lines the main system may leave in COMMAND_FILE
  MaxMishaps,  \* bound: power losses and I/O errors in a behaviour
  MaxChoices   \* bound: requests and menu items the user asks for

Options == {"wipe_data", "wipe_cache", "update_package", "send_intent"}

AllConfigs == [nand : BOOLEAN, amend : BOOLEAN, firmware : BOOLEAN]

ASSUME ConstantsAssumption ==
  /\ Configs \subseteq AllConfigs
  /\ Requests \subseteq SUBSET Options
  /\ MaxMishaps \in Nat
  /\ MaxChoices \in Nat

VARIABLES
  mode,     \* who has the processor: bootloader, recovery or main system
  reason,   \* the reset reason "reboot recovery" leaves for the bootloader
  bcb,      \* MISC: the bootloader message
  cache,    \* CACHE: its state, and the command file when it has one
  data,     \* DATA: user data, a half-done format, or freshly formatted
  system,   \* SYSTEM: before, in the middle of, or after a package install
  run,      \* the memory of the recovery process
  config,   \* the build, and the package: kind of script, firmware image
  faults,   \* history: what went wrong since the main system last ran clean
  wanted,   \* history: a data wipe was asked for since the last one
  intent,   \* history: the intent the main system waits for
  mishaps, choices

flash == <<bcb, cache, data, system>>
ghost == <<faults, wanted, intent>>
vars == <<mode, reason, flash, run, config, ghost, mishaps, choices>>

-----------------------------------------------------------------------------
(* Messages, partitions and the recovery process *)

Commands == {"none", "boot-recovery", "update"}
Messages == [command : Commands, recovery : SUBSET Options]

\* A zeroed message and an erased (0xFF) page read alike: no command, no
\* arguments.
Cleared == [command |-> "none", recovery |-> {}]
\* Mutant of BootRecovery: the program's name goes to the command field.
SwappedFields(args) == [command |-> "recovery", recovery |-> args]

BootRecovery(args) == [command |-> "boot-recovery", recovery |-> args]
Update(args) == [command |-> "update", recovery |-> args]

\* An unreadable file system shows no command file.
Formatted == [state |-> "fs", command |-> {}]
Raw == [state |-> "raw", command |-> {}]
Image == [state |-> "image", command |-> {}]

Steps == {"get_args", "set_bcb", "bcb_erased", "dispatch", "erase", "erasing",
          "install", "installing", "remembered", "status", "prompt",
          "finish", "finish_bcb", "finish_unlink",
          "firmware", "write_update", "writing", "reboot"}
Callers == {"main", "menu", "developer", "firmware"}
Runs == [pc : Steps, caller : Callers, status : {"success", "error"},
         opts : SUBSET Options, msg : Messages,
         todo : SUBSET {"data", "cache"},
         pending : {"none", "early", "complete"}]

\* main() as the bootloader starts it: firmware.c's statics are NULL.
PowerOn == [pc |-> "get_args", caller |-> "main", status |-> "success",
            opts |-> {}, msg |-> Cleared, todo |-> {}, pending |-> "none"]

Init ==
  /\ mode = "main" /\ reason = "none"
  /\ bcb = Cleared /\ cache = Formatted /\ data = "user" /\ system = "old"
  /\ run = PowerOn
  /\ config \in Configs
  /\ faults = {} /\ wanted = FALSE /\ intent = "none"
  /\ mishaps = 0 /\ choices = 0

Running(pc) == mode = "recovery" /\ run.pc = pc

Mishap(f) ==
  /\ mishaps < MaxMishaps
  /\ mishaps' = mishaps + 1
  /\ faults' = faults \cup {f}

Choice ==
  /\ choices < MaxChoices
  /\ choices' = choices + 1

\* Steps of recovery keep the processor and the configuration; the ones that go
\* well leave no trace in the history.
Stay == UNCHANGED <<mode, reason, config, wanted, choices>>
Smooth == Stay /\ UNCHANGED <<faults, mishaps>>

-----------------------------------------------------------------------------
(* get_args: the message wins over the command file, and what was found is *)
(* written back so that a restart finds it again.  Only a NAND build       *)
(* compiles the calls that read and write the message.                     *)

\* Mutant of WithArgs: the arguments are not written back to the message.
NotWrittenBack(args) ==
  [run EXCEPT !.opts = args, !.pc = "dispatch"]

WithArgs(args) ==
  [run EXCEPT !.opts = args, !.msg = BootRecovery(args),
              !.pc = IF config.nand THEN "set_bcb" ELSE "dispatch"]

GetArgs ==
  /\ Running("get_args")
  /\ LET fromBoot == IF config.nand THEN bcb.recovery ELSE {}
     IN  run' = WithArgs(IF fromBoot # {} THEN fromBoot ELSE cache.command)
  /\ Smooth /\ UNCHANGED <<flash, intent>>

\* get_bootloader_message() fails and leaves a zeroed structure; the command
\* file may not open either.
GetArgsUnreadable ==
  /\ Running("get_args") /\ config.nand
  /\ \E args \in {cache.command, {}} : run' = WithArgs(args)
  /\ Mishap("bcbFailed") /\ Stay /\ UNCHANGED <<flash, intent>>

\* COMMAND_FILE is there, but /cache cannot be mounted or the file not opened:
\* recovery goes on without arguments.
GetArgsUnopened ==
  /\ Running("get_args")
  /\ cache.state = "fs" /\ (config.nand => bcb.recovery = {})
  /\ run' = WithArgs({})
  /\ Mishap("cacheFailed") /\ Stay /\ UNCHANGED <<flash, intent>>

(* set_bootloader_message(run.msg), for get_args and for steps 8a and 8c.  *)

Arming == run.msg.command = "boot-recovery"

AfterSet(ok) ==
  IF run.caller = "main"
  THEN [run EXCEPT !.pc = "dispatch"]              \* result ignored
  ELSE [run EXCEPT !.pc = IF ok THEN IF Arming THEN "write_update" ELSE "reboot"
                                ELSE IF Arming THEN "finish" ELSE "erase",
                   !.todo = IF ok \/ Arming THEN {} ELSE {"cache"}]

\* MTD: write_block() erases the block, then programs it ...
SetBcbErase ==
  /\ Running("set_bcb") /\ config.nand
  /\ bcb' = Cleared
  /\ run' = [run EXCEPT !.pc = "bcb_erased"]
  /\ Smooth /\ UNCHANGED <<cache, data, system, intent>>

\* ... while the eMMC build overwrites it in one fwrite().
SetBcbWrite ==
  /\ Running(IF config.nand THEN "bcb_erased" ELSE "set_bcb")
  /\ bcb' = run.msg
  /\ run' = AfterSet(TRUE)
  /\ Smooth /\ UNCHANGED <<cache, data, system, intent>>

SetBcbFail ==
  /\ Running("set_bcb") \/ Running("bcb_erased")
  /\ run' = AfterSet(FALSE)
  /\ Mishap("bcbFailed") /\ Stay /\ UNCHANGED <<flash, intent>>

\* Mutant of Dispatch: option 'c' falls through to the case of option 'w'.
DispatchFallThrough ==
  /\ Running("dispatch")
  /\ run' = IF run.opts \cap {"wipe_data", "wipe_cache"} # {}
            THEN [run EXCEPT !.pc = "erase", !.todo = {"data", "cache"}]
            ELSE [run EXCEPT !.pc = "status", !.status = "error"]
  /\ Smooth /\ UNCHANGED <<flash, intent>>

\* main(): an update package takes precedence over the wipes.
Dispatch ==
  /\ Running("dispatch")
  /\ run' = IF "update_package" \in run.opts
              THEN [run EXCEPT !.pc = "install"]
            ELSE IF "wipe_data" \in run.opts
              THEN [run EXCEPT !.pc = "erase", !.todo = {"data", "cache"}]
            ELSE IF "wipe_cache" \in run.opts
              THEN [run EXCEPT !.pc = "erase", !.todo = {"cache"}]
            ELSE [run EXCEPT !.pc = "status", !.status = "error"]
  /\ Smooth /\ UNCHANGED <<flash, intent>>

-----------------------------------------------------------------------------
(* erase_root on each root of run.todo, DATA: before CACHE:.  On NAND the  *)
(* blocks are erased under an unmounted file system; by default the eMMC   *)
(* build deletes the files of a mounted one (format_non_mtd_device).       *)

NextRoot == IF "data" \in run.todo THEN "data" ELSE "cache"

\* Mutant of AfterRoot: main() ignores what erase_root returns.
AfterRootIgnored(status) ==
  [run EXCEPT !.todo = @ \ {NextRoot},
              !.pc = IF run.todo # {NextRoot} THEN "erase"
                     ELSE IF run.caller = "main" THEN "status" ELSE "finish"]

AfterRoot(status) ==
  [run EXCEPT !.todo = @ \ {NextRoot},
              !.pc = IF run.todo # {NextRoot} THEN "erase"
                     ELSE IF run.caller = "main" THEN "status" ELSE "finish",
              !.status = IF run.caller = "main" THEN status ELSE @]

EraseBegin ==
  /\ Running("erase")
  /\ run' = [run EXCEPT !.pc = "erasing"]
  /\ IF NextRoot = "data"
     THEN data' = "partial" /\ UNCHANGED cache
     ELSE /\ cache' \in IF config.nand THEN {Raw} ELSE {cache, Formatted}
          /\ UNCHANGED data
  /\ Smooth /\ UNCHANGED <<bcb, system, intent>>

EraseEnd ==
  /\ Running("erasing")
  /\ run' = AfterRoot(run.status)
  /\ IF NextRoot = "data"
     THEN data' = "empty" /\ wanted' = FALSE /\ UNCHANGED cache
     ELSE cache' = Formatted /\ UNCHANGED <<data, wanted>>
  /\ UNCHANGED <<mode, reason, bcb, system, config, faults, intent, mishaps,
                 choices>>

\* format_root_device() returns -1: a root cannot be unmounted or found, which
\* an eMMC build looks at where its partitions are g_mmc_device, or a NAND
\* build gives up its erase.
EraseFail ==
  /\ Running("erase") \/ (config.nand /\ Running("erasing"))
  /\ run' = AfterRoot("error")
  /\ Mishap("formatFailed") /\ Stay /\ UNCHANGED <<flash, intent>>

\* A block cannot be erased: mtd_erase_blocks() prints that and goes on.  Files
\* cannot be deleted, or rm not be run at all: format_non_mtd_device() does not
\* look at the status of __system(), and returns 0.
EraseIgnored ==
  /\ Running("erasing") \/ (~config.nand /\ Running("erase"))
  /\ run' = AfterRoot(run.status)
  /\ Mishap("eraseIgnored") /\ Stay /\ UNCHANGED <<flash, intent>>

\* format_non_mtd_device() cannot mount the root: "Skipping format...", 0.
EraseSkip ==
  /\ ~config.nand /\ Running("erase")
  /\ run' = AfterRoot(run.status)
  /\ Mishap("formatSkipped") /\ Stay /\ UNCHANGED <<flash, intent>>

-----------------------------------------------------------------------------
(* install_package: an amend script runs in this process and remembers the *)
(* firmware image when its write_radio_image command runs; the update      *)
(* binary's image is remembered after the child has exited with 0.         *)

AfterInstall(status, pending) ==
  [run EXCEPT !.pc = IF run.caller = "main" THEN "status" ELSE "finish",
              !.status = IF run.caller = "main" THEN status ELSE @,
              !.pending = pending]

InstallWrite ==
  /\ Running("install")
  /\ system' = "mixed"
  /\ run' = [run EXCEPT !.pc = "installing"]
  /\ Smooth /\ UNCHANGED <<bcb, cache, data, intent>>

\* Mutant of InstallRemember: try_update_binary remembers the image when it
\* reads the firmware command from the pipe.
RememberWhenRead ==
  /\ Running("installing") /\ config.firmware /\ run.pending = "none"
  /\ run' = [run EXCEPT !.pc = "remembered", !.pending = "early"]
  /\ Smooth /\ UNCHANGED <<flash, intent>>

\* cmd_write_firmware_image; remember_firmware_update takes only one image.
InstallRemember ==
  /\ Running("installing") /\ config.amend /\ config.firmware
  /\ run.pending = "none"
  /\ run' = [run EXCEPT !.pc = "remembered", !.pending = "early"]
  /\ Smooth /\ UNCHANGED <<flash, intent>>

InstallSucceed ==
  /\ \/ Running("installing") /\ ~config.firmware
     \/ Running("installing") /\ ~config.amend /\ run.pending = "none"
     \/ Running("remembered")
  /\ system' = "new"
  /\ run' = AfterInstall("success",
                         IF config.firmware THEN "complete" ELSE run.pending)
  /\ Smooth /\ UNCHANGED <<bcb, cache, data, intent>>

\* remember_firmware_update refuses a second image: an amend script stops at
\* its command, an update binary's child has installed everything by then.
InstallRefused ==
  /\ Running("installing") /\ config.firmware /\ run.pending # "none"
  /\ system' = IF config.amend THEN system ELSE "new"
  /\ run' = AfterInstall("error", run.pending)
  /\ faults' = faults \cup {"installFailed"}
  /\ Stay /\ UNCHANGED <<bcb, cache, data, intent, mishaps>>

InstallFail ==
  /\ Running("install") \/ Running("installing") \/ Running("remembered")
  /\ run' = AfterInstall("error", run.pending)
  /\ Mishap("installFailed") /\ Stay /\ UNCHANGED <<flash, intent>>

-----------------------------------------------------------------------------
(* After the work: the prompt is skipped only when it went well and the    *)
(* log text is hidden, and it is shown by default.                         *)

Status ==
  /\ Running("status")
  /\ \/ run' = [run EXCEPT !.pc = "finish", !.caller = "menu"]
     \/ /\ run.status = "success"
        /\ run' = [run EXCEPT !.pc = "firmware", !.caller = "firmware"]
  /\ Smooth /\ UNCHANGED <<flash, intent>>

\* finish_recovery(send_intent) writes the intent and the log to CACHE: ...
FinishNotes ==
  /\ Running("finish")
  /\ run' = [run EXCEPT !.pc = "finish_bcb"]
  /\ intent' = IF /\ run.caller = "firmware" /\ "send_intent" \in run.opts
                  /\ cache.state = "fs" /\ intent = "owed"
               THEN "delivered" ELSE intent
  /\ Smooth /\ UNCHANGED flash

\* /cache cannot be mounted, or INTENT_FILE not be written: that is logged.
FinishNotesFail ==
  /\ Running("finish")
  /\ run' = [run EXCEPT !.pc = "finish_bcb"]
  /\ Mishap("cacheFailed") /\ Stay /\ UNCHANGED <<flash, intent>>

\* Mutant of FinishBcb: the message is cleared in no build.
FinishBcbSkipped ==
  /\ Running("finish_bcb")
  /\ run' = [run EXCEPT !.pc = "finish_unlink"]
  /\ Smooth /\ UNCHANGED <<flash, intent>>

\* ... then zeroes the message ...
FinishBcb ==
  /\ Running("finish_bcb")
  /\ bcb' = IF config.nand THEN Cleared ELSE bcb
  /\ run' = [run EXCEPT !.pc = "finish_unlink"]
  /\ Smooth /\ UNCHANGED <<cache, data, system, intent>>

FinishBcbFail ==
  /\ Running("finish_bcb") /\ config.nand
  /\ run' = [run EXCEPT !.pc = "finish_unlink"]
  /\ Mishap("bcbFailed") /\ Stay /\ UNCHANGED <<flash, intent>>

\* finish_recovery() returns: to rb_recovery() or rb_bootloader(), to the prompt,
\* or to the end of main().
FinishReturn ==
  CASE run.caller = "developer" ->
         /\ mode' = "bootloader" /\ reason' \in {"recovery", "none"}
         /\ run' = PowerOn
    [] run.caller = "menu" ->
         /\ run' = [run EXCEPT !.pc = "prompt"] /\ UNCHANGED <<mode, reason>>
    [] OTHER ->
         /\ run' = [run EXCEPT !.pc = "reboot"] /\ UNCHANGED <<mode, reason>>

\* ... and removes the command file, where there is a file system.
FinishUnlink ==
  /\ Running("finish_unlink") /\ FinishReturn
  /\ cache' = [cache EXCEPT !.command = {}]
  /\ UNCHANGED <<bcb, data, system, config, ghost, mishaps, choices>>

\* /cache cannot be mounted, or the command file not be unlinked: a warning.
FinishUnlinkFail ==
  /\ Running("finish_unlink") /\ FinishReturn
  /\ Mishap("unlinkFailed")
  /\ UNCHANGED <<flash, config, wanted, intent, choices>>

-----------------------------------------------------------------------------
(* prompt_and_wait: the items that reach this protocol.  finish_recovery   *)
(* (NULL) has run before every prompt and runs again after every item, so  *)
(* what an item does is not covered by a bootloader message.               *)

\* Mutant of MenuReboot: the prompt hands over without looking for firmware.
MenuRebootDirect ==
  /\ Running("prompt")
  /\ run' = [run EXCEPT !.pc = "finish", !.caller = "firmware"]
  /\ Smooth /\ UNCHANGED <<flash, intent>>

MenuReboot ==
  /\ Running("prompt")
  /\ run' = [run EXCEPT !.pc = "firmware", !.caller = "firmware"]
  /\ Smooth /\ UNCHANGED <<flash, intent>>

\* show_menu_wipe: all, /data or /cache.
MenuWipe ==
  /\ Running("prompt") /\ Choice
  /\ \E roots \in (SUBSET {"data", "cache"}) \ {{}} :
       /\ run' = [run EXCEPT !.pc = "erase", !.todo = roots]
       /\ wanted' = (wanted \/ "data" \in roots)
  /\ faults' = faults \cup {"menuWipe"}
  /\ UNCHANGED <<mode, reason, flash, config, intent, mishaps>>

\* show_choose_zip_menu
MenuInstall ==
  /\ Running("prompt") /\ Choice
  /\ run' = [run EXCEPT !.pc = "install"]
  /\ faults' = faults \cup {"menuInstall"}
  /\ UNCHANGED <<mode, reason, flash, config, wanted, intent, mishaps>>

\* show_menu_developer, the two reboots: finish_recovery(NULL) first, and no
\* maybe_install_firmware_update().
MenuRebootDeveloper ==
  /\ Running("prompt") /\ Choice
  /\ run' = [run EXCEPT !.pc = "finish", !.caller = "developer"]
  /\ faults' = faults \cup {"interrupted"}
  /\ UNCHANGED <<mode, reason, flash, config, wanted, intent, mishaps>>

\* "Power off": /sbin/reboot -p, without maybe_install_firmware_update() either.  The
\* item for an hboot zip ends likewise, in rb_bootloader() (HBOOT_SON_KERNEL).
MenuPowerOff ==
  /\ Running("prompt") /\ Choice
  /\ mode' = "bootloader" /\ reason' = "none" /\ run' = PowerOn
  /\ faults' = faults \cup {"interrupted"}
  /\ UNCHANGED <<flash, config, wanted, intent, mishaps>>

-----------------------------------------------------------------------------
(* maybe_install_firmware_update, steps 8a to 8c.                          *)

\* Mutants of ForwardedArgs: one of the two arguments is left out.
ForwardedIntentOnly == run.opts \cap {"send_intent"}
ForwardedWipeOnly == {"wipe_cache"}

ForwardedArgs ==
  {"wipe_cache"} \cup (run.opts \cap {"send_intent"})

\* Mutant of Firmware: step 8c comes before step 8b.
FirmwareCommitsFirst ==
  /\ Running("firmware")
  /\ run' = IF run.pending = "none"
            THEN [run EXCEPT !.pc = "finish"]
            ELSE [run EXCEPT !.pc = "set_bcb", !.msg = Update(ForwardedArgs)]
  /\ Smooth /\ UNCHANGED <<flash, intent>>

Firmware ==
  /\ Running("firmware")
  /\ run' = IF run.pending = "none"
            THEN [run EXCEPT !.pc = "finish"]
            ELSE [run EXCEPT !.pc = "set_bcb",
                             !.msg = BootRecovery(ForwardedArgs)]
  /\ Smooth /\ UNCHANGED <<flash, intent>>

\* Mutant of WriteUpdateBegin: the valid header is written first.
HeaderFirst ==
  /\ Running("write_update") /\ config.nand
  /\ cache' = Image
  /\ run' = [run EXCEPT !.pc = "writing"]
  /\ Smooth /\ UNCHANGED <<bcb, data, system, intent>>

\* write_update_for_bootloader: a zero header first, the real one last.
WriteUpdateBegin ==
  /\ Running("write_update") /\ config.nand
  /\ cache' = Raw
  /\ run' = [run EXCEPT !.pc = "writing"]
  /\ Smooth /\ UNCHANGED <<bcb, data, system, intent>>

WriteUpdateEnd ==
  /\ Running("writing")
  /\ cache' = Image
  /\ run' = [run EXCEPT !.pc = "set_bcb", !.msg = Update(ForwardedArgs)]
  /\ Smooth /\ UNCHANGED <<bcb, data, system, intent>>

AfterWriteFailed == [run EXCEPT !.pc = "erase", !.todo = {"cache"}]

WriteUpdateFail ==
  /\ config.nand
  /\ \/ Running("write_update") /\ UNCHANGED cache
     \/ Running("writing") /\ cache' \in {cache, Image}
  /\ run' = AfterWriteFailed
  /\ Mishap("imageFailed") /\ Stay
  /\ UNCHANGED <<bcb, data, system, intent>>

\* No MTD partition is called "cache" on eMMC, so the write always fails.
WriteUpdateImpossible ==
  /\ ~config.nand /\ Running("write_update")
  /\ run' = AfterWriteFailed
  /\ faults' = faults \cup {"imageFailed"}
  /\ Stay /\ UNCHANGED <<flash, intent, mishaps>>

Reboot ==
  /\ Running("reboot")
  /\ mode' = "bootloader" /\ reason' = "none" /\ run' = PowerOn
  /\ UNCHANGED <<flash, config, ghost, mishaps, choices>>

-----------------------------------------------------------------------------
(* What recovery does not control.                                         *)

\* Power is lost; what the process knew is gone.
PowerLoss ==
  /\ mode # "main"
  /\ mishaps < MaxMishaps /\ mishaps' = mishaps + 1
  /\ mode' = "bootloader" /\ reason' = "none" /\ run' = PowerOn
  /\ faults' = faults \cup {"interrupted"}
                      \cup (IF Running("bcb_erased") THEN {"torn"} ELSE {})
  /\ UNCHANGED <<flash, config, wanted, intent, choices>>

\* input_thread: volume up + volume down + power reboots at once, whatever
\* the main thread is doing.
ChordReboot ==
  /\ mode = "recovery" /\ Choice
  /\ mode' = "bootloader" /\ reason' = "none" /\ run' = PowerOn
  /\ faults' = faults \cup {"interrupted"}
                      \cup (IF Running("bcb_erased") THEN {"torn"} ELSE {})
  /\ UNCHANGED <<flash, config, wanted, intent, mishaps>>

\* The bootloader flashes a valid image, reports, and asks for recovery;
\* it never touches the cache partition.
BootloaderUpdate ==
  /\ mode = "bootloader" /\ bcb.command = "update"
  /\ bcb' = BootRecovery(bcb.recovery)
  /\ UNCHANGED <<mode, reason, cache, data, system, run, config, ghost,
                 mishaps, choices>>

BootRecoveryImage ==
  /\ mode = "bootloader" /\ bcb.command # "update"
  /\ bcb.command = "boot-recovery" \/ reason = "recovery"
  /\ mode' = "recovery" /\ reason' = "none"
  /\ UNCHANGED <<flash, run, config, ghost, mishaps, choices>>

BootMain ==
  /\ mode = "bootloader" /\ bcb.command = "none" /\ reason = "none"
  /\ mode' = "main"
  /\ UNCHANGED <<reason, flash, run, config, ghost, mishaps, choices>>

\* The main system fills a freshly formatted /data.
MainUses ==
  /\ mode = "main" /\ data = "empty"
  /\ data' = "user"
  /\ UNCHANGED <<mode, reason, bcb, cache, system, run, config, ghost, mishaps,
                 choices>>

Clean ==
  /\ cache = Formatted /\ data # "partial" /\ system # "mixed"
  /\ bcb = Cleared

\* The main system leaves a command, or the user holds the recovery key.
MainRequest ==
  /\ mode = "main" /\ Choice
  /\ mode' = "bootloader" /\ reason' = "recovery"
  /\ \/ UNCHANGED <<cache, faults, wanted, intent>>
     \/ \E request \in Requests :
          /\ cache.state = "fs"
          /\ cache' = [cache EXCEPT !.command = request]
          /\ faults' = IF Clean THEN {} ELSE faults
          /\ wanted' = (wanted \/ "wipe_data" \in request)
          /\ intent' = IF "send_intent" \in request THEN "owed" ELSE "none"
  /\ UNCHANGED <<bcb, data, system, run, config, mishaps>>

-----------------------------------------------------------------------------
(* The specification                                                       *)

Protocol ==
  \/ GetArgs \/ SetBcbErase \/ SetBcbWrite \/ Dispatch
  \/ EraseBegin \/ EraseEnd
  \/ InstallWrite \/ InstallRemember \/ InstallSucceed \/ InstallRefused
  \/ Status \/ FinishNotes \/ FinishBcb \/ FinishUnlink
  \/ Firmware \/ WriteUpdateBegin \/ WriteUpdateEnd \/ WriteUpdateImpossible
  \/ Reboot

Failure ==
  \/ GetArgsUnreadable \/ GetArgsUnopened \/ SetBcbFail
  \/ EraseFail \/ EraseIgnored \/ EraseSkip \/ InstallFail
  \/ FinishNotesFail \/ FinishBcbFail \/ FinishUnlinkFail \/ WriteUpdateFail

User ==
  \/ MenuWipe \/ MenuInstall \/ MenuRebootDeveloper \/ MenuPowerOff
  \/ ChordReboot

Boot == BootloaderUpdate \/ BootRecoveryImage \/ BootMain

Next ==
  \/ Protocol \/ Failure \/ User \/ MenuReboot \/ PowerLoss
  \/ Boot \/ MainUses \/ MainRequest

Spec == Init /\ [][Next]_vars

\* The program and the bootloader run on; a user at the prompt leaves it in
\* the end.  Nothing is assumed of the power supply or of the other items.
Fairness ==
  /\ WF_vars(Protocol) /\ WF_vars(Boot) /\ WF_vars(MenuReboot)

FairSpec == Spec /\ Fairness

-----------------------------------------------------------------------------
(* Properties                                                              *)

TypeOK ==
  /\ mode \in {"bootloader", "recovery", "main"}
  /\ reason \in {"none", "recovery"}
  /\ bcb \in Messages
  /\ cache \in [state : {"fs", "raw", "image"}, command : SUBSET Options]
  /\ data \in {"user", "partial", "empty"}
  /\ system \in {"old", "mixed", "new"}
  /\ run \in Runs
  /\ config \in Configs
  /\ faults \subseteq {"torn", "bcbFailed", "formatFailed", "eraseIgnored",
                       "formatSkipped", "cacheFailed", "unlinkFailed",
                       "imageFailed", "installFailed", "menuWipe", "menuInstall", "interrupted"}
  /\ wanted \in BOOLEAN
  /\ intent \in {"none", "owed", "delivered"}
  /\ mishaps \in 0..MaxMishaps
  /\ choices \in 0..MaxChoices

Excused(reasons) == faults \cap reasons # {}

\* Whenever the main system runs, /cache is a file system again: however
\* often power went while an image was in the raw partition or a format was
\* half done, some boot of recovery repaired it.  The exceptions: the message
\* was lost between erase and write, its I/O or the format failed, or the
\* user wiped from the menu, where no message stands guard.
CacheRestartable ==
  mode = "main" /\ cache.state # "fs" =>
    Excused({"torn", "bcbFailed", "formatFailed", "eraseIgnored", "menuWipe"})

\* FACTORY RESET: the main system never sees a half-erased /data.
ResetRestartable ==
  config.nand /\ mode = "main" /\ data = "partial" =>
    Excused({"torn", "bcbFailed", "formatFailed", "eraseIgnored", "menuWipe"})

\* OTA INSTALL: the main system never runs from a half-installed /system
\* unless the install reported an error or was started from the menu.
InstallRestartable ==
  config.nand /\ mode = "main" /\ system = "mixed" =>
    Excused({"torn", "bcbFailed", "installFailed", "menuInstall"})

\* The bootloader is told to flash only what is completely written.
ImageComplete == bcb.command = "update" => cache.state = "image"

\* An update binary's firmware is armed only when its install succeeded.
FirmwareAfterInstall ==
  ~config.amend /\ mode = "recovery" /\ bcb.command = "update" =>
    run.pending = "complete"

\* However recovery is left, a firmware image in its memory has been handed to
\* the bootloader, with four exceptions: writing the image or its message failed;
\* power was lost; the owner left through the developer menu, the power off item
\* (or that for an hboot zip) or the key chord, none of which looks for it.
FirmwareNotDropped ==
  [][mode = "recovery" /\ mode' # "recovery" /\ run.pending # "none" =>
       \/ bcb.command = "update"
       \/ Excused({"bcbFailed", "imageFailed"})
       \/ PowerLoss
       \/ run.caller = "developer" \/ MenuPowerOff \/ ChordReboot]_vars

\* User data is erased only when someone asked for it since it was last erased:
\* no command is executed twice, however restarts and stale files fall.  The
\* exceptions: the message or the format failed, or the command file could not
\* be removed.
WipeOnlyOnRequest ==
  [][config.nand /\ data = "user" /\ data' = "partial" =>
       \/ wanted
       \/ Excused({"torn", "bcbFailed", "formatFailed", "unlinkFailed"})]_vars

\* Recovery that says the reset went well has erased /data and /cache.  The
\* exceptions, failures that format_root_device returns 0 for: an eMMC build
\* could not mount a root and skipped it, or could not delete its files; a NAND
\* build could not erase a block.
WipeDone ==
  /\ Running("status") /\ run.status = "success"
  /\ "wipe_data" \in run.opts /\ "update_package" \notin run.opts
  => \/ data = "empty" /\ cache.state = "fs"
     \/ Excused({"formatSkipped", "eraseIgnored"})

\* The intent reaches the main system, across the firmware detour as well.  The
\* exceptions: the owner or a power loss interrupted recovery, the message could
\* not be read or written, /cache not be formatted, or the command file or the
\* intent file not be opened.
IntentDelivered ==
  mode = "main" /\ intent = "owed" =>
    Excused({"interrupted", "bcbFailed", "formatFailed", "eraseIgnored",
             "cacheFailed"})

\* Recovery always hands over to the main system in the end (an eMMC build
\* with firmware to install does not: see EmmcBackToMain).
EmmcBackToMain == []<>(mode = "main")

BackToMain == config.nand \/ ~config.firmware => []<>(mode = "main")

\* The firmware flow, with everything else hidden, is the mailbox protocol:
\* the partition and the message of MISC: together are the box.
Mailbox == INSTANCE UpdateMailbox WITH
  holder <- mode,
  box <- IF bcb.command = "update" THEN "posted"
         ELSE CASE cache.state = "fs" -> "files"
                [] cache.state = "raw" -> "draft"
                [] cache.state = "image" -> "letter"

MailboxSafety == Mailbox!Safety
MailboxSpec == Mailbox!Spec

-----------------------------------------------------------------------------
(* What comments and messages of the code say and the code does not do     *)

\* recovery.c, line 85: "These important scenarios must be safely restartable
\* at any point" - power losses alone never boot a half-erased /data.
SafelyRestartable ==
  mode = "main" /\ data = "partial" =>
    Excused({"bcbFailed", "formatFailed", "eraseIgnored", "menuWipe"})

\* recovery.c, line 1482: "Reboot via vol-up+vol-down or menu to complete
\* installation" - the key chord at the prompt starts the pending update.
ChordCompletesUpdate ==
  [][ChordReboot /\ Running("prompt") /\ run.pending = "complete" =>
       bcb'.command = "update"]_vars

\* commands.c, line 517: write_radio_image "doesn't actually take effect until
\* the rest of installation finishes".
FirmwareWaitsForInstall ==
  mode = "recovery" /\ bcb.command = "update" => run.pending = "complete"

=============================================================================
