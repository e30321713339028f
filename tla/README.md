# A TLA+ model of the recovery program

`recovery` is the program an Android phone boots when its main system asks for a
factory reset or an update, or when its owner holds the right keys. It must leave
the phone in a usable state however often its battery is pulled. This directory
models the parts of it that make that hard, checks them with TLC on small
instances, and proves the most important guarantees with TLAPS for every value of
the parameters. Line numbers refer to the sources under `src/`.

- [1. The system](#1-the-system)
- [2. The modules](#2-the-modules)
- [3. The runs](#3-the-runs)
- [4. What the checks found](#4-what-the-checks-found)
- [5. Proofs](#5-proofs)
- [6. Not modelled](#6-not-modelled)
- [7. Plan](#7-plan)

## 1. The system

| Part | State it keeps | Operations | What makes it correct |
|---|---|---|---|
| Restart protocol: `recovery.c` (`main`, `get_args`, `finish_recovery`), `firmware.c` | the bootloader message in the MISC partition, the command file, intent and log in `/cache`, the arguments of the process, `update_type/data/length` | read the arguments and write them back, carry them out, clean up, install firmware over a detour through the bootloader | a power loss at any point is repaired by the next boot; nothing is carried out twice; nothing half-written is flashed; recovery ends |
| Bootloader message, update image: `bootloader.c` | one page of MISC; the whole CACHE partition | get and set the message, write the image | the header is valid only when all it refers to is there |
| MTD writer: `mtdutils/mtdutils.c` | the write context: position, a block being filled, bad blocks met | write, pad, find the place of the next write, close | data read back equals data written, over bad blocks and failed erases |
| `flash_image` | two passes over a file | compare the header, write without it, write it | the header commits the file |
| Menus: `ui.c`, the second half of `recovery.c`, `default_recovery_ui.c` | `key_queue`, `key_pressed`, `show_text`, the menu on the screen; `selected` in each menu function | input thread: queue a key, toggle the text, reboot; main thread: show, select, ask, run | a key acts on what its presser saw; a question is not answered beforehand; the highlighted item is the one that runs |
| Packages: `minzip/`, `verifier.c` | the sorted entries and the hash table of an open archive | open, find, read, extract, verify | an entry that is there is found, no other is; nothing unsigned passes |
| Installer: `install.c` | the child process and its pipe, the firmware it announced, the package root | verify, start the update binary, obey its commands; or run the amend script | an error of the child is an error of the install; everything it said is heard; one firmware image at most is kept |
| amend (`amend/`, `commands.c`) and edify (`edify/`, `updater/`) | a script's tree, the symbol table | evaluate a script | the first failing command ends the script; success means that it reached its end |
| Storage: `roots.c`, `mtdutils/mounts.c`, `mmcutils/`, the formats of `extracommands.c` | the table of roots, the volumes of `/proc/mounts`, the partition table | mount, unmount, format, convert | what was formatted is empty and not mounted; the other volumes are as they were |
| Nandroid: `pre-build/sbin/nandroid-mobile.sh`, its menus in `recovery.c` | directories of images and sums on the SD card | back up, compress, restore, delete | a restore writes back what was there, or nothing; it finds damage before it erases |
| Other commands: `extracommands.c`, `pre-build/sbin/` | none; child processes | start scripts, partition cards | what failed is not reported complete |
| Graphics and touch: `minui/`, `ui_touch.c` | frame buffer, event devices | draw, read events | - |

How they interact: the main system and `recovery` talk through flash only (the
message, the command file, the intent); `recovery` and the bootloader talk
through the message and the CACHE partition; the input thread and the main thread
through `key_queue` under a mutex and through the statics of `ui.c`; menu items
call the installer and the formatters directly; scripts and the update binary are
children of the main thread.

What is hard about it:

- **crash and restart**: power goes between any two flash writes, and once in the
  middle of one (NAND is erased before it is programmed);
- **state lost at reset**: `firmware.c` keeps the pending image in statics;
- **two threads**: keys arrive at any time, and one combination of them reboots;
- **failures in the middle of loops**: bad blocks, erase and program errors, one
  retry, a skipped format that counts as done;
- **two builds**: with `USES_NAND_MTD` the message is read and written; without
  it only `firmware.c` writes it.

Each such place is listed with its line under "hazards" in `PROJECT.json`.

## 2. The modules

### RecoveryBoot, the core

One device: who runs (`mode`: bootloader, recovery, main system), the flash
(`bcb`, `cache`, `data`, `system`) and the memory of the recovery process (`run`).
An action is one flash write or one decision of the code. `run.pc` names the place
in the code: `get_args`, `set_bcb`/`bcb_erased` (the two halves of
`set_bootloader_message`), `dispatch` (the option loop and the `if` of `main`),
`erase`/`erasing` (the two ends of `format_root_device`), `install`..`remembered`
(`install_package`), `status`, `prompt`, the three steps of `finish_recovery`,
and `firmware`..`writing` (`maybe_install_firmware_update`). `run.caller` says who
called, so that the same step returns to `main`, to the menu, or to the firmware
flow. A record field stands for the arguments (`opts`), the message being built
(`msg`), the roots still to erase (`todo`) and `firmware.c`'s statics (`pending`).

`PowerLoss` and the key chord `ChordReboot` set `run` back to `PowerOn` and keep
the flash. `Failure` collects the error paths. `User` are the menu items that
matter here: wipes, zip install, and those that leave recovery by themselves, the developer
reboots and the power off. The bootloader and the main
system are not in this repository: `BootloaderUpdate`, `BootRecoveryImage`,
`BootMain` and `MainRequest` follow the flow comments of `firmware.c` and
`recovery.c`; `MainUses` is what the main system does with an empty `/data`.

`config` is the build (`nand`) and the package: an amend script or an update
binary, with firmware in it or not. It never changes.

`faults`, `wanted` and `intent` are history. `faults` names what went wrong since
the main system last ran clean; an invariant that does not hold after, say, a
failed format says so by `Excused({"formatFailed"})`. The excuses are the exact
list of what can break each guarantee: with any of them removed, TLC finds a counterexample
(within the bounds of the run; for a command file that stays, `unlinkFailed`, with three
mishaps and four choices). The failures on `/cache` (`GetArgsUnopened`, `FinishNotesFail`,
`FinishUnlinkFail`) are those of `fopen_root_path` and `unlink`, which the code logs at most. What
erases without success and returns 0 (`EraseIgnored`) is `rm` on eMMC and the erase of a
block on NAND.

Abstractions: a message is a set of options (their texts, lengths and the cutting
off of long ones are left out); a package's effect is that SYSTEM is old, mixed
or new; the recovery image itself, logs and `/tmp` are left out (`/tmp` is a RAM
disk, and `.ignorebootmessage` is created by nothing in `src/`); a wipe is
DATA and CACHE.

### UpdateMailbox, what the firmware flow promises

The CACHE partition as a mailbox: recovery drafts, completes and posts an
image, the bootloader takes it, and the main system never finds one. RecoveryBoot
implements it under the mapping at its end (`Mailbox`): `holder` is `mode`, and
`box` comes from the message and the state of `/cache`. TLC checks the full
specification, with delivery (`MailboxSpec`); TLAPS proves its safety part.

### MtdWriter, FlashImage, UpdateImage

`MtdWriter` is the write context of `mtdutils.c` over a small NAND: `write_block`
with bad blocks, the erase, the program page by page, the verification, the one
retry and the giving up; `mtd_write_data`'s buffering (`Put`); the padding
(`Sync`) and `FindWriteStart`. `Readable` is what `read_block` lets a reader see.
Its unit is the page. `FlashImage` (`main` of `flash_image.c`, its two passes) and
`UpdateImage` (`write_update_for_bootloader`, its sections, builds without QCOMM)
extend it; both add power losses, and `FlashImage` runs the program again.

UpdateImage is step 8b of RecoveryBoot in detail: RecoveryBoot's `WriteUpdateBegin`
leaves a raw partition, which is UpdateImage's partition with a zero header, and
`WriteUpdateEnd` an image, which is what `DoneIsValid` is about.

### Menus

The input thread (`Press`, `Release`, `HotKeys`: the queue is unlocked before the
hot keys are looked at, so these are two steps) and the main thread: a stack of
menu functions, each with its `selected`. The two dozen menu functions differ
only in four styles, which the constant `Styles` gives each menu:

| Style | Functions | Particular |
|---|---|---|
| `main` | `prompt_and_wait` | ignores the back key |
| `loop` | the `show_menu_` functions | shown again after an item; back returns |
| `once` | the lists of backups, `choose_nandroid_file`, `choose_clockwork_file`, `choose_nandroid_folder` | return after one item, leave the menu on the screen |
| `chooser` | `get_file_selection` under `choose_file_menu` | clear the queue before and after; the first item is the way back |

An item of a menu returns, opens a menu, asks and runs something (`script`, `wipe`,
`file`) or runs something at once (`toggle`). What runs takes time (`running`), and
`main()` may be at work before the first prompt (`command`); keys pressed then are
queued. Each queued key carries two facts of history: `fresh`, the screen has not
changed since it was pressed, and `busy`, it was pressed while something ran.

`Highlighted` checks `ui_menu_select`'s wrapping and scrolling against the menu
functions' own `selected`: both have to agree, and the row has to be on the screen.

### Installer, with Volumes, Roots, ZipArchive, Edify and Amend

Installing a package is two processes, a pipe, and a file system below them.
The lower layers are modules of operators; `Installer` is the state machine.

Every function of the lower layers that changes something is an operator from a
storage record to the set of its outcomes `[s, ret]`: the storage afterwards, and
the value the function returns. `Then` chains two of them, so a call that fails in the
middle leaves what was done before it. `Failing(s)` is a call of the kernel or of
a program that fails; the storage carries how many still may.

- `Programs` says how loops and expressions are written: a loop is a function of the number
  of its turns, an expression is the list of its nodes in the order in which the parsers make
  them, and what a node is worth is a function of the nodes before it. The prover cannot see into
  recursive operators; it can into these.
- `Volumes` is the table of roots of three builds, mounts in their order (the last
  hides the others), and finding partitions: in `/proc/mtd`, or by type and order in
  the partition tables of the eMMC chip. The builds are `nand`, `emmc` (the
  partitions are block devices of `define_roots.h`) and `mmc` (they are `g_mmc_device`).
- `Roots` mounts, unmounts, formats and converts: `roots.c` and what it calls. What a
  caller ignores is ignored (`Returning0`, `Mounting`, `Unmounting`).
- `ZipArchive` sorts by the code's binary search, hashes with open addressing and
  grows the table as `Hash.c` does, finds, reads, extracts and verifies. A name is a
  string with a rank in the order of `strncmp` and a hash value, chosen so that two
  pairs collide; the content of an entry is a value that is intact (stored, or inflating to its
  size) or not. Only the verifier looks at checksums, and they are left out.
- `Edify` evaluates an expression as `expr.c` does, and has every function of the
  updater. Those return a `char*` where `Evaluate` expects a `Value*`; such a value is
  `"RAW"`, and looking at it or freeing it is undefined: it may end in an abort or in
  the death of the process. `Amend` evaluates a command of an amend script likewise.
- `Installer` has an action per stage of `install_package` (`phase` names the place:
  `opening`, `opened`, `verified`, `reading` the pipe, `waiting` for the child, `firmware`;
  or `no binary`, `script`; then `closing`), per line read from the pipe, per command of an
  amend script, and per statement of the update binary. The child is the updater of
  this tree, or a foreign program given as a list of steps, which may leave a process
  behind that still holds the pipe. Between installations the user formats, mounts,
  unmounts and converts roots, so that packages meet what was left mounted.

`package` is the file on the card, `zip` what `mzOpenZipArchive` made of it; `busy` is the
card while the archive is mapped. `request` is the firmware that the child announced
(`firmware_type` and `firmware_filename` in `try_update_binary`). `said` and `heard` are history: what the child printed and
what recovery read; `last` is the last format or mount with what was mounted before.

Abstractions: a path is a mount point and at most one file; a volume holds a set of
files; a package is one of a dozen, or put together of up to three entries; scripts are
parsed already, or do not parse; a line of the pipe is a command with its arguments,
and a text longer than recovery's buffer is two such lines.

`InstallOutcome` is what `install.h` promises: a package is refused with everything
as it was, or accepted, and only then do volumes change; success or error; one
firmware image at most. Installer implements it (`KeepsPromise`), with `Stage`, `result`,
the volumes' contents and `firmware` for its variables. RecoveryBoot's `install`..`remembered`
are the same code seen by the restart protocol.

### Nandroid

`nandroid-mobile.sh` as a process beside the phone's partitions (`part`) and the directories on
the card (`card`). The record `s` is the script: `pc` is the loop it is in (`raw`/`dump`, `tree`,
`sums`, `pack`; `check`, `unpack`, `verify`, `flash`, `erase`/`fill`), `todo` the rest of the
list of its `for` loop or of gzip's files, `sel` the `NO...` variables, and `block`, `md5`, `attempt`
are DEVICEBLK, DEVICEMD5 and ATTEMPT. A content is a pair of a partition and a version; a sum is the
content it was computed from, so equal sums are equal contents.

A directory keeps plain and compressed files apart, since interrupted compressions and restores
leave both. `was` and `missed` are history: what was on a partition when its file was
written, and where a tool failed that nobody looks at (`mkyaffs2image`, `tar`).
`worn` partitions are those at whose bad spot `dump_image` ends early, with exit status 0.

Around the script, the owner starts the menus' commands, deletes directories, and uses the phone
(`Use`: everything on it gets a new version); files rot; power goes and tears what is being
written (`TornCard`, `TornPart`). `Fault` counts these and the failures of tools. A mount that
fails is no fault: the script looks at it.

Abstractions: options that no menu passes except the selection itself; the size of files is one order
(`BySize`); that the name of a directory may occur in another name, so that another is
restored than was chosen, is the free choice of the directory in `StartRestore`; `nandroid.md5` is
compressed and decompressed in one step.

## 3. The runs

| Run | Checks | Bounds |
|---|---|---|
| `restart_protocol` | eight invariants, two action properties, one of liveness and the refinement, both builds, every kind of package | 2 mishaps, 2 choices |
| `torn_message`, `chord_drops_firmware`, `amend_firmware_early`, `emmc_firmware_loop` | one statement of the code's comments each, that does not hold | the same |
| `flash_image` | what is read back, what a header means, erase before program | 4 blocks of 2 pages, 3 files, 3 faults, 3 runs |
| `update_image` | what a header means, what a result of 0 means | 5 blocks of 2 pages, up to 4 of them bad, 3 updates, 6 faults |
| `menus` | what keys may do | 6 keys, queue of 2, 3 rows, 6 menus |
| `install` | what success means, what is kept of firmware, what a format did, what the signature check lets through, lookups, the refinement, that installations end | 12 packages on 3 builds, with and without full formats, 2 operations, 1 failing call, a pipe of 2 lines; and every package of up to 3 entries of 6, with 3 manifests |
| `extract_reported` | "true on success, false on failure" | the 12 packages |
| `nandroid` | what a restore writes back, what it erases, that scripts end | 3 kinds of device, 1 directory, 2 selections, 2 versions, 1 fault |
| `nandroid_recovery_image` | "dump current partition" | the same, 1 version, no fault |

Why the bounds are enough:

- *mishaps* (`MaxMishaps` = 2): a torn message needs one power loss to be in a
  restart and a second to hit the erased page; an error path that itself fails
  needs two. *Choices* (`MaxChoices` = 2): a request followed by another one, or by
  an item at the prompt. The proofs do without both bounds.
- *flash*: the header block, blocks of data, and one to spare for a bad one, and
  a case without a spare one. One fault fails a try, two give a block up, a third
  hits the next step. Files end inside a block, contain a block of zeros, or are
  shorter than a block. Two pages are the least that a power loss can separate. Of
  `update_image`'s updates one is so short that six faults give up a block of each
  section and all of the header's: only then does `mtd_write_close` try the header once more. With as many
as four bad blocks six faults can leave the header no place in either pass: `mtd_erase_blocks` returns
-1 twice, which `write_update_for_bootloader` takes for two equal offsets (`Nowhere`).
- *install*: two operations are a format or a mount followed by an installation, or two
  installations, which is what a volume mounted twice, a package left over and a
  firmware image remembered from before need. One failing call reaches every error
  path; packages that fail by themselves (a damaged entry, a script that aborts) come on top.
  Three entries besides the signature's are a first, a middle and a last one of the search,
  two of one name, and a table that has to probe past a collision. The full update prints
  more than the pipe of two lines holds.
- *nandroid*: the directories do not meet (a restore reads one, a backup writes one), so one is
  enough; the two selections have a raw image, a tree, an archive and /cache, and differ, so a restore
  meets files it is not asked for and lacks others. A version more than the backup's tells a file
  restored from a partition left alone. One fault is a failing tool, a rotten file, a wrong reading or a
  power loss; sequences of operations are not bounded. (Two faults, 1.6 million states,
  hold as well, but take longer.)
- *menus*: a menu of five items on a screen with two rows for them wraps and
  scrolls at both ends; the queue of two fills and overflows; six keys reach
  an item two menus deep, its question, its answer, and one key more.

Fairness: `RecoveryBoot!Fairness` is weak fairness of `Protocol` (the process runs
on), of `Boot` (so does the bootloader) and of `MenuReboot` (the user leaves the
prompt in the end: without it recovery rightly waits for ever). No fairness for
failures, power losses or other items. `Menus!FairSpec` is weak fairness of the
main thread, which includes that what it runs ends, and of the input thread's
second half; no key need ever be pressed. `UpdateMailbox` asks for weak fairness
of the delivery only. `Installer!Fairness`: the scheduler runs recovery and the update binary,
and a process left behind ends some day. The first two are `WF_vars(Recovery)` and
`WF_vars(Child)` with ENABLED spelled out (`RecoveryCanStep`, `ChildCanStep`), since TLC
would evaluate whole scripts to decide ENABLED; a blocked read, a full pipe and `waitpid`
are all that either side waits for. The user need not do anything. `Nandroid!FairSpec` says that
a script that runs goes on, since its commands end; nothing is assumed about the owner.

`CHECK_DEADLOCK FALSE` stands in the runs in which the bounds, or a user who
presses nothing more, stop the system; functions that return stop as well.

Every property of a passing run has a mutant: an operator, defined next to the
code's, that changes it the way a slip would, such as erasing `/cache` after the
header, a missing `ui_clear_key_queue`, one retry more, or the arguments not
written back. Under the mutant TLC reports the property violated.

## 4. What the checks found

Each is a statement of the code about itself that a run refutes; "findings" in
`PROJECT.json` quotes the lines.

1. *The message is rewritten in place* (`torn_message`). Each boot of recovery
   erases and rewrites the page that makes a restart safe. Power lost during a wipe,
   and again in that window on the next boot, boots a half-erased `/data`.
2. *The key chord drops firmware* (`chord_drops_firmware`), although the prompt
   offers it to complete the installation.
3. *amend arms firmware early* (`amend_firmware_early`): a script that fails after
   `write_radio_image` installs the radio all the same.
4. *Firmware on an eMMC build never ends* (`emmc_firmware_loop`): a message is
   written that no eMMC code clears.
5. *A failed extraction is reported as success* (`extract_reported`): a variable of an
   inner block hides the result of `mzExtractZipEntryToFile`; the rest of the directory is
   missing, and the installation succeeds.
6. *The recovery image of an HTC eMMC device is the boot image* (`nandroid_recovery_image`): a
   space is missing in a test, so the block device stays that of the image before. The sums
   agree, and the restore writes the boot image over recovery.

Other things the models had to follow, without a sentence in the code that says
otherwise, are in the hazards: `FormatDone` holds only for a volume that was not mounted
twice or read-only by a package, because nobody looks at the status of `rm` and `mke2fs`,
and a card that an amend script formats is empty but stays mounted, because the package on
it is open and nobody looks at the status of the unmount (`extracommands.c:213`);
`SuccessMeansDone` excepts a `fork` that failed; a firmware image that is remembered makes the
next package that brings one fail after all of it was installed; and the first prompt
takes keys that were typed while a command ran (`recovery.c:3389`). A power loss inside
`flash_image`'s header block leaves a header that passes for the whole file (`torn` in
`HeaderCommits`), and a failed padding goes unnoticed in `write_update_for_bootloader` (`ignored` in
`DoneIsValid` and `HeaderIsValid`), so that -1 may be compared with -1 where the header's place is checked
(`HeaderAligned`, `bootloader.c:385`).
What is left in recovery's memory is lost on every way out but the one through
`maybe_install_firmware_update`: besides the chord, the developer reboots (`recovery.c:3278-3286`) and the
power off (`recovery.c:3451`); `FirmwareNotDropped` names them. A reset counts as a success on eMMC
whatever `rm` did (`extracommands.c:207-210`), and an intent is lost when the file that carries it does not
open (`recovery.c:203`, `recovery.c:244`); `WipeDone` and `IntentDelivered` name these. The proof of `HeaderIsValid` showed a case that runs with four faults had missed: when
no block takes the header, `mtd_write_close` (`mtdutils.c:541`) tries again to write what is buffered,
from where the first attempt began, and the walk past blocks given up goes on through those of the
image. The function then returns -1, but the header stands among blocks it does not describe.
`Displaced` names the case, and the run's bounds now reach it. `Intact` lists what nandroid's sums cannot tell: they are computed from the files
after they were written, so a `mkyaffs2image` that failed is verified like one that did not; a
`nandroid.md5` cut short by a power loss lists fewer files, and the others are restored unverified;
and `/cache` is erased whether or not the backup has it, against the help text of `--norecovery`
(line 319: "no need to use this option ... same goes for all the options below").

## 5. Proofs

`RecoveryBootProofs` proves about `Spec` of RecoveryBoot, for every set of builds and
requests and all bounds, from `ConstantsAssumption` alone:

- `TypeCorrect`: `[]TypeOK`;
- `ImageCompleteAlways`, `FirmwareAfterInstallAlways`: the bootloader is told to
  flash only complete images, of packages that were installed;
- `CacheAlwaysRestartable`, `ResetAlwaysRestartable`, `InstallAlwaysRestartable`: the
  main system never sees a broken `/cache`, half-erased `/data` or half-installed
  `/system`, but for the named excuses;
- `WipesAreRequested`: the action property that user data is erased on request only;
- `ImplementsMailbox`: the refinement, safety part.

None of the invariants is inductive as it stands, because each speaks of the main
system or of the bootloader, and what makes it true is what recovery did some
boots earlier. The strengthening comes in three layers.

1. `FirmwareInv` = `TypeOK`, `Control` (who can be where, and that a process that
   has not started is `PowerOn`), `Message` and `ImageFirst` (at which steps the
   image is already complete).
2. `RestartInv` adds `Reasons` (work is done for arguments or for the menu), `Armed`
   (while `main` works on arguments, the message holds them) and one guard for each
   partition, `CacheGuarded`, `ResetGuarded`, `InstallGuarded`: while the partition is
   in a state the main system must not see, the arguments a restart would find
   (`Standing`) are those that repair it, and the process is on its way to do so.
3. `RequestInv` adds where a stale `wipe_data` can be left over: `Sequel`,
   `CommandSpent`, `ArgumentsSpent`.

Each conjunct has a lemma of its own (`TypeStep`, `ControlStep`, ... ) with a step per
action; the theorems combine them. `SetPc` and its like say once that a record
update keeps the type of `run`; they keep the leaves small. All of these invariants
were checked by TLC on `restart_protocol`'s instance before they were proved.

`MenusProofs` proves about `Spec` of Menus, from `MenusAssumption` alone, so for any
menus, any size of the screen and of the queue, and any number of keys:

- `TypeCorrect`: `[]TypeOK`; the key queue never outgrows its array, and there is
  always a menu function to return to;
- `HighlightedAlways`: the row that is highlighted is on the screen, and is the item a
  select key runs;
- `NeverByAccident`, `AlwaysConfirmedKnowingly`: the two action properties about keys typed ahead.

The inductive invariant `MenusInv` adds to `TypeOK` that below every chooser there is a
menu that is none (`Anchored`: a chosen file returns through all choosers at once), that
what is drawn agrees with the frame on top and its window with the highlight (`Window`,
`InRange`), and that where a question or a menu shown again waits, every queued key is
fresh (`FreshAnswer`, `FreshChoice`). The input thread may queue a key at any of these
places; it keeps the last two because a new key is fresh.

`RecoveryBootProofs` goes on from `RestartInv` and proves the three properties about what a
run of recovery leaves behind:

- `FirmwareNeverDropped`: no step leaves recovery with an image in its memory and no command for the
  bootloader to flash it, unless writing it failed, power was lost, or the owner left by the developer
  menu, the power off item or the key chord (`FirmwareKept`: past the cleaning up inside
  `maybe_install_firmware_update` only a failed write leaves it in memory);
- `ResetIsDone`: a wipe that ends with success has erased both roots (`WipeUnderWay`: what is not
  in `todo` any more is erased, and `/cache` comes last), unless a root was skipped on eMMC, or what erases
  went wrong unnoticed on either build;
- `IntentArrives`: the intent the main system waits for arrives, unless recovery was interrupted, the message
  or the format failed, or the command file or the intent file did not open. It is the one with the longest
  way, from the command file or the message through memory, and through the message again across the
  bootloader's update (`IntentCarried`); a `/cache` that is erased on the way is made again before
  recovery writes to it (`CacheMended`).

`MtdWriterProofs` holds what both programs on top of the writer need, for any number and size of blocks,
any set of bad blocks and any number of faults. `WriterOK` are the types. A sound block has a *rank*,
the number of blocks below it that are neither bad nor given up; `Feeding` and `Closing` say of the context
that the chunk it is at belongs into the sound block of the chunk's rank, and the lemmas
`SoundTurn` and so on that each step of `write_block` keeps that when no block is given up, and that the rank
shifts by one when one is. `mtd_find_write_start` is a recursive function over the skipped blocks; its value
is shown to exist, and to be the first block not skipped (`FindWriteStartSkips`), by looking at the least
length at which it would not be. (`LeastNumber` takes the place of an induction theorem, which the
provers cannot instantiate.)

`FlashImageProofs`, from `DeviceAssumption` and `FilesAssumption`:

- `TypeCorrect`, and `ErasedFirst`: no page is programmed that was not erased, and bad blocks are left alone;
- `ReadsBack`: when `flash_image` ends well and no block was given up, the sound blocks hold the file
  (`FlashInv`: how far each of the two passes has come, chunk by chunk);
- `HeaderIsCommit`: a partition that shows a file's header holds the file, however often `flash_image`
  was started and stopped before. `HeadInv` adds to `FlashInv` that no block but the first begins
  with a header, and that a first block that does has its whole file behind it, is spoilt, or is being programmed by
  the second pass. It holds if headers tell files apart (`HeadersApart`), which is a hypothesis of the
  theorem and which TLC evaluates for the files of the run.

`UpdateImageProofs`, about `write_update_for_bootloader`:

- `TypeCorrect`;
- `DoneMeansValid`: a result of 0 means that the header is before the sections and that each section begins at
  the offset recorded for it, unless a padding's -1 was taken for a place (`ignored`);
- `HeaderAnnouncesUpdate`: so does a header on the flash at any time, for an update none of whose pages looks
  like the header (`HeaderApart`, evaluated by TLC in `MCUpdateImage`), with the exceptions `ignored` and
  `Displaced` (section 4).

Their invariant follows the function section by section: `Walked` (the walk so far, and which blocks it gave
up), `Swept` (the first pass has left zeros where the header will be), `Storing` (what the section at hand
has written is in the blocks of its ranks), `Located` and `Kept` (sections behind it begin where
`offset` says, and nothing later touches them), `Heading` (the second pass has not come to the image, or is
`Displaced`) and `NoHeader`.

`NandroidProofs`, from `NandroidAssumption`, about any number of directories, any selections and any order
of sizes:

- `TypeCorrect`;
- `SumsComeFirst`: the action property `ErasesOnlyIntact`;
- `RestoresWhatWas`: the invariant `RoundTrip`;
- `FileBeforeErase`: the action property `EmptiesOnlyToFill`.

What a restore does to the phone rests on what a backup did to the card, any number of boots and
compressions earlier. `Kept` is what a directory says at all times: a sum, plain or compressed, was computed
from what was on the partition (or a tool failed that nobody looks at, or the block or the reading was wrong:
`Blind`), and what has a file has been on a partition. `SavingInv` says what a backup has to have
done before it writes sums (`Good`: what is behind the process is in its file), and `RestoringInv`
that behind the sums the whole directory is intact, that nothing is restored without a file, and that what is
behind the process has been written back. Rot, torn files and mixed directories need no case of their own beyond `Kept`:
they are what the comparison of sums is there for, and the proof of `VerifyStep` is where it is used. TLC checked
this invariant on the run's instance, with two faults, and with selections that contain `wimax`, which eMMC
devices pass over. `Only` (what a loop keeps of a list) is a recursive function with its lemma `OnlyKept`.

`InstallerProofs`, with `ScriptProofs` for the layers below, from `InstallerAssumption`, for any devices with
any packages on their cards: any entries in any order, any manifest, any amend script, any edify
script, any foreign program, any pipe and any number of failing calls. (`VolumesAssumption`, `NamesAssumption`,
`AmendAssumption` and `EdifyAssumption` say only that the texts of the code are strings, which TLC evaluates
and the provers do not know of a table.)

- `Typed`: `[]TypeOK`;
- `OnlySigned`: while signatures are checked, the package that is installed is signed;
- `SuccessIsDone`: an update binary whose package installs with success exited with 0, the updater behind the last
  statement of its script; everything it said was heard, and the first firmware image it asked for is kept;
- `LookupIsRight`: what is looked up in an open package is found if, and only if, it is there, and of several
  entries of one name the first in the central directory is found;
- `RootIsOpen`: the package is a root of an amend script exactly while the archive is open;
- `FirstAskedIsKept`: the action property that a remembered firmware image is the first that was asked for;
- `OthersAreLeft` (with `MountsStay`): what the user does to a root leaves the volumes of the other roots as they were,
  if mounts are in place at the start and no statement of an updater's script ends that;
- `ImplementsOutcome`: the whole of `InstallOutcome`, by the refinement mapping at the end of Installer.

`ScriptProofs` first follows an archive from its central directory to a lookup. A binary search halves what is left
(`TurnSearches`) and puts each entry where the order of names stays (`StaysSorted`); the hash table is
large enough to have an empty slot at which every probe ends (`TableIsLarge`, `SlotEnds`), an entry that is added is found
and none is hidden by it or replaced (`AddedIsFound`, `AddsOnly`; equal names stand in the order of the central
directory, `FirstIsAhead`); so `LookupFinds` and, for a directory, `MatchingIsAll`: what is extracted are
the entries under it and no others. Then it follows the storage, in four relations: `Leads(s, t)`
says what no call changes (the build, the files held open) and that failures only become fewer; `Follows`, in addition,
that mounts stay in place; `Keeps`, that no file is touched either; and `Spares`, that with mounts in place only one
volume is. Every function of `Roots` and every command of an amend script (`CommandFollows`) has a lemma that its
outcomes follow, what mounts and reads keeps, what formats a root spares the volumes of the others (`RootFormatted`,
`Forced`), and every function of an edify script (`CalledIsGood`) leads to its outcomes. `ExpressionValued` and `ExpressionIsGood` carry this from nodes to whole
expressions, along `LoopStays`.

The inductive invariant is `Installing`. To the types (`SmallTypes`, `StorageIsTyped`, `ProcessIsTyped`) it adds:

- `PackageIsOpen`: wherever the package is used, `zip` is what parsing this package gave, it is signed if it had to be,
  and a script that runs was parsed. `verify_jar_signature` looks at the archive through lookups, so
  `VerifiedIsSigned` rests on `LookupFinds`;
- `NothingIsLost`: what was said is what was heard and then what is in the pipe;
- `BinaryIsHeard`: where the child can be while recovery is at each place, who holds the pipe, that recovery
  leaves the pipe only when it is empty and closed, and that the updater exits with 0 only behind its last statement;
- `CardIsInUse`: the card is held open from `opened` on, and so cannot be unmounted under the package.

`OthersAreLeft` needs that mounts are in place: nothing but the five pairs of `Homes` (`/cache` and the volume `cache`, ...),
on either side. `format_non_mtd_device` removes what it finds below the mount point of the root,
whatever is mounted there, so a script of the updater that mounts one volume at the mount point of another makes the next
format erase the wrong one: `mount()` of src/updater/install.c takes any place. That is why the theorem has the
hypothesis, and why it speaks of `UpdaterStep` alone: `MountsStay` shows that the user, recovery and amend scripts, which
mount by roots, always keep it. TLC's packages all satisfy it. Its two other halves are `RootInfo` (in all three
tables a mount point belongs to one volume, and the device of a root is that volume) and `NamedHolds` (whatever part of the
partition tables a scan has read, the partition it finds by a name holds the volume of that name, although ext3
partitions are named by counting them).

Only model-checked:

- liveness: `BackToMain`, `MailboxSpec`'s delivery, `KeysAreTaken`, `ScriptEnds`, `InstallEnds`. Fairness is out of the
  prover's reach;
- `FormatDone` and `CopiedUnlessFailing`: what a format and an extraction leave when nothing fails, which needs an
  exact description of their outcomes where `ScriptProofs` has bounds of them. `FormatDone` is moreover about the
  devices of the run, whose partitions hold what the code expects: `check_extfs_format` mounts a partition of
  another type, and `format_root_device` returns 0 with it mounted.

## 6. Not modelled

- `ui_touch.c`, `minui/`, fonts and images: drawing and gestures. `default_recovery_ui.c`
  has key tables for several devices; they differ in which key is which. END is both
  a select key and part of the text toggle on some; in Menus "text" is a key apart.
- The lexers and parsers of amend and edify (generated from grammars), the fields of zip
  headers, deflate, checksums, SHA-1 and RSA: a script parses or not, an entry is intact or not, a key
  made a signature or not. Modes, owners and times of files; values of properties; which of two
  different strings an amend script finds the lesser; what the `applypatch` program does (it is no
  part of the repository).
- The roots MISC:, RECOVERY:, MBM: and those of single devices; paths below a root
  (`SDCARD:.android_secure`).
- `write_update_for_bootloader` of QCOMM builds, `mtd_read_data`'s seeking and the ECC
  counters over several reads, `erase_image`; of `dump_image` only what nandroid sees of it.
- `--getupdate`, `--webget` and the lists of `nandroid-mobile.sh`, which no menu starts; backups of
  another recovery program; the extra files of Acer Iconia devices; `sdparted`, `backuptool.sh`.
- A `cd` that fails before the `rm -rf *` of a restore (`nandroid-mobile.sh:1210`), whose result the script does
  not look at: `init.rc` makes the directories, and the script has seen that `/data` and `/system` are
  mounted. Whether `/cache` is mounted it does not look at; in the model it is.
- What menu items do, beyond the wipes, the zip install and the reboots. The item that
  deletes the hboot zip (only in `HBOOT_SON_KERNEL` builds) asks without clearing the
  queue; Menus models the other questions.
- `misctool`, `getprop`, `setprop`, `itsmagic`, `tools/`, tests: programs of one step, or not
  part of the device.

## 7. Plan

Done in this order, the most important first: RecoveryBoot with UpdateMailbox and its
proofs; MtdWriter with FlashImage and UpdateImage; Menus, with its proofs; Installer with the layers below it;
Nandroid; the proofs about what recovery leaves behind, about the MTD writer and its two programs, and
about Nandroid; the proofs about packages, scripts and Installer. What could come next:

1. The MTD read path with `dump_image`, `erase_image` and the ECC counters, below Nandroid's raw
   images.
2. That Installer implements the step `install`..`remembered` of RecoveryBoot, and Roots its erases.
