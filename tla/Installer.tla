----------------------------- MODULE Installer -----------------------------
(***************************************************************************)
(* Installing a package (install.c): recovery, the update binary it runs,  *)
(* and the pipe between them; or the amend script that recovery executes   *)
(* itself.  Between installations the user formats, mounts and unmounts    *)
(* (recovery.c), so that a package is installed on what was left.          *)
(*                                                                         *)
(* The update binary is the updater of this tree, which evaluates an edify *)
(* script, or a foreign program: a list of steps and an exit status.       *)
(***************************************************************************)
EXTENDS Edify, Amend

CONSTANTS
  Devices,      \* what recovery may find: the storage, the package on the card, and
                \* how many operations the user starts (bound)
  UserRoots,    \* the roots that the user formats and mounts
  MaxFaults,    \* how many calls may fail on a device that fails (bound)
  PipeSize      \* the pieces that fit into the pipe (bound)

\* What a package may be; what it says of itself need not be true.  A script that
\* parses has a statement.
Says == [do : {"say"}, piece : PieceType]
Writes == [do : {"write"}, place : Places, file : STRING]
Steps == Says \cup Writes \cup [do : {"fork", "close"}]
PackageType ==
  [cd : Seq(EntryType), mf : Seq([name : STRING, digest : STRING]), sf : BOOLEAN,
   rsa : BOOLEAN, parses : BOOLEAN, script : Seq(EdifyExpressions),
   program : Seq(Steps), code : Nat, commands : Seq({c \in CommandType : WellFormed(c)})]
Packages == {p \in PackageType : p.parses => p.script # <<>>}

ASSUME InstallerAssumption ==
  /\ PipeSize \in Nat /\ MaxFaults \in Nat
  /\ \A d \in Devices :
       /\ d.storage \in Storage
       /\ d.storage.faults <= MaxFaults /\ d.storage.busy = {}
       /\ d.package \in Packages
       /\ d.ops \in Nat

INSTALL_SUCCESS == 0
INSTALL_ERROR == 1
INSTALL_CORRUPT == 2

VARIABLES
  st,               \* the storage
  signature_check,  \* signature_check_enabled
  phase,            \* how far install_package is
  package,          \* the package on the card
  zip,              \* the package when it is open
  request,          \* firmware_type and firmware_filename, or <<>> when they are NULL
  command,          \* the next command of the amend script
  package_root,     \* whether gPackageRoot is registered
  firmware,         \* what remember_firmware_update keeps
  result,           \* what install_package returns
  child,            \* the update binary
  inherited,        \* whether a process it left behind holds the pipe
  pipe,             \* the pieces in the pipe
  said,             \* every piece that was written to it (history)
  heard,            \* every piece that was read from it (history)
  last,             \* the last operation of the user and its result (history)
  ops               \* how many operations the user still starts (bound)

recovery == <<phase, package, zip, request, command, package_root, firmware, result>>
process == <<child, inherited>>
stream == <<pipe, said, heard>>
vars == <<st, signature_check, recovery, process, stream, last, ops>>

-----------------------------------------------------------------------------

NoZip == [entries |-> <<>>, hash |-> <<>>]
NoChild == [pc |-> "none", next |-> 1, out |-> <<>>, open |-> FALSE, code |-> 0]
Idle == [op |-> "none", root |-> "NULL", ret |-> 0, before |-> <<>>, faults |-> 0]

Init ==
  /\ \E d \in Devices : st = d.storage /\ package = d.package /\ ops = d.ops
  /\ signature_check \in BOOLEAN
  /\ phase = "prompt" /\ zip = NoZip /\ request = <<>> /\ command = 1
  /\ package_root = FALSE /\ firmware = "NULL" /\ result = INSTALL_SUCCESS
  /\ child = NoChild /\ inherited = FALSE
  /\ pipe = <<>> /\ said = <<>> /\ heard = <<>>
  /\ last = Idle

-----------------------------------------------------------------------------
(* The user, between installations.                                        *)

VolumeOf(s, root) ==
  LET info == get_root_info(s, root)
  IN  IF info.device \in {"g_mtd", "g_mmc"} THEN info.partition ELSE info.device
MountsOf(s, volume) == SelectSeq(s.mounts, LAMBDA line : line.volume = volume)

Operation(op, root, outcomes) ==
  /\ phase = "prompt" /\ ops > 0
  /\ ops' = ops - 1
  /\ \E o \in outcomes :
       /\ st' = o.s
       /\ last' = [op |-> op, root |-> root, ret |-> o.ret,
                   before |-> MountsOf(st, VolumeOf(st, root)),
                   faults |-> st.faults - o.s.faults]
  /\ UNCHANGED <<signature_check, recovery, process, stream>>

\* erase_root, from the menu of wipes
FormatRoot(root) == Operation("format", root, format_root_device(st, root))

\* create_mount_items
MountOrUnmount(root) ==
  /\ root # "BOOT:"
  /\ Operation("toggle", root,
       Then(is_root_path_mounted(st, root), LAMBDA t, mounted :
         IF mounted THEN ensure_root_path_unmounted(t, root)
         ELSE ensure_root_path_mounted(t, root)))

\* The menu of file systems: force_format_ext3, force_format_ext4 and
\* upgrade_ext3_to_ext4.
ConvertRoot(root, fs) ==
  /\ st.build # "nand" /\ root \in {"SYSTEM:", "DATA:", "CACHE:"}
  /\ Operation("convert", root,
       IF fs = "upgrade" THEN upgrade_ext3_to_ext4(st, root)
       ELSE force_format(st, root, fs))

-----------------------------------------------------------------------------
(* install_package up to the decision how to install.                      *)

\* The package, as long as the card that holds it is mounted last.
OnCard(s) == "update.zip" \in s.files[Where(s, "/sdcard")]

\* show_choose_zip_menu: the card is mounted, and a zip on it chosen
\* and confirmed.
ChoosePackage ==
  /\ phase = "prompt" /\ ops > 0
  /\ ops' = ops - 1
  /\ \E o \in ensure_root_path_mounted(st, "SDCARD:") :
       /\ st' = o.s
       /\ phase' = IF o.ret = 0 /\ OnCard(o.s) THEN "opening" ELSE phase
  /\ last' = Idle
  /\ pipe' = <<>> /\ said' = <<>> /\ heard' = <<>>
  /\ child' = NoChild /\ request' = <<>> /\ command' = 1
  /\ UNCHANGED <<signature_check, package, zip, package_root, firmware, result, inherited>>

\* The same when the user does not confirm: the card is unmounted.
DeclinePackage ==
  /\ phase = "prompt" /\ ops > 0
  /\ ops' = ops - 1
  /\ \E o \in ensure_root_path_mounted(st, "SDCARD:") :
       /\ o.ret = 0 /\ OnCard(o.s)
       /\ st' \in Unmounting(o.s, "SDCARD:")
  /\ last' = Idle
  /\ UNCHANGED <<signature_check, recovery, process, stream>>

\* What install_package does at its end.
Return(res) ==
  /\ result' = res
  /\ phase' = "closing"

Goto(next) == phase' = next /\ UNCHANGED result

\* mzOpenZipArchive: the package is mapped as long as it is open.
mzOpenZipArchive(s) ==
  LET there == Where(s, "/sdcard")
  IN  IF ~OnCard(s) THEN {Out(s, -1)}
      ELSE Try(s, [s EXCEPT !.busy = {there}], -1)

OpenPackage ==
  /\ phase = "opening"
  /\ \E o \in Then(ensure_root_path_mounted(st, "SDCARD:"), LAMBDA t, ret :
               IF ret # 0 THEN {Out(t, -1)} ELSE mzOpenZipArchive(t)) :
       /\ st' = o.s
       /\ IF o.ret # 0 THEN Return(INSTALL_CORRUPT) /\ UNCHANGED zip
          ELSE Goto("opened") /\ zip' = parseZipArchive(package.cd)
  /\ UNCHANGED <<signature_check, package, request, command, package_root,
                 firmware, process, stream, last, ops>>

\* handle_update_package: load_keys and verify_jar_signature
VerifyPackage ==
  /\ phase = "opened"
  /\ IF ~signature_check THEN Goto("verified") /\ UNCHANGED st
     ELSE \/ /\ UNCHANGED st
             /\ IF verify_jar_signature(package, zip)
                THEN Goto("verified") ELSE Return(INSTALL_CORRUPT)
          \/ /\ st' \in Failing(st)
             /\ Return(INSTALL_CORRUPT)
  /\ UNCHANGED <<signature_check, package, zip, request, command, package_root,
                 firmware, process, stream, last, ops>>

-----------------------------------------------------------------------------
(* try_update_binary                                                       *)

\* Mutant: recovery waits for the process before it reads the pipe.
WaitAtOnce ==
  /\ phase = "verified"
  /\ LET entry == mzFindZipEntry(zip, BinaryName)
     IN  IF entry = NoEntry THEN Goto("no binary") /\ UNCHANGED child
         ELSE Goto("waiting") /\ child' = [NoChild EXCEPT !.pc = "started", !.open = TRUE]
  /\ UNCHANGED <<st, signature_check, package, zip, request, command, package_root,
                 firmware, inherited, stream, last, ops>>

\* The binary is copied to /tmp and run.  When fork() fails, recovery goes on
\* with a pid of -1.
StartBinary ==
  /\ phase = "verified"
  /\ LET entry == mzFindZipEntry(zip, BinaryName)
         Copied == Then(Try(st, st, -1), LAMBDA s, ret :
                     IF ret < 0 THEN {Out(s, FALSE)} ELSE mzReadZipEntry(s, entry))
     IN  IF entry = NoEntry
         THEN Goto("no binary") /\ UNCHANGED <<st, child, package_root>>
         ELSE \E o \in Copied :
                \/ /\ ~o.ret
                   /\ st' = o.s /\ Return(INSTALL_ERROR) /\ package_root' = FALSE
                   /\ UNCHANGED child
                \/ /\ o.ret
                   /\ Goto("reading") /\ UNCHANGED package_root
                   /\ \/ /\ st' = o.s
                         /\ child' = [NoChild EXCEPT !.pc = "started", !.open = TRUE]
                      \/ /\ st' \in Failing(o.s)
                         /\ child' = [NoChild EXCEPT !.pc = "never"]
  /\ UNCHANGED <<signature_check, package, zip, request, command, firmware,
                 inherited, stream, last, ops>>

\* A piece that asks for a firmware update: a type and a file.
Complete(piece) == piece.command = "firmware" /\ Len(piece.args) = 2

\* Mutant: a later request replaces an earlier one.
ReadLatest ==
  /\ phase = "reading" /\ pipe # <<>>
  /\ request' = IF Complete(Head(pipe)) THEN Head(pipe).args ELSE request
  /\ heard' = Append(heard, Head(pipe)) /\ pipe' = Tail(pipe)
  /\ UNCHANGED <<st, signature_check, phase, package, zip, command, package_root,
                 firmware, result, process, said, last, ops>>

\* One turn of the loop that reads the pipe: a buffer of 80 characters at most
\* is a command.  A progress without its numbers is a null pointer.
ReadPiece ==
  /\ phase = "reading" /\ pipe # <<>>
  /\ LET piece == Head(pipe)
         numbers == "progress" :> 2 @@ "set_progress" :> 1
     IN  /\ IF piece.command \in DOMAIN numbers /\ Len(piece.args) < numbers[piece.command]
            THEN Goto("crashed") ELSE UNCHANGED <<phase, result>>
         /\ request' = IF Complete(piece) /\ request = <<>> THEN piece.args ELSE request
         /\ heard' = Append(heard, piece)
  /\ pipe' = Tail(pipe)
  /\ UNCHANGED <<st, signature_check, package, zip, command, package_root, firmware,
                 process, said, last, ops>>

\* The end of the file comes when nobody can write to the pipe any more.
ReadEnd ==
  /\ phase = "reading" /\ pipe = <<>>
  /\ ~child.open /\ ~inherited
  /\ Goto("waiting")
  /\ UNCHANGED <<st, signature_check, package, zip, request, command, package_root,
                 firmware, process, stream, last, ops>>

\* Mutants: the exit status is the result; or it is not looked at when there is
\* nothing else to do.
ReturnStatus ==
  /\ phase = "waiting" /\ child.pc = "gone"
  /\ Return(child.code) /\ package_root' = FALSE
  /\ UNCHANGED <<st, signature_check, package, zip, request, command, firmware,
                 process, stream, last, ops>>
IgnoreStatus ==
  /\ phase = "waiting" /\ child.pc \in {"gone", "never"}
  /\ IF request # <<>> THEN Goto("firmware") /\ UNCHANGED package_root
     ELSE Return(INSTALL_SUCCESS) /\ package_root' = FALSE
  /\ UNCHANGED <<st, signature_check, package, zip, request, command, firmware,
                 process, stream, last, ops>>

\* waitpid.  Without a child it leaves the status as it is.
WaitForBinary ==
  /\ phase = "waiting"
  /\ \E code \in IF child.pc = "never" THEN {0, 1} ELSE {child.code} :
       /\ child.pc \in {"gone", "never"}
       /\ IF code # 0 THEN Return(INSTALL_ERROR) /\ package_root' = FALSE
          ELSE IF request # <<>> THEN Goto("firmware") /\ UNCHANGED package_root
          ELSE Return(INSTALL_SUCCESS) /\ package_root' = FALSE
  /\ UNCHANGED <<st, signature_check, package, zip, request, command, firmware,
                 process, stream, last, ops>>

\* handle_firmware_update: the image, of the package or of a file, is read and
\* kept, unless there is one already.
PackageFiles == [f \in {"PACKAGE:radio.img", "PACKAGE:none.img"} |->
                   IF f = "PACKAGE:radio.img" THEN "radio.img" ELSE "none.img"]
ReadFirmware(s, file) ==
  IF file \in DOMAIN PackageFiles
  THEN LET entry == mzFindZipEntry(zip, PackageFiles[file])
       IN  IF entry = NoEntry THEN {Out(s, FALSE)} ELSE mzReadZipEntry(s, entry)
  ELSE IF FileExists(s, file)
  THEN {Out(s, TRUE)} \cup {Out(t, FALSE) : t \in Failing(s)}
  ELSE {Out(s, FALSE)}

KeepFirmware ==
  /\ phase = "firmware"
  /\ \E o \in ReadFirmware(st, request[2]) :
       /\ st' = o.s
       /\ IF ~o.ret \/ firmware # "NULL"
          THEN Return(INSTALL_ERROR) /\ UNCHANGED firmware
          ELSE Return(INSTALL_SUCCESS) /\ firmware' = request[2]
  /\ package_root' = FALSE
  /\ UNCHANGED <<signature_check, package, zip, request, command, process, stream,
                 last, ops>>

-----------------------------------------------------------------------------
(* handle_update_script                                                    *)

\* The package is registered as PACKAGE:, and its script read and parsed.
StartScript ==
  /\ phase = "no binary"
  /\ LET entry == mzFindZipEntry(zip, ScriptName)
     IN  IF entry = NoEntry
         THEN Return(INSTALL_CORRUPT) /\ UNCHANGED <<st, package_root>>
         ELSE \E o \in mzReadZipEntry(st, entry) :
                /\ st' = o.s
                /\ IF o.ret /\ parses(package.commands)
                   THEN Goto("script") /\ package_root' = TRUE
                   ELSE Return(INSTALL_ERROR) /\ package_root' = FALSE
  /\ UNCHANGED <<signature_check, package, zip, request, command, firmware, process,
                 stream, last, ops>>

\* execCommandList, one command
RunCommand ==
  /\ phase = "script" /\ command <= Len(package.commands)
  /\ LET it == package.commands[command]
     IN  \E o \in execCommand(Context(st, zip, package_root, firmware), it) :
           /\ st' = o.s.s
           /\ firmware' = o.s.firmware
           /\ last' = IF it.cmd # "format" \/ Len(it.argv) # 1 THEN Idle
                      ELSE [op |-> "cmd_format", root |-> it.argv[1], ret |-> o.ret,
                            before |-> MountsOf(st, VolumeOf(st, it.argv[1])),
                            faults |-> st.faults - o.s.s.faults]
           /\ IF o.ret = 0
              THEN command' = command + 1 /\ UNCHANGED <<phase, result, package_root>>
              ELSE /\ Return(INSTALL_ERROR) /\ package_root' = FALSE
                   /\ UNCHANGED command
  /\ UNCHANGED <<signature_check, package, zip, request, process, stream, ops>>

\* Mutants: the package stays registered; or the result is one of a package
\* that was not touched.
StayRegistered ==
  /\ phase = "script" /\ command > Len(package.commands)
  /\ Return(INSTALL_SUCCESS)
  /\ UNCHANGED <<st, signature_check, package, zip, request, command, package_root,
                 firmware, process, stream, last, ops>>
EndCorrupt ==
  /\ phase = "script" /\ command > Len(package.commands)
  /\ Return(INSTALL_CORRUPT) /\ package_root' = FALSE
  /\ UNCHANGED <<st, signature_check, package, zip, request, command, firmware,
                 process, stream, last, ops>>

EndScript ==
  /\ phase = "script" /\ command > Len(package.commands)
  /\ Return(INSTALL_SUCCESS) /\ package_root' = FALSE
  /\ UNCHANGED <<st, signature_check, package, zip, request, command, firmware,
                 process, stream, last, ops>>

\* mzCloseZipArchive, and the card is unmounted.
ClosePackage ==
  /\ phase = "closing"
  /\ phase' = "prompt"
  /\ zip' = NoZip
  /\ st' \in Unmounting([st EXCEPT !.busy = {}], "SDCARD:")
  /\ UNCHANGED <<signature_check, package, request, command, package_root,
                 firmware, result, process, stream, last, ops>>

-----------------------------------------------------------------------------
(* The updater of this tree (updater.c).                                   *)

ChildUnchanged == UNCHANGED <<signature_check, recovery, last, ops>>
IsUpdater == mzFindZipEntry(zip, BinaryName).data = "updater"

\* The way out of main: what is still to be printed, and the exit status.
Leaving(printed, code) ==
  [child EXCEPT !.pc = "leaving", !.out = printed, !.code = code]

\* main before the evaluation, and its exit statuses 3 to 6
UpdaterStart ==
  /\ child.pc = "started" /\ IsUpdater
  /\ LET entry == mzFindZipEntry(zip, UpdaterScriptName)
     IN  \/ st' \in Failing(st) /\ child' = Leaving(<<>>, 3)
         \/ /\ entry = NoEntry
            /\ UNCHANGED st /\ child' = Leaving(<<>>, 4)
         \/ /\ entry # NoEntry
            /\ \E o \in mzReadZipEntry(st, entry) :
                 /\ st' = o.s
                 /\ child' = IF ~o.ret THEN Leaving(<<>>, 5)
                             ELSE IF ~package.parses THEN Leaving(<<>>, 6)
                             ELSE [child EXCEPT !.pc = "running"]
  /\ ChildUnchanged /\ UNCHANGED <<inherited, stream>>

\* A statement: all but the last are freed, and the last must be a string.
Statement(n, t) ==
  LET expr == package.script[n]
  IN  IF n = Len(package.script) THEN Evaluate(EvaluateValue(t, expr))
      ELSE Bind(EvaluateValue(t, expr), FreeValue)

UpdaterStep ==
  /\ child.pc = "running" /\ child.out = <<>> /\ IsUpdater
  /\ LET n == child.next
     IN  \E o \in Statement(n, Evaluator(st, zip)) :
           /\ st' = o.s.s
           /\ child' = CASE o.ret = "NULL" -> Leaving(o.s.out \o Report(o.s), 7)
                         [] o.ret = "CRASH" -> Leaving(o.s.out, 139)
                         [] o.ret = "HANG" -> [Leaving(o.s.out, 0) EXCEPT !.pc = "hanging"]
                         [] o.ret \notin Ends /\ n = Len(package.script) ->
                              Leaving(o.s.out, 0)
                         [] OTHER -> [child EXCEPT !.next = n + 1, !.out = o.s.out]
  /\ ChildUnchanged /\ UNCHANGED <<inherited, stream>>

\* What it printed goes into the pipe as soon as there is room.
ChildWrites ==
  /\ child.out # <<>> /\ Len(pipe) < PipeSize
  /\ pipe' = Append(pipe, Head(child.out))
  /\ said' = Append(said, Head(child.out))
  /\ child' = [child EXCEPT !.out = Tail(@)]
  /\ ChildUnchanged /\ UNCHANGED <<st, inherited, heard>>

ChildExits ==
  /\ child.pc = "leaving" /\ child.out = <<>>
  /\ child' = [child EXCEPT !.pc = "gone", !.open = FALSE]
  /\ ChildUnchanged /\ UNCHANGED <<st, inherited, stream>>

(* A foreign program: it says something, as long as it has the pipe open,  *)
(* leaves a process behind, closes the pipe, or writes to a volume; and    *)
(* then exits.                                                             *)

ForeignStep ==
  /\ child.pc \in {"started", "running"} /\ child.out = <<>> /\ ~IsUpdater
  /\ LET n == child.next
         step == package.program[n]
         next == [child EXCEPT !.pc = "running", !.next = n + 1]
     IN  IF n > Len(package.program)
         THEN child' = Leaving(<<>>, package.code) /\ UNCHANGED <<st, inherited>>
         ELSE /\ child' = CASE step.do = "say" /\ child.open ->
                                   [next EXCEPT !.out = <<step.piece>>]
                            [] step.do = "close" -> [next EXCEPT !.open = FALSE]
                            [] OTHER -> next
              /\ inherited' = (inherited \/ step.do = "fork")
              /\ st' = IF step.do = "write"
                       THEN [st EXCEPT !.files[step.place] = @ \cup {step.file}]
                       ELSE st
  /\ ChildUnchanged /\ UNCHANGED stream

BackgroundEnds ==
  /\ inherited
  /\ inherited' = FALSE
  /\ ChildUnchanged /\ UNCHANGED <<st, child, stream>>

-----------------------------------------------------------------------------

User ==
  \/ ChoosePackage \/ DeclinePackage
  \/ \E root \in UserRoots :
       \/ FormatRoot(root)
       \/ MountOrUnmount(root)
       \/ \E fs \in {"ext3", "ext4", "upgrade"} : ConvertRoot(root, fs)

Recovery ==
  \/ OpenPackage \/ VerifyPackage \/ StartBinary
  \/ ReadPiece \/ ReadEnd \/ WaitForBinary \/ KeepFirmware
  \/ StartScript \/ RunCommand \/ EndScript \/ ClosePackage

Child ==
  \/ UpdaterStart \/ UpdaterStep \/ ChildWrites \/ ChildExits \/ ForeignStep

Next == User \/ Recovery \/ Child \/ BackgroundEnds

\* When recovery, and the update binary, can take a step: recovery reads a pipe
\* that has something in it or has no writer, and waits for a process that is
\* gone; the binary writes while there is room.  Nothing else makes them wait.
RecoveryCanStep ==
  CASE phase = "reading" -> pipe # <<>> \/ (~child.open /\ ~inherited)
    [] phase = "waiting" -> child.pc \in {"gone", "never"}
    [] OTHER -> phase \notin {"prompt", "crashed"}
ChildCanStep ==
  IF child.out = <<>> THEN child.pc \in {"started", "running", "leaving"}
  ELSE Len(pipe) < PipeSize

\* Processes are scheduled, and a process left behind ends some day.  The first
\* two are WF_vars(Recovery) and WF_vars(Child), with ENABLED written out, and
\* each side's steps told by what every one of them changes; the steps of the
\* user change that too, but are few.
Fairness ==
  /\ []<>~RecoveryCanStep \/ []<><<TRUE>>_<<phase, command, heard>>
  /\ []<>~ChildCanStep \/ []<><<TRUE>>_child
  /\ WF_vars(BackgroundEnds)

Spec == Init /\ [][Next]_vars /\ Fairness

-----------------------------------------------------------------------------
(* Properties.                                                             *)

\* Every variable keeps its type: whatever a script says, the storage stays one,
\* and no more calls fail than may; the pipe never holds more than fits into it.
TypeOK ==
  /\ st \in Storage /\ st.faults <= MaxFaults
  /\ signature_check \in BOOLEAN /\ package_root \in BOOLEAN /\ inherited \in BOOLEAN
  /\ phase \in {"prompt", "opening", "opened", "verified", "no binary", "reading",
                "waiting", "firmware", "script", "closing", "crashed"}
  /\ package \in Packages
  /\ request \in Seq(Texts) /\ command \in Nat /\ ops \in Nat
  /\ result \in {INSTALL_SUCCESS, INSTALL_ERROR, INSTALL_CORRUPT}
  /\ child \in [pc : {"none", "never", "started", "running", "leaving", "hanging", "gone"},
                next : Nat, out : Seq(PieceType), open : BOOLEAN, code : Nat]
  /\ said \in Seq(PieceType) /\ heard \in Seq(PieceType)
  /\ pipe \in Seq(PieceType) /\ Len(pipe) <= PipeSize

\* A file can be had of a package only while the package is open: the package
\* root is registered while its script runs, and at no other time.
PackageRootIsOpen ==
  package_root <=> phase = "script" /\ st.busy # {}

\* The firmware images that were asked for, and the first of them.
Requests == {i \in DOMAIN said : Complete(said[i])}
FirstAsked == said[CHOOSE i \in Requests : \A j \in Requests : i <= j].args[2]

\* INSTALL_SUCCESS of a package with an update binary means that the binary
\* exited with status 0 (or could not be forked), the updater behind the last
\* statement of its script; that everything it said was heard, in its order;
\* and that the first firmware image it asked for is kept.
SuccessMeansDone ==
  phase = "closing" /\ result = INSTALL_SUCCESS /\ child.pc # "none" =>
    \/ child.pc = "never"
    \/ /\ child.pc = "gone" /\ child.code = 0
       /\ heard = said
       /\ IsUpdater => child.next = Len(package.script)
       /\ Requests # {} => firmware = FirstAsked

\* An image is kept once: by an update binary at the very end, when it has
\* exited with status 0, and then the first one that it asked for.
FirmwareIsFirstAsked ==
  [][firmware' # firmware =>
       /\ firmware = "NULL"
       /\ \/ phase = "script"
          \/ /\ phase = "firmware" /\ child.pc \in {"gone", "never"} /\ child.code = 0
             /\ heard = said /\ firmware' = FirstAsked]_vars

\* What a signed package is: every file of it, but the signature's own, has a
\* line of the manifest with its digest, and no line is without its file.
Signed(p) ==
  LET files == {i \in DOMAIN p.cd : /\ p.cd[i].kind # "dir"
                                    /\ p.cd[i].name \notin {RsaName, SfName, ManifestName}}
      Vouches(j, i) == /\ p.mf[j].name = p.cd[i].name
                       /\ p.mf[j].digest = p.cd[i].data /\ p.cd[i].intact
  IN  /\ p.rsa /\ p.sf
      /\ \A i \in files : \E j \in DOMAIN p.mf : Vouches(j, i)
      /\ \A j \in DOMAIN p.mf : \E i \in files : Vouches(j, i)

\* With the check of signatures enabled, a package that is not signed gets no
\* further than the check.
OnlySignedInstalls ==
  signature_check /\ phase \in {"verified", "no binary", "reading", "waiting",
                                "firmware", "script"} => Signed(package)

\* mzFindZipEntry finds an entry of every name that is in the package, of several
\* the one that comes first in the central directory, and no other: the sorting
\* puts an equal name behind the ones that are there, and the table keeps the
\* first.  And the entries of a directory lie together.
LookupFindsEntry ==
  phase = "opened" =>
    /\ \A name \in Names :
         LET found == mzFindZipEntry(zip, name)
             named == {i \in DOMAIN package.cd : package.cd[i].name = name}
         IN  IF named = {} THEN found = NoEntry
             ELSE /\ found.name = name /\ found.at \in named
                  /\ \A i \in named : found.at <= i
                  /\ found.data = package.cd[found.at].data
    /\ {e.at : e \in ToSet(Matching(zip, "system"))}
         = {i \in DOMAIN package.cd : package.cd[i].name \in Under("system")}

\* A root that was formatted with result 0 is not mounted any more, and holds
\* nothing; unless something failed, or it had been mounted twice (mke2fs may
\* refuse it) or, by a package, read-only (rm removes nothing): nobody looks at
\* their status.  The card that an amend script formats stays mounted, as the
\* package on it is open, and the format returns 0.
\* (With a partition table and full formats enabled the type that is compared
\* may be anything.)
FormatDone ==
  LET volume == VolumeOf(st, last.root)
      flash == st.build = "nand" /\ volume \in OnFlash
      once == Len(last.before) <= 1
      writable == \A i \in DOMAIN last.before : ~last.before[i].ro
      open == last.op = "cmd_format" /\ volume = "sdcard"
  IN  last.op \in {"format", "cmd_format"} /\ last.ret = 0 /\ volume \in VolumeNames =>
        /\ once /\ ~open /\ (last.faults = 0 \/ flash) => MountsOf(st, volume) = <<>>
        /\ last.faults = 0 /\ ((once /\ writable) \/ flash) /\ ~(st.build = "mmc" /\ st.full) =>
             st.files[volume] = {}

\* An operation on a root leaves what the volumes of the others hold alone.
OthersLeftAlone ==
  [][last' # last /\ phase = "prompt" /\ phase' = "prompt" =>
       \A v \in VolumeNames \ {VolumeOf(st, last'.root)} :
         st'.files[v] = st.files[v] /\ st'.fs[v] = st.fs[v]]_vars

\* A script that has copied a directory and succeeded: the volume holds every
\* file of it.
Copied(commands) ==
  \E i \in DOMAIN commands :
    /\ commands[i].cmd = "copy_dir" /\ commands[i].argv = <<"PACKAGE:system", "SYSTEM:">>
    /\ \A j \in (i + 1)..Len(commands) : commands[j].cmd \notin {"format", "delete_recursive"}
EverythingCopied ==
  phase = "closing" /\ result = INSTALL_SUCCESS /\ child.pc = "none" /\ Copied(package.commands) =>
    FilesUnder(package.cd, "system") \subseteq st.files["system"]

\* The same, unless an entry is damaged or something failed.
CopiedUnlessFailing ==
  phase = "closing" /\ st.faults = MaxFaults
    /\ (\A i \in DOMAIN package.cd : package.cd[i].intact) => EverythingCopied

\* Whatever happens, an installation ends: recovery and the update binary do
\* not wait for each other, unless recovery crashes on what the binary says or
\* the binary hangs.
InstallEnds ==
  phase = "opening" ~> \/ phase \in {"prompt", "crashed"}
                       \/ child.pc = "hanging"

\* Installing keeps the promise of InstallOutcome.
Stage ==
  CASE phase \in {"prompt", "closing"} -> "idle"
    [] phase \in {"opening", "opened", "verified", "no binary"} -> "looking"
    [] OTHER -> "installing"
Outcome == INSTANCE InstallOutcome
             WITH stage <- Stage, verdict <- result,
                  contents <- [v \in VolumeNames |-> <<st.fs[v], st.files[v]>>]
KeepsPromise == Outcome!OutcomeSpec

=============================================================================
