------------------------------ MODULE Nandroid ------------------------------
(***************************************************************************)
(* nandroid-mobile.sh, which the backup and restore menus of recovery.c    *)
(* run: a backup dumps the chosen partitions to files of a directory on    *)
(* the SD card, verifies the raw ones, writes the sums of all files, and   *)
(* may compress them; a restore unpacks, checks the sums, and only then    *)
(* flashes and erases.  Tools fail, files rot, power goes at any step.     *)
(*                                                                         *)
(* A content is a pair: the partition it comes from, and its version.      *)
(***************************************************************************)
EXTENDS Integers, Sequences, SequencesExt

CONSTANTS
  Devices,      \* "nand", "htc" (eMMC with /proc/emmc), "emmc" (getprop)
  Names,        \* directories in $BACKUPPATH
  Selections,   \* the images a menu may have selected
  BySize,       \* the files of a directory, the smallest first, as ls -S -r has them
  MaxVersion,   \* bound: how often the main system changes the partitions
  MaxFaults     \* bound: failures of tools, rotten files, power losses

Raw == <<"boot", "recovery", "misc", "wimax">>
RawRestored == <<"boot", "recovery", "wimax", "misc">>
Trees == <<"system", "data", "cache", "flexrom">>
TreesRestored == <<"data", "system", "cache", "flexrom">>
Archives == <<"ext", "android_secure", "android_internalsd_secure">>
Images == ToSet(Raw) \cup ToSet(Trees) \cup ToSet(Archives)
Md5 == "nandroid.md5"

ASSUME NandroidAssumption ==
  /\ Devices \subseteq {"nand", "htc", "emmc"} /\ Names # {}
  /\ Selections \subseteq SUBSET Images
  /\ BySize \in Seq(Images \cup {Md5}) /\ ToSet(BySize) = Images \cup {Md5}
  /\ MaxVersion \in Nat /\ MaxFaults \in Nat

VARIABLES
  device,   \* EMMCDEVICE and HTCDEVICE
  worn,     \* partitions that dump_image reads short, and the same each time
  part,     \* what is on the partitions
  card,     \* what is in the directories
  s,        \* the script that runs
  faults

vars == <<device, worn, part, card, s, faults>>

None == <<"none", 0>>
Empty == <<"empty", 0>>
Short == <<"short", 0>>       \* what dump_image gives of a worn partition
Partial == <<"partial", 0>>   \* what a tool left that failed
Torn == <<"torn", 0>>         \* what a power loss left
Rotten == <<"rotten", 0>>
Misread(n) == <<"misread", n>>   \* by the first reading, or by a later one
Originals == Images \X (0..MaxVersion)
Contents == Originals \cup
  {None, Empty, Short, Partial, Torn, Rotten, Misread(1), Misread(2)}

\* A directory: its image files, nandroid.md5 (the images it lists, with what
\* they held), and their compressed forms.  The rest is history: what was on the
\* partitions, and which tools failed unnoticed.
Directories ==
  [plain : [Images -> Contents], packed : [Images -> Contents],
   sums : [Images -> Contents], packedSums : [Images -> Contents],
   sumsIn : SUBSET {"plain", "packed"},
   was : [Images -> Contents], missed : SUBSET Images]

Nothing == [i \in Images |-> None]
NoDirectory ==
  [plain |-> Nothing, packed |-> Nothing, sums |-> Nothing,
   packedSums |-> Nothing, sumsIn |-> {}, was |-> Nothing, missed |-> {}]

Stopped == {"stopped", "saved", "restored"}
Saving == {"mount", "raw", "dump", "tree", "sums", "pack"}
Restoring == {"check", "unpack", "verify", "flash", "erase", "fill"}
Scripts ==
  [pc : Stopped \cup Saving \cup Restoring, todo : Seq(Images \cup {Md5}),
   sel : SUBSET Images, name : Names, compress : BOOLEAN,
   block : Images \cup {"foo"}, md5 : Contents, attempt : 0..4,
   missed : SUBSET Images]

Dir == card[s.name]
At(pc) == s.pc = pc
Image == Head(s.todo)
Goto(pc) == s' = [s EXCEPT !.pc = pc]
NextImage == s' = [s EXCEPT !.todo = Tail(@)]
Fault == faults < MaxFaults /\ faults' = faults + 1
Phone == <<device, worn, part>>
Fixed == <<device, worn>>
Files(dir) == {i \in Images : dir[i] # None}

\* What a shell loop keeps of a list: the elements in a set, in their order.
Only(list, keep) ==
  LET first[n \in 0..Len(list)] ==      \* of the first n
        IF n = 0 THEN <<>>
        ELSE IF list[n] \in keep THEN Append(first[n - 1], list[n])
        ELSE first[n - 1]
  IN  first[Len(list)]

OfSize(files) == Only(BySize, files)

\* A process that starts, and one that has ended.
Process(pc, name, sel, compress) ==
  [pc |-> pc, todo |-> <<>>, sel |-> sel, name |-> name, compress |-> compress,
   block |-> "foo", md5 |-> None, attempt |-> 0, missed |-> {}]
Over(pc) == Process(pc, CHOOSE n \in Names : TRUE, {}, FALSE)
Finish(pc) == s' = [Process(pc, s.name, s.sel, FALSE) EXCEPT !.missed = s.missed]

\* The loops "for image in ..." pass over what is not wanted, and over wimax on
\* eMMC devices that are not HTC's.
Wanted(images, sel) ==
  Only(images, IF device = "emmc" THEN sel \ {"wimax"} ELSE sel)
Loop(pc, images) == s' = [s EXCEPT !.pc = pc, !.todo = Wanted(images, s.sel)]

\* exit 1, at any place where the script looks at what a command returned.
Abort == s' = Over("stopped") /\ UNCHANGED <<Phone, card, faults>>

Init ==
  /\ device \in Devices
  /\ worn \in SUBSET IF device = "nand" THEN ToSet(Raw) \cap UNION Selections ELSE {}
  /\ part = [i \in Images |-> <<i, 0>>]
  /\ card = [n \in Names |-> NoDirectory]
  /\ s = Over("stopped")
  /\ faults = 0

Begin(pc, name, sel, compress) ==
  /\ s.pc \in Stopped
  /\ s' = Process(pc, name, sel, compress)
  /\ UNCHANGED <<Phone, card, faults>>

-----------------------------------------------------------------------------
(* --backup                                                                *)

\* show_menu_nandroid.  The directory is named after the selection and the
\* minute: it is new, or what an attempt of the same minute has left, which
\* came to no sums (a backup takes longer).
StartBackup ==
  \E n \in Names, sel \in Selections, compress \in BOOLEAN :
    /\ Begin("mount", n, sel, compress)
    /\ card[n].sumsIn = {}
    /\ \A i \in Images : card[n].was[i] \in IF i \in sel THEN {None, part[i]} ELSE {None}

\* /system and /data read-only, the card; the directory and its free space.
MountAll == At("mount") /\ Loop("raw", Raw) /\ UNCHANGED <<Phone, card, faults>>
MountFails == At("mount") /\ Abort

\* DEVICEBLK.  [ $image = "recovery"] is an error of test: the block stays.
Block(image) ==
  IF device = "htc" /\ image \in {"recovery", "misc"} THEN s.block ELSE image

Reads(block) ==
  IF block = "foo" THEN None
  ELSE IF device = "nand" /\ block \in worn THEN Short ELSE part[block]

\* 5a: the sum of what is on the device.
FirstSum ==
  /\ At("raw") /\ s.todo # <<>>
  /\ \E md5 \in {Reads(Block(Image)), Misread(1)} :
       /\ s' = [s EXCEPT !.pc = "dump", !.block = Block(Image), !.md5 = md5,
                         !.attempt = 0]
       /\ IF md5 = Misread(1) THEN Fault ELSE UNCHANGED faults
  /\ UNCHANGED <<Phone, card>>

\* Mutants of AfterDump: the verification does not count; the attempts do not; one
\* attempt more.
DumpedAnyway(read) ==
  IF s.attempt = 4 THEN Over("stopped")
  ELSE [s EXCEPT !.pc = "raw", !.todo = Tail(@)]
NeverGivesUp(read) ==
  IF read = s.md5 /\ read # None THEN [s EXCEPT !.pc = "raw", !.todo = Tail(@)]
  ELSE s

OneMore(read) ==
  IF s.attempt = 5 THEN Over("stopped")
  ELSE IF read = s.md5 /\ read # None
       THEN [s EXCEPT !.pc = "raw", !.todo = Tail(@)]
  ELSE [s EXCEPT !.attempt = @ + 1]

\* 5b3: the file must have that sum; the fifth attempt ends in vain.
AfterDump(read) ==
  IF s.attempt = 4 THEN Over("stopped")
  ELSE IF read = s.md5 /\ read # None
       THEN [s EXCEPT !.pc = "raw", !.todo = Tail(@)]
  ELSE [s EXCEPT !.attempt = @ + 1]

Wrote(dir, image, content) ==
  [dir EXCEPT !.plain[image] = content, !.was[image] = part[image],
              !.missed = @ \ {image}]

Dump ==
  /\ At("dump")
  /\ \E read \in {Reads(s.block), Misread(2)} :
       /\ card' = IF read = None THEN card
                  ELSE [card EXCEPT ![s.name] = Wrote(@, Image, read)]
       /\ s' = AfterDump(read)
       /\ IF read = Misread(2) THEN Fault ELSE UNCHANGED faults
  /\ UNCHANGED Phone

RawDone ==
  /\ At("raw") /\ s.todo = <<>>
  /\ Loop("tree", Trees \o Archives)
  /\ UNCHANGED <<Phone, card, faults>>

\* mkyaffs2image or tar
SaveTree ==
  /\ At("tree") /\ s.todo # <<>>
  /\ card' = [card EXCEPT ![s.name] = Wrote(@, Image, part[Image])]
  /\ NextImage /\ UNCHANGED <<Phone, faults>>

\* Nobody looks at what they return; an sd-ext that cannot be mounted is left out.
SaveTreeFails ==
  /\ At("tree") /\ s.todo # <<>>
  /\ \E content \in {Partial, Dir.plain[Image]} :
       card' = [card EXCEPT ![s.name] =
                  [Wrote(Dir, Image, content) EXCEPT !.missed = @ \cup {Image}]]
  /\ NextImage /\ Fault /\ UNCHANGED Phone

\* An internal card that cannot be mounted ends the backup.
NoInternalCard ==
  /\ At("tree") /\ s.todo # <<>> /\ Image = "android_internalsd_secure"
  /\ Abort

TreesDone ==
  /\ At("tree") /\ s.todo = <<>>
  /\ Goto("sums") /\ UNCHANGED <<Phone, card, faults>>

\* 7: md5sum *img *tar > nandroid.md5
WriteSums ==
  /\ At("sums")
  /\ card' = [card EXCEPT ![s.name].sums = Dir.plain,
                          ![s.name].sumsIn = @ \cup {"plain"}]
  /\ \/ Finish("saved")
     \/ /\ s.compress
        /\ s' = [s EXCEPT !.pc = "pack",
                          !.todo = OfSize(({Md5} \cup Files(Dir.plain)) \ {"ext"})]
  /\ UNCHANGED <<Phone, faults>>

-----------------------------------------------------------------------------
(* Compression, at the end of a backup or by --compress                    *)

AnyPacked(dir) == "packed" \in dir.sumsIn \/ Files(dir.packed) # {}

StartCompress ==
  \E n \in Names :
    /\ s.pc \in Stopped /\ ~AnyPacked(card[n])
    /\ s' = [Process("pack", n, {}, FALSE) EXCEPT
               !.todo = OfSize(Files(card[n].plain) \cup
                          (IF "plain" \in card[n].sumsIn THEN {Md5} ELSE {}))]
    /\ UNCHANGED <<Phone, card, faults>>

\* gzip writes file.gz and removes file, unless file.gz exists.
PackSums ==
  /\ At("pack") /\ s.todo # <<>> /\ Image = Md5
  /\ card' = [card EXCEPT ![s.name] =
                IF "packed" \in @.sumsIn THEN @
                ELSE [@ EXCEPT !.packedSums = Dir.sums, !.sumsIn = {"packed"}]]
  /\ NextImage /\ UNCHANGED <<Phone, faults>>

PackFile ==
  /\ At("pack") /\ s.todo # <<>> /\ Image # Md5
  /\ card' = [card EXCEPT ![s.name] =
                IF @.packed[Image] # None THEN @
                ELSE [@ EXCEPT !.packed[Image] = Dir.plain[Image],
                               !.plain[Image] = None]]
  /\ NextImage /\ UNCHANGED <<Phone, faults>>

PackFails ==
  /\ At("pack") /\ s.todo # <<>>
  /\ NextImage /\ Fault /\ UNCHANGED <<Phone, card>>

Packed ==
  /\ At("pack") /\ s.todo = <<>>
  /\ Finish("saved") /\ UNCHANGED <<Phone, card, faults>>

-----------------------------------------------------------------------------
(* --restore                                                               *)

\* show_menu_nandroid_restore passes the name of a directory; the script takes
\* the latest one in whose name it occurs, which may be another.
StartRestore ==
  \E n \in Names, sel \in Selections : Begin("check", n, sel, FALSE)

\* The mounts, nandroid.md5 or nandroid.md5.gz, and room to unpack.
CheckSumsFile ==
  /\ At("check")
  /\ IF AnyPacked(Dir)
     THEN /\ "packed" \in Dir.sumsIn
          /\ s' = [s EXCEPT !.pc = "unpack",
                            !.todo = Reverse(OfSize({Md5} \cup Files(Dir.packed)))]
     ELSE "plain" \in Dir.sumsIn /\ Goto("verify")
  /\ UNCHANGED <<Phone, card, faults>>

CheckFails == At("check") /\ Abort

\* gzip -d writes file and removes file.gz; if file exists, it may refuse.
UnpackFile ==
  /\ At("unpack") /\ s.todo # <<>> /\ Image # Md5
  /\ \/ card' = [card EXCEPT ![s.name].plain[Image] = Dir.packed[Image],
                             ![s.name].packed[Image] = None]
     \/ Dir.plain[Image] # None /\ UNCHANGED card
  /\ NextImage /\ UNCHANGED <<Phone, faults>>

UnpackSums ==
  /\ At("unpack") /\ s.todo # <<>> /\ Image = Md5
  /\ \/ card' = [card EXCEPT ![s.name].sums = Dir.packedSums,
                             ![s.name].sumsIn = {"plain"}]
     \/ "plain" \in Dir.sumsIn /\ UNCHANGED card
  /\ NextImage /\ UNCHANGED <<Phone, faults>>

UnpackFails ==
  /\ At("unpack") /\ s.todo # <<>>
  /\ NextImage /\ Fault /\ UNCHANGED <<Phone, card>>

Unpacked ==
  /\ At("unpack") /\ s.todo = <<>>
  /\ Goto("verify") /\ UNCHANGED <<Phone, card, faults>>

\* Mutant of Verified: the status of md5sum is not looked at.
Unverified(dir) == "plain" \in dir.sumsIn

\* md5sum -c nandroid.md5
Verified(dir) ==
  /\ "plain" \in dir.sumsIn
  /\ \A i \in Images : dir.sums[i] # None => dir.plain[i] = dir.sums[i]

\* Mutant of Restorable: what is selected is restored.
RestorableAll(dir, sel) == sel

\* What has no file is not restored; nobody looks for files of misc and cache.
Restorable(dir, sel) ==
  {i \in sel : dir.plain[i] # None \/ dir.packed[i] # None
               \/ i \in {"misc", "cache"}}

Verify ==
  /\ At("verify") /\ Verified(Dir)
  /\ s' = [s EXCEPT !.pc = "flash", !.sel = Restorable(Dir, @),
                    !.todo = Wanted(RawRestored, Restorable(Dir, s.sel))]
  /\ UNCHANGED <<Phone, card, faults>>

VerifyFails == At("verify") /\ ~Verified(Dir) /\ Abort

\* What is on the partitions when a file has been written; without it tools fail.
Filled(image) ==
  IF Dir.plain[image] = None THEN part
  ELSE [part EXCEPT ![image] = Dir.plain[image]]

\* flash_image, or dd to the partition's block
Flash ==
  /\ At("flash") /\ s.todo # <<>>
  /\ part' = Filled(Image)
  /\ NextImage /\ UNCHANGED <<Fixed, card, faults>>

\* Nobody looks at what flash_image, dd, unyaffs and tar return.
Unnoticed(pc) ==
  /\ s' = [s EXCEPT !.pc = pc, !.todo = Tail(@), !.missed = @ \cup {Image}]
  /\ Fault /\ UNCHANGED <<Fixed, card>>

FlashFails ==
  /\ At("flash") /\ s.todo # <<>> /\ Dir.plain[Image] # None
  /\ part' \in {part, [part EXCEPT ![Image] = Partial]}
  /\ Unnoticed("flash")

FlashDone ==
  /\ At("flash") /\ s.todo = <<>>
  /\ Loop("erase", TreesRestored \o Archives)
  /\ UNCHANGED <<Phone, card, faults>>

\* rm -rf * in the mounted directory; of the archives, only if there is the file
Erased(image) ==
  IF image \in ToSet(Archives) /\ Dir.plain[image] = None THEN part
  ELSE [part EXCEPT ![image] = Empty]

\* The script does not look at the result of its cd, which is taken to succeed: init.rc
\* makes the directories, and /data and /system were seen to be mounted.
Erase ==
  /\ At("erase") /\ s.todo # <<>>
  /\ part' = Erased(Image)
  /\ Goto("fill") /\ UNCHANGED <<Fixed, card, faults>>

\* sd-ext or the internal card cannot be mounted, after all the rest is restored.
NoSuchCard ==
  /\ At("erase") /\ s.todo # <<>>
  /\ Image \in {"ext", "android_internalsd_secure"} /\ Abort

\* unyaffs or tar
Fill ==
  /\ At("fill")
  /\ part' = Filled(Image)
  /\ s' = [s EXCEPT !.pc = "erase", !.todo = Tail(@)]
  /\ UNCHANGED <<Fixed, card, faults>>

FillFails ==
  /\ At("fill")
  /\ part' \in {part, [part EXCEPT ![Image] = Partial]}
  /\ Unnoticed("erase")

RestoreDone ==
  /\ At("erase") /\ s.todo = <<>>
  /\ Finish("restored") /\ UNCHANGED <<Phone, card, faults>>

-----------------------------------------------------------------------------
(* What happens around the script                                          *)

\* The main system runs, and everything on the partitions changes.
Use ==
  /\ s.pc \in Stopped
  /\ \E v \in 1..MaxVersion :
       /\ \A i \in Images : part[i] # <<i, v>>
       /\ \A n \in Names, i \in Images : card[n].was[i][2] < v
       /\ part' = [i \in Images |-> <<i, v>>]
  /\ s' = Over("stopped") /\ UNCHANGED <<Fixed, card, faults>>

\* --delete, or the owner with a computer.  A later backup has another name.
Delete ==
  \E n \in Names :
    /\ s.pc \in Stopped /\ card[n].sumsIn # {}
    /\ card' = [card EXCEPT ![n] = [NoDirectory EXCEPT !.was = card[n].was]]
    /\ s' = Over("stopped") /\ UNCHANGED <<Phone, faults>>

Rot ==
  \E n \in Names, i \in Images :
    /\ s.pc \in Stopped
    /\ \/ card[n].plain[i] # None /\ card' = [card EXCEPT ![n].plain[i] = Rotten]
       \/ card[n].packed[i] # None /\ card' = [card EXCEPT ![n].packed[i] = Rotten]
    /\ s' = Over("stopped") /\ Fault /\ UNCHANGED Phone

\* The file or the partition that is being written is torn.
TornCard ==
  IF s.pc \in {"dump", "tree"} /\ s.todo # <<>>
  THEN {[card EXCEPT ![s.name] = Wrote(@, Image, Torn)]}
  ELSE IF At("sums")
  THEN {[card EXCEPT ![s.name].sums =
           [i \in Images |-> IF i \in listed THEN Dir.plain[i] ELSE None],
                     ![s.name].sumsIn = @ \cup {"plain"}] : listed \in SUBSET s.sel}
  ELSE IF s.todo = <<>> \/ Image = Md5 THEN {}
  ELSE IF At("pack") /\ Dir.packed[Image] = None
  THEN {[card EXCEPT ![s.name].packed[Image] = Torn]}
  ELSE IF At("unpack") THEN {[card EXCEPT ![s.name].plain[Image] = Torn]}
  ELSE {}

TornPart ==
  IF \/ At("flash") /\ s.todo # <<>> /\ Dir.plain[Image] # None
     \/ s.pc \in {"erase", "fill"} /\ s.todo # <<>>
  THEN {[part EXCEPT ![Image] = Torn]} ELSE {}

PowerLoss ==
  /\ s.pc \notin Stopped
  /\ card' \in {card} \cup TornCard
  /\ part' \in {part} \cup TornPart
  /\ s' = Over("stopped") /\ Fault /\ UNCHANGED Fixed

-----------------------------------------------------------------------------
(* The specification                                                       *)

Backup ==
  \/ MountAll \/ MountFails \/ FirstSum \/ Dump \/ RawDone
  \/ SaveTree \/ SaveTreeFails \/ NoInternalCard \/ TreesDone
  \/ WriteSums \/ PackSums \/ PackFile \/ PackFails \/ Packed

Restore ==
  \/ CheckSumsFile \/ CheckFails \/ UnpackFile \/ UnpackFails \/ UnpackSums
  \/ Unpacked
  \/ Verify \/ VerifyFails \/ Flash \/ FlashFails \/ FlashDone
  \/ Erase \/ NoSuchCard \/ Fill \/ FillFails \/ RestoreDone

Owner == StartBackup \/ StartCompress \/ StartRestore \/ Use \/ Delete \/ Rot

Next == Backup \/ Restore \/ Owner \/ PowerLoss

Spec == Init /\ [][Next]_vars

\* A script that can go on does so, unless power goes.
FairSpec == Spec /\ WF_vars(Backup \/ Restore)

-----------------------------------------------------------------------------
(* Properties                                                              *)

\* The directories hold what the script can have put there, and no partition is
\* dumped more than five times.
TypeOK ==
  /\ device \in Devices
  /\ worn \subseteq Images
  /\ part \in [Images -> Contents]
  /\ card \in [Names -> Directories]
  /\ s \in Scripts
  /\ faults \in 0..MaxFaults

\* The images whose blocks the backup of an HTC eMMC device does not find, and
\* those that dump_image reads short, whose sums agree all the same.
WrongBlock(i) == device = "htc" /\ i \in {"recovery", "misc"}
ReadShort(i) == device = "nand" /\ i \in worn

\* The file is what was on the partition, but for what the script cannot see: a
\* tool that failed unnoticed, and a file that nandroid.md5 does not list.
Intact(dir, i) ==
  \/ dir.plain[i] = dir.was[i]
  \/ i \in dir.missed \/ dir.sums[i] = None
  \/ WrongBlock(i) \/ ReadShort(i)

\* A restore changes a partition only while all files of its directory are what
\* was on the partitions: torn, rotten, half unpacked and mixed backups are found
\* before anything is flashed or erased.
ErasesOnlyIntact ==
  [][s.pc \in Restoring /\ part' # part => \A i \in Images : Intact(Dir, i)]_vars

\* A restore empties only what it has a file for; it empties /cache in any case.
EmptiesOnlyToFill ==
  [][\A i \in Images : part'[i] = Empty /\ part[i] # Empty =>
       i \in Files(Dir.plain) \cup Files(Dir.packed) \cup {"cache"}]_vars

\* A restore that ends well leaves each partition it has a file for as it was when
\* the backup read it, whatever failed, rotted and was torn in between - unless
\* a tool failed unnoticed.
RoundTrip ==
  At("restored") =>
    \A i \in s.sel \cap Files(Dir.plain) :
      part[i] = Dir.was[i] \/ i \in s.missed \/ (Intact(Dir, i) /\ part[i] = Dir.plain[i])

\* Every backup, restore and compression ends: a dump that never has the right
\* sum is given up.
ScriptEnds == s.pc \notin Stopped ~> s.pc \in Stopped

-----------------------------------------------------------------------------
(* nandroid-mobile.sh, lines 57 to 60: "for partitions boot recovery misc: *)
(* get md5sum for content of current partition", "dump current partition". *)

RawImagesAreOwn ==
  At("saved") =>
    \A i \in ToSet(Raw) \cap s.sel : Dir.plain[i] \in {None, Dir.was[i]} \/ ReadShort(i)

=============================================================================
