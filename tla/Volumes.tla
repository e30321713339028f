------------------------------ MODULE Volumes ------------------------------
(***************************************************************************)
(* The roots of roots.c over the volumes of a device: what is mounted where*)
(* (mounts.c), how a partition is found (mtdutils.c, mmcutils.c), and how a*)
(* root is mounted, unmounted and formatted (roots.c, extracommands.c).    *)
(*                                                                         *)
(* Every function of the code is an operator from a storage record to the  *)
(* set of its outcomes [s, ret]: the storage afterwards and the value that *)
(* the function returns.  The record is                                    *)
(*   build   "nand" (USES_NAND_MTD), "emmc" (the partitions are the block  *)
(*           devices of define_roots.h) or "mmc" (they are g_mmc_device,   *)
(*           and found in the partition table)                             *)
(*   full    full_ext_format_enabled                                       *)
(*   mounts  the lines of /proc/mounts, less those of the kernel           *)
(*   fs      the file system on every volume                               *)
(*   files   what is kept in every volume, or elsewhere                    *)
(*   busy    the volumes with a file open                                  *)
(*   faults  how many more calls of the kernel or of a program may fail    *)
(***************************************************************************)
EXTENDS Integers, Sequences, FiniteSets, SequencesExt, Programs

Builds == {"nand", "emmc", "mmc"}
VolumeNames == {"boot", "cache", "userdata", "system", "sdcard", "sd-ext"}

\* /tmp is a tmpfs, and below a mount point where nothing is mounted are the
\* directories of the root file system.
Places == VolumeNames \cup {"tmpfs", "rootfs"}

\* The types of a line of /proc/mounts and of the storage.
Lines == [volume : Places, point : STRING, fs : STRING, ro : BOOLEAN]
Storage ==
  [build : Builds, full : BOOLEAN, mounts : Seq(Lines), fs : [VolumeNames -> STRING],
   files : [Places -> SUBSET STRING], busy : SUBSET Places, faults : Nat]

\* The file systems and mount points of the code are strings (TLC checks it; the
\* provers of TLAPS do not know it of a constant).
ASSUME VolumesAssumption ==
  {"ext3", "ext4", "/cache", "/data", "/system", "/sdcard", "/sd-ext", "/tmp"} \subseteq STRING

-----------------------------------------------------------------------------
(* Outcomes, and what may fail.                                            *)

Out(s, ret) == [s |-> s, ret |-> ret]
Then(outcomes, F(_, _)) == UNION {F(o.s, o.ret) : o \in outcomes}

Failing(s) ==
  IF s.faults > 0 THEN {[s EXCEPT !.faults = @ - 1]} ELSE {}

\* A call that does what it should, or fails and returns `code'.
Try(s, done, code) == {Out(done, 0)} \cup {Out(t, code) : t \in Failing(s)}

\* What __system returns for a command that fails: its wait status.
ShellError == 256

-----------------------------------------------------------------------------
(* The table of roots.                                                     *)

Root(name, device, device2, partition, point, fs, type) ==
  [name |-> name, device |-> device, device2 |-> device2,
   partition |-> partition, point |-> point, fs |-> fs, type |-> type]

\* g_roots_mtd, and g_roots_mmc, where define_roots.h names the partitions:
\* block devices, or g_mmc_device.
OnChip(s, volume) == CASE s.build = "nand" -> "g_mtd"
                       [] s.build = "mmc"  -> "g_mmc"
                       [] s.build = "emmc" -> volume
Partition(s, name, volume, point, fs) ==
  LET nand == s.build = "nand"
  IN  Root(name, OnChip(s, volume), "NULL", volume, point,
           IF nand \/ fs = "raw" THEN fs ELSE "auto", IF nand THEN "mtd" ELSE "emmc")

\* The table that set_root_table chooses.
g_roots(s) == {
  Partition(s, "BOOT:",   "boot",     "NULL",    "raw"),
  Partition(s, "CACHE:",  "cache",    "/cache",  "yaffs2"),
  Partition(s, "DATA:",   "userdata", "/data",   "yaffs2"),
  Partition(s, "SYSTEM:", "system",   "/system", "yaffs2"),
  Root("PACKAGE:", "NULL",   "NULL",   "NULL",   "NULL",    "package", "NULL"),
  Root("SDCARD:",  "sdcard", "sdcard", "sdcard", "/sdcard", "vfat",    "mmc"),
  Root("SDEXT:",   "sd-ext", "NULL",   "sd-ext", "/sd-ext", "auto",    "mmc"),
  Root("TMP:",     "NULL",   "NULL",   "NULL",   "/tmp",    "NULL",    "NULL")}

RootNames ==
  {"BOOT:", "CACHE:", "DATA:", "PACKAGE:", "SDCARD:", "SDEXT:", "SYSTEM:", "TMP:"}
NoRoot == Root("NULL", "NULL", "NULL", "NULL", "NULL", "NULL", "NULL")

\* get_root_info_for_path and get_device_info; a path is a root and the rest.
get_root_info(s, root) ==
  CHOOSE r \in g_roots(s) \cup {NoRoot} :
    r.name = IF root \in RootNames THEN root ELSE "NULL"

translate_root_path(s, root) == get_root_info(s, root).point

-----------------------------------------------------------------------------
(* What is mounted.  The last of several mounts hides the others.          *)

Line(volume, point, fs, ro) ==
  [volume |-> volume, point |-> point, fs |-> fs, ro |-> ro]

MountsAt(s, point) == {i \in DOMAIN s.mounts : s.mounts[i].point = point}
IsMountPoint(s, point) == MountsAt(s, point) # {}
IsMounted(s, volume) == \E i \in DOMAIN s.mounts : s.mounts[i].volume = volume

TopMost(s, point) ==
  s.mounts[CHOOSE i \in MountsAt(s, point) : \A j \in MountsAt(s, point) : j <= i]

\* The volume that holds the files below a mount point.
Where(s, point) ==
  IF IsMountPoint(s, point) THEN TopMost(s, point).volume ELSE "rootfs"
Writable(s, point) == IsMountPoint(s, point) => ~TopMost(s, point).ro

\* What init mounts before it starts recovery.
InitialMounts == <<Line("tmpfs", "/tmp", "tmpfs", FALSE)>>

\* mount(2): the volume must hold the file system that is asked for.
mount(s, volume, point, fs, ro) ==
  LET there == s.fs[volume]
      done == [s EXCEPT !.mounts = Append(@, Line(volume, point, there, ro))]
  IN  IF there # "none" /\ fs \in {"auto", there}
      THEN Try(s, done, -1) ELSE {Out(s, -1)}

\* umount(2): fails as long as a file of the volume is open.
umount(s, point) ==
  LET last == CHOOSE i \in MountsAt(s, point) :
                \A j \in MountsAt(s, point) : j <= i
  IN  IF Where(s, point) \in s.busy THEN {Out(s, -1)}
      ELSE Try(s, [s EXCEPT !.mounts = RemoveAt(@, last)], -1)

\* scan_mounted_volumes and find_mounted_volume_by_mount_point; "failed" is
\* /proc/mounts that cannot be read.
scan_mounted_volumes(s, point) ==
  {Out(s, IF IsMountPoint(s, point) THEN "mounted" ELSE "unmounted")}
    \cup {Out(t, "failed") : t \in Failing(s)}

is_root_path_mounted(s, root) ==
  LET point == get_root_info(s, root).point
  IN  IF point = "NULL" THEN {Out(s, FALSE)}
      ELSE {Out(o.s, o.ret = "mounted") : o \in scan_mounted_volumes(s, point)}

-----------------------------------------------------------------------------
(* Finding a partition by its name.                                        *)

\* The table of an MTD chip: what /proc/mtd lists, unless it cannot be read.
OnFlash == VolumeNames \ {"sdcard", "sd-ext"}
mtd_find_partition(s, name) ==
  {Out(s, IF s.build = "nand" /\ name \in OnFlash THEN name ELSE "NULL")}
    \cup {Out(t, "NULL") : t \in Failing(s)}

\* The partition tables of an eMMC chip: the four entries of the MBR, the
\* last of them extended, and the logical partitions behind it.  `holds' is
\* the volume that the bootloader and the main system keep there.
Entry(type, holds) == [type |-> type, holds |-> holds]
MBR == <<Entry("BOOT", "boot"), Entry("VFAT", "modem"),
         Entry("EXT3", "system"), Entry("EXTENDED", "none")>>
EBR == <<Entry("EXT3", "userdata"), Entry("RECOVERY", "recovery"),
         Entry("EXT3", "cache")>>

\* Mutant: the names in another order.
ExchangedPartitions == <<"userdata", "system", "cache">>

ext3_partitions == <<"system", "userdata", "cache">>
vfat_partitions == <<"modem">>

\* How many entries before the i-th have its type: ext3_count, vfat_count.
CountBefore(table, i) ==
  Cardinality({j \in 1..(i - 1) : table[j].type = table[i].type})

\* mmc_partition_name: ext3 and vfat partitions are named in their order.
mmc_partition_name(table, i) ==
  LET nth == CountBefore(table, i) + 1
      From(names) == IF nth <= Len(names) THEN names[nth] ELSE "NULL"
  IN  CASE table[i].type = "BOOT" -> "boot"
        [] table[i].type = "RECOVERY" -> "recovery"
        [] table[i].type = "EXT3" -> From(ext3_partitions)
        [] table[i].type = "VFAT" -> From(vfat_partitions)
        [] OTHER -> "NULL"

\* mmc_read_mbr: a sector that cannot be read ends the scan, and what was
\* read before it can be found all the same.
\* Without an eMMC chip the first block device is the card.
mmc_read_mbr(s) ==
  IF s.build = "nand" THEN {Out(s, <<Entry("VFAT", "sdcard")>>)} ELSE
  {Out(s, MBR \o EBR)}
    \cup {Out(t, SubSeq(MBR \o EBR, 1, n)) :
            t \in Failing(s), n \in {0} \cup Len(MBR)..(Len(MBR) + Len(EBR) - 1)}

\* mmc_scan_partitions and mmc_find_partition_by_name: the volume in the
\* first partition of that name.
mmc_find_partition(s, name) ==
  LET Name(table) == [i \in DOMAIN table |-> mmc_partition_name(table, i)]
      Found(table, i) == IF i = 0 THEN "NULL" ELSE table[i].holds
  IN  {Out(o.s, Found(o.ret, SelectInSeq(Name(o.ret), LAMBDA n : n = name))) :
         o \in mmc_read_mbr(s)}

get_root_mtd_partition(s, root) ==
  LET info == get_root_info(s, root)
  IN  IF info.device # "g_mtd" THEN {Out(s, "NULL")}
      ELSE mtd_find_partition(s, info.partition)

get_root_mmc_partition(s, root) ==
  LET info == get_root_info(s, root)
  IN  IF info.device # "g_mmc" THEN {Out(s, "NULL")}
      ELSE mmc_find_partition(s, info.partition)

\* get_device_index and mtd_get_partition_device
get_device_index(s, root) ==
  LET info == get_root_info(s, root)
  IN  CASE info.device = "g_mtd" -> mtd_find_partition(s, info.partition)
        [] info.device = "g_mmc" -> mmc_find_partition(s, info.partition)
        [] OTHER -> {Out(s, info.device)}

=============================================================================
