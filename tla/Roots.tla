------------------------------- MODULE Roots -------------------------------
(***************************************************************************)
(* Mounting, unmounting and formatting a root: roots.c, and the parts of   *)
(* extracommands.c, mmcutils.c and mtdutils.c that it calls.               *)
(***************************************************************************)
EXTENDS Volumes

-----------------------------------------------------------------------------
(* Mounting and unmounting.                                                *)

\* mtd_mount_partition: read-only when it does not mount otherwise.  The last
\* step sets the x bits of the root, and may fail with the volume mounted.
mtd_mount_partition(s, volume, point, fs) ==
  LET FixPermissions(t, ret) ==
        IF ret < 0 THEN {Out(t, ret)} ELSE Try(t, t, -1)
      ReadOnly(t, ret) ==
        IF ret < 0 THEN mount(t, volume, point, fs, TRUE) ELSE {Out(t, ret)}
  IN  Then(Then(mount(s, volume, point, fs, FALSE), ReadOnly), FixPermissions)

\* mount_internal: mount(2), or for "auto" the program, whose wait status it
\* returns.
mount_internal(s, volume, point, fs) ==
  {Out(o.s, IF fs = "auto" /\ o.ret # 0 THEN ShellError ELSE o.ret) :
     o \in mount(s, volume, point, fs, FALSE)}

\* What ensure_root_path_mounted does for a root that is not mounted.
MountRoot(s, info) ==
  CASE info.device = "g_mtd" /\ info.point # "NULL" ->
         Then(mtd_find_partition(s, info.partition),
              LAMBDA t, volume :
                IF volume = "NULL" THEN {Out(t, -1)}
                ELSE mtd_mount_partition(t, volume, info.point, info.fs))
    [] info.device = "g_mmc" /\ info.point # "NULL" ->
         Then(mmc_find_partition(s, info.partition),
              LAMBDA t, volume :
                IF volume = "NULL" THEN {Out(t, -1)}
                ELSE mount_internal(t, volume, info.point, info.fs))
    [] info.device \in VolumeNames /\ info.fs # "raw" ->
         Then(mount_internal(s, info.device, info.point, info.fs),
              LAMBDA t, ret :
                IF ret = 0 THEN {Out(t, 0)}
                ELSE IF info.device2 = "NULL" THEN {Out(t, -1)}
                ELSE {Out(o.s, IF o.ret = 0 THEN 0 ELSE -1) :
                        o \in mount_internal(t, info.device2, info.point, info.fs)})
    [] OTHER -> {Out(s, -1)}

\* ensure_root_path_mounted: only looks whether something is mounted there,
\* and takes a /proc/mounts that it cannot read for a root not mounted.
ensure_root_path_mounted(s, root) ==
  LET info == get_root_info(s, root)
  IN  IF info.point = "NULL" THEN MountRoot(s, info)
      ELSE Then(scan_mounted_volumes(s, info.point),
                LAMBDA t, seen :
                  IF seen = "mounted" THEN {Out(t, 0)} ELSE MountRoot(t, info))

\* ensure_root_path_unmounted and unmount_mounted_volume
ensure_root_path_unmounted(s, root) ==
  LET info == get_root_info(s, root)
  IN  IF info = NoRoot THEN {Out(s, -1)}
      ELSE IF info.point = "NULL" THEN {Out(s, 0)}
      ELSE Then(scan_mounted_volumes(s, info.point),
                LAMBDA t, seen : CASE seen = "failed" -> {Out(t, -1)}
                                   [] seen = "unmounted" -> {Out(t, 0)}
                                   [] seen = "mounted" -> umount(t, info.point))

\* Mounting or unmounting whose result the caller ignores.
Mounting(s, root) == {o.s : o \in ensure_root_path_mounted(s, root)}
Unmounting(s, root) == {o.s : o \in ensure_root_path_unmounted(s, root)}

-----------------------------------------------------------------------------
(* Programs that erase.                                                    *)

Emptied(s, volume) == [s EXCEPT !.files[volume] = {}]

\* mtd_write_partition, mtd_erase_blocks(-1), mtd_write_close.  A block that
\* cannot be erased is skipped, and with it what it holds of the files.
EraseMtd(s, volume) ==
  {Out(Emptied(s, volume), 0)}
    \cup UNION {{Out(t, -1), Out(t, 0), Out(Emptied(t, volume), -1)} : t \in Failing(s)}

\* rm -rf below a mount point
RemoveAll(s, point) ==
  IF Writable(s, point) /\ Where(s, point) # "rootfs"
  THEN Try(s, Emptied(s, Where(s, point)), ShellError) ELSE {Out(s, ShellError)}

\* mke2fs, which may refuse a volume that is mounted, and tune2fs
mke2fs(s, volume) ==
  LET made == [Emptied(s, volume) EXCEPT !.fs[volume] = "ext3"]
  IN  IF volume \notin VolumeNames THEN {Out(s, ShellError)}
      ELSE Try(s, made, ShellError)
             \cup (IF IsMounted(s, volume) THEN {Out(s, ShellError)} ELSE {})

tune2fs(s, volume) ==
  IF volume \in VolumeNames /\ s.fs[volume] = "ext3"
  THEN Try(s, [s EXCEPT !.fs[volume] = "ext4"], ShellError)
  ELSE {Out(s, ShellError)}

\* mmc_format_ext3, format_ext3_device; mmc_format_ext4, format_ext4_device;
\* mmc_upgrade_ext3, device_upgrade_ext3: they return 0 whatever happened.
Returning0(outcomes) == {Out(o.s, 0) : o \in outcomes}
format_ext3(s, volume) == Returning0(mke2fs(s, volume))
format_ext4(s, volume) ==
  Returning0(Then(mke2fs(s, volume), LAMBDA t, ret : tune2fs(t, volume)))
upgrade_ext3(s, volume) == Returning0(tune2fs(s, volume))

\* dd of zeros, until the device is full.
ZeroDevice(s, volume) ==
  Returning0(IF volume \in VolumeNames
             THEN Try(s, Emptied(s, volume), ShellError) ELSE {Out(s, ShellError)})

-----------------------------------------------------------------------------
(* The type of a root's ext file system.                                   *)

\* check_extfs_format mounts the root, reads /proc/mounts to its end and
\* returns the type in the LAST line: the test of the mount point guards only
\* a message.  It returns it in an array of its own that is gone when its
\* caller compares it, after calling functions that read types of
\* /proc/mounts into arrays of theirs.
check_extfs_format(s, root) ==
  LET Types(t) == {t.mounts[i].fs : i \in DOMAIN t.mounts}
      Read(t) == IF t.mounts # <<>> /\ Last(t.mounts).fs \in {"ext3", "ext4"}
                 THEN {Out(t, fs) : fs \in Types(t) \cup {"other"}}
                 ELSE {Out(t, "NULL")}
  IN  IF root \notin {"SYSTEM:", "DATA:", "CACHE:"} THEN {Out(s, "NULL")}
      ELSE UNION {Then(ensure_root_path_mounted(t, root),
                       LAMBDA u, ret :
                         IF ret # 0 THEN {Out(u, "NULL")} ELSE Read(u)) :
                    t \in Mounting(s, root)}

\* What the four callers of check_extfs_format do first: the root is
\* unmounted, or not.
WithType(s, root, F(_, _)) ==
  Then(check_extfs_format(s, root),
       LAMBDA t, fs : IF fs = "NULL" THEN {Out(t, -1)}
                      ELSE UNION {F(u, fs) : u \in Unmounting(t, root)})

FormatAs(s, volume, fs) == CASE fs = "ext3" -> format_ext3(s, volume)
                             [] fs = "ext4" -> format_ext4(s, volume)
                             [] OTHER -> {Out(s, -1)}

format_ext_device(s, root) ==
  WithType(s, root, LAMBDA t, fs : FormatAs(t, get_root_info(t, root).device, fs))

call_format_ext(s, root) ==
  Then(get_root_mmc_partition(s, root),
       LAMBDA t, volume :
         IF volume = "NULL" THEN {Out(t, -1)}
         ELSE WithType(t, root, LAMBDA u, fs : FormatAs(u, volume, fs)))

\* The partition in the table or, without one, the device of the root.
OnPartition(s, root, F(_, _)) ==
  Then(get_root_mmc_partition(s, root),
       LAMBDA t, volume :
         F(t, IF volume # "NULL" THEN volume ELSE get_root_info(t, root).device))

\* force_format_ext3, force_format_ext4
force_format(s, root, fs) ==
  WithType(s, root, LAMBDA t, old :
    OnPartition(t, root, LAMBDA u, volume : FormatAs(u, volume, fs)))

upgrade_ext3_to_ext4(s, root) ==
  WithType(s, root, LAMBDA t, fs :
    OnPartition(t, root, LAMBDA u, volume :
      IF fs = "ext3" THEN upgrade_ext3(u, volume) ELSE {Out(u, -1)}))

-----------------------------------------------------------------------------
(* Formatting a root.                                                      *)

format_raw_partition(s, root) ==
  OnPartition(s, root, LAMBDA t, volume : ZeroDevice(t, volume))

\* A root that does not mount is skipped, and the format counts as done.
format_non_mtd_device(s, root) ==
  LET point == translate_root_path(s, root)
      Clean(t, ret) ==
        IF ret # 0 THEN {Out(t, 0)}
        ELSE {Out(u, 0) : u \in UNION {Unmounting(o.s, root) : o \in RemoveAll(t, point)}}
  IN  IF root = "SDEXT:" /\ s.fs["sd-ext"] = "none" THEN {Out(s, 0)}
      ELSE Then(ensure_root_path_mounted(s, root), Clean)

\* format_root_device once the root is unmounted: by the tools of the MTD or of
\* the eMMC chip, as an ext file system, or by removing every file.
FormatUnmounted(s, root, info) ==
  LET nand == s.build = "nand"
      Erase(t, volume) == IF volume = "NULL" THEN {Out(t, -1)} ELSE EraseMtd(t, volume)
      Remake(t, volume) ==
        IF volume = "NULL" THEN {Out(t, -1)}
        ELSE IF info.fs = "auto" THEN Returning0(call_format_ext(t, root))
        ELSE format_raw_partition(t, root)
  IN  IF nand /\ info.device = "g_mtd"
      THEN Then(mtd_find_partition(s, info.partition), Erase)
      ELSE IF ~nand /\ s.full /\ info.device = "g_mmc"
      THEN Then(mmc_find_partition(s, info.partition), Remake)
      ELSE IF ~nand /\ s.full /\ info.fs = "auto" THEN format_ext_device(s, root)
      ELSE IF ~nand /\ info.type = "emmc" /\ info.partition = "boot"
      THEN format_raw_partition(s, root)
      ELSE format_non_mtd_device(s, root)

\* Mutant: formatted while it may be mounted.
FormatMounted(s, root) ==
  LET info == get_root_info(s, root)
  IN  IF info.device = "NULL" THEN {Out(s, -1)} ELSE FormatUnmounted(s, root, info)

format_root_device(s, root) ==
  LET info == get_root_info(s, root)
      unmounted == IF info.point = "NULL" \/ info.device \notin {"g_mtd", "g_mmc"}
                   THEN {Out(s, 0)} ELSE ensure_root_path_unmounted(s, root)
  IN  IF info.device = "NULL" THEN {Out(s, -1)}
      ELSE Then(unmounted, LAMBDA t, ret :
             IF ret < 0 THEN {Out(t, ret)} ELSE FormatUnmounted(t, root, info))
=============================================================================
