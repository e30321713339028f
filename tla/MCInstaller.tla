---------------------------- MODULE MCInstaller ----------------------------
(* The packages and devices of the runs of Installer.                      *)
EXTENDS Installer

File(name, data) == ZipEntry(name, "file", data, TRUE)
Binary(data) == File(BinaryName, data)
Meta == <<File(ManifestName, "mf"), File(SfName, "sf"), File(RsaName, "rsa")>>
App == File("system/app", "a")
Lib == File("system/lib", "l")
OldApp == File("system-old", "o")
Dir == ZipEntry("system/", "dir", "NULL", TRUE)
Radio == File("radio.img", "radio")

Stanza(e) == [name |-> e.name, digest |-> e.data]

\* A package: its files, the lines of its manifest, and what its scripts say.
Bundle(cd, mf) ==
  [cd |-> cd, mf |-> mf, sf |-> TRUE, rsa |-> TRUE, parses |-> FALSE,
   script |-> <<>>, program |-> <<>>, code |-> 0, commands |-> <<>>]
Sealed(files) == Bundle(Meta \o files, [i \in DOMAIN files |-> Stanza(files[i])])

CallOn(fn, texts) == Call(fn, [i \in DOMAIN texts |-> Lit(texts[i])])

UpdaterFiles == <<Binary("updater"), File(UpdaterScriptName, "script"),
                  OldApp, Lib, App, Radio>>
Updater(script) == [Sealed(UpdaterFiles) EXCEPT !.parses = TRUE, !.script = script]

\* A full update: mount, extract, links and permissions, firmware, unmount.
FullUpdate == Updater(<<
  CallOn("show_progress", <<"1", "9">>),
  CallOn("mount", <<"MTD", "system", "/system">>),
  CallOn("mount", <<"MMC", "system", "/system">>),
  CallOn("package_extract_dir", <<"system", "/system">>),
  CallOn("delete", <<"/system/old">>),
  CallOn("symlink", <<"app", "/system/link">>),
  CallOn("set_perm", <<"0", "0", "0644", "/system/link">>),
  CallOn("write_firmware_image", <<"PACKAGE:radio.img", "hboot">>),
  CallOn("unmount", <<"/system">>),
  Call("ifelse", <<CallOn("less_than_int", <<"9", "10">>), Lit("done"),
                   CallOn("abort", <<"never">>)>>)>>)

\* Formatting and raw images, and a result that is no string.
RawUpdate == Updater(<<
  CallOn("unmount", <<"/system">>),
  CallOn("format", <<"MTD", "system">>),
  CallOn("format", <<"MMC", "system">>),
  CallOn("package_extract_file", <<"radio.img", "/tmp/radio.img">>),
  CallOn("write_raw_image", <<"/tmp/radio.img", "boot">>),
  CallOn("apply_patch_space", <<"10">>),
  CallOn("apply_patch", <<"/tmp/radio.img">>),
  CallOn("file_getprop", <<"/tmp/radio.img", "key">>),
  CallOn("set_progress", <<"1">>),
  CallOn("is_mounted", <<"/system">>),
  CallOn("delete_recursive", <<"/system">>),
  CallOn("ui_print", <<LongText>>),
  CallOn("getprop", <<"ro.product">>)>>)

\* An argument that aborts behind another one.
BadDelete == Updater(<<
  Call("delete", <<Lit("/system/old"), CallOn("abort", <<"no">>)>>)>>)

Foreign(program, code) ==
  [Sealed(<<Binary("foreign"), Radio>>) EXCEPT !.program = program, !.code = code]
Say(what, args) == [do |-> "say", piece |-> Piece(what, args)]
Do(what) == [do |-> what]
Write(place, file) == [do |-> "write", place |-> place, file |-> file]
Asks == Say("firmware", <<"hboot", "PACKAGE:radio.img">>)

ForeignOk == Foreign(<<Say("progress", <<"1", "9">>), Asks, Say("other", <<>>),
  Write("tmpfs", "radio.img"), Say("firmware", <<"radio", "/tmp/radio.img">>),
  Do("fork"), Do("close")>>, 0)
ForeignFile == Foreign(<<Write("tmpfs", "radio.img"),
                         Say("firmware", <<"radio", "/tmp/radio.img">>)>>, 0)
ForeignMissing == Foreign(<<Say("firmware", <<"hboot">>),
                            Say("firmware", <<"radio", "PACKAGE:none.img">>)>>, 0)
ForeignFails == Foreign(<<Asks, Write("cache", "foreign"), Do("fork")>>, 1)
ForeignCrashes == Foreign(<<Say("set_progress", <<>>)>>, 0)

AmendFiles == <<File(ScriptName, "script"), Dir, OldApp, App, Lib, Radio,
                File("system0", "exit 0")>>
Amend(commands) == [Sealed(AmendFiles) EXCEPT !.commands = commands]

Fn(fn, args) == Function(fn, [i \in DOMAIN args |-> Literal(args[i])])
Same(a, b) == Operator("strings ==", <<a, b>>)

AmendUpdate == Amend(<<
  Assertion(Operator("&&", <<Same(Fn("compatible_with", <<"0.2">>), Literal("true")),
                             Same(Fn("update_forced", <<>>), Literal("true"))>>)),
  Assertion(Operator("||", <<
    Same(Fn("matches", <<"a", "b", "a">>), Fn("concat", <<"a", "">>)),
    Operator("strings !=", <<Fn("getprop", <<"p">>), Fn("get_mark", <<"m">>)>>)>>)),
  Command("show_progress", <<"1", "0">>),
  Command("format", <<"SYSTEM:">>),
  Command("copy_dir", <<"PACKAGE:system", "SYSTEM:">>),
  Command("delete", <<"SYSTEM:old", "SDCARD:">>),
  Command("symlink", <<"app", "SYSTEM:link">>),
  Command("set_perm", <<"0", "0", "0644", "SYSTEM:link">>),
  Command("run_program", <<"PACKAGE:system0">>),
  Command("write_hboot_image", <<"PACKAGE:radio.img">>)>>)

\* The same with an entry that does not inflate.
Damaged(p) ==
  [p EXCEPT !.cd = [i \in DOMAIN p.cd |-> [p.cd[i] EXCEPT !.intact = p.cd[i] # App]]]

AmendRaw == Amend(<<
  Assertion(Operator("!", <<
    Same(Fn("file_contains", <<"SYSTEM:old", "x">>), Literal("true"))>>)),
  Assertion(Operator("||", <<
    Operator("strings <", <<Fn("getprop", <<"p">>), Literal("a")>>),
    Operator("strings >=", <<Literal("a"), Literal("a")>>)>>)),
  Command("write_raw_image", <<"PACKAGE:radio.img", "BOOT:">>),
  Command("delete_recursive", <<"CACHE:">>),
  Command("format", <<"BOOT:">>),
  Command("format", <<"SDCARD:">>),
  Command("write_radio_image", <<"PACKAGE:radio.img">>),
  Command("write_radio_image", <<"PACKAGE:radio.img">>)>>)

Curated == {FullUpdate, RawUpdate, BadDelete, ForeignOk, ForeignFile,
            ForeignMissing, ForeignFails, ForeignCrashes, AmendUpdate, AmendRaw,
            Damaged(FullUpdate), Damaged(AmendUpdate)}

\* Packages put together anyhow: up to Entries files in any order, doubled or
\* not, and one of some manifests.
CONSTANT Entries
Tampered == File("system/app", "b")
Pool == "a" :> App @@ "b" :> Tampered @@ "d" :> Dir @@ "o" :> OldApp
        @@ "z" :> File("system0", "z") @@ "x" :> [App EXCEPT !.intact = FALSE]
Manifests == {<<Stanza(App)>>, <<Stanza(App), Stanza(OldApp)>>, <<Stanza(App), Stanza(App)>>}
Heaps == {Bundle(Meta \o [i \in DOMAIN files |-> Pool[files[i]]], lines) :
            files \in UNION {[1..n -> DOMAIN Pool] : n \in 0..Entries}, lines \in Manifests}

\* The devices: what the main system and the user left on them.
Device(build, full, faults) ==
  [build |-> build, full |-> full, mounts |-> InitialMounts, busy |-> {},
   faults |-> faults,
   fs |-> [v \in VolumeNames |->
             CASE v = "boot" -> "none"
               [] v = "sdcard" -> "vfat"
               [] v = "sd-ext" -> "ext3"
               [] v = "cache" /\ build # "nand" -> "ext4"
               [] OTHER -> IF build = "nand" THEN "yaffs2" ELSE "ext3"],
   files |-> [p \in Places |->
                CASE p = "sdcard" -> {"update.zip"}
                  [] p \in {"tmpfs", "rootfs"} -> {}
                  [] OTHER -> {"old"}]]

MCDevices ==
  [storage : {Device("nand", FALSE, 0)}, package : Heaps, ops : {1}]
    \cup [storage : {Device(build, FALSE, MaxFaults) : build \in Builds},
          package : Curated, ops : {2}]
    \cup [storage : {Device(build, TRUE, MaxFaults) : build \in Builds},
          package : {FullUpdate, AmendUpdate}, ops : {2}]
MCUserRoots == {"SYSTEM:", "BOOT:", "SDCARD:", "SDEXT:"}
=============================================================================
