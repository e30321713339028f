------------------------------- MODULE Edify -------------------------------
(***************************************************************************)
(* Edify scripts as the updater evaluates them: the operators and builtins *)
(* of edify/expr.c and the functions of updater/install.c.                 *)
(*                                                                         *)
(* The evaluator's state is st = [s, zip, out, errmsg]: the storage, the   *)
(* package, what was printed to the pipe, and whether there is a message   *)
(* for an abort.  A value is a string, or one of                           *)
(*   "NULL"   the script is aborted                                        *)
(*   "RAW"    a char* that install.c returned where a Value* is expected   *)
(*   "CRASH"  the process was killed,   "HANG"  it does not come back      *)
(* A function of the script gets, besides the state, the values of the     *)
(* nodes under its own: inner[<<st, n>>] for node n in state st.           *)
(***************************************************************************)
EXTENDS ZipArchive

\* An expression: a function or an operator by its name in the script, or a
\* literal, whose name is its text; and the arguments.
Call(fn, args) == Tree(fn, args)
Lit(text) == Leaf("Literal", text)

Evaluator(s, zip) == [s |-> s, zip |-> zip, out |-> <<>>, errmsg |-> "NULL"]
Ends == {"NULL", "CRASH", "HANG"}

ErrorAbort(st) == {Out([st EXCEPT !.errmsg = "message"], "NULL")}

\* A result that install.c returns, after what it did to the storage.
Raw(st, outcomes) == {Out([st EXCEPT !.s = o.s], "RAW") : o \in outcomes}

-----------------------------------------------------------------------------
(* The pipe.  What recovery reads at a time is a piece of 80 characters.   *)

Piece(command, args) == [command |-> command, args |-> args]

\* What a value that is a string can be, and the types of a piece and of the
\* evaluator's state.
Texts == STRING \ {"NULL", "RAW", "CRASH", "HANG"}
PieceType == [command : STRING, args : Seq(Texts)]
EvaluatorStates(zip) ==
  [s : Storage, zip : {zip}, out : Seq(PieceType), errmsg : STRING]

\* A text behind which its line goes on with what reads as a command.
LongText == "a text that fills the buffer, and then: firmware hboot PACKAGE:radio.img"
Pieces(text) ==
  CASE text = "" -> <<>>
    [] text = LongText -> <<Piece("ui_print", <<>>),
                            Piece("firmware", <<"hboot", "PACKAGE:radio.img">>)>>
    [] OTHER -> <<Piece("ui_print", <<>>)>>

Printing(st, pieces) == [st EXCEPT !.out = @ \o pieces]

-----------------------------------------------------------------------------
(* Evaluation.                                                             *)

\* What follows a value, unless the evaluation has ended.
Bind(outcomes, F(_, _)) ==
  Then(outcomes, LAMBDA st, v : IF v \in Ends THEN {Out(st, v)} ELSE F(st, v))

\* Evaluate, with what EvaluateValue returns: the first byte of a char* is never
\* the type of a string, and the pointer that FreeValue frees lies behind its end.
Evaluate(outcomes) ==
  Bind(outcomes, LAMBDA t, v : IF v = "RAW" THEN ErrorAbort(t) \cup {Out(t, "CRASH")}
                               ELSE {Out(t, v)})

\* FreeValue, of a value that may be no Value.
FreeValue(st, v) ==
  {Out(st, "")} \cup (IF v = "RAW" THEN {Out(st, "CRASH")} ELSE {})

\* ReadVarArgs: the arguments in their order, up to one that aborts.
ReadVarArgs(inner, st, argv) ==
  LET Read(t, a, n) ==
        IF a.end # "" THEN {Out(t, a)}
        ELSE {Out(o.s, IF o.ret \in Ends THEN [a EXCEPT !.end = o.ret]
                       ELSE [a EXCEPT !.vals = Append(@, o.ret)]) :
                o \in Evaluate(inner[<<t, n>>])}
  IN  Loop(Len(argv), {Out(st, [vals |-> <<>>, end |-> ""])}, LAMBDA outcomes, k :
        Then(outcomes, LAMBDA t, a : Read(t, a, argv[k])))

Truth(b) == IF b THEN "t" ELSE ""
BooleanString(v) == v # ""

strstr(haystack, needle) ==
  \E i \in 0..(Len(haystack) - Len(needle)) :
    SubSeq(haystack, i + 1, i + Len(needle)) = needle

\* The texts that are numbers.
Numbers == "0" :> 0 @@ "1" :> 1 @@ "9" :> 9 @@ "10" :> 10 @@ "0644" :> 420
IsNumber(v) == v \in DOMAIN Numbers

-----------------------------------------------------------------------------
(* The operators and builtins of expr.c.                                   *)

\* The branch that is not taken is not evaluated; without an else, a
\* condition that is false is the value.
IfElseFn(inner, st, e) ==
  IF Len(e.args) \notin 2..3 THEN ErrorAbort(st)
  ELSE Bind(Evaluate(inner[<<st, e.args[1]>>]),
            LAMBDA t, cond :
              CASE BooleanString(cond) -> inner[<<t, e.args[2]>>]
                [] ~BooleanString(cond) /\ Len(e.args) = 3 -> inner[<<t, e.args[3]>>]
                [] OTHER -> {Out(t, cond)})

\* The message may itself abort, and then its own message is replaced.
AbortFn(inner, st, e) ==
  IF e.args = <<>> THEN ErrorAbort(st)
  ELSE Then(Evaluate(inner[<<st, e.args[1]>>]),
            LAMBDA t, msg : IF msg \in {"CRASH", "HANG"} THEN {Out(t, msg)}
                            ELSE ErrorAbort(t))

AssertFn(inner, st, e) ==
  LET Check(t, n) ==
        Bind(Evaluate(inner[<<t, n>>]), LAMBDA u, v :
          IF BooleanString(v) THEN {Out(u, "")} ELSE ErrorAbort(u))
  IN  Loop(Len(e.args), {Out(st, "")}, LAMBDA outcomes, k :
        Bind(outcomes, LAMBDA t, sofar : Check(t, e.args[k])))

LogicalFn(inner, st, e, goesOn) ==
  Bind(Evaluate(inner[<<st, e.args[1]>>]),
       LAMBDA t, left : IF BooleanString(left) = goesOn
                        THEN inner[<<t, e.args[2]>>] ELSE {Out(t, left)})
SequenceFn(inner, st, e) ==
  Bind(inner[<<st, e.args[1]>>], LAMBDA t, left :
    Bind(FreeValue(t, left), LAMBDA u, freed : inner[<<u, e.args[2]>>]))

-----------------------------------------------------------------------------
(* The builtins of expr.c whose arguments v have all been evaluated.       *)

ConcatFn(st, v) == {Out(st, Joined(v))}
SleepFn(st, v) == {Out(st, v[1])}
StdoutFn(st, v) == {Out(st, "")}
LogicalNotFn(st, v) == {Out(st, Truth(~BooleanString(v[1])))}
SubstringFn(st, v) == {Out(st, Truth(strstr(v[2], v[1])))}
EqualityFn(st, v) == {Out(st, Truth(v[1] = v[2]))}
InequalityFn(st, v) == {Out(st, Truth(v[1] # v[2]))}
LessThan(a, b) == IsNumber(a) /\ IsNumber(b) /\ Numbers[a] < Numbers[b]
LessThanIntFn(st, v) == {Out(st, Truth(LessThan(v[1], v[2])))}

-----------------------------------------------------------------------------
(* The functions of install.c: mounting and formatting.                    *)

\* mmc_mount_partition: only partitions of a known file system.
mmc_mount_partition(s, volume, point) ==
  IF volume \notin ToSet(ext3_partitions) THEN {Out(s, -1)}
  ELSE Then(mount(s, volume, point, "ext3", FALSE), LAMBDA t, ret :
         IF ret < 0 THEN mount(t, volume, point, "ext3", TRUE) ELSE {Out(t, ret)})

OnFound(outcomes, F(_, _)) ==
  Then(outcomes, LAMBDA t, volume :
    IF volume = "NULL" THEN {Out(t, -1)} ELSE F(t, volume))

MountAs(s, type, location, point) ==
  CASE type = "MTD" ->
         OnFound(mtd_find_partition(s, location), LAMBDA t, volume :
           mtd_mount_partition(t, volume, point, "yaffs2"))
    [] type = "MMC" ->
         OnFound(mmc_find_partition(s, location), LAMBDA t, volume :
           mmc_mount_partition(t, volume, point))
    [] OTHER -> IF location \in VolumeNames
                THEN mount(s, location, point, type, FALSE) ELSE {Out(s, -1)}

\* What a function does after a check of its arguments: nothing but to abort.
Unless(wrong, st, outcomes) == IF wrong THEN ErrorAbort(st) ELSE outcomes

MountFn(st, v) ==
  Unless("" \in ToSet(v), st, Raw(st, MountAs(st.s, v[1], v[2], v[3])))

IsMountedFn(st, v) ==
  Unless(v[1] = "", st, Raw(st, scan_mounted_volumes(st.s, v[1])))

\* The result of the unmounting is not looked at.
UnmountFn(st, v) ==
  Unless(v[1] = "", st,
    Raw(st, Then(scan_mounted_volumes(st.s, v[1]), LAMBDA s, seen :
              IF seen = "mounted" THEN umount(s, v[1]) ELSE {Out(s, -1)})))

\* Whether the partition is mounted is not looked at; an unknown type does
\* nothing.
FormatAsType(s, type, location) ==
  CASE type = "MTD" -> OnFound(mtd_find_partition(s, location), EraseMtd)
    [] type = "MMC" -> OnFound(mmc_find_partition(s, location), format_ext3)
    [] OTHER -> {Out(s, 0)}

FormatFn(st, v) ==
  Unless("" \in ToSet(v), st, Raw(st, FormatAsType(st.s, v[1], v[2])))

-----------------------------------------------------------------------------
(* The functions of install.c: files.                                      *)

\* A path is where a volume is mounted, and perhaps a file there.
PathTo(point, file) == [point |-> point, file |-> file]
Paths ==
  [p \in {"/system", "/data", "/cache", "/sdcard", "/tmp"} |-> PathTo(p, "NULL")]
  @@ "/system/old" :> PathTo("/system", "old")
  @@ "/system/link" :> PathTo("/system", "link")
  @@ "/tmp/radio.img" :> PathTo("/tmp", "radio.img")

\* What the code writes into values and pieces are strings, as are the names of
\* the files (TLC checks it; the provers of TLAPS do not know it of a constant).
ASSUME EdifyAssumption ==
  /\ {"", "t", "several texts", "NULL", "message", "hboot", "PACKAGE:radio.img",
      "ui_print", "firmware", "progress", "set_progress"} \subseteq STRING
  /\ \A path \in DOMAIN Paths : Paths[path].file \in STRING

FileExists(s, path) ==
  path \in DOMAIN Paths /\ Paths[path].file \in s.files[Where(s, Paths[path].point)]

\* Creating and unlinking one file.
Put(s, point, file) == [s EXCEPT !.files[Where(s, point)] = @ \cup {file}]
Drop(s, point, file) == [s EXCEPT !.files[Where(s, point)] = @ \ {file}]

create(s, path) ==
  LET p == Paths[path]
  IN  IF path \in DOMAIN Paths /\ Writable(s, p.point)
      THEN Try(s, Put(s, p.point, p.file), -1) ELSE {Out(s, -1)}

\* unlink and dirUnlinkHierarchy, which cannot remove the mount point itself
unlink(s, path) ==
  LET p == Paths[path]
  IN  CASE path \notin DOMAIN Paths -> {Out(s, -1)}
        [] path \in DOMAIN Paths /\ p.file = "NULL" -> {Out(s, -1)}
        [] OTHER -> IF FileExists(s, path) /\ Writable(s, p.point)
                    THEN Try(s, Drop(s, p.point, p.file), -1) ELSE {Out(s, -1)}
dirUnlinkHierarchy(s, path) ==
  IF path \in DOMAIN Paths /\ Paths[path].file = "NULL"
  THEN RemoveAll(s, Paths[path].point) ELSE unlink(s, path)

\* delete, delete_recursive.  When an argument behind the first aborts, the
\* loop that frees the earlier ones frees the first for ever.
DeleteFn(st, v, recursive) ==
  LET Delete(s, path) ==
        IF recursive THEN dirUnlinkHierarchy(s, path) ELSE unlink(s, path)
      All == Loop(Len(v), {st.s}, LAMBDA states, k :
               {o.s : o \in UNION {Delete(s, v[k]) : s \in states}})
  IN  Raw(st, {Out(s, 0) : s \in All})
DeleteAborts(st, vals) ==
  IF vals # <<>> THEN {Out(st, "CRASH"), Out(st, "HANG")} ELSE {Out(st, "NULL")}

\* package_extract_dir
PackageExtractDirFn(st, v) ==
  IF v[2] \notin DOMAIN Paths THEN {Out(st, "RAW")}
  ELSE Raw(st, mzExtractRecursive(st.s, st.zip, v[1], Paths[v[2]].point, TRUE))

\* package_extract_file: the file is created, and keeps what was written.
PackageExtractFileFn(st, v) ==
  LET entry == mzFindZipEntry(st.zip, v[1])
      p == Paths[v[2]]
      Emptying == {Out(Drop(o.s, p.point, p.file), o.ret) : o \in create(st.s, v[2])}
      Fill(s, ret) ==
        IF ret < 0 THEN {Out(s, ret)}
        ELSE {Out(IF o.ret THEN Put(o.s, p.point, p.file) ELSE o.s, 0) :
                o \in mzReadZipEntry(s, entry)}
  IN  IF entry = NoEntry \/ v[2] \notin DOMAIN Paths THEN {Out(st, "RAW")}
      ELSE Raw(st, Then(Emptying, Fill))

\* symlink target src1 src2 ...; its results are not looked at
SymlinkFn(st, v) ==
  LET All == Loop(Len(v) - 1, {st.s}, LAMBDA states, k :
               {o.s : o \in UNION {create(s, v[k + 1]) : s \in states}})
  IN  Raw(st, {Out(s, 0) : s \in All})

\* set_perm, set_perm_recursive: only the numbers are checked.
SetPermFn(st, v, numbers) ==
  Unless(\E i \in 1..numbers : ~IsNumber(v[i]), st, {Out(st, "RAW")})

-----------------------------------------------------------------------------
(* The functions of install.c: properties, images, progress.               *)

GetPropFn(st, v) == {Out(st, "RAW")}

\* A file that is missing or cannot be read aborts, and so does one that is too
\* large or has a line that is no property; without any line the process crashes.
FileGetPropFn(st, v) ==
  Unless(~FileExists(st.s, v[1]), st,
    {Out(st, "RAW"), Out(st, "CRASH")} \cup ErrorAbort(st)
      \cup UNION {ErrorAbort([st EXCEPT !.s = s]) : s \in Failing(st.s)})

\* What is left of a partition when writing an image to it fails.
WriteImage(s, volume, image) ==
  LET written == [s EXCEPT !.files[volume] = {image}]
  IN  {Out(written, 0)}
        \cup UNION {{Out(t, -1), Out(Emptied(t, volume), -1)} : t \in Failing(s)}

\* mmc_raw_copy
mmc_raw_copy(s, volume, path) ==
  IF ~FileExists(s, path) \/ volume \notin VolumeNames THEN {Out(s, -1)}
  ELSE WriteImage(s, volume, Paths[path].file)

\* write_raw_image: to the MTD partition of that name or, without one, to the
\* MMC partition; errors after the last block are not errors.
WriteRawImageFn(st, v) ==
  LET OnMmc(s, path, name) ==
        OnFound(mmc_find_partition(s, name), LAMBDA t, volume :
          mmc_raw_copy(t, volume, path))
      OnMtd(s, path, volume) ==
        IF FileExists(s, path) THEN WriteImage(s, volume, Paths[path].file)
        ELSE {Out(s, -1)}
      Write(s, path, name) ==
        Then(mtd_find_partition(s, name), LAMBDA t, volume :
          IF volume = "NULL" THEN OnMmc(t, path, name) ELSE OnMtd(t, path, volume))
  IN  Unless("" \in {v[1], v[2]}, st, Raw(st, Write(st.s, v[1], v[2])))

\* write_firmware_image(file, partition)
WriteFirmwareImageFn(st, v) ==
  Unless("" \in {v[1], v[2]}, st,
    {Out(Printing(st, <<Piece("firmware", <<v[2], v[1]>>)>>), "RAW")})

\* apply_patch, apply_patch_check, apply_patch_space: the program applypatch finds
\* the file it patches, or not, or does not understand its arguments.
ApplyPatchFn(st, v) ==
  Unless(v = <<>>, st,
    IF FileExists(st.s, v[1]) THEN Raw(st, create(st.s, v[1])) ELSE {Out(st, "RAW")})

\* show_progress, set_progress
ShowProgressFn(st, v) == {Out(Printing(st, <<Piece("progress", v)>>), "RAW")}
SetProgressFn(st, v) == {Out(Printing(st, <<Piece("set_progress", v)>>), "RAW")}

UIPrintFn(st, v) ==
  {Out(Printing(st, Append(Pieces(Joined(v)), Piece("ui_print", <<>>))), "RAW")}

-----------------------------------------------------------------------------
(* The function table: RegisterBuiltins and RegisterInstallFunctions.      *)

\* The functions that evaluate their arguments themselves, one by one.
Lazy == {"ifelse", "abort", "assert", "&&", "||", ";"}

LazyFn(inner, st, e) ==
  CASE e.fn = "ifelse" -> IfElseFn(inner, st, e)
    [] e.fn = "abort" -> AbortFn(inner, st, e)
    [] e.fn = "assert" -> AssertFn(inner, st, e)
    [] e.fn \in {"&&", "||"} -> LogicalFn(inner, st, e, e.fn = "&&")
    [] e.fn = ";" -> SequenceFn(inner, st, e)

\* The others check the number of their arguments, if they do, and have
\* ReadArgs evaluate them; greater_than_int swaps them before.
Numbered == {"is_mounted", "unmount", "getprop", "set_progress"} \X {1}
              \cup {"less_than_int", "greater_than_int", "format", "show_progress",
                    "package_extract_dir", "package_extract_file"} \X {2}
              \cup {<<"mount", 3>>}
WrongNumber(e) ==
  \/ \E f \in Numbered : f[1] = e.fn /\ f[2] # Len(e.args)
  \/ e.fn = "symlink" /\ e.args = <<>>
  \/ e.fn = "set_perm" /\ Len(e.args) < 4
  \/ e.fn = "set_perm_recursive" /\ Len(e.args) < 5
Swapped(e) == IF e.fn = "greater_than_int" THEN Reverse(e.args) ELSE e.args

BuiltinFn(st, fn, v) ==
  CASE fn \in {"concat", "+"} -> ConcatFn(st, v)
    [] fn = "is_substring" -> SubstringFn(st, v)
    [] fn = "stdout" -> StdoutFn(st, v)
    [] fn = "sleep" -> SleepFn(st, v)
    [] fn \in {"less_than_int", "greater_than_int"} -> LessThanIntFn(st, v)
    [] fn = "!" -> LogicalNotFn(st, v)
    [] fn = "==" -> EqualityFn(st, v)
    [] fn = "!=" -> InequalityFn(st, v)
Builtins == {"concat", "+", "is_substring", "stdout", "sleep", "less_than_int",
             "greater_than_int", "!", "==", "!="}

InstallFn(st, fn, v) ==
  CASE fn = "mount" -> MountFn(st, v)
    [] fn = "is_mounted" -> IsMountedFn(st, v)
    [] fn = "unmount" -> UnmountFn(st, v)
    [] fn = "format" -> FormatFn(st, v)
    [] fn = "show_progress" -> ShowProgressFn(st, v)
    [] fn = "set_progress" -> SetProgressFn(st, v)
    [] fn = "delete" -> DeleteFn(st, v, FALSE)
    [] fn = "delete_recursive" -> DeleteFn(st, v, TRUE)
    [] fn = "package_extract_dir" -> PackageExtractDirFn(st, v)
    [] fn = "package_extract_file" -> PackageExtractFileFn(st, v)
    [] fn = "symlink" -> SymlinkFn(st, v)
    [] fn = "set_perm" -> SetPermFn(st, v, 3)
    [] fn = "set_perm_recursive" -> SetPermFn(st, v, 4)
    [] fn = "getprop" -> GetPropFn(st, v)
    [] fn = "file_getprop" -> FileGetPropFn(st, v)
    [] fn = "write_raw_image" -> WriteRawImageFn(st, v)
    [] fn = "write_firmware_image" -> WriteFirmwareImageFn(st, v)
    [] fn \in {"apply_patch", "apply_patch_check", "apply_patch_space"} ->
         ApplyPatchFn(st, v)
    [] fn = "ui_print" -> UIPrintFn(st, v)

InstallFunctions ==
  {"mount", "is_mounted", "unmount", "format", "show_progress", "set_progress",
   "delete", "delete_recursive", "package_extract_dir", "package_extract_file",
   "symlink", "set_perm", "set_perm_recursive", "getprop", "file_getprop",
   "write_raw_image", "write_firmware_image", "apply_patch", "apply_patch_check",
   "apply_patch_space", "ui_print"}

CallFn(st, fn, a) ==
  CASE a.end = "" ->
         IF fn \in Builtins THEN BuiltinFn(st, fn, a.vals) ELSE InstallFn(st, fn, a.vals)
    [] a.end = "NULL" /\ fn \in {"delete", "delete_recursive"} ->
         DeleteAborts(st, a.vals)
    [] OTHER -> {Out(st, a.end)}

\* The function of a node, called.
Called(inner, st, e) ==
  CASE e.fn = "Literal" -> {Out(st, e.name)}
    [] e.fn \in Lazy -> LazyFn(inner, st, e)
    [] OTHER ->
         IF WrongNumber(e) THEN ErrorAbort(st)
         ELSE Then(ReadVarArgs(inner, st, Swapped(e)), LAMBDA t, a : CallFn(t, e.fn, a))

\* The scripts that the parser takes: no function is unknown.  Those that do not
\* look at the number of their arguments have as many as they read.
Read == {"!", "sleep"} \X {1}
          \cup {"==", "!=", "&&", "||", ";", "is_substring", "file_getprop",
                "write_raw_image", "write_firmware_image"} \X {2}
EdifyExpressions ==
  {expr \in Expressions : \A i \in DOMAIN expr :
     LET e == expr[i]
     IN  /\ e.fn \in {"Literal"} \cup Lazy \cup Builtins \cup InstallFunctions
         /\ e.name \in Texts
         /\ \A f \in Read : f[1] = e.fn => Len(e.args) >= f[2]}

EvaluateValue(st, expr) ==
  ValueOf(expr, EvaluatorStates(st.zip), st,
          LAMBDA inner, x : Called(inner, x[1], expr[x[2]]))

\* What main prints of an abort.
Report(st) ==
  IF st.errmsg = "NULL" THEN <<Piece("ui_print", <<>>)>>
  ELSE <<Piece("ui_print", <<>>), Piece("ui_print", <<>>)>>

=============================================================================
