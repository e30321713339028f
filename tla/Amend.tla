------------------------------- MODULE Amend -------------------------------
(***************************************************************************)
(* Amend scripts: the interpreter (amend/execute.c, amend/commands.c,      *)
(* amend/symtab.c) and the commands and functions that commands.c          *)
(* registers with it.                                                      *)
(*                                                                         *)
(* A command runs in a context c = [s, zip, package, firmware]: the        *)
(* storage, the open package, whether it is registered as the package root,*)
(* and the firmware image that is kept for later.  A function of a script  *)
(* sees only the storage.                                                  *)
(***************************************************************************)
EXTENDS ZipArchive

Context(s, zip, package, firmware) ==
  [s |-> s, zip |-> zip, package |-> package, firmware |-> firmware]

\* What a function returns besides 0.
Failed == [ok |-> FALSE, value |-> ""]
Value(v) == [ok |-> TRUE, value |-> v]

With(c, outcomes) == {Out([c EXCEPT !.s = o.s], o.ret) : o \in outcomes}

\* A word is a text; these are paths: a root, and what follows it.
RootPath(root, file) == [root |-> root, file |-> file]
RootPaths ==
  [r \in {"BOOT:", "CACHE:", "DATA:", "SDCARD:", "SYSTEM:"} |-> RootPath(r, "NULL")]
  @@ "SYSTEM:old" :> RootPath("SYSTEM:", "old")
  @@ "SYSTEM:link" :> RootPath("SYSTEM:", "link")
  @@ "PACKAGE:system" :> RootPath("PACKAGE:", "system")
  @@ "PACKAGE:radio.img" :> RootPath("PACKAGE:", "radio.img")
  @@ "PACKAGE:system0" :> RootPath("PACKAGE:", "system0")
RootOf(word) == IF word \in DOMAIN RootPaths THEN RootPaths[word].root ELSE "NULL"
FileOf(word) == RootPaths[word].file

\* As for the volumes, TLC checks that these constants are strings.
ASSUME AmendAssumption == \A word \in DOMAIN RootPaths : FileOf(word) \in STRING

is_package_root_path(word) == RootOf(word) = "PACKAGE:"

\* The point where the root of a path is mounted, unless it has none.
PointOf(s, word) ==
  IF RootOf(word) = "NULL" THEN "NULL" ELSE translate_root_path(s, RootOf(word))

\* The entry of a path in the package; a package that is not registered has none.
PackageEntry(c, word) ==
  IF c.package THEN mzFindZipEntry(c.zip, FileOf(word)) ELSE NoEntry

-----------------------------------------------------------------------------
(* Functions.                                                              *)

\* file_contains mounts the root; that the file is missing is no error.
fn_file_contains(s, argv) ==
  LET point == PointOf(s, argv[1])
      Look(t, ret) ==
        CASE ret # 0 -> {Out(t, Failed)}
          [] ret = 0 /\ FileOf(argv[1]) \notin t.files[Where(t, point)] ->
               {Out(t, Value(""))}
          [] OTHER -> {Out(t, Value("")), Out(t, Value("true"))}
  IN  IF Len(argv) # 2 \/ point = "NULL" THEN {Out(s, Failed)}
      ELSE Then(ensure_root_path_mounted(s, RootOf(argv[1])), Look)

\* The functions that only look at their arguments: what they return, or
\* Failed for a wrong number of them.
Chosen(condition, v) == Value(IF condition THEN v ELSE "")

fn_compatible_with(argv) ==
  IF Len(argv) = 1 THEN Chosen(argv[1] \in {"0.1", "0.2"}, "true") ELSE Failed
fn_update_forced(argv) == IF argv = <<>> THEN Value("true") ELSE Failed
fn_get_mark(argv) == IF Len(argv) = 1 THEN Value("") ELSE Failed
fn_hash_dir(argv) == Failed
fn_matches(argv) ==
  IF Len(argv) >= 2 THEN Chosen(argv[1] \in ToSet(Tail(argv)), argv[1]) ELSE Failed
fn_concat(argv) == Value(Joined(argv))
fn_getprop(argv) == IF Len(argv) = 1 THEN Value("property") ELSE Failed

Functions ==
  {"file_contains", "compatible_with", "update_forced", "get_mark", "hash_dir",
   "matches", "concat", "getprop"}
callFunction(s, fn, argv) ==
  CASE fn = "file_contains" -> fn_file_contains(s, argv)
    [] fn = "compatible_with" -> {Out(s, fn_compatible_with(argv))}
    [] fn = "update_forced" -> {Out(s, fn_update_forced(argv))}
    [] fn = "get_mark" -> {Out(s, fn_get_mark(argv))}
    [] fn = "hash_dir" -> {Out(s, fn_hash_dir(argv))}
    [] fn = "matches" -> {Out(s, fn_matches(argv))}
    [] fn = "concat" -> {Out(s, fn_concat(argv))}
    [] fn = "getprop" -> {Out(s, fn_getprop(argv))}

-----------------------------------------------------------------------------
(* Expressions: all arguments are evaluated, from the left, and a function *)
(* that fails ends it.  inner[<<s, n>>] is what node n is worth in s.      *)

Function(fn, args) == Tree(fn, args)
Literal(text) == Leaf("literal", text)
Operator(op, args) == Tree(op, args)

\* What follows a value, unless a function failed.
BindValue(outcomes, F(_, _)) ==
  Then(outcomes, LAMBDA s, v : IF v.ok THEN F(s, v.value) ELSE {Out(s, Failed)})

execFunctionArguments(inner, s, args) ==
  Loop(Len(args), {Out(s, Value(<<>>))}, LAMBDA outcomes, k :
    BindValue(outcomes, LAMBDA t, sofar :
      BindValue(inner[<<t, args[k]>>], LAMBDA u, v : {Out(u, Value(Append(sofar, v)))})))

execFunctionCall(inner, s, e) ==
  BindValue(execFunctionArguments(inner, s, e.args),
            LAMBDA t, argv : callFunction(t, e.fn, argv))

\* The operators of two arguments, of strings and of truth values: what they can
\* result in.  Which of two different strings is the lesser is left open.
Comparisons == {"strings ==", "strings !=", "strings <", "strings <=",
                "strings >", "strings >="}
Connectives == {"==", "!=", "&&", "||"}
Operate(op, a, b) ==
  CASE op \in {"strings ==", "=="} -> {a = b}
    [] op \in {"strings !=", "!="} -> {a # b}
    [] op = "&&" -> {a /\ b}
    [] op = "||" -> {a \/ b}
    [] op \in {"strings <", "strings >"} -> IF a = b THEN {FALSE} ELSE BOOLEAN
    [] op \in {"strings <=", "strings >="} -> IF a = b THEN {TRUE} ELSE BOOLEAN

\* execStringComparisonExpression and execBooleanExpression
execTwo(inner, s, e) ==
  BindValue(inner[<<s, e.args[1]>>], LAMBDA t, a :
    BindValue(inner[<<t, e.args[2]>>], LAMBDA u, b :
      {Out(u, Value(r)) : r \in Operate(e.fn, a, b)}))
execNot(inner, s, e) ==
  BindValue(inner[<<s, e.args[1]>>], LAMBDA t, a : {Out(t, Value(~a))})

\* execStringValue and execBooleanValue
execNode(inner, s, e) ==
  CASE e.fn = "literal" -> {Out(s, Value(e.name))}
    [] e.fn \in Comparisons \cup Connectives -> execTwo(inner, s, e)
    [] e.fn = "!" -> execNot(inner, s, e)
    [] OTHER -> execFunctionCall(inner, s, e)

\* The expressions that the parser takes: no function is unknown.
AmendExpressions ==
  {expr \in Expressions : \A i \in DOMAIN expr :
     LET e == expr[i]
     IN  \/ e.fn = "literal" \/ e.fn \in Functions
         \/ e.fn \in Comparisons \cup Connectives /\ Len(e.args) = 2
         \/ e.fn = "!" /\ Len(e.args) = 1}

execBooleanValue(s, expr) ==
  ValueOf(expr, Storage, s, LAMBDA inner, x : execNode(inner, x[1], expr[x[2]]))

-----------------------------------------------------------------------------
(* Commands: each returns 0, or the end of the script.                     *)

\* An assertion of which a function fails is an error.
cmd_assert(c, expr) ==
  {Out(o.s, IF ~o.ret.ok THEN -1 ELSE IF o.ret.value THEN 0 ELSE 1) :
     o \in With(c, execBooleanValue(c.s, expr))}

\* What a command does after a check: nothing but to fail.
FailIf(wrong, c, outcomes) == IF wrong THEN {Out(c, 1)} ELSE outcomes

cmd_format(c, argv) ==
  FailIf(Len(argv) # 1, c,
    {Out(o.s, IF o.ret # 0 THEN 1 ELSE 0) :
       o \in With(c, format_root_device(c.s, RootOf(argv[1])))})

\* delete, delete_recursive: every path is tried, and nothing is an error.
\* Mounting has failed only if its result is negative.
cmd_delete(c, argv, recurse) ==
  LET Unlink(s, point, file) ==
        IF recurse /\ file = "NULL" THEN RemoveAll(s, point)
        ELSE IF file \in s.files[Where(s, point)] /\ Writable(s, point)
        THEN Try(s, [s EXCEPT !.files[Where(s, point)] = @ \ {file}], -1)
        ELSE {Out(s, -1)}
      One(s, word) ==
        IF PointOf(s, word) = "NULL" THEN {Out(s, -1)}
        ELSE Then(ensure_root_path_mounted(s, RootOf(word)), LAMBDA t, ret :
               IF ret < 0 THEN {Out(t, ret)}
               ELSE Unlink(t, PointOf(t, word), FileOf(word)))
      All == Loop(Len(argv), {c.s}, LAMBDA states, k :
               {o.s : o \in UNION {One(s, argv[k]) : s \in states}})
  IN  FailIf(argv = <<>>, c, With(c, {Out(s, 0) : s \in All}))

\* The timestamps that are numbers and not before the default, 8/1/2008.
Timestamps == {"1217592001"}

\* copy_dir <src-dir> <dst-dir> [<timestamp>]: the volume is mounted first; the dry run that
\* counts the files reads none of them and finds no error.
cmd_copy_dir(c, argv) ==
  LET point == PointOf(c.s, argv[2])
      Extract(s, ret) ==
        CASE ret < 0 -> {Out(s, 1)}
          [] ret >= 0 /\ point = "NULL" -> {Out(s, 1)}
          [] ret >= 0 /\ point # "NULL" /\ ~is_package_root_path(argv[1]) ->
               {Out(s, 255)}
          [] OTHER ->
               IF ~c.package THEN {Out(s, 1)}
               ELSE {Out(o.s, IF o.ret.ok THEN 0 ELSE 1) :
                       o \in mzExtractRecursive(s, c.zip, FileOf(argv[1]), point, TRUE)}
  IN  FailIf(\/ Len(argv) \notin 2..3
             \/ Len(argv) = 3 /\ argv[3] \notin Timestamps, c,
        With(c, Then(ensure_root_path_mounted(c.s, RootOf(argv[2])), Extract)))

\* run_program: the program is extracted, run and waited for.  When it cannot
\* be forked its status is what the stack holds.
cmd_run_program(c, argv) ==
  LET entry == PackageEntry(c, argv[1])
      Wait(s) == {Out(s, IF entry.data = "exit 0" THEN 0 ELSE 1)}
      Run(s, ok) ==
        IF ~ok THEN {Out(s, 1)}
        ELSE Wait(s) \cup UNION {{Out(t, 0), Out(t, 1)} : t \in Failing(s)}
  IN  FailIf(\/ argv = <<>>
             \/ ~is_package_root_path(argv[1])
             \/ entry = NoEntry, c,
        With(c, Then(Try(c.s, c.s, -1), LAMBDA s, ret :
                  IF ret < 0 THEN {Out(s, 1)}
                  ELSE Then(mzReadZipEntry(s, entry), Run))))

\* What strtoul and strtod take.
Numerals == {"0", "1", "0644"}

\* set_perm, set_perm_recursive: of the paths only the first.
cmd_set_perm(c, argv, numbers) ==
  LET word == argv[numbers + 1]
  IN  FailIf(\/ Len(argv) < numbers + 1
             \/ \E i \in 1..numbers : argv[i] \notin Numerals
             \/ PointOf(c.s, word) = "NULL", c,
        With(c, Then(ensure_root_path_mounted(c.s, RootOf(word)), LAMBDA s, ret :
                  IF ret # 0 \/ ~Writable(s, PointOf(c.s, word)) THEN {Out(s, 1)}
                  ELSE Try(s, s, 1))))

\* show_progress <fraction> <duration>
cmd_show_progress(c, argv) ==
  FailIf(Len(argv) # 2 \/ ~(ToSet(argv) \subseteq Numerals), c, {Out(c, 0)})

\* symlink <link-target> <link-path>: nothing may be there.
cmd_symlink(c, argv) ==
  LET point == PointOf(c.s, argv[2])
      Link(s, ret) ==
        IF \/ ret # 0
           \/ ~Writable(s, point)
           \/ FileOf(argv[2]) \in s.files[Where(s, point)]
        THEN {Out(s, 1)}
        ELSE Try(s, [s EXCEPT !.files[Where(s, point)] = @ \cup {FileOf(argv[2])}], 1)
  IN  FailIf(Len(argv) # 2 \/ point = "NULL", c,
        With(c, Then(ensure_root_path_mounted(c.s, RootOf(argv[2])), Link)))

\* remember_firmware_update: one image at a time.
remember_firmware_update(c, image) ==
  IF c.firmware # "NULL" THEN {Out(c, -1)}
  ELSE {Out([c EXCEPT !.firmware = image], 0)}

\* write_radio_image, write_hboot_image: the image is kept at once.
cmd_write_firmware_image(c, argv) ==
  LET entry == PackageEntry(c, argv[1])
      Keep(d, ok) ==
        IF ~ok THEN {Out(d, 1)}
        ELSE {Out(o.s, IF o.ret # 0 THEN 1 ELSE 0) :
                o \in remember_firmware_update(d, entry.data)}
  IN  FailIf(\/ Len(argv) # 1
             \/ ~is_package_root_path(argv[1])
             \/ entry = NoEntry, c,
        Then(With(c, mzReadZipEntry(c.s, entry)), Keep))

\* write_raw_image <src-image> <dest-root>: the root is unmounted, and the
\* image written to its MTD partition; there is no writing to an MMC one.
cmd_write_raw_image(c, argv) ==
  LET entry == PackageEntry(c, argv[1])
      Written(s, volume) == [s EXCEPT !.files[volume] = {entry.name}]
      Spoilt(s, volume) == {Out(s, 1), Out(Emptied(s, volume), 1)}
      Finish(s, volume) ==
        {Out(Written(s, volume), 0)}
          \cup {Out(Written(t, volume), -1) : t \in Failing(s)}
      Write(s, volume) ==
        IF volume = "NULL" THEN {Out(s, 1)}
        ELSE (IF entry.intact THEN Finish(s, volume) ELSE Spoilt(s, volume))
               \cup UNION {Spoilt(t, volume) : t \in Failing(s)}
      Unmounted(s, ret) ==
        IF ret < 0 THEN {Out(s, 1)}
        ELSE Then(get_root_mtd_partition(s, RootOf(argv[2])), Write)
  IN  CASE Len(argv) # 2 -> {Out(c, 1)}
        [] Len(argv) = 2 /\ ~is_package_root_path(argv[1]) -> {Out(c, 255)}
        [] OTHER -> FailIf(entry = NoEntry, c,
             With(c, Then(ensure_root_path_unmounted(c.s, RootOf(argv[2])), Unmounted)))

\* mark, done: not written yet.
cmd_mark(c) == {Out(c, -1)}

-----------------------------------------------------------------------------
(* Running a script.                                                       *)

\* A command, with its words; or an assertion, with its expression.
Command(cmd, argv) == [cmd |-> cmd, argv |-> argv, test |-> <<>>]
Assertion(expr) == [cmd |-> "assert", argv |-> <<>>, test |-> expr]

CommandType ==
  [cmd : STRING, argv : Seq(STRING), test : AmendExpressions \cup {<<>>}]
WellFormed(command) == command.cmd = "assert" => command.test # <<>>

\* execCommand and the table of register_update_commands; a command that is
\* not in it is a syntax error.
Commands == {"assert", "format", "delete", "delete_recursive", "copy_dir",
             "run_program", "set_perm", "set_perm_recursive", "show_progress",
             "symlink", "write_radio_image", "write_hboot_image",
             "write_raw_image", "mark", "done"}

execCommand(c, command) ==
  LET argv == command.argv
  IN  CASE command.cmd = "assert" -> cmd_assert(c, command.test)
        [] command.cmd = "format" -> cmd_format(c, argv)
        [] command.cmd = "delete" -> cmd_delete(c, argv, FALSE)
        [] command.cmd = "delete_recursive" -> cmd_delete(c, argv, TRUE)
        [] command.cmd = "copy_dir" -> cmd_copy_dir(c, argv)
        [] command.cmd = "run_program" -> cmd_run_program(c, argv)
        [] command.cmd = "set_perm" -> cmd_set_perm(c, argv, 3)
        [] command.cmd = "set_perm_recursive" -> cmd_set_perm(c, argv, 4)
        [] command.cmd = "show_progress" -> cmd_show_progress(c, argv)
        [] command.cmd = "symlink" -> cmd_symlink(c, argv)
        [] command.cmd \in {"write_radio_image", "write_hboot_image"} ->
             cmd_write_firmware_image(c, argv)
        [] command.cmd = "write_raw_image" -> cmd_write_raw_image(c, argv)
        [] command.cmd \in {"mark", "done"} -> cmd_mark(c)

\* parseAmendScript
parses(commands) == \A i \in DOMAIN commands : commands[i].cmd \in Commands

=============================================================================
