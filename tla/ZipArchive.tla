----------------------------- MODULE ZipArchive -----------------------------
(***************************************************************************)
(* Packages as minzip reads them: the sorted entries and the hash table of *)
(* mzOpenZipArchive, finding an entry, reading one, extracting a directory *)
(* (Zip.c, Hash.c, DirUtil.c), and the verification of a signed package    *)
(* (verifier.c).                                                           *)
(*                                                                         *)
(* A package is a record: cd, its central directory; mf, the stanzas of its*)
(* manifest; sf, whether the signature file has the digest of the manifest;*)
(* rsa, whether the RSA file is one of the keys' signature of it.  A name  *)
(* is a string; what matters of its characters is in the definitions below.*)
(***************************************************************************)
EXTENDS Roots

-----------------------------------------------------------------------------
(* Names.                                                                  *)

\* The names of the instances, in the order of strncmp: "-" comes before "/"
\* and "0" behind it.
NamesInOrder == <<
  "META-INF/CERT.RSA", "META-INF/CERT.SF", "META-INF/MANIFEST.MF",
  "META-INF/com/google/android/update-binary",
  "META-INF/com/google/android/update-script",
  "META-INF/com/google/android/updater-script",
  "none.img", "radio.img", "system-old", "system/", "system/app", "system/lib", "system0">>
Names == {NamesInOrder[i] : i \in DOMAIN NamesInOrder}

ASSUME NamesAssumption == Names \subseteq STRING

RsaName == NamesInOrder[1]
SfName == NamesInOrder[2]
ManifestName == NamesInOrder[3]
BinaryName == NamesInOrder[4]
ScriptName == NamesInOrder[5]
UpdaterScriptName == NamesInOrder[6]

Rank(name) == CHOOSE i \in DOMAIN NamesInOrder : NamesInOrder[i] = name

\* The names that begin with the canonical form of a directory, "system/".
Under(dir) ==
  CASE dir = "system" -> {"system/", "system/app", "system/lib"}
    [] dir = "META-INF" -> {NamesInOrder[i] : i \in 1..6}
    [] dir \in {"META-INF/com", "META-INF/com/google", "META-INF/com/google/android"} ->
         {BinaryName, ScriptName, UpdaterScriptName}
    [] dir = "" -> Names
    [] OTHER -> {}

\* computeHash, as far as the table of the instances tells values apart.
computeHash(name) ==
  CASE name \in {"system/app", BinaryName} -> 3
    [] name \in {"system/lib", "system-old", ScriptName} -> 7
    [] OTHER -> IF name \in Names THEN Rank(name) ELSE 0

\* One entry of the central directory, at its place in it.  `intact' is whether
\* its data is stored, or inflates to the size the entry states.  Only the verifier
\* looks at the checksum (mzIsZipEntryIntact), reading and extracting do not: an
\* entry with nothing but its checksum wrong is left out.
ZipEntry(name, kind, data, intact) ==
  [name |-> name, kind |-> kind, data |-> data, intact |-> intact, at |-> 0]
EntryType ==
  [name : Names, kind : {"file", "dir", "link"}, data : STRING, intact : BOOLEAN, at : Nat]
NoEntry == ZipEntry("NULL", "none", "NULL", FALSE)

-----------------------------------------------------------------------------
(* The hash table: open addressing, from the slot of the hash upwards.     *)

\* The least power of two that is not less.
roundUpPower2(val) ==
  Loop(val, 1, LAMBDA power, k : IF power >= val THEN power ELSE 2 * power)

\* mzHashSize and mzHashTableCreate; LOAD_NUMER / LOAD_DENOM is 5 / 8.
TableSize(entries) == roundUpPower2((entries * 8) \div 5 + 1)
EmptyTable(size) == [slot \in 0..(size - 1) |-> NoEntry]
SizeOf(table) == Cardinality(DOMAIN table)
NumEntries(table) == Cardinality({i \in DOMAIN table : table[i] # NoEntry})

\* The slots that are looked at for a name, from that of its hash upwards and
\* around; and the one at which the probe ends: with the entry, or empty.
ProbedSlot(table, name, k) ==
  LET at == (computeHash(name) % SizeOf(table)) + k
  IN  IF at < SizeOf(table) THEN at ELSE at - SizeOf(table)
Stops(table, name, slot) == table[slot] = NoEntry \/ table[slot].name = name

Slot(table, name) ==
  LET stops == {k \in 0..(SizeOf(table) - 1) : Stops(table, name, ProbedSlot(table, name, k))}
      first == CHOOSE k \in stops : \A j \in stops : k <= j
  IN  ProbedSlot(table, name, first)

Insert(table, entry) == [table EXCEPT ![Slot(table, entry.name)] = entry]

\* resizeHash: every entry is inserted anew, in the order of the old slots.
resizeHash(table, size) ==
  Loop(SizeOf(table), EmptyTable(size), LAMBDA made, k :
    IF table[k - 1] = NoEntry THEN made ELSE Insert(made, table[k - 1]))

\* Mutant: an entry of the same name is replaced.
AddEntryReplacing(table, entry) ==
  LET added == Insert(table, entry)
  IN  IF NumEntries(added) * 8 > SizeOf(table) * 5
      THEN resizeHash(added, SizeOf(table) * 2)
      ELSE added

\* mzHashTableLookup(doAdd): an entry of the same name is kept.
AddEntry(table, entry) ==
  LET added == Insert(table, entry)
  IN  IF table[Slot(table, entry.name)] # NoEntry THEN table
      ELSE IF NumEntries(added) * 8 > SizeOf(table) * 5
      THEN resizeHash(added, SizeOf(table) * 2)
      ELSE added

-----------------------------------------------------------------------------
(* Opening an archive.                                                     *)

\* One turn of the binary search of parseZipArchive.
SearchTurn(entries, name, s) ==
  LET mid == s.low + (s.high - s.low) \div 2
      at == Rank(entries[mid + 1].name)
  IN  IF s.met \/ s.low > s.high THEN s
      ELSE IF at < Rank(name) THEN [s EXCEPT !.low = mid + 1]
      ELSE IF at > Rank(name) THEN [s EXCEPT !.high = mid - 1]
      ELSE [s EXCEPT !.high = mid, !.met = TRUE]

\* Where it ends: one behind the last entry that is smaller, or behind an
\* equal one that it meets.
Target(entries, name) ==
  1 + Loop(Len(entries), [low |-> 0, high |-> Len(entries) - 1, met |-> FALSE],
           LAMBDA s, k : SearchTurn(entries, name, s)).high

\* parseZipArchive: the entries sorted, then hashed in that order.
SortedEntries(cd) ==
  Loop(Len(cd), <<>>, LAMBDA sorted, k :
    InsertAt(sorted, Target(sorted, cd[k].name) + 1, [cd[k] EXCEPT !.at = k]))

parseZipArchive(cd) ==
  LET entries == SortedEntries(cd)
  IN  [entries |-> entries,
       hash |-> Loop(Len(cd), EmptyTable(TableSize(Len(cd))), LAMBDA table, k :
                  AddEntry(table, entries[k]))]

\* mzFindZipEntry
mzFindZipEntry(zip, name) == zip.hash[Slot(zip.hash, name)]

-----------------------------------------------------------------------------
(* Reading and extracting.                                                 *)

\* mzProcessZipEntryContents and what is built on it: the data of an entry
\* that is intact, unless the card cannot be read.
mzReadZipEntry(s, entry) ==
  IF entry.intact THEN {Out(s, TRUE)} \cup {Out(t, FALSE) : t \in Failing(s)}
  ELSE {Out(s, FALSE)}

\* A file below a mount point, or a part of one.
Stored(s, point, entry) ==
  [s EXCEPT !.files[Where(s, point)] = @ \cup {entry.name}]
Truncated(s, point, entry) ==
  [s EXCEPT !.files[Where(s, point)] = @ \ {entry.name}]

\* One turn of the loop of mzExtractRecursive.  `ret' is whether it goes on,
\* and "said" is what the function returns if it does not: the result of
\* mzExtractZipEntryToFile goes to a variable of an inner block, and so does
\* the FALSE for utime(); for the other errors the function returns FALSE.
Step(goOn, said) == [goOn |-> goOn, said |-> said]
ExtractEntry(s, entry, point, filesOnly) ==
  LET hidden == Step(FALSE, TRUE)
      reported == Step(FALSE, FALSE)
      done == Out(Stored(s, point, entry), Step(TRUE, TRUE))
      CannotCreate == IF Writable(s, point)
                      THEN {Out(t, reported) : t \in Failing(s)}
                      ELSE {Out(s, reported)}
      Written == IF ~Writable(s, point) THEN {}
                 ELSE IF entry.intact
                 THEN {done} \cup UNION {{Out(Truncated(t, point, entry), hidden),
                                          Out(Stored(t, point, entry), hidden)} :
                                           t \in Failing(s)}
                 ELSE {Out(Truncated(s, point, entry), hidden)}
      Linked == IF Writable(s, point) /\ entry.intact THEN {done} ELSE {Out(s, reported)}
  IN  CASE entry.kind = "dir" /\ filesOnly -> {Out(s, Step(TRUE, TRUE))}
        [] entry.kind = "dir" /\ ~filesOnly ->
             (IF Writable(s, point) THEN {done} ELSE {}) \cup CannotCreate
        [] entry.kind = "link" /\ ~filesOnly -> Linked \cup CannotCreate
        [] OTHER -> Written \cup CannotCreate

\* Mutant: the last of the entries is left out.
MatchingButLast(zip, dir) ==
  LET hits == SelectSeq(zip.entries, LAMBDA e : e.name \in Under(dir))
  IN  IF hits = <<>> THEN hits ELSE Front(hits)

\* mzExtractRecursive: the entries under a directory are next to each other,
\* and the first that fails ends it.
Matching(zip, dir) ==
  LET es == zip.entries
      hits == {i \in DOMAIN es : es[i].name \in Under(dir)}
      first == CHOOSE i \in hits : \A j \in hits : i <= j
      beyond == {i \in DOMAIN es : i >= first /\ es[i].name \notin Under(dir)}
      last == IF beyond = {} THEN Len(es)
              ELSE (CHOOSE i \in beyond : \A j \in beyond : i <= j) - 1
  IN  IF hits = {} THEN <<>> ELSE SubSeq(es, first, last)

mzExtractRecursive(s, zip, dir, point, filesOnly) ==
  LET under == Matching(zip, dir)
      extracted == Loop(Len(under), {Out(s, Step(TRUE, TRUE))}, LAMBDA outcomes, k :
                     UNION {IF o.ret.goOn THEN ExtractEntry(o.s, under[k], point, filesOnly)
                            ELSE {o} : o \in outcomes})
  IN  {Out(o.s, [ok |-> o.ret.said, all |-> o.ret.goOn]) : o \in extracted}

\* What dir's files are, whatever the order of the central directory.
FilesUnder(cd, dir) ==
  {cd[i].name : i \in {j \in DOMAIN cd : cd[j].name \in Under(dir) /\ cd[j].kind # "dir"}}

-----------------------------------------------------------------------------
(* Verifying a package.                                                    *)

\* verifySignature: an RSA file that one of the keys made of the SF file
\* beside it.
verifySignature(p, zip) ==
  LET Signs(e) == /\ e.name = RsaName
                  /\ mzFindZipEntry(zip, SfName).intact
                  /\ e.intact /\ p.rsa
  IN  \E i \in DOMAIN zip.entries : Signs(zip.entries[i])

\* verifyManifest
verifyManifest(p, zip) ==
  p.sf /\ mzFindZipEntry(zip, ManifestName).intact

\* Mutant: entries that no stanza names may be left.
EveryStanzaVerifies(p, zip) ==
  \A i \in DOMAIN p.mf :
    LET e == mzFindZipEntry(zip, p.mf[i].name)
    IN  e # NoEntry /\ e.intact /\ e.data = p.mf[i].digest

\* The entries that must have a stanza: not directories, the manifest that is
\* found, or signatures.
Marked(zip) ==
  {e.at : e \in {x \in ToSet(zip.entries) :
                   /\ x.name \notin {RsaName, SfName}
                   /\ x.kind # "dir"
                   /\ x # mzFindZipEntry(zip, ManifestName)}}

\* verifyArchive: every stanza takes the mark from the entry that is FOUND by
\* its name, and fails if an earlier one took it; no mark may be left.
verifyArchive(p, zip) ==
  LET Found(i) == mzFindZipEntry(zip, p.mf[i].name)
      Verifies(i) == /\ Found(i) # NoEntry /\ Found(i).intact
                     /\ Found(i).data = p.mf[i].digest
                     /\ Found(i).at \in Marked(zip)
                     /\ \A j \in 1..(i - 1) : Found(j).at # Found(i).at
  IN  /\ \A i \in DOMAIN p.mf : Verifies(i)
      /\ Marked(zip) \subseteq {Found(i).at : i \in DOMAIN p.mf}

\* verify_jar_signature
verify_jar_signature(p, zip) ==
  verifySignature(p, zip) /\ verifyManifest(p, zip) /\ verifyArchive(p, zip)
=============================================================================
