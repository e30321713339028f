-------------------------- MODULE InstallerProofs --------------------------
(***************************************************************************)
(* Installing a package, proved for every device, package, script and      *)
(* program.                                                                *)
(***************************************************************************)
EXTENDS Installer, ScriptProofs

Phases == {"prompt", "opening", "opened", "verified", "no binary", "reading",
           "waiting", "firmware", "script", "closing", "crashed"}

-----------------------------------------------------------------------------
(* Signatures                                                              *)

\* A package passes the check of its signature only if it is signed.
LEMMA VerifiedIsSigned ==
  ASSUME NEW p \in Packages, NEW z, ArchiveOf(z, p.cd), verify_jar_signature(p, z)
  PROVE  Signed(p)
<1> DEFINE cd == p.cd
           n == Len(cd)
           Found(j) == mzFindZipEntry(z, p.mf[j].name)
           manifest == mzFindZipEntry(z, ManifestName)
           own == {RsaName, SfName, ManifestName}
           files == {i \in DOMAIN cd : cd[i].kind # "dir" /\ cd[i].name \notin own}
           Vouches(j, i) == /\ p.mf[j].name = cd[i].name
                            /\ p.mf[j].digest = cd[i].data /\ cd[i].intact
<1>1. /\ cd \in Seq(EntryType) /\ n \in Nat /\ DOMAIN cd = 1..n
      /\ p.mf \in Seq([name : STRING, digest : STRING])
  BY DEF Packages, PackageType
<1>2. ToSet(z.entries) = {Placed(cd, m) : m \in 1..n}
  BY <1>1, EntriesOfList DEF ArchiveOf
<1>3. \A m \in 1..n : /\ Placed(cd, m).at = m
                      /\ Placed(cd, m).name = cd[m].name /\ Placed(cd, m).kind = cd[m].kind
                      /\ Placed(cd, m).data = cd[m].data /\ Placed(cd, m).intact = cd[m].intact
  BY <1>1, PlacedIsEntry
<1>4. \A name : FoundOf(mzFindZipEntry(z, name), cd, name)
  BY <1>1, LookupFinds
<1>5. /\ p.rsa /\ p.sf
      /\ \A j \in DOMAIN p.mf : /\ Found(j) # NoEntry /\ Found(j).intact
                                /\ Found(j).data = p.mf[j].digest
                                /\ Found(j).at \in Marked(z)
      /\ Marked(z) \subseteq {Found(j).at : j \in DOMAIN p.mf}
  <2>1. p.rsa
    BY DEF verify_jar_signature, verifySignature
  <2>2. p.sf
    BY DEF verify_jar_signature, verifyManifest
  <2>3. verifyArchive(p, z)
    BY DEF verify_jar_signature
  <2>4. QED
    BY <2>1, <2>2, <2>3 DEF verifyArchive
<1>6. \A i \in 1..n : i \in Marked(z) <=>
        /\ cd[i].name \notin {RsaName, SfName} /\ cd[i].kind # "dir"
        /\ Placed(cd, i) # manifest
  <2>1. Marked(z) = {e.at : e \in {x \in {Placed(cd, m) : m \in 1..n} :
                                     /\ x.name \notin {RsaName, SfName}
                                     /\ x.kind # "dir" /\ x # manifest}}
    BY <1>2 DEF Marked
  <2> HIDE DEF manifest
  <2>2. QED
    BY <1>3, <2>1
<1>7. \A j \in DOMAIN p.mf : /\ Found(j).at \in 1..n /\ Found(j) = Placed(cd, Found(j).at)
                             /\ cd[Found(j).at].name = p.mf[j].name
  <2>1. SUFFICES ASSUME NEW j \in DOMAIN p.mf
                 PROVE  /\ Found(j).at \in 1..n /\ Found(j) = Placed(cd, Found(j).at)
                        /\ cd[Found(j).at].name = p.mf[j].name
    OBVIOUS
  <2>2. FoundOf(Found(j), cd, p.mf[j].name) /\ Found(j) # NoEntry
    BY <1>4, <1>5
  <2>3. QED
    BY <2>2 DEF FoundOf
<1> HIDE DEF Found
<1>8. ASSUME NEW i \in files
      PROVE  \E j \in DOMAIN p.mf : Vouches(j, i)
  <2>1. i \in 1..n /\ cd[i].name \notin own /\ cd[i].kind # "dir"
    BY <1>1
  <2>2. Placed(cd, i) # manifest
    <3>1. FoundOf(manifest, cd, ManifestName)
      BY <1>4
    <3>2. CASE \E m \in 1..n : cd[m].name = ManifestName
      BY <2>1, <1>3, <3>1, <3>2 DEF FoundOf
    <3>3. CASE ~ \E m \in 1..n : cd[m].name = ManifestName
      <4>1. manifest.at = 0
        BY <3>1, <3>3 DEF FoundOf, NoEntry, ZipEntry
      <4>2. QED
        BY <2>1, <1>3, <4>1
    <3>4. QED
      BY <3>2, <3>3
  <2>3. i \in Marked(z)
    BY <1>6, <2>1, <2>2
  <2>4. PICK j \in DOMAIN p.mf : Found(j).at = i
    BY <1>5, <2>3
  <2>5. Vouches(j, i)
    BY <1>3, <1>5, <1>7, <2>1, <2>4
  <2>6. QED
    BY <2>5
<1>9. ASSUME NEW j \in DOMAIN p.mf
      PROVE  \E i \in files : Vouches(j, i)
  <2> DEFINE i == Found(j).at
  <2>1. i \in 1..n /\ Found(j) = Placed(cd, i) /\ cd[i].name = p.mf[j].name
    BY <1>7
  <2>2. i \in Marked(z)
    BY <1>5
  <2>3. cd[i].name \notin {RsaName, SfName} /\ cd[i].kind # "dir" /\ Placed(cd, i) # manifest
    BY <1>6, <2>1, <2>2
  <2>4. cd[i].name # ManifestName
    <3>1. SUFFICES ASSUME p.mf[j].name = ManifestName PROVE FALSE
      BY <2>1
    <3>2. Found(j) = manifest
      BY <3>1 DEF Found
    <3>3. QED
      BY <2>1, <2>3, <3>2
  <2>5. i \in files
    BY <1>1, <2>1, <2>3, <2>4
  <2>6. Vouches(j, i)
    BY <1>3, <1>5, <2>1
  <2>7. QED
    BY <2>5, <2>6
<1>10. QED
  BY <1>5, <1>8, <1>9 DEF Signed

-----------------------------------------------------------------------------
(* The package, from its choice to the end of the installation             *)

\* The package stays what it is, and what is open of it is the package; with the
\* check of signatures enabled it is signed wherever it is installed; and a script
\* that runs has been parsed.
Verified == {"verified", "no binary", "reading", "waiting", "firmware", "script", "crashed"}
PackageIsOpen ==
  /\ package \in Packages /\ phase \in Phases
  /\ phase \in Verified \cup {"opened"} => zip = parseZipArchive(package.cd)
  /\ phase \in Verified => (signature_check => Signed(package))
  /\ phase = "script" => parses(package.commands)

LEMMA OpenInit ==
  ASSUME Init
  PROVE  PackageIsOpen
<1>1. package \in Packages
  BY InstallerAssumption DEF Init
<1>2. phase = "prompt"
  BY DEF Init
<1>3. QED
  BY <1>1, <1>2 DEF PackageIsOpen, Phases, Verified

\* The steps that leave the package, the phase and the archive alone.
LEMMA OpenStays ==
  ASSUME PackageIsOpen, UNCHANGED <<package, zip, signature_check>>,
         \/ phase' = phase
         \/ phase' \in {"prompt", "opening", "closing"}
         \/ phase \in Verified /\ phase' \in Verified \ {"script"}
  PROVE  PackageIsOpen'
BY DEF PackageIsOpen, Phases, Verified

LEMMA OpenStep ==
  ASSUME PackageIsOpen, [Next]_vars
  PROVE  PackageIsOpen'
<1>1. CASE User
  <2>1. CASE ChoosePackage
    <3>1. UNCHANGED <<package, zip, signature_check>> /\ phase' \in {phase, "opening"}
      BY <2>1 DEF ChoosePackage
    <3>2. QED
      BY <3>1, OpenStays
  <2>2. CASE DeclinePackage
    BY <2>2, OpenStays DEF DeclinePackage, recovery
  <2>3. ASSUME NEW root \in UserRoots, FormatRoot(root)
        PROVE  PackageIsOpen'
    BY <2>3, OpenStays DEF FormatRoot, Operation, recovery
  <2>4. ASSUME NEW root \in UserRoots, MountOrUnmount(root)
        PROVE  PackageIsOpen'
    BY <2>4, OpenStays DEF MountOrUnmount, Operation, recovery
  <2>5. ASSUME NEW root \in UserRoots, NEW fs \in {"ext3", "ext4", "upgrade"},
               ConvertRoot(root, fs)
        PROVE  PackageIsOpen'
    BY <2>5, OpenStays DEF ConvertRoot, Operation, recovery
  <2>6. QED
    BY <1>1, <2>1, <2>2, <2>3, <2>4, <2>5 DEF User
<1>2. CASE OpenPackage
  <2>1. UNCHANGED <<package, signature_check>>
    BY <1>2 DEF OpenPackage
  <2>2. \/ phase' = "closing"
        \/ phase' = "opened" /\ zip' = parseZipArchive(package.cd)
    BY <1>2 DEF OpenPackage, Return, Goto
  <2>3. QED
    BY <2>1, <2>2 DEF PackageIsOpen, Phases, Verified
<1>3. CASE VerifyPackage
  <2>1. UNCHANGED <<package, zip, signature_check>> /\ phase = "opened"
    BY <1>3 DEF VerifyPackage
  <2>2. \/ phase' = "closing"
        \/ phase' = "verified" /\ (signature_check => verify_jar_signature(package, zip))
    BY <1>3 DEF VerifyPackage, Return, Goto
  <2>3. CASE phase' = "closing"
    BY <2>1, <2>3, OpenStays
  <2>4. CASE phase' = "verified" /\ (signature_check => verify_jar_signature(package, zip))
    <3>1. package \in Packages /\ zip = parseZipArchive(package.cd)
      BY <2>1 DEF PackageIsOpen
    <3>2. package.cd \in Seq(EntryType)
      BY <3>1 DEF Packages, PackageType
    <3>3. ArchiveOf(zip, package.cd)
      BY <3>1, <3>2, ParsedIsArchive
    <3>4. signature_check => Signed(package)
      BY <2>4, <3>1, <3>3, VerifiedIsSigned
    <3>5. QED
      BY <2>1, <2>4, <3>1, <3>4 DEF PackageIsOpen, Phases, Verified
  <2>5. QED
    BY <2>2, <2>3, <2>4
<1>4. CASE StartBinary
  <2>1. UNCHANGED <<package, zip, signature_check>> /\ phase = "verified"
    BY <1>4 DEF StartBinary
  <2>2. phase' \in {"closing", "no binary", "reading"}
    BY <1>4 DEF StartBinary, Return, Goto
  <2>3. QED
    BY <2>1, <2>2, OpenStays DEF Verified
<1>5. CASE ReadPiece
  <2>1. UNCHANGED <<package, zip, signature_check>> /\ phase = "reading"
    BY <1>5 DEF ReadPiece
  <2>2. phase' \in {"crashed", "reading"}
    BY <1>5 DEF ReadPiece, Goto
  <2>3. QED
    BY <2>1, <2>2, OpenStays DEF Verified
<1>6. CASE ReadEnd
  BY <1>6, OpenStays DEF ReadEnd, Goto, Verified
<1>7. CASE WaitForBinary
  <2>1. UNCHANGED <<package, zip, signature_check>> /\ phase = "waiting"
    BY <1>7 DEF WaitForBinary
  <2>2. phase' \in {"closing", "firmware"}
    BY <1>7 DEF WaitForBinary, Return, Goto
  <2>3. QED
    BY <2>1, <2>2, OpenStays DEF Verified
<1>8. CASE KeepFirmware
  <2>1. UNCHANGED <<package, zip, signature_check>> /\ phase' = "closing"
    BY <1>8 DEF KeepFirmware, Return
  <2>2. QED
    BY <2>1, OpenStays
<1>9. CASE StartScript
  <2>1. UNCHANGED <<package, zip, signature_check>> /\ phase = "no binary"
    BY <1>9 DEF StartScript
  <2>2. \/ phase' = "closing"
        \/ phase' = "script" /\ parses(package.commands)
    BY <1>9 DEF StartScript, Return, Goto
  <2>3. QED
    BY <2>1, <2>2 DEF PackageIsOpen, Phases, Verified
<1>10. CASE RunCommand
  <2>1. UNCHANGED <<package, zip, signature_check>> /\ phase' \in {phase, "closing"}
    BY <1>10 DEF RunCommand, Return
  <2>2. QED
    BY <2>1, OpenStays
<1>11. CASE EndScript
  BY <1>11, OpenStays DEF EndScript, Return
<1>12. CASE ClosePackage
  BY <1>12 DEF ClosePackage, PackageIsOpen, Phases, Verified
<1>13. CASE Child \/ BackgroundEnds
  <2>1. ChildUnchanged
    BY <1>13 DEF Child, UpdaterStart, UpdaterStep, ChildWrites, ChildExits, ForeignStep,
                 BackgroundEnds
  <2>2. QED
    BY <2>1, OpenStays DEF ChildUnchanged, recovery
<1>14. CASE UNCHANGED vars
  BY <1>14, OpenStays DEF vars, recovery
<1>15. QED
  BY <1>1, <1>2, <1>3, <1>4, <1>5, <1>6, <1>7, <1>8, <1>9, <1>10, <1>11, <1>12,
     <1>13, <1>14 DEF Next, Recovery


\* The variables that are small.
SmallTypes ==
  /\ signature_check \in BOOLEAN /\ package_root \in BOOLEAN /\ inherited \in BOOLEAN
  /\ command \in Nat \ {0} /\ ops \in Nat
  /\ result \in {INSTALL_SUCCESS, INSTALL_ERROR, INSTALL_CORRUPT}

LEMMA SmallInit ==
  ASSUME Init
  PROVE  SmallTypes
<1>1. ops \in Nat
  BY InstallerAssumption DEF Init
<1>2. signature_check \in BOOLEAN /\ package_root = FALSE /\ inherited = FALSE
  BY DEF Init
<1>3. package_root \in BOOLEAN /\ inherited \in BOOLEAN
  BY Zenon, <1>2
<1>4. command \in Nat \ {0} /\ result = INSTALL_SUCCESS
  BY DEF Init
<1>5. QED
  BY <1>1, <1>2, <1>3, <1>4 DEF SmallTypes

LEMMA SmallStep ==
  ASSUME SmallTypes, [Next]_vars
  PROVE  SmallTypes'
<1>1. signature_check' = signature_check
  <2>1. CASE User
    BY <2>1 DEF User, ChoosePackage, DeclinePackage, FormatRoot, MountOrUnmount, ConvertRoot,
                Operation
  <2>2. CASE Recovery
    BY <2>2 DEF Recovery, OpenPackage, VerifyPackage, StartBinary, ReadPiece, ReadEnd,
                WaitForBinary, KeepFirmware, StartScript, RunCommand, EndScript, ClosePackage
  <2>3. CASE Child \/ BackgroundEnds
    BY <2>3 DEF Child, BackgroundEnds, UpdaterStart, UpdaterStep, ChildWrites, ChildExits,
                ForeignStep, ChildUnchanged
  <2>4. QED
    BY <2>1, <2>2, <2>3 DEF Next, vars
<1>2. package_root' \in {package_root, TRUE, FALSE}
  <2>1. CASE User
    BY <2>1 DEF User, ChoosePackage, DeclinePackage, FormatRoot, MountOrUnmount, ConvertRoot,
                Operation, recovery
  <2>2. CASE Recovery
    BY <2>2 DEF Recovery, OpenPackage, VerifyPackage, StartBinary, ReadPiece, ReadEnd,
                WaitForBinary, KeepFirmware, StartScript, RunCommand, EndScript, ClosePackage
  <2>3. CASE Child \/ BackgroundEnds
    BY <2>3 DEF Child, BackgroundEnds, UpdaterStart, UpdaterStep, ChildWrites, ChildExits,
                ForeignStep, ChildUnchanged, recovery
  <2>4. QED
    BY <2>1, <2>2, <2>3 DEF Next, vars, recovery
<1>3. inherited' = inherited \/ inherited' \in BOOLEAN
  <2>1. CASE User
    BY <2>1 DEF User, ChoosePackage, DeclinePackage, FormatRoot, MountOrUnmount, ConvertRoot,
                Operation, process
  <2>2. CASE Recovery
    BY <2>2 DEF Recovery, OpenPackage, VerifyPackage, StartBinary, ReadPiece, ReadEnd,
                WaitForBinary, KeepFirmware, StartScript, RunCommand, EndScript, ClosePackage,
                process
  <2>3. CASE ForeignStep
    BY <2>3 DEF ForeignStep
  <2>4. CASE UpdaterStart \/ UpdaterStep \/ ChildWrites \/ ChildExits \/ BackgroundEnds
    BY <2>4 DEF UpdaterStart, UpdaterStep, ChildWrites, ChildExits, BackgroundEnds
  <2>5. QED
    BY <2>1, <2>2, <2>3, <2>4 DEF Next, Child, vars, process
<1>4. command' \in {command, command + 1, 1}
  <2>1. CASE User
    BY <2>1 DEF User, ChoosePackage, DeclinePackage, FormatRoot, MountOrUnmount, ConvertRoot,
                Operation, recovery
  <2>2. CASE Recovery
    BY <2>2 DEF Recovery, OpenPackage, VerifyPackage, StartBinary, ReadPiece, ReadEnd,
                WaitForBinary, KeepFirmware, StartScript, RunCommand, EndScript, ClosePackage
  <2>3. CASE Child \/ BackgroundEnds
    BY <2>3 DEF Child, BackgroundEnds, UpdaterStart, UpdaterStep, ChildWrites, ChildExits,
                ForeignStep, ChildUnchanged, recovery
  <2>4. QED
    BY <2>1, <2>2, <2>3 DEF Next, vars, recovery
<1>5. ops' \in Nat
  <2>1. CASE User
    <3>1. CASE ChoosePackage \/ DeclinePackage
      <4>1. ops > 0 /\ ops' = ops - 1
        BY <3>1 DEF ChoosePackage, DeclinePackage
      <4>2. QED
        BY <4>1 DEF SmallTypes
    <3>2. CASE \E op, root, outcomes : Operation(op, root, outcomes)
      <4>1. PICK op, root, outcomes : Operation(op, root, outcomes)
        BY <3>2
      <4>2. ops > 0 /\ ops' = ops - 1
        BY <4>1 DEF Operation
      <4>3. QED
        BY <4>2 DEF SmallTypes
    <3>3. QED
      BY Zenon, <2>1, <3>1, <3>2 DEF User, FormatRoot, MountOrUnmount, ConvertRoot
  <2>2. CASE ops' = ops
    BY <2>2 DEF SmallTypes
  <2>3. Recovery => ops' = ops
    BY DEF Recovery, OpenPackage, VerifyPackage, StartBinary, ReadPiece, ReadEnd,
           WaitForBinary, KeepFirmware, StartScript, RunCommand, EndScript, ClosePackage
  <2>4. Child \/ BackgroundEnds => ops' = ops
    BY DEF Child, BackgroundEnds, UpdaterStart, UpdaterStep, ChildWrites, ChildExits,
           ForeignStep, ChildUnchanged
  <2>5. UNCHANGED vars => ops' = ops
    BY DEF vars
  <2>6. QED
    BY <2>1, <2>2, <2>3, <2>4, <2>5 DEF Next
<1>6. result' \in {result, INSTALL_SUCCESS, INSTALL_ERROR, INSTALL_CORRUPT}
  <2>1. CASE User
    BY <2>1 DEF User, ChoosePackage, DeclinePackage, FormatRoot, MountOrUnmount, ConvertRoot,
                Operation, recovery
  <2>2. CASE Recovery
    BY <2>2 DEF Recovery, OpenPackage, VerifyPackage, StartBinary, ReadPiece, ReadEnd,
                WaitForBinary, KeepFirmware, StartScript, RunCommand, EndScript, ClosePackage,
                Goto, Return
  <2>3. CASE Child \/ BackgroundEnds
    BY <2>3 DEF Child, BackgroundEnds, UpdaterStart, UpdaterStep, ChildWrites, ChildExits,
                ForeignStep, ChildUnchanged, recovery
  <2>4. QED
    BY <2>1, <2>2, <2>3 DEF Next, vars, recovery
<1>7. command' \in Nat \ {0}
  BY <1>4 DEF SmallTypes
<1>8. /\ signature_check' \in BOOLEAN /\ package_root' \in BOOLEAN
      /\ inherited' \in BOOLEAN
  BY Zenon, <1>1, <1>2, <1>3 DEF SmallTypes
<1>9. result' \in {INSTALL_SUCCESS, INSTALL_ERROR, INSTALL_CORRUPT}
  BY <1>6 DEF SmallTypes
<1>10. QED
  BY <1>5, <1>7, <1>8, <1>9 DEF SmallTypes

-----------------------------------------------------------------------------
(* The update binary and what it says                                      *)

LEMMA NotEmpty ==
  ASSUME NEW args, Len(args) = 2
  PROVE  args # <<>>
<1>1. Len(<<>>) = 0
  OBVIOUS
<1>2. QED
  BY <1>1

LEMMA AppendBehind ==
  ASSUME NEW S, NEW a \in Seq(S), NEW b \in Seq(S), NEW x \in S
  PROVE  Append(a, x) \in Seq(S) /\ Append(b \o a, x) = b \o Append(a, x)
OBVIOUS

\* What was said was heard or is in the pipe, in its order.
NothingIsLost == \E S : pipe \in Seq(S) /\ heard \in Seq(S) /\ said = heard \o pipe

LEMMA NothingLostStep ==
  ASSUME NothingIsLost, [Next]_vars
  PROVE  NothingIsLost'
<1>1. PICK S : pipe \in Seq(S) /\ heard \in Seq(S) /\ said = heard \o pipe
  BY DEF NothingIsLost
<1>2. CASE UNCHANGED stream
  BY <1>1, <1>2 DEF stream, NothingIsLost
<1>3. CASE pipe' = <<>> /\ said' = <<>> /\ heard' = <<>>
  <2>1. <<>> \in Seq({}) /\ <<>> = <<>> \o <<>>
    OBVIOUS
  <2>2. QED
    BY <1>3, <2>1 DEF NothingIsLost
<1>4. CASE ReadPiece
  <2>1. pipe # <<>> /\ heard' = Append(heard, Head(pipe)) /\ pipe' = Tail(pipe) /\ said' = said
    BY <1>4 DEF ReadPiece
  <2>2. pipe' \in Seq(S) /\ heard' \in Seq(S) /\ said' = heard' \o pipe'
    BY <1>1, <2>1
  <2>3. QED
    BY <2>2 DEF NothingIsLost
<1>5. CASE ChildWrites
  <2> DEFINE x == Head(child.out)
             T == S \cup {x}
  <2>1. pipe' = Append(pipe, x) /\ said' = Append(said, x) /\ heard' = heard
    BY <1>5 DEF ChildWrites
  <2>2. pipe \in Seq(T) /\ heard \in Seq(T) /\ x \in T
    BY <1>1
  <2> HIDE DEF x, T
  <2>3. pipe' \in Seq(T) /\ heard' \in Seq(T) /\ said' = heard' \o pipe'
    BY <1>1, <2>1, <2>2, AppendBehind
  <2>4. QED
    BY <2>3 DEF NothingIsLost
<1>6. UNCHANGED stream \/ (pipe' = <<>> /\ said' = <<>> /\ heard' = <<>>) \/ ReadPiece
        \/ ChildWrites
  <2>1. CASE User
    BY <2>1 DEF User, ChoosePackage, DeclinePackage, FormatRoot, MountOrUnmount, ConvertRoot,
                Operation
  <2>2. CASE Recovery
    BY <2>2 DEF Recovery, OpenPackage, VerifyPackage, StartBinary, ReadEnd, WaitForBinary,
                KeepFirmware, StartScript, RunCommand, EndScript, ClosePackage
  <2>3. CASE Child \/ BackgroundEnds
    BY <2>3 DEF Child, BackgroundEnds, UpdaterStart, UpdaterStep, ChildExits, ForeignStep
  <2>4. CASE UNCHANGED vars
    BY <2>4 DEF vars
  <2>5. QED
    BY <2>1, <2>2, <2>3, <2>4 DEF Next
<1>7. QED
  BY <1>2, <1>3, <1>4, <1>5, <1>6

\* What recovery keeps of a list of pieces: the first request among them.
KeptOf(list, kept) ==
  IF \E i \in DOMAIN list : Complete(list[i])
  THEN \E i \in DOMAIN list : /\ Complete(list[i]) /\ kept = list[i].args
                              /\ \A j \in 1..(i - 1) : ~Complete(list[j])
  ELSE kept = <<>>

LEMMA KeptIsFirst ==
  ASSUME NEW S, said \in Seq(S), NEW kept, KeptOf(said, kept)
  PROVE  /\ kept # <<>> <=> Requests # {}
         /\ Requests # {} => kept[2] = FirstAsked
<1>1. CASE ~ \E i \in DOMAIN said : Complete(said[i])
  BY <1>1 DEF KeptOf, Requests
<1>2. CASE \E i \in DOMAIN said : Complete(said[i])
  <2>1. PICK i \in DOMAIN said : /\ Complete(said[i]) /\ kept = said[i].args
                                 /\ \A j \in 1..(i - 1) : ~Complete(said[j])
    BY <1>2 DEF KeptOf
  <2>2. Len(said) \in Nat /\ DOMAIN said = 1..Len(said)
    OBVIOUS
  <2>3. kept # <<>>
    BY <2>1, NotEmpty DEF Complete
  <2>4. i \in Requests /\ \A j \in Requests : i <= j
    BY <2>1, <2>2 DEF Requests
  <2> DEFINE least == CHOOSE k \in Requests : \A j \in Requests : k <= j
  <2>5. least \in Requests /\ \A j \in Requests : least <= j
    BY <2>4
  <2> HIDE DEF least
  <2>6. least = i
    BY <2>2, <2>4, <2>5 DEF Requests
  <2>7. FirstAsked = said[least].args[2]
    BY Zenon DEF FirstAsked, least
  <2>8. QED
    BY <2>1, <2>3, <2>4, <2>6, <2>7
<1>3. QED
  BY <1>1, <1>2

LEMMA KeptGrows ==
  ASSUME NEW S, NEW list \in Seq(S), NEW kept, KeptOf(list, kept), NEW piece
  PROVE  KeptOf(Append(list, piece), IF Complete(piece) /\ kept = <<>> THEN piece.args ELSE kept)
<1> DEFINE longer == Append(list, piece)
           n == Len(list)
           T == S \cup {piece}
<1>1. n \in Nat /\ DOMAIN list = 1..n /\ list \in Seq(T) /\ piece \in T
  OBVIOUS
<1>2. /\ DOMAIN longer = 1..(n + 1) /\ longer[n + 1] = piece
      /\ \A i \in 1..n : longer[i] = list[i]
  BY <1>1
<1> HIDE DEF longer, n
<1>3. CASE \E i \in DOMAIN list : Complete(list[i])
  <2>1. PICK i \in DOMAIN list : /\ Complete(list[i]) /\ kept = list[i].args
                                 /\ \A j \in 1..(i - 1) : ~Complete(list[j])
    BY <1>3 DEF KeptOf
  <2>2. kept # <<>>
    BY <2>1, NotEmpty DEF Complete
  <2>3. i \in DOMAIN longer /\ longer[i] = list[i] /\ \A j \in 1..(i - 1) : longer[j] = list[j]
    BY <1>1, <1>2, <2>1
  <2>4. KeptOf(longer, kept)
    BY <2>1, <2>3 DEF KeptOf
  <2>5. QED
    BY <2>2, <2>4 DEF longer
<1>4. CASE ~ \E i \in DOMAIN list : Complete(list[i])
  <2>1. kept = <<>>
    BY <1>4 DEF KeptOf
  <2>2. CASE Complete(piece)
    <3>1. n + 1 \in DOMAIN longer /\ \A j \in 1..((n + 1) - 1) : ~Complete(longer[j])
      BY <1>1, <1>2, <1>4
    <3>2. KeptOf(longer, piece.args)
      BY <1>2, <2>2, <3>1 DEF KeptOf
    <3>3. QED
      BY <2>1, <2>2, <3>2 DEF longer
  <2>3. CASE ~Complete(piece)
    <3>1. ~ \E j \in DOMAIN longer : Complete(longer[j])
      BY <1>1, <1>2, <1>4, <2>3
    <3>2. KeptOf(longer, kept)
      BY <2>1, <3>1 DEF KeptOf
    <3>3. QED
      BY <2>3, <3>2 DEF longer
  <2>4. QED
    BY <2>2, <2>3
<1>5. QED
  BY <1>3, <1>4


\* Where the update binary is while recovery is at `phase': it runs only while
\* recovery reads the pipe or waits, and who prints has the pipe open, as the updater
\* has until it is gone.
Running == {"started", "running", "leaving", "hanging"}
Waiting == {"reading", "waiting", "crashed"}
Before == {"opening", "opened", "verified", "no binary", "script"}
BinaryIsHeard ==
  /\ DOMAIN child = {"pc", "next", "out", "open", "code"}
  /\ child.pc \in {"none", "never", "gone"} \cup Running
  /\ child.open \in BOOLEAN
  /\ child.out # <<>> => child.open
  /\ child.open => child.pc \in Running
  /\ child.pc \in Running => phase \in Waiting
  /\ child.pc \in Running /\ IsUpdater => child.open
  /\ child.pc = "never" => child.code = 0
  /\ phase \in Before => /\ child.pc = "none" /\ request = <<>>
                         /\ pipe = <<>> /\ heard = <<>>
  /\ phase \in {"reading", "waiting", "firmware"} =>
       /\ child.pc # "none" /\ KeptOf(heard, request)
       /\ IsUpdater /\ child.pc \in {"leaving", "gone"} /\ child.code = 0 =>
            child.next = Len(package.script)
  /\ phase \in {"waiting", "firmware"} => ~child.open /\ pipe = <<>>
  /\ phase = "firmware" => /\ child.pc \in {"gone", "never"} /\ child.code = 0
                           /\ request # <<>>
  /\ SuccessMeansDone

LEMMA BinaryInit ==
  ASSUME Init
  PROVE  BinaryIsHeard
<1>1. /\ child = NoChild /\ phase = "prompt"
  BY DEF Init
<1>2. QED
  BY <1>1 DEF BinaryIsHeard, NoChild, Running, Waiting, Before, SuccessMeansDone

\* The steps of the user, and of recovery where there is no binary.
LEMMA BinaryStays ==
  ASSUME BinaryIsHeard, UNCHANGED <<package, child, request, stream>>,
         \/ UNCHANGED <<phase, zip, firmware, result>>
         \/ phase \in Before /\ phase' \in Before \cup {"closing"}
         \/ phase = "closing" /\ phase' = "prompt"
  PROVE  BinaryIsHeard'
<1>1. CASE UNCHANGED <<phase, zip, firmware, result>>
  BY <1>1 DEF BinaryIsHeard, SuccessMeansDone, IsUpdater, stream, Requests, FirstAsked
<1>2. CASE phase \in Before /\ phase' \in Before \cup {"closing"}
  BY <1>2 DEF BinaryIsHeard, SuccessMeansDone, stream, Before, Running, Waiting
<1>3. CASE phase = "closing" /\ phase' = "prompt"
  BY <1>3 DEF BinaryIsHeard, SuccessMeansDone, stream, Before, Running, Waiting
<1>4. QED
  BY <1>1, <1>2, <1>3


LEMMA BinaryUser ==
  ASSUME BinaryIsHeard, User
  PROVE  BinaryIsHeard'
<1>1. CASE ChoosePackage
  <2>1. /\ phase = "prompt" /\ phase' \in {"prompt", "opening"}
        /\ child' = NoChild /\ request' = <<>> /\ pipe' = <<>> /\ heard' = <<>>
    BY <1>1 DEF ChoosePackage
  <2>2. QED
    BY <2>1 DEF BinaryIsHeard, NoChild, Running, Waiting, Before, SuccessMeansDone
<1>2. CASE DeclinePackage
  BY <1>2, BinaryStays DEF DeclinePackage, recovery, process
<1>3. ASSUME NEW root \in UserRoots, FormatRoot(root)
      PROVE  BinaryIsHeard'
  BY <1>3, BinaryStays DEF FormatRoot, Operation, recovery, process
<1>4. ASSUME NEW root \in UserRoots, MountOrUnmount(root)
      PROVE  BinaryIsHeard'
  BY <1>4, BinaryStays DEF MountOrUnmount, Operation, recovery, process
<1>5. ASSUME NEW root \in UserRoots, NEW fs \in {"ext3", "ext4", "upgrade"},
             ConvertRoot(root, fs)
      PROVE  BinaryIsHeard'
  BY <1>5, BinaryStays DEF ConvertRoot, Operation, recovery, process
<1>6. QED
  BY <1>1, <1>2, <1>3, <1>4, <1>5 DEF User

LEMMA BinaryRecovery ==
  ASSUME BinaryIsHeard, NothingIsLost, Recovery
  PROVE  BinaryIsHeard'
<1>1. CASE OpenPackage
  BY <1>1, BinaryStays DEF OpenPackage, Goto, Return, process, Before
<1>2. CASE VerifyPackage
  BY <1>2, BinaryStays DEF VerifyPackage, Goto, Return, process, Before
<1>3. CASE StartBinary
  <2>1. /\ phase = "verified"
        /\ UNCHANGED <<package, zip, request, firmware, stream>>
    BY <1>3 DEF StartBinary
  <2>2. \/ phase' \in {"no binary", "closing"} /\ child' = child
        \/ /\ phase' = "reading"
           /\ child' \in {[NoChild EXCEPT !.pc = "started", !.open = TRUE],
                          [NoChild EXCEPT !.pc = "never"]}
    BY <1>3 DEF StartBinary, Goto, Return
  <2>3. CASE phase' \in {"no binary", "closing"} /\ child' = child
    BY <2>1, <2>3, BinaryStays DEF Before
  <2>4. CASE /\ phase' = "reading"
             /\ child' \in {[NoChild EXCEPT !.pc = "started", !.open = TRUE],
                            [NoChild EXCEPT !.pc = "never"]}
    <3>1. request' = <<>> /\ pipe' = <<>> /\ heard' = <<>>
      BY <2>1 DEF BinaryIsHeard, Before, stream
    <3>2. KeptOf(heard', request')
      BY <3>1 DEF KeptOf
    <3>3. QED
      BY <2>4, <3>1, <3>2 DEF BinaryIsHeard, NoChild, Running, Waiting, Before,
                              SuccessMeansDone
  <2>5. QED
    BY <2>2, <2>3, <2>4
<1>4. CASE ReadPiece
  <2>1. /\ phase = "reading" /\ pipe # <<>>
        /\ request' = (IF Complete(Head(pipe)) /\ request = <<>> THEN Head(pipe).args
                       ELSE request)
        /\ heard' = Append(heard, Head(pipe)) /\ pipe' = Tail(pipe)
        /\ UNCHANGED <<package, zip, firmware, child>>
    BY <1>4 DEF ReadPiece, process
  <2>2. phase' \in {"reading", "crashed"}
    BY <1>4 DEF ReadPiece, Goto
  <2>3. PICK S : heard \in Seq(S)
    BY DEF NothingIsLost
  <2>4. KeptOf(heard', request')
    BY <2>1, <2>3, KeptGrows DEF BinaryIsHeard
  <2>5. IsUpdater' = IsUpdater
    BY <2>1 DEF IsUpdater
  <2>6. QED
    BY <2>1, <2>2, <2>4, <2>5 DEF BinaryIsHeard, Running, Waiting, Before, SuccessMeansDone
<1>5. CASE ReadEnd
  <2>1. /\ phase = "reading" /\ phase' = "waiting" /\ pipe = <<>> /\ ~child.open
        /\ UNCHANGED <<package, zip, firmware, child, request, pipe, heard>>
    BY <1>5 DEF ReadEnd, Goto, process, stream
  <2>2. IsUpdater' = IsUpdater
    BY <2>1 DEF IsUpdater
  <2>3. QED
    BY <2>1, <2>2 DEF BinaryIsHeard, Running, Waiting, Before, SuccessMeansDone
<1>6. CASE WaitForBinary
  <2>1. /\ phase = "waiting" /\ child.pc \in {"gone", "never"}
        /\ UNCHANGED <<package, zip, firmware, child, request, pipe, heard, said>>
    BY <1>6 DEF WaitForBinary, process, stream
  <2>2. \/ phase' = "closing" /\ result' = INSTALL_ERROR
        \/ phase' = "firmware" /\ request # <<>> /\ (child.pc = "gone" => child.code = 0)
        \/ /\ phase' = "closing" /\ request = <<>>
           /\ child.pc = "gone" => child.code = 0
    BY <1>6 DEF WaitForBinary, Goto, Return
  <2>3. /\ IsUpdater' = IsUpdater /\ Requests' = Requests /\ FirstAsked' = FirstAsked
        /\ Complete(request)' = Complete(request)
    BY <2>1 DEF IsUpdater, Requests, FirstAsked
  <2>4. heard = said /\ (request # <<>> <=> Requests # {})
    <3>1. PICK S : heard \in Seq(S) /\ said = heard \o pipe
      BY DEF NothingIsLost
    <3>2. pipe = <<>> /\ KeptOf(heard, request)
      BY <2>1 DEF BinaryIsHeard
    <3>3. heard = said
      BY <3>1, <3>2
    <3>4. QED
      BY <3>1, <3>2, <3>3, KeptIsFirst
  <2>5. CASE phase' = "closing" /\ result' = INSTALL_ERROR
    BY <2>1, <2>3, <2>5 DEF BinaryIsHeard, Running, Waiting, Before, SuccessMeansDone,
       INSTALL_ERROR, INSTALL_SUCCESS
  <2>6. CASE phase' = "firmware" /\ request # <<>> /\ (child.pc = "gone" => child.code = 0)
    BY <2>1, <2>3, <2>6 DEF BinaryIsHeard, Running, Waiting, Before, SuccessMeansDone
  <2>7. CASE /\ phase' = "closing" /\ request = <<>>
             /\ child.pc = "gone" => child.code = 0
    <3>1. IsUpdater /\ child.pc = "gone" => child.next = Len(package.script)
      BY <2>1, <2>7 DEF BinaryIsHeard
    <3>2. SuccessMeansDone'
      BY <2>1, <2>3, <2>4, <2>7, <3>1 DEF SuccessMeansDone
    <3>3. QED
      BY <2>1, <2>7, <3>2 DEF BinaryIsHeard, Running, Waiting, Before
  <2>8. QED
    BY <2>2, <2>5, <2>6, <2>7
<1>7. CASE KeepFirmware
  <2>1. /\ phase = "firmware" /\ phase' = "closing"
        /\ UNCHANGED <<package, zip, child, request, pipe, heard, said>>
    BY <1>7 DEF KeepFirmware, Return, process, stream
  <2>2. \/ result' = INSTALL_ERROR
        \/ firmware' = request[2]
    BY <1>7 DEF KeepFirmware, Return
  <2>3. IsUpdater' = IsUpdater /\ Requests' = Requests /\ FirstAsked' = FirstAsked
    BY <2>1 DEF IsUpdater, Requests, FirstAsked
  <2>4. heard = said /\ (Requests # {} => request[2] = FirstAsked)
    <3>1. PICK S : heard \in Seq(S) /\ said = heard \o pipe
      BY DEF NothingIsLost
    <3>2. pipe = <<>> /\ KeptOf(heard, request)
      BY <2>1 DEF BinaryIsHeard
    <3>3. heard = said
      BY <3>1, <3>2
    <3>4. QED
      BY <3>1, <3>2, <3>3, KeptIsFirst
  <2>5. child.pc \in {"gone", "never"} /\ child.code = 0
    BY <2>1 DEF BinaryIsHeard
  <2>6. IsUpdater /\ child.pc = "gone" => child.next = Len(package.script)
    BY <2>1, <2>5 DEF BinaryIsHeard
  <2>7. SuccessMeansDone'
    BY <2>1, <2>2, <2>3, <2>4, <2>5, <2>6
       DEF SuccessMeansDone, INSTALL_ERROR, INSTALL_SUCCESS
  <2>8. QED
    BY <2>1, <2>5, <2>7 DEF BinaryIsHeard, Running, Waiting, Before
<1>8. CASE StartScript
  BY <1>8, BinaryStays DEF StartScript, Goto, Return, process, Before
<1>9. CASE RunCommand
  BY <1>9, BinaryStays DEF RunCommand, Return, process, Before
<1>10. CASE EndScript
  BY <1>10, BinaryStays DEF EndScript, Return, process, Before
<1>11. CASE ClosePackage
  BY <1>11, BinaryStays DEF ClosePackage, process
<1>12. QED
  BY <1>1, <1>2, <1>3, <1>4, <1>5, <1>6, <1>7, <1>8, <1>9, <1>10, <1>11 DEF Recovery


\* A step of the process that runs leaves a record as it is but for some fields.
LEMMA BinaryChanges ==
  ASSUME BinaryIsHeard, child.pc \in Running,
         UNCHANGED <<signature_check, recovery, last, ops, heard>>,
         DOMAIN child' = DOMAIN child,
         child'.pc \in {"gone"} \cup Running, child'.open \in BOOLEAN,
         child'.out # <<>> => child'.open,
         child'.open => child.open /\ child'.pc \in Running,
         child'.pc \in Running /\ IsUpdater => child'.open = child.open,
         phase \in {"reading", "waiting"} /\ IsUpdater /\ child'.pc \in {"leaving", "gone"}
           /\ child'.code = 0 /\ child.open => child'.next = Len(package.script),
         UNCHANGED pipe \/ child.open
  PROVE  BinaryIsHeard'
<1>1. IsUpdater' = IsUpdater
  BY DEF IsUpdater, recovery
<1>2. phase' = phase /\ phase \in Waiting
  BY DEF BinaryIsHeard, recovery
<1>3. UNCHANGED <<request, heard, package, result>>
  BY DEF recovery
<1>4. SuccessMeansDone'
  BY <1>2 DEF SuccessMeansDone, Waiting
<1>5. /\ child'.pc \in Running => phase' \in Waiting
      /\ child'.pc \in Running /\ IsUpdater' => child'.open
      /\ child'.pc # "none" /\ child'.pc # "never" /\ ~(phase' \in Before) /\ phase' # "firmware"
  BY <1>1, <1>2 DEF BinaryIsHeard, Running, Waiting, Before
<1>6. phase' \in {"reading", "waiting", "firmware"} =>
       /\ child'.pc # "none" /\ KeptOf(heard', request')
       /\ IsUpdater' /\ child'.pc \in {"leaving", "gone"} /\ child'.code = 0 =>
            child'.next = Len(package'.script)
  BY <1>1, <1>2, <1>3, <1>5 DEF BinaryIsHeard, Waiting
<1>7. phase' \in {"waiting", "firmware"} => ~child'.open /\ pipe' = <<>>
  BY <1>2, <1>5 DEF BinaryIsHeard
<1>8. QED
  BY <1>4, <1>5, <1>6, <1>7 DEF BinaryIsHeard

LEMMA LeavingFields ==
  ASSUME BinaryIsHeard, NEW printed, NEW code
  PROVE  LET left == Leaving(printed, code)
         IN  /\ DOMAIN left = DOMAIN child
             /\ left.pc = "leaving" /\ left.out = printed /\ left.code = code
             /\ left.next = child.next /\ left.open = child.open
BY DEF BinaryIsHeard, Leaving

LEMMA BinaryChild ==
  ASSUME BinaryIsHeard, Child
  PROVE  BinaryIsHeard'
<1>1. /\ DOMAIN child = {"pc", "next", "out", "open", "code"}
      /\ child.open \in BOOLEAN
      /\ child.out # <<>> => child.open /\ child.pc \in Running
      /\ child.pc \in Running => phase \in Waiting
      /\ child.pc \in Running /\ IsUpdater => child.open
  BY DEF BinaryIsHeard
<1>2. CASE UpdaterStart
  <2>1. /\ child.pc = "started" /\ IsUpdater
        /\ UNCHANGED <<signature_check, recovery, last, ops, heard, pipe>>
    BY <1>2 DEF UpdaterStart, ChildUnchanged, stream
  <2>2. child' \in {Leaving(<<>>, 3), Leaving(<<>>, 4), Leaving(<<>>, 5), Leaving(<<>>, 6),
                    [child EXCEPT !.pc = "running"]}
    BY <1>2 DEF UpdaterStart
  <2>3. child.pc \in Running /\ child.open
    BY <1>1, <2>1 DEF Running
  <2>4. \/ /\ child'.pc = "leaving" /\ child'.out = <<>> /\ child'.code # 0
        \/ /\ child'.pc = "running" /\ child'.out = child.out
    BY <1>1, <2>2, LeavingFields
  <2>5. DOMAIN child' = DOMAIN child /\ child'.open = child.open
    BY <1>1, <2>2, LeavingFields
  <2>6. QED
    BY <2>1, <2>3, <2>4, <2>5, BinaryChanges DEF Running
<1>3. CASE UpdaterStep
  <2> DEFINE n == child.next
  <2>1. /\ child.pc = "running" /\ IsUpdater
        /\ UNCHANGED <<signature_check, recovery, last, ops, heard, pipe>>
    BY <1>3 DEF UpdaterStep, ChildUnchanged, stream
  <2>2. PICK o \in Statement(n, Evaluator(st, zip)) :
          child' = CASE o.ret = "NULL" -> Leaving(o.s.out \o Report(o.s), 7)
                     [] o.ret = "CRASH" -> Leaving(o.s.out, 139)
                     [] o.ret = "HANG" -> [Leaving(o.s.out, 0) EXCEPT !.pc = "hanging"]
                     [] o.ret \notin Ends /\ n = Len(package.script) ->
                          Leaving(o.s.out, 0)
                     [] OTHER -> [child EXCEPT !.next = n + 1, !.out = o.s.out]
    BY <1>3 DEF UpdaterStep
  <2>3. child.pc \in Running /\ child.open
    BY <1>1, <2>1 DEF Running
  <2>4. \/ \E out : child' = Leaving(out, 7)
        \/ \E out : child' = Leaving(out, 139)
        \/ \E out : child' = [Leaving(out, 0) EXCEPT !.pc = "hanging"]
        \/ n = Len(package.script) /\ \E out : child' = Leaving(out, 0)
        \/ \E out : child' = [child EXCEPT !.next = n + 1, !.out = out]
    <3>1. CASE o.ret = "NULL"
      BY <2>2, <3>1 DEF Ends
    <3>2. CASE o.ret = "CRASH"
      BY <2>2, <3>2 DEF Ends
    <3>3. CASE o.ret = "HANG"
      BY <2>2, <3>3 DEF Ends
    <3>4. CASE o.ret \notin Ends /\ n = Len(package.script)
      BY <2>2, <3>4 DEF Ends
    <3>5. CASE o.ret \notin Ends /\ n # Len(package.script)
      BY <2>2, <3>5 DEF Ends
    <3>6. QED
      BY <3>1, <3>2, <3>3, <3>4, <3>5 DEF Ends
  <2> DEFINE Moved == /\ DOMAIN child' = DOMAIN child /\ child'.open = child.open
                      /\ child'.pc \in Running
                      /\ child'.pc = "leaving" /\ child'.code = 0 =>
                           child'.next = Len(package.script)
  <2>5. ASSUME NEW out, NEW code \in {7, 139}, child' = Leaving(out, code)
        PROVE  Moved
    BY <2>5, LeavingFields DEF Running
  <2>6. ASSUME NEW out, child' = [Leaving(out, 0) EXCEPT !.pc = "hanging"]
        PROVE  Moved
    <3> DEFINE left == Leaving(out, 0)
    <3>1. /\ DOMAIN left = {"pc", "next", "out", "open", "code"}
          /\ left.open = child.open
      BY <1>1, LeavingFields
    <3> HIDE DEF left
    <3>2. child' = [left EXCEPT !.pc = "hanging"]
      BY <2>6 DEF left
    <3>3. QED
      BY <1>1, <3>1, <3>2 DEF Running
  <2>7. ASSUME NEW out, child' = Leaving(out, 0), n = Len(package.script)
        PROVE  Moved
    BY <2>7, LeavingFields DEF Running
  <2>8. ASSUME NEW out, child' = [child EXCEPT !.next = n + 1, !.out = out]
        PROVE  Moved
    BY <1>1, <2>1, <2>8 DEF Running
  <2> HIDE DEF Moved
  <2>9. Moved
    BY <2>4, <2>5, <2>6, <2>7, <2>8
  <2>10. QED
    BY <2>1, <2>3, <2>9, BinaryChanges DEF Running, Moved
<1>4. CASE ChildWrites
  <2>1. /\ child.out # <<>> /\ child' = [child EXCEPT !.out = Tail(@)]
        /\ UNCHANGED <<signature_check, recovery, last, ops, heard>>
    BY <1>4 DEF ChildWrites, ChildUnchanged
  <2>2. child.pc \in Running /\ child.open
    BY <1>1, <2>1
  <2>3. /\ DOMAIN child' = DOMAIN child
        /\ child'.open = child.open /\ child'.pc = child.pc /\ child'.next = child.next
        /\ child'.code = child.code
    BY <1>1, <2>1
  <2>4. phase \in {"reading", "waiting"} /\ IsUpdater /\ child.pc = "leaving"
          /\ child.code = 0 => child.next = Len(package.script)
    BY <2>2 DEF BinaryIsHeard
  <2>5. QED
    BY <2>1, <2>2, <2>3, <2>4, BinaryChanges DEF Running
<1>5. CASE ChildExits
  <2>1. /\ child.pc = "leaving" /\ child.out = <<>>
        /\ child' = [child EXCEPT !.pc = "gone", !.open = FALSE]
        /\ UNCHANGED <<signature_check, recovery, last, ops, heard, pipe>>
    BY <1>5 DEF ChildExits, ChildUnchanged, stream
  <2>2. /\ DOMAIN child' = DOMAIN child
        /\ child'.pc = "gone" /\ child'.next = child.next /\ child'.out = child.out
        /\ child'.open = FALSE /\ child'.code = child.code
    BY <1>1, <2>1
  <2>3. phase \in {"reading", "waiting"} /\ IsUpdater /\ child.code = 0 =>
          child.next = Len(package.script)
    BY <2>1 DEF BinaryIsHeard
  <2>4. QED
    BY <2>1, <2>2, <2>3, BinaryChanges DEF Running
<1>6. CASE ForeignStep
  <2> DEFINE n == child.next
             step == package.program[n]
             next == [child EXCEPT !.pc = "running", !.next = n + 1]
  <2>1. /\ child.pc \in Running /\ ~IsUpdater /\ child.out = <<>>
        /\ UNCHANGED <<signature_check, recovery, last, ops, heard, pipe>>
    BY <1>6 DEF ForeignStep, ChildUnchanged, stream, Running
  <2>2. \/ child' = Leaving(<<>>, package.code)
        \/ child' = [next EXCEPT !.out = <<step.piece>>] /\ child.open
        \/ child' = [next EXCEPT !.open = FALSE]
        \/ child' = next
    BY <1>6 DEF ForeignStep
  <2> DEFINE Moved == /\ DOMAIN child' = DOMAIN child
                      /\ child'.pc \in {"leaving", "running"}
                      /\ child'.open = child.open \/ (child'.open = FALSE /\ child'.out = <<>>)
                      /\ child'.out = <<>> \/ child.open
  <2>3. CASE child' = Leaving(<<>>, package.code)
    <3>1. Moved
      BY <2>3, LeavingFields
    <3>2. QED
      BY <1>1, <2>1, <3>1, BinaryChanges DEF Running
  <2>4. CASE /\ child' = [next EXCEPT !.out = <<step.piece>>] /\ child.open
    <3> DEFINE printed == <<step.piece>>
    <3>1. /\ DOMAIN next = {"pc", "next", "out", "open", "code"}
          /\ next.pc = "running" /\ next.open = child.open
      BY <1>1
    <3>2. child' = [next EXCEPT !.out = printed] /\ child.open
      BY <2>4
    <3> HIDE DEF next, printed
    <3>3. /\ DOMAIN child' = DOMAIN child /\ child'.pc = "running"
          /\ child'.open = child.open /\ child.open
      BY <1>1, <3>1, <3>2
    <3>4. QED
      BY <1>1, <2>1, <3>3, BinaryChanges DEF Running
  <2>5. CASE child' = [next EXCEPT !.open = FALSE]
    <3>1. Moved
      BY <1>1, <2>1, <2>5
    <3>2. QED
      BY <1>1, <2>1, <3>1, BinaryChanges DEF Running
  <2>6. CASE child' = next
    <3>1. Moved
      BY <1>1, <2>1, <2>6
    <3>2. QED
      BY <1>1, <2>1, <3>1, BinaryChanges DEF Running
  <2>7. QED
    BY <2>2, <2>3, <2>4, <2>5, <2>6
<1>7. QED
  BY <1>2, <1>3, <1>4, <1>5, <1>6 DEF Child

LEMMA BinaryStep ==
  ASSUME BinaryIsHeard, NothingIsLost, [Next]_vars
  PROVE  BinaryIsHeard'
<1>1. CASE BackgroundEnds
  BY <1>1, BinaryStays DEF BackgroundEnds, ChildUnchanged, recovery
<1>2. CASE UNCHANGED vars
  BY <1>2, BinaryStays DEF vars, recovery, process
<1>3. QED
  BY <1>1, <1>2, BinaryUser, BinaryRecovery, BinaryChild DEF Next


-----------------------------------------------------------------------------
(* What every step leaves of the storage                                   *)

LEMMA ChoosingKeeps ==
  ASSUME st \in Storage, ChoosePackage \/ DeclinePackage
  PROVE  Keeps(st, st')
<1>1. CASE ChoosePackage
  <2>1. PICK o \in ensure_root_path_mounted(st, "SDCARD:") : st' = o.s
    BY <1>1 DEF ChoosePackage
  <2>2. QED
    BY <2>1, EnsureMounted DEF AllKeep
<1>2. CASE DeclinePackage
  <2>1. PICK o \in ensure_root_path_mounted(st, "SDCARD:") : st' \in Unmounting(o.s, "SDCARD:")
    BY <1>2 DEF DeclinePackage
  <2>2. Keeps(st, o.s)
    BY EnsureMounted DEF AllKeep
  <2>3. Keeps(o.s, st')
    BY <2>1, <2>2, FollowOn, MountingKeeps
  <2>4. QED
    BY <2>2, <2>3, FollowOn
<1>3. QED
  BY <1>1, <1>2

\* What the user starts on a root spares the volumes of the others, when mounts are
\* in place.
LEMMA UserSpares ==
  ASSUME st \in Storage, User
  PROVE  Spares(st, st', VolumeOf(st, last'.root))
<1>1. CASE ChoosePackage \/ DeclinePackage
  BY <1>1, ChoosingKeeps, SpareOn
<1>2. ASSUME NEW op, NEW root, NEW outcomes, AllSpare(st, outcomes, VolumeAt(st, root)),
             Operation(op, root, outcomes)
      PROVE  Spares(st, st', VolumeOf(st, last'.root))
  <2>1. VolumeOf(st, root) = VolumeAt(st, root)
    BY DEF VolumeOf, VolumeAt, HomeOf
  <2>2. PICK o \in outcomes : st' = o.s /\ last'.root = root
    BY <1>2 DEF Operation
  <2>3. QED
    BY <1>2, <2>1, <2>2 DEF AllSpare
<1>3. ASSUME NEW root \in UserRoots, FormatRoot(root)
      PROVE  Spares(st, st', VolumeOf(st, last'.root))
  BY <1>2, <1>3, RootFormatted DEF FormatRoot
<1>4. ASSUME NEW root \in UserRoots, MountOrUnmount(root)
      PROVE  Spares(st, st', VolumeOf(st, last'.root))
  <2> DEFINE outcomes == Then(is_root_path_mounted(st, root), LAMBDA t, mounted :
                           IF mounted THEN ensure_root_path_unmounted(t, root)
                           ELSE ensure_root_path_mounted(t, root))
  <2>1. Operation("toggle", root, outcomes)
    BY <1>4 DEF MountOrUnmount
  <2>2. AllSpare(st, outcomes, VolumeAt(st, root))
    <3> SUFFICES ASSUME NEW o \in outcomes PROVE Keeps(st, o.s)
      BY SpareOn DEF AllSpare
    <3>1. PICK p \in is_root_path_mounted(st, root) :
            \/ o \in ensure_root_path_unmounted(p.s, root)
            \/ o \in ensure_root_path_mounted(p.s, root)
      BY DEF Then
    <3> HIDE DEF outcomes
    <3>2. Keeps(st, p.s) /\ p.s \in Storage
      BY IsMountedKeeps, FollowOn DEF AllKeep
    <3>3. Keeps(p.s, o.s)
      BY <3>1, <3>2, EnsureMounted, EnsureUnmounted DEF AllKeep
    <3>4. QED
      BY <3>2, <3>3, FollowOn
  <2> HIDE DEF outcomes
  <2>3. QED
    BY <1>2, <2>1, <2>2
<1>5. ASSUME NEW root \in UserRoots, NEW fs \in {"ext3", "ext4", "upgrade"}, ConvertRoot(root, fs)
      PROVE  Spares(st, st', VolumeOf(st, last'.root))
  <2> DEFINE outcomes == IF fs = "upgrade" THEN upgrade_ext3_to_ext4(st, root)
                         ELSE force_format(st, root, fs)
  <2>1. Operation("convert", root, outcomes)
    BY <1>5 DEF ConvertRoot
  <2>2. AllSpare(st, outcomes, VolumeAt(st, root))
    BY Forced
  <2> HIDE DEF outcomes
  <2>3. QED
    BY <1>2, <2>1, <2>2
<1>6. QED
  BY <1>1, <1>3, <1>4, <1>5 DEF User

\* Only opening and closing the package change what is in use.
LEMMA UserFollows ==
  ASSUME st \in Storage, User
  PROVE  /\ Follows(st, st')
         /\ phase' # phase => phase = "prompt" /\ phase' = "opening" /\ Keeps(st, st')
<1>1. Follows(st, st')
  BY UserSpares, SpareOn
<1>2. CASE ChoosePackage
  <2>1. phase = "prompt" /\ phase' \in {phase, "opening"}
    BY <1>2 DEF ChoosePackage
  <2>2. QED
    BY <1>1, <1>2, <2>1, ChoosingKeeps
<1>3. CASE ~ChoosePackage
  <2>1. phase' = phase
    BY <1>3 DEF User, DeclinePackage, FormatRoot, MountOrUnmount, ConvertRoot, Operation, recovery
  <2>2. QED
    BY <1>1, <2>1
<1>4. QED
  BY <1>2, <1>3

LEMMA MinusOne == -1 # 0
OBVIOUS

LEMMA OpeningKeeps ==
  ASSUME st \in Storage, OpenPackage
  PROVE  /\ st' \in Storage /\ st'.faults <= st.faults
         /\ st'.fs = st.fs /\ st'.files = st.files
         /\ InPlace(st) => InPlace(st')
         /\ phase' = "opened" => st'.busy # {}
<1>1. PICK o \in Then(ensure_root_path_mounted(st, "SDCARD:"), LAMBDA t, ret :
                      IF ret # 0 THEN {Out(t, -1)} ELSE mzOpenZipArchive(t)) :
        st' = o.s /\ (phase' = "opened" => o.ret = 0)
  BY DEF OpenPackage, Return, Goto
<1>2. PICK p \in ensure_root_path_mounted(st, "SDCARD:") :
        o \in IF p.ret # 0 THEN {Out(p.s, -1)} ELSE mzOpenZipArchive(p.s)
  BY <1>1 DEF Then
<1> DEFINE t == p.s
           there == Where(t, "/sdcard")
           done == [t EXCEPT !.busy = {there}]
           failed == -1
<1>3. Keeps(st, t) /\ t \in Storage
  BY EnsureMounted, FollowOn DEF AllKeep
<1>9. failed # 0
  BY Zenon, MinusOne DEF failed
<1>4. \/ o = Out(t, failed)
      \/ o = Out(done, 0)
      \/ \E u \in Failing(t) : o = Out(u, failed)
  BY <1>2 DEF mzOpenZipArchive, Try
<1> HIDE DEF failed
<1>5. CASE o = Out(t, failed)
  <2>1. o.s = t /\ o.ret # 0
    BY <1>5, <1>9 DEF Out
  <2>2. QED
    BY <1>1, <1>3, <2>1 DEF Keeps, Follows, Leads
<1>6. ASSUME NEW u \in Failing(t), o = Out(u, failed)
      PROVE  Keeps(st, o.s) /\ o.ret # 0
  <2>1. o.s = u /\ o.ret # 0
    BY <1>6, <1>9 DEF Out
  <2>2. Keeps(t, u)
    BY <1>3, FailingKeeps
  <2>3. QED
    BY <1>3, <2>1, <2>2, FollowOn
<1>7. CASE o = Out(done, 0)
  <2>1. there \in Places
    BY <1>3, WhereIsPlace
  <2> HIDE DEF there
  <2>2. /\ done \in Storage /\ done.faults = t.faults /\ done.fs = t.fs /\ done.files = t.files
        /\ done.busy = {there} /\ done.mounts = t.mounts
    BY <1>3, <2>1 DEF Storage
  <2> HIDE DEF done, t
  <2>3. o.s = done
    BY <1>7 DEF Out
  <2>4. InPlace(t) => InPlace(done)
    BY <2>2 DEF InPlace
  <2>5. QED
    BY <1>1, <1>3, <2>2, <2>3, <2>4 DEF Keeps, Follows, Leads
<1>8. QED
  BY <1>1, <1>4, <1>5, <1>6, <1>7 DEF Keeps, Follows, Leads

LEMMA ClosingKeeps ==
  ASSUME st \in Storage, ClosePackage
  PROVE  st' \in Storage /\ st'.faults <= st.faults /\ (InPlace(st) => InPlace(st'))
<1> DEFINE closed == [st EXCEPT !.busy = {}]
<1>1. closed \in Storage /\ closed.faults = st.faults /\ closed.mounts = st.mounts
  BY DEF Storage
<1>2. st' \in Unmounting(closed, "SDCARD:")
  BY DEF ClosePackage
<1> HIDE DEF closed
<1>3. Keeps(closed, st')
  BY <1>1, <1>2, MountingKeeps
<1>4. InPlace(st) => InPlace(closed)
  BY <1>1 DEF InPlace
<1>5. QED
  BY <1>1, <1>3, <1>4 DEF Keeps, Follows, Leads

\* Recovery writes to no volume before it runs what is in the package.
LEMMA LookingKeeps ==
  ASSUME st \in Storage,
         VerifyPackage \/ StartBinary \/ StartScript \/ KeepFirmware
  PROVE  Keeps(st, st')
<1>1. Keeps(st, st) /\ \A t \in Failing(st) : Keeps(st, t)
  BY SameKeeps, FailingKeeps
<1>2. CASE VerifyPackage
  <2>1. st' = st \/ st' \in Failing(st)
    BY <1>2 DEF VerifyPackage
  <2>2. QED
    BY <1>1, <2>1
<1>3. CASE StartBinary
  <2> DEFINE entry == mzFindZipEntry(zip, BinaryName)
             Fetched == Then(Try(st, st, -1), LAMBDA s, ret :
                         IF ret < 0 THEN {Out(s, FALSE)} ELSE mzReadZipEntry(s, entry))
  <2>1. \/ st' = st
        \/ \E o \in Fetched : st' = o.s \/ st' \in Failing(o.s)
    BY <1>3 DEF StartBinary
  <2>2. ASSUME NEW o \in Fetched
        PROVE  Keeps(st, o.s)
    <3>1. PICK p \in Try(st, st, -1) : o = Out(p.s, FALSE) \/ o \in mzReadZipEntry(p.s, entry)
      BY DEF Then
    <3> HIDE DEF entry, Fetched
    <3>2. Keeps(st, p.s) /\ p.s \in Storage
      BY <1>1, TryFollows, FollowOn DEF AllKeep
    <3>3. o.s = p.s \/ Keeps(p.s, o.s)
      BY <3>1, <3>2, ReadKeeps DEF AllKeep, Out
    <3>4. QED
      BY <3>2, <3>3, FollowOn
  <2> HIDE DEF Fetched, entry
  <2>3. ASSUME NEW o \in Fetched, st' \in Failing(o.s)
        PROVE  Keeps(st, st')
    <3>1. Keeps(st, o.s) /\ o.s \in Storage
      BY <2>2, FollowOn
    <3>2. Keeps(o.s, st')
      BY <2>3, <3>1, FailingKeeps
    <3>3. QED
      BY <3>1, <3>2, FollowOn
  <2>4. QED
    BY <1>1, <2>1, <2>2, <2>3
<1>4. CASE StartScript
  <2>1. \/ st' = st
        \/ \E entry : \E o \in mzReadZipEntry(st, entry) : st' = o.s
    BY <1>4 DEF StartScript
  <2>2. QED
    BY <1>1, <2>1, ReadKeeps DEF AllKeep
<1>5. CASE KeepFirmware
  <2>1. PICK o \in ReadFirmware(st, request[2]) : st' = o.s
    BY <1>5 DEF KeepFirmware
  <2>2. \/ \E entry : o \in mzReadZipEntry(st, entry)
        \/ \E ret : o = Out(st, ret)
        \/ \E t \in Failing(st) : o = Out(t, FALSE)
    BY DEF ReadFirmware
  <2>3. \/ Keeps(st, o.s)
        \/ o.s = st
        \/ o.s \in Failing(st)
    BY <2>2, ReadKeeps DEF AllKeep, Out
  <2>4. QED
    BY <1>1, <2>1, <2>3
<1>6. QED
  BY <1>2, <1>3, <1>4, <1>5

\* A statement of an edify script, and a command of an amend script.
LEMMA OpenIsArchive ==
  ASSUME PackageIsOpen, phase \in Verified \cup {"opened"}
  PROVE  package \in Packages /\ package.cd \in Seq(EntryType) /\ ArchiveOf(zip, package.cd)
<1>1. package \in Packages /\ zip = parseZipArchive(package.cd)
  BY DEF PackageIsOpen
<1>2. package.cd \in Seq(EntryType)
  BY <1>1 DEF Packages, PackageType
<1>3. QED
  BY <1>1, <1>2, ParsedIsArchive

LEMMA StatementIsGood ==
  ASSUME st \in Storage, PackageIsOpen, phase \in Verified, NEW n \in 1..Len(package.script),
         NEW o \in Statement(n, Evaluator(st, zip))
  PROVE  Leads(st, o.s.s) /\ o.s.out \in Seq(PieceType)
<1> DEFINE ev == Evaluator(st, zip)
           expr == package.script[n]
           values == EvaluateValue(ev, expr)
           cd == package.cd
<1>1. package \in Packages /\ cd \in Seq(EntryType) /\ ArchiveOf(zip, cd)
  BY OpenIsArchive
<1>2. expr \in EdifyExpressions
  <2>1. package.script \in Seq(EdifyExpressions)
    BY <1>1 DEF Packages, PackageType
  <2>2. QED
    BY <2>1
<1>3. ev \in EvaluatorStates(zip) /\ ev.s = st
  <2>1. <<>> \in Seq(PieceType)
    OBVIOUS
  <2>2. "NULL" \in STRING
    BY EdifyAssumption
  <2>3. QED
    BY <2>1, <2>2 DEF Evaluator, EvaluatorStates
<1> HIDE DEF cd, expr, ev
<1>4. values \subseteq Good(ev, Returned)
  BY <1>1, <1>2, <1>3, ExpressionIsGood
<1>5. o \in Evaluate(values) \/ o \in Bind(values, FreeValue)
  BY DEF Statement, ev, expr
<1> HIDE DEF values
<1>6. \E X : o \in Good(ev, X)
  <2>1. CASE o \in Evaluate(values)
    BY <1>3, <1>4, <2>1, EvaluateIsGood
  <2>2. CASE o \in Bind(values, FreeValue)
    <3>1. PICK p \in values : o = Out(p.s, p.ret) \/ o \in FreeValue(p.s, p.ret)
      BY <2>2 DEF Bind, Then
    <3>2. p.s \in Onward(ev) /\ p.ret \in Returned
      BY <1>4, GoodIs
    <3>3. CASE o = Out(p.s, p.ret)
      BY <3>2, <3>3, GoodOne
    <3>4. CASE o \in FreeValue(p.s, p.ret)
      BY <1>3, <3>2, <3>4, FurtherOn, FreeIsGood
    <3>5. QED
      BY <3>1, <3>3, <3>4
  <2>3. QED
    BY <1>5, <2>1, <2>2
<1>7. o.s \in Onward(ev)
  BY <1>6, GoodIs
<1>8. o.s \in EvaluatorStates(ev.zip) /\ Leads(ev.s, o.s.s)
  BY <1>7 DEF Onward
<1>9. QED
  BY <1>3, <1>8, EvaluatorFields

LEMMA RunningFollows ==
  ASSUME st \in Storage, SmallTypes, PackageIsOpen, RunCommand
  PROVE  Follows(st, st')
<1> DEFINE it == package.commands[command]
           c == Context(st, zip, package_root, firmware)
<1>1. phase = "script" /\ command <= Len(package.commands)
  BY DEF RunCommand
<1>2. PICK o \in execCommand(c, it) : st' = o.s.s
  BY DEF RunCommand
<1>3. package \in Packages /\ package.cd \in Seq(EntryType) /\ ArchiveOf(zip, package.cd)
  BY <1>1, OpenIsArchive DEF Verified
<1>4. package.commands \in Seq({k \in CommandType : WellFormed(k)})
  BY <1>3 DEF Packages, PackageType
<1>5. command \in DOMAIN package.commands
  BY <1>1, <1>4 DEF SmallTypes
<1>6. parses(package.commands)
  BY <1>1 DEF PackageIsOpen
<1>7. it \in CommandType /\ WellFormed(it)
  BY <1>4, <1>5
<1>8. it.cmd \in Commands
  BY <1>5, <1>6 DEF parses
<1>9. c.s = st /\ c.zip = zip /\ "s" \in DOMAIN c
  BY DEF Context
<1> HIDE DEF c, it
<1>10. ContextFollows(c, execCommand(c, it))
  BY <1>3, <1>7, <1>8, <1>9, CommandFollows
<1>11. QED
  BY <1>2, <1>9, <1>10 DEF ContextFollows



\* The storage stays one, however its package is installed.
StorageIsTyped == st \in Storage /\ st.faults <= MaxFaults

\* The update binary, the pipe and what recovery has read of it; the updater runs
\* a script that has been parsed, at one of its statements.
ChildType ==
  [pc : {"none", "never", "started", "running", "leaving", "hanging", "gone"},
   next : Nat \ {0}, out : Seq(PieceType), open : BOOLEAN, code : Nat]
ProcessIsTyped ==
  /\ child \in ChildType /\ request \in Seq(Texts)
  /\ pipe \in Seq(PieceType) /\ said \in Seq(PieceType) /\ heard \in Seq(PieceType)
  /\ Len(pipe) <= PipeSize
  /\ child.pc = "started" => child.next = 1
  /\ child.pc = "running" /\ IsUpdater =>
       package.parses /\ child.next <= Len(package.script)

LEMMA ChildFields ==
  ASSUME child \in ChildType
  PROVE  /\ child.pc \in {"none", "never", "started", "running", "leaving", "hanging", "gone"}
         /\ child.next \in Nat \ {0} /\ child.out \in Seq(PieceType)
         /\ child.open \in BOOLEAN /\ child.code \in Nat
BY DEF ChildType

LEMMA NoChildIsTyped ==
  /\ NoChild \in ChildType
  /\ [NoChild EXCEPT !.pc = "started", !.open = TRUE] \in ChildType
  /\ [NoChild EXCEPT !.pc = "never"] \in ChildType
<1>1. <<>> \in Seq(PieceType)
  OBVIOUS
<1>2. NoChild \in ChildType
  BY <1>1 DEF NoChild, ChildType
<1>3. [NoChild EXCEPT !.pc = "started", !.open = TRUE] \in ChildType
  BY <1>2 DEF ChildType
<1>4. [NoChild EXCEPT !.pc = "never"] \in ChildType
  BY <1>2 DEF ChildType
<1>5. QED
  BY <1>2, <1>3, <1>4

LEMMA LeavingIsTyped ==
  ASSUME child \in ChildType, NEW printed \in Seq(PieceType), NEW code \in Nat
  PROVE  Leaving(printed, code) \in ChildType
BY DEF Leaving, ChildType

LEMMA ProcessStays ==
  ASSUME ProcessIsTyped, BinaryIsHeard, UNCHANGED <<package, child, request, stream>>,
         UNCHANGED zip \/ phase \in Before \cup {"closing"}
  PROVE  ProcessIsTyped'
<1>1. CASE UNCHANGED zip
  BY <1>1 DEF ProcessIsTyped, IsUpdater, stream
<1>2. CASE phase \in Before \cup {"closing"}
  <2>1. child.pc \notin Running
    BY <1>2 DEF BinaryIsHeard, Before, Waiting
  <2>2. QED
    BY <2>1 DEF ProcessIsTyped, stream, Running
<1>3. QED
  BY <1>1, <1>2

LEMMA ProcessUser ==
  ASSUME ProcessIsTyped, BinaryIsHeard, User
  PROVE  ProcessIsTyped'
<1>1. CASE ChoosePackage
  <2>1. /\ child' = NoChild /\ request' = <<>>
        /\ pipe' = <<>> /\ said' = <<>> /\ heard' = <<>>
    BY <1>1 DEF ChoosePackage
  <2>2. <<>> \in Seq(PieceType) /\ <<>> \in Seq(Texts) /\ Len(<<>>) <= PipeSize
    BY InstallerAssumption
  <2>3. child'.pc = "none"
    BY <2>1 DEF NoChild
  <2>4. QED
    BY <2>1, <2>2, <2>3, NoChildIsTyped DEF ProcessIsTyped
<1>2. CASE DeclinePackage
  BY <1>2, ProcessStays DEF DeclinePackage, recovery, process
<1>3. ASSUME NEW root \in UserRoots, FormatRoot(root)
      PROVE  ProcessIsTyped'
  BY <1>3, ProcessStays DEF FormatRoot, Operation, recovery, process
<1>4. ASSUME NEW root \in UserRoots, MountOrUnmount(root)
      PROVE  ProcessIsTyped'
  BY <1>4, ProcessStays DEF MountOrUnmount, Operation, recovery, process
<1>5. ASSUME NEW root \in UserRoots, NEW fs \in {"ext3", "ext4", "upgrade"},
             ConvertRoot(root, fs)
      PROVE  ProcessIsTyped'
  BY <1>5, ProcessStays DEF ConvertRoot, Operation, recovery, process
<1>6. QED
  BY <1>1, <1>2, <1>3, <1>4, <1>5 DEF User

LEMMA ProcessRecovery ==
  ASSUME ProcessIsTyped, BinaryIsHeard, Recovery
  PROVE  ProcessIsTyped'
<1>1. CASE OpenPackage \/ VerifyPackage \/ ReadEnd \/ WaitForBinary \/ KeepFirmware
             \/ StartScript \/ RunCommand \/ EndScript \/ ClosePackage
  <2>1. UNCHANGED <<package, child, request, stream>>
    BY <1>1 DEF OpenPackage, VerifyPackage, ReadEnd, WaitForBinary, KeepFirmware, StartScript,
                RunCommand, EndScript, ClosePackage, process
  <2>2. UNCHANGED zip \/ phase \in Before \cup {"closing"}
    BY <1>1 DEF OpenPackage, VerifyPackage, ReadEnd, WaitForBinary, KeepFirmware, StartScript,
                RunCommand, EndScript, ClosePackage, Before
  <2>3. QED
    BY <2>1, <2>2, ProcessStays
<1>2. CASE StartBinary
  <2>1. UNCHANGED <<package, zip, request, stream>>
    BY <1>2 DEF StartBinary
  <2>2. \/ child' = child
        \/ child' = [NoChild EXCEPT !.pc = "started", !.open = TRUE]
        \/ child' = [NoChild EXCEPT !.pc = "never"]
    BY <1>2 DEF StartBinary
  <2>3. CASE child' = child
    BY <2>1, <2>3, ProcessStays
  <2>4. CASE \/ child' = [NoChild EXCEPT !.pc = "started", !.open = TRUE]
             \/ child' = [NoChild EXCEPT !.pc = "never"]
    <3>1. child' \in ChildType
      BY <2>4, NoChildIsTyped
    <3>2. child'.pc # "running" /\ child'.next = 1
      BY <2>4 DEF NoChild
    <3>3. QED
      BY <2>1, <3>1, <3>2 DEF ProcessIsTyped, stream
  <2>5. QED
    BY <2>2, <2>3, <2>4
<1>3. CASE ReadPiece
  <2> DEFINE piece == Head(pipe)
  <2>1. /\ pipe # <<>> /\ pipe' = Tail(pipe) /\ heard' = Append(heard, piece)
        /\ request' = (IF Complete(piece) /\ request = <<>> THEN piece.args ELSE request)
        /\ UNCHANGED <<package, zip, child, said>>
    BY <1>3 DEF ReadPiece, process
  <2>2. /\ pipe \in Seq(PieceType) /\ heard \in Seq(PieceType) /\ Len(pipe) <= PipeSize
        /\ request \in Seq(Texts)
    BY DEF ProcessIsTyped
  <2>3. piece \in PieceType
    BY <2>1, <2>2
  <2> HIDE DEF piece
  <2>4. piece.args \in Seq(Texts)
    BY <2>3 DEF PieceType
  <2>5. request' \in Seq(Texts)
    BY <2>1, <2>2, <2>4
  <2>6. heard' \in Seq(PieceType)
    BY <2>1, <2>2, <2>3
  <2>7. pipe' \in Seq(PieceType) /\ Len(pipe') <= PipeSize
    <3>1. pipe' \in Seq(PieceType) /\ Len(pipe') = Len(pipe) - 1 /\ Len(pipe) \in Nat
      BY <2>1, <2>2
    <3>2. QED
      BY <2>2, <3>1, InstallerAssumption
  <2>8. IsUpdater' = IsUpdater
    BY <2>1 DEF IsUpdater
  <2>9. QED
    BY <2>1, <2>5, <2>6, <2>7, <2>8 DEF ProcessIsTyped
<1>4. QED
  BY <1>1, <1>2, <1>3 DEF Recovery


\* A step of a foreign program.
LEMMA StepOfProgram ==
  ASSUME package \in Packages, NEW n \in Nat \ {0}, n <= Len(package.program)
  PROVE  LET step == package.program[n]
         IN  /\ step.do = "say" => step.piece \in PieceType
             /\ step.do = "write" => step.place \in Places /\ step.file \in STRING
<1>1. package.program \in Seq(Steps)
  BY DEF Packages, PackageType
<1>2. package.program[n] \in Steps
  BY <1>1
<1>3. QED
  BY <1>2 DEF Steps, Says, Writes

LEMMA ProcessChild ==
  ASSUME StorageIsTyped, ProcessIsTyped, PackageIsOpen, BinaryIsHeard, Child
  PROVE  ProcessIsTyped'
<1> DEFINE SameOut == UNCHANGED <<package, zip, request, pipe, said, heard>>
           script == package.script
<1>1. /\ child \in ChildType /\ request \in Seq(Texts)
      /\ pipe \in Seq(PieceType) /\ said \in Seq(PieceType) /\ heard \in Seq(PieceType)
      /\ Len(pipe) <= PipeSize
      /\ child.pc = "started" => child.next = 1
      /\ child.pc = "running" /\ IsUpdater => package.parses /\ child.next <= Len(script)
  BY DEF ProcessIsTyped
<1>2. package \in Packages /\ script \in Seq(EdifyExpressions)
      /\ (package.parses => script # <<>>) /\ package.code \in Nat
  BY DEF PackageIsOpen, Packages, PackageType
<1>3. <<>> \in Seq(PieceType)
  OBVIOUS
<1>4. ASSUME SameOut, child' \in ChildType, child'.pc \notin {"started", "running"}
      PROVE  ProcessIsTyped'
  BY <1>1, <1>4 DEF ProcessIsTyped
<1>5. ASSUME SameOut, child' \in ChildType, child'.pc # "started",
             IsUpdater => package.parses /\ child'.next <= Len(script)
      PROVE  ProcessIsTyped'
  BY <1>1, <1>5 DEF ProcessIsTyped, IsUpdater
<1>6. ASSUME NEW printed \in Seq(PieceType), NEW code \in Nat
      PROVE  Leaving(printed, code) \in ChildType /\ Leaving(printed, code).pc = "leaving"
  BY <1>1, <1>6, LeavingIsTyped, LeavingFields
<1> HIDE DEF script
<1>7. CASE UpdaterStart
  <2>1. child.pc = "started" /\ SameOut
    BY <1>7 DEF UpdaterStart, ChildUnchanged, recovery, stream
  <2>2. \/ child' \in {Leaving(<<>>, 3), Leaving(<<>>, 4), Leaving(<<>>, 5), Leaving(<<>>, 6)}
        \/ package.parses /\ child' = [child EXCEPT !.pc = "running"]
    BY <1>7 DEF UpdaterStart
  <2> HIDE DEF SameOut
  <2>3. CASE child' \in {Leaving(<<>>, 3), Leaving(<<>>, 4), Leaving(<<>>, 5), Leaving(<<>>, 6)}
    <3>1. PICK code \in {3, 4, 5, 6} : child' = Leaving(<<>>, code)
      BY <2>3
    <3> DEFINE nothing == <<>>
    <3>2. nothing \in Seq(PieceType) /\ child' = Leaving(nothing, code) /\ code \in Nat
      BY <1>3, <3>1
    <3> HIDE DEF nothing
    <3>3. child' \in ChildType /\ child'.pc = "leaving"
      BY <1>6, <3>2
    <3>4. QED
      BY <1>4, <2>1, <3>3
  <2>4. CASE package.parses /\ child' = [child EXCEPT !.pc = "running"]
    <3>1. child' \in ChildType /\ child'.pc = "running" /\ child'.next = 1
      BY <1>1, <2>1, <2>4 DEF ChildType
    <3>2. 1 <= Len(script)
      BY <1>2, <2>4
    <3>3. QED
      BY <1>5, <2>1, <2>4, <3>1, <3>2
  <2>5. QED
    BY <2>2, <2>3, <2>4
<1>8. CASE UpdaterStep
  <2> DEFINE n == child.next
  <2>1. child.pc = "running" /\ IsUpdater /\ SameOut
    BY <1>8 DEF UpdaterStep, ChildUnchanged, recovery, stream
  <2>2. PICK o \in Statement(n, Evaluator(st, zip)) :
          child' = CASE o.ret = "NULL" -> Leaving(o.s.out \o Report(o.s), 7)
                     [] o.ret = "CRASH" -> Leaving(o.s.out, 139)
                     [] o.ret = "HANG" -> [Leaving(o.s.out, 0) EXCEPT !.pc = "hanging"]
                     [] o.ret \notin Ends /\ n = Len(package.script) ->
                          Leaving(o.s.out, 0)
                     [] OTHER -> [child EXCEPT !.next = n + 1, !.out = o.s.out]
    BY <1>8 DEF UpdaterStep
  <2> HIDE DEF SameOut
  <2>3. n \in 1..Len(script) /\ package.parses
    BY <1>1, <1>2, <2>1, ChildFields
  <2>4. phase \in Verified
    BY <2>1 DEF BinaryIsHeard, Running, Waiting, Verified
  <2>5. o.s.out \in Seq(PieceType)
    BY <2>2, <2>3, <2>4, StatementIsGood DEF StorageIsTyped, script
  <2>6. o.s.out \o Report(o.s) \in Seq(PieceType)
    <3>1. Piece("ui_print", <<>>) \in PieceType
      <4>1. "ui_print" \in STRING
        BY TextsOfCode
      <4>2. <<>> \in Seq(Texts)
        OBVIOUS
      <4>3. QED
        BY <4>1, <4>2, PieceOf
    <3>2. Report(o.s) \in Seq(PieceType)
      BY <3>1 DEF Report
    <3>3. QED
      BY <2>5, <3>2
  <2>7. CASE o.ret \in {"NULL", "CRASH"}
    <3>1. CASE o.ret = "NULL"
      <4> DEFINE printed == o.s.out \o Report(o.s)
      <4>1. child' = Leaving(printed, 7)
        BY <2>2, <3>1 DEF Ends
      <4>2. printed \in Seq(PieceType)
        BY <2>6
      <4> HIDE DEF printed
      <4>3. child' \in ChildType /\ child'.pc = "leaving"
        BY <1>6, <4>1, <4>2
      <4>4. QED
        BY <1>4, <2>1, <4>3
    <3>2. CASE o.ret = "CRASH"
      <4>1. child' = Leaving(o.s.out, 139)
        BY <2>2, <3>2 DEF Ends
      <4>2. child' \in ChildType /\ child'.pc = "leaving"
        BY <1>6, <2>5, <4>1
      <4>3. QED
        BY <1>4, <2>1, <4>2
    <3>3. QED
      BY <2>7, <3>1, <3>2
  <2>8. CASE o.ret = "HANG"
    <3> DEFINE left == Leaving(o.s.out, 0)
    <3>1. child' = [left EXCEPT !.pc = "hanging"]
      BY <2>2, <2>8 DEF Ends
    <3>2. left \in ChildType
      BY <1>6, <2>5
    <3> HIDE DEF left
    <3>3. child' \in ChildType /\ child'.pc = "hanging"
      BY <3>1, <3>2 DEF ChildType
    <3>4. QED
      BY <1>4, <2>1, <3>3
  <2>9. CASE o.ret \notin Ends /\ n = Len(script)
    <3>1. child' = Leaving(o.s.out, 0)
      BY <2>2, <2>9 DEF Ends, script
    <3>2. child' \in ChildType /\ child'.pc = "leaving"
      BY <1>6, <2>5, <3>1
    <3>3. QED
      BY <1>4, <2>1, <3>2
  <2>10. CASE o.ret \notin Ends /\ n # Len(script)
    <3>1. child' = [child EXCEPT !.next = n + 1, !.out = o.s.out]
      BY <2>2, <2>10 DEF Ends, script
    <3>2. n + 1 \in Nat \ {0} /\ n + 1 <= Len(script)
      BY <1>2, <2>3, <2>10
    <3> DEFINE printed == o.s.out
               more == n + 1
    <3>3. child' = [child EXCEPT !.next = more, !.out = printed] /\ printed \in Seq(PieceType)
      BY <2>5, <3>1
    <3> HIDE DEF printed, more
    <3>4. more \in Nat \ {0}
      BY <3>2 DEF more
    <3>5. child' \in ChildType /\ child'.pc = "running" /\ child'.next = more
      BY <1>1, <2>1, <3>3, <3>4 DEF ChildType
    <3>6. QED
      BY <1>5, <2>1, <2>3, <3>2, <3>5 DEF more
  <2>11. QED
    BY <2>7, <2>8, <2>9, <2>10 DEF Ends
<1>9. CASE ChildWrites
  <2> DEFINE piece == Head(child.out)
  <2>1. /\ child.out # <<>> /\ Len(pipe) < PipeSize
        /\ pipe' = Append(pipe, piece) /\ said' = Append(said, piece)
        /\ child' = [child EXCEPT !.out = Tail(child.out)]
        /\ UNCHANGED <<package, zip, request, heard>>
    BY <1>9 DEF ChildWrites, ChildUnchanged, recovery
  <2>2. child.out \in Seq(PieceType)
    BY <1>1, ChildFields
  <2>3. piece \in PieceType /\ Tail(child.out) \in Seq(PieceType)
    BY <2>1, <2>2
  <2>4. child' \in ChildType /\ child'.pc = child.pc /\ child'.next = child.next
    BY <1>1, <2>1, <2>3 DEF ChildType
  <2> HIDE DEF piece
  <2>5. said' \in Seq(PieceType) /\ pipe' \in Seq(PieceType)
    BY <1>1, <2>1, <2>3
  <2>6. Len(pipe') <= PipeSize
    BY <1>1, <2>1, <2>3, InstallerAssumption
  <2>7. IsUpdater' = IsUpdater
    BY <2>1 DEF IsUpdater
  <2>8. QED
    BY <1>1, <2>1, <2>4, <2>5, <2>6, <2>7 DEF ProcessIsTyped, script
<1>10. CASE ChildExits
  <2>1. SameOut /\ child' = [child EXCEPT !.pc = "gone", !.open = FALSE]
    BY <1>10 DEF ChildExits, ChildUnchanged, recovery, stream
  <2>2. child' \in ChildType /\ child'.pc = "gone"
    BY <1>1, <2>1 DEF ChildType
  <2>3. QED
    BY <1>4, <2>1, <2>2
<1>11. CASE ForeignStep
  <2> DEFINE n == child.next
             step == package.program[n]
             next == [child EXCEPT !.pc = "running", !.next = n + 1]
  <2>1. SameOut /\ ~IsUpdater
    BY <1>11 DEF ForeignStep, ChildUnchanged, recovery, stream
  <2>2. \/ child' = Leaving(<<>>, package.code)
        \/ /\ child' = [next EXCEPT !.out = <<step.piece>>]
           /\ step.do = "say" /\ ~(n > Len(package.program))
        \/ child' = [next EXCEPT !.open = FALSE]
        \/ child' = next
    BY <1>11 DEF ForeignStep
  <2> HIDE DEF SameOut
  <2>3. n \in Nat \ {0} /\ n + 1 \in Nat \ {0}
    BY <1>1, ChildFields
  <2>4. next \in ChildType /\ next.pc = "running"
    <3> DEFINE more == n + 1
    <3>1. more \in Nat \ {0}
      BY <2>3
    <3> HIDE DEF more
    <3>2. [child EXCEPT !.pc = "running", !.next = more] \in ChildType
          /\ [child EXCEPT !.pc = "running", !.next = more].pc = "running"
      BY <1>1, <3>1 DEF ChildType
    <3>3. QED
      BY <3>2 DEF more
  <2> HIDE DEF next
  <2>5. CASE child' = Leaving(<<>>, package.code)
    <3>1. child' \in ChildType /\ child'.pc = "leaving"
      BY <1>2, <1>3, <1>6, <2>5
    <3>2. QED
      BY <1>4, <2>1, <3>1
  <2>6. CASE /\ child' = [next EXCEPT !.out = <<step.piece>>]
             /\ step.do = "say" /\ ~(n > Len(package.program))
    <3> DEFINE printed == <<step.piece>>
    <3>1. package.program \in Seq(Steps)
      BY <1>2 DEF Packages, PackageType
    <3>2. n <= Len(package.program)
      BY <2>3, <2>6, <3>1
    <3>3. step.piece \in PieceType
      BY <1>2, <2>3, <2>6, <3>2, StepOfProgram
    <3>4. printed \in Seq(PieceType) /\ child' = [next EXCEPT !.out = printed]
      BY <2>6, <3>3
    <3> HIDE DEF printed
    <3>5. child' \in ChildType /\ child'.pc = "running"
      BY <2>4, <3>4 DEF ChildType
    <3>6. QED
      BY <1>5, <2>1, <3>5
  <2>7. CASE child' = [next EXCEPT !.open = FALSE] \/ child' = next
    <3>1. child' \in ChildType /\ child'.pc = "running"
      BY <2>4, <2>7 DEF ChildType
    <3>2. QED
      BY <1>5, <2>1, <3>1
  <2>8. QED
    BY <2>2, <2>5, <2>6, <2>7
<1>12. QED
  BY <1>7, <1>8, <1>9, <1>10, <1>11 DEF Child

LEMMA ProcessStep ==
  ASSUME StorageIsTyped, ProcessIsTyped, PackageIsOpen, BinaryIsHeard, [Next]_vars
  PROVE  ProcessIsTyped'
<1>1. CASE BackgroundEnds
  BY <1>1, ProcessStays DEF BackgroundEnds, ChildUnchanged, recovery
<1>2. CASE UNCHANGED vars
  BY <1>2, ProcessStays DEF vars, recovery, process
<1>3. QED
  BY <1>1, <1>2, ProcessUser, ProcessRecovery, ProcessChild DEF Next


\* Every step but those that open and close the package: the statements of the
\* updater mount what they like where they like.
LEMMA ChildFollows ==
  ASSUME StorageIsTyped, ProcessIsTyped, PackageIsOpen, BinaryIsHeard, Child
  PROVE  Leads(st, st') /\ (Follows(st, st') \/ UpdaterStep)
<1>1. st \in Storage /\ Follows(st, st)
  BY SameKeeps DEF StorageIsTyped
<1>2. CASE UpdaterStart
  <2>1. \/ st' = st \/ st' \in Failing(st)
        \/ \E entry : \E o \in mzReadZipEntry(st, entry) : st' = o.s
    BY <1>2 DEF UpdaterStart
  <2>2. st' = st \/ Keeps(st, st')
    BY <1>1, <2>1, FailingKeeps, ReadKeeps DEF AllKeep
  <2>3. QED
    BY <1>1, <2>2, SameKeeps, FollowOn
<1>3. CASE UpdaterStep
  <2> DEFINE n == child.next
  <2>1. child.pc = "running" /\ IsUpdater
    BY <1>3 DEF UpdaterStep
  <2>2. PICK o \in Statement(n, Evaluator(st, zip)) : st' = o.s.s
    BY <1>3 DEF UpdaterStep
  <2>3. package.script \in Seq(EdifyExpressions)
    BY DEF PackageIsOpen, Packages, PackageType
  <2>4. n \in 1..Len(package.script)
    BY <2>1, <2>3, ChildFields DEF ProcessIsTyped
  <2>5. phase \in Verified
    BY <2>1 DEF BinaryIsHeard, Running, Waiting, Verified
  <2>6. Leads(st, st')
    BY <1>1, <2>2, <2>4, <2>5, StatementIsGood
  <2>7. QED
    BY <1>3, <2>6
<1>4. CASE ChildWrites \/ ChildExits
  <2>1. st' = st
    BY <1>4 DEF ChildWrites, ChildExits
  <2>2. QED
    BY <1>1, <2>1, FollowOn
<1>5. CASE ForeignStep
  <2> DEFINE n == child.next
             step == package.program[n]
  <2>1. \/ st' = st
        \/ /\ step.do = "write" /\ ~(n > Len(package.program))
           /\ st' = [st EXCEPT !.files[step.place] = @ \cup {step.file}]
    BY <1>5 DEF ForeignStep
  <2>2. CASE /\ step.do = "write" /\ ~(n > Len(package.program))
             /\ st' = [st EXCEPT !.files[step.place] = @ \cup {step.file}]
    <3>1. package \in Packages /\ package.program \in Seq(Steps)
      BY DEF PackageIsOpen, Packages, PackageType
    <3>2. n \in Nat \ {0} /\ n <= Len(package.program)
      BY <2>2, <3>1, ChildFields DEF ProcessIsTyped
    <3>3. step.place \in Places /\ step.file \in STRING
      BY <2>2, <3>1, <3>2, StepOfProgram
    <3> DEFINE place == step.place
               file == step.file
               files == st.files[place] \cup {file}
    <3>4. st' = [st EXCEPT !.files[place] = files]
      BY <2>2
    <3>5. place \in Places /\ files \in SUBSET STRING
      BY <1>1, <3>3, StorageFields
    <3> HIDE DEF place, files
    <3>6. Follows(st, st')
      BY <1>1, <3>4, <3>5, NewFilesAt
    <3>7. QED
      BY <1>1, <3>6, FollowOn
  <2>3. QED
    BY <1>1, <2>1, <2>2, FollowOn
<1>6. QED
  BY <1>2, <1>3, <1>4, <1>5 DEF Child

LEMMA StepFollows ==
  ASSUME StorageIsTyped, ProcessIsTyped, SmallTypes, PackageIsOpen, BinaryIsHeard, [Next]_vars
  PROVE  \/ Leads(st, st') /\ (Follows(st, st') \/ UpdaterStep)
         \/ OpenPackage \/ ClosePackage
<1>1. st \in Storage /\ Follows(st, st) /\ (Follows(st, st') => Leads(st, st'))
  BY SameKeeps, FollowOn DEF StorageIsTyped
<1>2. ReadPiece \/ ReadEnd \/ WaitForBinary \/ EndScript \/ BackgroundEnds \/ UNCHANGED vars
        => st' = st
  BY DEF ReadPiece, ReadEnd, WaitForBinary, EndScript, BackgroundEnds, vars
<1>3. VerifyPackage \/ StartBinary \/ StartScript \/ KeepFirmware => Follows(st, st')
  BY <1>1, LookingKeeps, FollowOn
<1>4. User \/ RunCommand => Follows(st, st')
  BY <1>1, UserFollows, RunningFollows
<1>5. QED
  BY <1>1, <1>2, <1>3, <1>4, ChildFollows DEF Next, Recovery

LEMMA StorageStep ==
  ASSUME StorageIsTyped, ProcessIsTyped, SmallTypes, PackageIsOpen, BinaryIsHeard, [Next]_vars
  PROVE  StorageIsTyped'
<1>1. st \in Storage /\ st.faults \in Nat /\ st.faults <= MaxFaults /\ MaxFaults \in Nat
  BY StorageFields, InstallerAssumption DEF StorageIsTyped
<1>2. st' \in Storage /\ st'.faults <= st.faults
  BY <1>1, StepFollows, OpeningKeeps, ClosingKeeps DEF Leads
<1>3. st'.faults \in Nat
  BY <1>2, StorageFields
<1>4. QED
  BY <1>1, <1>2, <1>3 DEF StorageIsTyped

\* The card is in use as long as a package is open, and the package is registered
\* as a root while its script runs.
CardIsInUse ==
  /\ phase \in Verified \cup {"opened"} => st.busy # {}
  /\ package_root <=> phase = "script"

LEMMA InUseStep ==
  ASSUME StorageIsTyped, ProcessIsTyped, SmallTypes, PackageIsOpen, BinaryIsHeard,
         CardIsInUse, [Next]_vars
  PROVE  CardIsInUse'
<1>1. st \in Storage /\ package_root \in BOOLEAN
  BY DEF StorageIsTyped, SmallTypes
<1>2. phase' \in Verified \cup {"opened"} => st'.busy # {}
  <2>1. CASE OpenPackage
    <3>1. phase' \in {"closing", "opened"}
      BY <2>1 DEF OpenPackage, Return, Goto
    <3>2. QED
      BY <1>1, <2>1, <3>1, OpeningKeeps DEF Verified
  <2>2. CASE ClosePackage
    BY <2>2 DEF ClosePackage, Verified
  <2>3. CASE Leads(st, st') /\ ~OpenPackage /\ ~ClosePackage
    <3>1. st'.busy = st.busy
      BY <2>3 DEF Leads
    <3>2. \/ phase' \notin Verified \cup {"opened"}
          \/ phase \in Verified \cup {"opened"}
      <4>1. CASE User
        BY <1>1, <4>1, UserFollows DEF Verified
      <4>2. CASE Recovery
        BY <2>3, <4>2 DEF Recovery, VerifyPackage, StartBinary, ReadPiece, ReadEnd,
             WaitForBinary, KeepFirmware, StartScript, RunCommand, EndScript, Verified
      <4>3. CASE Child \/ BackgroundEnds
        BY <4>3 DEF Child, BackgroundEnds, UpdaterStart, UpdaterStep, ChildWrites, ChildExits,
                    ForeignStep, ChildUnchanged, recovery
      <4>4. CASE UNCHANGED vars
        BY <4>4 DEF vars, recovery
      <4>5. QED
        BY <4>1, <4>2, <4>3, <4>4 DEF Next
    <3>3. QED
      BY <3>1, <3>2 DEF CardIsInUse
  <2>4. QED
    BY <2>1, <2>2, <2>3, StepFollows
<1>3. package_root' <=> phase' = "script"
  <2>1. package_root <=> phase = "script"
    BY DEF CardIsInUse
  <2>2. CASE User
    <3>1. package_root' = package_root
      BY <2>2 DEF User, ChoosePackage, DeclinePackage, FormatRoot, MountOrUnmount,
                  ConvertRoot, Operation, recovery
    <3>2. QED
      BY <1>1, <2>1, <2>2, <3>1, UserFollows
  <2>3. CASE OpenPackage \/ VerifyPackage \/ ReadPiece \/ ReadEnd \/ ClosePackage
    BY <2>1, <2>3 DEF OpenPackage, VerifyPackage, ReadPiece, ReadEnd, ClosePackage, Return, Goto
  <2>4. CASE StartBinary \/ WaitForBinary \/ KeepFirmware
    BY <2>1, <2>4 DEF StartBinary, WaitForBinary, KeepFirmware, Return, Goto
  <2>5. CASE StartScript \/ RunCommand \/ EndScript
    BY <2>1, <2>5 DEF StartScript, RunCommand, EndScript, Return, Goto
  <2>6. CASE Child \/ BackgroundEnds
    BY <2>1, <2>6 DEF Child, BackgroundEnds, UpdaterStart, UpdaterStep, ChildWrites, ChildExits,
                ForeignStep, ChildUnchanged, recovery
  <2>7. CASE UNCHANGED vars
    BY <2>1, <2>7 DEF vars, recovery
  <2>8. QED
    BY <2>2, <2>3, <2>4, <2>5, <2>6, <2>7 DEF Next, Recovery
<1>4. QED
  BY <1>2, <1>3 DEF CardIsInUse

-----------------------------------------------------------------------------
(* Amend scripts and the image                                             *)

\* What a command leaves of the image that is kept: an image that is there stays,
\* and a command that keeps one succeeds and changes nothing else.
ImageStays(c, outcomes) ==
  \A o \in outcomes : o.s.firmware # c.firmware =>
    /\ c.firmware = "NULL" /\ o.ret = 0
    /\ o.s.s.fs = c.s.fs /\ o.s.s.files = c.s.files

LEMMA WithStays ==
  ASSUME NEW c, "firmware" \in DOMAIN c, NEW outcomes
  PROVE  /\ \A o \in With(c, outcomes) : o.s.firmware = c.firmware
         /\ ImageStays(c, With(c, outcomes))
BY DEF With, Out, ImageStays

LEMMA FailIfStays ==
  ASSUME NEW c, NEW wrong, NEW outcomes, ImageStays(c, outcomes)
  PROVE  ImageStays(c, FailIf(wrong, c, outcomes))
BY DEF FailIf, Out, ImageStays

LEMMA CommandKeepsImage ==
  ASSUME NEW c, {"s", "firmware"} \subseteq DOMAIN c, c.s \in Storage,
         NEW it, it.cmd \in Commands
  PROVE  ImageStays(c, execCommand(c, it))
<1> DEFINE argv == it.argv
<1>1. ImageStays(c, cmd_assert(c, it.test))
  <2> DEFINE X == execBooleanValue(c.s, it.test)
  <2>1. SUFFICES ASSUME NEW o \in cmd_assert(c, it.test)
                 PROVE  o.s.firmware = c.firmware
    BY DEF ImageStays
  <2>2. PICK p \in With(c, X) : o.s = p.s
    BY DEF cmd_assert, Out
  <2> HIDE DEF X
  <2>3. QED
    BY <2>2, WithStays
<1>2. ImageStays(c, cmd_format(c, argv))
  <2> DEFINE X == format_root_device(c.s, RootOf(argv[1]))
             Y == {Out(o.s, IF o.ret # 0 THEN 1 ELSE 0) : o \in With(c, X)}
  <2>1. cmd_format(c, argv) = FailIf(Len(argv) # 1, c, Y)
    BY DEF cmd_format
  <2> HIDE DEF X
  <2>2. ImageStays(c, Y)
    BY WithStays DEF ImageStays, Out
  <2> HIDE DEF Y
  <2>3. QED
    BY <2>1, <2>2, FailIfStays
<1>3. ASSUME NEW recurse PROVE ImageStays(c, cmd_delete(c, argv, recurse))
  <2>1. \E wrong, X : cmd_delete(c, argv, recurse) = FailIf(wrong, c, With(c, X))
    BY Zenon DEF cmd_delete
  <2>2. QED
    BY <2>1, WithStays, FailIfStays
<1>4. ImageStays(c, cmd_copy_dir(c, argv))
  <2>1. \E wrong, X : cmd_copy_dir(c, argv) = FailIf(wrong, c, With(c, X))
    BY Zenon DEF cmd_copy_dir
  <2>2. QED
    BY <2>1, WithStays, FailIfStays
<1>5. ImageStays(c, cmd_run_program(c, argv))
  <2>1. \E wrong, X : cmd_run_program(c, argv) = FailIf(wrong, c, With(c, X))
    BY Zenon DEF cmd_run_program
  <2>2. QED
    BY <2>1, WithStays, FailIfStays
<1>6. ASSUME NEW numbers PROVE ImageStays(c, cmd_set_perm(c, argv, numbers))
  <2>1. \E wrong, X : cmd_set_perm(c, argv, numbers) = FailIf(wrong, c, With(c, X))
    BY Zenon DEF cmd_set_perm
  <2>2. QED
    BY <2>1, WithStays, FailIfStays
<1>7. ImageStays(c, cmd_show_progress(c, argv))
  <2>1. ImageStays(c, {Out(c, 0)})
    BY DEF ImageStays, Out
  <2>2. QED
    BY <2>1, FailIfStays DEF cmd_show_progress
<1>8. ImageStays(c, cmd_symlink(c, argv))
  <2>1. \E wrong, X : cmd_symlink(c, argv) = FailIf(wrong, c, With(c, X))
    BY Zenon DEF cmd_symlink
  <2>2. QED
    BY <2>1, WithStays, FailIfStays
<1>9. ImageStays(c, cmd_write_firmware_image(c, argv))
  <2> DEFINE entry == PackageEntry(c, argv[1])
             Keep(d, ok) ==
               IF ~ok THEN {Out(d, 1)}
               ELSE {Out(o.s, IF o.ret # 0 THEN 1 ELSE 0) :
                       o \in remember_firmware_update(d, entry.data)}
             X == mzReadZipEntry(c.s, entry)
             Y == Then(With(c, X), Keep)
  <2>1. \E wrong : cmd_write_firmware_image(c, argv) = FailIf(wrong, c, Y)
    BY Zenon DEF cmd_write_firmware_image
  <2>2. ImageStays(c, Y)
    <3>1. SUFFICES ASSUME NEW o \in Y
                   PROVE  o.s.firmware # c.firmware =>
                            /\ c.firmware = "NULL" /\ o.ret = 0
                            /\ o.s.s.fs = c.s.fs /\ o.s.s.files = c.s.files
      BY DEF ImageStays
    <3>2. PICK p \in With(c, X) : o \in Keep(p.s, p.ret)
      BY DEF Then
    <3> HIDE DEF X, Y
    <3>3. /\ p.s.firmware = c.firmware
          /\ p.s.s.fs = c.s.fs /\ p.s.s.files = c.s.files
      <4>1. PICK q \in X : p = Out([c EXCEPT !.s = q.s], q.ret)
        BY <3>2 DEF With
      <4>2. q.s.fs = c.s.fs /\ q.s.files = c.s.files
        BY ReadKeeps DEF X, AllKeep, Keeps
      <4>3. QED
        BY <4>1, <4>2 DEF Out
    <3> HIDE DEF entry
    <3>4. \/ o.s = p.s
          \/ \E q \in remember_firmware_update(p.s, entry.data) :
               o.s = q.s /\ o.ret = IF q.ret # 0 THEN 1 ELSE 0
      BY <3>2 DEF Out
    <3>5. ASSUME NEW q \in remember_firmware_update(p.s, entry.data), o.s = q.s,
                 o.ret = IF q.ret # 0 THEN 1 ELSE 0
          PROVE  o.s.firmware # c.firmware =>
                   /\ c.firmware = "NULL" /\ o.ret = 0
                   /\ o.s.s.fs = c.s.fs /\ o.s.s.files = c.s.files
      <4>1. \/ q.s = p.s
            \/ /\ p.s.firmware = "NULL" /\ q.ret = 0
               /\ q.s = [p.s EXCEPT !.firmware = entry.data]
        BY DEF remember_firmware_update, Out
      <4>2. q.s = [p.s EXCEPT !.firmware = entry.data] => q.s.s = p.s.s
        OBVIOUS
      <4>3. QED
        BY <3>3, <3>5, <4>1, <4>2
    <3>6. QED
      BY <3>3, <3>4, <3>5
  <2> HIDE DEF Y
  <2>3. QED
    BY <2>1, <2>2, FailIfStays
<1>10. ImageStays(c, cmd_write_raw_image(c, argv))
  <2>1. \/ \E X : cmd_write_raw_image(c, argv) = {Out(c, X)}
        \/ \E wrong, X : cmd_write_raw_image(c, argv) = FailIf(wrong, c, With(c, X))
    BY Zenon DEF cmd_write_raw_image
  <2>2. \A X : ImageStays(c, {Out(c, X)})
    BY DEF ImageStays, Out
  <2>3. QED
    BY <2>1, <2>2, WithStays, FailIfStays
<1>11. ImageStays(c, cmd_mark(c))
  BY DEF cmd_mark, ImageStays, Out
<1> HIDE DEF argv
<1>12. execCommand(c, it) \in
         {cmd_assert(c, it.test), cmd_format(c, argv), cmd_delete(c, argv, FALSE),
          cmd_delete(c, argv, TRUE), cmd_copy_dir(c, argv), cmd_run_program(c, argv),
          cmd_set_perm(c, argv, 3), cmd_set_perm(c, argv, 4), cmd_show_progress(c, argv),
          cmd_symlink(c, argv), cmd_write_firmware_image(c, argv),
          cmd_write_raw_image(c, argv), cmd_mark(c)}
  BY DEF execCommand, Commands, argv
<1>13. QED
  BY <1>1, <1>2, <1>3, <1>4, <1>5, <1>6, <1>7, <1>8, <1>9, <1>10, <1>11, <1>12

-----------------------------------------------------------------------------
(* The invariant                                                           *)

\* The invariant.
Installing ==
  /\ SmallTypes /\ PackageIsOpen /\ NothingIsLost /\ BinaryIsHeard
  /\ StorageIsTyped /\ ProcessIsTyped /\ CardIsInUse

LEMMA InstallingInit ==
  ASSUME Init
  PROVE  Installing
<1>1. <<>> \in Seq({}) /\ <<>> = <<>> \o <<>>
  OBVIOUS
<1>2. NothingIsLost
  BY <1>1 DEF Init, NothingIsLost
<1>3. StorageIsTyped /\ CardIsInUse
  <2>1. st \in Storage /\ st.faults <= MaxFaults
    BY InstallerAssumption DEF Init
  <2>2. phase = "prompt" /\ package_root = FALSE
    BY DEF Init
  <2>3. QED
    BY <2>1, <2>2 DEF StorageIsTyped, CardIsInUse, Verified
<1>4. ProcessIsTyped
  <2>1. /\ child = NoChild /\ request = <<>> /\ pipe = <<>> /\ said = <<>> /\ heard = <<>>
    BY DEF Init
  <2>2. <<>> \in Seq(PieceType) /\ <<>> \in Seq(Texts) /\ Len(<<>>) <= PipeSize
    BY InstallerAssumption
  <2>3. child.pc = "none"
    BY <2>1 DEF NoChild
  <2>4. QED
    BY <2>1, <2>2, <2>3, NoChildIsTyped DEF ProcessIsTyped
<1>5. QED
  BY <1>2, <1>3, <1>4, SmallInit, OpenInit, BinaryInit DEF Installing

LEMMA InstallingStep ==
  ASSUME Installing, [Next]_vars
  PROVE  Installing'
BY SmallStep, OpenStep, NothingLostStep, BinaryStep, StorageStep, ProcessStep, InUseStep
   DEF Installing

-----------------------------------------------------------------------------
(* The promise                                                             *)

Contents == [v \in VolumeNames |-> <<st.fs[v], st.files[v]>>]

LEMMA SameContents ==
  ASSUME Keeps(st, st')
  PROVE  Contents' = Contents
BY DEF Keeps, Contents

\* What a step is in the abstract specification.
LEMMA StepIsChange ==
  ASSUME phase \in Waiting \cup {"firmware", "script"},
         phase' \in Waiting \cup {"firmware", "script"},
         UNCHANGED <<result, firmware>>
  PROVE  Outcome!Change
BY DEF Outcome!Change, Stage, Waiting

LEMMA StepIsMaintain ==
  ASSUME phase \in {"prompt", "closing"}, phase' \in {"prompt", "closing"},
         UNCHANGED <<result, firmware>>
  PROVE  Outcome!Maintain
BY DEF Outcome!Maintain, Stage

LEMMA StepLooksOn ==
  ASSUME phase \in {"opening", "opened", "verified", "no binary"},
         Contents' = Contents, UNCHANGED firmware,
         \/ phase' \in {"opening", "opened", "verified", "no binary"} /\ result' = result
         \/ phase' \in {"reading", "script"} /\ result' = result
         \/ phase' = "closing" /\ result' \in {INSTALL_ERROR, INSTALL_CORRUPT}
  PROVE  [Outcome!OutcomeNext]_(Outcome!outcomeVars)
<1>1. Stage = "looking"
  BY DEF Stage
<1>2. CASE phase' \in {"opening", "opened", "verified", "no binary"} /\ result' = result
  BY <1>1, <1>2 DEF Outcome!outcomeVars, Stage, Contents
<1>3. CASE phase' \in {"reading", "script"} /\ result' = result
  <2>1. Stage' = "installing"
    BY <1>3 DEF Stage
  <2>2. Outcome!Accept
    BY <1>1, <1>3, <2>1 DEF Outcome!Accept, Contents
  <2>3. QED
    BY <2>2 DEF Outcome!OutcomeNext
<1>4. CASE phase' = "closing" /\ result' \in {INSTALL_ERROR, INSTALL_CORRUPT}
  <2>1. Stage' = "idle"
    BY <1>4 DEF Stage
  <2>2. Outcome!Refuse
    BY <1>1, <1>4, <2>1
       DEF Outcome!Refuse, Contents, INSTALL_ERROR, INSTALL_CORRUPT,
           Outcome!INSTALL_ERROR, Outcome!INSTALL_CORRUPT
  <2>3. QED
    BY <2>2 DEF Outcome!OutcomeNext
<1>5. QED
  BY <1>2, <1>3, <1>4

LEMMA StepFinishes ==
  ASSUME phase \in Waiting \cup {"firmware", "script"}, phase' = "closing",
         result' \in {INSTALL_SUCCESS, INSTALL_ERROR},
         \/ firmware' = firmware
         \/ firmware = "NULL" /\ result' = INSTALL_SUCCESS /\ Contents' = Contents
  PROVE  Outcome!Finish \/ Outcome!PutBy
<1>1. Stage = "installing" /\ Stage' = "idle"
  BY DEF Stage, Waiting
<1>2. CASE firmware' = firmware
  BY <1>1, <1>2 DEF Outcome!Finish, INSTALL_ERROR, INSTALL_SUCCESS,
     Outcome!INSTALL_ERROR, Outcome!INSTALL_SUCCESS
<1>3. CASE firmware' # firmware
  BY <1>1, <1>3 DEF Outcome!PutBy, INSTALL_ERROR, INSTALL_SUCCESS, Contents,
     Outcome!INSTALL_SUCCESS
<1>4. QED
  BY <1>2, <1>3

LEMMA OutcomeStep ==
  ASSUME Installing, [Next]_vars
  PROVE  [Outcome!OutcomeNext]_(Outcome!outcomeVars)
<1>1. /\ st \in Storage /\ phase \in Phases
      /\ StorageIsTyped /\ ProcessIsTyped /\ SmallTypes /\ PackageIsOpen /\ BinaryIsHeard
  BY DEF Installing, StorageIsTyped, PackageIsOpen
<1>2. CASE User
  <2>1. phase = "prompt" /\ UNCHANGED <<result, firmware>>
    BY <1>2 DEF User, ChoosePackage, DeclinePackage, FormatRoot, MountOrUnmount, ConvertRoot,
                Operation, recovery
  <2>2. CASE phase' = phase
    <3>1. Outcome!Maintain
      BY <2>1, <2>2, StepIsMaintain
    <3>2. QED
      BY <3>1 DEF Outcome!OutcomeNext
  <2>3. CASE phase' # phase
    <3>1. phase' = "opening" /\ Contents' = Contents
      BY <1>1, <1>2, <2>3, UserFollows, SameContents
    <3>2. Outcome!Look
      BY <2>1, <3>1 DEF Outcome!Look, Stage, Contents
    <3>3. QED
      BY <3>2 DEF Outcome!OutcomeNext
  <2>4. QED
    BY <2>2, <2>3
<1>3. CASE OpenPackage
  <2>1. Contents' = Contents
    BY <1>1, <1>3, OpeningKeeps DEF Contents
  <2>2. /\ phase = "opening" /\ UNCHANGED firmware
        /\ \/ phase' = "closing" /\ result' = INSTALL_CORRUPT
           \/ phase' = "opened" /\ result' = result
    BY <1>3 DEF OpenPackage, Return, Goto
  <2>3. QED
    BY <2>1, <2>2, StepLooksOn
<1>4. CASE VerifyPackage
  <2>1. Contents' = Contents
    BY <1>1, <1>4, LookingKeeps, SameContents
  <2>2. /\ phase = "opened" /\ UNCHANGED firmware
        /\ \/ phase' = "closing" /\ result' = INSTALL_CORRUPT
           \/ phase' = "verified" /\ result' = result
    BY <1>4 DEF VerifyPackage, Return, Goto
  <2>3. QED
    BY <2>1, <2>2, StepLooksOn
<1>5. CASE StartBinary
  <2>1. Contents' = Contents
    BY <1>1, <1>5, LookingKeeps, SameContents
  <2>2. /\ phase = "verified" /\ UNCHANGED firmware
        /\ \/ phase' = "closing" /\ result' = INSTALL_ERROR
           \/ phase' \in {"no binary", "reading"} /\ result' = result
    BY <1>5 DEF StartBinary, Return, Goto
  <2>3. QED
    BY <2>1, <2>2, StepLooksOn
<1>6. CASE StartScript
  <2>1. Contents' = Contents
    BY <1>1, <1>6, LookingKeeps, SameContents
  <2>2. /\ phase = "no binary" /\ UNCHANGED firmware
        /\ \/ phase' = "closing" /\ result' \in {INSTALL_ERROR, INSTALL_CORRUPT}
           \/ phase' = "script" /\ result' = result
    BY <1>6 DEF StartScript, Return, Goto
  <2>3. QED
    BY <2>1, <2>2, StepLooksOn
<1>7. CASE ReadPiece \/ ReadEnd
  <2>1. /\ phase \in Waiting /\ phase' \in Waiting /\ UNCHANGED <<result, firmware>>
    BY <1>7 DEF ReadPiece, ReadEnd, Goto, Waiting
  <2>2. Outcome!Change
    BY <2>1, StepIsChange
  <2>3. QED
    BY <2>2 DEF Outcome!OutcomeNext
<1>8. CASE WaitForBinary
  <2>1. phase = "waiting" /\ UNCHANGED firmware
    BY <1>8 DEF WaitForBinary
  <2>2. \/ phase' = "firmware" /\ result' = result
        \/ phase' = "closing" /\ result' \in {INSTALL_SUCCESS, INSTALL_ERROR}
    BY <1>8 DEF WaitForBinary, Return, Goto
  <2>3. Outcome!Change \/ Outcome!Finish \/ Outcome!PutBy
    BY <2>1, <2>2, StepIsChange, StepFinishes DEF Waiting
  <2>4. QED
    BY <2>3 DEF Outcome!OutcomeNext
<1>9. CASE KeepFirmware
  <2>1. Contents' = Contents
    BY <1>1, <1>9, LookingKeeps, SameContents
  <2>2. phase = "firmware" /\ phase' = "closing"
    BY <1>9 DEF KeepFirmware, Return
  <2>3. \/ result' = INSTALL_ERROR /\ firmware' = firmware
        \/ result' = INSTALL_SUCCESS /\ firmware = "NULL"
    BY <1>9 DEF KeepFirmware, Return
  <2>4. Outcome!Finish \/ Outcome!PutBy
    BY <2>1, <2>2, <2>3, StepFinishes
  <2>5. QED
    BY <2>4 DEF Outcome!OutcomeNext
<1>10. CASE RunCommand
  <2> DEFINE it == package.commands[command]
             c == Context(st, zip, package_root, firmware)
  <2>1. PICK o \in execCommand(c, it) :
          /\ st' = o.s.s /\ firmware' = o.s.firmware
          /\ \/ o.ret = 0 /\ UNCHANGED <<phase, result>>
             \/ o.ret # 0 /\ phase' = "closing" /\ result' = INSTALL_ERROR
    BY <1>10 DEF RunCommand, Return
  <2>2. phase = "script" /\ command <= Len(package.commands)
    BY <1>10 DEF RunCommand
  <2>3. it.cmd \in Commands
    <3>1. parses(package.commands) /\ command \in Nat \ {0}
      BY <1>1, <2>2 DEF PackageIsOpen, SmallTypes
    <3>2. package.commands \in Seq({k \in CommandType : WellFormed(k)})
      BY <1>1 DEF PackageIsOpen, Packages, PackageType
    <3>3. command \in DOMAIN package.commands
      BY <2>2, <3>1, <3>2
    <3>4. QED
      BY <3>1, <3>3 DEF parses
  <2>4. c.firmware = firmware /\ {"s", "firmware"} \subseteq DOMAIN c /\ c.s = st
    BY DEF Context
  <2> HIDE DEF c, it
  <2>5. ImageStays(c, execCommand(c, it))
    BY <1>1, <2>3, <2>4, CommandKeepsImage
  <2>6. firmware' # firmware => firmware = "NULL" /\ o.ret = 0 /\ Contents' = Contents
    BY <2>1, <2>4, <2>5 DEF ImageStays, Contents
  <2>7. CASE firmware' = firmware
    <3>1. Outcome!Change \/ Outcome!Finish \/ Outcome!PutBy
      BY <2>1, <2>2, <2>7, StepIsChange, StepFinishes
    <3>2. QED
      BY <3>1 DEF Outcome!OutcomeNext
  <2>8. CASE firmware' # firmware
    <3>1. /\ firmware = "NULL" /\ Contents' = Contents /\ UNCHANGED <<phase, result>>
      BY <2>1, <2>6, <2>8
    <3>2. Stage = "installing" /\ Stage' = "installing"
      BY <2>2, <3>1 DEF Stage
    <3>3. Outcome!PutBy
      BY <2>8, <3>1, <3>2 DEF Outcome!PutBy, Contents
    <3>4. QED
      BY <3>3 DEF Outcome!OutcomeNext
  <2>9. QED
    BY <2>7, <2>8
<1>11. CASE EndScript
  <2>1. /\ phase = "script" /\ phase' = "closing" /\ result' = INSTALL_SUCCESS
        /\ UNCHANGED firmware
    BY <1>11 DEF EndScript, Return
  <2>2. Outcome!Finish \/ Outcome!PutBy
    BY <2>1, StepFinishes
  <2>3. QED
    BY <2>2 DEF Outcome!OutcomeNext
<1>12. CASE ClosePackage
  <2>1. phase = "closing" /\ phase' = "prompt" /\ UNCHANGED <<result, firmware>>
    BY <1>12 DEF ClosePackage
  <2>2. Outcome!Maintain
    BY <2>1, StepIsMaintain
  <2>3. QED
    BY <2>2 DEF Outcome!OutcomeNext
<1>13. CASE Child
  <2>1. UNCHANGED <<phase, result, firmware>>
    BY <1>13 DEF Child, UpdaterStart, UpdaterStep, ChildWrites, ChildExits, ForeignStep,
                 ChildUnchanged, recovery
  <2>2. child.pc \in Running
    BY <1>1, <1>13 DEF Child, UpdaterStart, UpdaterStep, ChildWrites, ChildExits, ForeignStep,
                 BinaryIsHeard, Running
  <2>3. phase \in Waiting
    BY <1>1, <2>2 DEF BinaryIsHeard
  <2>4. Outcome!Change
    BY <2>1, <2>3, StepIsChange
  <2>5. QED
    BY <2>4 DEF Outcome!OutcomeNext
<1>14. CASE BackgroundEnds \/ UNCHANGED vars
  <2>1. UNCHANGED <<phase, result, firmware, st>>
    BY <1>14 DEF BackgroundEnds, ChildUnchanged, recovery, vars
  <2>2. QED
    BY <2>1 DEF Outcome!outcomeVars, Stage
<1>15. QED
  BY <1>2, <1>3, <1>4, <1>5, <1>6, <1>7, <1>8, <1>9, <1>10, <1>11, <1>12, <1>13, <1>14
     DEF Next, Recovery

-----------------------------------------------------------------------------
(* Theorems                                                                *)

\* The invariant holds, however recovery, the update binary, what it leaves behind
\* and the user take turns.
THEOREM InstallingAlways == Spec => []Installing
<1>1. QED
  BY InstallingInit, InstallingStep, PTL DEF Spec

\* Nothing that is not signed is installed while the check of signatures is
\* enabled, whatever the package: verify_jar_signature accepts only a package whose
\* every file has its line in the manifest.
THEOREM OnlySigned == Spec => []OnlySignedInstalls
<1>1. Installing => OnlySignedInstalls
  BY DEF Installing, PackageIsOpen, Verified, OnlySignedInstalls
<1>2. QED
  BY <1>1, InstallingAlways, PTL

\* INSTALL_SUCCESS of a package with an update binary means what it says.
THEOREM SuccessIsDone == Spec => []SuccessMeansDone
<1>1. Installing => SuccessMeansDone
  BY DEF Installing, BinaryIsHeard
<1>2. QED
  BY <1>1, InstallingAlways, PTL

\* Under every name the entry of it that is the first in the package is found, and
\* no entry under a name that none has; and the entries of a directory are together.
THEOREM LookupIsRight == Spec => []LookupFindsEntry
<1>1. ASSUME Installing
      PROVE  LookupFindsEntry
  <2>1. SUFFICES ASSUME phase = "opened"
                 PROVE  /\ \A name \in Names :
                             LET found == mzFindZipEntry(zip, name)
                                 named == {i \in DOMAIN package.cd : package.cd[i].name = name}
                             IN  IF named = {} THEN found = NoEntry
                                 ELSE /\ found.name = name /\ found.at \in named
                                      /\ \A i \in named : found.at <= i
                                      /\ found.data = package.cd[found.at].data
                        /\ {e.at : e \in ToSet(Matching(zip, "system"))}
                             = {i \in DOMAIN package.cd : package.cd[i].name \in Under("system")}
    BY DEF LookupFindsEntry
  <2> DEFINE cd == package.cd
  <2>2. package \in Packages /\ zip = parseZipArchive(cd)
    BY <1>1, <2>1 DEF Installing, PackageIsOpen
  <2>3. cd \in Seq(EntryType) /\ DOMAIN cd = 1..Len(cd)
    BY <2>2 DEF Packages, PackageType
  <2>4. ArchiveOf(zip, cd)
    BY <2>2, <2>3, ParsedIsArchive
  <2> HIDE DEF cd
  <2>5. ASSUME NEW name \in Names
        PROVE  LET found == mzFindZipEntry(zip, name)
                   named == {i \in DOMAIN cd : cd[i].name = name}
               IN  IF named = {} THEN found = NoEntry
                   ELSE /\ found.name = name /\ found.at \in named
                        /\ \A i \in named : found.at <= i
                        /\ found.data = cd[found.at].data
    <3> DEFINE found == mzFindZipEntry(zip, name)
    <3>1. FoundOf(found, cd, name)
      BY <2>3, <2>4, LookupFinds
    <3> HIDE DEF found
    <3>2. CASE \E m \in 1..Len(cd) : cd[m].name = name
      <4>1. /\ found.at \in 1..Len(cd) /\ found = Placed(cd, found.at)
            /\ found.name = name /\ cd[found.at].name = name
            /\ \A i \in {m \in 1..Len(cd) : cd[m].name = name} : found.at <= i
        BY <3>1, <3>2 DEF FoundOf
      <4>2. found.data = cd[found.at].data
        BY <2>3, <4>1, PlacedIsEntry
      <4>3. QED
        BY <2>3, <4>1, <4>2 DEF found
    <3>3. CASE ~ \E m \in 1..Len(cd) : cd[m].name = name
      BY <2>3, <3>1, <3>3 DEF FoundOf, found
    <3>4. QED
      BY <3>2, <3>3
  <2>6. QED
    BY <2>3, <2>4, <2>5, MatchingIsAll DEF cd
<1>2. QED
  BY <1>1, InstallingAlways, PTL

\* A firmware image is kept once, and the one that was asked for first.
THEOREM FirstAskedIsKept == Spec => FirmwareIsFirstAsked
<1>1. ASSUME Installing, [Next]_vars, firmware' # firmware
      PROVE  /\ firmware = "NULL"
             /\ \/ phase = "script"
                \/ /\ phase = "firmware" /\ child.pc \in {"gone", "never"} /\ child.code = 0
                   /\ heard = said /\ firmware' = FirstAsked
  <2>1. KeepFirmware \/ RunCommand
    <3>1. CASE User
      BY <1>1, <3>1 DEF User, ChoosePackage, DeclinePackage, FormatRoot, MountOrUnmount,
                        ConvertRoot, Operation, recovery
    <3>2. CASE Recovery
      BY <1>1, <3>2 DEF Recovery, OpenPackage, VerifyPackage, StartBinary, ReadPiece, ReadEnd,
                        WaitForBinary, StartScript, EndScript, ClosePackage
    <3>3. CASE Child \/ BackgroundEnds
      BY <1>1, <3>3 DEF Child, BackgroundEnds, UpdaterStart, UpdaterStep, ChildWrites,
                        ChildExits, ForeignStep, ChildUnchanged, recovery
    <3>4. CASE UNCHANGED vars
      BY <1>1, <3>4 DEF vars, recovery
    <3>5. QED
      BY <1>1, <3>1, <3>2, <3>3, <3>4 DEF Next
  <2>2. CASE KeepFirmware
    <3>1. phase = "firmware" /\ firmware = "NULL" /\ firmware' = request[2]
      BY <1>1, <2>2 DEF KeepFirmware
    <3>2. /\ child.pc \in {"gone", "never"} /\ child.code = 0 /\ request # <<>>
          /\ pipe = <<>> /\ KeptOf(heard, request)
      BY <1>1, <3>1 DEF Installing, BinaryIsHeard
    <3>3. PICK S : heard \in Seq(S) /\ said = heard \o pipe
      BY <1>1 DEF Installing, NothingIsLost
    <3>4. heard = said
      BY <3>2, <3>3
    <3>5. request[2] = FirstAsked
      BY <3>2, <3>3, <3>4, KeptIsFirst
    <3>6. QED
      BY <3>1, <3>2, <3>4, <3>5
  <2>3. CASE RunCommand
    <3> DEFINE it == package.commands[command]
               c == Context(st, zip, package_root, firmware)
    <3>1. phase = "script" /\ command <= Len(package.commands)
      BY <2>3 DEF RunCommand
    <3>2. PICK o \in execCommand(c, it) : firmware' = o.s.firmware
      BY <2>3 DEF RunCommand
    <3>3. c.firmware = firmware /\ {"s", "firmware"} \subseteq DOMAIN c /\ c.s \in Storage
      BY <1>1 DEF Context, Installing, StorageIsTyped
    <3>4. it.cmd \in Commands
      <4>1. command \in 1..Len(package.commands) /\ parses(package.commands)
        BY <1>1, <3>1 DEF Installing, PackageIsOpen, SmallTypes
      <4>2. package.commands \in Seq({k \in CommandType : WellFormed(k)})
        BY <1>1 DEF Installing, PackageIsOpen, Packages, PackageType
      <4>3. command \in DOMAIN package.commands
        BY <4>1, <4>2
      <4>4. QED
        BY <4>1, <4>3 DEF parses
    <3>5. ImageStays(c, execCommand(c, it))
      BY <3>3, <3>4, CommandKeepsImage
    <3>6. firmware = "NULL"
      BY <1>1, <3>2, <3>3, <3>5 DEF ImageStays
    <3>7. QED
      BY <3>1, <3>6
  <2>4. QED
    BY <2>1, <2>2, <2>3
<1>2. Installing /\ [Next]_vars =>
        [firmware' # firmware =>
           /\ firmware = "NULL"
           /\ \/ phase = "script"
              \/ /\ phase = "firmware" /\ child.pc \in {"gone", "never"} /\ child.code = 0
                 /\ heard = said /\ firmware' = FirstAsked]_vars
  BY <1>1
<1>3. QED
  BY <1>2, InstallingAlways, PTL DEF Spec, FirmwareIsFirstAsked

\* Every variable keeps its type, whatever the package, its scripts and its program
\* do; in particular every operation of the roots and of both interpreters leaves a
\* storage, with no more failures than there may be.
THEOREM Typed == Spec => []TypeOK
<1>1. ASSUME Installing PROVE TypeOK
  <2>1. /\ st \in Storage /\ st.faults <= MaxFaults
        /\ package \in Packages /\ phase \in Phases
    BY <1>1 DEF Installing, StorageIsTyped, PackageIsOpen
  <2>2. /\ signature_check \in BOOLEAN /\ package_root \in BOOLEAN /\ inherited \in BOOLEAN
        /\ command \in Nat /\ ops \in Nat
        /\ result \in {INSTALL_SUCCESS, INSTALL_ERROR, INSTALL_CORRUPT}
    BY <1>1 DEF Installing, SmallTypes
  <2>3. /\ child \in ChildType /\ request \in Seq(Texts)
        /\ pipe \in Seq(PieceType) /\ said \in Seq(PieceType) /\ heard \in Seq(PieceType)
        /\ Len(pipe) <= PipeSize
    BY <1>1 DEF Installing, ProcessIsTyped
  <2>4. child \in [pc : {"none", "never", "started", "running", "leaving", "hanging", "gone"},
                   next : Nat, out : Seq(PieceType), open : BOOLEAN, code : Nat]
    BY <2>3 DEF ChildType
  <2>5. QED
    BY <2>1, <2>2, <2>3, <2>4 DEF TypeOK, Phases
<1>2. QED
  BY <1>1, InstallingAlways, PTL

\* Mounts are in place when a volume is mounted nowhere but at the mount point of its
\* root, and nothing else there.
MountsInPlace == InPlace(st)

\* Mounts stay in place, unless a statement of the updater's script mounts a volume
\* somewhere else: recovery, the user and amend scripts mount by roots, and
\* ensure_root_path_mounted and get_root_info name one volume for a mount point.
THEOREM MountsStay ==
  Spec /\ MountsInPlace /\ [][UpdaterStep => MountsInPlace']_vars => []MountsInPlace
<1>1. ASSUME Installing, MountsInPlace, [Next]_vars, [UpdaterStep => MountsInPlace']_vars
      PROVE  MountsInPlace'
  <2>1. st \in Storage
    BY <1>1 DEF Installing, StorageIsTyped
  <2>2. \/ Leads(st, st') /\ (Follows(st, st') \/ UpdaterStep)
        \/ OpenPackage \/ ClosePackage
    BY <1>1, StepFollows DEF Installing
  <2>3. CASE Follows(st, st')
    BY <1>1, <2>3 DEF Follows, MountsInPlace
  <2>4. CASE UpdaterStep
    <3>1. CASE UNCHANGED vars
      BY <1>1, <3>1 DEF vars, MountsInPlace
    <3>2. CASE ~UNCHANGED vars
      BY <1>1, <2>4, <3>2
    <3>3. QED
      BY <3>1, <3>2
  <2>5. CASE OpenPackage \/ ClosePackage
    BY <1>1, <2>1, <2>5, OpeningKeeps, ClosingKeeps DEF MountsInPlace
  <2>6. QED
    BY <2>2, <2>3, <2>4, <2>5
<1>2. QED
  BY <1>1, InstallingAlways, PTL DEF Spec

\* What the user does to a root leaves the volumes of the other roots alone, files
\* and file systems: format_root_device and the conversions of extracommands.c find
\* the volume of the root and no other, however often they mount, unmount and fail
\* on the way.  format_non_mtd_device empties what is mounted at the mount point, so
\* that mounts must be in place.
THEOREM OthersAreLeft ==
  Spec /\ MountsInPlace /\ [][UpdaterStep => MountsInPlace']_vars => OthersLeftAlone
<1>1. ASSUME Installing, MountsInPlace, [Next]_vars,
             last' # last, phase = "prompt"
      PROVE  \A v \in VolumeNames \ {VolumeOf(st, last'.root)} :
               st'.files[v] = st.files[v] /\ st'.fs[v] = st.fs[v]
  <2>1. st \in Storage
    BY <1>1 DEF Installing, StorageIsTyped
  <2>2. User
    <3>1. ~Recovery
      BY <1>1 DEF Recovery, OpenPackage, VerifyPackage, StartBinary, ReadPiece, ReadEnd,
                  WaitForBinary, KeepFirmware, StartScript, RunCommand, EndScript, ClosePackage
    <3>2. ~Child /\ ~BackgroundEnds /\ ~UNCHANGED vars
      BY <1>1 DEF Child, BackgroundEnds, UpdaterStart, UpdaterStep, ChildWrites,
                  ChildExits, ForeignStep, ChildUnchanged, vars
    <3>3. QED
      BY <1>1, <3>1, <3>2 DEF Next
  <2>3. Spares(st, st', VolumeOf(st, last'.root))
    BY <2>1, <2>2, UserSpares
  <2>4. QED
    BY <1>1, <2>3 DEF Spares, MountsInPlace
<1>2. Installing /\ MountsInPlace /\ [Next]_vars =>
        [last' # last /\ phase = "prompt" /\ phase' = "prompt" =>
           \A v \in VolumeNames \ {VolumeOf(st, last'.root)} :
             st'.files[v] = st.files[v] /\ st'.fs[v] = st.fs[v]]_vars
  BY <1>1
<1>3. QED
  BY <1>2, InstallingAlways, MountsStay, PTL DEF Spec, OthersLeftAlone

\* The package root is registered exactly while a script runs, and the package is
\* then open.
THEOREM RootIsOpen == Spec => []PackageRootIsOpen
<1>1. Installing => PackageRootIsOpen
  BY DEF Installing, CardIsInUse, PackageRootIsOpen, Verified
<1>2. QED
  BY <1>1, InstallingAlways, PTL

\* Installing keeps the promise of InstallOutcome: a package that is refused has
\* changed nothing, none is refused as corrupt when it has, and a firmware image is
\* put by once.
THEOREM ImplementsOutcome == Spec => KeepsPromise
<1>1. Init => Outcome!OutcomeInit
  BY DEF Init, Outcome!OutcomeInit, Stage, INSTALL_SUCCESS, Outcome!INSTALL_SUCCESS
<1>2. QED
  BY <1>1, OutcomeStep, InstallingAlways, PTL DEF Spec, KeepsPromise, Outcome!OutcomeSpec

=============================================================================
