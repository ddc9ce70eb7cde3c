---------------------------- MODULE BundleReader ----------------------------
(***************************************************************************)
(* From a raw ZIP to the files a bundle consists of (bundle/reader.go), and *)
(* the three checks of VerifyBundle that depend on it.                     *)
(*                                                                         *)
(*   pack      a producer packs files under the root directory;            *)
(*   transit   the archive is repacked: entries lost, reordered, repeated, *)
(*             added, altered, their names spelled differently;            *)
(*   resolve   resolveRoot looks at each entry for the root directory;     *)
(*   list      Open lists the entries under it;                            *)
(*   check     the checks read by name;                                    *)
(*   done      there is a result code.                                     *)
(*                                                                         *)
(* BundleVerify takes a ZIP for a function from names to bytes.  Here it is *)
(* a sequence of entries whose names are spelled in many ways, resolveRoot *)
(* cleans them, Open and ReadEntry do not.                                 *)
(***************************************************************************)
EXTENDS Naturals, FiniteSets, Sequences, SequencesExt, ZipData

CONSTANTS
  Bundle,         \* the bundle id, and the root directory as packed
  ArtifactPaths,  \* paths of files under artifacts/ or derived/
  Contents,       \* file contents
  Segments,       \* what a repacking tool may put into a name
  MaxFaults       \* bound: damages one archive suffers

\* A name is the sequence of its segments between slashes: <<"b", "">> is "b/",
\* <<"", "b">> is "/b".
EmptySegment == ""
ArtifactDirs == {"artifacts", "derived"}
ManifestPath == <<"manifest.json">>

ASSUME ReaderAssumption ==
  /\ Bundle \notin {EmptySegment, ".", ".."}
  /\ \A p \in ArtifactPaths :
       /\ p \in Seq(STRING)
       /\ Len(p) > 1
       /\ p[1] \in ArtifactDirs
       /\ \A i \in 1..Len(p) : p[i] \notin {EmptySegment, ".", ".."}
  /\ MaxFaults \in Nat

VARIABLES
  declared,  \* history: the artifacts of the sealed manifest, path to content
  archive,   \* the entries of the delivered ZIP, in order
  faults,    \* damages done so far
  phase,     \* where the run is (above)
  k,         \* entries the loop has seen
  roots,     \* resolveRoot's set of first segments
  root,      \* Reader.root
  entries,   \* Reader.entries
  code       \* the result code

producerVars == <<declared>>
fileVars     == <<archive, faults>>
readerVars   == <<k, roots, root, entries>>
vars         == <<declared, archive, faults, phase, k, roots, root, entries, code>>

Entry(name, data) == [name |-> name, data |-> data]
Directory         == Data("directory", NoString)

Init ==
  /\ declared = <<>>
  /\ archive  = <<>>
  /\ faults   = 0
  /\ phase    = "pack"
  /\ k        = 0
  /\ roots    = {}
  /\ root     = EmptySegment
  /\ entries  = <<>>
  /\ code     = "none"

-----------------------------------------------------------------------------
\* The producer packs artifacts, in any order, and the manifest that lists them.

PackArtifact(p, c) ==
  /\ phase = "pack"
  /\ p \notin DOMAIN declared
  /\ declared' = [q \in DOMAIN declared \cup {p} |-> IF q = p THEN c ELSE declared[q]]
  /\ archive'  = Append(archive, Entry(<<Bundle>> \o p, File(c)))
  /\ UNCHANGED <<faults, phase, readerVars, code>>

Ship ==
  /\ phase = "pack"
  /\ archive' = Append(archive, Entry(<<Bundle>> \o ManifestPath, Data("manifest", declared)))
  /\ phase'   = "transit"
  /\ UNCHANGED <<producerVars, faults, readerVars, code>>

-----------------------------------------------------------------------------
\* Repacking in transit, which is not code.

Fault ==
  /\ phase = "transit"
  /\ faults < MaxFaults
  /\ faults' = faults + 1
  /\ UNCHANGED <<producerVars, phase, readerVars, code>>

LoseEntry(j) == Fault /\ archive' = RemoveAt(archive, j)

SwapWithNext(j) ==
  /\ Fault
  /\ j < Len(archive)
  /\ archive' = [archive EXCEPT ![j] = archive[j + 1], ![j + 1] = archive[j]]

AlterEntry(j) ==
  /\ Fault
  /\ \E d \in {Garbled, Unreadable} \cup {File(c) : c \in Contents} :
       archive' = [archive EXCEPT ![j].data = d]

\* An update of the archive adds a second entry of one name.
RepeatName(j) ==
  /\ Fault
  /\ \E c \in Contents : archive' = Append(archive, Entry(archive[j].name, File(c)))

\* "b//x", "./b/x", "b/../x", "/b/x", "x/b/x", "b/x/"...
RespellName(j) ==
  /\ Fault
  /\ \E at \in 1..(Len(archive[j].name) + 1) : \E s \in Segments :
       archive' = [archive EXCEPT ![j].name = InsertAt(@, at, s)]

AddFile(p) ==
  /\ Fault
  /\ \E c \in Contents : archive' = Append(archive, Entry(<<Bundle>> \o p, File(c)))

AddDirectory(p) ==
  Fault /\ archive' = <<Entry(<<Bundle>> \o Front(p) \o <<EmptySegment>>, Directory)>> \o archive

Damage ==
  \/ \E j \in 1..Len(archive) :
       LoseEntry(j) \/ SwapWithNext(j) \/ AlterEntry(j) \/ RepeatName(j) \/ RespellName(j)
  \/ \E p \in ArtifactPaths : AddFile(p) \/ AddDirectory(p)

-----------------------------------------------------------------------------
\* path.Clean: empty and "." segments go, ".." takes the one before it along.
\* The place <<>> is "." or "/".

CleanStep(rooted, clean, segment) ==
  IF segment \in {EmptySegment, "."} THEN clean
  ELSE IF segment # ".." THEN Append(clean, segment)
  ELSE IF clean # <<>> /\ Last(clean) # ".." THEN Front(clean)
  ELSE IF rooted THEN clean
  ELSE Append(clean, "..")

IsRooted(name) == name[1] = EmptySegment /\ Len(name) > 1
Clean(name) == FoldLeft(LAMBDA clean, s : CleanStep(IsRooted(name), clean, s), <<>>, name)

-----------------------------------------------------------------------------
\* Reader.

\* A return with the result set; before it, one without.
ReturnOnly(result) == phase' = "done" /\ UNCHANGED code
Fail(result)       == phase' = "done" /\ code' = result

StartReading ==
  /\ phase  = "transit"
  /\ phase' = "resolve"
  /\ UNCHANGED <<producerVars, fileVars, readerVars, code>>

\* The first segment that counts for a name; before it, of the name as spelled.
RootOfSpelled(name) == name[1]
RootOf(name)        == Clean(name)[1]

\* The body of the loop of resolveRoot.
ResolveEntry ==
  /\ phase = "resolve"
  /\ k < Len(archive)
  /\ LET name == archive[k + 1].name IN
       \/ /\ Clean(name) = <<>>
          /\ k' = k + 1
          /\ UNCHANGED <<roots, phase, code>>
       \/ /\ Clean(name) # <<>>
          /\ IsRooted(name) \/ RootOf(name) = ".."
          /\ Fail("MANIFEST_MISSING")
          /\ UNCHANGED <<k, roots>>
       \/ /\ Clean(name) # <<>>
          /\ ~IsRooted(name)
          /\ RootOf(name) # ".."
          /\ roots' = roots \cup {RootOf(name)}
          /\ k'     = k + 1
          /\ UNCHANGED <<phase, code>>
  /\ UNCHANGED <<producerVars, fileVars, root, entries>>

RootsFound ==
  /\ phase = "resolve"
  /\ k = Len(archive)
  /\ \/ /\ Cardinality(roots) = 1
        /\ root' \in roots
        /\ phase' = "list"
        /\ k' = 0
        /\ UNCHANGED code
     \/ /\ Cardinality(roots) # 1
        /\ Fail("MANIFEST_MISSING")
        /\ UNCHANGED <<k, root>>
  /\ UNCHANGED <<producerVars, fileVars, roots, entries>>

\* The name of an entry relative to the root; before it, made clean.
CleanRelative(name) == Tail(Clean(name))
Relative(name)      == Tail(name)

\* Names that do not begin with the root as it is spelled are passed over, and
\* so are directories.
IsListed(name) == Len(name) > 1 /\ name[1] = root /\ Last(name) # EmptySegment

\* The body of the loop of Open.
ListEntry ==
  /\ phase = "list"
  /\ k < Len(archive)
  /\ LET name == archive[k + 1].name IN
       entries' = IF IsListed(name) THEN Append(entries, Relative(name)) ELSE entries
  /\ k' = k + 1
  /\ UNCHANGED <<producerVars, fileVars, phase, roots, root, code>>

Opened ==
  /\ phase = "list"
  /\ k = Len(archive)
  /\ phase' = "check"
  /\ UNCHANGED <<producerVars, fileVars, readerVars, code>>

HasEntry(path) == path \in Range(entries)

Matches(path) == {j \in 1..Len(archive) : archive[j].name = <<root>> \o path}

\* ReadEntry takes the first entry of the name; an absent one cannot be read.
ReadEntry(path) ==
  IF Matches(path) = {} THEN Unreadable
  ELSE archive[CHOOSE j \in Matches(path) : \A i \in Matches(path) : j <= i].data

-----------------------------------------------------------------------------
\* The checks of VerifyBundle, as far as they depend on the reader.  The first
\* five let the sealed manifest under its own root through and no other, which
\* is what BundleVerify shows.

manifest_loaded ==
  /\ HasEntry(ManifestPath)
  /\ ReadEntry(ManifestPath) = Data("manifest", declared)
  /\ root = Bundle

artifacts_present == \A p \in DOMAIN declared : HasEntry(p)

\* Before it, a check for which being there is enough.
artifact_hashes_present == \A p \in DOMAIN declared : ReadEntry(p) # Unreadable
artifact_hashes ==
  \A p \in DOMAIN declared :
    ReadEntry(p) # Unreadable /\ SHA256(ReadEntry(p)) = SHA256(File(declared[p]))

\* Before it, a check that takes all files for artifacts.
no_files_but_artifacts == \A p \in Range(entries) : p \in DOMAIN declared
no_undeclared_files ==
  \A p \in Range(entries) : (p[1] \in ArtifactDirs /\ Len(p) > 1) => p \in DOMAIN declared

\* The result of the first check that fails.
RunChecks ==
  /\ phase = "check"
  /\ \/ ~manifest_loaded /\ Fail("MANIFEST_MISSING")
     \/ manifest_loaded /\ ~artifacts_present /\ Fail("FILE_MISSING")
     \/ manifest_loaded /\ artifacts_present /\ ~artifact_hashes /\ Fail("HASH_MISMATCH")
     \/ /\ manifest_loaded /\ artifacts_present /\ artifact_hashes
        /\ ~no_undeclared_files
        /\ Fail("FILE_ADDED")
     \/ /\ manifest_loaded /\ artifacts_present /\ artifact_hashes /\ no_undeclared_files
        /\ code'  = "VALID"
        /\ phase' = "done"
  /\ UNCHANGED <<producerVars, fileVars, readerVars>>

Verify == ResolveEntry \/ RootsFound \/ ListEntry \/ Opened \/ RunChecks

Done == phase = "done" /\ UNCHANGED vars

Next ==
  \/ \E p \in ArtifactPaths, c \in Contents : PackArtifact(p, c)
  \/ Ship
  \/ Damage
  \/ StartReading
  \/ Verify
  \/ Done

\* A verification that has begun runs to its end on one thread.
Spec == Init /\ [][Next]_vars /\ WF_vars(Verify)

-----------------------------------------------------------------------------
\* Types.

ResultCodes == {"MANIFEST_MISSING", "FILE_MISSING", "HASH_MISMATCH", "FILE_ADDED", "VALID"}

\* Names as they were packed, added or respelled; none is empty.
Names ==
  Seq(Segments \cup {Bundle, EmptySegment, "manifest.json"}
        \cup UNION {Range(p) : p \in ArtifactPaths}) \ {<<>>}
IsEntry(e) == e = Entry(e.name, e.data) /\ e.name \in Names

\* Every variable has its type, no loop runs past the archive, and a run that is
\* done has a result.
TypeOK ==
  /\ DOMAIN declared \subseteq ArtifactPaths
  /\ \A p \in DOMAIN declared : declared[p] \in Contents
  /\ IsSeq(archive)
  /\ \A j \in 1..Len(archive) : IsEntry(archive[j])
  /\ faults \in 0..MaxFaults
  /\ phase \in {"pack", "transit", "resolve", "list", "check", "done"}
  /\ k \in 0..Len(archive)
  /\ Cardinality(roots) <= Len(archive)
  /\ root \in roots \cup {EmptySegment}
  /\ phase \in {"pack", "transit", "resolve"} => root = EmptySegment /\ entries = <<>>
  /\ phase = "list" => Len(entries) <= k
  /\ code \in IF phase = "done" THEN ResultCodes ELSE {"none"}

-----------------------------------------------------------------------------
\* Safety.  What a bundle is to whoever unpacks it: each file lands at the clean
\* form of its name.

IsFile(j) == Last(archive[j].name) # EmptySegment
UnpackedAt(path) ==
  {archive[j].data : j \in {i \in 1..Len(archive) :
     /\ IsFile(i)
     /\ ~IsRooted(archive[i].name)
     /\ Clean(archive[i].name) = <<Bundle>> \o path}}

\* Once the archive is open, everything in it, however it is spelled, unpacks
\* below the root, and nothing outside it.
RootIsCommon ==
  root # EmptySegment =>
    \A j \in 1..Len(archive) :
      LET place == Clean(archive[j].name) IN
      place # <<>> => ~IsRooted(archive[j].name) /\ place[1] = root

\* What is listed can be read: the name under which HasEntry knows a file is one
\* that ReadEntry finds, so a check that passes on the one does not fail on the
\* other for a name.
ListedIsRead == \A p \in Range(entries) : Matches(p) # {}

\* Every name is clean but for the slash of a directory, and no two are equal.
Plain(name) ==
  \/ Clean(name) = name
  \/ Clean(name) = Front(name) /\ Last(name) = EmptySegment
Orderly ==
  /\ \A j \in 1..Len(archive) : Plain(archive[j].name) /\ ~IsRooted(archive[j].name)
  /\ \A i, j \in 1..Len(archive) : archive[i].name = archive[j].name => i = j

Unpacks ==
  {Tail(Clean(archive[j].name)) : j \in {i \in 1..Len(archive) :
     IsFile(i) /\ Clean(archive[i].name) # <<>>}}
ArtifactPlaces == {p \in Unpacks : p # <<>> /\ p[1] \in ArtifactDirs /\ Len(p) > 1}

\* The artifacts that unpack are those declared, each with its content.
ArtifactsAsDeclared ==
  /\ DOMAIN declared = ArtifactPlaces
  /\ \A p \in DOMAIN declared : UnpackedAt(p) = {File(declared[p])}

\* An orderly archive that is VALID unpacks to the declared artifacts and no
\* others: the three checks see what whoever unpacks it gets.  In any archive, an
\* undeclared file gets to artifacts/ or derived/ under a name that is not clean
\* only, which Open lists as a file of some other directory.
UnpacksAsDeclared ==
  code = "VALID" =>
    /\ Orderly => ArtifactsAsDeclared
    /\ \A j \in 1..Len(archive) :
         (IsFile(j) /\ Plain(archive[j].name)) =>
           Tail(Clean(archive[j].name)) \notin ArtifactPlaces \ DOMAIN declared

\* No false alarm: in whatever order its entries are, and whatever directories
\* and files outside artifacts/ and derived/ are added, an orderly archive that
\* unpacks to what was declared is VALID.
UnpacksUnaltered ==
  /\ Orderly
  /\ ArtifactsAsDeclared
  /\ UnpackedAt(ManifestPath) = {Data("manifest", declared)}
  /\ \A j \in 1..Len(archive) : archive[j].name[1] = Bundle

NoFalseAlarm == (phase = "done" /\ UnpacksUnaltered) => code = "VALID"

-----------------------------------------------------------------------------
\* The inductive invariant: what the loops know of the entries they have seen.

\* Each of the first n entries has left its first segment in roots.
ResolvedUpTo(n) ==
  \A j \in 1..n : LET name == archive[j].name IN
    Clean(name) # <<>> => ~IsRooted(name) /\ RootOf(name) \in roots

Resolving ==
  /\ IsFiniteSet(roots)
  /\ \A r \in roots : \E j \in 1..Len(archive) :
       Clean(archive[j].name) # <<>> /\ r = RootOf(archive[j].name)
  /\ phase \in {"pack", "transit"} => k = 0 /\ roots = {}
  /\ phase = "resolve" => Cardinality(roots) <= k /\ ResolvedUpTo(k)
  /\ (phase \in {"list", "check"} \/ root # EmptySegment) =>
       roots = {root} /\ ResolvedUpTo(Len(archive))

\* Each of the first n entries that is a file under the root is listed.
ListedUpTo(n) ==
  \A j \in 1..n : IsListed(archive[j].name) => HasEntry(Relative(archive[j].name))

Listing ==
  /\ IsSeq(entries)
  /\ \A p \in Range(entries) : \E j \in 1..Len(archive) :
       IsListed(archive[j].name) /\ p = Relative(archive[j].name)
  /\ phase = "list"  => ListedUpTo(k)
  /\ phase = "check" => ListedUpTo(Len(archive))

IInv == TypeOK /\ Resolving /\ Listing /\ UnpacksAsDeclared /\ NoFalseAlarm
=============================================================================
