------------------------- MODULE BundleReader_proofs -------------------------
(***************************************************************************)
(* Proofs about the bundle reader for every set of artifacts, contents and *)
(* segments and every number of damages.  The invariant IInv of            *)
(* BundleReader is inductive.  None of the proofs expands Clean: what holds *)
(* of the reader holds whatever path.Clean makes of a name, as long as the *)
(* three users of it agree.                                                *)
(***************************************************************************)
EXTENDS BundleReader, CommonTheorems, TLAPS

-----------------------------------------------------------------------------
\* Names.

Spelling ==
  Segments \cup {Bundle, EmptySegment, "manifest.json"} \cup UNION {Range(p) : p \in ArtifactPaths}

LEMMA NamesAre == Names = Seq(Spelling) \ {<<>>}
BY DEF Names, Spelling

LEMMA EntryFields ==
  ASSUME NEW name, NEW data
  PROVE  /\ Entry(name, data).name = name
         /\ Entry(name, data).data = data
BY DEF Entry

LEMMA DataFields ==
  ASSUME NEW kind, NEW value
  PROVE  /\ Data(kind, value).kind = kind
         /\ Data(kind, value).value = value
BY DEF Data

\* A name is its first segment and the rest.
LEMMA Rejoined ==
  ASSUME NEW S, NEW name \in Seq(S), name # <<>>
  PROVE  /\ Tail(name) \in Seq(S)
         /\ name = <<name[1]>> \o Tail(name)
         /\ Len(name) > 1 <=> Tail(name) # <<>>
<1>1. /\ Len(name) \in Nat /\ Len(name) >= 1
      /\ Tail(name) \in Seq(S) /\ Len(Tail(name)) = Len(name) - 1
      /\ \A i \in 1..Len(Tail(name)) : Tail(name)[i] = name[i + 1]
  BY HeadTailProperties, EmptySeq, LenProperties
<1>2. <<name[1]>> \in Seq(S)
  BY <1>1, ElementOfSeq
<1>3. name = <<name[1]>> \o Tail(name)
  <2> DEFINE joined == <<name[1]>> \o Tail(name)
  <2>1. /\ joined \in Seq(S)
        /\ Len(joined) = 1 + Len(Tail(name))
        /\ \A i \in 1..Len(joined) :
             joined[i] = IF i <= 1 THEN <<name[1]>>[i] ELSE Tail(name)[i - 1]
    BY <1>1, <1>2, ConcatProperties
  <2> HIDE DEF joined
  <2>2. \A i \in 1..Len(name) : name[i] = joined[i]
    BY <1>1, <2>1
  <2>3. name = joined
    BY <1>1, <2>1, <2>2, SeqEqual
  <2> QED BY <2>3 DEF joined
<1>4. Tail(name) = <<>> <=> Len(Tail(name)) = 0
  BY <1>1, EmptySeq
<1>5. Len(name) > 1 <=> Tail(name) # <<>>
  BY <1>1, <1>4
<1> QED BY <1>1, <1>3, <1>5

\* A name without its last segment keeps the first, if any is left.
LEMMA WithoutLast ==
  ASSUME NEW S, NEW name \in Seq(S), name # <<>>
  PROVE  /\ Front(name) \in Seq(S)
         /\ Front(name) # <<>> => Front(name)[1] = name[1]
<1>1. Len(name) \in Nat /\ Len(name) >= 1 /\ \A i \in 1..Len(name) : name[i] \in S
  BY EmptySeq, LenProperties, ElementOfSeq
<1> DEFINE last == Len(name) - 1
<1>2. last \in Nat /\ \A i \in 1..last : name[i] \in S
  BY <1>1
<1> HIDE DEF last
<1>3. /\ SubSeq(name, 1, last) \in Seq(S)
      /\ Len(SubSeq(name, 1, last)) = last
      /\ \A i \in 1..last : SubSeq(name, 1, last)[i] = name[i]
  BY <1>2, SubSeqProperties
<1>4. SubSeq(name, 1, last) # <<>> => last >= 1
  BY <1>2, <1>3, EmptySeq
<1>5. /\ SubSeq(name, 1, last) \in Seq(S)
      /\ SubSeq(name, 1, last) # <<>> => SubSeq(name, 1, last)[1] = name[1]
  BY <1>2, <1>3, <1>4
<1> QED BY <1>5 DEF Front, last

\* A path under a root.
LEMMA Under ==
  ASSUME NEW S, NEW b \in S, NEW path \in Seq(S)
  PROVE  /\ <<b>> \o path \in Seq(S)
         /\ Len(<<b>> \o path) = Len(path) + 1
         /\ <<b>> \o path # <<>>
         /\ (<<b>> \o path)[1] = b
         /\ Tail(<<b>> \o path) = path
<1> DEFINE name == <<b>> \o path
<1>1. <<b>> \in Seq(S) /\ Len(<<b>>) = 1 /\ Len(path) \in Nat
  BY LenProperties
<1>2. /\ name \in Seq(S)
      /\ Len(name) = 1 + Len(path)
      /\ \A i \in 1..Len(name) : name[i] = IF i <= 1 THEN <<b>>[i] ELSE path[i - 1]
  BY <1>1, ConcatProperties
<1> HIDE DEF name
<1>3. name # <<>> /\ name[1] = b
  BY <1>1, <1>2, EmptySeq
<1>4. Tail(name) \in Seq(S) /\ Len(Tail(name)) = Len(path)
      /\ \A i \in 1..Len(Tail(name)) : Tail(name)[i] = path[i]
  BY <1>1, <1>2, <1>3, HeadTailProperties
<1>5. Tail(name) = path
  BY <1>4, SeqEqual
<1> QED BY <1>1, <1>2, <1>3, <1>5 DEF name

LEMMA OneSegment ==
  ASSUME NEW S, NEW segment \in S
  PROVE  <<segment>> \in Seq(S) /\ Len(<<segment>>) = 1
OBVIOUS

\* The paths of artifacts, and the names of their entries and directories.
LEMMA Paths ==
  ASSUME NEW p \in ArtifactPaths
  PROVE  /\ p \in Seq(Spelling)
         /\ p # <<>> /\ Len(p) > 1 /\ p[1] \in ArtifactDirs
         /\ <<Bundle>> \o p \in Names
         /\ <<Bundle>> \o Front(p) \o <<EmptySegment>> \in Names
<1>1. p \in Seq(Range(p)) /\ Range(p) \subseteq Spelling /\ Len(p) > 1 /\ p[1] \in ArtifactDirs
  <2>1. p \in Seq(STRING) /\ Len(p) > 1 /\ p[1] \in ArtifactDirs
    BY ReaderAssumption
  <2>2. IsSeq(p)
    BY <2>1, SeqIsSeq
  <2> QED BY <2>1, <2>2 DEF IsSeq, Spelling
<1>2. p \in Seq(Spelling)
  BY <1>1, SeqMonotonic
<1>3. p # <<>>
  BY <1>1, EmptySeq
<1>4. Bundle \in Spelling /\ EmptySegment \in Spelling
  BY DEF Spelling
<1>5. <<Bundle>> \o p \in Names
  BY <1>2, <1>4, Under, NamesAre
<1>6. Front(p) \in Seq(Spelling)
  BY <1>2, <1>3, WithoutLast
<1> DEFINE directory == <<Bundle>> \o Front(p)
<1>7. directory \in Seq(Spelling) /\ Len(directory) \in Nat
  BY <1>4, <1>6, Under, LenProperties
<1> HIDE DEF directory
<1> DEFINE slash == <<EmptySegment>>
<1>8. slash \in Seq(Spelling) /\ Len(slash) = 1
  BY <1>4, OneSegment
<1> HIDE DEF slash
<1>9. directory \o slash \in Seq(Spelling) /\ Len(directory \o slash) = Len(directory) + 1
  <2>1. /\ directory \o slash \in Seq(Spelling)
        /\ Len(directory \o slash) = Len(directory) + Len(slash)
    BY <1>7, <1>8, ConcatProperties
  <2> QED BY <1>8, <2>1
<1>10. Len(directory \o slash) # 0
  BY <1>7, <1>9
<1>11. directory \o slash # <<>>
  BY <1>10, EmptySeq
<1> QED BY <1>1, <1>2, <1>3, <1>5, <1>9, <1>11, NamesAre DEF directory, slash

LEMMA ManifestName ==
  /\ ManifestPath \in Seq(Spelling) /\ ManifestPath # <<>>
  /\ <<Bundle>> \o ManifestPath \in Names
<1>1. ManifestPath \in Seq(Spelling) /\ ManifestPath # <<>>
  BY DEF ManifestPath, Spelling
<1>2. Bundle \in Spelling
  BY DEF Spelling
<1> QED BY <1>1, <1>2, Under, NamesAre
-----------------------------------------------------------------------------
\* What an orderly archive is to the reader and to whoever unpacks it.

NamesOK == \A j \in 1..Len(archive) : archive[j].name \in Names

\* The name of a file that is plain is clean.
LEMMA PlainFile ==
  ASSUME NEW name, Plain(name), Last(name) # EmptySegment
  PROVE  Clean(name) = name
BY DEF Plain

\* In an orderly archive the first segment of a name, as spelled, is the one that
\* counts.
LEMMA OrderlyRoot ==
  ASSUME NamesOK, Orderly, NEW j \in 1..Len(archive), Clean(archive[j].name) # <<>>
  PROVE  ~IsRooted(archive[j].name) /\ RootOf(archive[j].name) = archive[j].name[1]
<1> DEFINE name == archive[j].name
<1>1. name \in Seq(Spelling) /\ name # <<>>
  BY NamesAre DEF NamesOK
<1>2. Front(name) # <<>> => Front(name)[1] = name[1]
  BY <1>1, WithoutLast
<1>3. Plain(name) /\ ~IsRooted(name)
  BY DEF Orderly
<1> QED BY <1>2, <1>3 DEF Plain, RootOf

\* A file of an orderly archive is the one that unpacks at its name, and the one
\* that is read under it.
LEMMA Found ==
  ASSUME NamesOK, Orderly, root = Bundle, NEW path,
         NEW j \in 1..Len(archive), IsFile(j), archive[j].name = <<Bundle>> \o path
  PROVE  /\ UnpackedAt(path) = {archive[j].data}
         /\ ReadEntry(path) = archive[j].data
<1> DEFINE at == {i \in 1..Len(archive) :
                    /\ IsFile(i)
                    /\ ~IsRooted(archive[i].name)
                    /\ Clean(archive[i].name) = <<Bundle>> \o path}
<1>1. ASSUME NEW i \in 1..Len(archive), archive[i].name = <<Bundle>> \o path
      PROVE  i = j
  BY <1>1 DEF Orderly
<1>2. \A i \in at : i = j
  <2> TAKE i \in at
  <2>1. i \in 1..Len(archive) /\ IsFile(i) /\ Clean(archive[i].name) = <<Bundle>> \o path
    OBVIOUS
  <2>2. Clean(archive[i].name) = archive[i].name
    BY <2>1, PlainFile DEF Orderly, IsFile
  <2> QED BY <1>1, <2>1, <2>2
<1>3. j \in at
  <2>1. Clean(archive[j].name) = archive[j].name /\ ~IsRooted(archive[j].name)
    BY PlainFile DEF Orderly, IsFile
  <2> QED BY <2>1
<1>4. UnpackedAt(path) = {archive[i].data : i \in at}
  BY DEF UnpackedAt
<1>5. UnpackedAt(path) = {archive[j].data}
  <2> HIDE DEF at
  <2>1. at = {j}
    BY <1>2, <1>3
  <2> QED BY <1>4, <2>1
<1>6. Matches(path) = {j}
  BY <1>1 DEF Matches
<1>7. ReadEntry(path) = archive[j].data
  <2> DEFINE first == CHOOSE i \in Matches(path) : \A l \in Matches(path) : i <= l
  <2>1. \E i \in Matches(path) : \A l \in Matches(path) : i <= l
    BY <1>6
  <2>2. first \in Matches(path)
    BY <2>1
  <2>3. ReadEntry(path) = archive[first].data
    BY <1>6 DEF ReadEntry
  <2> HIDE DEF first
  <2> QED BY <1>6, <2>2, <2>3
<1> QED BY <1>5, <1>7

\* What is listed, is the file that unpacks there.
LEMMA ListedUnpacks ==
  ASSUME NamesOK, Orderly, root = Bundle, Listing, NEW path, HasEntry(path)
  PROVE  /\ UnpackedAt(path) = {ReadEntry(path)}
         /\ path \in Unpacks
<1>1. PICK j \in 1..Len(archive) : IsListed(archive[j].name) /\ path = Relative(archive[j].name)
  BY DEF Listing, HasEntry
<1> DEFINE name == archive[j].name
<1>2. name \in Seq(Spelling) /\ name # <<>>
  BY NamesAre DEF NamesOK
<1>3. name[1] = root /\ Last(name) # EmptySegment /\ path = Tail(name)
  BY <1>1 DEF IsListed, Relative
<1>4. name = <<Bundle>> \o path
  BY <1>2, <1>3, Rejoined
<1>5. IsFile(j) /\ Clean(name) = name
  BY <1>3, PlainFile DEF IsFile, Orderly
<1>6. path \in Unpacks
  BY <1>2, <1>3, <1>5 DEF Unpacks
<1> QED BY <1>4, <1>5, <1>6, Found

\* What unpacks, and is the only file to do so there, is listed and is read.
LEMMA UnpackedIsRead ==
  ASSUME NamesOK, Orderly, root = Bundle, ListedUpTo(Len(archive)),
         NEW path \in Seq(Spelling), path # <<>>, NEW data, UnpackedAt(path) = {data}
  PROVE  HasEntry(path) /\ ReadEntry(path) = data
<1>1. PICK j \in 1..Len(archive) :
        IsFile(j) /\ Clean(archive[j].name) = <<Bundle>> \o path
  <2>1. data \in UnpackedAt(path)
    OBVIOUS
  <2> QED BY <2>1 DEF UnpackedAt
<1> DEFINE name == archive[j].name
<1>2. name = <<Bundle>> \o path
  BY <1>1, PlainFile DEF IsFile, Orderly
<1>3. ReadEntry(path) = data
  BY <1>1, <1>2, Found
<1>4. name[1] = Bundle /\ Tail(name) = path /\ Len(name) > 1
  <2>1. Bundle \in Spelling
    BY DEF Spelling
  <2>2. name \in Seq(Spelling) /\ name # <<>> /\ name[1] = Bundle /\ Tail(name) = path
    BY <1>2, <2>1, Under
  <2> QED BY <2>2, Rejoined
<1>5. IsListed(name) /\ Relative(name) = path
  BY <1>1, <1>4 DEF IsListed, Relative, IsFile
<1> QED BY <1>3, <1>5 DEF ListedUpTo
-----------------------------------------------------------------------------
\* The checks.

LEMMA ArtifactPathsAre ==
  ASSUME TypeOK, NEW p \in DOMAIN declared
  PROVE  p \in Seq(Spelling) /\ p # <<>> /\ Len(p) > 1 /\ p[1] \in ArtifactDirs
BY Paths DEF TypeOK

LEMMA FilesDiffer ==
  ASSUME NEW c, NEW d
  PROVE  /\ SHA256(c) = SHA256(d) => c = d
         /\ File(c) # Unreadable
<1>1. File(c).kind = "file" /\ Unreadable.kind = "unreadable"
  BY DataFields DEF File, Unreadable
<1> QED BY <1>1, DigestsDiffer

\* What it means that all checks pass.
LEMMA ChecksMean ==
  ASSUME IInv, phase = "check",
         manifest_loaded, artifacts_present, artifact_hashes, no_undeclared_files
  PROVE  /\ Orderly => ArtifactsAsDeclared
         /\ \A j \in 1..Len(archive) :
              (IsFile(j) /\ Plain(archive[j].name)) =>
                Tail(Clean(archive[j].name)) \notin ArtifactPlaces \ DOMAIN declared
<1>1. /\ NamesOK /\ root = Bundle /\ roots = {root}
      /\ ListedUpTo(Len(archive)) /\ ResolvedUpTo(Len(archive))
  BY DEF IInv, TypeOK, IsEntry, NamesOK, manifest_loaded, Listing, Resolving
<1>2. ASSUME NEW j \in 1..Len(archive), IsFile(j), Plain(archive[j].name),
             Tail(Clean(archive[j].name)) \in ArtifactPlaces
      PROVE  Tail(Clean(archive[j].name)) \in DOMAIN declared
  <2> DEFINE name == archive[j].name
             p    == Tail(name)
  <2>1. name \in Seq(Spelling) /\ name # <<>>
    BY <1>1, NamesAre DEF NamesOK
  <2>2. Clean(name) = name
    BY <1>2, PlainFile DEF IsFile
  <2>3. p # <<>> /\ p[1] \in ArtifactDirs /\ Len(p) > 1
    BY <1>2, <2>2 DEF ArtifactPlaces
  <2>4. name[1] = root
    BY <1>1, <2>1, <2>2 DEF ResolvedUpTo, RootOf
  <2>5. Len(name) > 1
    BY <2>1, <2>3, Rejoined
  <2>6. HasEntry(p)
    BY <1>1, <1>2, <2>4, <2>5 DEF ListedUpTo, IsListed, IsFile, Relative
  <2>7. p \in DOMAIN declared
    BY <2>3, <2>6 DEF no_undeclared_files, HasEntry
  <2> QED BY <2>2, <2>7
<1>3. ASSUME Orderly
      PROVE  ArtifactsAsDeclared
  <2>1. ASSUME NEW p \in DOMAIN declared
        PROVE  p \in ArtifactPlaces /\ UnpackedAt(p) = {File(declared[p])}
    <3>1. p \in Seq(Spelling) /\ p # <<>> /\ Len(p) > 1 /\ p[1] \in ArtifactDirs
      BY ArtifactPathsAre DEF IInv
    <3>2. HasEntry(p) /\ ReadEntry(p) # Unreadable
          /\ SHA256(ReadEntry(p)) = SHA256(File(declared[p]))
      BY DEF artifacts_present, artifact_hashes
    <3>3. UnpackedAt(p) = {ReadEntry(p)} /\ p \in Unpacks
      BY <1>1, <1>3, <3>2, ListedUnpacks DEF IInv
    <3>4. ReadEntry(p) = File(declared[p])
      BY <3>2, FilesDiffer
    <3> QED BY <3>1, <3>3, <3>4 DEF ArtifactPlaces
  <2>2. ASSUME NEW p \in ArtifactPlaces
        PROVE  p \in DOMAIN declared
    <3>1. PICK j \in 1..Len(archive) : IsFile(j) /\ p = Tail(Clean(archive[j].name))
      BY DEF ArtifactPlaces, Unpacks
    <3>2. Plain(archive[j].name)
      BY <1>3 DEF Orderly
    <3> QED BY <1>2, <3>1, <3>2
  <2> QED BY <2>1, <2>2 DEF ArtifactsAsDeclared
<1> QED BY <1>2, <1>3

\* An archive that unpacks to what was declared passes them all.
LEMMA ChecksPass ==
  ASSUME IInv, phase = "check", UnpacksUnaltered
  PROVE  manifest_loaded /\ artifacts_present /\ artifact_hashes /\ no_undeclared_files
<1>1. NamesOK /\ Orderly /\ ListedUpTo(Len(archive)) /\ roots = {root}
  BY DEF IInv, TypeOK, IsEntry, NamesOK, Listing, Resolving, UnpacksUnaltered
<1>2. root = Bundle
  <2>1. PICK j \in 1..Len(archive) : Clean(archive[j].name) # <<>> /\ root = RootOf(archive[j].name)
    BY <1>1 DEF IInv, Resolving
  <2>2. RootOf(archive[j].name) = archive[j].name[1]
    BY <1>1, <2>1, OrderlyRoot
  <2> QED BY <2>1, <2>2 DEF UnpacksUnaltered
<1>3. manifest_loaded
  <2>1. HasEntry(ManifestPath) /\ ReadEntry(ManifestPath) = Data("manifest", declared)
    BY <1>1, <1>2, ManifestName, UnpackedIsRead DEF UnpacksUnaltered
  <2> QED BY <1>2, <2>1 DEF manifest_loaded
<1>4. ASSUME NEW p \in DOMAIN declared
      PROVE  HasEntry(p) /\ ReadEntry(p) = File(declared[p])
  <2>1. p \in Seq(Spelling) /\ p # <<>>
    BY ArtifactPathsAre DEF IInv
  <2>2. UnpackedAt(p) = {File(declared[p])}
    BY DEF UnpacksUnaltered, ArtifactsAsDeclared
  <2> QED BY <1>1, <1>2, <2>1, <2>2, UnpackedIsRead
<1>5. artifacts_present /\ artifact_hashes
  BY <1>4, FilesDiffer DEF artifacts_present, artifact_hashes
<1>6. no_undeclared_files
  <2> SUFFICES ASSUME NEW p \in Range(entries), p[1] \in ArtifactDirs, Len(p) > 1
               PROVE  p \in DOMAIN declared
    BY DEF no_undeclared_files
  <2>1. p \in Unpacks
    BY <1>1, <1>2, ListedUnpacks DEF IInv, HasEntry
  <2>2. p # <<>>
    OBVIOUS
  <2>3. p \in ArtifactPlaces
    BY <2>1, <2>2 DEF ArtifactPlaces
  <2> QED BY <2>3 DEF UnpacksUnaltered, ArtifactsAsDeclared
<1> QED BY <1>3, <1>5, <1>6
-----------------------------------------------------------------------------
\* The steps before anything is read.

LEMMA Nothing ==
  IsSeq(<<>>) /\ Len(<<>>) = 0 /\ DOMAIN <<>> = {} /\ Range(<<>>) = {}
<1>1. IsSeq(<<>>) /\ Len(<<>>) = 0
  BY EmptySeq, SeqIsSeq
<1>2. DOMAIN <<>> = {}
  OBVIOUS
<1> QED BY <1>1, <1>2 DEF Range

LEMMA InitIInv == Init => IInv
<1> SUFFICES ASSUME Init PROVE IInv
  OBVIOUS
<1>1. MaxFaults \in Nat
  BY ReaderAssumption
<1>2. /\ IsSeq(archive) /\ Len(archive) = 0 /\ DOMAIN declared = {}
      /\ IsSeq(entries) /\ Range(entries) = {}
  BY Nothing DEF Init
<1>3. IsFiniteSet({}) /\ Cardinality({}) = 0
  BY FS_EmptySet
<1>4. TypeOK
  <2>1. /\ faults \in 0..MaxFaults
        /\ phase \in {"pack", "transit", "resolve", "list", "check", "done"}
        /\ k \in 0..Len(archive) /\ root \in roots \cup {EmptySegment}
    BY <1>1, <1>2 DEF Init
  <2>2. Cardinality(roots) <= Len(archive)
    BY <1>2, <1>3 DEF Init
  <2>3. code \in IF phase = "done" THEN ResultCodes ELSE {"none"}
    BY DEF Init
  <2>4. /\ phase \in {"pack", "transit", "resolve"} => root = EmptySegment /\ entries = <<>>
        /\ phase = "list" => Len(entries) <= k
    BY DEF Init
  <2> QED BY <1>2, <2>1, <2>2, <2>3, <2>4 DEF TypeOK
<1>5. Resolving
  BY <1>2, <1>3 DEF Init, Resolving
<1>6. Listing
  BY <1>2 DEF Init, Listing
<1> QED BY <1>4, <1>5, <1>6 DEF Init, IInv, UnpacksAsDeclared, NoFalseAlarm

\* As long as nothing is read, only the types of what is shipped matter.
LEMMA BeforeReading ==
  ASSUME IInv, phase \in {"pack", "transit"}, phase' \in {"pack", "transit", "resolve"},
         DOMAIN declared' \subseteq ArtifactPaths,
         \A p \in DOMAIN declared' : declared'[p] \in Contents,
         IsSeq(archive'), \A j \in 1..Len(archive') : IsEntry(archive'[j]),
         faults' \in 0..MaxFaults, UNCHANGED <<readerVars, code>>
  PROVE  IInv'
<1>1. /\ k = 0 /\ roots = {} /\ root = EmptySegment /\ entries = <<>> /\ code = "none"
      /\ k' = 0 /\ roots' = {} /\ root' = EmptySegment /\ entries' = <<>> /\ code' = "none"
  BY DEF IInv, TypeOK, Resolving, readerVars
<1>3. IsSeq(entries') /\ Range(entries') = {} /\ Len(archive') \in Nat
  BY <1>1, Nothing, IsSeqLen
<1>4. IsFiniteSet({}) /\ Cardinality({}) = 0
  BY FS_EmptySet
<1>5. TypeOK'
  <2>1. /\ phase' \in {"pack", "transit", "resolve", "list", "check", "done"}
        /\ k' \in 0..Len(archive') /\ root' \in roots' \cup {EmptySegment}
    BY <1>1, <1>3
  <2>2. Cardinality(roots') <= Len(archive')
    BY <1>1, <1>3, <1>4
  <2>3. code' \in IF phase' = "done" THEN ResultCodes ELSE {"none"}
    BY <1>1
  <2>4. /\ phase' \in {"pack", "transit", "resolve"} => root' = EmptySegment /\ entries' = <<>>
        /\ phase' = "list" => Len(entries') <= k'
    BY <1>1
  <2> QED BY <2>1, <2>2, <2>3, <2>4 DEF TypeOK
<1>6. Resolving'
  <2>1. IsFiniteSet(roots') /\ Cardinality(roots') <= k'
    BY <1>1, <1>4
  <2>2. (\A j \in 1..0 : FALSE) /\ 1..k' = {}
    BY <1>1
  <2>3. ResolvedUpTo(k)'
    BY <1>1, <2>2 DEF ResolvedUpTo
  <2> QED BY <1>1, <2>1, <2>3 DEF Resolving
<1>7. Listing'
  BY <1>1, <1>3 DEF Listing
<1> QED BY <1>1, <1>5, <1>6, <1>7 DEF IInv, UnpacksAsDeclared, NoFalseAlarm

\* An archive of entries that have their names.
LEMMA NamedArchive ==
  ASSUME NEW T, \A e \in T : IsEntry(e), NEW s \in Seq(T)
  PROVE  IsSeq(s) /\ \A j \in 1..Len(s) : IsEntry(s[j])
BY SeqIsSeq

LEMMA ArchiveEntries ==
  ASSUME IInv
  PROVE  /\ archive \in Seq(Range(archive))
         /\ \A e \in Range(archive) : IsEntry(e)
         /\ \A j \in 1..Len(archive) : archive[j] \in Range(archive)
<1>1. IsSeq(archive) /\ \A j \in 1..Len(archive) : IsEntry(archive[j])
  BY DEF IInv, TypeOK
<1>2. archive \in Seq(Range(archive))
  BY <1>1 DEF IsSeq
<1>3. DOMAIN archive = 1..Len(archive)
  BY <1>2, LenProperties
<1> QED BY <1>1, <1>2, <1>3 DEF Range

\* One more entry, in front or at the end.
LEMMA OneMoreEntry ==
  ASSUME IInv, NEW name \in Names, NEW data
  PROVE  LET T == Range(archive) \cup {Entry(name, data)} IN
         /\ \A e \in T : IsEntry(e)
         /\ archive \in Seq(T)
         /\ Append(archive, Entry(name, data)) \in Seq(T)
         /\ <<Entry(name, data)>> \o archive \in Seq(T)
<1> DEFINE e == Entry(name, data)
           T == Range(archive) \cup {e}
<1>1. IsEntry(e)
  BY EntryFields DEF IsEntry
<1> HIDE DEF e
<1>2. archive \in Seq(T) /\ (\A d \in T : IsEntry(d)) /\ e \in T
  BY <1>1, ArchiveEntries, SeqMonotonic
<1> HIDE DEF T
<1>3. Append(archive, e) \in Seq(T) /\ <<e>> \o archive \in Seq(T)
  BY <1>2, AppendProperties, Under
<1> QED BY <1>2, <1>3 DEF e, T

LEMMA PackStep ==
  ASSUME IInv, NEW p \in ArtifactPaths, NEW c \in Contents, PackArtifact(p, c)
  PROVE  IInv'
<1>1. /\ phase = "pack" /\ phase' = phase /\ faults' = faults
      /\ archive' = Append(archive, Entry(<<Bundle>> \o p, File(c)))
      /\ UNCHANGED <<readerVars, code>>
  BY DEF PackArtifact
<1>2. IsSeq(archive') /\ \A j \in 1..Len(archive') : IsEntry(archive'[j])
  BY <1>1, Paths, OneMoreEntry, NamedArchive
<1>3. /\ DOMAIN declared' \subseteq ArtifactPaths
      /\ \A q \in DOMAIN declared' : declared'[q] \in Contents
  BY DEF PackArtifact, IInv, TypeOK
<1>4. faults' \in 0..MaxFaults
  BY <1>1 DEF IInv, TypeOK
<1> QED BY <1>1, <1>2, <1>3, <1>4, BeforeReading

LEMMA ShipStep ==
  ASSUME IInv, Ship
  PROVE  IInv'
<1>1. /\ phase = "pack" /\ phase' = "transit" /\ faults' = faults /\ declared' = declared
      /\ archive' = Append(archive, Entry(<<Bundle>> \o ManifestPath, Data("manifest", declared)))
      /\ UNCHANGED <<readerVars, code>>
  BY DEF Ship, producerVars
<1>2. IsSeq(archive') /\ \A j \in 1..Len(archive') : IsEntry(archive'[j])
  BY <1>1, ManifestName, OneMoreEntry, NamedArchive
<1>3. /\ DOMAIN declared' \subseteq ArtifactPaths
      /\ \A q \in DOMAIN declared' : declared'[q] \in Contents
      /\ faults' \in 0..MaxFaults
  BY <1>1 DEF IInv, TypeOK
<1> QED BY <1>1, <1>2, <1>3, BeforeReading

LEMMA StartStep ==
  ASSUME IInv, StartReading
  PROVE  IInv'
<1>1. /\ phase = "transit" /\ phase' = "resolve" /\ faults' = faults /\ declared' = declared
      /\ archive' = archive
      /\ UNCHANGED <<readerVars, code>>
  BY DEF StartReading, producerVars, fileVars
<1>2. /\ DOMAIN declared' \subseteq ArtifactPaths
      /\ \A q \in DOMAIN declared' : declared'[q] \in Contents
      /\ IsSeq(archive')
      /\ \A j \in 1..Len(archive') : IsEntry(archive'[j])
      /\ faults' \in 0..MaxFaults
  BY <1>1 DEF IInv, TypeOK
<1> QED BY <1>1, <1>2, BeforeReading
-----------------------------------------------------------------------------
\* Repacking.

LEMMA InsertedName ==
  ASSUME NEW name \in Names, NEW at \in 1..(Len(name) + 1), NEW s \in Spelling
  PROVE  InsertAt(name, at, s) \in Names
<1>1. name \in Seq(Spelling) /\ Len(name) \in Nat
  BY NamesAre, LenProperties
<1>2. InsertAt(name, at, s) \in Seq(Spelling) /\ Len(InsertAt(name, at, s)) = Len(name) + 1
  BY <1>1, InsertAtSeq
<1>3. InsertAt(name, at, s) # <<>>
  BY <1>1, <1>2, EmptySeq
<1> QED BY <1>2, <1>3, NamesAre

LEMMA DamageStep ==
  ASSUME IInv, Damage
  PROVE  IInv'
<1> DEFINE Named(s) == IsSeq(s) /\ \A j \in 1..Len(s) : IsEntry(s[j])
<1>1. ASSUME Fault, Named(archive')
      PROVE  IInv'
  <2>1. /\ phase = "transit" /\ phase' = phase /\ declared' = declared
        /\ UNCHANGED <<readerVars, code>>
    BY <1>1 DEF Fault, producerVars
  <2>2. faults' \in 0..MaxFaults
    <3>1. faults \in 0..MaxFaults /\ MaxFaults \in Nat
      BY ReaderAssumption DEF IInv, TypeOK
    <3> QED BY <1>1, <3>1 DEF Fault
  <2>3. /\ DOMAIN declared' \subseteq ArtifactPaths
        /\ \A q \in DOMAIN declared' : declared'[q] \in Contents
    BY <2>1 DEF IInv, TypeOK
  <2> QED BY <1>1, <2>1, <2>2, <2>3, BeforeReading
<1> DEFINE T == Range(archive)
<1>2. archive \in Seq(T) /\ (\A e \in T : IsEntry(e)) /\ \A j \in 1..Len(archive) : archive[j] \in T
  BY ArchiveEntries
<1> HIDE DEF T
<1>3. ASSUME NEW j \in 1..Len(archive), LoseEntry(j)
      PROVE  Fault /\ Named(archive')
  BY <1>2, <1>3, RemoveAtSeq, NamedArchive DEF LoseEntry
<1>4. ASSUME NEW j \in 1..Len(archive), SwapWithNext(j)
      PROVE  Fault /\ Named(archive')
  BY <1>2, <1>4, SwapSeq, NamedArchive DEF SwapWithNext
\* An entry replaced by one that has a name.
<1>5. ASSUME NEW j \in 1..Len(archive), NEW e, IsEntry(e)
      PROVE  Named([archive EXCEPT ![j] = e])
  <2>1. archive \in Seq(T \cup {e}) /\ \A d \in T \cup {e} : IsEntry(d)
    BY <1>2, <1>5, SeqMonotonic
  <2>2. [archive EXCEPT ![j] = e] \in Seq(T \cup {e})
    BY <2>1, ExceptSeq
  <2> QED BY <2>1, <2>2, NamedArchive
<1>6. ASSUME NEW j \in 1..Len(archive), AlterEntry(j)
      PROVE  Fault /\ Named(archive')
  <2>1. PICK d : archive' = [archive EXCEPT ![j].data = d]
    BY <1>6 DEF AlterEntry
  <2> DEFINE e == [archive[j] EXCEPT !.data = d]
  <2>2. archive' = [archive EXCEPT ![j] = e]
    BY <2>1
  <2>3. e = Entry(archive[j].name, d) /\ archive[j].name \in Names
    BY <1>2 DEF IsEntry, Entry
  <2> HIDE DEF e
  <2>4. IsEntry(e)
    BY <2>3, EntryFields DEF IsEntry
  <2> QED BY <1>5, <1>6, <2>2, <2>4 DEF AlterEntry
<1>7. ASSUME NEW j \in 1..Len(archive), RepeatName(j)
      PROVE  Fault /\ Named(archive')
  <2>1. PICK c \in Contents : archive' = Append(archive, Entry(archive[j].name, File(c)))
    BY <1>7 DEF RepeatName
  <2>2. archive[j].name \in Names
    BY <1>2 DEF IsEntry
  <2>3. Named(archive')
    BY <2>1, <2>2, OneMoreEntry, NamedArchive
  <2> QED BY <1>7, <2>3 DEF RepeatName
<1>8. ASSUME NEW j \in 1..Len(archive), RespellName(j)
      PROVE  Fault /\ Named(archive')
  <2> DEFINE name == archive[j].name
  <2>1. PICK at \in 1..(Len(name) + 1), s \in Segments :
          archive' = [archive EXCEPT ![j].name = InsertAt(@, at, s)]
    BY <1>8 DEF RespellName
  <2>2. InsertAt(name, at, s) \in Names
    <3>1. name \in Names /\ s \in Spelling
      BY <1>2 DEF IsEntry, Spelling
    <3> HIDE DEF name
    <3> QED BY <2>1, <3>1, InsertedName
  <2> DEFINE e == [archive[j] EXCEPT !.name = InsertAt(name, at, s)]
  <2>3. archive' = [archive EXCEPT ![j] = e]
    BY <2>1
  <2>4. e = Entry(InsertAt(name, at, s), archive[j].data)
    BY <1>2 DEF IsEntry, Entry
  <2>5. IsEntry(e)
    <3> HIDE DEF e, name
    <3> QED BY <2>2, <2>4, EntryFields DEF IsEntry
  <2> HIDE DEF e
  <2> QED BY <1>5, <1>8, <2>3, <2>5 DEF RespellName
<1>9. ASSUME NEW p \in ArtifactPaths, AddFile(p)
      PROVE  Fault /\ Named(archive')
  BY <1>9, Paths, OneMoreEntry, NamedArchive DEF AddFile
<1>10. ASSUME NEW p \in ArtifactPaths, AddDirectory(p)
       PROVE  Fault /\ Named(archive')
  BY <1>10, Paths, OneMoreEntry, NamedArchive DEF AddDirectory
<1> QED BY <1>1, <1>3, <1>4, <1>6, <1>7, <1>8, <1>9, <1>10 DEF Damage
-----------------------------------------------------------------------------
\* Reading.

\* What a step that reads leaves alone.
LEMMA SameFiles ==
  ASSUME UNCHANGED <<producerVars, fileVars>>
  PROVE  /\ declared' = declared /\ archive' = archive /\ faults' = faults
         /\ Orderly' = Orderly /\ ArtifactsAsDeclared' = ArtifactsAsDeclared
         /\ UnpacksUnaltered' = UnpacksUnaltered /\ ArtifactPlaces' = ArtifactPlaces
         /\ \A j : IsFile(j)' = IsFile(j)
BY DEF producerVars, fileVars, Orderly, ArtifactsAsDeclared, UnpacksUnaltered, ArtifactPlaces,
       Unpacks, UnpackedAt, IsFile

\* A run that fails before the archive is open.
LEMMA FailsToOpen ==
  ASSUME IInv, phase = "resolve", Fail("MANIFEST_MISSING"), ~UnpacksUnaltered,
         UNCHANGED <<producerVars, fileVars, k, roots, root, entries>>
  PROVE  IInv'
<1>1. /\ phase' = "done" /\ code' = "MANIFEST_MISSING" /\ root = EmptySegment
      /\ UNCHANGED <<declared, archive, faults, k, roots, root, entries>>
  BY DEF Fail, IInv, TypeOK, producerVars, fileVars
<1>2. TypeOK'
  BY <1>1 DEF IInv, TypeOK, ResultCodes
<1>3. Resolving'
  BY <1>1 DEF IInv, Resolving
<1>4. Listing'
  BY <1>1 DEF IInv, Listing, IsListed, Relative
<1>5. UnpacksAsDeclared' /\ NoFalseAlarm'
  BY <1>1, SameFiles DEF UnpacksAsDeclared, NoFalseAlarm
<1> QED BY <1>2, <1>3, <1>4, <1>5 DEF IInv

LEMMA ResolveStep ==
  ASSUME IInv, ResolveEntry
  PROVE  IInv'
<1> DEFINE name == archive[k + 1].name
<1>1. /\ phase = "resolve" /\ k < Len(archive) /\ Len(archive) \in Nat /\ k \in Nat
      /\ root = EmptySegment /\ entries = <<>> /\ code = "none"
      /\ UNCHANGED <<producerVars, fileVars, declared, archive, faults, root, entries>>
  BY IsSeqLen DEF ResolveEntry, IInv, TypeOK, producerVars, fileVars
<1>2. NamesOK /\ k + 1 \in 1..Len(archive)
  BY <1>1 DEF IInv, TypeOK, IsEntry, NamesOK
<1>3. CASE /\ Clean(name) # <<>>
           /\ IsRooted(name) \/ RootOf(name) = ".."
           /\ Fail("MANIFEST_MISSING")
           /\ UNCHANGED <<k, roots>>
  <2>1. ASSUME UnpacksUnaltered
        PROVE  FALSE
    <3>1. ~IsRooted(name) /\ RootOf(name) = name[1] /\ name[1] = Bundle
      BY <1>2, <1>3, <2>1, OrderlyRoot DEF UnpacksUnaltered
    <3> QED BY <1>3, <3>1, ReaderAssumption
  <2> QED BY <1>1, <1>3, <2>1, FailsToOpen
\* The loop goes on.
<1>4. ASSUME k' = k + 1, phase' = phase, code' = code,
             roots' = roots \/ (Clean(name) # <<>> /\ roots' = roots \cup {RootOf(name)}),
             Clean(name) # <<>> => ~IsRooted(name) /\ RootOf(name) \in roots'
      PROVE  IInv'
  <2>1. /\ IsFiniteSet(roots') /\ Cardinality(roots') <= k'
    <3>1. IsFiniteSet(roots) /\ Cardinality(roots) <= k /\ Cardinality(roots) \in Nat
      BY <1>1, FS_CardinalityType DEF IInv, Resolving
    <3>2. CASE roots' = roots
      BY <1>1, <1>4, <3>1, <3>2
    <3>3. CASE roots' = roots \cup {RootOf(name)}
      <4> DEFINE r == RootOf(name)
      <4> HIDE DEF r
      <4>1. /\ IsFiniteSet(roots \cup {r})
            /\ Cardinality(roots \cup {r}) <= Cardinality(roots) + 1
        BY <3>1, FS_AddElement
      <4>2. Cardinality(roots \cup {r}) \in Nat
        BY <4>1, FS_CardinalityType
      <4> QED BY <1>1, <1>4, <3>1, <3>3, <4>1, <4>2 DEF r
    <3> QED BY <1>4, <3>2, <3>3
  <2>2. TypeOK'
    <3>1. k' \in 0..Len(archive') /\ Cardinality(roots') <= Len(archive')
      <4>1. Cardinality(roots') \in Nat
        BY <2>1, FS_CardinalityType
      <4> QED BY <1>1, <1>4, <2>1, <4>1
    <3> QED BY <1>1, <1>4, <3>1 DEF IInv, TypeOK
  <2>3. Resolving'
    <3>1. \A r \in roots' : \E j \in 1..Len(archive') :
            Clean(archive'[j].name) # <<>> /\ r = RootOf(archive'[j].name)
      BY <1>1, <1>2, <1>4 DEF IInv, Resolving
    <3>2. ResolvedUpTo(k)'
      <4> SUFFICES ASSUME NEW j \in 1..(k + 1), Clean(archive[j].name) # <<>>
                   PROVE  ~IsRooted(archive[j].name) /\ RootOf(archive[j].name) \in roots'
        BY <1>1, <1>4 DEF ResolvedUpTo
      <4>1. CASE j = k + 1
        BY <1>4, <4>1
      <4>2. CASE j \in 1..k
        BY <1>1, <1>4, <4>2 DEF IInv, Resolving, ResolvedUpTo
      <4> QED BY <1>1, <4>1, <4>2
    <3> QED BY <1>1, <1>4, <2>1, <3>1, <3>2 DEF Resolving
  <2>4. Listing'
    BY <1>1, <1>4 DEF IInv, Listing, IsListed, Relative
  <2>5. UnpacksAsDeclared' /\ NoFalseAlarm'
    BY <1>1, <1>4 DEF UnpacksAsDeclared, NoFalseAlarm
  <2> QED BY <2>2, <2>3, <2>4, <2>5 DEF IInv
<1> QED BY <1>3, <1>4 DEF ResolveEntry

LEMMA RootsFoundStep ==
  ASSUME IInv, RootsFound
  PROVE  IInv'
<1>1. /\ phase = "resolve" /\ k = Len(archive) /\ Len(archive) \in Nat
      /\ root = EmptySegment /\ entries = <<>> /\ code = "none"
      /\ UNCHANGED <<producerVars, fileVars, declared, archive, faults, roots, entries>>
      /\ IsFiniteSet(roots) /\ ResolvedUpTo(Len(archive))
  BY IsSeqLen DEF RootsFound, IInv, TypeOK, Resolving, producerVars, fileVars
<1>2. CASE /\ Cardinality(roots) = 1 /\ root' \in roots /\ phase' = "list" /\ k' = 0
           /\ UNCHANGED code
  <2>1. roots = {root'}
    BY <1>1, <1>2, FS_Singleton
  <2>2. TypeOK'
    <3>1. k' \in 0..Len(archive') /\ IsSeq(entries') /\ Len(entries') <= k'
      BY <1>1, <1>2, Nothing
    <3> QED BY <1>1, <1>2, <3>1 DEF IInv, TypeOK
  <2>3. Resolving'
    BY <1>1, <1>2, <2>1 DEF IInv, Resolving, ResolvedUpTo
  <2>4. Listing'
    <3>1. IsSeq(entries') /\ Range(entries') = {}
      BY <1>1, Nothing
    <3>2. ListedUpTo(k)'
      BY <1>2 DEF ListedUpTo
    <3> QED BY <1>2, <3>1, <3>2 DEF Listing
  <2>5. UnpacksAsDeclared' /\ NoFalseAlarm'
    BY <1>1, <1>2 DEF UnpacksAsDeclared, NoFalseAlarm
  <2> QED BY <2>2, <2>3, <2>4, <2>5 DEF IInv
<1>3. CASE Cardinality(roots) # 1 /\ Fail("MANIFEST_MISSING") /\ UNCHANGED <<k, root>>
  <2>1. ASSUME UnpacksUnaltered
        PROVE  FALSE
    <3>1. NamesOK /\ Orderly
      BY <2>1 DEF IInv, TypeOK, IsEntry, NamesOK, UnpacksUnaltered
    <3>2. \A r \in roots : r = Bundle
      <4> TAKE r \in roots
      <4>1. PICK j \in 1..Len(archive) :
              Clean(archive[j].name) # <<>> /\ r = RootOf(archive[j].name)
        BY DEF IInv, Resolving
      <4> QED BY <2>1, <3>1, <4>1, OrderlyRoot DEF UnpacksUnaltered
    <3>3. PICK j \in 1..Len(archive) : Clean(archive[j].name) = <<Bundle>> \o ManifestPath
      <4>1. Data("manifest", declared) \in UnpackedAt(ManifestPath)
        BY <2>1 DEF UnpacksUnaltered
      <4> QED BY <4>1 DEF UnpackedAt
    <3>4. Clean(archive[j].name) # <<>>
      BY <3>3, ManifestName, NamesAre
    <3>5. roots = {Bundle}
      BY <1>1, <3>2, <3>4 DEF ResolvedUpTo
    <3> QED BY <1>3, <3>5, FS_Singleton
  <2> QED BY <1>1, <1>3, <2>1, FailsToOpen
<1> QED BY <1>2, <1>3 DEF RootsFound

LEMMA ListStep ==
  ASSUME IInv, ListEntry
  PROVE  IInv'
<1> DEFINE name == archive[k + 1].name
           p    == Relative(name)
<1>1. /\ phase = "list" /\ phase' = phase /\ k < Len(archive) /\ Len(archive) \in Nat /\ k \in Nat
      /\ k' = k + 1
      /\ entries' = IF IsListed(name) THEN Append(entries, p) ELSE entries
      /\ UNCHANGED <<declared, archive, faults, roots, root, code>>
  BY IsSeqLen DEF ListEntry, IInv, TypeOK, producerVars, fileVars
<1>2. \A n : IsListed(n)' = IsListed(n) /\ Relative(n)' = Relative(n)
  BY <1>1 DEF IsListed, Relative
<1>3. IsSeq(entries) /\ Len(entries) \in Nat /\ Len(entries) <= k /\ ListedUpTo(k)
  BY <1>1, IsSeqLen DEF IInv, TypeOK, Listing
<1>4. /\ IsSeq(entries')
      /\ Len(entries') <= k + 1
      /\ Range(entries') = IF IsListed(name) THEN Range(entries) \cup {p} ELSE Range(entries)
  <2>1. CASE IsListed(name)
    <3> HIDE DEF p
    <3>1. /\ IsSeq(Append(entries, p)) /\ Len(Append(entries, p)) = Len(entries) + 1
          /\ Range(Append(entries, p)) = Range(entries) \cup {p}
      BY <1>3, Grow, GrowRange
    <3> QED BY <1>1, <1>3, <2>1, <3>1
  <2>2. CASE ~IsListed(name)
    BY <1>1, <1>3, <2>2
  <2> QED BY <2>1, <2>2
<1> HIDE DEF p
<1>5. TypeOK'
  <2>1. k' \in 0..Len(archive') /\ Len(entries') <= k'
    BY <1>1, <1>4
  <2> QED BY <1>1, <2>1 DEF IInv, TypeOK
<1>6. Resolving'
  BY <1>1 DEF IInv, Resolving, ResolvedUpTo
<1>7. Listing'
  <2>1. \A q \in Range(entries') : \E j \in 1..Len(archive') :
          IsListed(archive[j].name)' /\ q = Relative(archive[j].name)'
    <3>1. k + 1 \in 1..Len(archive)
      BY <1>1
    <3>2. \A q \in Range(entries) : \E j \in 1..Len(archive) :
            IsListed(archive[j].name) /\ q = Relative(archive[j].name)
      BY DEF IInv, Listing
    <3> QED BY <1>1, <1>2, <1>4, <3>1, <3>2 DEF p
  <2>2. ListedUpTo(k)'
    <3> SUFFICES ASSUME NEW j \in 1..(k + 1), IsListed(archive[j].name)
                 PROVE  Relative(archive[j].name) \in Range(entries')
      BY <1>1, <1>2 DEF ListedUpTo, HasEntry
    <3>1. CASE j = k + 1
      BY <1>4, <3>1 DEF p
    <3>2. CASE j \in 1..k
      BY <1>3, <1>4, <3>2 DEF ListedUpTo, HasEntry
    <3> QED BY <1>1, <3>1, <3>2
  <2> QED BY <1>1, <1>4, <2>1, <2>2 DEF Listing
<1>8. UnpacksAsDeclared' /\ NoFalseAlarm'
  BY <1>1 DEF IInv, TypeOK, UnpacksAsDeclared, NoFalseAlarm
<1> QED BY <1>5, <1>6, <1>7, <1>8 DEF IInv

LEMMA OpenedStep ==
  ASSUME IInv, Opened
  PROVE  IInv'
<1>1. /\ phase = "list" /\ phase' = "check" /\ k = Len(archive)
      /\ UNCHANGED <<declared, archive, faults, k, roots, root, entries, code>>
  BY DEF Opened, producerVars, fileVars, readerVars
<1>2. TypeOK'
  BY <1>1 DEF IInv, TypeOK
<1>3. Resolving'
  BY <1>1 DEF IInv, Resolving, ResolvedUpTo
<1>4. Listing'
  BY <1>1 DEF IInv, Listing, ListedUpTo, IsListed, Relative, HasEntry
<1>5. UnpacksAsDeclared' /\ NoFalseAlarm'
  BY <1>1 DEF IInv, TypeOK, UnpacksAsDeclared, NoFalseAlarm
<1> QED BY <1>2, <1>3, <1>4, <1>5 DEF IInv

LEMMA ChecksStep ==
  ASSUME IInv, RunChecks
  PROVE  IInv'
<1>1. /\ phase = "check" /\ phase' = "done" /\ code' \in ResultCodes
      /\ UNCHANGED <<declared, archive, faults, k, roots, root, entries>>
      /\ UNCHANGED <<producerVars, fileVars>>
  BY DEF RunChecks, Fail, ResultCodes, producerVars, fileVars, readerVars
<1>2. TypeOK'
  BY <1>1 DEF IInv, TypeOK
<1>3. Resolving'
  BY <1>1 DEF IInv, Resolving, ResolvedUpTo
<1>4. Listing'
  BY <1>1 DEF IInv, Listing, IsListed, Relative
<1>5. code' = "VALID" <=>
        manifest_loaded /\ artifacts_present /\ artifact_hashes /\ no_undeclared_files
  BY DEF RunChecks, Fail
<1>6. UnpacksAsDeclared'
  <2> SUFFICES ASSUME code' = "VALID"
               PROVE  /\ Orderly => ArtifactsAsDeclared
                      /\ \A j \in 1..Len(archive) :
                           (IsFile(j) /\ Plain(archive[j].name)) =>
                             Tail(Clean(archive[j].name)) \notin ArtifactPlaces \ DOMAIN declared
    BY <1>1, SameFiles DEF UnpacksAsDeclared
  <2> QED BY <1>1, <1>5, ChecksMean
<1>7. NoFalseAlarm'
  BY <1>1, <1>5, ChecksPass, SameFiles DEF NoFalseAlarm
<1> QED BY <1>2, <1>3, <1>4, <1>6, <1>7 DEF IInv

-----------------------------------------------------------------------------
\* The results.

\* The invariant of the reader: what its two loops know of the entries they have
\* seen, and what its result says of the archive.
THEOREM InvariantHolds == Spec => []IInv
<1>1. Init => IInv
  BY InitIInv
<1>2. IInv /\ [Next]_vars => IInv'
  <2> SUFFICES ASSUME IInv, [Next]_vars
               PROVE  IInv'
    OBVIOUS
  <2>1. CASE \E p \in ArtifactPaths, c \in Contents : PackArtifact(p, c)
    BY <2>1, PackStep
  <2>2. CASE Ship
    BY <2>2, ShipStep
  <2>3. CASE Damage
    BY <2>3, DamageStep
  <2>4. CASE StartReading
    BY <2>4, StartStep
  <2>5. CASE Verify
    BY <2>5, ResolveStep, RootsFoundStep, ListStep, OpenedStep, ChecksStep DEF Verify
  <2>6. CASE UNCHANGED vars
    <3>1. UNCHANGED <<declared, archive, faults, phase, k, roots, root, entries, code>>
          /\ UNCHANGED <<producerVars, fileVars>>
      BY <2>6 DEF vars, producerVars, fileVars
    <3> QED BY <3>1, SameFiles DEF IInv, TypeOK, Resolving, ResolvedUpTo, Listing, ListedUpTo,
            IsListed, Relative, HasEntry, UnpacksAsDeclared, NoFalseAlarm
  <2> QED BY <2>1, <2>2, <2>3, <2>4, <2>5, <2>6 DEF Next, Done
<1> QED BY <1>1, <1>2, PTL DEF Spec

\* Every variable keeps its type, no loop runs past the archive, and a run that
\* is done has a result.
THEOREM TypesHold == Spec => []TypeOK
<1>1. IInv => TypeOK
  BY DEF IInv
<1> QED BY <1>1, InvariantHolds, PTL

\* resolveRoot lets an archive through only if everything in it unpacks below the
\* root it returns, whatever path.Clean makes of the names.
THEOREM RootIsTheOnlyOne == Spec => []RootIsCommon
<1>1. IInv => RootIsCommon
  BY DEF IInv, Resolving, ResolvedUpTo, RootOf, RootIsCommon
<1> QED BY <1>1, InvariantHolds, PTL

\* ReadEntry finds every name that Open listed.
THEOREM ListedNamesAreRead == Spec => []ListedIsRead
<1>1. IInv => ListedIsRead
  <2> SUFFICES ASSUME IInv, NEW p \in Range(entries)
               PROVE  Matches(p) # {}
    BY DEF ListedIsRead
  <2>1. PICK j \in 1..Len(archive) : IsListed(archive[j].name) /\ p = Relative(archive[j].name)
    BY DEF IInv, Listing
  <2>2. archive[j].name \in Seq(Spelling) /\ archive[j].name # <<>>
    BY NamesAre DEF IInv, TypeOK, IsEntry
  <2>3. archive[j].name = <<root>> \o p
    BY <2>1, <2>2, Rejoined DEF IsListed, Relative
  <2> QED BY <2>3 DEF Matches
<1> QED BY <1>1, InvariantHolds, PTL

\* A VALID bundle of clean and distinct names unpacks to the artifacts that were
\* declared, and in any other no undeclared file has a clean name under artifacts/
\* or derived/.
THEOREM ValidUnpacksAsDeclared == Spec => []UnpacksAsDeclared
<1>1. IInv => UnpacksAsDeclared
  BY DEF IInv
<1> QED BY <1>1, InvariantHolds, PTL

\* An archive of clean and distinct names that unpacks to what was declared is
\* VALID, in whatever order its entries are and whatever else is in it.
THEOREM RepackedBundlesDoNotFail == Spec => []NoFalseAlarm
<1>1. IInv => NoFalseAlarm
  BY DEF IInv
<1> QED BY <1>1, InvariantHolds, PTL
=============================================================================
