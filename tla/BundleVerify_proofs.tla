------------------------ MODULE BundleVerify_proofs ------------------------
(***************************************************************************)
(* Proofs about bundle verification for every set of bundles, drafts, keys *)
(* and paths and every number of damages.  The invariant IInv of           *)
(* BundleVerify is inductive: it says where the signature file, the token  *)
(* and the log of a damaged bundle can come from, and that the recorded    *)
(* checks are the answers of the file.  That a verdict is sound and no     *)
(* alarm is false then follow in the state the run ends in.                *)
(***************************************************************************)
EXTENDS BundleVerify, CommonTheorems, TLAPS

-----------------------------------------------------------------------------
\* Data.

LEMMA DataFields ==
  ASSUME NEW k, NEW v
  PROVE  /\ Data(k, v).kind = k
         /\ Data(k, v).value = v
BY DEF Data

\* A signature is nothing but itself.
LEMMA SignaturesDiffer ==
  ASSUME NEW k, NEW h, NEW l, NEW g
  PROVE  /\ Sign(k, h) = Sign(l, g) => k = l /\ h = g
         /\ Sign(k, h) # Garbage
<1>1. Sign(k, h).key = k /\ Sign(k, h).signed = h /\ Sign(l, g).key = l /\ Sign(l, g).signed = g
  BY DEF Sign
<1>2. DOMAIN Sign(k, h) = {"key", "signed"} /\ DOMAIN Garbage = {"garbage"}
  BY DEF Sign, Garbage
<1> QED BY <1>1, <1>2

\* The names of the entries the archive has of its own.
LEMMA EntryNames ==
  /\ FixedEntries = {Manifest, ManifestSHA256, ManifestSig, VerifyTxt, AuditLog, SigningKey,
                     ManifestTSR}
  /\ requiredEntries \subseteq FixedEntries
  /\ Manifest \notin {ManifestSHA256, ManifestSig, VerifyTxt, AuditLog, SigningKey, ManifestTSR}
  /\ ManifestSig \notin {ManifestSHA256, VerifyTxt, AuditLog, SigningKey, ManifestTSR}
  /\ AuditLog \notin {ManifestSHA256, VerifyTxt, SigningKey, ManifestTSR}
  /\ SigningKey \notin {ManifestSHA256, VerifyTxt, ManifestTSR}
  /\ ManifestTSR \notin {ManifestSHA256, VerifyTxt}
  /\ \A n \in StoredPaths : n \notin FixedEntries
BY BundleAssumption
   DEF FixedEntries, requiredEntries, Manifest, ManifestSHA256, ManifestSig, VerifyTxt, AuditLog,
       SigningKey, ManifestTSR

\* What a sealed bundle has under each name.
LEMMA SealedDataAt ==
  ASSUME NEW b, NEW d
  PROVE  /\ SealedData(b, d, Manifest) = Data("manifest", ManifestOf(b, d))
         /\ SealedData(b, d, ManifestSig) = Data("signature", SignatureOf(b, d))
         /\ SealedData(b, d, SigningKey) = Data("pem", d.key)
         /\ SealedData(b, d, AuditLog) = Data("log", b)
         /\ SealedData(b, d, ManifestTSR)
              = Data("tsr", [hashAlgorithm |-> d.stamp, imprint |-> SHA256(ManifestOf(b, d))])
BY DEF SealedData, Manifest, ManifestSig, SigningKey, AuditLog, ManifestTSR, ManifestSHA256,
       VerifyTxt

LEMMA SealedDataIsData ==
  ASSUME NEW b, NEW d, NEW n
  PROVE  SealedData(b, d, n) = Data(SealedData(b, d, n).kind, SealedData(b, d, n).value)
<1>1. CASE n \in {ManifestSHA256, VerifyTxt}
  <2>1. SealedData(b, d, n) = Data("text", b)
    BY <1>1 DEF SealedData, Manifest, ManifestSig, SigningKey, AuditLog, ManifestTSR,
                ManifestSHA256, VerifyTxt
  <2> QED BY <2>1, DataFields
<1>2. CASE n \notin FixedEntries
  <2>1. SealedData(b, d, n) = PackedFile(d, n)
    BY <1>2, EntryNames DEF SealedData
  <2>2. PackedFile(d, n) = Data("file", PackedFile(d, n).value)
    BY DataFields DEF PackedFile, File
  <2> QED BY <2>1, <2>2, DataFields
<1>3. CASE n \in {Manifest, ManifestSig, SigningKey, AuditLog, ManifestTSR}
  BY <1>3, SealedDataAt DEF Data
<1> QED BY <1>1, <1>2, <1>3, EntryNames

\* A draft's declared paths are paths, but for the missing ones.
LEMMA DeclaredPaths ==
  ASSUME NEW d \in Drafts
  PROVE  /\ \A k \in DOMAIN d.artifacts : d.artifacts[k] \in ArtifactDrafts
         /\ Declared(d.artifacts) \subseteq StoredPaths \cup {NoPath}
         /\ SealedEntries(d) \subseteq FixedEntries \cup StoredPaths
<1>1. d.artifacts \in Seq(ArtifactDrafts)
  BY BundleAssumption DEF IsDraft
<1>2. \A k \in DOMAIN d.artifacts : d.artifacts[k] \in ArtifactDrafts
  BY <1>1
<1>3. Declared(d.artifacts) \subseteq StoredPaths \cup {NoPath}
  BY <1>2 DEF Declared, ArtifactDrafts
<1> QED BY <1>2, <1>3, EntryNames DEF SealedEntries, FixedEntries

-----------------------------------------------------------------------------
\* Provenance survives every damage.

\* An entry that is written may carry what it carries from a sealing.
Origin(n, d) ==
  /\ d = Data(d.kind, d.value)
  /\ n = ManifestSig /\ d.kind = "signature" =>
       \E b \in Bundles : IsSealed(b) /\ d.value \in SignatureFiles(b)
  /\ n = ManifestTSR /\ d.kind = "tsr" =>
       \E b \in Bundles :
         /\ IsSealed(b)
         /\ sealed[b].stamp # "none"
         /\ d = SealedData(b, sealed[b], ManifestTSR)
  /\ n = AuditLog /\ d.kind = "log" => d.value \in Bundles

LEMMA ProvenanceIsOrigin ==
  Provenance <=> \A n \in DOMAIN zip : Origin(n, zip[n])
BY DEF Provenance, Origin, Parses

\* What was sealed under a name has the origin an entry of that name needs.
LEMMA SealedDataOrigin ==
  ASSUME TypeOK, NEW b \in Bundles, IsSealed(b), NEW n \in SealedEntries(sealed[b])
  PROVE  Origin(n, SealedData(b, sealed[b], n))
<1> DEFINE d == SealedData(b, sealed[b], n)
<1>1. d = Data(d.kind, d.value)
  BY SealedDataIsData
<1>2. ASSUME n = ManifestSig
      PROVE  d.value \in SignatureFiles(b)
  BY <1>2, SealedDataAt DEF Data, SignatureFiles, SignatureOf
<1>3. ASSUME n = ManifestTSR
      PROVE  sealed[b].stamp # "none"
  <2>1. ManifestTSR \notin Declared(sealed[b].artifacts) \ {NoPath}
    BY DeclaredPaths, EntryNames DEF IsSealed, TypeOK, FixedEntries
  <2> QED BY <1>3, <2>1, EntryNames DEF SealedEntries, requiredEntries
<1>4. ASSUME n = AuditLog
      PROVE  d.value \in Bundles
  BY <1>4, SealedDataAt DEF Data
<1> QED BY <1>1, <1>2, <1>3, <1>4 DEF Origin

\* An entry that is written leaves the rest where it came from.
LEMMA PutKeepsProvenance ==
  ASSUME Provenance, NEW n, NEW d, Origin(n, d), Put(n, d), UNCHANGED sealed
  PROVE  Provenance'
<1>1. \A m \in DOMAIN zip : Origin(m, zip[m])
  BY ProvenanceIsOrigin
<1>2. DOMAIN zip' = DOMAIN zip \cup {n} /\ \A m \in DOMAIN zip' : zip'[m] = IF m = n THEN d ELSE zip[m]
  BY DEF Put
<1>3. \A m \in DOMAIN zip' : Origin(m, zip'[m])
  BY <1>1, <1>2
<1> QED BY <1>3 DEF Provenance, Origin, Parses, IsSealed, SignatureFiles

LEMMA LossKeepsProvenance ==
  ASSUME Provenance, NEW n, zip' = [m \in DOMAIN zip \ {n} |-> zip[m]], UNCHANGED sealed
  PROVE  Provenance'
<1>1. \A m \in DOMAIN zip : Origin(m, zip[m])
  BY ProvenanceIsOrigin
<1>2. DOMAIN zip' \subseteq DOMAIN zip /\ \A m \in DOMAIN zip' : zip'[m] = zip[m]
  OBVIOUS
<1>3. \A m \in DOMAIN zip' : Origin(m, zip'[m])
  BY <1>1, <1>2
<1> QED BY <1>3 DEF Provenance, Origin, Parses, IsSealed, SignatureFiles

\* A signature file with one field damaged is still of the sealing it was of.
LEMMA AlteredSignatureFile ==
  ASSUME NEW b, NEW s \in SignatureFiles(b)
  PROVE  /\ [s EXCEPT !.manifest_hash = Garbage] \in SignatureFiles(b)
         /\ [s EXCEPT !.signature = Garbage] \in SignatureFiles(b)
         /\ [s EXCEPT !.public_key_pem = Garbage] \in SignatureFiles(b)
         /\ [s EXCEPT !.signed_at = "later"] \in SignatureFiles(b)
BY DEF SignatureFiles

LEMMA DamageKeepsProvenance ==
  ASSUME TypeOK, Provenance, Damage
  PROVE  Provenance'
<1> USE DEF Fault, producerVars
<1>1. ASSUME NEW n \in DOMAIN zip, LoseEntry(n)
      PROVE  Provenance'
  BY <1>1, LossKeepsProvenance DEF LoseEntry
<1>2. ASSUME NEW n \in DOMAIN zip, CorruptEntry(n)
      PROVE  Provenance'
  <2>1. PICK d \in {Garbled, Unreadable} : Put(n, d)
    BY <1>2 DEF CorruptEntry
  <2>2. Origin(n, d)
    BY <2>1 DEF Origin, Garbled, Unreadable, Data
  <2> QED BY <1>2, <2>1, <2>2, PutKeepsProvenance DEF CorruptEntry
<1>3. ASSUME NEW b \in Bundles, NEW n, MixEntry(b, n)
      PROVE  Provenance'
  BY <1>3, SealedDataOrigin, PutKeepsProvenance DEF MixEntry
<1>4. ASSUME NEW n \in StoredPaths, AddFile(n)
      PROVE  Provenance'
  <2>1. PICK c \in Contents : Put(n, File(c))
    BY <1>4 DEF AddFile
  <2>2. Origin(n, File(c))
    BY EntryNames DEF Origin, File, Data
  <2> QED BY <1>4, <2>1, <2>2, PutKeepsProvenance DEF AddFile
<1>5. ASSUME AlterManifest
      PROVE  Provenance'
  <2>1. PICK m : Put(Manifest, Data("manifest", m))
    BY <1>5 DEF AlterManifest
  <2>2. Origin(Manifest, Data("manifest", m))
    BY EntryNames DEF Origin, Data
  <2> QED BY <1>5, <2>1, <2>2, PutKeepsProvenance DEF AlterManifest
<1>6. ASSUME AlterSignature
      PROVE  Provenance'
  <2>1. PICK b \in Bundles : IsSealed(b) /\ zip[ManifestSig].value \in SignatureFiles(b)
    BY <1>6 DEF AlterSignature, Provenance, Parses
  <2>2. PICK s \in SignatureFiles(b) : Put(ManifestSig, Data("signature", s))
    BY <1>6, <2>1, AlteredSignatureFile DEF AlterSignature
  <2>3. Origin(ManifestSig, Data("signature", s))
    BY <2>1, <2>2, EntryNames DEF Origin, Data
  <2> QED BY <1>6, <2>2, <2>3, PutKeepsProvenance DEF AlterSignature
<1>7. ASSUME RenameRoot
      PROVE  Provenance'
  BY <1>7 DEF RenameRoot, Provenance, Parses, IsSealed, SignatureFiles
<1> QED BY <1>1, <1>2, <1>3, <1>4, <1>5, <1>6, <1>7 DEF Damage

-----------------------------------------------------------------------------
\* The run.

LEMMA TenChecks == Len(CheckOrder) = 10
BY DEF CheckOrder

LEMMA OrderOfChecks ==
  /\ Len(CheckOrder) = 10
  /\ DOMAIN CheckOrder = 1..10
  /\ CheckNames = {"manifest_present", "signature_present", "signature_valid",
                   "manifest_hash_matches", "artifacts_present", "artifact_hashes",
                   "no_undeclared_files", "audit_chain", "timestamp_token", "policy_compliance"}
  /\ \A k \in 1..10 : CheckOrder[k] \in CheckNames
  /\ CheckOrder[1] = "manifest_present"
BY DEF CheckOrder, CheckNames

\* Every failure has a code of its own, of which none is VALID.
LEMMA FailureCodes ==
  ASSUME NEW name \in CheckNames
  PROVE  FailureCode(name) \in ResultCodes \ {"VALID", "none"}
BY OrderOfChecks DEF FailureCode, ResultCodes, codePriority

LEMMA MoreCodes == {"MANIFEST_MISSING", "VALID"} \subseteq ResultCodes
BY DEF ResultCodes, codePriority

\* A check that has passed or failed stays so: nothing writes to the file.
LEMMA PassesUnchanged ==
  ASSUME UNCHANGED <<zip, root>>, NEW name \in CheckNames
  PROVE  Passes(name)' <=> Passes(name)
BY OrderOfChecks
   DEF Passes, manifest_present, signature_present, signature_valid, manifest_hash_matches,
       artifacts_present, artifact_hashes, no_undeclared_files, audit_chain, timestamp_token,
       policy_compliance, HasEntry, manifest, sig

LEMMA PassedUpToStays ==
  ASSUME UNCHANGED <<zip, root>>, NEW k \in 0..10, PassedUpTo(k),
         \A j \in 1..k : checks'[j] = checks[j]
  PROVE  PassedUpTo(k)'
<1> SUFFICES ASSUME NEW j \in 1..k
             PROVE  checks'[j] = CheckResult(CheckOrder[j], "PASS") /\ Passes(CheckOrder[j])'
  BY DEF PassedUpTo
<1>1. checks[j] = CheckResult(CheckOrder[j], "PASS") /\ Passes(CheckOrder[j])
  BY DEF PassedUpTo
<1>2. CheckOrder[j] \in CheckNames
  BY OrderOfChecks
<1>3. Passes(CheckOrder[j])' <=> Passes(CheckOrder[j])
  BY <1>2, PassesUnchanged
<1> QED BY <1>1, <1>3

\* One more result is recorded.
LEMMA RecordedCheck ==
  ASSUME TypeOK, NEW name \in CheckNames, NEW r \in {"PASS", "FAIL"},
         checks' = Append(checks, CheckResult(name, r))
  PROVE  /\ Len(checks) \in Nat
         /\ checks' \in Seq([name : CheckNames, result : {"PASS", "FAIL"}])
         /\ Len(checks') = Len(checks) + 1
         /\ checks'[Len(checks) + 1] = CheckResult(name, r)
         /\ \A j \in 1..Len(checks) : checks'[j] = checks[j]
BY AppendProperties, LenProperties DEF TypeOK, CheckResult

LEMMA OpenKeepsInv ==
  ASSUME IInv, Open
  PROVE  IInv'
<1> USE DEF producerVars, fileVars, verifierVars
<1>1. UNCHANGED <<sealed, zip, root, faults>> /\ phase = "transit" /\ checks = <<>> /\ code = "none"
  BY DEF Open, IInv, Progress
<1>2. Provenance'
  BY <1>1 DEF IInv, Provenance, Parses, IsSealed, SignatureFiles
<1>3. CASE ~Openable
  <2>1. checks' = <<CheckResult("manifest_present", "FAIL")>> /\ code' = "MANIFEST_MISSING" /\ phase' = "done"
    BY <1>3 DEF Open
  <2>2. TypeOK'
    BY <1>1, <2>1, OrderOfChecks, MoreCodes DEF IInv, TypeOK, CheckResult, Phases
  <2>3. Progress'
    BY <1>1, <1>3, <2>1 DEF Progress, Openable
  <2> QED BY <1>2, <2>2, <2>3 DEF IInv
<1>4. CASE Openable
  <2>1. phase' = "verify" /\ UNCHANGED <<checks, code>>
    BY <1>4 DEF Open
  <2>2. TypeOK'
    BY <1>1, <2>1 DEF IInv, TypeOK, Phases
  <2>3. Progress'
    BY <1>1, <1>4, <2>1, OrderOfChecks DEF Progress, Openable, PassedUpTo
  <2> QED BY <1>2, <2>2, <2>3 DEF IInv
<1> QED BY <1>3, <1>4

LEMMA PassCheckKeepsInv ==
  ASSUME IInv, RunCheck, PassCheck
  PROVE  IInv'
<1> USE DEF producerVars, fileVars
<1>0. PICK k \in Nat : k = Len(checks)
  BY LenProperties DEF IInv, TypeOK
<1>1. /\ UNCHANGED <<sealed, zip, root, faults, phase, code>>
      /\ phase = "verify" /\ k < 10 /\ Openable /\ code = "none" /\ PassedUpTo(k)
  BY <1>0, OrderOfChecks DEF RunCheck, PassCheck, IInv, Progress
<1>2. k \in 0..9
  BY <1>1
<1>3. CheckOrder[k + 1] \in CheckNames
  BY <1>2, OrderOfChecks
<1>4. checks' = Append(checks, CheckResult(CheckOrder[k + 1], "PASS")) /\ Passes(CheckOrder[k + 1])
  BY <1>0 DEF PassCheck, NextCheck
<1>5. /\ checks' \in Seq([name : CheckNames, result : {"PASS", "FAIL"}])
      /\ Len(checks') = k + 1
      /\ checks'[k + 1] = CheckResult(CheckOrder[k + 1], "PASS")
      /\ \A j \in 1..k : checks'[j] = checks[j]
  BY <1>0, <1>3, <1>4, RecordedCheck DEF IInv
<1>6. PassedUpTo(k)'
  BY <1>1, <1>2, <1>5, PassedUpToStays
<1>7. Passes(CheckOrder[k + 1])'
  BY <1>1, <1>3, <1>4, PassesUnchanged
<1>8. PassedUpTo(k + 1)'
  BY <1>2, <1>4, <1>5, <1>6, <1>7 DEF PassedUpTo
<1>9. Progress'
  BY <1>1, <1>2, <1>5, <1>8, OrderOfChecks DEF Progress, Openable
<1>10. TypeOK' /\ Provenance'
  BY <1>1, <1>5 DEF IInv, TypeOK, Provenance, Parses, IsSealed, SignatureFiles
<1> QED BY <1>9, <1>10 DEF IInv

LEMMA FailCheckKeepsInv ==
  ASSUME IInv, RunCheck, FailCheck
  PROVE  IInv'
<1> USE DEF producerVars, fileVars
<1>0. PICK k \in Nat : k = Len(checks)
  BY LenProperties DEF IInv, TypeOK
<1>1. /\ UNCHANGED <<sealed, zip, root, faults>>
      /\ phase = "verify" /\ k < 10 /\ Openable /\ PassedUpTo(k)
      /\ phase' = "done"
  BY <1>0, OrderOfChecks DEF RunCheck, FailCheck, IInv, Progress
<1>2. k \in 0..9
  BY <1>1
<1>3. CheckOrder[k + 1] \in CheckNames
  BY <1>2, OrderOfChecks
<1>4. /\ checks' = Append(checks, CheckResult(CheckOrder[k + 1], "FAIL"))
      /\ ~Passes(CheckOrder[k + 1])
      /\ code' = FailureCode(CheckOrder[k + 1])
  BY <1>0 DEF FailCheck, NextCheck
<1>5. /\ checks' \in Seq([name : CheckNames, result : {"PASS", "FAIL"}])
      /\ Len(checks') = k + 1
      /\ checks'[k + 1] = CheckResult(CheckOrder[k + 1], "FAIL")
      /\ \A j \in 1..k : checks'[j] = checks[j]
  BY <1>0, <1>3, <1>4, RecordedCheck DEF IInv
<1>6. PassedUpTo(k)'
  BY <1>1, <1>2, <1>5, PassedUpToStays
<1>7. ~Passes(CheckOrder[k + 1])'
  BY <1>1, <1>3, <1>4, PassesUnchanged
<1>8. k + 1 \in DOMAIN CheckOrder /\ (k + 1) - 1 = k
  BY <1>2, OrderOfChecks
<1>9. Progress'
  <2>1. \E m \in DOMAIN CheckOrder :
          /\ Openable'
          /\ Len(checks') = m
          /\ PassedUpTo(m - 1)'
          /\ checks'[m] = CheckResult(CheckOrder[m], "FAIL")
          /\ ~Passes(CheckOrder[m])'
          /\ code' = FailureCode(CheckOrder[m])
    BY <1>1, <1>4, <1>5, <1>6, <1>7, <1>8 DEF Openable
  <2> QED BY <1>1, <2>1 DEF Progress
<1>10. TypeOK' /\ Provenance'
  <2>1. code' \in ResultCodes
    BY <1>3, <1>4, FailureCodes
  <2> QED BY <1>1, <1>5, <2>1 DEF IInv, TypeOK, Phases, Provenance, Parses, IsSealed, SignatureFiles
<1> QED BY <1>9, <1>10 DEF IInv

LEMMA AllPassedKeepsInv ==
  ASSUME IInv, AllPassed
  PROVE  IInv'
<1> USE DEF producerVars, fileVars
<1>1. /\ UNCHANGED <<sealed, zip, root, faults, checks>>
      /\ phase = "verify" /\ Len(checks) = 10 /\ Openable /\ PassedUpTo(10)
      /\ phase' = "done" /\ code' = "VALID"
  BY OrderOfChecks DEF AllPassed, IInv, Progress
<1>2. PassedUpTo(10)'
  BY <1>1, PassedUpToStays
<1>3. Progress'
  BY <1>1, <1>2, OrderOfChecks DEF Progress, Openable
<1>4. TypeOK' /\ Provenance'
  BY <1>1, MoreCodes DEF IInv, TypeOK, Phases, Provenance, Parses, IsSealed, SignatureFiles
<1> QED BY <1>3, <1>4 DEF IInv

LEMMA SealKeepsInv ==
  ASSUME IInv, NEW b \in Bundles, NEW d \in Drafts, Seal(b, d)
  PROVE  IInv'
<1>1. /\ UNCHANGED <<zip, root, faults, phase, checks, code>>
      /\ phase = "seal" /\ DOMAIN zip = {}
      /\ sealed' = [sealed EXCEPT ![b] = d]
  BY DEF Seal, fileVars, verifierVars, IInv, Progress
<1>2. TypeOK'
  BY <1>1 DEF IInv, TypeOK
<1>3. Provenance' /\ Progress'
  BY <1>1 DEF IInv, Provenance, Progress, Parses
<1> QED BY <1>2, <1>3 DEF IInv

LEMMA ShipKeepsInv ==
  ASSUME IInv, NEW b \in Bundles, Ship(b)
  PROVE  IInv'
<1>1. /\ UNCHANGED <<sealed, faults, checks, code>>
      /\ phase = "seal" /\ phase' = "transit" /\ root' = b /\ IsSealed(b)
      /\ zip' = [n \in SealedEntries(sealed[b]) |-> SealedData(b, sealed[b], n)]
  BY DEF Ship, producerVars, verifierVars, SealedZip
<1>2. TypeOK'
  BY <1>1, DeclaredPaths DEF IInv, TypeOK, IsSealed, Phases
<1>3. Provenance'
  <2>1. DOMAIN zip' = SealedEntries(sealed[b])
        /\ \A n \in DOMAIN zip' : zip'[n] = SealedData(b, sealed[b], n)
    BY <1>1
  <2>2. \A n \in DOMAIN zip' : Origin(n, zip'[n])
    BY <1>1, <2>1, SealedDataOrigin DEF IInv
  <2> QED BY <1>1, <2>2 DEF Provenance, Origin, Parses, IsSealed, SignatureFiles
<1>4. Progress'
  BY <1>1 DEF IInv, Progress
<1> QED BY <1>2, <1>3, <1>4 DEF IInv

LEMMA DamageKeepsInv ==
  ASSUME IInv, Damage
  PROVE  IInv'
<1> USE DEF Fault, producerVars, verifierVars
<1>1. /\ UNCHANGED <<sealed, phase, checks, code>>
      /\ phase = "transit" /\ faults < MaxFaults /\ faults' = faults + 1
  BY DEF Damage, LoseEntry, CorruptEntry, MixEntry, AddFile, AlterManifest, AlterSignature,
         RenameRoot
<1>2. DOMAIN zip' \subseteq FixedEntries \cup StoredPaths /\ root' \in Bundles \cup {NoRoot}
  <2>1. ASSUME NEW n \in FixedEntries \cup StoredPaths, NEW d, Put(n, d)
        PROVE  DOMAIN zip' \subseteq FixedEntries \cup StoredPaths
    BY <2>1 DEF Put, IInv, TypeOK
  <2>2. ASSUME UNCHANGED zip
        PROVE  DOMAIN zip' \subseteq FixedEntries \cup StoredPaths
    BY <2>2 DEF IInv, TypeOK
  <2>3. ASSUME NEW n \in DOMAIN zip, LoseEntry(n)
        PROVE  DOMAIN zip' \subseteq FixedEntries \cup StoredPaths
    BY <2>3 DEF LoseEntry, IInv, TypeOK
  <2>4. DOMAIN zip \subseteq FixedEntries \cup StoredPaths
    BY DEF IInv, TypeOK
  <2>5. root' \in Bundles \cup {NoRoot}
    BY DEF Damage, LoseEntry, CorruptEntry, MixEntry, AddFile, AlterManifest, AlterSignature,
           RenameRoot, IInv, TypeOK
  <2>6. ASSUME NEW n \in DOMAIN zip, CorruptEntry(n)
        PROVE  DOMAIN zip' \subseteq FixedEntries \cup StoredPaths
    BY <2>1, <2>4, <2>6 DEF CorruptEntry
  <2>7. ASSUME NEW b \in Bundles, NEW n \in FixedEntries \cup StoredPaths, MixEntry(b, n)
        PROVE  DOMAIN zip' \subseteq FixedEntries \cup StoredPaths
    BY <2>1, <2>7 DEF MixEntry
  <2>8. ASSUME NEW n \in StoredPaths, AddFile(n)
        PROVE  DOMAIN zip' \subseteq FixedEntries \cup StoredPaths
    BY <2>1, <2>8 DEF AddFile
  <2>9. ASSUME AlterManifest \/ AlterSignature
        PROVE  DOMAIN zip' \subseteq FixedEntries \cup StoredPaths
    BY <2>1, <2>4, <2>9 DEF AlterManifest, AlterSignature
  <2> QED BY <2>2, <2>3, <2>5, <2>6, <2>7, <2>8, <2>9 DEF Damage, RenameRoot
<1>3. TypeOK'
  BY <1>1, <1>2, BundleAssumption DEF IInv, TypeOK
<1>4. Provenance'
  BY DamageKeepsProvenance DEF IInv
<1>5. Progress'
  BY <1>1 DEF IInv, Progress
<1> QED BY <1>3, <1>4, <1>5 DEF IInv

\* The invariant holds in every state of every behaviour.
THEOREM InvariantHolds == Spec => []IInv
<1>1. Init => IInv
  <2> SUFFICES ASSUME Init PROVE IInv
    OBVIOUS
  <2>1. DOMAIN zip = {}
    BY DEF Init
  <2>2. TypeOK
    BY <2>1, BundleAssumption DEF Init, TypeOK, Phases
  <2> QED BY <2>1, <2>2 DEF Init, IInv, Provenance, Progress, Parses
<1>2. IInv /\ [Next]_vars => IInv'
  <2> SUFFICES ASSUME IInv, [Next]_vars
               PROVE  IInv'
    OBVIOUS
  <2>1. ASSUME UNCHANGED vars
        PROVE  IInv'
    <3>1. UNCHANGED <<sealed, zip, root, faults, phase, checks, code>>
      BY <2>1 DEF vars
    <3>2. TypeOK' /\ Provenance'
      BY <3>1 DEF IInv, TypeOK, Provenance, Parses, IsSealed, SignatureFiles
    <3>3. CASE phase = "verify"
      <4>1. PICK k \in Nat : k = Len(checks)
        BY LenProperties DEF IInv, TypeOK
      <4>2. k <= Len(CheckOrder) /\ PassedUpTo(k)
        BY <3>3, <4>1 DEF IInv, Progress
      <4>3. k \in 0..10
        BY <4>2, TenChecks
      <4>4. PassedUpTo(k)'
        BY <3>1, <4>2, <4>3, PassedUpToStays
      <4> QED BY <3>1, <3>2, <3>3, <4>1, <4>4 DEF IInv, Progress, Openable
    <3>4. CASE phase = "done" /\ code = "VALID" /\ Len(checks) = Len(CheckOrder) /\ PassedUpTo(Len(checks))
      <4>1. PassedUpTo(10)'
        BY <3>1, <3>4, OrderOfChecks, PassedUpToStays
      <4> QED BY <3>1, <3>2, <3>4, <4>1, OrderOfChecks, FailureCodes DEF IInv, Progress, Openable
    <3>5. ASSUME phase = "done", NEW k \in DOMAIN CheckOrder,
                 Openable, Len(checks) = k, PassedUpTo(k - 1),
                 checks[k] = CheckResult(CheckOrder[k], "FAIL"),
                 ~Passes(CheckOrder[k]), code = FailureCode(CheckOrder[k])
          PROVE  IInv'
      <4>1. PassedUpTo(k - 1)'
        BY <3>1, <3>5, OrderOfChecks, PassedUpToStays
      <4>2. ~Passes(CheckOrder[k])'
        BY <3>1, <3>5, OrderOfChecks, PassesUnchanged
      <4>3. Progress'
        BY <3>1, <3>5, <4>1, <4>2 DEF Progress, Openable
      <4> QED BY <3>2, <4>3 DEF IInv
    <3>6. CASE phase = "done" /\ ~Openable
      BY <3>1, <3>2, <3>6 DEF IInv, Progress, Openable
    <3>7. CASE phase \notin {"verify", "done"}
      BY <3>1, <3>2, <3>7 DEF IInv, Progress
    <3> QED BY <3>3, <3>4, <3>5, <3>6, <3>7 DEF IInv, Progress
  <2>2. ASSUME NEW b \in Bundles, Ship(b)
        PROVE  IInv'
    BY <2>2, ShipKeepsInv
  <2>3. ASSUME NEW b \in Bundles, NEW d \in Drafts, Seal(b, d)
        PROVE  IInv'
    BY <2>3, SealKeepsInv
  <2>4. CASE Damage
    BY <2>4, DamageKeepsInv
  <2>5. CASE Open
    BY <2>5, OpenKeepsInv
  <2>6. CASE Verify
    BY <2>6, PassCheckKeepsInv, FailCheckKeepsInv, AllPassedKeepsInv DEF Verify, RunCheck
  <2> QED BY <2>1, <2>2, <2>3, <2>4, <2>5, <2>6 DEF Next, Done
<1> QED BY <1>1, <1>2, PTL DEF Spec

\* Every variable has its type throughout.
THEOREM TypesHold == Spec => []TypeOK
BY InvariantHolds, PTL DEF IInv

\* The recorded checks are those of section 12.1 in their order, and a failure
\* is the last of them and gives the code.
THEOREM FailuresEndRuns == Spec => []FailureEndsRun
<1>1. IInv => FailureEndsRun
  <2> SUFFICES ASSUME IInv, NEW k \in DOMAIN checks
               PROVE  /\ k <= Len(CheckOrder)
                      /\ checks[k].name = CheckOrder[k]
                      /\ checks[k].result = "PASS" /\ k = Len(checks) => code \in {"none", "VALID"}
                      /\ checks[k].result = "FAIL" =>
                           /\ k = Len(checks)
                           /\ phase = "done"
                           /\ code = FailureCode(CheckOrder[k])
    BY DEF FailureEndsRun
  <2>1. Len(checks) \in Nat /\ k \in 1..Len(checks)
    BY LenProperties DEF IInv, TypeOK
  <2>2. phase \in {"verify", "done"}
    BY <2>1 DEF IInv, TypeOK, Phases, Progress
  <2>3. ASSUME NEW n \in Nat, PassedUpTo(n), k <= n, n <= 10
        PROVE  /\ k <= Len(CheckOrder)
               /\ checks[k].name = CheckOrder[k]
               /\ checks[k].result = "PASS"
    <3>1. k \in 1..n
      BY <2>1, <2>3
    <3>2. checks[k] = CheckResult(CheckOrder[k], "PASS")
      BY <2>3, <3>1 DEF PassedUpTo
    <3>3. k <= Len(CheckOrder)
      BY <2>1, <2>3, TenChecks
    <3> QED BY <3>2, <3>3 DEF CheckResult
  <2>4. CASE phase = "verify"
    <3>1. Len(checks) <= 10 /\ PassedUpTo(Len(checks)) /\ code = "none"
      BY <2>4, OrderOfChecks DEF IInv, Progress
    <3> QED BY <2>1, <2>3, <3>1
  <2>5. CASE phase = "done" /\ code = "VALID" /\ Len(checks) = Len(CheckOrder) /\ PassedUpTo(Len(checks))
    BY <2>1, <2>3, <2>5, OrderOfChecks
  <2>6. ASSUME phase = "done", NEW n \in DOMAIN CheckOrder, Len(checks) = n, PassedUpTo(n - 1),
               checks[n] = CheckResult(CheckOrder[n], "FAIL"), code = FailureCode(CheckOrder[n])
        PROVE  /\ k <= Len(CheckOrder)
               /\ checks[k].name = CheckOrder[k]
               /\ checks[k].result = "PASS" => k # Len(checks)
               /\ checks[k].result = "FAIL" => k = Len(checks) /\ code = FailureCode(CheckOrder[k])
    <3>1. CASE k = n
      BY <2>1, <2>6, <3>1, OrderOfChecks DEF CheckResult
    <3>2. CASE k < n
      <4>1. n - 1 \in Nat /\ k <= n - 1 /\ n - 1 <= 10
        BY <2>1, <2>6, <3>2, OrderOfChecks
      <4> QED BY <2>1, <2>3, <2>6, <3>2, <4>1, OrderOfChecks
    <3> QED BY <2>1, <2>6, <3>1, <3>2, OrderOfChecks
  <2>7. CASE /\ phase = "done"
             /\ checks = <<CheckResult("manifest_present", "FAIL")>>
             /\ code = "MANIFEST_MISSING"
    <3>1. k = 1 /\ Len(checks) = 1 /\ checks[k] = CheckResult("manifest_present", "FAIL")
      BY <2>1, <2>7
    <3> QED BY <2>7, <3>1, OrderOfChecks DEF CheckResult, FailureCode
  <2> QED BY <2>2, <2>4, <2>5, <2>6, <2>7 DEF IInv, Progress
<1> QED BY <1>1, InvariantHolds, PTL

-----------------------------------------------------------------------------
\* What the checks say, given where the file comes from.

\* The first four checks tie the manifest to the sealing of this very root.
LEMMA ManifestIsSealed ==
  ASSUME IInv, Openable, manifest_present, signature_present, signature_valid,
         manifest_hash_matches
  PROVE  /\ ManifestIntact
         /\ SignatureIntact
         /\ Holds(SigningKey, Data("pem", sealed[root].key))
<1>1. PICK b \in Bundles : IsSealed(b) /\ sig \in SignatureFiles(b)
  BY DEF signature_present, HasEntry, sig, IInv, Provenance, Parses
<1> DEFINE h == SHA256(ManifestOf(b, sealed[b]))
<1>2. /\ sig = [manifest_hash |-> sig.manifest_hash, signature |-> sig.signature,
                public_key_pem |-> sig.public_key_pem, signed_at |-> sig.signed_at]
      /\ sig.manifest_hash \in {h, Garbage}
      /\ sig.signature \in {Sign(sealed[b].key, h), Garbage}
      /\ sig.signed_at \in {"sealing", "later"}
  BY <1>1 DEF SignatureFiles, SignatureOf
<1>3. sig.signature = Sign(sig.public_key_pem, sig.manifest_hash)
  BY DEF signature_valid, VerifySignature
<1>4. sig.signature # Garbage
  BY <1>3, SignaturesDiffer
<1>5. sig.public_key_pem = sealed[b].key /\ sig.manifest_hash = h
  BY <1>2, <1>3, <1>4, SignaturesDiffer
<1>6. manifest = ManifestOf(b, sealed[b])
  BY <1>5, DigestsDiffer DEF manifest_hash_matches
<1>7. root = b
  BY <1>6 DEF manifest_present, ManifestOf
<1>8. /\ Manifest \in DOMAIN zip
      /\ zip[Manifest] = Data("manifest", manifest)
      /\ ManifestSig \in DOMAIN zip
      /\ zip[ManifestSig] = Data("signature", sig)
  BY DEF manifest_present, signature_present, HasEntry, manifest, sig, IInv, Provenance
<1>9. ManifestIntact
  <2>1. IsSealed(root) /\ manifest = ManifestOf(root, sealed[root])
    BY <1>1, <1>6, <1>7
  <2>2. zip[Manifest] = SealedData(root, sealed[root], Manifest)
    <3>1. SealedData(root, sealed[root], Manifest) = Data("manifest", ManifestOf(root, sealed[root]))
      BY SealedDataAt
    <3>2. zip[Manifest] = Data("manifest", manifest)
      BY <1>8
    <3> QED BY <2>1, <3>1, <3>2
  <2> QED BY <1>8, <2>1, <2>2 DEF ManifestIntact, Holds
<1>10. SignatureIntact
  <2>1. sig = [SignatureOf(root, sealed[root]) EXCEPT !.signed_at = sig.signed_at]
    BY <1>2, <1>3, <1>5, <1>7 DEF SignatureOf
  <2> QED BY <1>2, <1>8, <2>1 DEF SignatureIntact, Holds
<1>11. Holds(SigningKey, Data("pem", sealed[root].key))
  BY <1>5, <1>7 DEF signature_valid, HasEntry, Holds
<1> QED BY <1>9, <1>10, <1>11

LEMMA EachPasses ==
  /\ Passes("manifest_present") = manifest_present
  /\ Passes("signature_present") = signature_present
  /\ Passes("signature_valid") = signature_valid
  /\ Passes("manifest_hash_matches") = manifest_hash_matches
  /\ Passes("artifacts_present") = artifacts_present
  /\ Passes("artifact_hashes") = artifact_hashes
  /\ Passes("no_undeclared_files") = no_undeclared_files
  /\ Passes("audit_chain") = audit_chain
  /\ Passes("timestamp_token") = timestamp_token
  /\ Passes("policy_compliance") = policy_compliance
BY DEF Passes

\* An intact manifest lists the draft's artifacts, each with its digest.
LEMMA IntactManifest ==
  ASSUME IInv, ManifestIntact
  PROVE  LET d == sealed[root] IN
         /\ root \in Bundles /\ d \in Drafts
         /\ manifest = ManifestOf(root, d)
         /\ manifest.package_class = d.package_class
         /\ DOMAIN manifest.artifacts = DOMAIN d.artifacts
         /\ \A k \in DOMAIN d.artifacts :
              LET a == manifest.artifacts[k] IN
              /\ a.stored_path = d.artifacts[k].stored_path
              /\ a.policy_state = d.artifacts[k].policy_state
              /\ d.artifacts[k].hashed => a.sha256 = SHA256(File(d.artifacts[k].content))
              /\ ~d.artifacts[k].hashed => a.sha256 = NoString
         /\ Declared(manifest.artifacts) = Declared(d.artifacts)
<1> DEFINE d == sealed[root]
<1>1. root \in Bundles /\ d \in Drafts
  BY DEF ManifestIntact, IsSealed, IInv, TypeOK
<1>2. manifest = ManifestOf(root, d)
  BY SealedDataAt DEF ManifestIntact, Holds, manifest, Data
<1>3. /\ manifest.package_class = d.package_class
      /\ DOMAIN manifest.artifacts = DOMAIN d.artifacts
      /\ \A k \in DOMAIN d.artifacts :
           LET a == manifest.artifacts[k] IN
           /\ a.stored_path = d.artifacts[k].stored_path
           /\ a.policy_state = d.artifacts[k].policy_state
           /\ d.artifacts[k].hashed => a.sha256 = SHA256(File(d.artifacts[k].content))
           /\ ~d.artifacts[k].hashed => a.sha256 = NoString
  BY <1>2 DEF ManifestOf
<1>4. Declared(manifest.artifacts) = Declared(d.artifacts)
  BY <1>3 DEF Declared
<1> QED BY <1>1, <1>2, <1>3, <1>4

\* With the checks on artifacts passed, the files are those that were sealed.
LEMMA ArtifactsAreSealed ==
  ASSUME IInv, ManifestIntact, artifacts_present, artifact_hashes, no_undeclared_files,
         policy_compliance
  PROVE  ArtifactsIntact /\ Verifiable(sealed[root])
<1> DEFINE A == sealed[root].artifacts
<1>1. ASSUME NEW k \in DOMAIN A
      PROVE  /\ A[k].stored_path # NoPath
             /\ A[k].hashed
             /\ A[k].stored_path \in DOMAIN zip
             /\ zip[A[k].stored_path] = File(A[k].content)
  <2> DEFINE a == manifest.artifacts[k]
  <2>1. k \in DOMAIN manifest.artifacts /\ a.stored_path = A[k].stored_path
    BY IntactManifest
  <2>2. a.stored_path # NoPath /\ a.stored_path \in DOMAIN zip
    BY <2>1 DEF artifacts_present, HasEntry
  <2>3. a.sha256 # NoString /\ SHA256(zip[a.stored_path]) = a.sha256
    BY <2>1 DEF artifact_hashes
  <2>4. A[k].hashed /\ a.sha256 = SHA256(File(A[k].content))
    BY <2>3, IntactManifest
  <2>5. zip[A[k].stored_path] = File(A[k].content)
    BY <2>1, <2>3, <2>4, DigestsDiffer
  <2> QED BY <2>1, <2>2, <2>4, <2>5
<1>2. ArtifactsIntact
  BY <1>1, IntactManifest DEF ArtifactsIntact, Holds, no_undeclared_files
<1>3. ASSUME NEW j \in DOMAIN A, NEW k \in DOMAIN A, A[j].stored_path = A[k].stored_path
      PROVE  A[j].content = A[k].content
  <2>1. File(A[j].content) = File(A[k].content)
    BY <1>1, <1>3
  <2> QED BY <2>1, DataFields DEF File
<1>4. ASSUME NEW k \in DOMAIN A, sealed[root].package_class \in {"disclosure", "sanitized"}
      PROVE  A[k].policy_state # "internal_only"
  BY <1>4, IntactManifest DEF policy_compliance
<1> QED BY <1>1, <1>2, <1>3, <1>4 DEF Verifiable

\* With the checks on the log and the token passed, they are sealed ones too,
\* and the token is this bundle's.
LEMMA AttachmentsAreSealed ==
  ASSUME IInv, ManifestIntact, audit_chain, timestamp_token
  PROVE  AttachmentsIntact
<1>1. ASSUME AuditLog \in DOMAIN zip
      PROVE  \E b \in Bundles : Holds(AuditLog, Data("log", b))
  BY <1>1 DEF audit_chain, HasEntry, IInv, Provenance, Parses, Holds
<1>2. ASSUME ManifestTSR \in DOMAIN zip
      PROVE  /\ sealed[root].stamp = "SHA256"
             /\ Holds(ManifestTSR, SealedData(root, sealed[root], ManifestTSR))
  <2>1. /\ zip[ManifestTSR].kind = "tsr"
        /\ zip[ManifestTSR].value = [hashAlgorithm |-> "SHA256", imprint |-> SHA256(manifest)]
    BY <1>2 DEF timestamp_token, HasEntry
  <2>2. PICK b \in Bundles : zip[ManifestTSR] = SealedData(b, sealed[b], ManifestTSR)
    BY <1>2, <2>1 DEF IInv, Provenance, Parses
  <2>3. zip[ManifestTSR].value
          = [hashAlgorithm |-> sealed[b].stamp, imprint |-> SHA256(ManifestOf(b, sealed[b]))]
    BY <2>2, SealedDataAt DEF Data
  <2>4. sealed[b].stamp = "SHA256" /\ SHA256(ManifestOf(b, sealed[b])) = SHA256(manifest)
    BY <2>1, <2>3
  <2>5. ManifestOf(b, sealed[b]) = ManifestOf(root, sealed[root])
    BY <2>4, DigestsDiffer, IntactManifest
  <2>6. b = root
    BY <2>5 DEF ManifestOf
  <2> QED BY <1>2, <2>2, <2>4, <2>6 DEF Holds
<1> QED BY <1>1, <1>2 DEF AttachmentsIntact

\* VALID is earned, whatever was lost, altered or mixed in on the way.
THEOREM VerdictsAreSound == Spec => []SoundVerdict
<1>1. IInv => SoundVerdict
  <2> SUFFICES ASSUME IInv, phase = "done", code = "VALID"
               PROVE  Authentic
    BY DEF SoundVerdict
  <2>1. Openable /\ PassedUpTo(10)
    <3>1. \A name \in CheckNames : FailureCode(name) # "VALID"
      BY FailureCodes
    <3> QED BY <3>1, OrderOfChecks DEF IInv, Progress
  <2>2. \A k \in 1..10 : Passes(CheckOrder[k])
    BY <2>1 DEF PassedUpTo
  <2>3. /\ manifest_present /\ signature_present /\ signature_valid /\ manifest_hash_matches
        /\ artifacts_present /\ artifact_hashes /\ no_undeclared_files /\ audit_chain
        /\ timestamp_token /\ policy_compliance
    BY <2>2, EachPasses DEF CheckOrder
  <2> QED BY <2>1, <2>3, ManifestIsSealed, ArtifactsAreSealed, AttachmentsAreSealed DEF Authentic
<1> QED BY <1>1, InvariantHolds, PTL

\* Conversely every check passes on an authentic bundle.
LEMMA AuthenticPasses ==
  ASSUME IInv, Authentic
  PROVE  Openable /\ \A name \in CheckNames : Passes(name)
<1> DEFINE d == sealed[root]
<1> USE DEF HasEntry
<1>1. /\ ManifestIntact /\ Verifiable(d) /\ SignatureIntact /\ ArtifactsIntact /\ AttachmentsIntact
      /\ Holds(SigningKey, Data("pem", d.key))
  BY DEF Authentic
<1>2. root \in Bundles /\ d \in Drafts /\ manifest = ManifestOf(root, d)
  BY <1>1, IntactManifest
<1>3. Manifest \in DOMAIN zip /\ zip[Manifest].kind = "manifest"
  BY <1>1, SealedDataAt DEF ManifestIntact, Holds, Data
<1>4. Openable
  BY <1>2, <1>3, BundleAssumption DEF Openable
<1>5. manifest_present
  BY <1>2, <1>3 DEF manifest_present, ManifestOf
<1>6. /\ signature_present
      /\ sig.manifest_hash = SHA256(ManifestOf(root, d))
      /\ sig.signature = Sign(d.key, SHA256(ManifestOf(root, d)))
      /\ sig.public_key_pem = d.key
  BY <1>1 DEF SignatureIntact, Holds, SignatureOf, Data, sig, signature_present
<1>7. signature_valid
  <2>1. d.key \in Keys
    BY <1>2, BundleAssumption DEF IsDraft
  <2> QED BY <1>1, <1>6, <2>1 DEF signature_valid, VerifySignature, Holds
<1>8. manifest_hash_matches
  BY <1>2, <1>6 DEF manifest_hash_matches
<1>9. ASSUME NEW k \in DOMAIN manifest.artifacts
      PROVE  LET a == manifest.artifacts[k] IN
             /\ a.stored_path # NoPath
             /\ a.stored_path \in DOMAIN zip
             /\ a.sha256 # NoString
             /\ zip[a.stored_path] # Unreadable
             /\ SHA256(zip[a.stored_path]) = a.sha256
             /\ d.package_class \in {"disclosure", "sanitized"} => a.policy_state # "internal_only"
  <2> DEFINE a == manifest.artifacts[k]
             c == d.artifacts[k].content
  <2>1. /\ k \in DOMAIN d.artifacts
        /\ a.stored_path = d.artifacts[k].stored_path
        /\ a.policy_state = d.artifacts[k].policy_state
        /\ d.artifacts[k].hashed => a.sha256 = SHA256(File(c))
    BY <1>1, <1>9, IntactManifest
  <2>2. a.stored_path # NoPath /\ a.sha256 = SHA256(File(c))
        /\ (d.package_class \in {"disclosure", "sanitized"} => a.policy_state # "internal_only")
    BY <1>1, <2>1 DEF Verifiable
  <2>3. a.stored_path \in DOMAIN zip /\ zip[a.stored_path] = File(c)
    BY <1>1, <2>1 DEF ArtifactsIntact, Holds
  <2>4. File(c) # Unreadable
    BY DEF File, Unreadable, Data
  <2> QED BY <2>2, <2>3, <2>4, DigestsDiffer
<1>10. artifacts_present /\ artifact_hashes
  BY <1>9 DEF artifacts_present, artifact_hashes
<1>11. policy_compliance
  BY <1>1, <1>9, IntactManifest DEF policy_compliance
<1>12. no_undeclared_files
  BY <1>1, IntactManifest DEF no_undeclared_files, ArtifactsIntact
<1>13. audit_chain
  BY <1>1 DEF audit_chain, AttachmentsIntact, Holds, Data
<1>14. timestamp_token
  BY <1>1, <1>2, SealedDataAt DEF timestamp_token, AttachmentsIntact, Holds, Data
<1> QED
  BY <1>4, <1>5, <1>6, <1>7, <1>8, <1>10, <1>11, <1>12, <1>13, <1>14, EachPasses, OrderOfChecks

\* No damage the checks are meant to tolerate turns the verdict.
THEOREM NoAlarmIsFalse == Spec => []NoFalseAlarm
<1>1. IInv => NoFalseAlarm
  <2> SUFFICES ASSUME IInv, phase = "done", Authentic
               PROVE  code = "VALID"
    BY DEF NoFalseAlarm
  <2>1. Openable /\ \A k \in DOMAIN CheckOrder : Passes(CheckOrder[k])
    BY AuthenticPasses, OrderOfChecks
  <2> QED BY <2>1 DEF IInv, Progress
<1> QED BY <1>1, InvariantHolds, PTL

\* What a verdict says of files, log, token or policy rests on the manifest that
\* was sealed under the name of this root.
THEOREM ArtifactCodesAreGrounded == Spec => []ArtifactCodesRestOnSealedManifest
<1>1. IInv => ArtifactCodesRestOnSealedManifest
  <2> SUFFICES ASSUME IInv, phase = "done", code \in ArtifactCodes
               PROVE  ManifestIntact
    BY DEF ArtifactCodesRestOnSealedManifest
  <2>1. PICK k \in 1..10 : Openable /\ PassedUpTo(k - 1) /\ code = FailureCode(CheckOrder[k])
    BY OrderOfChecks DEF IInv, Progress, ArtifactCodes
  <2>2. k \notin 1..4
    BY <2>1 DEF CheckOrder, FailureCode, ArtifactCodes
  <2>3. \A j \in 1..4 : Passes(CheckOrder[j])
    BY <2>1, <2>2 DEF PassedUpTo
  <2>4. manifest_present /\ signature_present /\ signature_valid /\ manifest_hash_matches
    BY <2>3, EachPasses DEF CheckOrder
  <2> QED BY <2>1, <2>4, ManifestIsSealed
<1> QED BY <1>1, InvariantHolds, PTL

\* The checks that read the list of artifacts come fifth to tenth, and their
\* priorities fall from each to the next, HASH_MISMATCH apart.
LEMMA ArtifactChecks ==
  /\ \A k \in 1..10 : FailureCode(CheckOrder[k]) \in ArtifactCodes <=> k >= 5
  /\ FailureCode(CheckOrder[5]) = "FILE_MISSING" /\ codePriority["FILE_MISSING"] = 40
  /\ FailureCode(CheckOrder[6]) = "HASH_MISMATCH" /\ codePriority["HASH_MISMATCH"] = 50
  /\ FailureCode(CheckOrder[7]) = "FILE_ADDED" /\ codePriority["FILE_ADDED"] = 30
  /\ FailureCode(CheckOrder[8]) = "AUDIT_CHAIN_BROKEN" /\ codePriority["AUDIT_CHAIN_BROKEN"] = 25
  /\ FailureCode(CheckOrder[9]) = "TIMESTAMP_INVALID" /\ codePriority["TIMESTAMP_INVALID"] = 20
  /\ FailureCode(CheckOrder[10]) = "POLICY_VIOLATION" /\ codePriority["POLICY_VIOLATION"] = 10
BY DEF FailureCode, CheckOrder, ArtifactCodes, codePriority

LEMMA PrioritiesFall ==
  ASSUME NEW k \in 1..10, NEW j \in k..10,
         FailureCode(CheckOrder[k]) \in ArtifactCodes,
         FailureCode(CheckOrder[j]) \in ArtifactCodes,
         ~(k = 5 /\ j = 6)
  PROVE  codePriority[FailureCode(CheckOrder[j])] <= codePriority[FailureCode(CheckOrder[k])]
<1>1. k \in {5, 6, 7, 8, 9, 10} /\ j \in {5, 6, 7, 8, 9, 10} /\ k <= j
  <2>1. k >= 5 /\ j >= 5
    BY ArtifactChecks
  <2> QED BY <2>1
<1> QED BY <1>1, ArtifactChecks

\* Under a genuine manifest the code VerifyBundle ends with is that of the
\* failure of highest priority, but for a wrong content behind a missing file.
THEOREM CodesDominate == Spec => []CodeDominatesButForMissingFile
<1>1. IInv => CodeDominatesButForMissingFile
  <2> SUFFICES ASSUME IInv, phase = "done", code \in ArtifactCodes, NEW name \in CheckNames,
                      ~Passes(name), ~IsExcepted(name)
               PROVE  ~Outranks(name)
    BY DEF CodeDominatesButForMissingFile
  <2>1. code # "MANIFEST_MISSING" /\ code # "VALID"
    BY DEF ArtifactCodes
  <2>2. PICK k \in 1..10 : PassedUpTo(k - 1) /\ code = FailureCode(CheckOrder[k])
    BY <2>1, OrderOfChecks DEF IInv, Progress
  <2>3. PICK j \in 1..10 : name = CheckOrder[j]
    BY OrderOfChecks DEF CheckNames
  <2>4. j >= k
    <3> SUFFICES ASSUME j < k
                 PROVE  FALSE
      OBVIOUS
    <3>1. j \in 1..(k - 1)
      OBVIOUS
    <3> QED BY <2>2, <2>3, <3>1 DEF PassedUpTo
  <2>5. k >= 5
    BY <2>2, ArtifactChecks
  <2>6. ~(k = 5 /\ j = 6)
    BY <2>2, <2>3, ArtifactChecks DEF IsExcepted, CheckOrder
  <2>7. /\ FailureCode(name) \in ArtifactCodes
        /\ codePriority[FailureCode(name)] \in Nat /\ codePriority[code] \in Nat
    BY <2>2, <2>3, <2>4, <2>5, ArtifactChecks
  <2>8. codePriority[FailureCode(name)] <= codePriority[code]
    BY <2>2, <2>3, <2>4, <2>6, <2>7, PrioritiesFall
  <2> QED BY <2>7, <2>8 DEF Outranks
<1> QED BY <1>1, InvariantHolds, PTL
=============================================================================
