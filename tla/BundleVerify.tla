---------------------------- MODULE BundleVerify ----------------------------
(***************************************************************************)
(* Verification of an evidence bundle (internal/bundle), end to end.       *)
(*                                                                         *)
(*   seal      producers sign manifests of their artifacts and pack them;  *)
(*   transit   one bundle travels as a ZIP: entries are lost, altered,     *)
(*             unreadable, added, or taken from another bundle;            *)
(*   verify    VerifyBundle opens it and runs the checks of section 12.1   *)
(*             in order; the first that fails gives the result code;       *)
(*   done      the Verdict is complete.                                    *)
(*                                                                         *)
(* A ZIP is a function from the entry names under its root to their bytes. *)
(* How the reader gets there from a raw archive is not this module's part, *)
(* nor is the loop over the audit log, which AuditChain shows to pass just  *)
(* the beginnings of sealed logs: here such a log is a value of kind "log". *)
(***************************************************************************)
EXTENDS Naturals, Sequences, SequencesExt, ZipData

CONSTANTS
  Bundles,        \* bundle ids
  Drafts,         \* what a producer can set out to seal (DraftSet below)
  NoDraft,        \* of a bundle not sealed
  NoRoot,         \* of a file that is no ZIP, or has several root directories
  Keys,           \* signing keys of the installations
  ArtifactPaths,  \* names under artifacts/ or derived/
  OtherPaths,     \* further names, outside both
  NoPath,         \* a stored_path that is missing, empty or not a string
  Contents,       \* file contents
  MaxFaults       \* bound: damages one delivery suffers

Manifest   == "manifest.json"
ManifestSHA256 == "manifest.json.sha256"
ManifestSig == "manifest.sig"
ManifestTSR == "manifest.tsr"
VerifyTxt  == "VERIFY.txt"
AuditLog   == "audit/events.jsonl"
SigningKey == "meta/signing_key.pub.pem"

\* The entries "every bundle MUST contain".
requiredEntries ==
  {Manifest, ManifestSHA256, ManifestSig, VerifyTxt, AuditLog, SigningKey}

FixedEntries == requiredEntries \cup {ManifestTSR}
StoredPaths  == ArtifactPaths \cup OtherPaths

PolicyStates   == {"export_allowed", "internal_only"}
PackageClasses == {"evidence", "disclosure", "verification", "sanitized", "snapshot"}
HashAlgorithms == {"SHA256", "SHA512"}

\* What one artifact is to be listed as, and what a bundle is made of.
ArtifactDrafts ==
  [stored_path : StoredPaths \cup {NoPath}, content : Contents, hashed : BOOLEAN,
   policy_state : PolicyStates]

\* stamp: the hash algorithm of the timestamp token, "none" without one.
IsDraft(d) ==
  /\ d.key \in Keys
  /\ d.package_class \in PackageClasses
  /\ d.artifacts \in Seq(ArtifactDrafts)
  /\ d.stamp \in HashAlgorithms \cup {"none"}

ASSUME BundleAssumption ==
  /\ \A d \in Drafts : IsDraft(d)
  /\ NoDraft \notin Drafts
  /\ NoRoot \notin Bundles
  /\ NoPath \notin StoredPaths
  /\ FixedEntries \cap StoredPaths = {}
  /\ ArtifactPaths \cap OtherPaths = {}
  /\ Garbage \notin Keys
  /\ MaxFaults \in Nat

VARIABLES
  sealed,   \* history: the draft each bundle was sealed from
  zip,      \* the delivered entries
  root,     \* the root directory of the delivered file
  faults,   \* damages done so far
  phase,    \* where the run is (above)
  checks,   \* the checks run so far, with their results
  code      \* the result code

producerVars == <<sealed>>
fileVars     == <<zip, root, faults>>
verifierVars == <<checks, code>>
vars         == <<sealed, zip, root, faults, phase, checks, code>>

-----------------------------------------------------------------------------
\* An Ed25519 signature under k of the hex digest h, which nothing else gives.
Sign(k, h) == [key |-> k, signed |-> h]

-----------------------------------------------------------------------------
\* Producers.  The repository's own are its bundle generator and the golden
\* bundle of its tests.

ManifestOf(b, d) ==
  [schema_version |-> "1.0",
   bundle_id      |-> b,
   package_class  |-> d.package_class,
   artifacts      |->
     [k \in DOMAIN d.artifacts |->
        LET a == d.artifacts[k] IN
        [stored_path  |-> a.stored_path,
         sha256       |-> IF a.hashed THEN SHA256(File(a.content)) ELSE NoString,
         policy_state |-> a.policy_state]]]

\* signed_at stands for the fields the signature does not cover.
SignatureOf(b, d) ==
  LET h == SHA256(ManifestOf(b, d)) IN
  [manifest_hash  |-> h,
   signature      |-> Sign(d.key, h),
   public_key_pem |-> d.key,
   signed_at      |-> "sealing"]

Declared(artifacts) == {artifacts[k].stored_path : k \in DOMAIN artifacts}

\* The first of two artifacts with one stored_path is the one that is packed.
PackedFile(d, path) ==
  LET k == CHOOSE k \in DOMAIN d.artifacts :
             /\ d.artifacts[k].stored_path = path
             /\ \A j \in DOMAIN d.artifacts : d.artifacts[j].stored_path = path => k <= j
  IN  File(d.artifacts[k].content)

SealedEntries(d) ==
  requiredEntries
    \cup (IF d.stamp = "none" THEN {} ELSE {ManifestTSR})
    \cup (Declared(d.artifacts) \ {NoPath})

SealedData(b, d, n) ==
  CASE n = Manifest                   -> Data("manifest", ManifestOf(b, d))
    [] n = ManifestSig                -> Data("signature", SignatureOf(b, d))
    [] n = SigningKey                 -> Data("pem", d.key)
    [] n = AuditLog                   -> Data("log", b)
    [] n = ManifestTSR                -> Data("tsr", [hashAlgorithm |-> d.stamp,
                                               imprint |-> SHA256(ManifestOf(b, d))])
    [] n \in {ManifestSHA256, VerifyTxt} -> Data("text", b)
    [] OTHER                          -> PackedFile(d, n)

SealedZip(b) == [n \in SealedEntries(sealed[b]) |-> SealedData(b, sealed[b], n)]

IsSealed(b) == b \in Bundles /\ sealed[b] # NoDraft

Init ==
  /\ sealed = [b \in Bundles |-> NoDraft]
  /\ zip    = <<>>
  /\ root   = NoRoot
  /\ faults = 0
  /\ phase  = "seal"
  /\ checks = <<>>
  /\ code   = "none"

Seal(b, d) ==
  /\ phase = "seal"
  /\ ~IsSealed(b)
  /\ sealed' = [sealed EXCEPT ![b] = d]
  /\ UNCHANGED <<fileVars, phase, verifierVars>>

Ship(b) ==
  /\ phase = "seal"
  /\ IsSealed(b)
  /\ zip'   = SealedZip(b)
  /\ root'  = b
  /\ phase' = "transit"
  /\ UNCHANGED <<producerVars, faults, verifierVars>>

-----------------------------------------------------------------------------
\* Damage in transit: what the checks are there for, not code.

Fault ==
  /\ phase = "transit"
  /\ faults < MaxFaults
  /\ faults' = faults + 1
  /\ UNCHANGED <<producerVars, phase, verifierVars>>

Put(n, d) == zip' = [m \in DOMAIN zip \cup {n} |-> IF m = n THEN d ELSE zip[m]]

LoseEntry(n) ==
  /\ Fault
  /\ zip' = [m \in DOMAIN zip \ {n} |-> zip[m]]
  /\ UNCHANGED root

CorruptEntry(n) ==
  /\ Fault
  /\ \E d \in {Garbled, Unreadable} : Put(n, d)
  /\ UNCHANGED root

\* An entry of another bundle (or its own again) lands in this one.
MixEntry(b, n) ==
  /\ Fault
  /\ IsSealed(b)
  /\ n \in SealedEntries(sealed[b])
  /\ Put(n, SealedData(b, sealed[b], n))
  /\ UNCHANGED root

AddFile(n) ==
  /\ Fault
  /\ n \in StoredPaths \ DOMAIN zip
  /\ \E c \in Contents : Put(n, File(c))
  /\ UNCHANGED root

\* The manifest is rewritten as another that parses, or that would but for its
\* schema version.
AlterManifest ==
  /\ Fault
  /\ Manifest \in DOMAIN zip
  /\ zip[Manifest].kind = "manifest"
  /\ LET m == zip[Manifest].value IN
       \/ \E b \in Bundles \ {m.bundle_id} :
            Put(Manifest, Data("manifest", [m EXCEPT !.bundle_id = b]))
       \/ \E c \in PackageClasses \ {m.package_class} :
            Put(Manifest, Data("manifest", [m EXCEPT !.package_class = c]))
       \/ \E d \in Drafts :
            Put(Manifest, Data("manifest", [m EXCEPT !.artifacts = ManifestOf(root, d).artifacts]))
       \/ Put(Manifest, Data("manifest", [m EXCEPT !.schema_version = "2.0"]))
  /\ UNCHANGED root

AlterSignature ==
  /\ Fault
  /\ ManifestSig \in DOMAIN zip
  /\ zip[ManifestSig].kind = "signature"
  /\ LET s == zip[ManifestSig].value IN
       \/ Put(ManifestSig, Data("signature", [s EXCEPT !.manifest_hash = Garbage]))
       \/ Put(ManifestSig, Data("signature", [s EXCEPT !.signature = Garbage]))
       \/ Put(ManifestSig, Data("signature", [s EXCEPT !.public_key_pem = Garbage]))
       \/ Put(ManifestSig, Data("signature", [s EXCEPT !.signed_at = "later"]))
  /\ UNCHANGED root

RenameRoot ==
  /\ Fault
  /\ \E b \in (Bundles \cup {NoRoot}) \ {root} : root' = b
  /\ UNCHANGED zip

Damage ==
  \/ \E n \in DOMAIN zip : LoseEntry(n) \/ CorruptEntry(n)
  \/ \E b \in Bundles, n \in FixedEntries \cup StoredPaths : MixEntry(b, n)
  \/ \E n \in StoredPaths : AddFile(n)
  \/ AlterManifest \/ AlterSignature \/ RenameRoot

-----------------------------------------------------------------------------
\* The checks.  Each reads the ZIP, and what the checks before it loaded.

HasEntry(n) == n \in DOMAIN zip

manifest == zip[Manifest].value
sig      == zip[ManifestSig].value

\* loadAndCheckManifest, with ParseManifest and the name of the root.
manifest_present ==
  /\ HasEntry(Manifest)
  /\ zip[Manifest].kind = "manifest"
  /\ manifest.schema_version = "1.0"
  /\ root = manifest.bundle_id

\* loadAndCheckSignature, with ParseManifestSignature.
signature_present == HasEntry(ManifestSig) /\ zip[ManifestSig].kind = "signature"

\* VerifySignature: over the digest as the signature file states it.
VerifySignature(pub, manifestHash, signature) == signature = Sign(pub, manifestHash)

\* checkSignatureCryptography: the two copies of the key agree before either
\* is loaded and used.
signature_valid ==
  /\ HasEntry(SigningKey)
  /\ zip[SigningKey] = Data("pem", sig.public_key_pem)
  /\ sig.public_key_pem \in Keys
  /\ VerifySignature(sig.public_key_pem, sig.manifest_hash, sig.signature)

\* checkManifestHash: only here does the signature get to cover the manifest.
manifest_hash_matches_unchecked == TRUE
manifest_hash_matches == SHA256(manifest) = sig.manifest_hash

\* checkArtifactFilesPresent.
artifacts_present ==
  \A k \in DOMAIN manifest.artifacts :
    LET p == manifest.artifacts[k].stored_path IN p # NoPath /\ HasEntry(p)

\* checkArtifactSHA256.
artifact_hashes ==
  \A k \in DOMAIN manifest.artifacts :
    LET a == manifest.artifacts[k] IN
    /\ a.sha256 # NoString
    /\ HasEntry(a.stored_path)
    /\ zip[a.stored_path] # Unreadable
    /\ SHA256(zip[a.stored_path]) = a.sha256

\* checkNoExtraFiles: names outside artifacts/ and derived/ may come and go.
no_undeclared_files ==
  \A n \in DOMAIN zip \cap ArtifactPaths : n \in Declared(manifest.artifacts)

\* auditChainCheck: no log, or one whose chain holds.
audit_chain == HasEntry(AuditLog) => zip[AuditLog].kind = "log"

\* timestampCheck: no token, or one that parses and stamps this manifest.
timestamp_required ==
  /\ HasEntry(ManifestTSR)
  /\ zip[ManifestTSR].kind = "tsr"
  /\ zip[ManifestTSR].value = [hashAlgorithm |-> "SHA256", imprint |-> SHA256(manifest)]
timestamp_token ==
  HasEntry(ManifestTSR) =>
    /\ zip[ManifestTSR].kind = "tsr"
    /\ zip[ManifestTSR].value = [hashAlgorithm |-> "SHA256", imprint |-> SHA256(manifest)]

\* checkPolicyState.
policy_compliance ==
  manifest.package_class \in {"disclosure", "sanitized"} =>
    \A k \in DOMAIN manifest.artifacts : manifest.artifacts[k].policy_state # "internal_only"

Passes(name) ==
  CASE name = "manifest_present"      -> manifest_present
    [] name = "signature_present"     -> signature_present
    [] name = "signature_valid"       -> signature_valid
    [] name = "manifest_hash_matches" -> manifest_hash_matches
    [] name = "artifacts_present"     -> artifacts_present
    [] name = "artifact_hashes"       -> artifact_hashes
    [] name = "no_undeclared_files"   -> no_undeclared_files
    [] name = "audit_chain"           -> audit_chain
    [] name = "timestamp_token"       -> timestamp_token
    [] name = "policy_compliance"     -> policy_compliance

\* The code VerifyBundle finalizes with when the check fails.
FailureCodeOutsideTable(name) ==
  IF name = "timestamp_token" THEN "TIMESTAMP_BROKEN" ELSE "MANIFEST_MISSING"
FailureCode(name) ==
  CASE name = "manifest_present"      -> "MANIFEST_MISSING"
    [] name = "signature_present"     -> "SIGNATURE_MISSING"
    [] name = "signature_valid"       -> "INVALID_SIGNATURE"
    [] name = "manifest_hash_matches" -> "MANIFEST_TAMPERED"
    [] name = "artifacts_present"     -> "FILE_MISSING"
    [] name = "artifact_hashes"       -> "HASH_MISMATCH"
    [] name = "no_undeclared_files"   -> "FILE_ADDED"
    [] name = "audit_chain"           -> "AUDIT_CHAIN_BROKEN"
    [] name = "timestamp_token"       -> "TIMESTAMP_INVALID"
    [] name = "policy_compliance"     -> "POLICY_VIOLATION"

\* codePriority.
codePriority ==
  [SCHEMA_UNSUPPORTED |-> 100, MANIFEST_MISSING |-> 90, SIGNATURE_MISSING |-> 80,
   INVALID_SIGNATURE |-> 70, MANIFEST_TAMPERED |-> 60, HASH_MISMATCH |-> 50,
   FILE_MISSING |-> 40, FILE_ADDED |-> 30, AUDIT_CHAIN_BROKEN |-> 25,
   TIMESTAMP_INVALID |-> 20, TIMESTAMP_MISSING |-> 15, POLICY_VIOLATION |-> 10,
   DERIVED_ARTIFACT |-> 5, VALID |-> 0]

\* The order of VerifyBundle; before it, two orders it could have had.
HashesLast ==
  <<"manifest_present", "signature_present", "signature_valid", "manifest_hash_matches",
    "artifacts_present", "no_undeclared_files", "audit_chain", "timestamp_token",
    "policy_compliance", "artifact_hashes">>
HashAfterArtifacts ==
  <<"manifest_present", "signature_present", "signature_valid", "artifacts_present",
    "artifact_hashes", "manifest_hash_matches", "no_undeclared_files", "audit_chain",
    "timestamp_token", "policy_compliance">>
CheckOrder ==
  <<"manifest_present", "signature_present", "signature_valid", "manifest_hash_matches",
    "artifacts_present", "artifact_hashes", "no_undeclared_files", "audit_chain",
    "timestamp_token", "policy_compliance">>

-----------------------------------------------------------------------------
\* VerifyBundle.

CheckResult(name, result) == [name |-> name, result |-> result]

\* A file that cannot be opened gives a verdict of its own.
Openable == root # NoRoot /\ DOMAIN zip # {}

Open ==
  /\ phase = "transit"
  /\ \/ /\ ~Openable
        /\ checks' = <<CheckResult("manifest_present", "FAIL")>>
        /\ code'   = "MANIFEST_MISSING"
        /\ phase'  = "done"
     \/ /\ Openable
        /\ phase' = "verify"
        /\ UNCHANGED verifierVars
  /\ UNCHANGED <<producerVars, fileVars>>

NextCheck == CheckOrder[Len(checks) + 1]

\* A failure that is recorded without a return, and a loop that never gets to
\* the last check.
FailWithoutReturn ==
  /\ ~Passes(NextCheck)
  /\ checks' = Append(checks, CheckResult(NextCheck, "FAIL"))
  /\ code'   = FailureCode(NextCheck)
  /\ UNCHANGED phase
PassUnlessLast ==
  /\ Len(checks) + 1 < Len(CheckOrder)
  /\ Passes(NextCheck)
  /\ checks' = Append(checks, CheckResult(NextCheck, "PASS"))
  /\ UNCHANGED <<phase, code>>

PassCheck ==
  /\ Passes(NextCheck)
  /\ checks' = Append(checks, CheckResult(NextCheck, "PASS"))
  /\ UNCHANGED <<phase, code>>

FailCheck ==
  /\ ~Passes(NextCheck)
  /\ checks' = Append(checks, CheckResult(NextCheck, "FAIL"))
  /\ code'   = FailureCode(NextCheck)
  /\ phase'  = "done"

RunCheck ==
  /\ phase = "verify"
  /\ Len(checks) < Len(CheckOrder)
  /\ PassCheck \/ FailCheck
  /\ UNCHANGED <<producerVars, fileVars>>

AllPassed ==
  /\ phase = "verify"
  /\ Len(checks) = Len(CheckOrder)
  /\ code'  = "VALID"
  /\ phase' = "done"
  /\ UNCHANGED <<producerVars, fileVars, checks>>

Verify == RunCheck \/ AllPassed

Done == phase = "done" /\ UNCHANGED vars

Next ==
  \/ \E b \in Bundles : Ship(b) \/ \E d \in Drafts : Seal(b, d)
  \/ Damage
  \/ Open
  \/ Verify
  \/ Done

\* A verification that has begun runs to its end on one thread.
Spec == Init /\ [][Next]_vars /\ WF_vars(Verify)

-----------------------------------------------------------------------------
\* Properties.

Phases      == {"seal", "transit", "verify", "done"}
ResultCodes == DOMAIN codePriority
CheckNames  == {CheckOrder[k] : k \in DOMAIN CheckOrder}

\* Every variable has its type; the code is one that codePriority ranks, which is
\* what the properties about priorities rest on.
TypeOK ==
  /\ sealed \in [Bundles -> Drafts \cup {NoDraft}]
  /\ DOMAIN zip \subseteq FixedEntries \cup StoredPaths
  /\ root \in Bundles \cup {NoRoot}
  /\ faults \in 0..MaxFaults
  /\ phase \in Phases
  /\ checks \in Seq([name : CheckNames, result : {"PASS", "FAIL"}])
  /\ code \in ResultCodes \cup {"none"}

\* What a producer meant to seal can be verified at all: each artifact has a
\* path and a digest, no two share a path and differ, and nothing internal is
\* packed for the outside.
Verifiable(d) ==
  /\ \A k \in DOMAIN d.artifacts :
       /\ d.artifacts[k].stored_path # NoPath
       /\ d.artifacts[k].hashed
       /\ d.package_class \in {"disclosure", "sanitized"} =>
            d.artifacts[k].policy_state # "internal_only"
  /\ \A j, k \in DOMAIN d.artifacts :
       d.artifacts[j].stored_path = d.artifacts[k].stored_path =>
         d.artifacts[j].content = d.artifacts[k].content

Holds(n, d) == n \in DOMAIN zip /\ zip[n] = d

\* The delivered manifest is the one sealed for this root.
ManifestIntact == IsSealed(root) /\ Holds(Manifest, SealedData(root, sealed[root], Manifest))

\* Its signature file, but for the fields no check reads.
SignatureIntact ==
  \E at \in {"sealing", "later"} :
    Holds(ManifestSig,
          Data("signature", [SignatureOf(root, sealed[root]) EXCEPT !.signed_at = at]))

\* Every artifact has the content it was sealed with, and no other is there.
ArtifactsIntact ==
  LET artifacts == sealed[root].artifacts IN
  /\ \A k \in DOMAIN artifacts :
       Holds(artifacts[k].stored_path, File(artifacts[k].content))
  /\ DOMAIN zip \cap ArtifactPaths \subseteq Declared(artifacts)

\* The audit log may be gone, and is any bundle's; the token may be gone, and
\* is this bundle's, over SHA-256.
AttachmentsIntact ==
  /\ AuditLog \in DOMAIN zip => \E b \in Bundles : Holds(AuditLog, Data("log", b))
  /\ ManifestTSR \in DOMAIN zip =>
       /\ sealed[root].stamp = "SHA256"
       /\ Holds(ManifestTSR, SealedData(root, sealed[root], ManifestTSR))

Authentic ==
  /\ ManifestIntact
  /\ Verifiable(sealed[root])
  /\ SignatureIntact
  /\ Holds(SigningKey, Data("pem", sealed[root].key))
  /\ ArtifactsIntact
  /\ AttachmentsIntact

\* VALID is earned: whatever was lost, altered or mixed in from elsewhere, a
\* bundle that passes VerifyBundle has the manifest, the key and the artifacts
\* one producer sealed under this bundle id.
SoundVerdict == phase = "done" /\ code = "VALID" => Authentic

\* No false alarm: damage to what the checks are meant to tolerate (an absent
\* log or token, files outside artifacts/ and derived/, unsigned fields) never
\* turns VerifyBundle against a bundle.
NoFalseAlarm == phase = "done" /\ Authentic => code = "VALID"

\* The checks recorded so far are the first ones of the order, all passed
\* except that a last one may have failed, and the code is the failed one's:
\* no failure is overrun by what comes after it.
FailureEndsRun ==
  \A k \in DOMAIN checks :
    /\ k <= Len(CheckOrder)
    /\ checks[k].name = CheckOrder[k]
    /\ checks[k].result = "PASS" /\ k = Len(checks) => code \in {"none", "VALID"}
    /\ checks[k].result = "FAIL" =>
         /\ k = Len(checks)
         /\ phase = "done"
         /\ code = FailureCode(CheckOrder[k])

\* The codes of the checks that read the manifest's list of artifacts.
ArtifactCodes ==
  {"FILE_MISSING", "HASH_MISMATCH", "FILE_ADDED", "AUDIT_CHAIN_BROKEN",
   "TIMESTAMP_INVALID", "POLICY_VIOLATION"}

\* What is said of a file, the log, the token or the policy is said on the word
\* of the manifest that was sealed, never of one rewritten in transit.
ArtifactCodesRestOnSealedManifest ==
  phase = "done" /\ code \in ArtifactCodes => ManifestIntact

\* Of everything that is wrong under a genuine manifest VerifyBundle reports the
\* failure of highest priority, with one exception: a missing file is reported
\* in place of a file with the wrong content.
Outranks(name)   == codePriority[FailureCode(name)] > codePriority[code]
IsExcepted(name) == code = "FILE_MISSING" /\ name = "artifact_hashes"
CodeDominatesButForMissingFile ==
  phase = "done" /\ code \in ArtifactCodes =>
    \A name \in CheckNames : ~Passes(name) /\ Outranks(name) => IsExcepted(name)

\* A run that has begun ends with a verdict.
Terminates == phase = "verify" ~> phase = "done"

\* What the documentation says beyond that; neither holds.

\* "codePriority maps §12.3 priority order (highest dominates)": no exception.  An
\* altered file is one that is there with another digest than the stated one.
HasAlteredFile ==
  \E k \in DOMAIN manifest.artifacts :
    LET a == manifest.artifacts[k] IN
    HasEntry(a.stored_path) /\ a.sha256 # NoString /\ SHA256(zip[a.stored_path]) # a.sha256
HighestCodeDominates ==
  phase = "done" /\ code \in ArtifactCodes /\ HasAlteredFile => ~Outranks("artifact_hashes")

\* A bundle that passes has every entry "every bundle MUST contain".
RequiredEntriesPresent == phase = "done" /\ code = "VALID" => requiredEntries \subseteq DOMAIN zip

-----------------------------------------------------------------------------
\* The inductive invariant the proofs rest on.

\* Where what the checks take on trust comes from: every signature file that
\* parses was written at the sealing of some bundle, field by field or damaged;
\* so was every token; and every log whose chain holds is a sealed one.
SignatureFiles(b) ==
  LET s == SignatureOf(b, sealed[b]) IN
  [manifest_hash  : {s.manifest_hash, Garbage},
   signature      : {s.signature, Garbage},
   public_key_pem : {s.public_key_pem, Garbage},
   signed_at      : {"sealing", "later"}]

Parses(n, kind) == n \in DOMAIN zip /\ zip[n].kind = kind

Provenance ==
  /\ \A n \in DOMAIN zip : zip[n] = Data(zip[n].kind, zip[n].value)
  /\ Parses(ManifestSig, "signature") =>
       \E b \in Bundles : IsSealed(b) /\ zip[ManifestSig].value \in SignatureFiles(b)
  /\ Parses(ManifestTSR, "tsr") =>
       \E b \in Bundles :
         /\ IsSealed(b)
         /\ sealed[b].stamp # "none"
         /\ zip[ManifestTSR] = SealedData(b, sealed[b], ManifestTSR)
  /\ Parses(AuditLog, "log") => zip[AuditLog].value \in Bundles

PassedUpTo(k) ==
  \A j \in 1..k : checks[j] = CheckResult(CheckOrder[j], "PASS") /\ Passes(CheckOrder[j])

\* What the verifier has recorded is what the file in front of it says.
Progress ==
  /\ phase = "seal" => DOMAIN zip = {}
  /\ phase \in {"seal", "transit"} => checks = <<>> /\ code = "none"
  /\ phase = "verify" =>
       /\ Openable
       /\ code = "none"
       /\ Len(checks) <= Len(CheckOrder)
       /\ PassedUpTo(Len(checks))
  /\ phase = "done" =>
       \/ /\ ~Openable
          /\ checks = <<CheckResult("manifest_present", "FAIL")>>
          /\ code = "MANIFEST_MISSING"
       \/ /\ Openable
          /\ code = "VALID"
          /\ Len(checks) = Len(CheckOrder)
          /\ PassedUpTo(Len(checks))
       \/ \E k \in DOMAIN CheckOrder :
            /\ Openable
            /\ Len(checks) = k
            /\ PassedUpTo(k - 1)
            /\ checks[k] = CheckResult(CheckOrder[k], "FAIL")
            /\ ~Passes(CheckOrder[k])
            /\ code = FailureCode(CheckOrder[k])

\* Provenance and Progress together make every verdict exact.
IInv == TypeOK /\ Provenance /\ Progress
=============================================================================
