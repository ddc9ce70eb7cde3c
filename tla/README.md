# forensicdata-verifier: TLA+ specifications and proofs

`verifier` is a command line tool that tells whether forensic evidence reached
its reader as it was sealed. It reads one ZIP, an *Evidence Bundle*
(`internal/bundle`) or a *Legal-Pack* (`internal/legalpack`), runs a fixed
sequence of checks and prints a verdict. It keeps nothing between two runs and
runs on one thread. What makes it hard to get right is not concurrency but
what may be in front of it: files put together from pieces of other files,
events lost or out of order, half of a pack gone. The models therefore consist
of three parties: **producers** that seal evidence as the repository's own
generators and test helpers do, a **transit** that loses, alters, swaps, repeats
and mixes, and the **verifier**, translated from the code. The properties relate
what the verifier says to what the producers sealed, a history the verifier
never sees.

## Inventory

| Component | Source | State and operations | Hard behaviour | What makes it correct |
|---|---|---|---|---|
| Audit chain of a bundle | `internal/bundle/audit.go` | scanner position, events, index of the loop; `parseAuditEventsJSONL`, `ValidateAuditChain`, `auditChainCheck` | events lost, swapped, repeated, spliced from another log; line and event indices; lines over 1 MiB; logs cut off at the end | accepts only beginnings of sealed logs; the index reported is the first departure |
| Bundle verification | `internal/bundle/verify.go`, `tsr.go` | manifest and signature loaded so far, list of check results, result code; `VerifyBundle`, ten checks, `finalize` | early returns; order of checks against priority of codes; signature, key, manifest, log, token from different bundles | VALID exactly for authentic bundles; codes about artifacts rest on the sealed manifest |
| Manifest and signature files | `internal/bundle/manifest.go`, `signing.go` | none; parse, validate, re-serialise, hash, verify | schema versions, unknown keys, two copies of the key | parsed means complete and well formed |
| Bundle reader | `internal/bundle/reader.go` | open ZIP, root, entry names; `Open`, `HasEntry`, `ReadEntry`, `EntriesUnder`, `resolveRoot` | names spelled in many ways, cleaned by `resolveRoot` and by nothing else; repeated names; required entries nobody asks for | one root; what is listed can be read; what is checked is what unpacks |
| Canonical JSON | `internal/bundle/canonical.go`, `internal/canonicaljson` | none; two encoders, on three routes: manifest, event, Legal-Pack entry | numbers through `float64`, shortest decimals and `int64`, characters one language escapes and another does not, the way from parsed fields back to a map | equal hashes exactly for documents that say the same |
| Legal-Pack verification | `internal/legalpack/verify.go`, `reader.go`, `sha256_report.go`, `qr.go`, `verify_audio.go` | parsed report, list of check results; `VerifyLegalPack`, four checks, `finalize` | pieces of several packs; the last line of a label and the last audio entry win; optional lines | a pass means audio, report, QR code and token of one recording; a failure blames its own piece |
| Legal-Pack audit chain | `internal/legalpack/audit_chain.go` | events, the `Signed` flag, the previous hash | logs signed in part or stripped of hashes; fields outside the hash | signed logs are accepted whole or not at all |
| RFC 3161 tokens | `internal/tsa` | none; parse, compare digests | algorithm checked by one caller only | the token stamps this content |
| License format | `internal/license` | none; `Parse` | serial bound | format, and a serial that can have been issued |
| Command line | `main.go`, `cmd` | exit status | errors after the verdict, output nobody reads, statuses with several meanings | exit 0 only for a pass; a bundle's status names its code |
| Report rendering | `internal/report` | none; human and JSON forms | verdict, summary, signs and status computed apart | they tell one story |
| Fixture generators | `testdata/gen`, `testdata/gen_bundle` | none | | models of the producers |

They interact by plain calls: `cmd` opens nothing itself and calls
`VerifyBundle` or `VerifyLegalPack`; these call the reader, then the checks in
order; the checks read entries through the reader and use what earlier checks
have loaded; `auditChainCheck` and `timestampCheck` are the two checks with files
of their own; every digest of a manifest or an event goes through canonical JSON.

## Modules

| Module | What it is |
|---|---|
| `Digest` | SHA-256 over canonical JSON as a constructor of terms; sentinels. |
| `ZipData` | The bytes of a ZIP entry by what they parse as. |
| `AuditChain` | Producers, transit, scanner and loop of the bundle's audit chain. |
| `TamperEvidence` | What that check promises, without any hashing: one step judges the delivered file by how far it begins a sealed log. |
| `BundleVerify` | Producers, transit and `VerifyBundle`. Includes the audit log as one value, which is what `AuditChain` establishes about it. |
| `LegalAudit` | Producers, transit, scanner and loop of the Legal-Pack's optional audit chain. |
| `LegalPack` | Producers, transit and `VerifyLegalPack`. The audit log is one value: empty, unsigned, signed or broken. |
| `BundleReader` | A producer's raw archive, repacked in transit, through `resolveRoot`, `Open` and the checks that read by name. `BundleVerify` takes what comes out for a function of names. |
| `CanonicalJSON` | Both encoders and the references they are to agree with, as operators on numbers and strings. |
| `HashedDocument` | A document whose hash was sealed, altered, parsed, re-encoded and compared, on each of the three routes. `Digest` takes this comparison for an exact one. |
| `CommandLine` | One run of the program from the command line to report and exit status. What a check finds is open in it. |
| `CommonTheorems` | Lemmas that several proofs need: digests, sequences and their parts, induction and recursion over the naturals. |
| `AuditChain_proofs`, `BundleVerify_proofs`, `LegalAudit_proofs`, `LegalPack_proofs`, `BundleReader_proofs`, `HashedDocument_proofs`, `CommandLine_proofs` | Theorems about the module of that name, and their proofs. |
| `MCAuditChain`, `MCBundleVerify`, `MCBundleReader`, `MCHashedDocument`, `MCLegalAudit`, `MCLegalPack`, `MCCommandLine` | Small instances; the `.cfg` files of the same name hold the properties that hold, the others (`MCRequiredEntriesPresent`, ...) one documented statement each that does not. |

State and actions correspond to the code as follows.

* `AuditChain`: `lineNo`, `events` and `i` are the local variables of the scanner
  and of the loop; `ScanLine` is one turn of the scanner loop (blank, parsed,
  malformed or too long), `CheckLink` one turn of the validation loop with both
  comparisons in their order, `result` the `CheckResult` with `BrokenAtIndex`.
  `log` is what is in the file, `entry` whether the file is there.
* `BundleVerify`: `checks` is `Verdict.Checks`, `code` its `ResultCode`; a check is a
  state predicate named as the code names the check; `RunCheck` is one
  `v.Checks = append(...)` of `VerifyBundle` with the early return after it,
  `AllPassed` the last `finalize`. `zip` and `root` are the opened reader.
* `LegalPack`: `pack` is the sequence of ZIP entries, repeated names included;
  `report` the parsed report, `checks` and `outcome` the verdict; `OpenPack` is
  everything `VerifyLegalPack` does before its first check.
* `LegalAudit`: as `AuditChain`, with `entries` and `signed` for `AuditReport`, and
  `prev` for the loop's variable of that name. `ScanLine` is a turn of
  `ParseAuditJSONL`, `EndOfLog` the decision of `runAudit` and `VerifyAuditChain` whether there
  is a chain, `VerifyEntry` one turn of the loop with its four tests in order; `entry` is
  whether the file can be read at all.
* `BundleReader`: `archive` is `rc.File`, a name the sequence of its segments; `roots` is
  the map in `resolveRoot` and `ResolveEntry` one turn of its loop, `entries` is
  `Reader.entries` and `ListEntry` one turn of the loop in `Open`. `RunChecks` is
  `VerifyBundle`, with the checks before the artifacts reduced to whether the
  sealed manifest is there under its own root.
* `HashedDocument`: `delivered` is what is in the file, `parsed` the map given to
  the encoder; `Parse`, `Encode` and `Compare` are the three points at which a check
  can end. A document has one field for each way in which the code treats
  fields (required, optional, counted, nested, unknown).
* `CommandLine`: `checks`, `code`, `overall` and `summary` are the fields of the two
  `Verdict` types, `report` what has come out on standard output, `exit` the status.
  One action is one step of `RunE`, in its order.

Each module also defines, right before a definition of the code, one or two
variants of it with a plausible bug (`LinkErrorUncleared`, `FailWithoutReturn`,
`runQRDigestsOnly`, `marshalAnyFloat`...). They are not used by the specification. Put in place of the
definition that follows them, they violate a property; `PROJECT.json` lists
which. In this way each property is known to depend on the code.

## Runs

| Run | Configuration | Distinct states | Result |
|---|---|---|---|
| `audit_chain` | `MCAuditChain` | 610,583 | holds |
| `bundle_verify` | `MCBundleVerify` | 701,478 | holds |
| `legal_audit` | `MCLegalAudit` | 904,628 | holds |
| `legal_pack` | `MCLegalPack` | 396,988 | holds |
| `bundle_reader` | `MCBundleReader` | 243,415 | holds |
| `canonical_json` | `MCHashedDocument` | 602,756 | holds |
| `command_line` | `MCCommandLine` | 1,339 | holds |
| `legal_audit_fields` | `MCWholeEntryCovered` | | violated |
| `bundle_priority` | `MCHighestCodeDominates` | | violated |
| `bundle_required_entries` | `MCRequiredEntriesPresent` | | violated |
| `canonical_number` | `MCNumbersByteExact` | | violated |
| `canonical_string` | `MCStringsByteExact` | | violated |

**audit_chain.** Two producers seal up to three and two events out of two facts,
so that their logs can be equal, part after a common beginning or differ at
once; one log is shipped and suffers up to two damages. A damaged event can also hold a
fraction (`FloatFact`), of which canonical JSON makes no hash. `OnlySealedPrefixAccepted`:
after any of these damages, a log that passes is the beginning of one sealed log. No
damage computes a hash: the chain has no key, and of a log that somebody hashed anew nothing
is claimed, here or in `legal_audit`.
`BrokenAtFirstDeparture`: the index reported is the first at which the file
leaves every sealed log. `CurrentHashBlamesAlteredEvent`: a genuine event in the
wrong place is never accused of having been altered. `ParseErrorAtFirstBadLine`:
line numbers are the operator's. `KeepsPromise`: the module implements
`TamperEvidence`. `CheckTerminates`: a scan that has begun ends with a result.

**bundle_verify.** Two bundle ids, seven drafts (with and without a token, a token
over SHA-512, an artifact outside the two directories, without a digest,
without a path, two artifacts of one path, an internal one in a disclosure), up
to two damages. `SoundVerdict` and `NoFalseAlarm` together say that VALID is
given to authentic bundles and to all of them; `Authentic` spells out what is
covered and what is not. `ArtifactCodesRestOnSealedManifest`: nothing is said of
artifacts on the word of a forged manifest. `FailureEndsRun`: no check is run
after a failed one, and its code stands. `CodeDominatesButForMissingFile`: under a
genuine manifest no failing check has a code of higher priority than the one reported,
HASH_MISMATCH under FILE_MISSING being the one pair excepted.

**legal_audit.** Two producers sign logs of up to three events and one, a third
does not sign; up to two damages, among them one that takes all hashes off a log and one
that leaves the ZIP entry unreadable.
`OnlySealedPrefixAccepted` and `BrokenAtFirstDeparture` as for a bundle, but for
entries that link to the hash their predecessor carries. `CauseIsNamed`: an entry
called modified is not one that was sealed, one called spliced is.
`NoSilentDowngrade`: a log is skipped only when no genuine signed entry is left in
it. `NoFalseAlarm`: blank lines, unknown fields and logs without hashes do not fail;
that the events of a file begin a log is said by counting its event lines up to each line.

**legal_pack.** Two recordings of two kinds (with a chain hash, a signed log and a
token, or without any), up to two damages to entries, report lines, QR fields and
token. `PiecesSealedTogether`: a pack that passes holds audio, report, QR code
and token of one recording. `BlamesThePieces`: under the sealed report, a check
fails exactly when its own piece is not what was sealed. `Terminates`: the verdict is
reached whatever fails.

**bundle_reader.** One root, up to two artifacts in any order, and up to two
damages to the archive: entries lost, swapped with a neighbour, altered, repeated
under the same name with other content, added, directories added, and any
segment of a small set put anywhere into a name, so that names become rooted,
leave the root, come back to it, or name a directory. `RootIsCommon`: an opened
archive unpacks below its root. `ListedIsRead`: `HasEntry` and `ReadEntry` agree on
names. `UnpacksAsDeclared`: an orderly archive (clean, distinct names) that is
VALID unpacks to the declared artifacts, and in any archive an undeclared file
gets among them under an unclean name only. `NoFalseAlarm`: order, directories and
other files do not matter.

**canonical_json.** Documents with and without optional and unknown fields, 46
numbers and strings around every limit, delivered whole or with one field altered,
added or removed, on two platforms. `AlterationShows`: with numbers a float64 tells
apart, a hash that matches means that nothing was altered in meaning.
`NoFalseAlarm`: an unaltered document matches. `IntegersSurvive`: on the manifest's
and the entry's route this holds for integers of any size. `EventsKeepFloats`: on
the event's route, where every number is read as a float64 and written as the
shortest decimal that is read as the same, a match means that each number is within
one float64 of the sealed one; numbers of 10^21 and more, which have an exponent,
are left out, because `int64` makes one of them all. `NoFalseAlarm` and
`IntegersSurvive` leave out documents with unknown fields or separators in entries,
of which the two violated runs speak.

**command_line.** `ExitZeroMeansPass`: no way through the program ends in 0 with a check
failed, left out or not reported. `BundleExitTellsCode`: a reported bundle leaves with
the status of the code of its first failed check and of no other.
`ReportAgreesWithExit`: verdict line, signs, summary and status agree, though each is
computed from something else.

**The violated statements** are quoted with their lines in `PROJECT.json`: a missing
file reported in place of an altered one, required entries that no check asks for,
fields of a signed audit entry outside its hash, an event with an integer no float64
holds, and a Legal-Pack entry with U+2028 in it.

### Known differences from the documentation that have no run

The models show these too; no run is kept for them.

* `cmd/verify_bundle.go:66` and `CHANGELOG.md:87` say that nothing under `artifacts/` or `derived/` is
  absent from the manifest: `checkNoExtraFiles` compares names as spelled, so that
  `b//artifacts/x` or `b/./artifacts/x`, which unpacks to `artifacts/x`, is under neither directory and the
  bundle is VALID (`verify.go:462`). `UnpacksAsDeclared` holds for clean and distinct names, and says
  that an undeclared file gets there under an unclean name only.
* `src/README.md:95` says that a PASS of a Legal-Pack means that "the pack has not been tampered
  with": transcripts, PDFs and the report fields that no other piece repeats are read by no check,
  and a log of another recording passes. `PiecesSealedTogether` says what a PASS means.
* `sha256_report.go:48` asks for all named fields: Chain Hash, Chain Prev and Identity
  Fingerprint may be absent (`sha256_report.go:119`).
* `legalpack/reader.go:53` says that there is one audio variant, never both: a pack
  with both is accepted and the last one counts (`reader.go:89`).
* `CHANGELOG.md:92` says that the bundle's canonical form escapes U+2028 and U+2029:
  `canonical.go:196` writes them as they are, and so do the golden vectors named
  `escape_u2028` and `escape_u2029`. The references of `CanonicalJSON` follow the vectors.
* `src/README.md:38` says that any failed check exits with 1: a bundle's statuses
  are 10 to 40. The help of `verify bundle` gives 2 for format errors, and an unknown
  `--format` leaves with 1; it lists neither 25 nor 26, and calls the audit chain and the
  token SKIPPED, which they are not any more. The help of `verify license` gives 2
  for a missing argument, which is 1. `inspect` in the help of the root command
  does not exist. No path of `VerifyBundle` leads to SCHEMA_UNSUPPORTED, TIMESTAMP_MISSING or
  DERIVED_ARTIFACT.
* `verify <other>` prints a help and exits with 0.

### Bounds

Two producers (bundles, recordings) are what mixing needs: a piece is either
from the one at hand or from another. Two damages make the combinations in
which one hides the other (an altered event and a swap that moves it, a lost
file and an altered one, a rewritten manifest and a signature file of another
bundle). Three events give a first, a middle and a last; one event of a second log is
enough to splice. `MaxEvents`, `MaxFaults`
and the sets of drafts are the only bounds; the proofs have none of them.

An archive of `BundleReader` has up to three entries as packed (two artifacts and
the manifest) and five after two damages; two segments put into one name make
`b/../x/..`, `./b//` and the like, and an added file with a segment in its name is a
file under an unclean name. Float64 and int64 have 3 and 5 bits in
`HashedDocument` (`Precision`, `IntBits`), `ExponentDigits` is 2 and `MaxExponent` 8, which keeps the
order of the limits, 2^53 < 2^63 < 10^21 < 2^1024, with room for numbers on both sides of each. At least one bit
between the significand and int64 is needed (`WidthAssumption`): without it the largest
integer and the number it saturates at would be one. One
alteration (`MaxAlterations`) is enough, as fields are compared one by one.
`CommandLine` has serials below the offset, the offset and two above it, and no
other bound (`MaxArguments` is 2: none, one, too many).

### Fairness

`WF_vars(Verify)`: the run is a sequence of loops on one thread that nothing
can interrupt, so that a step that can be taken is taken (`BundleReader` too). `HashedDocument` and
`CommandLine` state no fairness: they have safety properties only. Nothing is assumed of
producers, of transit or of somebody starting the verifier.

## Proofs

`tlapm` checks every theorem for arbitrary sets of producers, bundles, recordings, keys,
contents, paths, numbers and strings, for floats and integers of any width, and for any
number of events, entries and damages, from the named assumptions of the modules:

* `ChainAssumption`, `LegalAuditAssumption`: the bounds are naturals, the fact with a float is none of the others.
* `BundleAssumption`: drafts are well formed and no artifact shares a path with a fixed entry.
* `PackAssumption`: drafts are well formed; a recording id is neither the empty string nor the damaged QR field.
* `ReaderAssumption`: artifact paths are clean, below one of the two directories and not these themselves.
* `WidthAssumption`: significand, int64 and float64 range in their order (53 + 1 < 64 < 1024). From where on
  `encoding/json` writes an exponent may be anywhere.
* `DocumentAssumption`: the names are strings, the values strings or numbers.
* `LicenseAssumption`: the serials of the command line.

Every invariant that a passing run checks, and the refinement, is the statement of a
theorem here. Each rests on an inductive invariant (`IInv` in the modules, `Inv` in
`CommandLine_proofs`) that TLC checked on the small instances before it was proved.

*AuditChain.* `IInv` is inductive; the type invariant alone says nothing about a
link. Its core is `EventFixesItsPast`: since a sealed event contains the hash of
the event before it, an event that stands in two logs stands at the same place
in both, after the same events. `DamageShows` keeps that an event is either
genuine or fails the test of its own hash wherever it stands. From both,
`LoopInvariant` (the first `i` events begin one sealed log) survives `CheckLink`:
an event with both hashes in order is genuine, and its link fixes the log it
belongs to. The scanner's part relates each event to its line by counting, from
which the position of a parse error follows. Theorems: `InvariantHolds`, `TypesHold`,
`AcceptedLogsAreSealed`, `BrokenIndexIsExact`, `OwnHashBlamesTheAltered`, `ParseErrorsAreLocated`.

`ChecksKeepThePromise` is the refinement: under the mapping of `KeepsPromise` the initial
states are initial states of `TamperEvidence`; sealing and damage are its delivery; the scan
and the links that fit are stutters; and the step that ends the check is its one judging
step, with the very result that the delivered file deserves. That last case is where the index of
the loop, the count of events and the sealed logs have to agree.

*BundleVerify.* `IInv` has two parts beside the types. `Provenance`: every
signature file that parses was made at the sealing of some bundle, each field
its own or damaged; so was every token. `Progress`: the checks recorded are those
of the order, and say what the file says. With the checks expanded, a VALID
verdict then yields that the hash in the signature file, which the key signed,
is that of the delivered manifest, hence of one producer, hence `Authentic`.
`CodesDominate` says that the order in which the checks return implements the priority
table for every pair of codes but HASH_MISMATCH under FILE_MISSING.
Theorems: `InvariantHolds`, `TypesHold`, `FailuresEndRuns`, `VerdictsAreSound`,
`NoAlarmIsFalse`, `ArtifactCodesAreGrounded`, `CodesDominate`.

*LegalAudit.* The argument of `AuditChain` with three differences, each a conjunct of `IInv`.
An entry links to the hash that its predecessor carries and not to one recomputed, so
`HashFixesThePast` speaks of `self`. The hash leaves fields of the entry out, so that what is
fixed is what it covers (`Covered`) and not the entry. And hashes can be stripped, so
that `NoForgedHash` (a `self_hash` is one that somebody computed when sealing) has to allow
for none; `ScanInvariant` keeps that `signed` says exactly whether an entry with a hash was read.
Theorems: `InvariantHolds`, `TypesHold`, `AcceptedLogsAreSigned`, `BrokenIndexIsExact`,
`CauseNamesTheDamage`, `SignedLogsAreJudged`, `WholeLogsDoNotFail`. For an index of 0
`BrokenAtFirstDeparture` claims no log that the file agrees with so far: there is none
when no producer signs.

*LegalPack.* `Provenance`: every entry, line of a report, QR field and token in a pack is
one that a recording sealed, or visibly damaged. `Progress`: the
recorded checks are what the checks say of the pack in front of the verifier. A pass gives three
ways to one recording: the audio by its digest in the report, the QR code by
the digests it repeats, the token by the digest it stamps. Theorems: `InvariantHolds`,
`TypesHold`, `PiecesBelongTogether`, `ChecksBlameThePieces`.

*BundleReader.* `Resolving` and `Listing` say what the two loops have found in the entries they have passed;
`UnpacksAsDeclared` and `NoFalseAlarm` are inductive together with them. No proof expands `Clean`: what holds of
the reader holds whatever `path.Clean` makes of a name. Theorems: `InvariantHolds`,
`TypesHold`, `RootIsTheOnlyOne`, `ListedNamesAreRead`, `ValidUnpacksAsDeclared`,
`RepackedBundlesDoNotFail`.

*HashedDocument.* `IInv` says of each phase how the document there comes from the one
that was sealed (`IsSealed`, `IsParsed`, `VerdictIsDue`). The work is in the lemmas on the encoders. Rounding: a number
below 2^Precision is its own float64, and one beyond does not come back below it; so the conversion
to `int64` keeps safe integers and makes none out of others. Shortest decimals: whatever `encoding/json`
writes for an integer float64 is read as that float64 (`ReadAlike`), so that two events written
alike have the same float64 in them, and a safe integer is written as it is. Strings: the escapes
form a prefix code, so that two escaped strings are equal only when the strings
are, by decoding from the left. With these, equal canonical texts come from documents
of the same meaning. Theorems: `InvariantHolds`, `TypesHold`, `AlterationsShow`,
`EventsKeepTheirFloats`, `SealedDocumentsMatch`, `IntegersAreExact`. Induction over data, which the library's
induction theorems do not allow here, is done with sets: `SetInduction` of `CommonTheorems` takes the least
number outside a set, and `StepwiseFunction` builds recursive functions the same way.

*CommandLine.* The invariant `Inv` of `CommandLine_proofs` says in every phase what each of the
five results is worth: while a bundle is checked nothing has failed; with a code,
either ten checks passed or the last one failed with that code; summed up, the
overall result and the summary both say whether a check failed; and a process
that is gone after a report has left with the status of what it reported. The
statements about codes rest on `CodeTellsFailure` (VALID exactly when no check
failed), those about statuses on `StatusTellsCode` (the table is injective, and 0 is
VALID's only). Theorems: `InvHolds`, `TypesHold`, `ZeroMeansPass`, `StatusNamesCode`,
`ReportTellsStatus`.

All but the last two rest on `DigestsDiffer`: digests of different things
differ, and none is a sentinel or a damaged string. This is the abstraction of SHA-256 without
collisions and of canonical JSON as injective, and it is the only cryptographic
assumption beside signatures that only the key gives. How far canonical JSON
is injective is what `AlterationsShow`, `EventsKeepTheirFloats` and `IntegersAreExact` prove of the flat documents of
`HashedDocument`: for numbers that a float64 tells apart, on the event's route up to one float64, and on the
two others for integers of any size.

Only model-checked: termination (`CheckTerminates` of `AuditChain` and of `LegalAudit`,
`Terminates` of `BundleVerify` and of `LegalPack`), because liveness under fairness is outside
what the prover supports; and the five violated statements, of which there is nothing to prove.

## Not modelled, and why

* Field patterns of manifests and signatures: a file parses or does not.
* Wording of details, summaries and reports; colours; the layout of JSON output.
* Decoding of ASN.1, PNG and QR codes: libraries. The entry parses or does not.
* The pattern of license strings: a string has a serial or does not.
* Key order and nesting in canonical JSON: sorting and structural recursion, taken
  as injective. Invalid UTF-8 and lone surrogates, which `encoding/json` replaces before
  any code of the repository sees them; "-0".
* Duplicate keys of one JSON object: the library keeps the last.
* `public_key_id` and `signing_key_fingerprint`: patterns are checked, no key is ever
  compared with them.
* A Legal-Pack's TSA token size line: read only when a token is claimed.
* Paths that an artifact shares with a fixed entry (`stored_path` naming
  `manifest.json`): excluded by `BundleAssumption`.

## Plan

In this order.

1. What termination rests on: for each verifier a measure that every step of it lowers, as
   a theorem about steps; the fairness argument from there remains TLC's.
2. One log for both levels: that the single values which `BundleVerify` and `LegalPack` have for
   the audit log are what `AuditChain` and `LegalAudit` compute.
3. Nesting and key order in canonical JSON.
