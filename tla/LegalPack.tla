------------------------------ MODULE LegalPack ------------------------------
(***************************************************************************)
(* Verification of a CKNF Legal-Pack (internal/legalpack), end to end.     *)
(*                                                                         *)
(*   transit   a pack travels as a ZIP of ten entries, its time stamp       *)
(*             token beside it: entries and report lines are lost, damaged, *)
(*             or join it from another recording;                          *)
(*   verify    VerifyLegalPack has read the report and runs the four        *)
(*             checks; unlike a bundle's, none of them ends the run;        *)
(*   done      there is a Verdict, or an error in its place.               *)
(*                                                                         *)
(* A pack is the sequence of its entries in ZIP order, names repeated or    *)
(* not: the reader resolves the audio file to the last entry of its kind   *)
(* and reads the first entry of a name.  The report is the sequence of its *)
(* "Label: value" lines, of which the parser keeps the last of a label.    *)
(***************************************************************************)
EXTENDS Naturals, Sequences, SequencesExt, ZipData

CONSTANTS
  Recordings,  \* recording ids
  Contents,    \* audio contents
  Drafts,      \* what a recording can be (IsDraft below)
  MaxFaults    \* bound: damages one delivery suffers

EntryAudioMac       == "original.m4a"
EntryAudioWin       == "original.wav"
EntrySha256Report   == "sha256_report.txt"
EntryAuditJsonl     == "audit.jsonl"
EntryVerificationQR == "verification_qr.png"

AudioNames == {EntryAudioMac, EntryAudioWin}
FixedRequiredEntries ==
  <<EntrySha256Report, "transcript_raw.txt", "transcript_clean.txt", "transcript.docx",
    "transcript_history.txt", "chain_of_custody.pdf", EntryAuditJsonl, EntryVerificationQR,
    "cover.pdf">>

\* The labels the parser asks for, without their spaces: it fails without one of
\* these ...
RequiredLabels ==
  <<"RecordingID", "AudioFile", "FileSize", "SHA-256", "Created", "Language", "TSAStatus">>
\* ... and reads these.
ReadLabels == <<"ChainHash", "ChainPrev", "IdentityFingerprint">>
Labels     == RequiredLabels \o ReadLabels

\* Values of lines and fields: a plain text, the sentinel "(unset)", one of the
\* wrong shape, and what a damage left; no two places are damaged into the same.
Text(string)   == [text |-> string]
Unset          == [unset |-> 0]
Malformed      == [malformed |-> 0]
Damaged(place) == [damaged |-> place]

LogStates == {"empty", "unsigned", "signed"}

IsDraft(d) ==
  /\ d.audio \in Contents
  /\ d.audioName \in AudioNames
  /\ d.chained \in BOOLEAN     \* FALSE: the report says "(unset)"
  /\ d.log \in LogStates
  /\ d.stamped \in BOOLEAN     \* there is a time stamp token

\* An id is no empty string, and not what a damage makes of one.
ASSUME PackAssumption ==
  /\ \A d \in Drafts : IsDraft(d)
  /\ \A r \in Recordings : r \notin {NoString, Damaged("qr")}
  /\ MaxFaults \in Nat

VARIABLES
  sealed,   \* history: the draft each recording was made from
  pack,     \* the entries of the delivered ZIP
  tsr,      \* the token beside it, or NoTsr
  faults,   \* damages done so far
  phase,    \* where the run is (above)
  report,   \* the parsed sha256_report.txt
  checks,   \* the checks run so far, with their results
  outcome   \* the verdict, or "error" when there is none

fileVars     == <<pack, tsr, faults>>
verifierVars == <<report, checks, outcome>>
vars         == <<sealed, pack, tsr, faults, phase, report, checks, outcome>>

Entry(name, data)  == [name |-> name, data |-> data]
Line(label, value) == [label |-> label, value |-> value]
NoTsr    == Data("none", NoString)
NoReport == NoString

\* A report file with these lines, and a log whose chain is in this state.
Report(lines) == Data("report", [lines |-> lines])
Log(state)    == Data("log", [state |-> state])

-----------------------------------------------------------------------------
\* The recording application, of which the repository has the writer of its
\* fixtures.

ChainHash(r) == [chain |-> r]
AudioOf(r)   == File(sealed[r].audio)

ReportValue(r, label) ==
  CASE label = "RecordingID" -> r
    [] label = "AudioFile"   -> Text(sealed[r].audioName)
    [] label = "SHA-256"      -> SHA256(AudioOf(r))
    [] label = "ChainHash"   -> IF sealed[r].chained THEN ChainHash(r) ELSE Unset
    [] OTHER                  -> Text(label)

ReportLine(r, k) == Line(Labels[k], ReportValue(r, Labels[k]))
QRPayload(r)     ==
  [id |-> r, sha256 |-> SHA256(AudioOf(r)), chain_hash |-> ChainHash(r), created_at |-> Text("Created")]
QRFields         == {"id", "sha256", "chain_hash", "created_at"}

SealedData(r, name) ==
  CASE name \in AudioNames         -> AudioOf(r)
    [] name = EntrySha256Report   -> Report([k \in DOMAIN Labels |-> ReportLine(r, k)])
    [] name = EntryVerificationQR -> Data("qr", QRPayload(r))
    [] name = EntryAuditJsonl     -> Log(sealed[r].log)
    [] OTHER                      -> File(Text(name))

SealedNames(r) == <<sealed[r].audioName>> \o FixedRequiredEntries
SealedPack(r)  ==
  [k \in DOMAIN SealedNames(r) |-> Entry(SealedNames(r)[k], SealedData(r, SealedNames(r)[k]))]
SealedTsr(r)   == IF sealed[r].stamped THEN Data("tsr", SHA256(AudioOf(r))) ELSE NoTsr

Init ==
  /\ sealed \in [Recordings -> Drafts]
  /\ \E r \in Recordings : pack = SealedPack(r) /\ tsr = SealedTsr(r)
  /\ faults  = 0
  /\ phase   = "transit"
  /\ report  = NoReport
  /\ checks  = <<>>
  /\ outcome = "none"

-----------------------------------------------------------------------------
\* Damage in transit, which is not code.

Fault ==
  /\ phase = "transit"
  /\ faults < MaxFaults
  /\ faults' = faults + 1
  /\ UNCHANGED <<sealed, phase, verifierVars>>

LoseEntry(k) == Fault /\ pack' = RemoveAt(pack, k) /\ UNCHANGED tsr

\* The audit log, if it parses, is in one of these states.
IsLog(data, states) == data.kind = "log" /\ data.value.state \in states

Rewrite(k, data) == pack' = [pack EXCEPT ![k].data = data]

CorruptEntry(k) ==
  /\ Fault
  /\ \/ \E d \in {Garbled, Unreadable} : Rewrite(k, d)
     \/ IsLog(pack[k].data, {"signed"}) /\ Rewrite(k, Log("broken"))
  /\ UNCHANGED tsr

\* An entry of another recording, or of this again, before or after the rest.
StrayEntry(r, n) ==
  /\ Fault
  /\ \E k \in {1, Len(pack) + 1} : pack' = InsertAt(pack, k, SealedPack(r)[n])
  /\ UNCHANGED tsr

\* Lines of the report are lost, damaged, emptied, or come in from another
\* report.
EditReport(k) ==
  /\ Fault
  /\ pack[k].name = EntrySha256Report
  /\ pack[k].data.kind = "report"
  /\ LET lines == pack[k].data.value.lines IN
       \/ \E n \in DOMAIN lines :
            \/ Rewrite(k, Report(RemoveAt(lines, n)))
            \/ \E v \in {Damaged("report"), Malformed, NoString} :
                 Rewrite(k, Report([lines EXCEPT ![n].value = v]))
       \/ \E r \in Recordings, n \in DOMAIN Labels, m \in {1, Len(lines) + 1} :
            Rewrite(k, Report(InsertAt(lines, m, ReportLine(r, n))))
  /\ UNCHANGED tsr

\* A field of the QR payload is damaged or empty.
EditQR(k) ==
  /\ Fault
  /\ pack[k].name = EntryVerificationQR
  /\ pack[k].data.kind = "qr"
  /\ \E f \in QRFields, v \in {Damaged("qr"), NoString} :
       Rewrite(k, Data("qr", [pack[k].data.value EXCEPT ![f] = v]))
  /\ UNCHANGED tsr

\* --tsr names no file, another recording's, or one that does not parse.
StrayTsr ==
  /\ Fault
  /\ tsr' \in {NoTsr, Garbled} \cup {SealedTsr(r) : r \in Recordings}
  /\ UNCHANGED pack

Damage ==
  \/ \E k \in DOMAIN pack : LoseEntry(k) \/ CorruptEntry(k) \/ EditReport(k) \/ EditQR(k)
  \/ \E r \in Recordings : \E n \in DOMAIN SealedPack(r) : StrayEntry(r, n)
  \/ StrayTsr

-----------------------------------------------------------------------------
\* Reading the pack.

Has(name) == \E k \in DOMAIN pack : pack[k].name = name

\* Pack.audio: each audio entry met overwrites the one before.
AudioEntry == pack[Max({k \in DOMAIN pack : pack[k].name \in AudioNames})].name

IsValidStructure ==
  /\ \E name \in AudioNames : Has(name)
  /\ \A n \in DOMAIN FixedRequiredEntries : Has(FixedRequiredEntries[n])

\* ReadEntry: the first entry of the name.
ReadEntry(name) == pack[Min({k \in DOMAIN pack : pack[k].name = name})].data

\* ParseSha256Report.  A later line of a label overwrites an earlier one.
Field(lines, label) ==
  LET at == {k \in DOMAIN lines : lines[k].label = label}
  IN  IF at = {} THEN NoString ELSE lines[Max(at)].value

ReportParses(data) ==
  /\ data.kind = "report"
  /\ \A n \in DOMAIN RequiredLabels : Field(data.value.lines, RequiredLabels[n]) # NoString
  /\ \A label \in {"FileSize", "SHA-256", "TSAStatus"} : Field(data.value.lines, label) # Malformed

ParseSha256Report(lines) ==
  [RecordingID   |-> Field(lines, "RecordingID"),
   AudioFilename |-> Field(lines, "AudioFile"),
   SHA256        |-> Field(lines, "SHA-256"),
   ChainHash     |-> LET hash == Field(lines, "ChainHash")
                     IN  IF hash = Unset THEN NoString ELSE hash]

-----------------------------------------------------------------------------
\* VerifyLegalPack.

\* Open, IsValidStructure and the report, without which there is no Verdict.
OpenPack ==
  /\ phase = "transit"
  /\ \/ /\ IsValidStructure
        /\ ReportParses(ReadEntry(EntrySha256Report))
        /\ report' = ParseSha256Report(ReadEntry(EntrySha256Report).value.lines)
        /\ phase'  = "verify"
        /\ UNCHANGED outcome
     \/ /\ ~(IsValidStructure /\ ReportParses(ReadEntry(EntrySha256Report)))
        /\ outcome' = "error"
        /\ phase'   = "done"
        /\ UNCHANGED report
  /\ UNCHANGED <<sealed, fileVars, checks>>

If(passed) == IF passed THEN "PASS" ELSE "FAIL"

\* VerifyAudioSHA256.
runAudio ==
  If(/\ report.AudioFilename = Text(AudioEntry)
     /\ ReadEntry(AudioEntry) # Unreadable
     /\ SHA256(ReadEntry(AudioEntry)) = report.SHA256)

\* VerifyQR, with ParseQRPayload: every field is there, and agrees with the
\* report, the chain hash only if the report has one.  Before it, a check that
\* forgets the id, and one that forgets the exception.
runQRDigestsOnly ==
  If(LET qr == ReadEntry(EntryVerificationQR) IN
     /\ qr.kind = "qr"
     /\ \A f \in QRFields : qr.value[f] # NoString
     /\ qr.value.sha256 = report.SHA256
     /\ report.ChainHash # NoString => qr.value.chain_hash = report.ChainHash)
runQRStrict ==
  If(LET qr == ReadEntry(EntryVerificationQR) IN
     /\ qr.kind = "qr"
     /\ \A f \in QRFields : qr.value[f] # NoString
     /\ qr.value.id = report.RecordingID
     /\ qr.value.sha256 = report.SHA256
     /\ qr.value.chain_hash = report.ChainHash)
runQR ==
  If(LET qr == ReadEntry(EntryVerificationQR) IN
     /\ qr.kind = "qr"
     /\ \A f \in QRFields : qr.value[f] # NoString
     /\ qr.value.id = report.RecordingID
     /\ qr.value.sha256 = report.SHA256
     /\ report.ChainHash # NoString => qr.value.chain_hash = report.ChainHash)

\* runAudit: a log without events or without hashes is no failure.
runAudit ==
  LET log == ReadEntry(EntryAuditJsonl) IN
  IF IsLog(log, {"empty", "unsigned"}) THEN "SKIPPED" ELSE If(IsLog(log, {"signed"}))

\* runTSA, against the report's digest of the audio.
runTSAWithoutResult == IF tsr = NoTsr THEN "" ELSE If(tsr = Data("tsr", report.SHA256))
runTSA ==
  IF tsr = NoTsr THEN "SKIPPED"
  ELSE If(tsr.kind = "tsr" /\ tsr.value = report.SHA256)

CheckNames == <<"audio_sha256", "verification_qr", "audit_jsonl_chain", "tsa_rfc3161">>

Run(name) ==
  CASE name = "audio_sha256"      -> runAudio
    [] name = "verification_qr"   -> runQR
    [] name = "audit_jsonl_chain" -> runAudit
    [] name = "tsa_rfc3161"       -> runTSA

NextCheck == CheckNames[Len(checks) + 1]

\* A loop that a failure stops, and the loop there is.
AppendCheckUntilFailure ==
  /\ phase = "verify"
  /\ Len(checks) < Len(CheckNames)
  /\ \A k \in DOMAIN checks : checks[k].result # "FAIL"
  /\ checks' = Append(checks, [name |-> NextCheck, result |-> Run(NextCheck)])
  /\ UNCHANGED <<sealed, fileVars, phase, report, outcome>>

AppendCheck ==
  /\ phase = "verify"
  /\ Len(checks) < Len(CheckNames)
  /\ checks' = Append(checks, [name |-> NextCheck, result |-> Run(NextCheck)])
  /\ UNCHANGED <<sealed, fileVars, phase, report, outcome>>

\* finalize.
Finalize ==
  /\ phase = "verify"
  /\ Len(checks) = Len(CheckNames)
  /\ outcome' = If(\A k \in DOMAIN checks : checks[k].result # "FAIL")
  /\ phase'   = "done"
  /\ UNCHANGED <<sealed, fileVars, report, checks>>

Verify == AppendCheck \/ Finalize

Done == phase = "done" /\ UNCHANGED vars

Next == Damage \/ OpenPack \/ Verify \/ Done

\* One thread runs the checks to the end.
Spec == Init /\ [][Next]_vars /\ WF_vars(Verify)

-----------------------------------------------------------------------------
\* Properties.

\* Every variable has its type; every check recorded has one of three results,
\* for finalize counts only those.
TypeOK ==
  /\ sealed \in [Recordings -> Drafts]
  /\ \A k \in DOMAIN pack : pack[k].name \in AudioNames \cup Range(FixedRequiredEntries)
  /\ faults \in 0..MaxFaults
  /\ phase \in {"transit", "verify", "done"}
  /\ Len(checks) <= Len(CheckNames)
  /\ \A k \in DOMAIN checks :
       checks[k].name = CheckNames[k] /\ checks[k].result \in {"PASS", "FAIL", "SKIPPED"}
  /\ outcome \in {"none", "error", "PASS", "FAIL"}

\* A pack that passes holds the audio, the report and the QR code of one
\* recording, and a token for it if there is one, from however many packs and
\* reports its entries and lines were put together.
PiecesSealedTogether ==
  phase = "done" /\ outcome = "PASS" =>
    LET r == report.RecordingID IN
    /\ r \in Recordings
    /\ ReadEntry(AudioEntry) = AudioOf(r)
    /\ report.SHA256 = SHA256(AudioOf(r))
    /\ report.ChainHash \in {NoString, ChainHash(r)}
    /\ ReadEntry(EntryVerificationQR).value.id = r
    /\ tsr \in {NoTsr, Data("tsr", SHA256(AudioOf(r)))}

ReportIntact(r) ==
  r \in Recordings /\ report = ParseSha256Report(SealedData(r, EntrySha256Report).value.lines)

\* The fields of the QR code that only have to be there.
Unchecked(r) == {"created_at"} \cup IF sealed[r].chained THEN {} ELSE {"chain_hash"}

PieceIntact(r, name) ==
  CASE name = "audio_sha256" ->
         AudioEntry = sealed[r].audioName /\ ReadEntry(AudioEntry) = AudioOf(r)
    [] name = "verification_qr" ->
         LET qr == ReadEntry(EntryVerificationQR) IN
         /\ qr.kind = "qr"
         /\ \A f \in QRFields :
              \/ qr.value[f] = QRPayload(r)[f]
              \/ qr.value[f] = Damaged("qr") /\ f \in Unchecked(r)
    [] name = "audit_jsonl_chain" ->
         IsLog(ReadEntry(EntryAuditJsonl), {sealed[s].log : s \in Recordings})
    [] name = "tsa_rfc3161" ->
         tsr \in {NoTsr, Data("tsr", SHA256(AudioOf(r)))}

\* Under a report that says what was sealed, the checks that fail are those of
\* the pieces that are not what was sealed, each on its own account, and the
\* pack passes when there are none.
BlamesThePieces ==
  phase = "done" /\ outcome # "error" /\ ReportIntact(report.RecordingID) =>
    /\ \A k \in DOMAIN CheckNames :
         checks[k].result = "FAIL" <=> ~PieceIntact(report.RecordingID, CheckNames[k])
    /\ outcome = "PASS" <=>
         \A k \in DOMAIN CheckNames : PieceIntact(report.RecordingID, CheckNames[k])

\* A run that has begun ends, whatever fails in it.
Terminates == phase = "verify" ~> phase = "done"

-----------------------------------------------------------------------------
\* The inductive invariant.

\* Where each line, field and state that is delivered comes from: some recording,
\* or damage.
LineOrigin(line) ==
  /\ line = Line(line.label, line.value)
  /\ line.value \in {ReportValue(r, line.label) : r \in Recordings}
                    \cup {Damaged("report"), Malformed, NoString}

QROrigin(payload) ==
  \E r \in Recordings :
    /\ DOMAIN payload = QRFields
    /\ \A f \in QRFields : payload[f] \in {QRPayload(r)[f], Damaged("qr"), NoString}

Origin(entry) ==
  /\ entry = Entry(entry.name, Data(entry.data.kind, entry.data.value))
  /\ entry.name \in AudioNames \cup Range(FixedRequiredEntries)
  /\ entry.data.kind = "report" =>
       /\ IsSeq(entry.data.value.lines)
       /\ \A k \in 1..Len(entry.data.value.lines) : LineOrigin(entry.data.value.lines[k])
  /\ entry.data.kind = "qr" => QROrigin(entry.data.value)
  /\ entry.data.kind = "log" =>
       entry.data.value.state \in {sealed[r].log : r \in Recordings} \cup {"broken"}

Provenance ==
  /\ IsSeq(pack) /\ \A k \in 1..Len(pack) : Origin(pack[k])
  /\ tsr = Data(tsr.kind, tsr.value)

\* What the verifier has recorded is what the pack in front of it says.
Progress ==
  /\ phase = "transit" => checks = <<>>
  /\ phase # "done" => outcome = "none"
  /\ phase = "done" => outcome # "none"
  /\ phase # "transit" /\ outcome # "error" =>
       /\ IsValidStructure
       /\ ReportParses(ReadEntry(EntrySha256Report))
       /\ report = ParseSha256Report(ReadEntry(EntrySha256Report).value.lines)
  /\ IsSeq(checks)
  /\ \A k \in DOMAIN checks : checks[k] = [name |-> CheckNames[k], result |-> Run(CheckNames[k])]
  /\ outcome \in {"PASS", "FAIL"} =>
       /\ Len(checks) = Len(CheckNames)
       /\ outcome = If(\A k \in DOMAIN checks : checks[k].result # "FAIL")

IInv == TypeOK /\ Provenance /\ Progress
=============================================================================
