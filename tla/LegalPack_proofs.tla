--------------------------- MODULE LegalPack_proofs ---------------------------
(***************************************************************************)
(* Proofs about the verification of a Legal-Pack for every set of          *)
(* recordings and contents and every number of damages.  The invariant IInv *)
(* of LegalPack is inductive; what a PASS means and what a FAIL blames      *)
(* follow from it.                                                         *)
(***************************************************************************)
EXTENDS LegalPack, CommonTheorems, TLAPS

-----------------------------------------------------------------------------
\* Names, values and data.

LEMMA DataFields ==
  ASSUME NEW kind, NEW value
  PROVE  /\ Data(kind, value).kind = kind
         /\ Data(kind, value).value = value
BY DEF Data

LEMMA EntryFields ==
  ASSUME NEW name, NEW data
  PROVE  /\ Entry(name, data).name = name
         /\ Entry(name, data).data = data
BY DEF Entry

LEMMA LineFields ==
  ASSUME NEW label, NEW value
  PROVE  /\ Line(label, value).label = label
         /\ Line(label, value).value = value
BY DEF Line

\* No two ways to write a value give the same.
LEMMA ValuesDiffer ==
  ASSUME NEW x, NEW y
  PROVE  /\ Text(x) = Text(y) => x = y
         /\ ChainHash(x) = ChainHash(y) => x = y
         /\ SHA256(x) = SHA256(y) => x = y
         /\ SHA256(x) \notin {Damaged("qr"), Damaged("report"), Malformed, NoString}
         /\ ChainHash(x) \notin {Damaged("qr"), Damaged("report"), Malformed, NoString, Unset}
         /\ Text(x) \notin {Damaged("qr"), NoString}
         /\ Damaged("qr") \notin {Damaged("report"), Malformed, NoString, Unset}
         /\ Damaged("report") \notin {NoString, Unset}
         /\ Malformed \notin {NoString, Unset}
         /\ Unset # NoString
<1>1. /\ Text(x).text = x /\ Text(y).text = y
      /\ ChainHash(x).chain = x /\ ChainHash(y).chain = y
      /\ Damaged("qr").damaged = "qr" /\ Damaged("report").damaged = "report"
  BY DEF Text, ChainHash, Damaged
<1>2. /\ DOMAIN Text(x) = {"text"}
      /\ DOMAIN ChainHash(x) = {"chain"}
      /\ DOMAIN SHA256(x) = {"sha256"}
      /\ DOMAIN Damaged("qr") = {"damaged"}
      /\ DOMAIN Damaged("report") = {"damaged"}
      /\ DOMAIN Malformed = {"malformed"}
      /\ DOMAIN NoString = {"empty"}
      /\ DOMAIN Unset = {"unset"}
  BY DEF Text, ChainHash, SHA256, Damaged, Malformed, NoString, Unset
<1>3. SHA256(x) = SHA256(y) => x = y
  BY DigestsDiffer
<1> QED BY <1>1, <1>2, <1>3

LEMMA EntryNames ==
  /\ Range(FixedRequiredEntries) =
       {EntrySha256Report, "transcript_raw.txt", "transcript_clean.txt", "transcript.docx",
        "transcript_history.txt", "chain_of_custody.pdf", EntryAuditJsonl, EntryVerificationQR,
        "cover.pdf"}
  /\ AudioNames = {"original.m4a", "original.wav"}
  /\ EntrySha256Report = "sha256_report.txt"
  /\ EntryVerificationQR = "verification_qr.png"
  /\ EntryAuditJsonl = "audit.jsonl"
  /\ Len(FixedRequiredEntries) = 9 /\ DOMAIN FixedRequiredEntries = 1..9
  /\ FixedRequiredEntries[1] = EntrySha256Report
  /\ FixedRequiredEntries[7] = EntryAuditJsonl
  /\ FixedRequiredEntries[8] = EntryVerificationQR
  /\ FixedRequiredEntries \in Seq(Range(FixedRequiredEntries))
<1> USE DEF FixedRequiredEntries, EntrySha256Report, EntryVerificationQR, EntryAuditJsonl, AudioNames,
        EntryAudioMac, EntryAudioWin
<1>1. /\ AudioNames = {"original.m4a", "original.wav"}
      /\ EntrySha256Report = "sha256_report.txt"
      /\ EntryVerificationQR = "verification_qr.png"
      /\ EntryAuditJsonl = "audit.jsonl"
      /\ Len(FixedRequiredEntries) = 9
      /\ DOMAIN FixedRequiredEntries = 1..9
      /\ FixedRequiredEntries[1] = EntrySha256Report
      /\ FixedRequiredEntries[7] = EntryAuditJsonl
      /\ FixedRequiredEntries[8] = EntryVerificationQR
  OBVIOUS
<1>2. Range(FixedRequiredEntries) =
       {EntrySha256Report, "transcript_raw.txt", "transcript_clean.txt", "transcript.docx",
        "transcript_history.txt", "chain_of_custody.pdf", EntryAuditJsonl, EntryVerificationQR,
        "cover.pdf"}
  BY DEF Range
<1>3. FixedRequiredEntries \in Seq(Range(FixedRequiredEntries))
  BY <1>2
<1> QED BY <1>1, <1>2, <1>3

\* The places of the labels whose values are compared.
LEMMA LabelPlaces ==
  /\ Len(Labels) = 10 /\ DOMAIN Labels = 1..10
  /\ Labels[1] = "RecordingID"
  /\ Labels[2] = "AudioFile"
  /\ Labels[4] = "SHA-256"
  /\ Labels[8] = "ChainHash"
BY DEF Labels, RequiredLabels, ReadLabels

-----------------------------------------------------------------------------
\* What is sealed.

LEMMA SealedDataAt ==
  ASSUME NEW r
  PROVE  /\ \A name \in AudioNames : SealedData(r, name) = AudioOf(r)
         /\ SealedData(r, EntrySha256Report) = Report([k \in DOMAIN Labels |-> ReportLine(r, k)])
         /\ SealedData(r, EntryVerificationQR) = Data("qr", QRPayload(r))
         /\ SealedData(r, EntryAuditJsonl) = Log(sealed[r].log)
         /\ \A name \in Range(FixedRequiredEntries) \
                          {EntrySha256Report, EntryVerificationQR, EntryAuditJsonl} :
              SealedData(r, name) = File(Text(name))
BY EntryNames DEF SealedData

LEMMA SealedDraft ==
  ASSUME sealed \in [Recordings -> Drafts], NEW r \in Recordings
  PROVE  /\ sealed[r] \in Drafts
         /\ sealed[r].audioName \in AudioNames
         /\ sealed[r].log \in LogStates
BY PackAssumption DEF IsDraft

\* The lines of a sealed report, and what is said under a label.
LEMMA SealedLine ==
  ASSUME NEW r \in Recordings, NEW k \in 1..10
  PROVE  /\ LineOrigin(ReportLine(r, k))
         /\ ReportLine(r, k).label = Labels[k]
         /\ ReportLine(r, k).value = ReportValue(r, Labels[k])
BY LineFields DEF ReportLine, LineOrigin

LEMMA SealedLines ==
  ASSUME NEW r \in Recordings
  PROVE  LET lines == [k \in DOMAIN Labels |-> ReportLine(r, k)]
         IN  /\ IsSeq(lines)
             /\ Len(lines) = 10
             /\ \A k \in 1..10 : lines[k] = ReportLine(r, k)
<1> DEFINE lines == [k \in DOMAIN Labels |-> ReportLine(r, k)]
           S == {ReportLine(r, k) : k \in 1..10}
<1>1. lines \in Seq(S) /\ Len(lines) = 10 /\ \A k \in 1..10 : lines[k] = ReportLine(r, k)
  BY LabelPlaces
<1> HIDE DEF lines
<1>2. IsSeq(lines)
  BY <1>1, SeqIsSeq
<1> QED BY <1>1, <1>2 DEF lines

LEMMA ReportOrigin ==
  ASSUME NEW name \in Range(FixedRequiredEntries), NEW lines, IsSeq(lines),
         \A k \in 1..Len(lines) : LineOrigin(lines[k])
  PROVE  Origin(Entry(name, Report(lines)))
<1>1. Report(lines).kind = "report" /\ Report(lines).value.lines = lines
  BY DataFields DEF Report
<1>2. Report(lines) = Data(Report(lines).kind, Report(lines).value)
  BY DataFields DEF Report
<1> QED BY <1>1, <1>2, EntryFields DEF Origin

LEMMA QROriginEntry ==
  ASSUME NEW name \in Range(FixedRequiredEntries), NEW payload, QROrigin(payload)
  PROVE  Origin(Entry(name, Data("qr", payload)))
BY DataFields, EntryFields DEF Origin

LEMMA LogOrigin ==
  ASSUME NEW name \in AudioNames \cup Range(FixedRequiredEntries),
         NEW state \in {sealed[r].log : r \in Recordings} \cup {"broken"}
  PROVE  Origin(Entry(name, Log(state)))
<1>1. Log(state).kind = "log" /\ Log(state).value.state = state
  BY DataFields DEF Log
<1>2. Log(state) = Data(Log(state).kind, Log(state).value)
  BY DataFields DEF Log
<1> QED BY <1>1, <1>2, EntryFields DEF Origin

LEMMA FileOrigin ==
  ASSUME NEW name \in AudioNames \cup Range(FixedRequiredEntries), NEW kind, NEW value,
         kind \notin {"report", "qr", "log"}
  PROVE  Origin(Entry(name, Data(kind, value)))
BY DataFields, EntryFields DEF Origin

LEMMA SealedEntryOrigin ==
  ASSUME NEW r \in Recordings, NEW name \in AudioNames \cup Range(FixedRequiredEntries)
  PROVE  Origin(Entry(name, SealedData(r, name)))
<1>1. CASE name \in AudioNames
  BY <1>1, SealedDataAt, FileOrigin DEF AudioOf, File
<1>2. CASE name = EntrySha256Report
  <2> DEFINE lines == [k \in DOMAIN Labels |-> ReportLine(r, k)]
  <2>1. IsSeq(lines) /\ \A k \in 1..Len(lines) : LineOrigin(lines[k])
    BY SealedLines, SealedLine
  <2>2. SealedData(r, name) = Report(lines)
    BY <1>2, SealedDataAt
  <2> HIDE DEF lines
  <2> QED BY <1>2, <2>1, <2>2, EntryNames, ReportOrigin
<1>3. CASE name = EntryVerificationQR
  <2>1. QROrigin(QRPayload(r))
    BY DEF QROrigin, QRPayload, QRFields
  <2> QED BY <1>3, <2>1, SealedDataAt, EntryNames, QROriginEntry
<1>4. CASE name = EntryAuditJsonl
  BY <1>4, SealedDataAt, LogOrigin
<1>5. CASE name \in Range(FixedRequiredEntries) \
                      {EntrySha256Report, EntryVerificationQR, EntryAuditJsonl}
  BY <1>5, SealedDataAt, FileOrigin DEF File
<1> QED BY <1>1, <1>2, <1>3, <1>4, <1>5

LEMMA SealedPackEntries ==
  ASSUME sealed \in [Recordings -> Drafts], NEW r \in Recordings
  PROVE  /\ IsSeq(SealedPack(r))
         /\ DOMAIN SealedPack(r) = 1..Len(SealedPack(r))
         /\ \A n \in DOMAIN SealedPack(r) : Origin(SealedPack(r)[n])
<1> DEFINE N == AudioNames \cup Range(FixedRequiredEntries)
           names == SealedNames(r)
           S == {e \in {Entry(name, SealedData(r, name)) : name \in N} : Origin(e)}
<1>1. names \in Seq(N)
  <2>1. <<sealed[r].audioName>> \in Seq(N)
    BY SealedDraft
  <2>2. FixedRequiredEntries \in Seq(N)
    BY EntryNames, SeqMonotonic
  <2> QED BY <2>1, <2>2, ConcatProperties DEF SealedNames
<1>2. DOMAIN names = 1..Len(names) /\ Len(names) \in Nat /\ \A k \in 1..Len(names) : names[k] \in N
  BY <1>1, LenProperties, ElementOfSeq
<1>3. \A name \in N : Entry(name, SealedData(r, name)) \in S
  BY SealedEntryOrigin
<1> HIDE DEF N, names, S
<1>4. SealedPack(r) = [k \in 1..Len(names) |-> Entry(names[k], SealedData(r, names[k]))]
  BY <1>2 DEF SealedPack, names
<1>5. SealedPack(r) \in Seq(S)
  BY <1>2, <1>3, <1>4
<1>6. \A e \in S : Origin(e)
  BY DEF S
<1> QED BY <1>5, <1>6, SeqIsSeq, LenProperties

\* Nothing unseals: what has an origin keeps it.
LEMMA OriginStays ==
  ASSUME UNCHANGED sealed, NEW entry
  PROVE  Origin(entry)' <=> Origin(entry)
<1>1. \A line : LineOrigin(line)' <=> LineOrigin(line)
  BY DEF LineOrigin, ReportValue, AudioOf
<1>2. \A payload : QROrigin(payload)' <=> QROrigin(payload)
  BY DEF QROrigin, QRPayload, AudioOf
<1> QED BY <1>1, <1>2 DEF Origin

-----------------------------------------------------------------------------
\* Damage.

\* Whatever becomes of a delivery, if all that is in it has an origin.
LEMMA DeliveryKeepsInv ==
  ASSUME IInv, phase = "transit", phase' = phase, UNCHANGED <<sealed, report, checks, outcome>>,
         faults' \in 0..MaxFaults, tsr' = Data(tsr'.kind, tsr'.value),
         NEW S, pack' \in Seq(S), \A e \in S : Origin(e)
  PROVE  IInv'
<1>1. /\ IsSeq(pack') /\ DOMAIN pack' = 1..Len(pack')
      /\ \A k \in 1..Len(pack') : Origin(pack'[k])
  BY SeqIsSeq, LenProperties
<1>2. \A k \in 1..Len(pack') : pack'[k].name \in AudioNames \cup Range(FixedRequiredEntries)
  BY <1>1 DEF Origin
<1>3. checks = <<>> /\ DOMAIN checks = {} /\ outcome = "none" /\ Len(checks) = 0
  BY EmptySeq DEF IInv, Progress
<1>4. TypeOK'
  BY <1>1, <1>2 DEF IInv, TypeOK
<1>5. Provenance'
  BY <1>1, OriginStays DEF Provenance
<1>6. Progress'
  BY <1>3 DEF IInv, Progress
<1> QED BY <1>4, <1>5, <1>6 DEF IInv

LEMMA DamageKeepsInv ==
  ASSUME IInv, Damage
  PROVE  IInv'
<1> USE DEF Fault, verifierVars
<1>1. /\ phase = "transit" /\ phase' = phase /\ UNCHANGED <<sealed, report, checks, outcome>>
      /\ faults < MaxFaults /\ faults' = faults + 1
  BY DEF Damage, LoseEntry, CorruptEntry, EditReport, EditQR, StrayEntry, StrayTsr
<1>2. faults' \in 0..MaxFaults
  BY <1>1, PackAssumption DEF IInv, TypeOK
<1> DEFINE R == Range(pack)
<1>3. /\ pack \in Seq(R) /\ Len(pack) \in Nat /\ DOMAIN pack = 1..Len(pack)
      /\ \A k \in 1..Len(pack) : pack[k] \in R
  BY LenProperties, ElementOfSeq DEF IInv, Provenance, IsSeq
<1>4. \A e \in R : Origin(e)
  <2> SUFFICES ASSUME NEW e \in R
               PROVE  Origin(e)
    OBVIOUS
  <2>1. PICK k \in 1..Len(pack) : e = pack[k]
    BY <1>3, RangeEquality
  <2> QED BY <2>1 DEF IInv, Provenance
<1>5. \A e : pack \in Seq(R \cup {e})
  BY <1>3, SeqMonotonic
<1> HIDE DEF R
<1>6. ASSUME tsr' = tsr, NEW new, Origin(new), pack' \in Seq(R \cup {new})
      PROVE  IInv'
  <2>1. tsr' = Data(tsr'.kind, tsr'.value)
    BY <1>6 DEF IInv, Provenance
  <2>2. \A e \in R \cup {new} : Origin(e)
    BY <1>4, <1>6
  <2> DEFINE S == R \cup {new}
  <2>3. pack' \in Seq(S) /\ \A e \in S : Origin(e)
    BY <1>6, <2>2
  <2> HIDE DEF S
  <2> QED BY <1>1, <1>2, <2>1, <2>3, DeliveryKeepsInv
<1>7. ASSUME NEW k \in DOMAIN pack, LoseEntry(k)
      PROVE  IInv'
  <2>1. pack' \in Seq(R) /\ tsr' = tsr
    BY <1>3, <1>7, RemoveAtSeq DEF LoseEntry
  <2>2. pack' \in Seq(R \cup {pack[k]}) /\ Origin(pack[k])
    BY <2>1, <1>3, <1>4, <1>7, SeqMonotonic
  <2> QED BY <2>1, <2>2, <1>6
\* One entry has its data replaced.
<1>8. ASSUME NEW k \in DOMAIN pack, NEW data, Origin(Entry(pack[k].name, data)),
             Rewrite(k, data), tsr' = tsr
      PROVE  IInv'
  <2> DEFINE new == Entry(pack[k].name, data)
  <2>1. pack[k] = Entry(pack[k].name, Data(pack[k].data.kind, pack[k].data.value))
    BY <1>3, <1>8, <1>4 DEF Origin
  <2>2. [pack[k] EXCEPT !.data = data] = new
    BY <2>1 DEF Entry
  <2>3. pack' = [pack EXCEPT ![k] = new]
    BY <1>8, <2>2 DEF Rewrite
  <2> HIDE DEF new
  <2>4. pack' \in Seq(R \cup {new})
    BY <1>3, <1>5, <1>8, <2>3, ExceptSeq
  <2> QED BY <1>6, <1>8, <2>4 DEF new
<1>9. \A k \in DOMAIN pack : Origin(pack[k]) /\ pack[k].name \in AudioNames \cup Range(FixedRequiredEntries)
  BY <1>3, <1>4 DEF Origin
<1>10. ASSUME NEW k \in DOMAIN pack, CorruptEntry(k)
       PROVE  IInv'
  <2> DEFINE name == pack[k].name
  <2>1. Origin(Entry(name, Garbled)) /\ Origin(Entry(name, Unreadable))
    BY <1>9, <1>10, FileOrigin DEF Garbled, Unreadable
  <2>2. Origin(Entry(name, Log("broken")))
    BY <1>9, <1>10, LogOrigin
  <2> QED BY <1>8, <1>10, <2>1, <2>2 DEF CorruptEntry
<1>11. ASSUME NEW k \in DOMAIN pack, EditReport(k)
       PROVE  IInv'
  <2> DEFINE lines == pack[k].data.value.lines
             L == Range(lines)
  <2>1. /\ pack[k].name = EntrySha256Report /\ pack[k].data.kind = "report"
        /\ tsr' = tsr
    BY <1>11 DEF EditReport
  <2>2. IsSeq(lines) /\ \A n \in 1..Len(lines) : LineOrigin(lines[n])
    BY <1>9, <1>11, <2>1 DEF Origin
  <2>3. pack[k].name \in Range(FixedRequiredEntries)
    BY <2>1, EntryNames
  <2> HIDE DEF lines
  <2>4. /\ lines \in Seq(L) /\ Len(lines) \in Nat /\ DOMAIN lines = 1..Len(lines)
        /\ \A e \in L : LineOrigin(e)
    BY <2>2, RangeEquality, LenProperties DEF IsSeq
  <2>5. ASSUME NEW new, LineOrigin(new), NEW s, s \in Seq(L \cup {new}), Rewrite(k, Report(s))
        PROVE  IInv'
    <3> DEFINE T == L \cup {new}
    <3>1. \A e \in T : LineOrigin(e)
      BY <2>4, <2>5
    <3>2. s \in Seq(T)
      BY <2>5
    <3> HIDE DEF T
    <3>3. IsSeq(s) /\ \A n \in 1..Len(s) : LineOrigin(s[n])
      BY <3>1, <3>2, SeqIsSeq
    <3>4. Origin(Entry(pack[k].name, Report(s)))
      BY <2>3, <3>3, ReportOrigin
    <3> QED BY <1>8, <1>11, <2>1, <2>5, <3>4
  <2>6. \A e : lines \in Seq(L \cup {e})
    BY <2>4, SeqMonotonic
  <2> HIDE DEF L
  <2>7. ASSUME NEW n \in DOMAIN lines, Rewrite(k, Report(RemoveAt(lines, n)))
        PROVE  IInv'
    <3>1. RemoveAt(lines, n) \in Seq(L \cup {lines[n]})
      BY <2>4, <2>6, <2>7, RemoveAtSeq
    <3>2. LineOrigin(lines[n])
      BY <2>2, <2>4, <2>7
    <3> QED BY <2>5, <2>7, <3>1, <3>2
  <2>8. ASSUME NEW n \in DOMAIN lines, NEW v \in {Damaged("report"), Malformed, NoString},
               Rewrite(k, Report([lines EXCEPT ![n].value = v]))
        PROVE  IInv'
    <3> DEFINE new == Line(lines[n].label, v)
    <3>1. lines[n] = Line(lines[n].label, lines[n].value)
      BY <2>2, <2>4, <2>8 DEF LineOrigin
    <3>2. [lines[n] EXCEPT !.value = v] = new
      BY <3>1 DEF Line
    <3>3. LineOrigin(new)
      BY <2>8, LineFields DEF LineOrigin
    <3>4. [lines EXCEPT ![n].value = v] = [lines EXCEPT ![n] = new]
      BY <3>2
    <3> HIDE DEF new
    <3>5. [lines EXCEPT ![n].value = v] \in Seq(L \cup {new})
      BY <2>4, <2>6, <2>8, <3>4, ExceptSeq
    <3> QED BY <2>5, <2>8, <3>3, <3>5
  <2>9. ASSUME NEW r \in Recordings, NEW n \in DOMAIN Labels, NEW m \in {1, Len(lines) + 1},
               Rewrite(k, Report(InsertAt(lines, m, ReportLine(r, n))))
        PROVE  IInv'
    <3> DEFINE new == ReportLine(r, n)
    <3>1. LineOrigin(new)
      BY <2>9, SealedLine, LabelPlaces
    <3> HIDE DEF new
    <3>2. m \in 1..(Len(lines) + 1)
      BY <2>4, <2>9
    <3>3. InsertAt(lines, m, new) \in Seq(L \cup {new})
      BY <2>6, <3>2, InsertAtSeq
    <3> QED BY <2>5, <2>9, <3>1, <3>3 DEF new
  <2> QED BY <1>11, <2>7, <2>8, <2>9 DEF EditReport, lines
<1>12. ASSUME NEW k \in DOMAIN pack, EditQR(k)
       PROVE  IInv'
  <2> DEFINE payload == pack[k].data.value
  <2>1. /\ pack[k].name = EntryVerificationQR /\ pack[k].data.kind = "qr"
        /\ tsr' = tsr
    BY <1>12 DEF EditQR
  <2>2. PICK f \in QRFields, v \in {Damaged("qr"), NoString} :
          Rewrite(k, Data("qr", [payload EXCEPT ![f] = v]))
    BY <1>12 DEF EditQR
  <2>3. QROrigin(payload)
    BY <1>9, <1>12, <2>1 DEF Origin
  <2> HIDE DEF payload
  <2>4. QROrigin([payload EXCEPT ![f] = v])
    BY <2>2, <2>3 DEF QROrigin
  <2>5. Origin(Entry(pack[k].name, Data("qr", [payload EXCEPT ![f] = v])))
    BY <2>1, <2>4, EntryNames, QROriginEntry
  <2> QED BY <1>8, <1>12, <2>1, <2>2, <2>5 DEF payload
<1>13. ASSUME NEW r \in Recordings, NEW n \in DOMAIN SealedPack(r), StrayEntry(r, n)
       PROVE  IInv'
  <2> DEFINE new == SealedPack(r)[n]
  <2>1. Origin(new)
    BY <1>13, SealedPackEntries DEF IInv, TypeOK
  <2>2. PICK k \in {1, Len(pack) + 1} : pack' = InsertAt(pack, k, new)
    BY <1>13 DEF StrayEntry
  <2> HIDE DEF new
  <2>3. k \in 1..(Len(pack) + 1)
    BY <1>3
  <2>4. pack' \in Seq(R \cup {new})
    BY <1>5, <2>2, <2>3, InsertAtSeq
  <2> QED BY <1>6, <1>13, <2>1, <2>4 DEF StrayEntry
<1>14. ASSUME StrayTsr
       PROVE  IInv'
  <2>1. pack' \in Seq(R)
    BY <1>3, <1>14 DEF StrayTsr
  <2>2. tsr' = Data(tsr'.kind, tsr'.value)
    BY <1>14, DataFields DEF StrayTsr, SealedTsr, NoTsr, Garbled
  <2> QED BY <1>1, <1>2, <1>4, <2>1, <2>2, DeliveryKeepsInv
<1> QED BY <1>7, <1>10, <1>11, <1>12, <1>13, <1>14 DEF Damage

-----------------------------------------------------------------------------
\* The verifier.

LEMMA ChecksInOrder ==
  /\ Len(CheckNames) = 4 /\ DOMAIN CheckNames = 1..4
  /\ CheckNames[1] = "audio_sha256"
  /\ CheckNames[2] = "verification_qr"
  /\ CheckNames[3] = "audit_jsonl_chain"
  /\ CheckNames[4] = "tsa_rfc3161"
BY DEF CheckNames

LEMMA RunOf ==
  /\ Run("audio_sha256") = runAudio
  /\ Run("verification_qr") = runQR
  /\ Run("audit_jsonl_chain") = runAudit
  /\ Run("tsa_rfc3161") = runTSA
BY DEF Run

LEMMA RunResults ==
  ASSUME NEW k \in 1..4
  PROVE  Run(CheckNames[k]) \in {"PASS", "FAIL", "SKIPPED"}
<1>1. k \in {1, 2, 3, 4}
  OBVIOUS
<1> QED BY <1>1, ChecksInOrder, RunOf DEF runAudio, runQR, runAudit, runTSA, If

\* What a check reads is not written any more.
LEMMA RunStays ==
  ASSUME UNCHANGED <<pack, tsr, report>>
  PROVE  \A k \in 1..4 : Run(CheckNames[k])' = Run(CheckNames[k])
<1>1. \A name : ReadEntry(name)' = ReadEntry(name)
  BY DEF ReadEntry
<1>2. AudioEntry' = AudioEntry
  BY DEF AudioEntry
<1>3. runAudio' = runAudio /\ runQR' = runQR /\ runAudit' = runAudit /\ runTSA' = runTSA
  BY <1>1, <1>2 DEF runAudio, runQR, runAudit, runTSA
<1>4. \A k \in 1..4 : k \in {1, 2, 3, 4}
  OBVIOUS
<1> QED BY <1>3, <1>4, RunOf, ChecksInOrder DEF Run

\* A step that leaves the delivery and the parsed report alone.
LEMMA ReportStays ==
  ASSUME UNCHANGED <<pack, report>>
  PROVE  /\ IsValidStructure' <=> IsValidStructure
         /\ ReportParses(ReadEntry(EntrySha256Report))' <=> ReportParses(ReadEntry(EntrySha256Report))
         /\ ParseSha256Report(ReadEntry(EntrySha256Report).value.lines)' =
              ParseSha256Report(ReadEntry(EntrySha256Report).value.lines)
<1>1. ReadEntry(EntrySha256Report)' = ReadEntry(EntrySha256Report)
  BY DEF ReadEntry
<1>2. IsValidStructure' <=> IsValidStructure
  BY DEF IsValidStructure, Has
<1> QED BY <1>1, <1>2

LEMMA ProvenanceStays ==
  ASSUME Provenance, UNCHANGED <<sealed, pack, tsr>>
  PROVE  Provenance'
BY OriginStays DEF Provenance

LEMMA OpenPackKeepsInv ==
  ASSUME IInv, OpenPack
  PROVE  IInv'
<1>1. /\ phase = "transit" /\ outcome = "none" /\ checks = <<>> /\ DOMAIN checks = {}
      /\ Len(checks) = 0
  BY EmptySeq DEF OpenPack, IInv, Progress
<1>2. UNCHANGED <<sealed, pack, tsr, faults, checks>>
  BY DEF OpenPack, fileVars
<1>3. Provenance'
  BY <1>2, ProvenanceStays DEF IInv
<1>4. CASE /\ IsValidStructure
           /\ ReportParses(ReadEntry(EntrySha256Report))
           /\ report' = ParseSha256Report(ReadEntry(EntrySha256Report).value.lines)
           /\ phase'  = "verify"
           /\ UNCHANGED outcome
  <2>1. TypeOK'
    BY <1>2, <1>4 DEF IInv, TypeOK
  <2>2. /\ IsValidStructure'
        /\ ReportParses(ReadEntry(EntrySha256Report))'
        /\ report' = ParseSha256Report(ReadEntry(EntrySha256Report).value.lines)'
    BY <1>2, <1>4 DEF IsValidStructure, Has, ReadEntry
  <2>3. Progress'
    BY <1>1, <1>2, <1>4, <2>2 DEF IInv, Progress
  <2> QED BY <1>3, <2>1, <2>3 DEF IInv
<1>5. CASE outcome' = "error" /\ phase' = "done" /\ UNCHANGED report
  <2>1. TypeOK'
    BY <1>2, <1>5 DEF IInv, TypeOK
  <2>2. Progress'
    BY <1>1, <1>2, <1>5 DEF IInv, Progress
  <2> QED BY <1>3, <2>1, <2>2 DEF IInv
<1> QED BY <1>4, <1>5 DEF OpenPack

LEMMA AppendCheckKeepsInv ==
  ASSUME IInv, AppendCheck
  PROVE  IInv'
<1> DEFINE n == Len(checks) + 1
           c == [name |-> CheckNames[n], result |-> Run(CheckNames[n])]
<1>1. /\ phase = "verify" /\ phase' = phase /\ outcome = "none" /\ outcome' = outcome
      /\ UNCHANGED <<sealed, pack, tsr, faults, report>>
  BY DEF AppendCheck, fileVars, IInv, Progress
<1>2. Len(checks) < 4 /\ checks' = Append(checks, c)
  BY ChecksInOrder DEF AppendCheck, NextCheck
<1>3. IsSeq(checks) /\ Len(checks) \in Nat /\ DOMAIN checks = 1..Len(checks)
  BY IsSeqLen, LenProperties DEF IInv, Progress, IsSeq
<1> HIDE DEF c
<1>4. /\ IsSeq(checks') /\ Len(checks') = n /\ checks'[n] = c
      /\ \A k \in 1..Len(checks) : checks'[k] = checks[k]
      /\ DOMAIN checks' = 1..n
  BY <1>2, <1>3, Grow, LenProperties DEF IsSeq
<1>5. n \in 1..4 /\ \A k \in 1..n : k \in 1..Len(checks) \/ k = n
  BY <1>2, <1>3
<1>6. c.name = CheckNames[n] /\ c.result \in {"PASS", "FAIL", "SKIPPED"}
  BY <1>5, RunResults DEF c
<1>7. \A k \in DOMAIN checks' : checks'[k] = [name |-> CheckNames[k], result |-> Run(CheckNames[k])]
  <2>1. \A k \in 1..Len(checks) : checks[k] = [name |-> CheckNames[k], result |-> Run(CheckNames[k])]
    BY <1>3 DEF IInv, Progress
  <2> QED BY <2>1, <1>4, <1>5 DEF c
<1>8. \A k \in DOMAIN checks' :
        checks'[k] = [name |-> CheckNames[k], result |-> Run(CheckNames[k])']
  <2>1. \A k \in DOMAIN checks' : k \in 1..4
    BY <1>4, <1>5
  <2> QED BY <1>1, <1>7, <2>1, RunStays
<1>9. TypeOK'
  <2>1. \A k \in DOMAIN checks' :
          checks'[k].name = CheckNames[k] /\ checks'[k].result \in {"PASS", "FAIL", "SKIPPED"}
    BY <1>3, <1>4, <1>5, <1>6 DEF IInv, TypeOK
  <2> QED BY <1>1, <1>4, <1>5, <2>1, ChecksInOrder DEF IInv, TypeOK
<1>10. Provenance'
  BY <1>1, ProvenanceStays DEF IInv
<1>11. Progress'
  BY <1>1, <1>4, <1>8, ReportStays DEF IInv, Progress
<1> QED BY <1>9, <1>10, <1>11 DEF IInv

LEMMA FinalizeKeepsInv ==
  ASSUME IInv, Finalize
  PROVE  IInv'
<1>1. /\ phase = "verify" /\ phase' = "done" /\ outcome = "none" /\ Len(checks) = Len(CheckNames)
      /\ outcome' = If(\A k \in DOMAIN checks : checks[k].result # "FAIL")
      /\ UNCHANGED <<sealed, pack, tsr, faults, report, checks>>
  BY DEF Finalize, fileVars, IInv, Progress
<1>2. outcome' \in {"PASS", "FAIL"}
  BY <1>1 DEF If
<1>3. IsSeq(checks) /\ DOMAIN checks = 1..4
  BY <1>1, LenProperties, ChecksInOrder DEF IInv, Progress, IsSeq
<1>4. TypeOK'
  BY <1>1, <1>2 DEF IInv, TypeOK
<1>5. Provenance'
  BY <1>1, ProvenanceStays DEF IInv
<1>6. Progress'
  <2>1. \A k \in DOMAIN checks : checks[k] = [name |-> CheckNames[k], result |-> Run(CheckNames[k])']
    BY <1>1, <1>3, RunStays DEF IInv, Progress
  <2> QED BY <1>1, <1>2, <1>3, <2>1, ReportStays DEF IInv, Progress
<1> QED BY <1>4, <1>5, <1>6 DEF IInv

-----------------------------------------------------------------------------
\* The theorems.

LEMMA InitEstablishesInv == Init => IInv
<1> SUFFICES ASSUME Init
             PROVE  IInv
  OBVIOUS
<1>1. DOMAIN checks = {} /\ Len(checks) = 0 /\ IsSeq(checks)
  <2>1. IsSeq(<<>>) /\ Len(<<>>) = 0
    BY EmptySeq, SeqIsSeq
  <2>2. checks = <<>>
    BY DEF Init
  <2> QED BY <2>1, <2>2
<1>2. PICK r \in Recordings : pack = SealedPack(r) /\ tsr = SealedTsr(r)
  BY DEF Init
<1>3. sealed \in [Recordings -> Drafts] /\ faults = 0 /\ phase = "transit" /\ outcome = "none"
  BY DEF Init
<1>4. IsSeq(pack) /\ DOMAIN pack = 1..Len(pack) /\ \A n \in DOMAIN pack : Origin(pack[n])
  BY <1>2, <1>3, SealedPackEntries
<1>5. TypeOK
  BY <1>1, <1>3, <1>4, PackAssumption, ChecksInOrder DEF TypeOK, Origin
<1>6. Provenance
  BY <1>2, <1>4, DataFields DEF Provenance, SealedTsr, NoTsr
<1>7. Progress
  BY <1>1, <1>3 DEF Init, Progress
<1> QED BY <1>5, <1>6, <1>7 DEF IInv

LEMMA NextKeepsInv == IInv /\ [Next]_vars => IInv'
<1> SUFFICES ASSUME IInv, [Next]_vars
             PROVE  IInv'
  OBVIOUS
<1>1. CASE Damage
  BY <1>1, DamageKeepsInv
<1>2. CASE OpenPack
  BY <1>2, OpenPackKeepsInv
<1>3. CASE Verify
  BY <1>3, AppendCheckKeepsInv, FinalizeKeepsInv DEF Verify
<1>4. CASE UNCHANGED vars
  <2>1. UNCHANGED <<sealed, pack, tsr, faults, phase, report, checks, outcome>>
    BY <1>4 DEF vars, fileVars, verifierVars
  <2>2. TypeOK'
    BY <2>1 DEF IInv, TypeOK
  <2>3. Provenance'
    BY <2>1, ProvenanceStays DEF IInv
  <2>4. Progress'
    <3>1. \A k \in DOMAIN checks : k \in 1..4
      BY LenProperties, ChecksInOrder DEF IInv, TypeOK, Progress, IsSeq
    <3>2. \A k \in DOMAIN checks :
            checks[k] = [name |-> CheckNames[k], result |-> Run(CheckNames[k])']
      BY <2>1, <3>1, RunStays DEF IInv, Progress
    <3> QED BY <2>1, <3>2, ReportStays DEF IInv, Progress
  <2> QED BY <2>2, <2>3, <2>4 DEF IInv
<1> QED BY <1>1, <1>2, <1>3, <1>4 DEF Next, Done

\* IInv holds in every reachable state, whatever is lost, damaged or strayed.
THEOREM InvariantHolds == Spec => []IInv
BY InitEstablishesInv, NextKeepsInv, PTL DEF Spec

\* Type correctness of the recordings, the delivered pack and the verifier.
THEOREM TypesHold == Spec => []TypeOK
<1>1. IInv => TypeOK
  BY DEF IInv
<1> QED BY <1>1, InvariantHolds, PTL

-----------------------------------------------------------------------------
\* What the verifier reads.

LEMMA ReadIsEntry ==
  ASSUME IInv, NEW name, Has(name)
  PROVE  \E k \in 1..Len(pack) :
           pack[k].name = name /\ ReadEntry(name) = pack[k].data /\ Origin(pack[k])
<1> DEFINE S == {k \in DOMAIN pack : pack[k].name = name}
<1>1. DOMAIN pack = 1..Len(pack) /\ Len(pack) \in Nat
  BY IsSeqLen, LenProperties DEF IInv, Provenance, IsSeq
<1>2. S \in SUBSET (1..Len(pack)) /\ S # {}
  BY <1>1 DEF Has
<1>3. Min(S) \in S
  <2> HIDE DEF S
  <2> QED BY <1>1, <1>2, MinMaxExist
<1>4. ReadEntry(name) = pack[Min(S)].data
  BY DEF ReadEntry
<1> QED BY <1>1, <1>3, <1>4 DEF IInv, Provenance

LEMMA AudioEntryIsThere ==
  ASSUME IInv, IsValidStructure
  PROVE  AudioEntry \in AudioNames /\ Has(AudioEntry)
<1> DEFINE S == {k \in DOMAIN pack : pack[k].name \in AudioNames}
<1>1. DOMAIN pack = 1..Len(pack) /\ Len(pack) \in Nat
  BY IsSeqLen, LenProperties DEF IInv, Provenance, IsSeq
<1>2. S \in SUBSET (1..Len(pack)) /\ S # {}
  BY <1>1 DEF IsValidStructure, Has
<1>3. Max(S) \in S
  <2> HIDE DEF S
  <2> QED BY <1>1, <1>2, MinMaxExist
<1> QED BY <1>1, <1>3 DEF AudioEntry, Has

LEMMA RequiredAreThere ==
  ASSUME IsValidStructure
  PROVE  Has(EntrySha256Report) /\ Has(EntryVerificationQR) /\ Has(EntryAuditJsonl)
<1>1. \A n \in 1..9 : Has(FixedRequiredEntries[n])
  BY EntryNames DEF IsValidStructure
<1> QED BY <1>1, EntryNames

\* What is read as a report, a QR code or a log was one, but for damage.
LEMMA ReadOrigin ==
  ASSUME IInv, IsValidStructure
  PROVE  /\ \A name \in {AudioEntry, EntrySha256Report, EntryVerificationQR, EntryAuditJsonl} :
              LET data == ReadEntry(name) IN
              /\ data = Data(data.kind, data.value)
              /\ data.kind = "report" =>
                   /\ IsSeq(data.value.lines)
                   /\ \A k \in 1..Len(data.value.lines) : LineOrigin(data.value.lines[k])
              /\ data.kind = "qr" => QROrigin(data.value)
              /\ data.kind = "log" =>
                   data.value.state \in {sealed[r].log : r \in Recordings} \cup {"broken"}
<1> SUFFICES ASSUME NEW name \in {AudioEntry, EntrySha256Report, EntryVerificationQR, EntryAuditJsonl}
             PROVE  LET data == ReadEntry(name) IN
                    /\ data = Data(data.kind, data.value)
                    /\ data.kind = "report" =>
                         /\ IsSeq(data.value.lines)
                         /\ \A k \in 1..Len(data.value.lines) : LineOrigin(data.value.lines[k])
                    /\ data.kind = "qr" => QROrigin(data.value)
                    /\ data.kind = "log" =>
                         data.value.state \in {sealed[r].log : r \in Recordings} \cup {"broken"}
  OBVIOUS
<1>1. Has(name)
  BY AudioEntryIsThere, RequiredAreThere
<1>2. PICK k \in 1..Len(pack) : ReadEntry(name) = pack[k].data /\ Origin(pack[k])
  BY <1>1, ReadIsEntry
<1>3. pack[k].data = Data(pack[k].data.kind, pack[k].data.value)
  BY <1>2, EntryFields DEF Origin
<1> QED BY <1>2, <1>3 DEF Origin

\* A field of a report has its value from some recording, or from damage.
LEMMA FieldOrigin ==
  ASSUME NEW lines, IsSeq(lines), \A k \in 1..Len(lines) : LineOrigin(lines[k]), NEW label
  PROVE  Field(lines, label) \in {ReportValue(r, label) : r \in Recordings}
                                   \cup {Damaged("report"), Malformed, NoString}
<1> DEFINE at == {k \in DOMAIN lines : lines[k].label = label}
<1>1. DOMAIN lines = 1..Len(lines) /\ Len(lines) \in Nat
  BY LenProperties DEF IsSeq
<1>2. CASE at = {}
  BY <1>2 DEF Field
<1>3. CASE at # {}
  <2>1. at \in SUBSET (1..Len(lines))
    BY <1>1
  <2>2. Max(at) \in at
    <3> HIDE DEF at
    <3> QED BY <1>1, <1>3, <2>1, MinMaxExist
  <2>3. Field(lines, label) = lines[Max(at)].value
    BY <1>3 DEF Field
  <2> QED BY <1>1, <2>2, <2>3 DEF LineOrigin
<1> QED BY <1>2, <1>3

LEMMA ReportFields ==
  ASSUME IInv, phase # "transit", outcome # "error"
  PROVE  /\ report.RecordingID \in Recordings \cup {Damaged("report"), Malformed, NoString}
         /\ report.SHA256 \in {SHA256(AudioOf(r)) : r \in Recordings}
                                \cup {Damaged("report"), Malformed, NoString}
         /\ report.ChainHash \in {ChainHash(r) : r \in Recordings}
                                   \cup {Damaged("report"), Malformed, NoString}
<1> DEFINE lines == ReadEntry(EntrySha256Report).value.lines
<1>1. /\ IsValidStructure /\ ReadEntry(EntrySha256Report).kind = "report"
      /\ report = ParseSha256Report(lines)
  BY DEF IInv, Progress, ReportParses
<1>2. IsSeq(lines) /\ \A k \in 1..Len(lines) : LineOrigin(lines[k])
  BY <1>1, ReadOrigin
<1> HIDE DEF lines
<1>3. /\ report.RecordingID = Field(lines, "RecordingID")
      /\ report.SHA256 = Field(lines, "SHA-256")
      /\ report.ChainHash = IF Field(lines, "ChainHash") = Unset THEN NoString
                            ELSE Field(lines, "ChainHash")
  BY <1>1 DEF ParseSha256Report
<1>4. \A r : /\ ReportValue(r, "RecordingID") = r
             /\ ReportValue(r, "SHA-256") = SHA256(AudioOf(r))
             /\ ReportValue(r, "ChainHash") \in {ChainHash(r), Unset}
  BY DEF ReportValue
<1>5. \A label : Field(lines, label) \in {ReportValue(r, label) : r \in Recordings}
                                           \cup {Damaged("report"), Malformed, NoString}
  BY <1>2, FieldOrigin
<1>6. report.RecordingID \in Recordings \cup {Damaged("report"), Malformed, NoString}
  BY <1>3, <1>4, <1>5
<1>7. report.SHA256 \in {SHA256(AudioOf(r)) : r \in Recordings}
                          \cup {Damaged("report"), Malformed, NoString}
  BY <1>3, <1>4, <1>5
<1>8. report.ChainHash \in {ChainHash(r) : r \in Recordings}
                             \cup {Damaged("report"), Malformed, NoString}
  BY <1>3, <1>4, <1>5
<1> QED BY <1>6, <1>7, <1>8

\* A verdict counts all four checks.
LEMMA VerdictCounts ==
  ASSUME IInv, phase = "done", outcome # "error"
  PROVE  /\ IsValidStructure
         /\ \A k \in 1..4 : checks[k].result = Run(CheckNames[k])
         /\ DOMAIN checks = 1..4
         /\ outcome = "PASS" <=> \A k \in 1..4 : checks[k].result # "FAIL"
<1>1. outcome \in {"PASS", "FAIL"}
  BY DEF IInv, TypeOK, Progress
<1>2. DOMAIN checks = 1..4
  BY <1>1, LenProperties, ChecksInOrder DEF IInv, Progress, IsSeq
<1>3. outcome = If(\A k \in 1..4 : checks[k].result # "FAIL")
  BY <1>1, <1>2 DEF IInv, Progress
<1>4. outcome = "PASS" <=> \A k \in 1..4 : checks[k].result # "FAIL"
  BY <1>3 DEF If
<1> QED BY <1>2, <1>4 DEF IInv, Progress

LEMMA IfPasses ==
  ASSUME NEW passed \in BOOLEAN
  PROVE  If(passed) # "FAIL" <=> passed
BY DEF If

\* VerifyLegalPack passes a pack only if audio, report, QR code and token are
\* those of one recording.
THEOREM PiecesBelongTogether == Spec => []PiecesSealedTogether
<1>1. IInv => PiecesSealedTogether
  <2> DEFINE id == report.RecordingID
             audio == ReadEntry(AudioEntry)
             qr == ReadEntry(EntryVerificationQR)
  <2> SUFFICES ASSUME IInv, phase = "done", outcome = "PASS"
               PROVE  /\ id \in Recordings
                      /\ audio = AudioOf(id)
                      /\ report.SHA256 = SHA256(AudioOf(id))
                      /\ report.ChainHash \in {NoString, ChainHash(id)}
                      /\ qr.value.id = id
                      /\ tsr \in {NoTsr, Data("tsr", SHA256(AudioOf(id)))}
    BY DEF PiecesSealedTogether
  <2>1. IsValidStructure /\ \A k \in 1..4 : Run(CheckNames[k]) # "FAIL"
    BY VerdictCounts
  <2>2. runAudio # "FAIL" /\ runQR # "FAIL" /\ runTSA # "FAIL"
    BY <2>1, RunOf, ChecksInOrder
  <2>3. SHA256(audio) = report.SHA256
    BY <2>2 DEF runAudio, If
  <2>4. /\ qr.kind = "qr"
        /\ \A f \in QRFields : qr.value[f] # NoString
        /\ qr.value.id = id
        /\ qr.value.sha256 = report.SHA256
        /\ report.ChainHash # NoString => qr.value.chain_hash = report.ChainHash
    BY <2>2 DEF runQR, If
  <2>5. QROrigin(qr.value)
    BY <2>1, <2>4, ReadOrigin
  <2> HIDE DEF audio, qr
  <2>6. PICK r \in Recordings :
          /\ qr.value.id \in {r, Damaged("qr")}
          /\ qr.value.sha256 \in {SHA256(AudioOf(r)), Damaged("qr")}
          /\ qr.value.chain_hash \in {ChainHash(r), Damaged("qr")}
    BY <2>4, <2>5 DEF QROrigin, QRPayload, QRFields
  <2>7. /\ report.SHA256 = SHA256(AudioOf(r))
        /\ audio = AudioOf(r)
    BY <2>3, <2>4, <2>6, ValuesDiffer
  <2>8. id = r
    <3>1. id # Damaged("qr")
      BY ReportFields, ValuesDiffer, PackAssumption
    <3> QED BY <2>4, <2>6, <3>1
  <2>9. report.ChainHash \in {NoString, ChainHash(r)}
    <3>1. report.ChainHash # Damaged("qr")
      BY ReportFields, ValuesDiffer
    <3> QED BY <2>4, <2>6, <3>1
  <2>10. tsr \in {NoTsr, Data("tsr", SHA256(AudioOf(r)))}
    BY <2>2, <2>7 DEF runTSA, If, IInv, Provenance
  <2> QED BY <2>4, <2>7, <2>8, <2>9, <2>10 DEF audio
<1> QED BY <1>1, InvariantHolds, PTL

-----------------------------------------------------------------------------
\* Under an intact report, each check by itself.

\* What is parsed from a sealed report.
LEMMA SealedReport ==
  ASSUME NEW r \in Recordings, report = ParseSha256Report(SealedData(r, EntrySha256Report).value.lines)
  PROVE  /\ report.RecordingID = r
         /\ report.AudioFilename = Text(sealed[r].audioName)
         /\ report.SHA256 = SHA256(AudioOf(r))
         /\ report.ChainHash = IF sealed[r].chained THEN ChainHash(r) ELSE NoString
<1> DEFINE lines == [k \in DOMAIN Labels |-> ReportLine(r, k)]
<1>0. SealedData(r, EntrySha256Report) = Report(lines)
  BY SealedDataAt
<1>1. SealedData(r, EntrySha256Report).value.lines = lines
  <2> HIDE DEF lines
  <2> QED BY <1>0, DataFields DEF Report
<1>2. IsSeq(lines) /\ Len(lines) = 10 /\ \A k \in 1..10 : lines[k] = ReportLine(r, k)
  BY SealedLines
<1> HIDE DEF lines
<1>3. ASSUME NEW n \in 1..10
      PROVE  Field(lines, Labels[n]) = ReportValue(r, Labels[n])
  <2> DEFINE at == {k \in DOMAIN lines : lines[k].label = Labels[n]}
  <2>1. DOMAIN lines = 1..10
    BY <1>2, LenProperties DEF IsSeq
  <2>2. at \in SUBSET (1..10) /\ n \in at
    BY <1>2, <1>3, <2>1, SealedLine
  <2>3. Max(at) \in at
    <3> HIDE DEF at
    <3> QED BY <2>2, MinMaxExist
  <2>4. Field(lines, Labels[n]) = lines[Max(at)].value
    BY <2>2 DEF Field
  <2>5. Max(at) \in 1..10 /\ lines[Max(at)].label = Labels[n]
    BY <2>1, <2>3
  <2> HIDE DEF at
  <2> QED BY <1>2, <2>4, <2>5, SealedLine
<1>4. /\ Field(lines, "RecordingID") = ReportValue(r, "RecordingID")
      /\ Field(lines, "AudioFile") = ReportValue(r, "AudioFile")
      /\ Field(lines, "SHA-256") = ReportValue(r, "SHA-256")
      /\ Field(lines, "ChainHash") = ReportValue(r, "ChainHash")
  BY <1>3, LabelPlaces
<1>5. /\ ReportValue(r, "RecordingID") = r
      /\ ReportValue(r, "AudioFile") = Text(sealed[r].audioName)
      /\ ReportValue(r, "SHA-256") = SHA256(AudioOf(r))
      /\ ReportValue(r, "ChainHash") = IF sealed[r].chained THEN ChainHash(r) ELSE Unset
  BY DEF ReportValue
<1>6. /\ report.RecordingID = Field(lines, "RecordingID")
      /\ report.AudioFilename = Field(lines, "AudioFile")
      /\ report.SHA256 = Field(lines, "SHA-256")
      /\ report.ChainHash = IF Field(lines, "ChainHash") = Unset THEN NoString
                            ELSE Field(lines, "ChainHash")
  BY <1>1 DEF ParseSha256Report
<1> QED BY <1>4, <1>5, <1>6, ValuesDiffer

LEMMA PieceOf ==
  ASSUME NEW r
  PROVE  /\ PieceIntact(r, "audio_sha256") <=>
              AudioEntry = sealed[r].audioName /\ ReadEntry(AudioEntry) = AudioOf(r)
         /\ PieceIntact(r, "verification_qr") <=>
              /\ ReadEntry(EntryVerificationQR).kind = "qr"
              /\ \A f \in QRFields :
                   LET v == ReadEntry(EntryVerificationQR).value[f] IN
                   v = QRPayload(r)[f] \/ (v = Damaged("qr") /\ f \in Unchecked(r))
         /\ PieceIntact(r, "audit_jsonl_chain") <=>
              IsLog(ReadEntry(EntryAuditJsonl), {sealed[s].log : s \in Recordings})
         /\ PieceIntact(r, "tsa_rfc3161") <=>
              tsr \in {NoTsr, Data("tsr", SHA256(AudioOf(r)))}
BY DEF PieceIntact

LEMMA AudioCheckIsExact ==
  ASSUME NEW r \in Recordings, report.AudioFilename = Text(sealed[r].audioName),
         report.SHA256 = SHA256(AudioOf(r))
  PROVE  runAudio = "FAIL" <=> ~PieceIntact(r, "audio_sha256")
<1>1. AudioOf(r) # Unreadable
  BY DataFields DEF AudioOf, File, Unreadable
<1>2. report.AudioFilename = Text(AudioEntry) <=> AudioEntry = sealed[r].audioName
  BY ValuesDiffer
<1>3. SHA256(ReadEntry(AudioEntry)) = report.SHA256 <=> ReadEntry(AudioEntry) = AudioOf(r)
  BY ValuesDiffer
<1> QED BY <1>1, <1>2, <1>3, PieceOf DEF runAudio, If

LEMMA QRCheckIsExact ==
  ASSUME IInv, IsValidStructure, NEW r \in Recordings, report.RecordingID = r,
         report.SHA256 = SHA256(AudioOf(r)),
         report.ChainHash = IF sealed[r].chained THEN ChainHash(r) ELSE NoString
  PROVE  runQR = "FAIL" <=> ~PieceIntact(r, "verification_qr")
<1> DEFINE qr == ReadEntry(EntryVerificationQR)
           p  == QRPayload(r)
           Agrees == /\ qr.kind = "qr"
                     /\ \A f \in QRFields : qr.value[f] # NoString
                     /\ qr.value.id = r
                     /\ qr.value.sha256 = SHA256(AudioOf(r))
                     /\ sealed[r].chained => qr.value.chain_hash = ChainHash(r)
           Intact == /\ qr.kind = "qr"
                     /\ \A f \in QRFields :
                          qr.value[f] = p[f] \/ (qr.value[f] = Damaged("qr") /\ f \in Unchecked(r))
<1>1. r \notin {NoString, Damaged("qr")}
  BY PackAssumption
<1>2. /\ p.id = r /\ p.sha256 = SHA256(AudioOf(r)) /\ p.chain_hash = ChainHash(r)
      /\ p.created_at = Text("Created")
  BY DEF QRPayload
<1>3. /\ Unchecked(r) = {"created_at"} \cup IF sealed[r].chained THEN {} ELSE {"chain_hash"}
      /\ QRFields = {"id", "sha256", "chain_hash", "created_at"}
  BY DEF Unchecked, QRFields
<1>4. runQR = "FAIL" <=> ~Agrees
  <2>1. report.ChainHash # NoString <=> sealed[r].chained
    BY ValuesDiffer
  <2> QED BY <2>1 DEF runQR, If
<1>5. ASSUME Intact
      PROVE  Agrees
  <2>1. \A f \in QRFields : p[f] # NoString
    BY <1>1, <1>2, <1>3, ValuesDiffer
  <2>2. \A f \in QRFields : qr.value[f] # NoString
    BY <1>5, <2>1, ValuesDiffer
  <2>3. /\ "id" \notin Unchecked(r) /\ "sha256" \notin Unchecked(r)
        /\ sealed[r].chained => "chain_hash" \notin Unchecked(r)
    BY <1>3
  <2>4. qr.value.id = p.id /\ qr.value.sha256 = p.sha256
    BY <1>3, <1>5, <2>3
  <2>5. sealed[r].chained => qr.value.chain_hash = p.chain_hash
    BY <1>3, <1>5, <2>3
  <2> QED BY <1>2, <1>5, <2>2, <2>4, <2>5
<1>6. ASSUME Agrees
      PROVE  Intact
  <2>1. QROrigin(qr.value)
    BY <1>6, ReadOrigin
  <2>2. PICK s \in Recordings :
          \A f \in QRFields : qr.value[f] \in {QRPayload(s)[f], Damaged("qr"), NoString}
    BY <2>1 DEF QROrigin
  <2>3. s = r
    BY <1>1, <1>3, <1>6, <2>2 DEF QRPayload
  <2>4. \A f \in QRFields : qr.value[f] \in {p[f], Damaged("qr")}
    BY <1>6, <2>2, <2>3
  <2> HIDE DEF p
  <2>5. qr.value.id = p.id /\ qr.value.sha256 = p.sha256
    BY <1>2, <1>6
  <2>6. sealed[r].chained => qr.value.chain_hash = p.chain_hash
    BY <1>2, <1>6
  <2> QED BY <1>3, <1>6, <2>4, <2>5, <2>6
<1> QED BY <1>4, <1>5, <1>6, PieceOf

LEMMA AuditCheckIsExact ==
  ASSUME IInv, IsValidStructure, NEW r \in Recordings
  PROVE  runAudit = "FAIL" <=> ~PieceIntact(r, "audit_jsonl_chain")
<1> DEFINE log == ReadEntry(EntryAuditJsonl)
           states == {sealed[s].log : s \in Recordings}
<1>1. states \subseteq LogStates
  BY SealedDraft DEF IInv, TypeOK
<1>2. log.kind = "log" => log.value.state \in states \cup {"broken"}
  BY ReadOrigin
<1>3. IsLog(log, states) <=> IsLog(log, {"empty", "unsigned", "signed"})
  BY <1>1, <1>2 DEF IsLog, LogStates
<1>4. runAudit = "FAIL" <=> ~IsLog(log, {"empty", "unsigned", "signed"})
  BY DEF runAudit, If, IsLog
<1> QED BY <1>3, <1>4, PieceOf

LEMMA TSACheckIsExact ==
  ASSUME IInv, NEW r \in Recordings, report.SHA256 = SHA256(AudioOf(r))
  PROVE  runTSA = "FAIL" <=> ~PieceIntact(r, "tsa_rfc3161")
<1>1. tsr = Data("tsr", SHA256(AudioOf(r))) <=> tsr.kind = "tsr" /\ tsr.value = SHA256(AudioOf(r))
  BY DataFields DEF IInv, Provenance
<1> QED BY <1>1, PieceOf DEF runTSA, If

\* Under a report that says what was sealed, each failing check is about a piece
\* that is not what was sealed, and no such piece passes.
THEOREM ChecksBlameThePieces == Spec => []BlamesThePieces
<1>1. IInv => BlamesThePieces
  <2> DEFINE r == report.RecordingID
  <2> SUFFICES ASSUME IInv, phase = "done", outcome # "error", ReportIntact(r)
               PROVE  /\ \A k \in 1..4 :
                           checks[k].result = "FAIL" <=> ~PieceIntact(r, CheckNames[k])
                      /\ outcome = "PASS" <=> \A k \in 1..4 : PieceIntact(r, CheckNames[k])
    BY ChecksInOrder DEF BlamesThePieces
  <2>1. /\ r \in Recordings
        /\ report.AudioFilename = Text(sealed[r].audioName)
        /\ report.SHA256 = SHA256(AudioOf(r))
        /\ report.ChainHash = IF sealed[r].chained THEN ChainHash(r) ELSE NoString
    BY SealedReport DEF ReportIntact
  <2>2. /\ IsValidStructure
        /\ \A k \in 1..4 : checks[k].result = Run(CheckNames[k])
        /\ outcome = "PASS" <=> \A k \in 1..4 : checks[k].result # "FAIL"
    BY VerdictCounts
  <2> HIDE DEF r
  <2>3. /\ runAudio = "FAIL" <=> ~PieceIntact(r, "audio_sha256")
        /\ runQR = "FAIL" <=> ~PieceIntact(r, "verification_qr")
        /\ runAudit = "FAIL" <=> ~PieceIntact(r, "audit_jsonl_chain")
        /\ runTSA = "FAIL" <=> ~PieceIntact(r, "tsa_rfc3161")
    BY <2>1, <2>2, AudioCheckIsExact, QRCheckIsExact, AuditCheckIsExact, TSACheckIsExact DEF r
  <2>4. ASSUME NEW k \in 1..4
        PROVE  checks[k].result = "FAIL" <=> ~PieceIntact(r, CheckNames[k])
    <3>1. k \in {1, 2, 3, 4}
      OBVIOUS
    <3> QED BY <2>2, <2>3, <3>1, RunOf, ChecksInOrder
  <2> QED BY <2>2, <2>4
<1> QED BY <1>1, InvariantHolds, PTL
=============================================================================
