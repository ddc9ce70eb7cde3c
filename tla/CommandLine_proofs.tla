------------------------- MODULE CommandLine_proofs -------------------------
(***************************************************************************)
(* Proofs about one run of the program, for every serial, every number of   *)
(* arguments and every outcome of the checks.  Code, overall result,        *)
(* summary and status are computed from different things; the invariant     *)
(* Inv says what each of them is worth in every phase, and the statements    *)
(* of CommandLine follow from what it says of a process that is gone.        *)
(***************************************************************************)
EXTENDS CommandLine, FiniteSetTheorems, TLAPS

-----------------------------------------------------------------------------
\* Counting the checks of one result.

\* Counting tells whether there is one.
LEMMA Counted ==
  ASSUME NEW r, NEW S, checks \in Seq(S)
  PROVE  /\ Number(r) \in Nat
         /\ Number(r) = 0 <=> r \notin Range(checks)
<1> DEFINE Hits == {k \in DOMAIN checks : checks[k] = r}
<1>1. IsFiniteSet(1..Len(checks))
  BY FS_Interval
<1>2. IsFiniteSet(Hits)
  <2>1. Hits \subseteq 1..Len(checks)
    OBVIOUS
  <2> QED BY <1>1, <2>1, FS_Subset
<1>3. Cardinality(Hits) \in Nat /\ (Cardinality(Hits) = 0 <=> Hits = {})
  BY <1>2, FS_CardinalityType, FS_EmptySet
<1>4. Hits = {} <=> r \notin Range(checks)
  BY DEF Range
<1> QED BY <1>3, <1>4 DEF Number

-----------------------------------------------------------------------------
\* The table of exit statuses.

\* Ten checks, whose codes are in the table and are not VALID.
LEMMA CodesOfChecks ==
  /\ Len(CheckCodes) = 10
  /\ \A k \in 1..10 : CheckCodes[k] \in DOMAIN exitCodeFor \ {"VALID"}
  /\ "VALID" \in DOMAIN exitCodeFor
  /\ "none" \notin DOMAIN exitCodeFor
BY DEF CheckCodes, exitCodeFor

\* No two codes share a status, none has that of an error, and 0 is VALID's.
LEMMA StatusTellsCode ==
  /\ \A c, d \in DOMAIN exitCodeFor : exitCodeFor[c] = exitCodeFor[d] => c = d
  /\ \A c \in DOMAIN exitCodeFor : exitCodeFor[c] \in Nat
  /\ exitCodeFor["VALID"] = 0
  /\ \A c \in DOMAIN exitCodeFor : exitCodeFor[c] = 0 => c = "VALID"
BY DEF exitCodeFor
-----------------------------------------------------------------------------
\* The invariant.

Results == {"PASS", "FAIL", "SKIPPED"}
NoFailure == "FAIL" \notin Range(checks)

\* While a bundle is checked, no check has failed.
Checking ==
  /\ IsVerification(line)
  /\ line.arguments = 1
  /\ code = "none"
  /\ line.command = "bundle" =>
       /\ Len(checks) <= 10
       /\ \A k \in 1..Len(checks) : checks[k] = "PASS"
  /\ line.command = "legal-pack" => Len(checks) <= 4

\* A bundle has a code: VALID after ten checks that passed, or that of the last
\* one, which failed.
HasCode ==
  \/ /\ code = "VALID"
     /\ Len(checks) = 10
     /\ \A k \in 1..10 : checks[k] = "PASS"
  \/ /\ Len(checks) \in 1..10
     /\ code = CheckCodes[Len(checks)]
     /\ checks[Len(checks)] = "FAIL"

Checked ==
  /\ IsVerification(line)
  /\ line.command \in Packs
  /\ line.command = "bundle" => HasCode
  /\ line.command = "legal-pack" => code = "none" /\ Len(checks) = 4

SummedUp ==
  /\ overall \in {"PASS", "FAIL"}
  /\ overall = "PASS" <=> NoFailure
  /\ overall = "PASS" <=> summary \in {"intact", "intact-within-scope"}

Status == IF line.command = "bundle" THEN BundleStatus ELSE PackStatus

\* A process that is gone: what its report and its status say.
Gone ==
  /\ exit # Running
  /\ report.kind = "report" =>
       /\ Checked
       /\ SummedUp
       /\ report = Rendered
       /\ exit = Status
  /\ (exit = 0 /\ IsVerification(line)) =>
       \/ report.kind = "report"
       \/ line.command = "license" /\ line.serial \in Issued

Phases == {"parse", "check", "finalize", "render", "leave", "done"}

Inv ==
  /\ line \in Lines
  /\ phase \in Phases
  /\ checks \in Seq(Results)
  /\ code \in DOMAIN exitCodeFor \cup {"none"}
  /\ overall \in {"none", "PASS", "FAIL"}
  /\ summary \in {"none", "could-not-be-opened", "failed", "intact-within-scope", "intact"}
  /\ report.kind \in {"nothing", "help", "version", "license", "report"}
  /\ exit \in {0, 1, 2, Killed} \cup Range(exitCodeFor) \cup {Running}
  /\ phase \notin {"leave", "done"} => report = Nothing
  /\ phase # "done" => exit = Running
  /\ phase = "parse" => checks = <<>> /\ code = "none"
  /\ phase = "check" => Checking
  /\ phase \in {"finalize", "render", "leave"} => Checked
  /\ phase \in {"render", "leave"} => SummedUp
  /\ phase = "leave" => report = Rendered
  /\ phase = "done" => Gone
LEMMA Initially == Init => Inv
<1> SUFFICES ASSUME Init PROVE Inv
  OBVIOUS
<1>1. checks \in Seq(Results) /\ line \in Lines
  BY DEF Init
<1> QED BY <1>1 DEF Init, Inv, Phases, Nothing

-----------------------------------------------------------------------------
\* Steps.

\* Every field of a report is what was rendered.
LEMMA ReportKinds ==
  /\ Nothing.kind = "nothing"
  /\ Rendered.kind = "report"
BY DEF Nothing, Rendered, JSONBundle, HumanBundle, JSON, Human, Report

\* A process that leaves without a report, and not with 0 after a verification.
LEMMA LeavesSilently ==
  ASSUME NEW status \in {0, 1, 2, Killed}, Leave(status),
         report'.kind \in {"nothing", "help", "version", "license"},
         line' = line,
         (status = 0 /\ IsVerification(line)) =>
           line.command = "license" /\ line.serial \in Issued
  PROVE  Gone'
BY DEF Gone, Leave, Running, Killed, Issued, IsVerification

\* Output before leaving is never a report.
LEMMA PrintsNoReport ==
  ASSUME NEW kind \in {"help", "version", "license"}, NEW status \in {0, 1},
         PrintAndLeave(kind, status), report = Nothing
  PROVE  /\ phase' = "done"
         /\ exit' \in {status, Killed}
         /\ report'.kind \in {"nothing", "help", "version", "license"}
<1>1. [kind |-> kind].kind = kind
  OBVIOUS
<1> QED BY <1>1, ReportKinds DEF PrintAndLeave, Leave

LEMMA ParseLineStep ==
  ASSUME Inv, ParseLine
  PROVE  Inv'
<1>1. /\ report = Nothing /\ checks = <<>> /\ code = "none" /\ exit = Running
      /\ line' = line /\ UNCHANGED <<checks, verdictVars>>
  BY DEF Inv, ParseLine
<1>2. CASE IsVerification(line) /\ line.arguments = 1 /\ GoTo("check") /\ report' = report
  <2>1. Checking'
    BY <1>1, <1>2 DEF Checking, IsVerification, verdictVars
  <2>2. phase' = "check" /\ exit' = exit
    BY <1>2 DEF GoTo
  <2> QED BY <1>1, <1>2, <2>1, <2>2 DEF Inv, Phases, verdictVars
<1>3. CASE \E status \in {0, 1, Killed} :
              /\ Leave(status)
              /\ report'.kind \in {"nothing", "help", "version", "license"}
              /\ status = 0 => ~IsVerification(line)
  <2>1. PICK status \in {0, 1, Killed} :
              /\ Leave(status)
              /\ report'.kind \in {"nothing", "help", "version", "license"}
              /\ status = 0 => ~IsVerification(line)
    BY <1>3
  <2>2. Gone'
    BY <1>1, <2>1, LeavesSilently
  <2>3. phase' = "done" /\ exit' = status
    BY <2>1 DEF Leave
  <2> QED BY <1>1, <2>1, <2>2, <2>3 DEF Inv, Phases, verdictVars
<1>4. CASE Leave(1) /\ report' = report
  BY <1>1, <1>3, <1>4, ReportKinds
<1>5. CASE ShowsHelp(line) /\ line.command # "other" /\ PrintAndLeave("help", 0)
  <2>1. ~IsVerification(line)
    BY <1>5 DEF ShowsHelp, IsVerification, Packs
  <2>2. exit' \in {0, Killed} /\ Leave(exit')
    BY <1>1, <1>5, PrintsNoReport DEF Leave
  <2> QED BY <1>1, <1>3, <1>5, <2>1, <2>2, PrintsNoReport
<1>6. CASE line.command = "version" /\ PrintAndLeave("version", 0)
  <2>1. ~IsVerification(line)
    BY <1>6 DEF IsVerification, Packs
  <2>2. exit' \in {0, Killed} /\ Leave(exit')
    BY <1>1, <1>6, PrintsNoReport DEF Leave
  <2> QED BY <1>1, <1>3, <1>6, <2>1, <2>2, PrintsNoReport
<1> QED BY <1>2, <1>4, <1>5, <1>6 DEF ParseLine

\* How many checks there can be while they run.
LEMMA ChecksSoFar ==
  ASSUME Inv, phase = "check"
  PROVE  /\ Checking
         /\ checks \in Seq(Results)
         /\ Len(checks) \in Nat
         /\ line.command = "bundle" => Len(checks) <= 10
         /\ line.command = "legal-pack" => Len(checks) <= 4
<1>1. checks \in Seq(Results) /\ Checking
  BY DEF Inv
<1>2. Len(checks) \in Nat
  BY <1>1
<1>3. /\ line.command = "bundle" => Len(checks) <= 10
      /\ line.command = "legal-pack" => Len(checks) <= 4
  BY <1>1, Zenon DEF Checking
<1> QED BY <1>1, <1>2, <1>3, Zenon

LEMMA BundleUnopenedStep ==
  ASSUME Inv, BundleUnopened
  PROVE  Inv'
<1>1. checks' = <<"FAIL">> /\ line' = line /\ report' = report /\ exit' = exit
  BY DEF BundleUnopened, GoTo
<1>2. checks' \in Seq(Results) /\ Len(checks') = 1 /\ checks'[1] = "FAIL"
  <2>1. "FAIL" \in Results
    BY DEF Results
  <2> QED BY <1>1, <2>1
<1>3. code' = CheckCodes[1]
  BY DEF BundleUnopened, CheckCodes
<1>4. Checked'
  <2>1. line.command = "bundle" /\ IsVerification(line)
    BY DEF Inv, Checking, BundleUnopened
  <2>2. HasCode'
    BY <1>2, <1>3 DEF HasCode
  <2> QED BY <1>1, <2>1, <2>2 DEF Checked, Packs, IsVerification
<1>5. SummedUp'
  <2>1. "FAIL" \in Range(checks')
    BY <1>1 DEF Range
  <2>2. ~NoFailure'
    BY <2>1 DEF NoFailure
  <2> QED BY <2>2 DEF SummedUp, BundleUnopened
<1> QED
  BY <1>1, <1>2, <1>3, <1>4, <1>5, CodesOfChecks DEF BundleUnopened, Inv, GoTo, Phases

LEMMA BundleCheckStep ==
  ASSUME Inv, BundleCheck
  PROVE  Inv'
<1>1. /\ line' = line /\ report' = report /\ exit' = exit
      /\ overall' = overall /\ summary' = summary
      /\ line.command = "bundle" /\ phase = "check"
  BY DEF BundleCheck, GoTo
<1>2. Checking /\ checks \in Seq(Results) /\ Len(checks) \in Nat /\ Len(checks) <= 10
  BY <1>1, ChecksSoFar, Zenon
<1>3. CASE checks' = Append(checks, "PASS") /\ phase' = phase /\ code' = code /\ Len(checks) < 10
  <2>1. checks' \in Seq(Results) /\ Len(checks') <= 10
    BY <1>2, <1>3 DEF Results
  <2>2. \A k \in 1..Len(checks') : checks'[k] = "PASS"
    BY <1>1, <1>2, <1>3 DEF Checking
  <2>3. Checking'
    BY <1>1, <1>2, <1>3, <2>1, <2>2 DEF Checking, IsVerification
  <2> QED BY <1>1, <1>3, <2>1, <2>3 DEF Inv, Phases
<1>4. CASE /\ checks' = Append(checks, "FAIL")
           /\ code' = CheckCodes[Len(checks) + 1]
           /\ phase' = "finalize"
           /\ Len(checks) < 10
  <2>1. checks' \in Seq(Results) /\ Len(checks') = Len(checks) + 1 /\ Len(checks') \in 1..10
        /\ checks'[Len(checks')] = "FAIL"
    BY <1>2, <1>4 DEF Results
  <2>2. HasCode'
    BY <1>4, <2>1 DEF HasCode
  <2>3. Checked'
    BY <1>1, <1>2, <2>2 DEF Checked, Checking, Packs, IsVerification
  <2>4. code' \in DOMAIN exitCodeFor
    BY <1>4, <2>1, CodesOfChecks
  <2> QED BY <1>1, <1>4, <2>1, <2>3, <2>4 DEF Inv, Phases
<1>5. CASE checks' = checks /\ code' = "VALID" /\ phase' = "finalize" /\ Len(checks) = 10
  <2>1. HasCode'
    BY <1>1, <1>2, <1>5 DEF HasCode, Checking
  <2>2. Checked'
    BY <1>1, <1>2, <2>1 DEF Checked, Checking, Packs, IsVerification
  <2> QED BY <1>1, <1>5, <2>2, CodesOfChecks DEF Inv, Phases
<1> QED BY <1>3, <1>4, <1>5, CodesOfChecks DEF BundleCheck, GoTo

LEMMA PackUnreadableStep ==
  ASSUME Inv, PackUnreadable
  PROVE  Inv'
<1>1. Leave(2) /\ line' = line /\ report' = Nothing /\ UNCHANGED <<checks, verdictVars>>
  BY DEF PackUnreadable, Inv
<1>2. Gone'
  BY <1>1, ReportKinds, LeavesSilently
<1> QED BY <1>1, <1>2, ReportKinds DEF Inv, Leave, verdictVars, Phases

LEMMA LegalCheckStep ==
  ASSUME Inv, LegalCheck
  PROVE  Inv'
<1>1. /\ line' = line /\ report' = report /\ exit' = exit /\ code' = code
      /\ overall' = overall /\ summary' = summary
      /\ line.command = "legal-pack" /\ phase = "check"
  BY DEF LegalCheck, GoTo, verdictVars
<1>2. Checking /\ checks \in Seq(Results) /\ Len(checks) \in Nat /\ Len(checks) <= 4
  BY <1>1, ChecksSoFar, Zenon
<1>3. /\ Len(LegalResults(line)) = 4
      /\ \A k \in 1..4 : LegalResults(line)[k] \subseteq Results
  BY DEF LegalResults, Results
<1>4. CASE \E r \in LegalResults(line)[Len(checks) + 1] :
              checks' = Append(checks, r) /\ phase' = phase /\ Len(checks) < 4
  <2>1. PICK r \in LegalResults(line)[Len(checks) + 1] :
              checks' = Append(checks, r) /\ phase' = phase /\ Len(checks) < 4
    BY <1>4
  <2>2. r \in Results
    BY <1>2, <1>3, <2>1
  <2>3. checks' \in Seq(Results) /\ Len(checks') <= 4
    BY <1>2, <2>1, <2>2
  <2>4. Checking'
    <3>1. line'.command = "legal-pack"
      BY <1>1
    <3> QED BY <1>1, <1>2, <2>3, <3>1 DEF Checking, IsVerification
  <2> QED BY <1>1, <2>1, <2>3, <2>4 DEF Inv, Phases
<1>5. CASE checks' = checks /\ phase' = "finalize" /\ Len(checks) = 4
  <2>1. Checked'
    BY <1>1, <1>2, <1>5 DEF Checked, Checking, Packs, IsVerification
  <2> QED BY <1>1, <1>5, <2>1 DEF Inv, Phases
<1> QED BY <1>3, <1>4, <1>5 DEF LegalCheck, GoTo

\* A bundle's code is VALID when none of its checks failed, and then only.
LEMMA CodeTellsFailure ==
  ASSUME HasCode, checks \in Seq(Results)
  PROVE  code = "VALID" <=> NoFailure
<1>1. CASE /\ code = "VALID"
           /\ Len(checks) = 10
           /\ \A k \in 1..10 : checks[k] = "PASS"
  BY <1>1 DEF NoFailure, Range
<1>2. CASE /\ Len(checks) \in 1..10
           /\ code = CheckCodes[Len(checks)]
           /\ checks[Len(checks)] = "FAIL"
  <2>1. PICK n \in 1..10 : n = Len(checks)
    BY <1>2
  <2>2. code # "VALID"
    BY <1>2, <2>1, CodesOfChecks
  <2>3. "FAIL" \in Range(checks)
    BY <1>2, <2>1 DEF Range
  <2> QED BY <2>2, <2>3 DEF NoFailure
<1> QED BY <1>1, <1>2 DEF HasCode

LEMMA CodeInTable ==
  ASSUME HasCode
  PROVE  code \in DOMAIN exitCodeFor
<1>1. CASE code = "VALID"
  BY <1>1, CodesOfChecks
<1>2. CASE code # "VALID"
  <2>1. PICK n \in 1..10 : code = CheckCodes[n]
    BY <1>2 DEF HasCode
  <2> QED BY <2>1, CodesOfChecks
<1> QED BY <1>1, <1>2

LEMMA FinalizeStep ==
  ASSUME Inv, Finalize
  PROVE  Inv'
<1>1. /\ line' = line /\ checks' = checks /\ code' = code /\ report' = report /\ exit' = exit
      /\ phase = "finalize" /\ phase' = "render" /\ overall' = Overall /\ summary' = Summary
  BY DEF Finalize, GoTo
<1>2. Checked /\ checks \in Seq(Results)
  BY <1>1 DEF Inv
<1>3. /\ Number("FAIL") \in Nat
      /\ Number("FAIL") = 0 <=> NoFailure
  BY <1>2, Counted DEF NoFailure
<1>4. Overall \in {"PASS", "FAIL"} /\ (Overall = "PASS" <=> NoFailure)
  <2>1. CASE line.command = "bundle"
    BY <1>2, <2>1, CodeTellsFailure DEF Overall, Checked
  <2>2. CASE line.command # "bundle"
    BY <1>3, <2>2 DEF Overall
  <2> QED BY <2>1, <2>2
<1>5. /\ Summary \in {"failed", "intact-within-scope", "intact"}
      /\ Summary \in {"intact", "intact-within-scope"} <=> NoFailure
  BY <1>3 DEF Summary
<1>6. SummedUp'
  BY <1>1, <1>4, <1>5 DEF SummedUp, NoFailure
<1>7. Checked'
  BY <1>1, <1>2 DEF Checked, HasCode, IsVerification
<1> QED BY <1>1, <1>4, <1>5, <1>6, <1>7 DEF Inv, Phases

LEMMA RenderStep ==
  ASSUME Inv, Render
  PROVE  Inv'
<1>1. /\ line' = line /\ UNCHANGED <<checks, verdictVars>> /\ phase = "render"
      /\ report = Nothing /\ exit = Running
  BY DEF Render, Inv
<1>2. Checked /\ SummedUp /\ line.command \in Packs
  BY <1>1 DEF Inv, Checked
<1>3. CASE report' = Rendered /\ GoTo("leave")
  <2>1. Checked' /\ SummedUp' /\ report' = Rendered'
    BY <1>1, <1>2, <1>3
       DEF Checked, SummedUp, HasCode, NoFailure, IsVerification, verdictVars, Rendered, Human,
           HumanBundle, JSON, JSONBundle, Report, Signs
  <2> QED BY <1>1, <1>3, <2>1, ReportKinds DEF Inv, GoTo, Phases, verdictVars
<1>4. CASE report' = report /\ (Leave(1) \/ Leave(Killed))
  <2>1. PICK status \in {1, Killed} : Leave(status)
    BY <1>4
  <2>2. status # 0
    BY <2>1 DEF Killed
  <2>3. Gone'
    BY <1>1, <1>4, <2>1, <2>2, ReportKinds, LeavesSilently
  <2> QED BY <1>1, <1>4, <2>1, <2>3, ReportKinds DEF Inv, Leave, Phases, verdictVars
<1> QED BY <1>3, <1>4 DEF Render

LEMMA LeavePackStep ==
  ASSUME Inv, LeavePack
  PROVE  Inv'
<1>1. /\ line' = line /\ UNCHANGED <<checks, verdictVars>> /\ report' = report
      /\ phase = "leave" /\ phase' = "done" /\ exit' = Status
  BY DEF LeavePack, Leave, Status
<1>2. Checked /\ SummedUp /\ report = Rendered /\ line.command \in Packs
  BY <1>1 DEF Inv, Checked
<1>3. Status \in {0, 1, 2} \cup Range(exitCodeFor) /\ Status # Running
  <2>1. \A c \in DOMAIN exitCodeFor : exitCodeFor[c] \in Range(exitCodeFor)
    BY DEF Range
  <2> QED BY <2>1, StatusTellsCode DEF Status, BundleStatus, PackStatus, Running
<1>4. Gone'
  <2>1. Checked' /\ SummedUp' /\ report' = Rendered' /\ exit' = Status'
    BY <1>1, <1>2
       DEF Checked, SummedUp, HasCode, NoFailure, IsVerification, verdictVars, Rendered, Human,
           HumanBundle, JSON, JSONBundle, Report, Signs, Status, BundleStatus, PackStatus
  <2>2. report'.kind = "report"
    BY <1>1, <1>2, ReportKinds
  <2> QED BY <1>1, <1>3, <2>1, <2>2 DEF Gone
<1> QED BY <1>1, <1>3, <1>4 DEF Inv, Phases, verdictVars

\* A serial that is not out of range is one that can have been issued.
LEMMA InRangeIsIssued ==
  ASSUME NEW serial \in 0..MaxSerial, ~SerialOutOfRange(serial)
  PROVE  serial \in Issued
<1>1. serial - SerialOffset \in 1..(MaxSerial - SerialOffset)
  BY LicenseAssumption DEF SerialOutOfRange
<1>2. serial = (serial - SerialOffset) + SerialOffset
  BY LicenseAssumption
<1> QED BY <1>1, <1>2 DEF Issued

LEMMA VerifyLicenseStep ==
  ASSUME Inv, VerifyLicense
  PROVE  Inv'
<1>1. /\ line' = line /\ UNCHANGED <<checks, verdictVars>> /\ phase = "check"
      /\ report = Nothing /\ line.command = "license"
  BY DEF VerifyLicense, Inv
<1>2. line.serial \in {NoFormat} \cup (0..MaxSerial)
  BY DEF Inv, Lines
<1>3. PICK status \in {0, 1, Killed} :
        /\ Leave(status)
        /\ report'.kind \in {"nothing", "help", "version", "license"}
        /\ status = 0 => line.serial \in Issued
  <2>1. CASE line.serial = NoFormat
    BY <1>1, <2>1, ReportKinds DEF VerifyLicense
  <2>2. CASE line.serial # NoFormat /\ SerialOutOfRange(line.serial)
    <3>1. PrintAndLeave("license", 1)
      BY <2>2 DEF VerifyLicense
    <3>2. exit' \in {1, Killed} /\ Leave(exit') /\ exit' # 0
      BY <1>1, <3>1, PrintsNoReport DEF Leave, Killed
    <3> QED BY <1>1, <3>1, <3>2, PrintsNoReport
  <2>3. CASE line.serial # NoFormat /\ ~SerialOutOfRange(line.serial)
    <3>1. PrintAndLeave("license", 0)
      BY <2>3 DEF VerifyLicense
    <3>2. exit' \in {0, Killed} /\ Leave(exit')
      BY <1>1, <3>1, PrintsNoReport DEF Leave
    <3>3. line.serial \in Issued
      BY <1>2, <2>3, InRangeIsIssued
    <3> QED BY <1>1, <3>1, <3>2, <3>3, PrintsNoReport
  <2> QED BY <2>1, <2>2, <2>3
<1>4. Gone'
  BY <1>1, <1>3, LeavesSilently
<1> QED BY <1>1, <1>3, <1>4 DEF Inv, Leave, Phases, verdictVars

LEMMA Unchanged ==
  ASSUME Inv, UNCHANGED vars
  PROVE  Inv'
BY DEF Inv, vars, verdictVars, Checking, Checked, HasCode, SummedUp, NoFailure, Gone, Status,
       BundleStatus, PackStatus, Rendered, Human, HumanBundle, JSON, JSONBundle, Report, Signs,
       IsVerification

-----------------------------------------------------------------------------
\* Theorems.

\* The invariant holds in every state of a run of the program, whatever its
\* command line and whatever its checks find.
THEOREM InvHolds == Spec => []Inv
<1>1. Inv /\ [Next]_vars => Inv'
  <2> SUFFICES ASSUME Inv, [Next]_vars PROVE Inv'
    OBVIOUS
  <2>1. CASE ParseLine
    BY <2>1, ParseLineStep
  <2>2. CASE BundleUnopened
    BY <2>2, BundleUnopenedStep
  <2>3. CASE BundleCheck
    BY <2>3, BundleCheckStep
  <2>4. CASE PackUnreadable
    BY <2>4, PackUnreadableStep
  <2>5. CASE LegalCheck
    BY <2>5, LegalCheckStep
  <2>6. CASE Finalize
    BY <2>6, FinalizeStep
  <2>7. CASE Render
    BY <2>7, RenderStep
  <2>8. CASE LeavePack
    BY <2>8, LeavePackStep
  <2>9. CASE VerifyLicense
    BY <2>9, VerifyLicenseStep
  <2>10. CASE UNCHANGED vars
    BY <2>10, Unchanged
  <2> QED
    BY <2>1, <2>2, <2>3, <2>4, <2>5, <2>6, <2>7, <2>8, <2>9, <2>10 DEF Next, Step, Done
<1> QED BY <1>1, Initially, PTL DEF Spec

\* Type correctness of the program's run: every code of a bundle has a status,
\* and a process that is gone has left with one.
THEOREM TypesHold == Spec => []TypeOK
<1>1. Inv => TypeOK
  <2> SUFFICES ASSUME Inv PROVE TypeOK
    OBVIOUS
  <2>1. phase = "done" <=> exit # Running
    BY DEF Inv, Gone
  <2> QED BY <2>1 DEF Inv, TypeOK, Phases, Results
<1> QED BY <1>1, InvHolds, PTL

\* Leaving with 0 is a pass of RunE: all checks have run, none has failed, and
\* the report has said so; or a license serial that can have been issued.
THEOREM ZeroMeansPass == Spec => []ExitZeroMeansPass
<1>1. Inv => ExitZeroMeansPass
  <2> SUFFICES ASSUME Inv, exit = 0, IsVerification(line),
                      ~(line.command = "license" /\ line.serial \in Issued)
               PROVE  /\ line.command \in Packs
                      /\ Len(checks) = Len(IF line.command = "bundle" THEN CheckCodes
                                           ELSE LegalResults(line))
                      /\ "FAIL" \notin Range(checks)
                      /\ report.kind = "report" /\ report.verdict = "PASS"
    BY DEF ExitZeroMeansPass
  <2>1. phase = "done" /\ Gone
    BY DEF Inv, Running
  <2>2. report.kind = "report" /\ Checked /\ SummedUp /\ report = Rendered /\ exit = Status
    BY <2>1 DEF Gone
  <2>3. checks \in Seq(Results) /\ code \in DOMAIN exitCodeFor \cup {"none"}
    BY DEF Inv
  <2>4. CASE line.command = "bundle"
    <3>1. HasCode /\ exit = BundleStatus
      BY <2>2, <2>4 DEF Checked, Status
    <3>2. code = "VALID"
      BY <3>1, StatusTellsCode DEF BundleStatus
    <3>3. NoFailure /\ Len(checks) = 10
      BY <2>3, <3>1, <3>2, CodeTellsFailure, CodesOfChecks DEF HasCode
    <3>4. overall = "PASS" /\ report.verdict = overall
      BY <2>2, <2>4, <3>3 DEF SummedUp, Rendered, HumanBundle, JSONBundle, Report
    <3> QED BY <2>2, <2>4, <3>3, <3>4, CodesOfChecks DEF NoFailure, Packs
  <2>5. CASE line.command = "legal-pack"
    <3>1. Len(checks) = 4 /\ overall = "PASS"
      BY <2>2, <2>5 DEF Checked, Status, PackStatus
    <3>2. report.verdict = overall
      BY <2>2, <2>5, <3>1 DEF SummedUp, Rendered, Human, JSON, Report
    <3>3. Len(LegalResults(line)) = 4
      BY DEF LegalResults
    <3> QED BY <2>2, <2>5, <3>1, <3>2, <3>3 DEF SummedUp, NoFailure, Packs
  <2> QED BY <2>2, <2>4, <2>5 DEF Checked, Packs
<1> QED BY <1>1, InvHolds, PTL

\* The status of a reported bundle names the code of its first failed check.
THEOREM StatusNamesCode == Spec => []BundleExitTellsCode
<1>1. Inv => BundleExitTellsCode
  <2> SUFFICES ASSUME Inv, phase = "done", line.command = "bundle", report.kind = "report"
               PROVE  /\ CodesWith(exit) = {report.code}
                      /\ exit # 0 => report.code = CheckCodes[Len(checks)]
    BY DEF BundleExitTellsCode
  <2>1. HasCode /\ report.code = code /\ exit = BundleStatus
    BY DEF Inv, Gone, Checked, Status, Rendered, HumanBundle, JSONBundle, Report
  <2>2. code \in DOMAIN exitCodeFor
    BY <2>1, CodeInTable
  <2>3. exit = exitCodeFor[code]
    BY <2>1, <2>2 DEF BundleStatus
  <2>4. CodesWith(exit) = {report.code}
    BY <2>1, <2>2, <2>3, StatusTellsCode DEF CodesWith
  <2>5. exit # 0 => report.code = CheckCodes[Len(checks)]
    BY <2>1, <2>3, StatusTellsCode DEF HasCode
  <2> QED BY <2>4, <2>5
<1> QED BY <1>1, InvHolds, PTL

\* A report that came out agrees with the exit status in its verdict, its
\* summary and the signs of its checks.
THEOREM ReportTellsStatus == Spec => []ReportAgreesWithExit
<1>1. Inv => ReportAgreesWithExit
  <2> SUFFICES ASSUME Inv, phase = "done", report.kind = "report"
               PROVE  /\ report.verdict = "PASS" <=> exit = 0
                      /\ report.verdict = "PASS" <=> report.summary \in {"intact", "intact-within-scope"}
                      /\ report.verdict = "PASS" <=> "cross" \notin Range(report.signs)
    BY DEF ReportAgreesWithExit
  <2>1. Checked /\ SummedUp /\ report = Rendered /\ exit = Status /\ checks \in Seq(Results)
    BY DEF Inv, Gone
  <2>2. report.verdict = overall /\ report.summary = summary /\ report.signs = Signs
    BY <2>1 DEF SummedUp, Rendered, Human, HumanBundle, JSON, JSONBundle, Report
  <2>3. "cross" \in Range(Signs) <=> "FAIL" \in Range(checks)
    BY <2>1 DEF Range, Signs, writeCheck, Results
  <2>4. exit = 0 <=> overall = "PASS"
    <3>1. CASE line.command = "bundle"
      <4>1. HasCode
        BY <2>1, <3>1 DEF Checked
      <4>2. exit = 0 <=> code = "VALID"
        BY <2>1, <3>1, <4>1, CodeInTable, StatusTellsCode DEF Status, BundleStatus
      <4> QED BY <2>1, <4>1, <4>2, CodeTellsFailure DEF SummedUp
    <3>2. CASE line.command # "bundle"
      BY <2>1, <3>2 DEF Status, PackStatus
    <3> QED BY <3>1, <3>2
  <2> QED BY <2>1, <2>2, <2>3, <2>4 DEF SummedUp, NoFailure
<1> QED BY <1>1, InvHolds, PTL
=============================================================================
