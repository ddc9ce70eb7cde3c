----------------------------- MODULE CommandLine ----------------------------
(***************************************************************************)
(* One run of the program as a script sees it: a command line goes in, a   *)
(* report and an exit status come out (main.go, cmd/, internal/report and   *)
(* internal/license, with finalize of both verdicts).                      *)
(*                                                                         *)
(* What a check finds is open here, BundleVerify and LegalPack say when it  *)
(* passes.  The result code, the overall result, the summary and the exit   *)
(* status are each computed from something else, and the report is written *)
(* before the status is set.                                               *)
(*                                                                         *)
(*   parse    cobra picks the command and counts its arguments;            *)
(*   check    the checks run, or the license string is parsed;             *)
(*   finalize the verdict is summed up;                                    *)
(*   render   the report is written;                                       *)
(*   leave    RunE sets the exit status;                                   *)
(*   done     the process is gone.                                         *)
(***************************************************************************)
EXTENDS Integers, FiniteSets, Sequences, SequencesExt

CONSTANTS
  SerialOffset,  \* 14822: a generator issues serials from the next one on
  MaxSerial,     \* the largest serial: 99999
  MaxArguments   \* bound: arguments after the command

ASSUME LicenseAssumption ==
  /\ SerialOffset \in Nat
  /\ MaxSerial \in Nat
  /\ SerialOffset < MaxSerial
  /\ MaxArguments \in Nat

VARIABLES
  line,    \* the command line
  phase,   \* where the run is (above)
  checks,  \* Verdict.Checks, of each the result
  code,    \* Verdict.ResultCode, of bundles only
  overall, \* Verdict.OverallResult
  summary, \* Verdict.Summary
  report,  \* what has come out on stdout
  exit     \* the exit status, or Running

verdictVars == <<code, overall, summary>>
vars        == <<line, phase, checks, code, overall, summary, report, exit>>

Running == -1
Killed  == 141   \* by SIGPIPE, as a shell reports it

Packs    == {"bundle", "legal-pack"}
Commands == Packs \cup {"license", "version", "verify", "verify-other", "other"}

\* Not matching the format is -1; every other license string has a serial.
NoFormat == -1
Lines ==
  [command: Commands, arguments: 0..MaxArguments, help: BOOLEAN,
   format: {"human", "json", "other"}, tsr: BOOLEAN, serial: {NoFormat} \cup (0..MaxSerial)]

\* Each command has its own flags and argument.
IsTyped(l) ==
  /\ l.command \notin Packs => l.format = "human"
  /\ l.command # "legal-pack" => ~l.tsr
  /\ l.command # "license" => l.serial = NoFormat

Nothing == [kind |-> "nothing"]

Init ==
  /\ line \in {l \in Lines : IsTyped(l)}
  /\ phase   = "parse"
  /\ checks  = <<>>
  /\ code    = "none"
  /\ overall = "none"
  /\ summary = "none"
  /\ report  = Nothing
  /\ exit    = Running

Leave(status) == phase' = "done" /\ exit' = status
GoTo(next)    == phase' = next /\ UNCHANGED exit

\* Output whose errors nobody looks at, before leaving; a closed pipe kills.
PrintAndLeave(kind, status) ==
  \/ report' \in {[kind |-> kind], Nothing} /\ Leave(status)
  \/ Leave(Killed) /\ UNCHANGED report

-----------------------------------------------------------------------------
\* cobra.  A command without Args of its own takes an unknown word for an
\* argument it ignores, and shows its help; the root command does not.

ShowsHelp(l) == l.help \/ l.command \in {"verify", "verify-other"}
IsVerification(l) == l.command \in Packs \cup {"license"} /\ ~l.help

ParseLine ==
  /\ phase = "parse"
  /\ \/ /\ line.command = "other"
        /\ Leave(1)
        /\ UNCHANGED report
     \/ /\ line.command # "other"
        /\ ShowsHelp(line)
        /\ PrintAndLeave("help", 0)
     \/ /\ line.command = "version"
        /\ ~line.help
        /\ PrintAndLeave("version", 0)
     \/ /\ IsVerification(line)
        /\ line.arguments # 1
        /\ Leave(1)
        /\ UNCHANGED report
     \/ /\ IsVerification(line)
        /\ line.arguments = 1
        /\ GoTo("check")
        /\ UNCHANGED report
  /\ UNCHANGED <<line, checks, verdictVars>>

-----------------------------------------------------------------------------
\* VerifyBundle.

\* The codes of the ten checks, in their order.
CheckCodes ==
  <<"MANIFEST_MISSING", "SIGNATURE_MISSING", "INVALID_SIGNATURE", "MANIFEST_TAMPERED",
    "FILE_MISSING", "HASH_MISMATCH", "FILE_ADDED", "AUDIT_CHAIN_BROKEN",
    "TIMESTAMP_INVALID", "POLICY_VIOLATION">>

\* A file that cannot be opened has a verdict put together by hand.
BundleUnopened ==
  /\ phase = "check"
  /\ line.command = "bundle"
  /\ checks  = <<>>
  /\ checks' = <<"FAIL">>
  /\ code'    = "MANIFEST_MISSING"
  /\ overall' = "FAIL"
  /\ summary' = "could-not-be-opened"
  /\ GoTo("render")
  /\ UNCHANGED <<line, report>>

BundleCheck ==
  /\ phase = "check"
  /\ line.command = "bundle"
  /\ \/ /\ Len(checks) < Len(CheckCodes)
        /\ checks' = Append(checks, "PASS")
        /\ UNCHANGED <<phase, code, exit>>
     \/ /\ Len(checks) < Len(CheckCodes)
        /\ checks' = Append(checks, "FAIL")
        /\ code'   = CheckCodes[Len(checks) + 1]
        /\ GoTo("finalize")
     \/ /\ Len(checks) = Len(CheckCodes)
        /\ code' = "VALID"
        /\ GoTo("finalize")
        /\ UNCHANGED checks
  /\ UNCHANGED <<line, overall, summary, report>>

-----------------------------------------------------------------------------
\* VerifyLegalPack.

\* A pack that cannot be opened, or has no report that parses, is an error.
PackUnreadable ==
  /\ phase = "check"
  /\ line.command = "legal-pack"
  /\ checks = <<>>
  /\ Leave(2)
  /\ UNCHANGED <<line, checks, verdictVars, report>>

\* Audio, QR code, audit log, token; a log may be unsigned, a token not given.
LegalResults(l) ==
  <<{"PASS", "FAIL"}, {"PASS", "FAIL"}, {"PASS", "FAIL", "SKIPPED"},
    IF l.tsr THEN {"PASS", "FAIL"} ELSE {"SKIPPED"}>>

LegalCheck ==
  /\ phase = "check"
  /\ line.command = "legal-pack"
  /\ \/ /\ Len(checks) < Len(LegalResults(line))
        /\ \E r \in LegalResults(line)[Len(checks) + 1] : checks' = Append(checks, r)
        /\ UNCHANGED <<phase, exit>>
     \/ /\ Len(checks) = Len(LegalResults(line))
        /\ GoTo("finalize")
        /\ UNCHANGED checks
  /\ UNCHANGED <<line, verdictVars, report>>

-----------------------------------------------------------------------------
\* finalize.

Number(result) == Cardinality({k \in DOMAIN checks : checks[k] = result})

\* The overall result of a bundle is that of its code, of a pack that of its
\* checks; before it, one that takes a skipped check for a failed one.
OverallUnskipped ==
  IF line.command = "bundle" THEN IF code = "VALID" THEN "PASS" ELSE "FAIL"
  ELSE IF Number("FAIL") + Number("SKIPPED") = 0 THEN "PASS" ELSE "FAIL"
Overall ==
  IF line.command = "bundle" THEN IF code = "VALID" THEN "PASS" ELSE "FAIL"
  ELSE IF Number("FAIL") = 0 THEN "PASS" ELSE "FAIL"

\* The summary counts in both cases.
Summary ==
  IF Number("FAIL") > 0 THEN "failed"
  ELSE IF Number("SKIPPED") > 0 THEN "intact-within-scope"
  ELSE "intact"

Finalize ==
  /\ phase = "finalize"
  /\ overall' = Overall
  /\ summary' = Summary
  /\ GoTo("render")
  /\ UNCHANGED <<line, checks, code, report>>

-----------------------------------------------------------------------------
\* The report.

\* The sign in front of a check.
writeCheck(result) ==
  CASE result = "PASS"    -> "tick"
    [] result = "FAIL"    -> "cross"
    [] result = "SKIPPED" -> "circle"

Report(verdict, resultCode, signs) ==
  [kind |-> "report", verdict |-> verdict, code |-> resultCode, signs |-> signs,
   summary |-> summary]
Signs == [k \in DOMAIN checks |-> writeCheck(checks[k])]

\* The human forms have two verdicts, the JSON forms what the verdict holds.
Human       == Report(IF overall = "PASS" THEN "PASS" ELSE "FAIL", "none", Signs)
HumanBundle == Report(IF overall = "PASS" THEN "PASS" ELSE "FAIL", code, Signs)
JSON        == Report(overall, "none", Signs)
JSONBundle  == Report(overall, code, Signs)

Rendered ==
  IF line.command = "bundle" THEN IF line.format = "json" THEN JSONBundle ELSE HumanBundle
  ELSE IF line.format = "json" THEN JSON ELSE Human

\* The report is one write, which may fail or find nobody reading.
Render ==
  /\ phase = "render"
  /\ \/ line.format # "other" /\ report' = Rendered /\ GoTo("leave")
     \/ line.format # "other" /\ Leave(1) /\ UNCHANGED report
     \/ line.format # "other" /\ Leave(Killed) /\ UNCHANGED report
     \/ line.format = "other" /\ Leave(1) /\ UNCHANGED report
  /\ UNCHANGED <<line, checks, verdictVars>>

-----------------------------------------------------------------------------
\* Exit statuses.

\* The table; before it, the one without the codes of the last two checks that
\* were added, and one in which two codes share a status.
exitCodeForFirst ==
  [VALID |-> 0, SCHEMA_UNSUPPORTED |-> 10, MANIFEST_MISSING |-> 11, SIGNATURE_MISSING |-> 12,
   INVALID_SIGNATURE |-> 20, HASH_MISMATCH |-> 21, FILE_MISSING |-> 22, FILE_ADDED |-> 23,
   MANIFEST_TAMPERED |-> 24, POLICY_VIOLATION |-> 32]
exitCodeForShared ==
  [VALID |-> 0, SCHEMA_UNSUPPORTED |-> 10, MANIFEST_MISSING |-> 11, SIGNATURE_MISSING |-> 12,
   INVALID_SIGNATURE |-> 20, HASH_MISMATCH |-> 21, FILE_MISSING |-> 22, FILE_ADDED |-> 23,
   MANIFEST_TAMPERED |-> 21, AUDIT_CHAIN_BROKEN |-> 25, TIMESTAMP_INVALID |-> 26,
   TIMESTAMP_MISSING |-> 30, POLICY_VIOLATION |-> 32, DERIVED_ARTIFACT |-> 40]
exitCodeFor ==
  [VALID |-> 0, SCHEMA_UNSUPPORTED |-> 10, MANIFEST_MISSING |-> 11, SIGNATURE_MISSING |-> 12,
   INVALID_SIGNATURE |-> 20, HASH_MISMATCH |-> 21, FILE_MISSING |-> 22, FILE_ADDED |-> 23,
   MANIFEST_TAMPERED |-> 24, AUDIT_CHAIN_BROKEN |-> 25, TIMESTAMP_INVALID |-> 26,
   TIMESTAMP_MISSING |-> 30, POLICY_VIOLATION |-> 32, DERIVED_ARTIFACT |-> 40]

BundleStatus == IF code \in DOMAIN exitCodeFor THEN exitCodeFor[code] ELSE 2
PackStatus   == IF overall # "PASS" THEN 1 ELSE 0

LeavePack ==
  /\ phase = "leave"
  /\ Leave(IF line.command = "bundle" THEN BundleStatus ELSE PackStatus)
  /\ UNCHANGED <<line, checks, verdictVars, report>>

-----------------------------------------------------------------------------
\* verify license.

\* License.SerialOutOfRange; before it, one that lets the offset itself pass.
SerialBelowOffset(serial) == serial < SerialOffset
SerialOutOfRange(serial)  == serial < SerialOffset + 1

\* The description is printed first, and a serial that was never issued is told
\* by the exit status.
VerifyLicense ==
  /\ phase = "check"
  /\ line.command = "license"
  /\ \/ line.serial = NoFormat /\ Leave(1) /\ UNCHANGED report
     \/ /\ line.serial # NoFormat
        /\ PrintAndLeave("license", IF SerialOutOfRange(line.serial) THEN 1 ELSE 0)
  /\ UNCHANGED <<line, checks, verdictVars>>

-----------------------------------------------------------------------------

Step ==
  \/ ParseLine
  \/ BundleUnopened \/ BundleCheck
  \/ PackUnreadable \/ LegalCheck
  \/ Finalize \/ Render \/ LeavePack
  \/ VerifyLicense

Done == phase = "done" /\ UNCHANGED vars

Next == Step \/ Done

Spec == Init /\ [][Next]_vars

-----------------------------------------------------------------------------
\* Properties.

\* Every variable has its type: a code a bundle can get has an exit status, and
\* a process that is gone has left with one.
TypeOK ==
  /\ line \in Lines
  /\ phase \in {"parse", "check", "finalize", "render", "leave", "done"}
  /\ checks \in Seq({"PASS", "FAIL", "SKIPPED"})
  /\ code \in DOMAIN exitCodeFor \cup {"none"}
  /\ overall \in {"none", "PASS", "FAIL"}
  /\ summary \in {"none", "could-not-be-opened", "failed", "intact-within-scope", "intact"}
  /\ report.kind \in {"nothing", "help", "version", "license", "report"}
  /\ exit \in {0, 1, 2, Killed} \cup Range(exitCodeFor) \cup {Running}
  /\ phase = "done" <=> exit # Running

\* Serials that a generator issues: a counter from 1 on above the offset.
Issued == {counter + SerialOffset : counter \in 1..(MaxSerial - SerialOffset)}

\* A verification of one argument that leaves with 0 has run all its checks,
\* none of them failed, and has said so; a license has a serial that can have
\* been issued.
ExitZeroMeansPass ==
  (exit = 0 /\ IsVerification(line)) =>
    \/ /\ line.command \in Packs
       /\ Len(checks) = Len(IF line.command = "bundle" THEN CheckCodes ELSE LegalResults(line))
       /\ "FAIL" \notin Range(checks)
       /\ report.kind = "report" /\ report.verdict = "PASS"
    \/ line.command = "license" /\ line.serial \in Issued

\* A bundle's status names one result code, that of its first failed check, and
\* only a run that could not report has another: 1 and 2 stand for no code.
CodesWith(status) == {c \in DOMAIN exitCodeFor : exitCodeFor[c] = status}
BundleExitTellsCode ==
  (phase = "done" /\ line.command = "bundle" /\ report.kind = "report") =>
    /\ CodesWith(exit) = {report.code}
    /\ exit # 0 => report.code = CheckCodes[Len(checks)]

\* Whatever else went wrong: a report that came out, its verdict, its summary,
\* its failed checks and the exit status tell one story.
ReportAgreesWithExit ==
  (phase = "done" /\ report.kind = "report") =>
    /\ report.verdict = "PASS" <=> exit = 0
    /\ report.verdict = "PASS" <=> report.summary \in {"intact", "intact-within-scope"}
    /\ report.verdict = "PASS" <=> "cross" \notin Range(report.signs)
=============================================================================
