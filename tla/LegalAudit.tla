----------------------------- MODULE LegalAudit -----------------------------
(***************************************************************************)
(* The optional hash chain of a Legal-Pack's audit.jsonl                   *)
(* (internal/legalpack/audit_chain.go), end to end.                        *)
(*                                                                         *)
(*   append    producers write logs, with hashes or without;               *)
(*   transit   one log travels and is damaged: lines lost, swapped,        *)
(*             repeated, taken from another log, altered, stripped of      *)
(*             their hashes, or the whole entry unreadable;                *)
(*   scan      ParseAuditJSONL reads it line by line, and takes the log    *)
(*             for signed when one line has a hash;                        *)
(*   verify    VerifyAuditChain re-computes hashes and links, stopping at  *)
(*             the first that is wrong;                                    *)
(*   done      runAudit has its CheckResult.                               *)
(*                                                                         *)
(* Unlike the chain of a bundle (AuditChain), an entry links to the hash    *)
(* its predecessor carries, the first one links to the empty string, and   *)
(* fields the verifier has no name for are in no hash.                     *)
(***************************************************************************)
EXTENDS Naturals, Sequences, SequencesExt, FiniteSets, Digest

CONSTANTS
  Producers,  \* whoever keeps an audit log
  Signing,    \* those whose events carry hashes
  Facts,      \* what an event says, as far as the verifier knows its fields
  FloatFact,  \* a fact with a fraction in it, which canonical JSON refuses
  MaxEvents,  \* bound: events in each producer's log
  MaxFaults   \* bound: damages one delivery suffers

ASSUME LegalAuditAssumption ==
  /\ Signing \subseteq Producers
  /\ FloatFact \notin Facts
  /\ MaxEvents \in [Producers -> Nat]
  /\ MaxFaults \in Nat

VARIABLES
  sealed,   \* history: the log of each producer
  entry,    \* audit.jsonl in the pack: present or unreadable
  log,      \* the lines of the delivered file
  faults,   \* damages done so far
  phase,    \* where the run is (above)
  lineNo,   \* lines read so far
  entries,  \* AuditReport.Entries
  signed,   \* AuditReport.Signed
  i,        \* entries verified so far
  prev,     \* the self_hash of the last of them
  result    \* the CheckResult, and the place it names

producerVars == <<sealed>>
fileVars     == <<entry, log, faults>>
verifierVars == <<lineNo, entries, signed, i, prev, result>>
vars         == <<sealed, entry, log, faults, phase, lineNo, entries, signed, i, prev, result>>

-----------------------------------------------------------------------------
\* Entries.  `other` is what the line says beside the fields the verifier
\* reads, in the JSON object or after it; as sealed, nothing.
Entry(fact, other, prevHash, selfHash) ==
  [fact |-> fact, other |-> other, prev |-> prevHash, self |-> selfHash]

Others == {"none", "added"}

\* computeSelfHash: over the known fields but self_hash.  The encoder leaves an
\* empty prev_hash out, which is one encoding of it like any other.
SelfHashOf(fact, prevHash) == SHA256([fact |-> fact, prev |-> prevHash])
computeSelfHash(e) == SelfHashOf(e.fact, e.prev)

\* The lines of audit.jsonl.  "malformed" is no JSON object, or one without
\* `ts` or `event`; "tooLong" is above the scanner's 4 MiB.
EntryLine(e)  == [kind |-> "entry", entry |-> e]
BlankLine     == [kind |-> "blank"]
MalformedLine == [kind |-> "malformed"]
TooLongLine   == [kind |-> "tooLong"]

Lines(s) == [k \in 1..Len(s) |-> EntryLine(s[k])]

Pending        == [result |-> "none", kind |-> "pending", at |-> 0]
Pass           == [result |-> "PASS", kind |-> "chain", at |-> 0]
Skipped(kind)  == [result |-> "SKIPPED", kind |-> kind, at |-> 0]
Fail(kind, at) == [result |-> "FAIL", kind |-> kind, at |-> at]

Init ==
  /\ sealed  = [p \in Producers |-> <<>>]
  /\ entry   = "present"
  /\ log     = <<>>
  /\ faults  = 0
  /\ phase   = "append"
  /\ lineNo  = 0
  /\ entries = <<>>
  /\ signed  = FALSE
  /\ i       = 0
  /\ prev    = NoString
  /\ result  = Pending

-----------------------------------------------------------------------------
\* Producers: makeSignedEntry and makeUnsignedLine of the tests.

SignedEntry(s, fact) ==
  LET prevHash == IF s = <<>> THEN NoString ELSE s[Len(s)].self
  IN  Entry(fact, "none", prevHash, SelfHashOf(fact, prevHash))

UnsignedEntry(fact) == Entry(fact, "none", NoString, NoString)

AppendAudit(p, fact) ==
  /\ phase = "append"
  /\ Len(sealed[p]) < MaxEvents[p]
  /\ sealed' = [sealed EXCEPT ![p] =
       Append(@, IF p \in Signing THEN SignedEntry(@, fact) ELSE UnsignedEntry(fact))]
  /\ UNCHANGED <<fileVars, phase, verifierVars>>

Ship(p) ==
  /\ phase = "append"
  /\ log'   = Lines(sealed[p])
  /\ phase' = "transit"
  /\ UNCHANGED <<producerVars, entry, faults, verifierVars>>

-----------------------------------------------------------------------------
\* Damage in transit, which is not code.

Fault ==
  /\ phase = "transit"
  /\ entry = "present"
  /\ faults < MaxFaults
  /\ faults' = faults + 1
  /\ UNCHANGED <<producerVars, phase, verifierVars>>

\* The entry no longer inflates, or not to its checksum.
CorruptEntry == Fault /\ entry' = "unreadable" /\ UNCHANGED log

LoseLine(k) == Fault /\ log' = RemoveAt(log, k)

SwapWithNext(k) ==
  /\ Fault
  /\ k < Len(log)
  /\ log' = [log EXCEPT ![k] = log[k + 1], ![k + 1] = log[k]]

StrayLine(k, p, j) == Fault /\ log' = InsertAt(log, k, EntryLine(sealed[p][j]))

Altered(e) ==
  {[e EXCEPT !.fact = f] : f \in (Facts \cup {FloatFact}) \ {e.fact}}
    \cup {[e EXCEPT !.other = "added"]}
    \cup {[e EXCEPT !.prev = h] : h \in {Garbage, NoString} \ {e.prev}}
    \cup {[e EXCEPT !.self = h] : h \in {Garbage, NoString} \ {e.self}}

AlterLine(k) ==
  /\ Fault
  /\ log[k].kind = "entry"
  /\ \E e \in Altered(log[k].entry) : log' = ReplaceAt(log, k, EntryLine(e))

GarbleLine(k) ==
  /\ Fault
  /\ \E l \in {BlankLine, MalformedLine, TooLongLine} \ {log[k]} : log' = ReplaceAt(log, k, l)

\* Every line goes through a tool that does not know the hash fields.
StripHashes ==
  /\ Fault
  /\ log' = [k \in DOMAIN log |->
       IF log[k].kind = "entry"
       THEN EntryLine([log[k].entry EXCEPT !.prev = NoString, !.self = NoString])
       ELSE log[k]]

DamageLines ==
  \/ \E k \in 1..Len(log) : LoseLine(k) \/ SwapWithNext(k) \/ AlterLine(k) \/ GarbleLine(k)
  \/ \E k \in 1..(Len(log) + 1) :
       \E p \in Producers : \E j \in 1..Len(sealed[p]) : StrayLine(k, p, j)
  \/ StripHashes

Damage == CorruptEntry \/ (DamageLines /\ UNCHANGED entry)

-----------------------------------------------------------------------------
\* The verifier.

Finish(r) ==
  /\ phase'  = "done"
  /\ result' = r

\* ReadEntry fails before there is a line to parse.
OpenLog ==
  /\ phase = "transit"
  /\ \/ entry = "unreadable" /\ Finish(Fail("unreadable", 0))
     \/ entry = "present" /\ phase' = "scan" /\ UNCHANGED result
  /\ UNCHANGED <<producerVars, fileVars, lineNo, entries, signed, i, prev>>

MalformedAtNext(n) == Fail("malformed", n + 1)
MalformedAt(n)     == Fail("malformed", n)

\* When an entry makes the log a signed one; before it, the last one decides.
SignedByLast(e) == e.self # NoString
SignedWith(e)   == signed \/ e.self # NoString

\* The body of the loop of ParseAuditJSONL.
ScanLine ==
  /\ phase = "scan"
  /\ lineNo < Len(log)
  /\ LET line == log[lineNo + 1] IN
       \/ /\ line.kind = "blank"
          /\ lineNo' = lineNo + 1
          /\ UNCHANGED <<entries, signed, phase, result>>
       \/ /\ line.kind = "entry"
          /\ lineNo'  = lineNo + 1
          /\ entries' = Append(entries, line.entry)
          /\ signed'  = SignedWith(line.entry)
          /\ UNCHANGED <<phase, result>>
       \/ /\ line.kind = "malformed"
          /\ lineNo' = lineNo + 1
          /\ Finish(MalformedAt(lineNo + 1))
          /\ UNCHANGED <<entries, signed>>
       \/ /\ line.kind = "tooLong"
          /\ Finish(Fail("tooLong", 0))
          /\ UNCHANGED <<lineNo, entries, signed>>
  /\ UNCHANGED <<producerVars, fileVars, i, prev>>

\* runAudit and VerifyAuditChain, up to the loop: nothing to verify in a log
\* without entries or without hashes.  Before it, only signed logs are judged.
EndOfLogIfSigned ==
  /\ phase = "scan"
  /\ lineNo = Len(log)
  /\ signed
  /\ phase' = "verify"
  /\ UNCHANGED <<producerVars, fileVars, verifierVars>>

EndOfLog ==
  /\ phase = "scan"
  /\ lineNo = Len(log)
  /\ \/ signed /\ phase' = "verify" /\ UNCHANGED result
     \/ ~signed /\ entries = <<>> /\ Finish(Skipped("empty"))
     \/ ~signed /\ entries # <<>> /\ Finish(Skipped("unsigned"))
  /\ UNCHANGED <<producerVars, fileVars, lineNo, entries, signed, i, prev>>

\* An entry without its hash; before it, a test that wants the link too.
MissingEither(e) == e.self = NoString \/ e.prev = NoString
Missing(e)       == e.self = NoString

\* Entry n (from 0) does not link to the one before it; before it, a link that
\* the first entry need not have.
LinkBrokenPastGenesis(n) == n > 0 /\ entries[n + 1].prev # prev
LinkBroken(n)            == entries[n + 1].prev # prev

\* What is wrong with entry n, in the order the loop looks; before it, the link
\* first, and no link at all.
EntryErrorLinkFirst(n) ==
  LET e == entries[n + 1] IN
  IF Missing(e) THEN "missing"
  ELSE IF LinkBroken(n) THEN "prev"
  ELSE IF e.fact = FloatFact THEN "compute"
  ELSE IF e.self # computeSelfHash(e) THEN "self"
  ELSE "none"

EntryErrorUnlinked(n) ==
  LET e == entries[n + 1] IN
  IF Missing(e) THEN "missing"
  ELSE IF e.fact = FloatFact THEN "compute"
  ELSE IF e.self # computeSelfHash(e) THEN "self"
  ELSE "none"

EntryError(n) ==
  LET e == entries[n + 1] IN
  IF Missing(e) THEN "missing"
  ELSE IF e.fact = FloatFact THEN "compute"
  ELSE IF e.self # computeSelfHash(e) THEN "self"
  ELSE IF LinkBroken(n) THEN "prev"
  ELSE "none"

\* One turn of the loop of VerifyAuditChain.
VerifyEntry ==
  /\ phase = "verify"
  /\ i < Len(entries)
  /\ \/ /\ EntryError(i) = "none"
        /\ prev' = entries[i + 1].self
        /\ i'    = i + 1
        /\ UNCHANGED <<phase, result>>
     \/ /\ EntryError(i) # "none"
        /\ Finish(Fail(EntryError(i), i))
        /\ UNCHANGED <<i, prev>>
  /\ UNCHANGED <<producerVars, fileVars, lineNo, entries, signed>>

ChainHolds ==
  /\ phase = "verify"
  /\ i = Len(entries)
  /\ Finish(Pass)
  /\ UNCHANGED <<producerVars, fileVars, lineNo, entries, signed, i, prev>>

Verify == ScanLine \/ EndOfLog \/ VerifyEntry \/ ChainHolds

Done == phase = "done" /\ UNCHANGED vars

Next ==
  \/ \E p \in Producers : Ship(p) \/ \E f \in Facts : AppendAudit(p, f)
  \/ Damage
  \/ OpenLog
  \/ Verify
  \/ Done

\* A started check runs to its end on one thread.
Spec == Init /\ [][Next]_vars /\ WF_vars(Verify)

-----------------------------------------------------------------------------
\* Types.

IsEntry(e) ==
  /\ e = Entry(e.fact, e.other, e.prev, e.self)
  /\ e.fact \in Facts \cup {FloatFact}
  /\ e.other \in Others

IsLine(l) ==
  \/ l.kind = "entry" /\ l = EntryLine(l.entry) /\ IsEntry(l.entry)
  \/ l \in {BlankLine, MalformedLine, TooLongLine}

\* Every variable has its type, and the place a result names is in the file.
TypeOK ==
  /\ DOMAIN sealed = Producers
  /\ \A p \in Producers : IsSeq(sealed[p]) /\ \A j \in 1..Len(sealed[p]) : IsEntry(sealed[p][j])
  /\ entry \in {"present", "unreadable"}
  /\ IsSeq(log) /\ \A k \in 1..Len(log) : IsLine(log[k])
  /\ faults \in 0..MaxFaults
  /\ phase \in {"append", "transit", "scan", "verify", "done"}
  /\ lineNo \in 0..Len(log)
  /\ IsSeq(entries) /\ Len(entries) <= lineNo
  /\ \A k \in 1..Len(entries) : IsEntry(entries[k])
  /\ signed \in BOOLEAN
  /\ i \in 0..Len(entries)
  /\ result.at \in 0..Len(log)
  /\ \/ result \in {Pending, Pass, Skipped("empty"), Skipped("unsigned")}
     \/ \E kind \in {"unreadable", "malformed", "tooLong", "missing", "compute", "self", "prev"} :
          result = Fail(kind, result.at)

-----------------------------------------------------------------------------
\* Safety.

\* What the hash of an entry and its own hash field cover.
Covered(e) == <<e.fact, e.prev, e.self>>

\* The first n entries are, as far as hashes go, the first n of p's log.
Follows(p, n) ==
  n <= Len(sealed[p]) /\ \A j \in 1..n : Covered(entries[j]) = Covered(sealed[p][j])

\* Some producer sealed e with its hashes.
Genuine(e) ==
  \E p \in Signing : \E j \in 1..Len(sealed[p]) : Covered(e) = Covered(sealed[p][j])

\* A log that passes is the beginning of the log of one signing producer: with
\* nothing altered in a field the verifier reads, nothing lost before the end,
\* swapped, repeated, or from another log, signed or not.  It is so for damage
\* that computes no hash: the chain has no key, and whoever computes it anew can
\* write any log.
OnlySealedPrefixAccepted ==
  result.kind = "chain" => \E p \in Signing : Follows(p, Len(entries))

\* The entry the check names is the first that departs from every signed log.
BrokenAtFirstDeparture ==
  result.kind \in {"missing", "compute", "self", "prev"} =>
    /\ result.at > 0 => \E p \in Signing : Follows(p, result.at)
    /\ \A p \in Signing : ~Follows(p, result.at + 1)

\* The check tells alteration from misplacement: "event fields were modified" is
\* said of no genuine entry, "spliced or re-ordered" of no other.
CauseIsNamed ==
  /\ result.kind = "self" => ~Genuine(entries[result.at + 1])
  /\ result.kind = "prev" => Genuine(entries[result.at + 1])

\* A log with a genuine signed entry left in it is not skipped, in whatever
\* company the entry is.
NoSilentDowngrade ==
  result.result = "SKIPPED" =>
    \A k \in 1..Len(log) : log[k].kind = "entry" => ~Genuine(log[k].entry)

\* The lines of the file that are entries, whatever blank lines stand between
\* them, and how many of them there are up to line k.
EntryLines     == {k \in 1..Len(log) : log[k].kind = "entry"}
EntriesUpTo(k) == Cardinality({m \in EntryLines : m <= k})

\* The file's entries are, as far as hashes go, the first of p's log.
BeginsLogOf(p) ==
  \A k \in EntryLines :
    /\ EntriesUpTo(k) <= Len(sealed[p])
    /\ Covered(log[k].entry) = Covered(sealed[p][EntriesUpTo(k)])

\* No false alarm: a file whose entries begin any producer's log, signed or not,
\* with blank lines and unknown fields added, does not fail if it can be read.
NoFalseAlarm ==
  result.result = "FAIL" =>
    \/ entry = "unreadable"
    \/ \E k \in 1..Len(log) : log[k].kind \in {"malformed", "tooLong"}
    \/ \A p \in Producers : ~BeginsLogOf(p)

-----------------------------------------------------------------------------
\* The inductive invariant.

\* The self_hash of the last of n entries, which the next one links to.
LastSelfHash(s, n) == IF n = 0 THEN NoString ELSE s[n].self

SealedWellFormed ==
  /\ \A p \in Signing : \A j \in 1..Len(sealed[p]) :
       /\ sealed[p][j].fact \in Facts
       /\ sealed[p][j].prev = LastSelfHash(sealed[p], j - 1)
       /\ sealed[p][j].self = computeSelfHash(sealed[p][j])
  /\ \A p \in Producers \ Signing : \A j \in 1..Len(sealed[p]) : sealed[p][j].self = NoString

\* A hash fixes everything sealed before it: one that stands in two logs stands
\* at the same place in both, after the same entries.
HashFixesThePast ==
  \A p, q \in Signing : \A j \in 1..Len(sealed[p]), k \in 1..Len(sealed[q]) :
    sealed[p][j].self = sealed[q][k].self =>
      j = k /\ \A m \in 1..j : Covered(sealed[p][m]) = Covered(sealed[q][m])

\* Whatever happens to an entry, its self_hash is one that somebody computed
\* when sealing, or none.
HashOfSomebody(e) ==
  \/ e.self \in {NoString, Garbage}
  \/ \E p \in Signing : \E j \in 1..Len(sealed[p]) : e.self = sealed[p][j].self

NoForgedHash ==
  /\ \A k \in EntryLines : HashOfSomebody(log[k].entry)
  /\ \A k \in 1..Len(entries) : HashOfSomebody(entries[k])

\* The parser has every entry of the lines it has read, in their order.
ScanInvariant ==
  /\ Len(entries) = EntriesUpTo(lineNo)
  /\ \A k \in EntryLines : k <= lineNo => entries[EntriesUpTo(k)] = log[k].entry
  /\ \A n \in 1..Len(entries) : \E k \in EntryLines : k <= lineNo /\ EntriesUpTo(k) = n
  /\ signed <=> \E k \in 1..Len(entries) : entries[k].self # NoString

LoopInvariant ==
  /\ i > 0 => \E p \in Signing : Follows(p, i)
  /\ prev = LastSelfHash(entries, i)
  /\ phase \in {"append", "transit", "scan", "verify"} => result = Pending
  /\ phase \in {"append", "transit"} => lineNo = 0 /\ entries = <<>> /\ ~signed
  /\ phase \in {"append", "transit", "scan"} => i = 0
  /\ phase = "verify" => lineNo = Len(log) /\ signed

ResultInvariant ==
  /\ result.kind = "chain" => i = Len(entries) /\ signed
  /\ result.kind \in {"missing", "compute", "self", "prev"} =>
       /\ signed /\ lineNo = Len(log)
       /\ result.at = i /\ i < Len(entries) /\ EntryError(i) = result.kind
  /\ result.kind \in {"empty", "unsigned"} => lineNo = Len(log) /\ ~signed
  /\ result.kind = "unreadable" => entry = "unreadable"
  /\ result.kind \in {"malformed", "tooLong"} =>
       \E k \in 1..Len(log) : log[k].kind = result.kind

\* What every step keeps, and what the properties of the chain follow from.
IInv ==
  /\ TypeOK
  /\ SealedWellFormed
  /\ HashFixesThePast
  /\ NoForgedHash
  /\ ScanInvariant
  /\ LoopInvariant
  /\ ResultInvariant

\* A check that has opened the log comes to a result.
CheckTerminates == phase = "scan" ~> phase = "done"

\* What the documentation says beyond that; it does not hold.

\* "self_hash[i] == sha256_of_canonical_json(entry_without_self_hash[i])": nothing
\* of an accepted entry was altered or added.
WholeEntryCovered ==
  result.kind = "chain" =>
    \E p \in Signing :
      \A j \in 1..Len(entries) : j <= Len(sealed[p]) /\ entries[j] = sealed[p][j]
=============================================================================
