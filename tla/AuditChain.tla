----------------------------- MODULE AuditChain -----------------------------
(***************************************************************************)
(* The hash chain of a bundle's audit/events.jsonl                         *)
(* (internal/bundle/audit.go), end to end.                                 *)
(*                                                                         *)
(*   append    producers seal events: each event stores the hash of the    *)
(*             event before it and its own hash;                           *)
(*   transit   one log travels as a file and is damaged: lines lost,       *)
(*             swapped, repeated, taken from another log, altered;         *)
(*   scan      parseAuditEventsJSONL reads the file line by line;          *)
(*   validate  ValidateAuditChain re-derives every link, stopping at the   *)
(*             first that is broken;                                       *)
(*   done      auditChainCheck has its CheckResult.                        *)
(*                                                                         *)
(* Indices follow the code: i and brokenAt count events from 0, lines are  *)
(* counted from 1.                                                         *)
(***************************************************************************)
EXTENDS Naturals, Sequences, SequencesExt, Digest

CONSTANTS
  Producers,  \* whoever keeps an audit log of its own
  Facts,      \* what an event says: all its fields but the two hashes
  FloatFact,  \* a fact with a fraction in it, which canonical JSON refuses
  NoFact,     \* what an event without any field says
  MaxEvents,  \* bound: events sealed in each producer's log
  MaxFaults   \* bound: damages one delivery suffers

ASSUME ChainAssumption ==
  /\ {NoFact, FloatFact} \cap Facts = {}
  /\ NoFact # FloatFact
  /\ MaxEvents \in [Producers -> Nat]
  /\ MaxFaults \in Nat

VARIABLES
  sealed,   \* history: the events each producer sealed, in order
  entry,    \* the bundle's entry for the log: present, absent, unreadable
  log,      \* the lines of the delivered file
  faults,   \* damages done so far
  phase,    \* where the run is (above)
  lineNo,   \* lines read so far
  events,   \* events parsed so far
  i,        \* events whose links hold so far
  result    \* the CheckResult, and where the log is broken

producerVars == <<sealed>>
fileVars     == <<entry, log, faults>>
verifierVars == <<lineNo, events, i, result>>
vars         == <<sealed, entry, log, faults, phase, lineNo, events, i, result>>

-----------------------------------------------------------------------------
\* Events and their hashes.

Event(fact, prev, cur) == [fact |-> fact, prev |-> prev, cur |-> cur]

\* `{}` or `null`, which the JSON decoder accepts as an event without fields.
EmptyEvent == Event(NoFact, NoString, NoString)

\* hashStoredEventLine: the hash of the whole event, as its successor stores it.
StoredHash(e) == SHA256(e)

\* computeCurrentEventHash: the event's own hash, over the event with that
\* field cleared.
CurrentHash(e) == SHA256(Event(e.fact, e.prev, NoString))

\* What the event after the first n of s must store as its previous hash.
PrevHash(s, n) == IF n = 0 THEN ZeroHash ELSE StoredHash(s[n])

\* Some producer sealed e.
Genuine(e) == \E p \in Producers : \E j \in 1..Len(sealed[p]) : e = sealed[p][j]

\* One line of events.jsonl.
EventLine(e)  == [kind |-> "event", event |-> e]
BlankLine     == [kind |-> "blank"]
MalformedLine == [kind |-> "malformed"]  \* not a JSON object
TooLongLine   == [kind |-> "tooLong"]    \* above the scanner's 1 MiB

Lines(s) == [k \in 1..Len(s) |-> EventLine(s[k])]

\* Results of the check.
Pending        == [result |-> "none", kind |-> "pending", at |-> 0]
Pass(kind)     == [result |-> "PASS", kind |-> kind, at |-> 0]
Fail(kind, at) == [result |-> "FAIL", kind |-> kind, at |-> at]

-----------------------------------------------------------------------------
Init ==
  /\ sealed = [p \in Producers |-> <<>>]
  /\ entry  = "present"
  /\ log    = <<>>
  /\ faults = 0
  /\ phase  = "append"
  /\ lineNo = 0
  /\ events = <<>>
  /\ i      = 0
  /\ result = Pending

-----------------------------------------------------------------------------
\* Producers.  mustChain of the tests is the repository's own producer.

SealedEvent(s, fact) ==
  LET prev == PrevHash(s, Len(s))
  IN  Event(fact, prev, CurrentHash(Event(fact, prev, NoString)))

SealEvent(p, fact) ==
  /\ phase = "append"
  /\ Len(sealed[p]) < MaxEvents[p]
  /\ sealed' = [sealed EXCEPT ![p] = Append(@, SealedEvent(@, fact))]
  /\ UNCHANGED <<fileVars, phase, verifierVars>>

Ship(p) ==
  /\ phase = "append"
  /\ log'   = Lines(sealed[p])
  /\ phase' = "transit"
  /\ UNCHANGED <<producerVars, entry, faults, verifierVars>>

-----------------------------------------------------------------------------
\* Damage in transit.  None of it is code: it is what the check is there for.

Fault ==
  /\ phase = "transit"
  /\ faults < MaxFaults
  /\ faults' = faults + 1
  /\ UNCHANGED <<producerVars, phase, verifierVars>>

LoseEntry ==
  /\ Fault
  /\ entry' \in {"absent", "unreadable"} \ {entry}
  /\ UNCHANGED log

LoseLine(k) ==
  /\ Fault
  /\ log' = RemoveAt(log, k)
  /\ UNCHANGED entry

TruncateAfter(k) ==
  /\ Fault
  /\ log' = SubSeq(log, 1, k)
  /\ UNCHANGED entry

SwapWithNext(k) ==
  /\ Fault
  /\ k < Len(log)
  /\ log' = [log EXCEPT ![k] = log[k + 1], ![k + 1] = log[k]]
  /\ UNCHANGED entry

\* A sealed line turns up again, or a line of another bundle's log strays in.
StrayLine(k, p, j) ==
  /\ Fault
  /\ log' = InsertAt(log, k, EventLine(sealed[p][j]))
  /\ UNCHANGED entry

\* One field of an undamaged event is overwritten.
AlterLine(k) ==
  /\ Fault
  /\ log[k].kind = "event"
  /\ Genuine(log[k].event)
  /\ LET e == log[k].event
     IN  \/ \E f \in (Facts \cup {FloatFact}) \ {e.fact} :
              log' = ReplaceAt(log, k, EventLine([e EXCEPT !.fact = f]))
         \/ log' = ReplaceAt(log, k, EventLine([e EXCEPT !.prev = Garbage]))
         \/ log' = ReplaceAt(log, k, EventLine([e EXCEPT !.cur = Garbage]))
  /\ UNCHANGED entry

\* A line is overwritten as a whole.
GarbleLine(k) ==
  /\ Fault
  /\ \E l \in {BlankLine, MalformedLine, TooLongLine, EventLine(EmptyEvent)} \ {log[k]} :
       log' = ReplaceAt(log, k, l)
  /\ UNCHANGED entry

Damage ==
  \/ LoseEntry
  \/ \E k \in 1..Len(log) :
       LoseLine(k) \/ SwapWithNext(k) \/ AlterLine(k) \/ GarbleLine(k)
  \/ \E k \in 0..Len(log) : TruncateAfter(k)
  \/ \E k \in 1..(Len(log) + 1) :
       \E p \in Producers : \E j \in 1..Len(sealed[p]) : StrayLine(k, p, j)

-----------------------------------------------------------------------------
\* The verifier.

Finish(r) ==
  /\ phase'  = "done"
  /\ result' = r

\* auditChainCheck up to the parse: an absent log passes.
OpenLog ==
  /\ phase = "transit"
  /\ \/ entry = "absent"     /\ Finish(Pass("absent"))
     \/ entry = "unreadable" /\ Finish(Fail("unreadable", 0))
     \/ entry = "present"    /\ phase' = "scan" /\ UNCHANGED result
  /\ UNCHANGED <<producerVars, fileVars, lineNo, events, i>>

\* A parse error names the line, counted from 1.
MalformedAtNext(n)    == Fail("malformed", n + 1)
MalformedAtPrevious(n) == Fail("malformed", n - 1)
MalformedAt(n)        == Fail("malformed", n)

\* The body of the scanner loop.  A line above the limit ends the loop before
\* it is counted; a malformed one after.
ScanLine ==
  /\ phase = "scan"
  /\ lineNo < Len(log)
  /\ LET line == log[lineNo + 1] IN
       \/ /\ line.kind = "blank"
          /\ lineNo' = lineNo + 1
          /\ UNCHANGED <<events, phase, result>>
       \/ /\ line.kind = "event"
          /\ lineNo' = lineNo + 1
          /\ events' = Append(events, line.event)
          /\ UNCHANGED <<phase, result>>
       \/ /\ line.kind = "malformed"
          /\ lineNo' = lineNo + 1
          /\ Finish(MalformedAt(lineNo + 1))
          /\ UNCHANGED events
       \/ /\ line.kind = "tooLong"
          /\ Finish(Fail("tooLong", 0))
          /\ UNCHANGED <<lineNo, events>>
  /\ UNCHANGED <<producerVars, fileVars, i>>

EndOfLogUnlessEmpty ==
  /\ phase = "scan"
  /\ lineNo = Len(log)
  /\ log # <<>>
  /\ phase' = "validate"
  /\ UNCHANGED <<producerVars, fileVars, verifierVars>>

EndOfLog ==
  /\ phase = "scan"
  /\ lineNo = Len(log)
  /\ phase' = "validate"
  /\ UNCHANGED <<producerVars, fileVars, verifierVars>>

\* Bugs the loop could have: the own hash is not checked; it is computed over
\* the event as stored; the link is compared with the hash the previous event
\* carries; the first event's link is not checked.
LinkErrorIgnoringOwnHash(n) ==
  IF events[n + 1].prev # PrevHash(events, n) THEN "prev" ELSE "none"

LinkErrorUncleared(n) ==
  LET ev == events[n + 1] IN
  IF ev.prev # PrevHash(events, n) THEN "prev"
  ELSE IF ev.fact = FloatFact THEN "compute"
  ELSE IF ev.cur # StoredHash(ev) THEN "cur"
  ELSE "none"

LinkErrorToOwnHash(n) ==
  LET ev == events[n + 1] IN
  IF ev.prev # (IF n = 0 THEN ZeroHash ELSE events[n].cur) THEN "prev"
  ELSE IF ev.fact = FloatFact THEN "compute"
  ELSE IF ev.cur # CurrentHash(ev) THEN "cur"
  ELSE "none"

LinkErrorPastGenesis(n) ==
  LET ev == events[n + 1] IN
  IF n > 0 /\ ev.prev # PrevHash(events, n) THEN "prev"
  ELSE IF ev.fact = FloatFact THEN "compute"
  ELSE IF ev.cur # CurrentHash(ev) THEN "cur"
  ELSE "none"

\* What is wrong with event n (from 0): the link to the event before it is
\* looked at first, then whether its own hash can be computed, then that hash.
\* The event before it has been hashed in its own turn, so that the link can.
LinkError(n) ==
  LET ev == events[n + 1] IN
  IF ev.prev # PrevHash(events, n) THEN "prev"
  ELSE IF ev.fact = FloatFact THEN "compute"
  ELSE IF ev.cur # CurrentHash(ev) THEN "cur"
  ELSE "none"

\* One turn of the loop of ValidateAuditChain, which ends at the first error.
CheckLink ==
  /\ phase = "validate"
  /\ i < Len(events)
  /\ \/ /\ LinkError(i) = "none"
        /\ i' = i + 1
        /\ UNCHANGED <<phase, result>>
     \/ /\ LinkError(i) # "none"
        /\ Finish(Fail(LinkError(i), i))
        /\ UNCHANGED i
  /\ UNCHANGED <<producerVars, fileVars, lineNo, events>>

ChainHolds ==
  /\ phase = "validate"
  /\ i = Len(events)
  /\ Finish(Pass("chain"))
  /\ UNCHANGED <<producerVars, fileVars, lineNo, events, i>>

Verify == ScanLine \/ EndOfLog \/ CheckLink \/ ChainHolds

Done == phase = "done" /\ UNCHANGED vars

-----------------------------------------------------------------------------
Next ==
  \/ \E p \in Producers : Ship(p) \/ \E f \in Facts : SealEvent(p, f)
  \/ Damage
  \/ OpenLog
  \/ Verify
  \/ Done

\* A started check runs to its end on one thread; nothing obliges producers to
\* seal, nor anyone to start a check.
Spec == Init /\ [][Next]_vars /\ WF_vars(Verify)
-----------------------------------------------------------------------------
\* Types.

IsEvent(e) ==
  e = Event(e.fact, e.prev, e.cur) /\ e.fact \in Facts \cup {NoFact, FloatFact}

IsLine(l) ==
  \/ l.kind = "event" /\ l = EventLine(l.event) /\ IsEvent(l.event)
  \/ l \in {BlankLine, MalformedLine, TooLongLine}

\* Type invariant.  Hashes nest without bound, so that events and lines are
\* described by their shape.  The result's position is one of the file's.
TypeOK ==
  /\ DOMAIN sealed = Producers
  /\ \A p \in Producers : IsSeq(sealed[p]) /\ \A j \in 1..Len(sealed[p]) : IsEvent(sealed[p][j])
  /\ entry \in {"present", "absent", "unreadable"}
  /\ IsSeq(log) /\ \A k \in 1..Len(log) : IsLine(log[k])
  /\ faults \in 0..MaxFaults
  /\ phase \in {"append", "transit", "scan", "validate", "done"}
  /\ lineNo \in 0..Len(log)
  /\ IsSeq(events) /\ Len(events) <= lineNo /\ \A k \in 1..Len(events) : IsEvent(events[k])
  /\ i \in 0..Len(events)
  /\ result.at \in 0..Len(log)
  /\ \/ result = Pending
     \/ \E kind \in {"absent", "chain"} : result = Pass(kind)
     \/ \E kind \in {"unreadable", "malformed", "tooLong", "prev", "compute", "cur"} :
          result = Fail(kind, result.at)

-----------------------------------------------------------------------------
\* Safety.

\* e cannot pass the check of its own two fields, wherever it stands.
Broken(e) == e.prev \in {NoString, Garbage} \/ e.cur # CurrentHash(e)

\* The first n events are the first n of producer p's log.
Follows(p, n) == n <= Len(sealed[p]) /\ \A j \in 1..n : events[j] = sealed[p][j]

\* A log that passes the chain check is the beginning of a log one producer
\* sealed: nothing altered, swapped, repeated, lost from the middle or mixed
\* in from another log.  (That the end is missing it cannot tell; and no hash has
\* a key, so that a log hashed anew is one that its hasher sealed.)
OnlySealedPrefixAccepted ==
  result.kind = "chain" => \E p \in Producers : Follows(p, Len(events))

\* BrokenAtIndex is exact: the events before it begin a sealed log, and with
\* the event at it they begin none.
BrokenAtFirstDeparture ==
  result.kind \in {"prev", "compute", "cur"} =>
    /\ \E p \in Producers : Follows(p, result.at)
    /\ \A p \in Producers : ~Follows(p, result.at + 1)

\* A current_event_hash mismatch never blames an event that is as its producer
\* sealed it: events lost, repeated or out of order show as a
\* previous_event_hash mismatch.
CurrentHashBlamesAlteredEvent ==
  result.kind = "cur" => ~Genuine(events[result.at + 1])

\* The line number of a parse error is that of the first line that is not
\* JSON, counted with the blank lines, and no line before it is too long.
ParseErrorAtFirstBadLine ==
  result.kind = "malformed" =>
    /\ result.at \in DOMAIN log
    /\ log[result.at].kind = "malformed"
    /\ \A k \in 1..(result.at - 1) : log[k].kind \in {"event", "blank"}

-----------------------------------------------------------------------------
\* What the verifier concludes, in the words of the promise.

Verdict ==
  CASE result = Pending       -> [outcome |-> "undecided", at |-> 0]
    [] result.result = "PASS" -> [outcome |-> "accepted", at |-> 0]
    [] result.kind \in {"prev", "compute", "cur"} -> [outcome |-> "broken", at |-> result.at]
    [] OTHER                  -> [outcome |-> "unreadable", at |-> 0]

Promise == INSTANCE TamperEvidence WITH verdict <- Verdict

-----------------------------------------------------------------------------
\* The inductive invariant.

SealedWellFormed ==
  \A p \in Producers : \A j \in 1..Len(sealed[p]) :
    /\ sealed[p][j].fact \in Facts
    /\ sealed[p][j].prev = PrevHash(sealed[p], j - 1)
    /\ sealed[p][j].cur  = CurrentHash(sealed[p][j])

\* An event fixes everything sealed before it: one that stands in two logs
\* stands at the same place in both, after the same events.
EventFixesItsPast ==
  \A p, q \in Producers : \A j \in 1..Len(sealed[p]), k \in 1..Len(sealed[q]) :
    sealed[p][j] = sealed[q][k] =>
      j = k /\ \A m \in 1..j : sealed[p][m] = sealed[q][m]

DamageShows ==
  /\ \A k \in 1..Len(log) :
       log[k].kind = "event" => Genuine(log[k].event) \/ Broken(log[k].event)
  /\ \A k \in 1..Len(events) : Genuine(events[k]) \/ Broken(events[k])

\* The scanner has every event of the lines it has read, in their order, and has
\* read on over nothing else than blank lines.
ScanInvariant ==
  /\ Len(events) = Promise!EventsUpTo(log, lineNo)
  /\ \A k \in Promise!EventLines(log) :
       k <= lineNo => events[Promise!EventsUpTo(log, k)] = log[k].event
  /\ \A n \in 1..Len(events) : \E k \in Promise!EventLines(log) :
       k <= lineNo /\ Promise!EventsUpTo(log, k) = n
  /\ \A k \in 1..lineNo :
       log[k].kind \in {"event", "blank"} \/ (k = lineNo /\ result.kind = "malformed")

LoopInvariant ==
  /\ phase # "append" => \E p \in Producers : Follows(p, i)
  /\ phase \in {"append", "transit", "scan", "validate"} => result = Pending
  /\ phase \in {"append", "transit"} => lineNo = 0 /\ events = <<>>
  /\ phase \in {"append", "transit", "scan"} => i = 0
  /\ phase \in {"scan", "validate"} => entry = "present"
  /\ phase = "validate" => lineNo = Len(log)

ResultInvariant ==
  /\ result.kind = "chain" => i = Len(events)
  /\ result.kind \in {"prev", "compute", "cur"} =>
       result.at = i /\ i < Len(events) /\ LinkError(i) = result.kind
  /\ result.kind = "malformed" =>
       result.at = lineNo /\ lineNo > 0 /\ log[lineNo].kind = "malformed"

\* What every step keeps, and what the properties of the chain and its promise
\* follow from.
IInv ==
  /\ TypeOK
  /\ SealedWellFormed
  /\ EventFixesItsPast
  /\ DamageShows
  /\ ScanInvariant
  /\ LoopInvariant
  /\ ResultInvariant

-----------------------------------------------------------------------------
\* Liveness and refinement.

\* A check that has opened the log comes to a result.
CheckTerminates == phase = "scan" ~> phase = "done"

\* Scanner and loop together judge the delivered file as the promise says: by
\* how far it begins one of the sealed logs.
KeepsPromise == Promise!Spec
=============================================================================
