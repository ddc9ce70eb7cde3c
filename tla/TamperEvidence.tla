--------------------------- MODULE TamperEvidence ---------------------------
(***************************************************************************)
(* What the audit-chain check of a bundle promises, with no chain in it:   *)
(* producers write logs, a file of events is delivered, and one judgement  *)
(* says how far that file is a beginning of one of the written logs.  Until *)
(* it is judged, anything may happen to the file.                          *)
(***************************************************************************)
EXTENDS Naturals, Sequences, SequencesExt, FiniteSetsExt

CONSTANT Producers

VARIABLES
  sealed,   \* the events of each producer's log
  entry,    \* the delivered entry: present, absent, unreadable
  log,      \* the lines delivered
  verdict   \* what was concluded, once

vars == <<sealed, entry, log, verdict>>

Undecided   == [outcome |-> "undecided", at |-> 0]
Accepted    == [outcome |-> "accepted", at |-> 0]
Unreadable  == [outcome |-> "unreadable", at |-> 0]
BrokenAt(n) == [outcome |-> "broken", at |-> n]

\* The events the file holds, whatever blank lines stand between them: the n-th
\* is on the line up to which there are n.
EventLines(lines)    == {k \in 1..Len(lines) : lines[k].kind = "event"}
EventsUpTo(lines, k) == Cardinality({m \in EventLines(lines) : m <= k})
EventsIn(lines) ==
  [n \in 1..Cardinality(EventLines(lines)) |->
     lines[CHOOSE k \in EventLines(lines) : EventsUpTo(lines, k) = n].event]

Readable(lines) == \A k \in 1..Len(lines) : lines[k].kind \in {"event", "blank"}

\* The first n events begin the log of one producer, and of one only.
Begins(evs, n) == \E p \in Producers : IsPrefix(SubSeq(evs, 1, n), sealed[p])

Judgement ==
  LET evs == EventsIn(log)
      n   == Max({k \in 0..Len(evs) : Begins(evs, k)})
  IN  IF entry = "absent" THEN Accepted
      ELSE IF entry = "unreadable" \/ ~Readable(log) THEN Unreadable
      ELSE IF n = Len(evs) THEN Accepted ELSE BrokenAt(n)

Init ==
  /\ sealed  = [p \in Producers |-> <<>>]
  /\ entry   = "present"
  /\ log     = <<>>
  /\ verdict = Undecided

\* Logs only grow; the delivered file is at the mercy of its way.
Deliver ==
  /\ verdict = Undecided
  /\ \A p \in Producers : IsPrefix(sealed[p], sealed'[p])
  /\ UNCHANGED verdict

Judge ==
  /\ verdict  = Undecided
  /\ verdict' = Judgement
  /\ UNCHANGED <<sealed, entry, log>>

Next == Deliver \/ Judge

Spec == Init /\ [][Next]_vars
=============================================================================
