-------------------------- MODULE AuditChain_proofs --------------------------
(***************************************************************************)
(* Proofs about the audit chain for every set of producers and facts and   *)
(* every number of events and damages.  The invariant IInv of AuditChain is *)
(* inductive; the safety properties follow from it.                        *)
(***************************************************************************)
EXTENDS AuditChain, CommonTheorems, TLAPS

-----------------------------------------------------------------------------
\* Events.

\* An event is its three fields.
LEMMA EventFields ==
  ASSUME NEW f, NEW p, NEW c
  PROVE  /\ Event(f, p, c).fact = f
         /\ Event(f, p, c).prev = p
         /\ Event(f, p, c).cur = c
         /\ f \in Facts \cup {NoFact, FloatFact} => IsEvent(Event(f, p, c))
BY DEF Event, IsEvent

\* An event line is its event.
LEMMA EventLineFields ==
  ASSUME NEW e
  PROVE  /\ EventLine(e).kind = "event"
         /\ EventLine(e).event = e
         /\ IsEvent(e) => IsLine(EventLine(e))
BY DEF EventLine, IsLine

\* The lines that hold no event.
LEMMA OtherLines ==
  ASSUME NEW l \in {BlankLine, MalformedLine, TooLongLine}
  PROVE  IsLine(l) /\ l.kind \in {"blank", "malformed", "tooLong"}
BY DEF BlankLine, MalformedLine, TooLongLine, IsLine

-----------------------------------------------------------------------------
\* Counting event lines.

\* Up to the next line there is one event line more if that is one.
LEMMA CountEvents ==
  ASSUME NEW lines, Len(lines) \in Nat
  PROVE  /\ Promise!EventsUpTo(lines, 0) = 0
         /\ \A n \in Nat :
              /\ Promise!EventsUpTo(lines, n) \in Nat
              /\ Promise!EventsUpTo(lines, n + 1) =
                   IF n + 1 \in Promise!EventLines(lines) THEN Promise!EventsUpTo(lines, n) + 1
                                                          ELSE Promise!EventsUpTo(lines, n)
<1> DEFINE S == Promise!EventLines(lines)
<1>1. \A m \in S : m \in Nat /\ m >= 1
  BY DEF Promise!EventLines
<1>2. \A n : Promise!EventsUpTo(lines, n) = Cardinality({m \in S : m <= n})
  BY DEF Promise!EventsUpTo, Promise!Cardinality, Cardinality
<1> HIDE DEF S
<1>3. /\ Cardinality({m \in S : m <= 0}) = 0
      /\ \A n \in Nat :
           /\ Cardinality({m \in S : m <= n}) \in Nat
           /\ Cardinality({m \in S : m <= n + 1}) =
                IF n + 1 \in S THEN Cardinality({m \in S : m <= n}) + 1
                               ELSE Cardinality({m \in S : m <= n})
  BY <1>1, CountUpTo
<1> QED BY <1>2, <1>3 DEF S

\* The place of an event line among those up to line n.
LEMMA PlaceOfEvent ==
  ASSUME NEW lines, Len(lines) \in Nat, NEW n \in Nat, NEW k \in Promise!EventLines(lines), k <= n
  PROVE  Promise!EventsUpTo(lines, k) \in 1..Promise!EventsUpTo(lines, n)
<1>1. \A m \in Promise!EventLines(lines) : m \in Nat /\ m >= 1
  BY DEF Promise!EventLines
<1>2. Promise!EventsUpTo(lines, k) <= Promise!EventsUpTo(lines, n)
  <2> DEFINE S == Promise!EventLines(lines)
  <2>1. \A x : Promise!EventsUpTo(lines, x) = Cardinality({m \in S : m <= x})
    BY DEF Promise!EventsUpTo, Promise!Cardinality, Cardinality
  <2>2. k \in Nat /\ \A m \in S : m \in Nat /\ m >= 1
    BY <1>1
  <2> HIDE DEF S
  <2>3. Cardinality({m \in S : m <= k}) <= Cardinality({m \in S : m <= n})
    BY <2>2, CountGrows
  <2> QED BY <2>1, <2>3
<1>3. k - 1 \in Nat /\ (k - 1) + 1 = k
  BY <1>1
<1>4. /\ Promise!EventsUpTo(lines, k) = Promise!EventsUpTo(lines, k - 1) + 1
      /\ Promise!EventsUpTo(lines, k - 1) \in Nat
  BY <1>3, CountEvents
<1>5. Promise!EventsUpTo(lines, n) \in Nat
  BY CountEvents
<1> QED BY <1>2, <1>4, <1>5

\* A step that reads no line and does not replace a result.
LEMMA ScanUnchanged ==
  ASSUME IInv, UNCHANGED <<log, lineNo, events>>, result = Pending \/ result' = result
  PROVE  ScanInvariant'
<1>1. /\ Promise!EventLines(log)' = Promise!EventLines(log)
      /\ Promise!EventsUpTo(log, lineNo)' = Promise!EventsUpTo(log, lineNo)
      /\ \A k : Promise!EventsUpTo(log, k)' = Promise!EventsUpTo(log, k)
  BY DEF Promise!EventLines, Promise!EventsUpTo
<1> QED BY <1>1 DEF IInv, ScanInvariant, Pending

-----------------------------------------------------------------------------
\* Producers.

\* What a producer appends is well formed, and its past is what stands before
\* it.
LEMMA SealKeepsInv ==
  ASSUME IInv, NEW p \in Producers, NEW f \in Facts, SealEvent(p, f)
  PROVE  IInv'
<1> DEFINE s == sealed[p]
           e == SealedEvent(s, f)
<1> USE DEF fileVars, verifierVars
<1>1. /\ phase = "append" /\ phase' = phase
      /\ sealed' = [sealed EXCEPT ![p] = Append(s, e)]
      /\ UNCHANGED <<entry, log, faults, lineNo, events, i, result>>
  BY DEF SealEvent
<1>2. IsSeq(s) /\ DOMAIN sealed = Producers
  BY DEF IInv, TypeOK
<1>3. /\ IsSeq(sealed'[p])
      /\ Len(s) \in Nat
      /\ Len(sealed'[p]) = Len(s) + 1
      /\ sealed'[p][Len(s) + 1] = e
      /\ \A k \in 1..Len(s) : sealed'[p][k] = s[k]
  BY <1>1, <1>2, Grow, IsSeqLen
<1>4. \A q \in Producers : q # p => sealed'[q] = sealed[q]
  BY <1>1, <1>2
<1>5. DOMAIN sealed' = Producers
  BY <1>1, <1>2
<1>6. e.fact = f /\ e.prev = PrevHash(s, Len(s)) /\ e.cur = CurrentHash(e) /\ IsEvent(e)
  <2> DEFINE prev == PrevHash(s, Len(s))
  <2>1. e = Event(f, prev, CurrentHash(Event(f, prev, NoString)))
    BY DEF SealedEvent
  <2>2. CurrentHash(Event(f, prev, NoString)) = SHA256(Event(f, prev, NoString))
    BY EventFields DEF CurrentHash
  <2>3. CurrentHash(e) = SHA256(Event(f, prev, NoString))
    BY <2>1, EventFields DEF CurrentHash
  <2> QED BY <2>1, <2>2, <2>3, EventFields
<1>7. \A q \in Producers : \A j \in 1..Len(sealed[q]) :
        /\ j \in 1..Len(sealed'[q])
        /\ sealed'[q][j] = sealed[q][j]
  BY <1>3, <1>4
<1>8. \A q \in Producers : \A j \in 1..Len(sealed'[q]) :
        \/ j \in 1..Len(sealed[q]) /\ sealed'[q][j] = sealed[q][j]
        \/ q = p /\ j = Len(s) + 1 /\ sealed'[q][j] = e
  BY <1>3, <1>4
<1>9. \A q \in Producers : IsSeq(sealed[q]) /\ Len(sealed[q]) \in Nat
  BY IsSeqLen DEF IInv, TypeOK
<1>10. TypeOK'
  <2>1. \A q \in Producers : IsSeq(sealed'[q])
    BY <1>3, <1>4, <1>9
  <2>2. \A q \in Producers : \A j \in 1..Len(sealed'[q]) : IsEvent(sealed'[q][j])
    BY <1>6, <1>8 DEF IInv, TypeOK
  <2> QED BY <1>1, <1>5, <2>1, <2>2 DEF IInv, TypeOK
<1>11. SealedWellFormed'
  <2> SUFFICES ASSUME NEW q \in Producers, NEW j \in 1..Len(sealed'[q])
               PROVE  /\ sealed'[q][j].fact \in Facts
                      /\ sealed'[q][j].prev = PrevHash(sealed'[q], j - 1)
                      /\ sealed'[q][j].cur = CurrentHash(sealed'[q][j])
    BY DEF SealedWellFormed
  <2>1. CASE j \in 1..Len(sealed[q]) /\ sealed'[q][j] = sealed[q][j]
    <3>1. PrevHash(sealed'[q], j - 1) = PrevHash(sealed[q], j - 1)
      BY <2>1, <1>7, <1>9 DEF PrevHash
    <3> QED BY <2>1, <3>1 DEF IInv, SealedWellFormed
  <2>2. CASE q = p /\ j = Len(s) + 1 /\ sealed'[q][j] = e
    <3>1. PrevHash(sealed'[p], Len(s)) = PrevHash(s, Len(s))
      BY <1>3 DEF PrevHash
    <3> QED BY <2>2, <3>1, <1>3, <1>6
  <2> QED BY <1>8, <2>1, <2>2
<1>12. ASSUME NEW q \in Producers, NEW j \in 1..Len(sealed[q]), sealed[q][j] = e
       PROVE  j = Len(s) + 1 /\ \A m \in 1..Len(s) : sealed[q][m] = s[m]
  <2>1. PrevHash(sealed[q], j - 1) = PrevHash(s, Len(s))
    BY <1>6, <1>12 DEF IInv, SealedWellFormed
  <2>2. CASE Len(s) = 0
    BY <2>1, <2>2, <1>9, DigestsDiffer DEF PrevHash, StoredHash
  <2>3. CASE Len(s) # 0
    <3>1. j # 1 /\ sealed[q][j - 1] = s[Len(s)]
      BY <2>1, <2>3, <1>3, <1>9, DigestsDiffer DEF PrevHash, StoredHash
    <3>2. j - 1 \in 1..Len(sealed[q]) /\ Len(s) \in 1..Len(s)
      BY <3>1, <2>3, <1>3, <1>9
    <3>3. j - 1 = Len(s) /\ \A m \in 1..(j - 1) : sealed[q][m] = s[m]
      BY <3>1, <3>2 DEF IInv, EventFixesItsPast
    <3> QED BY <3>3, <1>9
  <2> QED BY <2>2, <2>3
<1>13. EventFixesItsPast'
  <2> SUFFICES ASSUME NEW q \in Producers, NEW r \in Producers,
                      NEW j \in 1..Len(sealed'[q]), NEW k \in 1..Len(sealed'[r]),
                      sealed'[q][j] = sealed'[r][k]
               PROVE  j = k /\ \A m \in 1..j : sealed'[q][m] = sealed'[r][m]
    BY DEF EventFixesItsPast
  <2> DEFINE Old(a, x) == x \in 1..Len(sealed[a]) /\ sealed'[a][x] = sealed[a][x]
             New(a, x) == a = p /\ x = Len(s) + 1 /\ sealed'[a][x] = e
  <2>1. CASE Old(q, j) /\ Old(r, k)
    <3>1. sealed[q][j] = sealed[r][k] /\ j \in 1..Len(sealed[q]) /\ k \in 1..Len(sealed[r])
      BY <2>1
    <3>2. j = k /\ \A m \in 1..j : sealed[q][m] = sealed[r][m]
      BY <3>1 DEF IInv, EventFixesItsPast
    <3>3. \A m \in 1..j : m \in 1..Len(sealed[q]) /\ m \in 1..Len(sealed[r])
      BY <3>1, <3>2, <1>9
    <3> QED BY <3>2, <3>3, <1>7
  <2>2. CASE New(q, j) /\ Old(r, k)
    <3>1. k = Len(s) + 1 /\ \A m \in 1..Len(s) : sealed[r][m] = s[m]
      BY <2>2, <1>12
    <3>2. \A m \in 1..Len(s) : sealed'[r][m] = sealed'[q][m]
      BY <3>1, <2>2, <1>3, <1>7, <1>9
    <3> QED BY <2>2, <3>1, <3>2, <1>3
  <2>3. CASE Old(q, j) /\ New(r, k)
    <3>1. j = Len(s) + 1 /\ \A m \in 1..Len(s) : sealed[q][m] = s[m]
      BY <2>3, <1>12
    <3>2. \A m \in 1..Len(s) : sealed'[r][m] = sealed'[q][m]
      BY <3>1, <2>3, <1>3, <1>7, <1>9
    <3>3. j = k /\ \A m \in 1..j : m \in 1..Len(s) \/ m = j
      BY <2>3, <3>1, <1>3
    <3> QED BY <3>2, <3>3
  <2>4. CASE New(q, j) /\ New(r, k)
    BY <2>4
  <2> QED BY <1>8, <2>1, <2>2, <2>3, <2>4
<1>14. log' = log /\ events' = events /\ result' = result /\ result = Pending
  BY <1>1 DEF IInv, LoopInvariant
<1>15. \A x : Genuine(x) => Genuine(x)'
  BY <1>7 DEF Genuine
<1>16. DamageShows'
  <2>1. \A x : Broken(x)' = Broken(x)
    BY DEF Broken, CurrentHash
  <2> QED BY <1>14, <1>15, <2>1 DEF IInv, DamageShows
<1>17. LoopInvariant' /\ ResultInvariant'
  BY <1>1, <1>14 DEF IInv, LoopInvariant, ResultInvariant, Pending
<1>18. ScanInvariant'
  BY <1>1, ScanUnchanged
<1> QED BY <1>10, <1>11, <1>13, <1>16, <1>17, <1>18 DEF IInv

-----------------------------------------------------------------------------
\* Shipping and damage.

\* What a line may be on the way: nothing, or an event some producer sealed, or
\* one that no longer fits its own hashes.
Harmless(l) == IsLine(l) /\ (l.kind = "event" => Genuine(l.event) \/ Broken(l.event))

\* A delivery whose lines are all harmless leaves the rest of the invariant.
LEMMA DeliveryKeepsInv ==
  ASSUME IInv, phase' \in {"append", "transit"}, phase \in {"append", "transit"},
         UNCHANGED <<sealed, lineNo, events, i, result>>,
         entry' \in {"present", "absent", "unreadable"}, faults' \in 0..MaxFaults,
         NEW S, log' \in Seq(S), \A l \in S : Harmless(l),
         phase' # "append" => Producers # {}
  PROVE  IInv'
<1>1. result = Pending /\ lineNo = 0 /\ events = <<>> /\ i = 0
  BY DEF IInv, LoopInvariant
<1>2. IsSeq(log') /\ Len(log') \in Nat /\ \A k \in 1..Len(log') : Harmless(log'[k])
  BY SeqIsSeq
<1>3. TypeOK'
  BY <1>1, <1>2 DEF IInv, TypeOK, Pending, Harmless
<1>4. SealedWellFormed' /\ EventFixesItsPast'
  <2>1. SealedWellFormed /\ EventFixesItsPast /\ sealed' = sealed
    BY DEF IInv
  <2>2. SealedWellFormed'
    BY <2>1 DEF SealedWellFormed
  <2>3. EventFixesItsPast'
    BY <2>1 DEF EventFixesItsPast
  <2> QED BY <2>2, <2>3
<1>5. \A x : Genuine(x)' = Genuine(x) /\ Broken(x)' = Broken(x)
  BY DEF Genuine, Broken
<1>6. DamageShows'
  BY <1>2, <1>5 DEF IInv, DamageShows, Harmless
<1>7. LoopInvariant'
  <2>1. \A p \in Producers : Follows(p, i)'
    BY <1>1, IsSeqLen DEF Follows, IInv, TypeOK
  <2> QED BY <1>1, <2>1 DEF LoopInvariant
<1>8. ResultInvariant'
  BY <1>1 DEF ResultInvariant, Pending
<1>9. ScanInvariant'
  <2>1. Promise!EventsUpTo(log', 0) = 0
    BY <1>2, CountEvents
  <2>2. \A m \in Promise!EventLines(log') : m \in Nat /\ m >= 1
    BY DEF Promise!EventLines
  <2>3. Len(events) = 0
    BY <1>1, EmptySeq
  <2> QED BY <1>1, <2>1, <2>2, <2>3 DEF ScanInvariant
<1> QED BY <1>3, <1>4, <1>6, <1>7, <1>8, <1>9 DEF IInv

LEMMA ShipKeepsInv ==
  ASSUME IInv, NEW p \in Producers, Ship(p)
  PROVE  IInv'
<1> DEFINE S == {EventLine(sealed[p][j]) : j \in 1..Len(sealed[p])}
<1>1. IsSeq(sealed[p]) /\ Len(sealed[p]) \in Nat /\ faults \in 0..MaxFaults
  BY IsSeqLen DEF IInv, TypeOK
<1>2. log' \in Seq(S)
  BY <1>1 DEF Ship, Lines
<1>3. \A l \in S : Harmless(l)
  <2> SUFFICES ASSUME NEW j \in 1..Len(sealed[p])
               PROVE  Harmless(EventLine(sealed[p][j]))
    OBVIOUS
  <2>1. IsEvent(sealed[p][j]) /\ Genuine(sealed[p][j])
    BY DEF IInv, TypeOK, Genuine
  <2> QED BY <2>1, EventLineFields DEF Harmless
<1>4. /\ phase' = "transit" /\ phase = "append"
      /\ UNCHANGED <<sealed, entry, faults, lineNo, events, i, result>>
  BY DEF Ship, producerVars, verifierVars
<1>5. entry' \in {"present", "absent", "unreadable"}
  BY <1>4 DEF IInv, TypeOK
<1> QED BY <1>1, <1>2, <1>3, <1>4, <1>5, DeliveryKeepsInv

\* An event sealed by a producer with one field overwritten is harmless.
LEMMA AlteredEventIsHarmless ==
  ASSUME IInv, NEW e, Genuine(e)
  PROVE  /\ \A f \in (Facts \cup {FloatFact}) \ {e.fact} : Harmless(EventLine([e EXCEPT !.fact = f]))
         /\ Harmless(EventLine([e EXCEPT !.prev = Garbage]))
         /\ Harmless(EventLine([e EXCEPT !.cur = Garbage]))
<1>0. PICK p \in Producers : \E j \in 1..Len(sealed[p]) : e = sealed[p][j]
  BY DEF Genuine
<1>1. PICK j \in 1..Len(sealed[p]) : e = sealed[p][j]
  BY <1>0
<1>2. IsEvent(e) /\ e.cur = CurrentHash(e)
  BY <1>1 DEF IInv, TypeOK, SealedWellFormed
<1>3. e = Event(e.fact, e.prev, e.cur) /\ e.fact \in Facts \cup {NoFact, FloatFact}
  BY <1>2 DEF IsEvent
<1>4. ASSUME NEW f \in (Facts \cup {FloatFact}) \ {e.fact}
      PROVE  Harmless(EventLine([e EXCEPT !.fact = f]))
  <2> DEFINE d == Event(f, e.prev, e.cur)
  <2>1. [e EXCEPT !.fact = f] = d
    BY <1>3 DEF Event
  <2>2. CurrentHash(d) # CurrentHash(e)
    <3>1. Event(f, e.prev, NoString) # Event(e.fact, e.prev, NoString)
      BY EventFields
    <3> QED BY <3>1, EventFields, DigestsDiffer DEF CurrentHash
  <2>3. d.cur = e.cur
    BY EventFields
  <2>4. Broken(d)
    BY <2>2, <2>3, <1>2 DEF Broken
  <2> HIDE DEF d
  <2> QED BY <2>1, <2>4, EventFields, EventLineFields DEF Harmless, d
<1>5. Harmless(EventLine([e EXCEPT !.prev = Garbage]))
  <2>1. [e EXCEPT !.prev = Garbage] = Event(e.fact, Garbage, e.cur)
    BY <1>3 DEF Event
  <2>2. Broken(Event(e.fact, Garbage, e.cur))
    BY EventFields DEF Broken
  <2> QED BY <2>1, <2>2, <1>3, EventFields, EventLineFields DEF Harmless
<1>6. Harmless(EventLine([e EXCEPT !.cur = Garbage]))
  <2> DEFINE d == Event(e.fact, e.prev, Garbage)
  <2>1. [e EXCEPT !.cur = Garbage] = d
    BY <1>3 DEF Event
  <2>2. d.cur # CurrentHash(d)
    BY EventFields, DigestsDiffer DEF CurrentHash
  <2>3. Broken(d)
    BY <2>2 DEF Broken
  <2> HIDE DEF d
  <2> QED BY <2>1, <2>3, <1>3, EventFields, EventLineFields DEF Harmless, d
<1> QED BY <1>4, <1>5, <1>6

LEMMA DamageKeepsInv ==
  ASSUME IInv, Damage
  PROVE  IInv'
<1> USE DEF Fault, producerVars, verifierVars
<1>1. /\ phase = "transit" /\ phase' = "transit"
      /\ UNCHANGED <<sealed, lineNo, events, i, result>>
      /\ faults < MaxFaults /\ faults' = faults + 1
  BY DEF Damage, LoseEntry, LoseLine, TruncateAfter, SwapWithNext, StrayLine, AlterLine,
         GarbleLine
<1>2. faults' \in 0..MaxFaults
  BY <1>1, ChainAssumption DEF IInv, TypeOK
<1>3. entry' \in {"present", "absent", "unreadable"}
  BY DEF IInv, TypeOK, Damage, LoseEntry, LoseLine, TruncateAfter, SwapWithNext, StrayLine,
         AlterLine, GarbleLine
<1>4. log \in Seq(Range(log)) /\ Len(log) \in Nat
  BY IsSeqLen DEF IInv, TypeOK, IsSeq
<1>5. \A l \in Range(log) : Harmless(l)
  <2> SUFFICES ASSUME NEW l \in Range(log)
               PROVE  Harmless(l)
    OBVIOUS
  <2>1. PICK k \in 1..Len(log) : l = log[k]
    BY <1>4, RangeEquality
  <2>2. IsLine(log[k]) /\ (log[k].kind = "event" => Genuine(log[k].event) \/ Broken(log[k].event))
    BY DEF IInv, TypeOK, DamageShows
  <2> QED BY <2>1, <2>2 DEF Harmless
<1>6. Producers # {}
  BY <1>1 DEF IInv, LoopInvariant
<1>7. \A l : log \in Seq(Range(log) \cup {l})
  BY <1>4, SeqMonotonic
<1> SUFFICES \E S : log' \in Seq(S) /\ \A l \in S : Harmless(l)
  BY <1>1, <1>2, <1>3, <1>6, DeliveryKeepsInv
<1>8. ASSUME NEW new, Harmless(new), log' \in Seq(Range(log) \cup {new})
      PROVE  \E S : log' \in Seq(S) /\ \A l \in S : Harmless(l)
  <2> WITNESS Range(log) \cup {new}
  <2> QED BY <1>5, <1>8
<1>9. ASSUME log' \in Seq(Range(log))
      PROVE  \E S : log' \in Seq(S) /\ \A l \in S : Harmless(l)
  BY <1>5, <1>9
<1>10. CASE LoseEntry
  BY <1>4, <1>9, <1>10 DEF LoseEntry
<1>11. ASSUME NEW k \in 1..Len(log), LoseLine(k)
       PROVE  log' \in Seq(Range(log))
  BY <1>4, <1>11, RemoveAtSeq DEF LoseLine
<1>12. ASSUME NEW k \in 0..Len(log), TruncateAfter(k)
       PROVE  log' \in Seq(Range(log))
  <2>1. \A x \in 1..k : log[x] \in Range(log)
    BY <1>4, ElementOfSeq
  <2> QED BY <1>4, <1>12, <2>1, SubSeqProperties DEF TruncateAfter
<1>13. ASSUME NEW k \in 1..Len(log), SwapWithNext(k)
       PROVE  log' \in Seq(Range(log))
  BY <1>4, <1>13, SwapSeq DEF SwapWithNext
<1>14. ASSUME NEW k \in 1..(Len(log) + 1), NEW p \in Producers, NEW j \in 1..Len(sealed[p]),
              StrayLine(k, p, j)
       PROVE  \E S : log' \in Seq(S) /\ \A l \in S : Harmless(l)
  <2> DEFINE new == EventLine(sealed[p][j])
  <2>1. IsEvent(sealed[p][j]) /\ Genuine(sealed[p][j])
    BY DEF IInv, TypeOK, Genuine
  <2>2. Harmless(new)
    BY <2>1, EventLineFields DEF Harmless
  <2> HIDE DEF new
  <2>3. log' \in Seq(Range(log) \cup {new})
    BY <1>7, <1>14, InsertAtSeq DEF StrayLine, new
  <2> QED BY <1>8, <2>2, <2>3
<1>15. ASSUME NEW k \in 1..Len(log), NEW new, Harmless(new), log' = ReplaceAt(log, k, new)
       PROVE  \E S : log' \in Seq(S) /\ \A l \in S : Harmless(l)
  <2>1. log' \in Seq(Range(log) \cup {new})
    BY <1>7, <1>15, ReplaceAtSeq
  <2> QED BY <1>8, <1>15, <2>1
<1>16. ASSUME NEW k \in 1..Len(log), AlterLine(k)
       PROVE  \E S : log' \in Seq(S) /\ \A l \in S : Harmless(l)
  BY <1>15, <1>16, AlteredEventIsHarmless DEF AlterLine
<1>17. ASSUME NEW k \in 1..Len(log), GarbleLine(k)
       PROVE  \E S : log' \in Seq(S) /\ \A l \in S : Harmless(l)
  <2>1. PICK l \in {BlankLine, MalformedLine, TooLongLine, EventLine(EmptyEvent)} :
          log' = ReplaceAt(log, k, l)
    BY <1>17 DEF GarbleLine
  <2>2. Harmless(EventLine(EmptyEvent))
    BY EventFields, EventLineFields DEF Harmless, EmptyEvent, Broken
  <2>3. Harmless(l)
    BY <2>1, <2>2, OtherLines DEF Harmless
  <2> QED BY <2>1, <2>3, <1>15
<1> QED BY <1>9, <1>10, <1>11, <1>12, <1>13, <1>14, <1>16, <1>17 DEF Damage

-----------------------------------------------------------------------------
\* The verifier.

LEMMA OpenLogKeepsInv ==
  ASSUME IInv, OpenLog
  PROVE  IInv'
<1> USE DEF OpenLog, Finish, producerVars, fileVars
<1>1. /\ phase = "transit" /\ result = Pending /\ lineNo = 0 /\ events = <<>> /\ i = 0
      /\ UNCHANGED <<sealed, entry, log, faults, lineNo, events, i>>
      /\ phase' \in {"scan", "done"}
      /\ phase' = "scan" => result' = result /\ entry = "present"
      /\ result' \in {Pending, Pass("absent"), Fail("unreadable", 0)}
  BY DEF IInv, LoopInvariant
<1>2. result'.at = 0 /\ result'.kind \in {"pending", "absent", "unreadable"}
  BY <1>1 DEF Pending, Pass, Fail
<1>3. Len(log) \in Nat
  BY IsSeqLen DEF IInv, TypeOK
<1>4. TypeOK'
  BY <1>1, <1>2, <1>3 DEF IInv, TypeOK
<1>5. SealedWellFormed' /\ EventFixesItsPast' /\ DamageShows'
  BY <1>1 DEF IInv, SealedWellFormed, EventFixesItsPast, DamageShows, Genuine, Broken
<1>6. LoopInvariant' /\ ResultInvariant'
  BY <1>1, <1>2 DEF IInv, LoopInvariant, ResultInvariant, Follows
<1>7. ScanInvariant'
  BY <1>1, ScanUnchanged
<1> QED BY <1>4, <1>5, <1>6, <1>7 DEF IInv

LEMMA ScanLineKeepsInv ==
  ASSUME IInv, ScanLine
  PROVE  IInv'
<1> DEFINE line == log[lineNo + 1]
<1> USE DEF ScanLine, Finish, producerVars, fileVars
<1>1. /\ phase = "scan" /\ lineNo < Len(log) /\ result = Pending /\ i = 0
      /\ UNCHANGED <<sealed, entry, log, faults, i>>
  BY DEF IInv, LoopInvariant
<1>2. Len(log) \in Nat /\ lineNo \in Nat /\ IsSeq(events) /\ Len(events) \in Nat
  BY IsSeqLen DEF IInv, TypeOK
<1>3. lineNo + 1 \in 1..Len(log)
  BY <1>1, <1>2
<1>4. \/ /\ line.kind = "blank"
         /\ lineNo' = lineNo + 1 /\ UNCHANGED <<events, phase, result>>
      \/ /\ line.kind = "event" /\ lineNo' = lineNo + 1
         /\ events' = Append(events, line.event) /\ UNCHANGED <<phase, result>>
      \/ /\ UNCHANGED events /\ phase' = "done"
         /\ \/ /\ line.kind = "malformed" /\ lineNo' = lineNo + 1
               /\ result' = Fail("malformed", lineNo + 1)
            \/ lineNo' = lineNo /\ result' = Fail("tooLong", 0)
  BY DEF MalformedAt
<1>5. SealedWellFormed' /\ EventFixesItsPast'
  BY <1>1 DEF IInv, SealedWellFormed, EventFixesItsPast
<1>6. \A x : Genuine(x)' = Genuine(x) /\ Broken(x)' = Broken(x)
  BY <1>1 DEF Genuine, Broken
<1> DEFINE EventsTo(k) == Promise!EventsUpTo(log, k)
           At == Promise!EventLines(log)
<1>0. /\ \A k : Promise!EventsUpTo(log, k)' = EventsTo(k)
      /\ Promise!EventLines(log)' = At
      /\ Promise!EventsUpTo(log, lineNo)' = EventsTo(lineNo')
      /\ \A k \in At : k \in 1..Len(log)
      /\ lineNo + 1 \in At <=> line.kind = "event"
  BY <1>1, <1>3 DEF Promise!EventLines, Promise!EventsUpTo
<1>9. /\ Len(events) = EventsTo(lineNo)
      /\ \A k \in At : k <= lineNo => events[EventsTo(k)] = log[k].event
      /\ \A n \in 1..Len(events) : \E k \in At : k <= lineNo /\ EventsTo(k) = n
      /\ \A k \in 1..lineNo : log[k].kind \in {"event", "blank"}
  BY <1>1 DEF IInv, ScanInvariant, Pending
<1>10. \A k \in At : k <= lineNo + 1 <=> k <= lineNo \/ k = lineNo + 1
  BY <1>0, <1>2
<1>11. EventsTo(lineNo + 1) = IF lineNo + 1 \in At THEN EventsTo(lineNo) + 1 ELSE EventsTo(lineNo)
  BY <1>2, CountEvents
<1>7. CASE lineNo' \in {lineNo, lineNo + 1} /\ UNCHANGED events
           /\ (lineNo' = lineNo + 1 => line.kind # "event")
  <2>1. /\ result'.at \in 0..Len(log)
        /\ result'.kind \notin {"chain", "prev", "compute", "cur"}
        /\ result' = Pending \/ phase' = "done"
        /\ \/ result' = Pending
           \/ \E kind \in {"malformed", "tooLong"} : result' = Fail(kind, result'.at)
    BY <1>1, <1>2, <1>3, <1>4 DEF Pending, Fail
  <2>2. TypeOK'
    BY <1>1, <1>2, <1>3, <1>4, <1>7, <2>1 DEF IInv, TypeOK
  <2>3. DamageShows'
    BY <1>1, <1>6, <1>7 DEF IInv, DamageShows
  <2>4. LoopInvariant' /\ ResultInvariant'
    <3>1. result'.kind = "malformed" =>
            result'.at = lineNo' /\ lineNo' > 0 /\ log[lineNo'].kind = "malformed"
      BY <1>1, <1>2, <1>4, <1>7 DEF Pending, Fail
    <3> QED BY <1>1, <1>4, <1>7, <2>1, <3>1 DEF IInv, LoopInvariant, ResultInvariant, Follows
  <2>5. ScanInvariant'
    <3>1. /\ EventsTo(lineNo') = EventsTo(lineNo)
          /\ \A k \in At : k <= lineNo' <=> k <= lineNo
      BY <1>0, <1>7, <1>10, <1>11
    <3>2. ASSUME NEW k \in 1..lineNo'
          PROVE  \/ log[k].kind \in {"event", "blank"}
                 \/ k = lineNo' /\ result'.kind = "malformed"
      <4>1. k \in 1..lineNo \/ (k = lineNo + 1 /\ lineNo' = lineNo + 1)
        BY <1>2, <1>7, <3>2
      <4>2. lineNo' = lineNo + 1 => line.kind = "blank" \/ result'.kind = "malformed"
        BY <1>2, <1>4, <1>7 DEF Fail
      <4> QED BY <1>9, <4>1, <4>2
    <3> QED BY <1>0, <1>1, <1>7, <1>9, <3>1, <3>2 DEF ScanInvariant
  <2> QED BY <1>5, <2>2, <2>3, <2>4, <2>5 DEF IInv
<1>8. CASE /\ line.kind = "event" /\ lineNo' = lineNo + 1
           /\ events' = Append(events, line.event) /\ UNCHANGED <<phase, result>>
  <2>1. /\ IsSeq(events') /\ Len(events') = Len(events) + 1
        /\ events'[Len(events) + 1] = line.event
        /\ \A k \in 1..Len(events) : events'[k] = events[k]
    BY <1>2, <1>8, Grow
  <2>2. \A k \in 1..Len(events') : k \in 1..Len(events) \/ k = Len(events) + 1
    BY <1>2, <2>1
  <2>3. IsEvent(line.event) /\ (Genuine(line.event) \/ Broken(line.event))
    <3>1. IsLine(line)
      BY <1>3 DEF IInv, TypeOK
    <3>2. IsEvent(line.event)
      BY <1>8, <3>1 DEF IsLine, BlankLine, MalformedLine, TooLongLine
    <3> QED BY <1>3, <1>8, <3>2 DEF IInv, DamageShows
  <2>4. TypeOK'
    <3>1. \A k \in 1..Len(events') : IsEvent(events'[k])
      BY <2>1, <2>2, <2>3 DEF IInv, TypeOK
    <3>2. Len(events') <= lineNo' /\ i' \in 0..Len(events')
      BY <1>1, <1>2, <1>8, <2>1 DEF IInv, TypeOK
    <3>3. lineNo' \in 0..Len(log)
      BY <1>2, <1>3, <1>8
    <3> QED BY <1>1, <1>8, <2>1, <3>1, <3>2, <3>3 DEF IInv, TypeOK
  <2>5. DamageShows'
    <3>1. \A k \in 1..Len(events') : Genuine(events'[k]) \/ Broken(events'[k])
      BY <2>1, <2>2, <2>3 DEF IInv, DamageShows
    <3> QED BY <1>1, <1>6, <3>1 DEF IInv, DamageShows
  <2>6. LoopInvariant' /\ ResultInvariant'
    BY <1>1, <1>8 DEF IInv, LoopInvariant, ResultInvariant, Follows, Pending
  <2>7. ScanInvariant'
    <3>1. EventsTo(lineNo') = Len(events')
      BY <1>0, <1>8, <1>9, <1>11, <2>1
    <3>2. \A k \in At : k <= lineNo => EventsTo(k) \in 1..Len(events)
      BY <1>2, <1>9, PlaceOfEvent
    <3>3. \A k \in At : k <= lineNo' => events'[EventsTo(k)] = log[k].event
      BY <1>8, <1>9, <1>10, <1>11, <2>1, <3>1, <3>2
    <3>4. \A n \in 1..Len(events') : \E k \in At : k <= lineNo' /\ EventsTo(k) = n
      BY <1>0, <1>8, <1>9, <1>10, <2>1, <2>2, <3>1
    <3>5. \A k \in 1..lineNo' : log[k].kind \in {"event", "blank"}
      BY <1>2, <1>8, <1>9
    <3> QED BY <1>0, <1>1, <1>8, <3>1, <3>3, <3>4, <3>5 DEF ScanInvariant
  <2> QED BY <1>5, <2>4, <2>5, <2>6, <2>7 DEF IInv
<1> QED BY <1>4, <1>7, <1>8

LEMMA EndOfLogKeepsInv ==
  ASSUME IInv, EndOfLog
  PROVE  IInv'
<1>1. /\ phase = "scan" /\ phase' = "validate" /\ result = Pending /\ lineNo = Len(log)
      /\ UNCHANGED <<sealed, entry, log, faults, lineNo, events, i, result>>
  BY DEF IInv, LoopInvariant, EndOfLog, producerVars, fileVars, verifierVars
<1>2. TypeOK'
  BY <1>1 DEF IInv, TypeOK
<1>3. SealedWellFormed' /\ EventFixesItsPast'
  BY <1>1 DEF IInv, SealedWellFormed, EventFixesItsPast
<1>4. DamageShows'
  BY <1>1 DEF IInv, DamageShows, Genuine, Broken
<1>5. LoopInvariant' /\ ResultInvariant'
  BY <1>1 DEF IInv, LoopInvariant, ResultInvariant, Follows, Pending
<1>6. ScanInvariant'
  BY <1>1, ScanUnchanged
<1> QED BY <1>2, <1>3, <1>4, <1>5, <1>6 DEF IInv

\* The step the theorem rests on: an event that passes both checks behind
\* events that begin producer p's log was sealed by someone, and, since an
\* event fixes its past, begins that producer's log with them.
LEMMA LinkExtendsPrefix ==
  ASSUME IInv, NEW p \in Producers, Follows(p, i), i < Len(events), LinkError(i) = "none"
  PROVE  \E q \in Producers : Follows(q, i + 1)
<1> DEFINE e == events[i + 1]
<1>1. i \in Nat /\ Len(events) \in Nat /\ i + 1 \in 1..Len(events)
  BY IsSeqLen DEF IInv, TypeOK
<1>2. e.prev = PrevHash(events, i) /\ e.cur = CurrentHash(e)
  BY DEF LinkError
<1>3. PrevHash(events, i) \notin {NoString, Garbage}
  BY DigestsDiffer DEF PrevHash, StoredHash
<1>4. Genuine(e)
  BY <1>1, <1>2, <1>3 DEF IInv, DamageShows, Broken
<1>5. PICK q \in Producers : \E j \in 1..Len(sealed[q]) : e = sealed[q][j]
  BY <1>4 DEF Genuine
<1>6. PICK j \in 1..Len(sealed[q]) : e = sealed[q][j]
  BY <1>5
<1>7. e.prev = PrevHash(sealed[q], j - 1)
  BY <1>6 DEF IInv, SealedWellFormed
<1>8. Len(sealed[q]) \in Nat /\ Len(sealed[p]) \in Nat
  BY IsSeqLen DEF IInv, TypeOK
<1>9. CASE i = 0
  <2>1. j = 1
    BY <1>2, <1>7, <1>8, <1>9, DigestsDiffer DEF PrevHash, StoredHash
  <2> QED BY <1>6, <1>8, <1>9, <2>1 DEF Follows
<1>10. CASE i # 0
  <2>1. j # 1 /\ sealed[q][j - 1] = events[i]
    BY <1>1, <1>2, <1>7, <1>8, <1>10, DigestsDiffer DEF PrevHash, StoredHash
  <2>2. i \in 1..Len(sealed[p]) /\ j - 1 \in 1..Len(sealed[q]) /\ sealed[p][i] = events[i]
    BY <1>1, <1>8, <1>10, <2>1 DEF Follows
  <2>3. j - 1 = i /\ \A m \in 1..i : sealed[p][m] = sealed[q][m]
    BY <2>1, <2>2 DEF IInv, EventFixesItsPast
  <2>4. i + 1 = j /\ i + 1 <= Len(sealed[q])
    BY <1>1, <1>8, <2>3
  <2>5. \A m \in 1..(i + 1) : m \in 1..i \/ m = i + 1
    BY <1>1
  <2>6. \A m \in 1..(i + 1) : events[m] = sealed[q][m]
    BY <1>6, <2>3, <2>4, <2>5 DEF Follows
  <2> QED BY <2>4, <2>6 DEF Follows
<1> QED BY <1>9, <1>10

\* No sealed log goes on with an event whose link is broken.
LEMMA BrokenLinkEndsPrefix ==
  ASSUME IInv, i < Len(events), LinkError(i) # "none", NEW p \in Producers
  PROVE  ~Follows(p, i + 1)
<1>1. i \in Nat /\ Len(events) \in Nat /\ Len(sealed[p]) \in Nat
  BY IsSeqLen DEF IInv, TypeOK
<1> SUFFICES ASSUME Follows(p, i + 1)
             PROVE  FALSE
  OBVIOUS
<1>2. i + 1 \in 1..Len(sealed[p]) /\ events[i + 1] = sealed[p][i + 1]
  BY <1>1 DEF Follows
<1>3. events[i + 1].prev = PrevHash(sealed[p], i)
  BY <1>1, <1>2 DEF IInv, SealedWellFormed
<1>4. events[i + 1].cur = CurrentHash(events[i + 1]) /\ events[i + 1].fact # FloatFact
  BY <1>2, ChainAssumption DEF IInv, SealedWellFormed
<1>5. PrevHash(sealed[p], i) = PrevHash(events, i)
  BY <1>1 DEF PrevHash, Follows
<1> QED BY <1>3, <1>4, <1>5 DEF LinkError

LEMMA CheckLinkKeepsInv ==
  ASSUME IInv, CheckLink
  PROVE  IInv'
<1> USE DEF CheckLink, Finish, producerVars, fileVars
<1>1. /\ phase = "validate" /\ i < Len(events) /\ result = Pending
      /\ UNCHANGED <<sealed, entry, log, faults, lineNo, events>>
  BY DEF IInv, LoopInvariant
<1>2. i \in Nat /\ Len(events) \in Nat /\ Len(log) \in Nat /\ i < Len(log)
  BY <1>1, IsSeqLen DEF IInv, TypeOK
<1>3. SealedWellFormed' /\ EventFixesItsPast' /\ DamageShows'
  BY <1>1 DEF IInv, SealedWellFormed, EventFixesItsPast, DamageShows, Genuine, Broken
<1>4. PICK p \in Producers : Follows(p, i)
  BY <1>1 DEF IInv, LoopInvariant
<1>7. ScanInvariant'
  BY <1>1, ScanUnchanged
<1>5. CASE LinkError(i) = "none" /\ i' = i + 1 /\ UNCHANGED <<phase, result>>
  <2>1. PICK q \in Producers : Follows(q, i + 1)
    BY <1>1, <1>4, <1>5, LinkExtendsPrefix
  <2>2. TypeOK'
    BY <1>1, <1>2, <1>5 DEF IInv, TypeOK
  <2>3. LoopInvariant' /\ ResultInvariant'
    BY <1>1, <1>5, <2>1 DEF IInv, LoopInvariant, ResultInvariant, Follows, Pending
  <2> QED BY <1>3, <1>7, <2>2, <2>3 DEF IInv
<1>6. CASE LinkError(i) # "none" /\ UNCHANGED i /\ phase' = "done"
           /\ result' = Fail(LinkError(i), i)
  <2>1. LinkError(i) \in {"prev", "compute", "cur"}
    BY <1>6 DEF LinkError
  <2>2. result'.at = i /\ result'.kind = LinkError(i)
    BY <1>6 DEF Fail
  <2>3. TypeOK'
    BY <1>1, <1>2, <1>6, <2>1, <2>2 DEF IInv, TypeOK
  <2>4. LinkError(i)' = LinkError(i)
    BY <1>1, <1>6 DEF LinkError, PrevHash, StoredHash, CurrentHash
  <2>5. LoopInvariant'
    BY <1>1, <1>4, <1>6 DEF LoopInvariant, Follows
  <2>6. ResultInvariant'
    BY <1>1, <1>6, <2>1, <2>2, <2>4 DEF ResultInvariant
  <2> QED BY <1>3, <1>7, <2>3, <2>5, <2>6 DEF IInv
<1> QED BY <1>5, <1>6

LEMMA ChainHoldsKeepsInv ==
  ASSUME IInv, ChainHolds
  PROVE  IInv'
<1>1. /\ phase = "validate" /\ phase' = "done" /\ i = Len(events) /\ result' = Pass("chain")
      /\ result = Pending
      /\ UNCHANGED <<sealed, entry, log, faults, lineNo, events, i>>
  BY DEF ChainHolds, Finish, producerVars, fileVars, IInv, LoopInvariant
<1>2. result'.at = 0 /\ result'.kind = "chain" /\ Len(log) \in Nat
  BY <1>1, IsSeqLen DEF Pass, IInv, TypeOK
<1>3. TypeOK'
  BY <1>1, <1>2 DEF IInv, TypeOK
<1>4. SealedWellFormed' /\ EventFixesItsPast' /\ DamageShows'
  BY <1>1 DEF IInv, SealedWellFormed, EventFixesItsPast, DamageShows, Genuine, Broken
<1>5. LoopInvariant' /\ ResultInvariant'
  BY <1>1, <1>2 DEF IInv, LoopInvariant, ResultInvariant, Follows
<1>6. ScanInvariant'
  BY <1>1, ScanUnchanged
<1> QED BY <1>3, <1>4, <1>5, <1>6 DEF IInv

-----------------------------------------------------------------------------
\* The theorems.

LEMMA InitEstablishesInv == Init => IInv
<1> SUFFICES ASSUME Init
             PROVE  IInv
  OBVIOUS
<1> USE DEF Init
<1>1. IsSeq(<<>>) /\ Len(<<>>) = 0
  BY SeqIsSeq, EmptySeq
<1>2. \A p \in Producers : sealed[p] = <<>>
  OBVIOUS
<1>3. TypeOK
  BY <1>1, <1>2, ChainAssumption DEF TypeOK, Pending
<1>4. SealedWellFormed /\ EventFixesItsPast /\ DamageShows
  BY <1>1, <1>2 DEF SealedWellFormed, EventFixesItsPast, DamageShows
<1>5. LoopInvariant /\ ResultInvariant
  BY DEF LoopInvariant, ResultInvariant, Pending
<1>6. ScanInvariant
  <2>1. Promise!EventsUpTo(log, 0) = 0
    BY <1>1, CountEvents
  <2>2. \A m \in Promise!EventLines(log) : m \in Nat /\ m >= 1
    BY DEF Promise!EventLines
  <2> QED BY <1>1, <2>1, <2>2 DEF ScanInvariant
<1> QED BY <1>3, <1>4, <1>5, <1>6 DEF IInv

LEMMA NextKeepsInv == IInv /\ [Next]_vars => IInv'
<1> SUFFICES ASSUME IInv, [Next]_vars
             PROVE  IInv'
  OBVIOUS
<1>1. ASSUME NEW p \in Producers, Ship(p)
      PROVE  IInv'
  BY <1>1, ShipKeepsInv
<1>2. ASSUME NEW p \in Producers, NEW f \in Facts, SealEvent(p, f)
      PROVE  IInv'
  BY <1>2, SealKeepsInv
<1>3. CASE Damage
  BY <1>3, DamageKeepsInv
<1>4. CASE OpenLog
  BY <1>4, OpenLogKeepsInv
<1>5. CASE Verify
  BY <1>5, ScanLineKeepsInv, EndOfLogKeepsInv, CheckLinkKeepsInv, ChainHoldsKeepsInv DEF Verify
<1>6. CASE UNCHANGED vars
  <2>1. TypeOK' /\ SealedWellFormed' /\ EventFixesItsPast' /\ DamageShows'
    BY <1>6 DEF vars, IInv, TypeOK, SealedWellFormed, EventFixesItsPast, DamageShows, Genuine,
                Broken, CurrentHash
  <2>2. ScanInvariant'
    BY <1>6, ScanUnchanged DEF vars
  <2>3. LoopInvariant' /\ ResultInvariant'
    BY <1>6 DEF vars, IInv, LoopInvariant, ResultInvariant, Follows, LinkError, CurrentHash,
                PrevHash, StoredHash
  <2> QED BY <2>1, <2>2, <2>3 DEF IInv
<1> QED BY <1>1, <1>2, <1>3, <1>4, <1>5, <1>6 DEF Next, Done

\* IInv holds in every reachable state, whatever is sealed and lost.
THEOREM InvariantHolds == Spec => []IInv
BY InitEstablishesInv, NextKeepsInv, PTL DEF Spec

\* Type correctness of producers, delivered file and verifier.
THEOREM TypesHold == Spec => []TypeOK
<1>1. IInv => TypeOK
  BY DEF IInv
<1> QED BY <1>1, InvariantHolds, PTL

\* ValidateAuditChain accepts nothing but the beginning of one sealed log.
THEOREM AcceptedLogsAreSealed == Spec => []OnlySealedPrefixAccepted
<1>1. IInv => OnlySealedPrefixAccepted
  <2> SUFFICES ASSUME IInv, result.kind = "chain"
               PROVE  \E p \in Producers : Follows(p, Len(events))
    BY DEF OnlySealedPrefixAccepted
  <2>1. i = Len(events) /\ phase # "append"
    BY DEF IInv, LoopInvariant, ResultInvariant, Pending
  <2> QED BY <2>1 DEF IInv, LoopInvariant
<1> QED BY <1>1, InvariantHolds, PTL

\* BrokenAtIndex is the first position at which the log departs from every
\* sealed log.
THEOREM BrokenIndexIsExact == Spec => []BrokenAtFirstDeparture
<1>1. IInv => BrokenAtFirstDeparture
  <2> SUFFICES ASSUME IInv, result.kind \in {"prev", "compute", "cur"}
               PROVE  /\ \E p \in Producers : Follows(p, result.at)
                      /\ \A p \in Producers : ~Follows(p, result.at + 1)
    BY DEF BrokenAtFirstDeparture
  <2>1. result.at = i /\ i < Len(events) /\ LinkError(i) # "none" /\ phase # "append"
    BY DEF IInv, LoopInvariant, ResultInvariant, Pending
  <2>3. \A p \in Producers : ~Follows(p, i + 1)
    BY <2>1, BrokenLinkEndsPrefix
  <2>4. \E p \in Producers : Follows(p, i)
    BY <2>1 DEF IInv, LoopInvariant
  <2> QED BY <2>1, <2>3, <2>4
<1> QED BY <1>1, InvariantHolds, PTL

\* An event as its producer sealed it is never reported for its own hash.
THEOREM OwnHashBlamesTheAltered == Spec => []CurrentHashBlamesAlteredEvent
<1>1. IInv => CurrentHashBlamesAlteredEvent
  <2> SUFFICES ASSUME IInv, result.kind = "cur", Genuine(events[result.at + 1])
               PROVE  FALSE
    BY DEF CurrentHashBlamesAlteredEvent
  <2>1. result.at = i /\ LinkError(i) = "cur"
    BY DEF IInv, ResultInvariant
  <2>2. events[i + 1].cur # CurrentHash(events[i + 1])
    BY <2>1 DEF LinkError
  <2> QED BY <2>1, <2>2 DEF Genuine, IInv, SealedWellFormed
<1> QED BY <1>1, InvariantHolds, PTL

\* A parse error names the first line that is no JSON object, and every line
\* before it was read.
THEOREM ParseErrorsAreLocated == Spec => []ParseErrorAtFirstBadLine
<1>1. IInv => ParseErrorAtFirstBadLine
  <2> SUFFICES ASSUME IInv, result.kind = "malformed"
               PROVE  /\ result.at \in DOMAIN log
                      /\ log[result.at].kind = "malformed"
                      /\ \A k \in 1..(result.at - 1) : log[k].kind \in {"event", "blank"}
    BY DEF ParseErrorAtFirstBadLine
  <2>1. result.at = lineNo /\ lineNo > 0 /\ log[lineNo].kind = "malformed"
    BY DEF IInv, ResultInvariant
  <2>2. DOMAIN log = 1..Len(log) /\ Len(log) \in Nat /\ lineNo \in 0..Len(log)
    BY LenProperties, IsSeqLen DEF IInv, TypeOK, IsSeq
  <2>3. \A k \in 1..(lineNo - 1) : k \in 1..lineNo /\ k # lineNo
    BY <2>2
  <2> QED BY <2>1, <2>2, <2>3 DEF IInv, ScanInvariant
<1> QED BY <1>1, InvariantHolds, PTL

-----------------------------------------------------------------------------
\* The refinement: scanner and loop judge as the promise says.

\* The greatest element of a set of numbers.
LEMMA MaxIs ==
  ASSUME NEW S, \A k \in S : k \in Int, NEW m \in S, \A k \in S : k <= m
  PROVE  Promise!Max(S) = m
<1>1. \A k \in S : m >= k
  OBVIOUS
<1>2. Promise!Max(S) \in S /\ \A k \in S : Promise!Max(S) >= k
  BY <1>1 DEF Promise!Max
<1> QED BY <1>2

\* When the loop starts, the scanner has the events of the file.
LEMMA ScannedAll ==
  ASSUME IInv, phase = "validate"
  PROVE  /\ Promise!EventsIn(log) = events
         /\ Promise!Readable(log)
<1> DEFINE At == Promise!EventLines(log)
           UpTo(k) == Promise!EventsUpTo(log, k)
<1>1. lineNo = Len(log) /\ Len(log) \in Nat /\ result.kind = "pending"
  BY IsSeqLen DEF IInv, TypeOK, LoopInvariant, Pending
<1>2. \A k \in At : k \in 1..Len(log) /\ k <= Len(log)
  BY <1>1 DEF Promise!EventLines
<1>3. /\ Len(events) = UpTo(Len(log))
      /\ \A k \in At : events[UpTo(k)] = log[k].event
      /\ \A n \in 1..Len(events) : \E k \in At : UpTo(k) = n
  BY <1>1, <1>2 DEF IInv, ScanInvariant
<1>4. Promise!Cardinality(At) = Len(events)
  <2>1. At = {m \in At : m <= Len(log)}
    BY <1>2
  <2>2. UpTo(Len(log)) = Promise!Cardinality({m \in At : m <= Len(log)})
    BY DEF Promise!EventsUpTo
  <2> HIDE DEF At
  <2> QED BY <2>1, <2>2, <1>3
<1>5. ASSUME NEW n \in 1..Len(events)
      PROVE  log[CHOOSE k \in At : UpTo(k) = n].event = events[n]
  <2> DEFINE k0 == CHOOSE k \in At : UpTo(k) = n
  <2>1. k0 \in At /\ UpTo(k0) = n
    BY <1>3, <1>5
  <2> HIDE DEF k0
  <2> QED BY <1>3, <2>1 DEF k0
<1>6. events = [n \in 1..Len(events) |-> events[n]]
  BY LenProperties DEF IInv, TypeOK, IsSeq
<1>7. Promise!EventsIn(log) = [n \in 1..Len(events) |-> log[CHOOSE k \in At : UpTo(k) = n].event]
  BY <1>4 DEF Promise!EventsIn
<1>8. Promise!Readable(log)
  BY <1>1 DEF IInv, ScanInvariant, Promise!Readable
<1> QED BY <1>5, <1>6, <1>7, <1>8

\* Beginning a log, in the words of the promise and of the invariant.
LEMMA BeginsFollows ==
  ASSUME IInv, NEW n \in 0..Len(events)
  PROVE  Promise!Begins(events, n) <=> \E p \in Producers : Follows(p, n)
<1> SUFFICES ASSUME NEW p \in Producers
             PROVE  Promise!IsPrefix(SubSeq(events, 1, n), sealed[p]) <=> Follows(p, n)
  BY DEF Promise!Begins
<1>1. events \in Seq(Range(events)) /\ Len(events) \in Nat /\ IsSeq(sealed[p])
  BY IsSeqLen DEF IInv, TypeOK, IsSeq
<1>2. \A k \in 1..n : events[k] \in Range(events)
  BY <1>1, ElementOfSeq
<1> DEFINE s == SubSeq(events, 1, n)
<1>3. s \in Seq(Range(events)) /\ Len(s) = n /\ \A k \in 1..n : s[k] = events[k]
  BY <1>1, <1>2, SubSeqProperties
<1> HIDE DEF s
<1>4. IsPrefix(s, sealed[p]) <=> Len(s) <= Len(sealed[p]) /\ \A k \in 1..Len(s) : s[k] = sealed[p][k]
  BY <1>1, <1>3, SeqIsSeq, PrefixElements
<1>5. Promise!IsPrefix(s, sealed[p]) <=> IsPrefix(s, sealed[p])
  BY DEF Promise!IsPrefix, IsPrefix
<1> QED BY <1>3, <1>4, <1>5 DEF s, Follows

\* How far the file begins a sealed log is where the loop ends.
LEMMA LongestBeginning ==
  ASSUME IInv, phase = "validate", i = Len(events) \/ LinkError(i) # "none"
  PROVE  Promise!Max({k \in 0..Len(events) : Promise!Begins(events, k)}) = i
<1>1. i \in 0..Len(events) /\ Len(events) \in Nat
  BY IsSeqLen DEF IInv, TypeOK
<1>2. Promise!Begins(events, i)
  BY <1>1, BeginsFollows DEF IInv, LoopInvariant
<1>3. ASSUME NEW k \in 0..Len(events), Promise!Begins(events, k), k > i
      PROVE  FALSE
  <2>1. PICK p \in Producers : Follows(p, k)
    BY <1>3, BeginsFollows
  <2>2. Len(sealed[p]) \in Nat
    BY IsSeqLen DEF IInv, TypeOK
  <2>3. Follows(p, i + 1)
    BY <1>1, <1>3, <2>1, <2>2 DEF Follows
  <2>4. i < Len(events) /\ LinkError(i) # "none"
    BY <1>1, <1>3
  <2> QED BY <2>3, <2>4, BrokenLinkEndsPrefix
<1> DEFINE S == {k \in 0..Len(events) : Promise!Begins(events, k)}
<1>4. i \in S /\ (\A k \in S : k \in Int) /\ \A k \in S : k <= i
  BY <1>1, <1>2, <1>3
<1> HIDE DEF S
<1> QED BY <1>4, MaxIs DEF S

LEMMA InitKeepsPromise == Init => Promise!Init
BY DEF Init, Promise!Init, Verdict, Pending, Promise!Undecided

\* Sealing, shipping and damage are deliveries.
LEMMA SealDelivers ==
  ASSUME IInv, NEW p \in Producers, NEW f \in Facts, SealEvent(p, f)
  PROVE  Promise!Deliver
<1>1. sealed' = [sealed EXCEPT ![p] = Append(sealed[p], SealedEvent(sealed[p], f))]
  BY DEF SealEvent
<1>2. result' = result /\ result = Pending
  BY DEF SealEvent, verifierVars, IInv, LoopInvariant
<1>3. ASSUME NEW q \in Producers
      PROVE  Promise!IsPrefix(sealed[q], sealed'[q])
  <2>1. IsSeq(sealed[q]) /\ Len(sealed[q]) \in Nat /\ q \in DOMAIN sealed
    BY IsSeqLen DEF IInv, TypeOK
  <2>2. /\ IsSeq(sealed'[q])
        /\ Len(sealed[q]) <= Len(sealed'[q])
        /\ \A k \in 1..Len(sealed[q]) : sealed[q][k] = sealed'[q][k]
    BY <1>1, <2>1, Grow
  <2>3. IsPrefix(sealed[q], sealed'[q])
    BY <2>1, <2>2, PrefixElements
  <2> QED BY <2>3 DEF Promise!IsPrefix, IsPrefix
<1>4. Verdict = Promise!Undecided /\ Verdict' = Verdict
  BY <1>2 DEF Verdict, Pending, Promise!Undecided
<1> QED BY <1>3, <1>4 DEF Promise!Deliver

LEMMA ShipmentDelivers ==
  ASSUME IInv, (\E p \in Producers : Ship(p)) \/ Damage
  PROVE  Promise!Deliver
<1>1. UNCHANGED <<sealed, result>> /\ result = Pending
  BY DEF Ship, Damage, LoseEntry, LoseLine, TruncateAfter, SwapWithNext, StrayLine, AlterLine,
         GarbleLine, Fault, producerVars, verifierVars, IInv, LoopInvariant
<1>2. \A q \in Producers : Promise!IsPrefix(sealed[q], sealed'[q])
  <2>1. \A q \in Producers : Len(sealed[q]) \in Nat
    BY IsSeqLen DEF IInv, TypeOK
  <2> QED BY <1>1, <2>1 DEF Promise!IsPrefix
<1>3. Verdict = Promise!Undecided /\ Verdict' = Verdict
  BY <1>1 DEF Verdict, Pending, Promise!Undecided
<1> QED BY <1>2, <1>3 DEF Promise!Deliver

\* A step of the verifier that comes to no result leaves the promise where it
\* is.
LEMMA SilentStep ==
  ASSUME UNCHANGED <<sealed, entry, log, result>>
  PROVE  UNCHANGED Promise!vars
BY DEF Promise!vars, Verdict

\* One that comes to a result judges.
LEMMA OpenLogJudges ==
  ASSUME IInv, OpenLog
  PROVE  Promise!Judge \/ UNCHANGED Promise!vars
<1>1. UNCHANGED <<sealed, entry, log>> /\ result = Pending
  BY DEF OpenLog, producerVars, fileVars, IInv, LoopInvariant
<1>2. CASE entry = "present" /\ result' = result
  BY <1>1, <1>2, SilentStep
<1>3. CASE entry = "absent" /\ result' = Pass("absent")
  <2>1. Promise!Judgement = Promise!Accepted
    BY <1>3 DEF Promise!Judgement
  <2>2. Verdict' = Promise!Accepted /\ Verdict = Promise!Undecided
    BY <1>1, <1>3 DEF Verdict, Pending, Pass, Promise!Accepted, Promise!Undecided
  <2> QED BY <1>1, <2>1, <2>2 DEF Promise!Judge
<1>4. CASE entry = "unreadable" /\ result' = Fail("unreadable", 0)
  <2>1. Promise!Judgement = Promise!Unreadable
    BY <1>4 DEF Promise!Judgement
  <2>2. Verdict' = Promise!Unreadable /\ Verdict = Promise!Undecided
    BY <1>1, <1>4 DEF Verdict, Pending, Fail, Promise!Unreadable, Promise!Undecided
  <2> QED BY <1>1, <2>1, <2>2 DEF Promise!Judge
<1> QED BY <1>2, <1>3, <1>4 DEF OpenLog, Finish

LEMMA ScanLineJudges ==
  ASSUME IInv, ScanLine
  PROVE  Promise!Judge \/ UNCHANGED Promise!vars
<1>1. UNCHANGED <<sealed, entry, log>> /\ result = Pending /\ entry = "present"
  BY DEF ScanLine, producerVars, fileVars, IInv, LoopInvariant
<1>2. CASE result' = result
  BY <1>1, <1>2, SilentStep
<1>3. CASE /\ log[lineNo + 1].kind \in {"malformed", "tooLong"}
           /\ \/ result' = Fail("malformed", lineNo + 1)
              \/ result' = Fail("tooLong", 0)
  <2>1. lineNo + 1 \in 1..Len(log)
    BY IsSeqLen DEF ScanLine, IInv, TypeOK
  <2>2. ~Promise!Readable(log)
    BY <1>3, <2>1 DEF Promise!Readable
  <2>3. Promise!Judgement = Promise!Unreadable
    BY <1>1, <2>2 DEF Promise!Judgement
  <2>4. Verdict' = Promise!Unreadable /\ Verdict = Promise!Undecided
    BY <1>1, <1>3 DEF Verdict, Pending, Fail, Promise!Unreadable, Promise!Undecided
  <2> QED BY <1>1, <2>3, <2>4 DEF Promise!Judge
<1> QED BY <1>2, <1>3 DEF ScanLine, Finish, MalformedAt

LEMMA CheckLinkJudges ==
  ASSUME IInv, CheckLink
  PROVE  Promise!Judge \/ UNCHANGED Promise!vars
<1>1. /\ UNCHANGED <<sealed, entry, log>> /\ result = Pending /\ entry = "present"
      /\ phase = "validate" /\ i < Len(events)
  BY DEF CheckLink, producerVars, fileVars, IInv, LoopInvariant
<1>2. CASE result' = result
  BY <1>1, <1>2, SilentStep
<1>3. CASE LinkError(i) # "none" /\ result' = Fail(LinkError(i), i)
  <2>1. Promise!Max({k \in 0..Len(events) : Promise!Begins(events, k)}) = i
    BY <1>1, <1>3, LongestBeginning
  <2>2. i # Len(events)
    BY <1>1, IsSeqLen DEF IInv, TypeOK
  <2>3. Promise!Judgement = Promise!BrokenAt(i)
    BY <1>1, <2>1, <2>2, ScannedAll DEF Promise!Judgement
  <2>4. LinkError(i) \in {"prev", "compute", "cur"}
    BY <1>3 DEF LinkError
  <2>5. Verdict' = Promise!BrokenAt(i) /\ Verdict = Promise!Undecided
    BY <1>1, <1>3, <2>4 DEF Verdict, Pending, Fail, Promise!BrokenAt, Promise!Undecided
  <2> QED BY <1>1, <2>3, <2>5 DEF Promise!Judge
<1> QED BY <1>2, <1>3 DEF CheckLink, Finish

LEMMA ChainHoldsJudges ==
  ASSUME IInv, ChainHolds
  PROVE  Promise!Judge
<1>1. /\ UNCHANGED <<sealed, entry, log>> /\ result = Pending /\ entry = "present"
      /\ phase = "validate" /\ i = Len(events) /\ result' = Pass("chain")
  BY DEF ChainHolds, Finish, producerVars, fileVars, IInv, LoopInvariant
<1>2. Promise!Max({k \in 0..Len(events) : Promise!Begins(events, k)}) = Len(events)
  BY <1>1, LongestBeginning
<1>3. Promise!Judgement = Promise!Accepted
  BY <1>1, <1>2, ScannedAll DEF Promise!Judgement
<1>4. Verdict' = Promise!Accepted /\ Verdict = Promise!Undecided
  BY <1>1 DEF Verdict, Pending, Pass, Promise!Accepted, Promise!Undecided
<1> QED BY <1>1, <1>3, <1>4 DEF Promise!Judge

LEMMA NextKeepsPromise ==
  ASSUME IInv, [Next]_vars
  PROVE  [Promise!Next]_(Promise!vars)
<1>1. ASSUME NEW p \in Producers, NEW f \in Facts, SealEvent(p, f)
      PROVE  Promise!Next
  BY <1>1, SealDelivers DEF Promise!Next
<1>2. CASE (\E p \in Producers : Ship(p)) \/ Damage
  BY <1>2, ShipmentDelivers DEF Promise!Next
<1>3. CASE OpenLog
  BY <1>3, OpenLogJudges DEF Promise!Next
<1>4. CASE ScanLine
  BY <1>4, ScanLineJudges DEF Promise!Next
<1>5. CASE EndOfLog
  BY <1>5, SilentStep DEF EndOfLog, producerVars, fileVars, verifierVars
<1>6. CASE CheckLink
  BY <1>6, CheckLinkJudges DEF Promise!Next
<1>7. CASE ChainHolds
  BY <1>7, ChainHoldsJudges DEF Promise!Next
<1>8. CASE UNCHANGED vars
  BY <1>8, SilentStep DEF vars
<1> QED BY <1>1, <1>2, <1>3, <1>4, <1>5, <1>6, <1>7, <1>8 DEF Next, Verify, Done

\* parseAuditEventsJSONL and ValidateAuditChain implement the promise: what they
\* conclude about a delivered file is how far it begins one of the sealed logs,
\* and until they do nothing is concluded.
THEOREM ChecksKeepThePromise == Spec => KeepsPromise
BY InitKeepsPromise, NextKeepsPromise, InvariantHolds, PTL DEF Spec, KeepsPromise, Promise!Spec
=============================================================================
