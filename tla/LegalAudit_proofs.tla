-------------------------- MODULE LegalAudit_proofs --------------------------
(***************************************************************************)
(* Proofs about the Legal-Pack's audit chain for every set of producers,   *)
(* signing or not, every set of facts, and every number of events and      *)
(* damages.  The invariant IInv of LegalAudit is inductive; the safety     *)
(* properties follow from it.                                              *)
(***************************************************************************)
EXTENDS LegalAudit, CommonTheorems, TLAPS

-----------------------------------------------------------------------------
\* Entries and lines.

\* An entry is its four fields, of which the hashes cover three.
LEMMA EntryFields ==
  ASSUME NEW f, NEW o, NEW p, NEW s
  PROVE  /\ Entry(f, o, p, s).fact = f
         /\ Entry(f, o, p, s).other = o
         /\ Entry(f, o, p, s).prev = p
         /\ Entry(f, o, p, s).self = s
         /\ f \in Facts \cup {FloatFact} /\ o \in Others => IsEntry(Entry(f, o, p, s))
BY DEF Entry, IsEntry

\* An entry whose hashes are overwritten.
LEMMA OverwrittenEntry ==
  ASSUME NEW e, IsEntry(e), NEW h, NEW g
  PROVE  [e EXCEPT !.prev = h, !.self = g] = Entry(e.fact, e.other, h, g)
<1>1. e = Entry(e.fact, e.other, e.prev, e.self)
  BY DEF IsEntry
<1>2. [e EXCEPT !.prev = h] = Entry(e.fact, e.other, h, e.self)
  BY <1>1 DEF Entry
<1>3. [Entry(e.fact, e.other, h, e.self) EXCEPT !.self = g] = Entry(e.fact, e.other, h, g)
  BY DEF Entry
<1> QED BY <1>2, <1>3

\* An entry line is its entry.
LEMMA EntryLineFields ==
  ASSUME NEW e
  PROVE  /\ EntryLine(e).kind = "entry"
         /\ EntryLine(e).entry = e
         /\ IsEntry(e) => IsLine(EntryLine(e))
BY DEF EntryLine, IsLine

\* The lines that hold no entry.
LEMMA OtherLines ==
  ASSUME NEW l \in {BlankLine, MalformedLine, TooLongLine}
  PROVE  IsLine(l) /\ l.kind \in {"blank", "malformed", "tooLong"}
BY DEF BlankLine, MalformedLine, TooLongLine, IsLine

\* Equal self hashes are those of equal facts and links.
LEMMA SelfHashFixesEntry ==
  ASSUME NEW f, NEW g, NEW p, NEW h
  PROVE  /\ SelfHashOf(f, p) = SelfHashOf(g, h) => f = g /\ p = h
         /\ SelfHashOf(f, p) \notin {NoString, Garbage}
<1>1. [fact |-> f, prev |-> p] = [fact |-> g, prev |-> h] => f = g /\ p = h
  <2>1. /\ [fact |-> f, prev |-> p].fact = f /\ [fact |-> f, prev |-> p].prev = p
        /\ [fact |-> g, prev |-> h].fact = g /\ [fact |-> g, prev |-> h].prev = h
    OBVIOUS
  <2> QED BY <2>1
<1> QED BY <1>1, DigestsDiffer DEF SelfHashOf

-----------------------------------------------------------------------------
\* Counting entry lines.

\* Up to the next line there is one entry line more if that is one.
LEMMA CountEntries ==
  ASSUME Len(log) \in Nat
  PROVE  /\ EntriesUpTo(0) = 0
         /\ \A n \in Nat :
              /\ EntriesUpTo(n) \in Nat
              /\ EntriesUpTo(n + 1) = IF n + 1 \in EntryLines THEN EntriesUpTo(n) + 1
                                                              ELSE EntriesUpTo(n)
<1>1. \A m \in EntryLines : m \in Nat /\ m >= 1
  BY DEF EntryLines
<1> QED BY <1>1, CountUpTo DEF EntriesUpTo

\* The place of an entry line among those up to line n.
LEMMA PlaceOfEntry ==
  ASSUME Len(log) \in Nat, NEW n \in Nat, NEW k \in EntryLines, k <= n
  PROVE  EntriesUpTo(k) \in 1..EntriesUpTo(n)
<1>1. \A m \in EntryLines : m \in Nat /\ m >= 1
  BY DEF EntryLines
<1>2. EntriesUpTo(k) <= EntriesUpTo(n)
  BY <1>1, CountGrows DEF EntriesUpTo
<1>3. k - 1 \in Nat /\ (k - 1) + 1 = k
  BY <1>1
<1>4. EntriesUpTo(k) = EntriesUpTo(k - 1) + 1 /\ EntriesUpTo(k - 1) \in Nat
  BY <1>3, CountEntries
<1>5. EntriesUpTo(n) \in Nat
  BY CountEntries
<1> QED BY <1>2, <1>4, <1>5

\* A step that leaves the file alone leaves its entry lines alone.
LEMMA SameLinesSameCount ==
  ASSUME log' = log
  PROVE  EntryLines' = EntryLines /\ \A k : EntriesUpTo(k)' = EntriesUpTo(k)
<1>1. EntryLines' = EntryLines
  BY DEF EntryLines
<1> QED BY <1>1 DEF EntriesUpTo

-----------------------------------------------------------------------------
\* Producers.

\* What a producer appends is well formed, and what it signs fixes what stands
\* before it.
LEMMA AppendKeepsInv ==
  ASSUME IInv, NEW p \in Producers, NEW f \in Facts, AppendAudit(p, f)
  PROVE  IInv'
<1> DEFINE s == sealed[p]
           e == IF p \in Signing THEN SignedEntry(s, f) ELSE UnsignedEntry(f)
<1>1. /\ phase = "append" /\ phase' = phase
      /\ sealed' = [sealed EXCEPT ![p] = Append(s, e)]
      /\ UNCHANGED <<entry, log, faults, lineNo, entries, signed, i, prev, result>>
  BY DEF AppendAudit, fileVars, verifierVars
<1>2. IsSeq(s) /\ DOMAIN sealed = Producers /\ Len(s) \in Nat
  BY IsSeqLen DEF IInv, TypeOK
<1>3. /\ IsSeq(sealed'[p])
      /\ Len(sealed'[p]) = Len(s) + 1
      /\ sealed'[p][Len(s) + 1] = e
      /\ \A k \in 1..Len(s) : sealed'[p][k] = s[k]
  BY <1>1, <1>2, Grow
<1>4. \A q \in Producers : q # p => sealed'[q] = sealed[q]
  BY <1>1, <1>2
<1>5. DOMAIN sealed' = Producers
  BY <1>1, <1>2
<1>6. /\ IsEntry(e) /\ e.fact = f
      /\ p \in Signing => e.prev = LastSelfHash(s, Len(s)) /\ e.self = computeSelfHash(e)
      /\ p \notin Signing => e.self = NoString
  <2>1. "none" \in Others
    BY DEF Others
  <2>2. CASE p \notin Signing
    BY <2>1, <2>2, EntryFields DEF UnsignedEntry
  <2>3. CASE p \in Signing
    <3> DEFINE h == LastSelfHash(s, Len(s))
    <3>1. s = <<>> <=> Len(s) = 0
      BY <1>2, EmptySeq DEF IsSeq
    <3>2. e = Entry(f, "none", h, SelfHashOf(f, h))
      BY <2>3, <3>1 DEF SignedEntry, LastSelfHash
    <3> HIDE DEF e, h
    <3>3. e.fact = f /\ e.prev = h /\ e.self = SelfHashOf(f, h) /\ IsEntry(e)
      BY <3>2, <2>1, EntryFields
    <3> QED BY <2>3, <3>3 DEF computeSelfHash, h
  <2> QED BY <2>2, <2>3
<1> HIDE DEF e
<1>7. \A q \in Producers : \A j \in 1..Len(sealed[q]) :
        j \in 1..Len(sealed'[q]) /\ sealed'[q][j] = sealed[q][j]
  BY <1>2, <1>3, <1>4
<1>8. \A q \in Producers : \A j \in 1..Len(sealed'[q]) :
        \/ j \in 1..Len(sealed[q]) /\ sealed'[q][j] = sealed[q][j]
        \/ q = p /\ j = Len(s) + 1 /\ sealed'[q][j] = e
  BY <1>2, <1>3, <1>4
<1>9. \A q \in Producers : IsSeq(sealed[q]) /\ Len(sealed[q]) \in Nat
  BY IsSeqLen DEF IInv, TypeOK
<1>10. Signing \subseteq Producers
  BY LegalAuditAssumption
<1>11. TypeOK'
  <2>1. \A q \in Producers : IsSeq(sealed'[q])
    BY <1>3, <1>4, <1>9
  <2>2. \A q \in Producers : \A j \in 1..Len(sealed'[q]) : IsEntry(sealed'[q][j])
    BY <1>6, <1>8 DEF IInv, TypeOK
  <2> QED BY <1>1, <1>5, <2>1, <2>2 DEF IInv, TypeOK
<1>12. SealedWellFormed'
  <2>1. ASSUME NEW q \in Signing, NEW j \in 1..Len(sealed'[q])
        PROVE  /\ sealed'[q][j].fact \in Facts
               /\ sealed'[q][j].prev = LastSelfHash(sealed'[q], j - 1)
               /\ sealed'[q][j].self = computeSelfHash(sealed'[q][j])
    <3>1. CASE j \in 1..Len(sealed[q]) /\ sealed'[q][j] = sealed[q][j]
      <4>1. LastSelfHash(sealed'[q], j - 1) = LastSelfHash(sealed[q], j - 1)
        BY <1>7, <1>9, <1>10, <3>1 DEF LastSelfHash
      <4> QED BY <3>1, <4>1 DEF IInv, SealedWellFormed
    <3>2. CASE q = p /\ j = Len(s) + 1 /\ sealed'[q][j] = e
      <4>1. LastSelfHash(sealed'[p], Len(s)) = LastSelfHash(s, Len(s))
        BY <1>2, <1>3 DEF LastSelfHash
      <4>2. j - 1 = Len(s)
        BY <1>2, <3>2
      <4> QED BY <1>6, <3>2, <4>1, <4>2
    <3> QED BY <1>8, <1>10, <3>1, <3>2
  <2>2. ASSUME NEW q \in Producers \ Signing, NEW j \in 1..Len(sealed'[q])
        PROVE  sealed'[q][j].self = NoString
    BY <1>6, <1>8 DEF IInv, SealedWellFormed
  <2>3. \A x : computeSelfHash(x)' = computeSelfHash(x)
    BY DEF computeSelfHash, SelfHashOf, SHA256
  <2> QED BY <2>1, <2>2, <2>3 DEF SealedWellFormed, LastSelfHash, computeSelfHash, SelfHashOf
<1>13. ASSUME p \in Signing, NEW q \in Signing, NEW j \in 1..Len(sealed[q]),
              sealed[q][j].self = e.self
       PROVE  /\ j = Len(s) + 1 /\ Covered(sealed[q][j]) = Covered(e)
              /\ \A m \in 1..Len(s) : Covered(sealed[q][m]) = Covered(s[m])
  <2> DEFINE g == sealed[q][j]
  <2>1. /\ g.prev = LastSelfHash(sealed[q], j - 1) /\ g.self = SelfHashOf(g.fact, g.prev)
        /\ e.prev = LastSelfHash(s, Len(s)) /\ e.self = SelfHashOf(e.fact, e.prev)
    BY <1>6, <1>13 DEF IInv, SealedWellFormed, computeSelfHash
  <2>2. g.fact = e.fact /\ g.prev = e.prev
    <3>1. SelfHashOf(g.fact, g.prev) = SelfHashOf(e.fact, e.prev)
      BY <1>13, <2>1
    <3> HIDE DEF g
    <3> QED BY <3>1, SelfHashFixesEntry
  <2>3. \A r \in Signing : \A m \in 1..Len(sealed[r]) : sealed[r][m].self # NoString
    BY SelfHashFixesEntry DEF IInv, SealedWellFormed, computeSelfHash
  <2>4. CASE Len(s) = 0
    <3>1. g.prev = NoString
      BY <2>1, <2>2, <2>4 DEF LastSelfHash
    <3>2. j = 1
      <4>1. SUFFICES ASSUME j # 1
                     PROVE  FALSE
        OBVIOUS
      <4>2. j - 1 \in 1..Len(sealed[q]) /\ j - 1 # 0
        BY <1>9, <1>10, <4>1
      <4> QED BY <2>1, <2>3, <3>1, <4>2 DEF LastSelfHash
    <3> QED BY <1>13, <2>2, <2>4, <3>2 DEF Covered
  <2>5. CASE Len(s) # 0
    <3>1. Len(s) \in 1..Len(sealed[p])
      BY <1>2, <2>5
    <3>2. e.prev = s[Len(s)].self /\ e.prev # NoString
      BY <1>13, <2>1, <2>3, <2>5, <3>1 DEF LastSelfHash
    <3>3. j - 1 # 0
      BY <2>1, <2>2, <3>2 DEF LastSelfHash
    <3>4. j - 1 \in 1..Len(sealed[q])
      BY <1>9, <1>10, <3>3
    <3>5. sealed[q][j - 1].self = sealed[p][Len(s)].self
      BY <2>1, <2>2, <3>2, <3>3 DEF LastSelfHash
    <3>6. j - 1 = Len(s) /\ \A m \in 1..(j - 1) : Covered(sealed[q][m]) = Covered(s[m])
      BY <1>13, <3>1, <3>4, <3>5 DEF IInv, HashFixesThePast
    <3> QED BY <1>2, <1>13, <2>2, <3>4, <3>6 DEF Covered
  <2> QED BY <2>4, <2>5
<1>14. HashFixesThePast'
  <2> SUFFICES ASSUME NEW q \in Signing, NEW r \in Signing,
                      NEW j \in 1..Len(sealed'[q]), NEW k \in 1..Len(sealed'[r]),
                      sealed'[q][j].self = sealed'[r][k].self
               PROVE  j = k /\ \A m \in 1..j : Covered(sealed'[q][m]) = Covered(sealed'[r][m])
    BY DEF HashFixesThePast, Covered
  <2> DEFINE Old(a, x) == x \in 1..Len(sealed[a]) /\ sealed'[a][x] = sealed[a][x]
             New(a, x) == a = p /\ x = Len(s) + 1 /\ sealed'[a][x] = e
  <2>1. CASE Old(q, j) /\ Old(r, k)
    <3>1. sealed[q][j].self = sealed[r][k].self /\ j \in 1..Len(sealed[q]) /\ k \in 1..Len(sealed[r])
      BY <2>1
    <3>2. j = k /\ \A m \in 1..j : Covered(sealed[q][m]) = Covered(sealed[r][m])
      BY <3>1 DEF IInv, HashFixesThePast
    <3>3. \A m \in 1..j : m \in 1..Len(sealed[q]) /\ m \in 1..Len(sealed[r])
      BY <1>9, <1>10, <3>1, <3>2
    <3> QED BY <1>7, <1>10, <3>2, <3>3
  <2>2. CASE New(q, j) /\ Old(r, k)
    <3>1. /\ k = Len(s) + 1 /\ Covered(sealed[r][k]) = Covered(e)
          /\ \A m \in 1..Len(s) : Covered(sealed[r][m]) = Covered(s[m])
      BY <1>13, <2>2
    <3>2. \A m \in 1..Len(s) : Covered(sealed'[r][m]) = Covered(sealed'[q][m])
      BY <1>2, <1>3, <1>7, <1>9, <1>10, <2>2, <3>1
    <3>3. \A m \in 1..j : m \in 1..Len(s) \/ m = j
      BY <1>2, <2>2
    <3> QED BY <2>2, <3>1, <3>2, <3>3
  <2>3. CASE Old(q, j) /\ New(r, k)
    <3>1. /\ j = Len(s) + 1 /\ Covered(sealed[q][j]) = Covered(e)
          /\ \A m \in 1..Len(s) : Covered(sealed[q][m]) = Covered(s[m])
      BY <1>13, <2>3
    <3>2. \A m \in 1..Len(s) : Covered(sealed'[r][m]) = Covered(sealed'[q][m])
      BY <1>2, <1>3, <1>7, <1>9, <1>10, <2>3, <3>1
    <3>3. \A m \in 1..j : m \in 1..Len(s) \/ m = j
      BY <1>2, <3>1
    <3> QED BY <2>3, <3>1, <3>2, <3>3
  <2>4. CASE New(q, j) /\ New(r, k)
    BY <2>4
  <2> QED BY <1>8, <1>10, <2>1, <2>2, <2>3, <2>4
<1>15. NoForgedHash'
  <2>1. \A x : HashOfSomebody(x) => HashOfSomebody(x)'
    BY <1>7, <1>10 DEF HashOfSomebody
  <2>2. EntryLines' = EntryLines
    BY <1>1 DEF EntryLines
  <2> QED BY <1>1, <2>1, <2>2 DEF IInv, NoForgedHash
<1>16. ScanInvariant'
  BY <1>1, SameLinesSameCount DEF IInv, ScanInvariant
<1>17. LoopInvariant' /\ ResultInvariant'
  <2>1. i = 0 /\ result = Pending
    BY <1>1 DEF IInv, LoopInvariant
  <2> QED BY <1>1, <2>1 DEF IInv, LoopInvariant, ResultInvariant, LastSelfHash, Pending
<1> QED BY <1>11, <1>12, <1>14, <1>15, <1>16, <1>17 DEF IInv

-----------------------------------------------------------------------------
\* Shipping and damage.

\* What a line may be on the way: no entry, or one with a hash that somebody
\* computed or with none.
Harmless(l) == IsLine(l) /\ (l.kind = "entry" => HashOfSomebody(l.entry))

\* A delivery whose lines are all harmless leaves the rest of the invariant.
LEMMA DeliveryKeepsInv ==
  ASSUME IInv, phase' \in {"append", "transit"}, phase \in {"append", "transit"},
         UNCHANGED <<sealed, lineNo, entries, signed, i, prev, result>>,
         faults' \in 0..MaxFaults, entry' \in {"present", "unreadable"},
         NEW S, log' \in Seq(S), \A l \in S : Harmless(l)
  PROVE  IInv'
<1>1. result = Pending /\ lineNo = 0 /\ entries = <<>> /\ ~signed /\ i = 0
  BY DEF IInv, LoopInvariant
<1>2. IsSeq(log') /\ Len(log') \in Nat /\ \A k \in 1..Len(log') : Harmless(log'[k])
  BY SeqIsSeq
<1>3. TypeOK'
  BY <1>1, <1>2 DEF IInv, TypeOK, Pending, Harmless
<1>4. SealedWellFormed' /\ HashFixesThePast'
  BY DEF IInv, SealedWellFormed, HashFixesThePast, LastSelfHash, computeSelfHash, Covered
<1>5. \A x : HashOfSomebody(x)' = HashOfSomebody(x)
  BY DEF HashOfSomebody
<1>6. Len(entries) = 0
  BY <1>1, EmptySeq
<1>7. NoForgedHash'
  BY <1>1, <1>2, <1>5, <1>6 DEF NoForgedHash, Harmless, EntryLines
<1>8. ScanInvariant'
  <2>1. \A m \in EntryLines' : m \in Nat /\ m >= 1
    BY DEF EntryLines
  <2>2. EntriesUpTo(0)' = 0
    BY <2>1, CountUpTo DEF EntriesUpTo
  <2> QED BY <1>1, <1>6, <2>1, <2>2 DEF ScanInvariant
<1>9. LoopInvariant' /\ ResultInvariant'
  BY <1>1 DEF IInv, LoopInvariant, ResultInvariant, LastSelfHash, Pending
<1> QED BY <1>3, <1>4, <1>7, <1>8, <1>9 DEF IInv

\* What producers wrote is harmless.
LEMMA SealedIsHarmless ==
  ASSUME IInv, NEW p \in Producers, NEW j \in 1..Len(sealed[p])
  PROVE  Harmless(EntryLine(sealed[p][j]))
<1>1. IsEntry(sealed[p][j])
  BY DEF IInv, TypeOK
<1>2. HashOfSomebody(sealed[p][j])
  BY DEF IInv, SealedWellFormed, HashOfSomebody
<1> QED BY <1>1, <1>2, EntryLineFields DEF Harmless

LEMMA ShipKeepsInv ==
  ASSUME IInv, NEW p \in Producers, Ship(p)
  PROVE  IInv'
<1> DEFINE S == {EntryLine(sealed[p][j]) : j \in 1..Len(sealed[p])}
<1>1. IsSeq(sealed[p]) /\ Len(sealed[p]) \in Nat /\ faults \in 0..MaxFaults
  BY IsSeqLen DEF IInv, TypeOK
<1>2. log' \in Seq(S)
  BY <1>1 DEF Ship, Lines
<1>3. \A l \in S : Harmless(l)
  BY SealedIsHarmless
<1>4. /\ phase' = "transit" /\ phase = "append"
      /\ UNCHANGED <<sealed, entry, faults, lineNo, entries, signed, i, prev, result>>
  BY DEF Ship, producerVars, verifierVars
<1>5. entry' \in {"present", "unreadable"}
  BY <1>4 DEF IInv, TypeOK
<1> QED BY <1>1, <1>2, <1>3, <1>4, <1>5, DeliveryKeepsInv

\* An alteration changes the hash of an entry to none or leaves it.
LEMMA AlteredIsHarmless ==
  ASSUME IInv, NEW e, IsEntry(e), HashOfSomebody(e), NEW d \in Altered(e)
  PROVE  Harmless(EntryLine(d))
<1>1. e = Entry(e.fact, e.other, e.prev, e.self)
  BY DEF IsEntry
<1>2. e.fact \in Facts \cup {FloatFact} /\ e.other \in Others /\ "added" \in Others
  BY DEF IsEntry, Others
<1>3. \/ \E f \in Facts \cup {FloatFact} : d = Entry(f, e.other, e.prev, e.self)
      \/ d = Entry(e.fact, "added", e.prev, e.self)
      \/ \E h \in {Garbage, NoString} : d = Entry(e.fact, e.other, h, e.self)
      \/ \E h \in {Garbage, NoString} : d = Entry(e.fact, e.other, e.prev, h)
  BY <1>1 DEF Altered, Entry
<1>4. IsEntry(d) /\ d.self \in {e.self, Garbage, NoString}
  BY <1>2, <1>3, EntryFields
<1>5. HashOfSomebody(d)
  BY <1>4 DEF HashOfSomebody
<1> QED BY <1>4, <1>5, EntryLineFields DEF Harmless

LEMMA DamageKeepsInv ==
  ASSUME IInv, Damage
  PROVE  IInv'
<1> USE DEF Fault, producerVars, verifierVars
<1>1. /\ phase = "transit" /\ phase' = "transit"
      /\ UNCHANGED <<sealed, lineNo, entries, signed, i, prev, result>>
      /\ faults < MaxFaults /\ faults' = faults + 1
      /\ entry' = "unreadable" \/ entry' = entry
  BY DEF Damage, DamageLines, CorruptEntry, LoseLine, SwapWithNext, StrayLine, AlterLine, GarbleLine, StripHashes
<1>2. faults' \in 0..MaxFaults /\ entry' \in {"present", "unreadable"}
  BY <1>1, LegalAuditAssumption DEF IInv, TypeOK
<1>3. log \in Seq(Range(log)) /\ Len(log) \in Nat
  BY IsSeqLen DEF IInv, TypeOK, IsSeq
<1>4. \A k \in 1..Len(log) : Harmless(log[k])
  BY DEF IInv, TypeOK, NoForgedHash, EntryLines, Harmless
<1>5. \A l \in Range(log) : Harmless(l)
  BY <1>3, <1>4, RangeEquality
<1>6. \A l : log \in Seq(Range(log) \cup {l})
  BY <1>3, SeqMonotonic
<1> SUFFICES \E S : log' \in Seq(S) /\ \A l \in S : Harmless(l)
  BY <1>1, <1>2, DeliveryKeepsInv
<1>7. ASSUME NEW new, Harmless(new), log' \in Seq(Range(log) \cup {new})
      PROVE  \E S : log' \in Seq(S) /\ \A l \in S : Harmless(l)
  <2> WITNESS Range(log) \cup {new}
  <2> QED BY <1>5, <1>7
<1>8. ASSUME log' \in Seq(Range(log))
      PROVE  \E S : log' \in Seq(S) /\ \A l \in S : Harmless(l)
  BY <1>5, <1>8
<1>9. ASSUME NEW k \in 1..Len(log), LoseLine(k)
      PROVE  log' \in Seq(Range(log))
  BY <1>3, <1>9, RemoveAtSeq DEF LoseLine
<1>10. ASSUME NEW k \in 1..Len(log), SwapWithNext(k)
       PROVE  log' \in Seq(Range(log))
  BY <1>3, <1>10, SwapSeq DEF SwapWithNext
<1>11. ASSUME NEW k \in 1..(Len(log) + 1), NEW p \in Producers, NEW j \in 1..Len(sealed[p]),
              StrayLine(k, p, j)
       PROVE  \E S : log' \in Seq(S) /\ \A l \in S : Harmless(l)
  <2> DEFINE new == EntryLine(sealed[p][j])
  <2>1. Harmless(new)
    BY SealedIsHarmless
  <2> HIDE DEF new
  <2>2. log' \in Seq(Range(log) \cup {new})
    BY <1>6, <1>11, InsertAtSeq DEF StrayLine, new
  <2> QED BY <1>7, <2>1, <2>2
<1>12. ASSUME NEW k \in 1..Len(log), NEW new, Harmless(new), log' = ReplaceAt(log, k, new)
       PROVE  \E S : log' \in Seq(S) /\ \A l \in S : Harmless(l)
  <2>1. log' \in Seq(Range(log) \cup {new})
    BY <1>6, <1>12, ReplaceAtSeq
  <2> QED BY <1>7, <1>12, <2>1
<1>13. ASSUME NEW k \in 1..Len(log), AlterLine(k)
       PROVE  \E S : log' \in Seq(S) /\ \A l \in S : Harmless(l)
  <2>1. log[k].kind = "entry" /\ IsEntry(log[k].entry) /\ HashOfSomebody(log[k].entry)
    BY <1>4, <1>13 DEF AlterLine, Harmless, IsLine, BlankLine, MalformedLine, TooLongLine
  <2>2. PICK d \in Altered(log[k].entry) : log' = ReplaceAt(log, k, EntryLine(d))
    BY <1>13 DEF AlterLine
  <2>3. Harmless(EntryLine(d))
    BY <2>1, <2>2, AlteredIsHarmless
  <2> QED BY <1>12, <2>2, <2>3
<1>14. ASSUME NEW k \in 1..Len(log), GarbleLine(k)
       PROVE  \E S : log' \in Seq(S) /\ \A l \in S : Harmless(l)
  <2>1. PICK l \in {BlankLine, MalformedLine, TooLongLine} : log' = ReplaceAt(log, k, l)
    BY <1>14 DEF GarbleLine
  <2>2. Harmless(l)
    BY <2>1, OtherLines DEF Harmless
  <2> QED BY <1>12, <2>1, <2>2
<1>15. CASE StripHashes
  <2> DEFINE Strip(l) ==
               IF l.kind = "entry"
               THEN EntryLine([l.entry EXCEPT !.prev = NoString, !.self = NoString])
               ELSE l
             S == {Strip(log[k]) : k \in 1..Len(log)}
  <2>1. log' = [k \in 1..Len(log) |-> Strip(log[k])]
    BY <1>3, <1>15, LenProperties DEF StripHashes
  <2> HIDE DEF Strip
  <2>2. log' \in Seq(S)
    BY <1>3, <2>1
  <2>3. ASSUME NEW k \in 1..Len(log)
        PROVE  Harmless(Strip(log[k]))
    <3>1. CASE log[k].kind # "entry"
      BY <1>4, <3>1 DEF Strip
    <3>2. CASE log[k].kind = "entry"
      <4> DEFINE e == log[k].entry
                 d == Entry(e.fact, e.other, NoString, NoString)
      <4>1. IsEntry(e)
        BY <1>4, <3>2 DEF Harmless, IsLine, BlankLine, MalformedLine, TooLongLine
      <4>2. [e EXCEPT !.prev = NoString, !.self = NoString] = d
        BY <4>1, OverwrittenEntry
      <4>3. IsEntry(d) /\ d.self = NoString
        BY <4>1, EntryFields DEF IsEntry
      <4>4. HashOfSomebody(d)
        BY <4>3 DEF HashOfSomebody
      <4> HIDE DEF d
      <4>5. Harmless(EntryLine(d))
        BY <4>3, <4>4, EntryLineFields DEF Harmless
      <4> QED BY <3>2, <4>2, <4>5 DEF Strip
    <3> QED BY <3>1, <3>2
  <2>4. \A l \in S : Harmless(l)
    BY <2>3
  <2> QED BY <2>2, <2>4
<1>16. CASE CorruptEntry
  BY <1>3, <1>8, <1>16 DEF CorruptEntry
<1> QED BY <1>8, <1>9, <1>10, <1>11, <1>13, <1>14, <1>15, <1>16 DEF Damage, DamageLines

-----------------------------------------------------------------------------
\* The parser.

LEMMA OpenLogKeepsInv ==
  ASSUME IInv, OpenLog
  PROVE  IInv'
<1>1. /\ phase = "transit" /\ result = Pending
      /\ UNCHANGED <<sealed, entry, log, faults, lineNo, entries, signed, i, prev>>
      /\ \/ phase' = "scan" /\ result' = result
         \/ /\ entry = "unreadable" /\ phase' = "done"
            /\ result' = Fail("unreadable", 0)
  BY DEF OpenLog, Finish, producerVars, fileVars, IInv, LoopInvariant
<1>2. /\ result'.at = 0 /\ result'.kind \in {"pending", "unreadable"}
      /\ result'.kind = "unreadable" => entry = "unreadable"
  BY <1>1 DEF Pending, Fail
<1>3. Len(log) \in Nat
  BY IsSeqLen DEF IInv, TypeOK
<1>4. TypeOK'
  BY <1>1, <1>2, <1>3 DEF IInv, TypeOK
<1>5. SealedWellFormed' /\ HashFixesThePast'
  BY <1>1 DEF IInv, SealedWellFormed, HashFixesThePast, LastSelfHash, computeSelfHash, Covered
<1>6. NoForgedHash' /\ ScanInvariant'
  BY <1>1, SameLinesSameCount DEF IInv, NoForgedHash, ScanInvariant, HashOfSomebody
<1>7. LoopInvariant' /\ ResultInvariant'
  BY <1>1, <1>2 DEF IInv, LoopInvariant, ResultInvariant, LastSelfHash
<1> QED BY <1>4, <1>5, <1>6, <1>7 DEF IInv

\* A line that is no entry, and perhaps ends the scan.
LEMMA PassOverKeepsInv ==
  ASSUME IInv, phase = "scan", lineNo < Len(log),
         UNCHANGED <<sealed, entry, log, faults, entries, signed, i, prev>>,
         \/ lineNo' = lineNo
         \/ lineNo' = lineNo + 1 /\ log[lineNo + 1].kind # "entry",
         \/ UNCHANGED <<phase, result>>
         \/ /\ phase' = "done"
            /\ \/ /\ log[lineNo + 1].kind = "malformed"
                  /\ result' = Fail("malformed", lineNo + 1)
               \/ /\ log[lineNo + 1].kind = "tooLong"
                  /\ result' = Fail("tooLong", 0)
  PROVE  IInv'
<1>1. Len(log) \in Nat /\ lineNo \in Nat /\ lineNo + 1 \in 1..Len(log) /\ Len(entries) \in Nat
  BY IsSeqLen DEF IInv, TypeOK
<1>2. result = Pending /\ i = 0
  BY DEF IInv, LoopInvariant
<1>3. /\ result'.at \in 0..Len(log)
      /\ result' = Pending \/ phase' = "done"
      /\ \/ result' = Pending
         \/ \E kind \in {"malformed", "tooLong"} : result' = Fail(kind, result'.at)
      /\ result'.kind \in {"pending", "malformed", "tooLong"}
  BY <1>1, <1>2 DEF Pending, Fail
<1>4. phase' \in {"scan", "done"}
  OBVIOUS
<1>5. TypeOK'
  BY <1>1, <1>2, <1>3, <1>4 DEF IInv, TypeOK
<1>6. SealedWellFormed' /\ HashFixesThePast'
  BY DEF IInv, SealedWellFormed, HashFixesThePast, LastSelfHash, computeSelfHash, Covered
<1>7. NoForgedHash'
  BY SameLinesSameCount DEF IInv, NoForgedHash, HashOfSomebody
<1>8. ScanInvariant'
  <2>1. EntryLines' = EntryLines /\ \A k : EntriesUpTo(k)' = EntriesUpTo(k)
    BY SameLinesSameCount
  <2>2. CASE lineNo' = lineNo
    BY <2>1, <2>2 DEF IInv, ScanInvariant
  <2>3. CASE lineNo' = lineNo + 1 /\ lineNo + 1 \notin EntryLines
    <3>1. EntriesUpTo(lineNo + 1) = EntriesUpTo(lineNo)
      BY <1>1, <2>3, CountEntries
    <3>2. \A k \in EntryLines : k <= lineNo + 1 <=> k <= lineNo
      BY <1>1, <2>3 DEF EntryLines
    <3> QED BY <2>1, <2>3, <3>1, <3>2 DEF IInv, ScanInvariant
  <2> QED BY <2>2, <2>3 DEF EntryLines
<1>9. LoopInvariant'
  BY <1>2, <1>3, <1>4 DEF IInv, LoopInvariant, LastSelfHash
<1>10. ResultInvariant'
  <2>1. result'.kind \in {"malformed", "tooLong"} => log[lineNo + 1].kind = result'.kind
    BY <1>2 DEF Pending, Fail
  <2> QED BY <1>1, <1>3, <2>1 DEF ResultInvariant
<1> QED BY <1>5, <1>6, <1>7, <1>8, <1>9, <1>10 DEF IInv

\* An entry goes to the end of the report.
LEMMA ReadEntryKeepsInv ==
  ASSUME IInv, phase = "scan", lineNo < Len(log), log[lineNo + 1].kind = "entry",
         lineNo' = lineNo + 1, entries' = Append(entries, log[lineNo + 1].entry),
         signed' = SignedWith(log[lineNo + 1].entry),
         UNCHANGED <<sealed, entry, log, faults, phase, i, prev, result>>
  PROVE  IInv'
<1> DEFINE e == log[lineNo + 1].entry
<1>1. /\ Len(log) \in Nat /\ lineNo \in Nat /\ lineNo + 1 \in 1..Len(log)
      /\ IsSeq(entries) /\ Len(entries) \in Nat /\ signed \in BOOLEAN
  BY IsSeqLen DEF IInv, TypeOK
<1>2. result = Pending /\ i = 0
  BY DEF IInv, LoopInvariant
<1>3. lineNo + 1 \in EntryLines
  BY <1>1 DEF EntryLines
<1>4. /\ IsSeq(entries') /\ Len(entries') = Len(entries) + 1
      /\ entries'[Len(entries) + 1] = e
      /\ \A k \in 1..Len(entries) : entries'[k] = entries[k]
  BY <1>1, Grow
<1>5. \A k \in 1..Len(entries') : k \in 1..Len(entries) \/ k = Len(entries) + 1
  BY <1>1, <1>4
<1>6. IsEntry(e)
  BY <1>1 DEF IInv, TypeOK, IsLine, BlankLine, MalformedLine, TooLongLine
<1>7. TypeOK'
  <2>1. \A k \in 1..Len(entries') : IsEntry(entries'[k])
    BY <1>4, <1>5, <1>6 DEF IInv, TypeOK
  <2>2. Len(entries') <= lineNo' /\ i' \in 0..Len(entries') /\ lineNo' \in 0..Len(log)
    BY <1>1, <1>2, <1>4 DEF IInv, TypeOK
  <2>3. signed' \in BOOLEAN
    BY <1>1 DEF SignedWith
  <2> QED BY <1>1, <1>4, <2>1, <2>2, <2>3 DEF IInv, TypeOK
<1>8. SealedWellFormed' /\ HashFixesThePast'
  BY DEF IInv, SealedWellFormed, HashFixesThePast, LastSelfHash, computeSelfHash, Covered
<1>9. EntryLines' = EntryLines /\ \A k : EntriesUpTo(k)' = EntriesUpTo(k)
  BY SameLinesSameCount
<1>10. NoForgedHash'
  <2>1. \A x : HashOfSomebody(x)' = HashOfSomebody(x)
    BY DEF HashOfSomebody
  <2>2. \A k \in 1..Len(entries') : HashOfSomebody(entries'[k])
    BY <1>3, <1>4, <1>5 DEF IInv, NoForgedHash
  <2>3. \A k \in EntryLines : HashOfSomebody(log[k].entry)
    BY DEF IInv, NoForgedHash
  <2> QED BY <1>9, <2>1, <2>2, <2>3 DEF NoForgedHash
<1>11. ScanInvariant'
  <2>1. EntriesUpTo(lineNo) = Len(entries) /\ EntriesUpTo(lineNo + 1) = Len(entries) + 1
    BY <1>1, <1>3, CountEntries DEF IInv, ScanInvariant
  <2>2. \A k \in EntryLines : k <= lineNo + 1 <=> k <= lineNo \/ k = lineNo + 1
    BY <1>1 DEF EntryLines
  <2>3. \A k \in EntryLines : k <= lineNo => EntriesUpTo(k) \in 1..Len(entries)
    BY <1>1, <2>1, PlaceOfEntry
  <2>4. \A k \in EntryLines : k <= lineNo + 1 => entries'[EntriesUpTo(k)] = log[k].entry
    BY <1>4, <2>1, <2>2, <2>3 DEF IInv, ScanInvariant
  <2>5. \A n \in 1..Len(entries') : \E k \in EntryLines : k <= lineNo + 1 /\ EntriesUpTo(k) = n
    BY <1>3, <1>5, <2>1, <2>2 DEF IInv, ScanInvariant
  <2>6. signed' <=> \E k \in 1..Len(entries') : entries'[k].self # NoString
    <3>1. signed <=> \E k \in 1..Len(entries) : entries[k].self # NoString
      BY DEF IInv, ScanInvariant
    <3>2. Len(entries) + 1 \in 1..Len(entries') /\ \A k \in 1..Len(entries) : k \in 1..Len(entries')
      BY <1>1, <1>4
    <3>3. signed' <=> signed \/ e.self # NoString
      BY DEF SignedWith
    <3> HIDE DEF e
    <3> QED BY <1>4, <1>5, <3>1, <3>2, <3>3
  <2> QED BY <1>4, <1>9, <2>1, <2>4, <2>5, <2>6 DEF ScanInvariant
<1>12. LoopInvariant' /\ ResultInvariant'
  BY <1>2 DEF IInv, LoopInvariant, ResultInvariant, LastSelfHash, Pending
<1> QED BY <1>7, <1>8, <1>10, <1>11, <1>12 DEF IInv

LEMMA ScanLineKeepsInv ==
  ASSUME IInv, ScanLine
  PROVE  IInv'
<1> USE DEF ScanLine, Finish, producerVars, fileVars, MalformedAt
<1>1. CASE log[lineNo + 1].kind = "entry"
  BY <1>1, ReadEntryKeepsInv
<1>2. CASE log[lineNo + 1].kind # "entry"
  BY <1>2, PassOverKeepsInv
<1> QED BY <1>1, <1>2

LEMMA EndOfLogKeepsInv ==
  ASSUME IInv, EndOfLog
  PROVE  IInv'
<1>1. /\ phase = "scan" /\ lineNo = Len(log) /\ result = Pending /\ i = 0
      /\ UNCHANGED <<sealed, entry, log, faults, lineNo, entries, signed, i, prev>>
      /\ \/ signed /\ phase' = "verify" /\ result' = result
         \/ /\ ~signed /\ phase' = "done"
            /\ result' \in {Skipped("empty"), Skipped("unsigned")}
  BY DEF IInv, LoopInvariant, EndOfLog, Finish, producerVars, fileVars
<1>2. Len(log) \in Nat
  BY IsSeqLen DEF IInv, TypeOK
<1>3. result'.at = 0 /\ result'.kind \in {"pending", "empty", "unsigned"}
  BY <1>1 DEF Skipped, Pending
<1>4. TypeOK'
  BY <1>1, <1>2, <1>3 DEF IInv, TypeOK
<1>5. SealedWellFormed' /\ HashFixesThePast'
  BY <1>1 DEF IInv, SealedWellFormed, HashFixesThePast, LastSelfHash, computeSelfHash, Covered
<1>6. NoForgedHash' /\ ScanInvariant'
  BY <1>1, SameLinesSameCount DEF IInv, NoForgedHash, ScanInvariant, HashOfSomebody
<1>7. LoopInvariant'
  BY <1>1 DEF IInv, LoopInvariant, LastSelfHash
<1>8. ResultInvariant'
  <2>1. result'.kind \in {"empty", "unsigned"} => ~signed
    BY <1>1 DEF Pending
  <2> QED BY <1>1, <1>3, <2>1 DEF ResultInvariant
<1> QED BY <1>4, <1>5, <1>6, <1>7, <1>8 DEF IInv

-----------------------------------------------------------------------------
\* The verifier.

\* An entry whose own hash is right is one that somebody signed.
LEMMA RightHashIsGenuine ==
  ASSUME IInv, NEW e, HashOfSomebody(e), e.self = computeSelfHash(e)
  PROVE  \E q \in Signing : \E j \in 1..Len(sealed[q]) : Covered(e) = Covered(sealed[q][j])
<1>1. e.self = SelfHashOf(e.fact, e.prev) /\ e.self \notin {NoString, Garbage}
  BY SelfHashFixesEntry DEF computeSelfHash
<1>2. PICK q \in Signing : \E j \in 1..Len(sealed[q]) : e.self = sealed[q][j].self
  BY <1>1 DEF HashOfSomebody
<1>3. PICK j \in 1..Len(sealed[q]) : e.self = sealed[q][j].self
  BY <1>2
<1> DEFINE g == sealed[q][j]
<1>4. g.self = SelfHashOf(g.fact, g.prev)
  BY DEF IInv, SealedWellFormed, computeSelfHash
<1>5. SelfHashOf(e.fact, e.prev) = SelfHashOf(g.fact, g.prev)
  BY <1>1, <1>3, <1>4
<1> HIDE DEF g
<1>6. e.fact = g.fact /\ e.prev = g.prev
  BY <1>5, SelfHashFixesEntry
<1>7. Covered(e) = Covered(g)
  BY <1>3, <1>6 DEF Covered, g
<1> QED BY <1>7 DEF g

\* The step the theorems rest on: an entry that passes its checks behind entries
\* that begin one log is signed, and, since a hash fixes the past, begins with
\* them the log it stands in.
LEMMA LinkExtendsPrefix ==
  ASSUME IInv, i < Len(entries), EntryError(i) = "none"
  PROVE  \E q \in Signing : Follows(q, i + 1)
<1> DEFINE e == entries[i + 1]
<1>1. i \in Nat /\ Len(entries) \in Nat /\ i + 1 \in 1..Len(entries)
  BY IsSeqLen DEF IInv, TypeOK
<1>2. e.self = computeSelfHash(e) /\ e.prev = LastSelfHash(entries, i)
  BY DEF EntryError, LinkBroken, IInv, LoopInvariant
<1>3. HashOfSomebody(e)
  BY <1>1 DEF IInv, NoForgedHash
<1>4. PICK q \in Signing : \E j \in 1..Len(sealed[q]) : Covered(e) = Covered(sealed[q][j])
  BY <1>2, <1>3, RightHashIsGenuine
<1>5. PICK j \in 1..Len(sealed[q]) : Covered(e) = Covered(sealed[q][j])
  BY <1>4
<1>6. sealed[q][j].prev = LastSelfHash(sealed[q], j - 1) /\ e.prev = sealed[q][j].prev
  BY <1>5 DEF IInv, SealedWellFormed, Covered
<1>7. \A r \in Producers : Len(sealed[r]) \in Nat
  BY IsSeqLen DEF IInv, TypeOK
<1>8. Signing \subseteq Producers
  BY LegalAuditAssumption
<1>9. \A r \in Signing : \A m \in 1..Len(sealed[r]) : sealed[r][m].self # NoString
  BY SelfHashFixesEntry DEF IInv, SealedWellFormed, computeSelfHash
<1>10. CASE i = 0
  <2>1. e.prev = NoString
    BY <1>2, <1>10 DEF LastSelfHash
  <2>2. j = 1
    <3>1. SUFFICES ASSUME j # 1
                   PROVE  FALSE
      OBVIOUS
    <3>2. j - 1 \in 1..Len(sealed[q]) /\ j - 1 # 0
      BY <1>7, <1>8, <3>1
    <3> QED BY <1>6, <1>9, <2>1, <3>2 DEF LastSelfHash
  <2> QED BY <1>5, <1>7, <1>8, <1>10, <2>2 DEF Follows
<1>11. CASE i # 0
  <2>1. PICK p \in Signing : Follows(p, i)
    BY <1>1, <1>11 DEF IInv, LoopInvariant
  <2>2. i \in 1..Len(sealed[p]) /\ Covered(entries[i]) = Covered(sealed[p][i])
    BY <1>1, <1>7, <1>8, <1>11, <2>1 DEF Follows
  <2>3. e.prev = sealed[p][i].self /\ e.prev # NoString
    BY <1>2, <1>9, <1>11, <2>2 DEF LastSelfHash, Covered
  <2>4. j - 1 # 0 /\ sealed[q][j - 1].self = sealed[p][i].self
    BY <1>6, <2>3 DEF LastSelfHash
  <2>5. j - 1 \in 1..Len(sealed[q])
    BY <1>7, <1>8, <2>4
  <2>6. j - 1 = i /\ \A m \in 1..(j - 1) : Covered(sealed[q][m]) = Covered(sealed[p][m])
    BY <2>2, <2>4, <2>5 DEF IInv, HashFixesThePast
  <2>7. j = i + 1 /\ i + 1 <= Len(sealed[q])
    BY <1>1, <1>7, <1>8, <2>6
  <2>8. \A m \in 1..(i + 1) : m \in 1..i \/ m = i + 1
    BY <1>1
  <2>9. \A m \in 1..(i + 1) : Covered(entries[m]) = Covered(sealed[q][m])
    BY <1>5, <2>1, <2>6, <2>7, <2>8 DEF Follows
  <2> QED BY <2>7, <2>9 DEF Follows
<1> QED BY <1>10, <1>11

LEMMA VerifyEntryKeepsInv ==
  ASSUME IInv, VerifyEntry
  PROVE  IInv'
<1> USE DEF VerifyEntry, Finish, producerVars, fileVars
<1>1. /\ phase = "verify" /\ i < Len(entries) /\ result = Pending
      /\ lineNo = Len(log) /\ signed
      /\ UNCHANGED <<sealed, entry, log, faults, lineNo, entries, signed>>
  BY DEF IInv, LoopInvariant
<1>2. i \in Nat /\ Len(entries) \in Nat /\ Len(log) \in Nat /\ i < Len(log)
  BY <1>1, IsSeqLen DEF IInv, TypeOK
<1>3. SealedWellFormed' /\ HashFixesThePast'
  BY <1>1 DEF IInv, SealedWellFormed, HashFixesThePast, LastSelfHash, computeSelfHash, Covered
<1>4. NoForgedHash' /\ ScanInvariant'
  <2>1. NoForgedHash'
    BY <1>1, SameLinesSameCount DEF IInv, NoForgedHash, HashOfSomebody
  <2>2. ScanInvariant'
    BY <1>1, SameLinesSameCount DEF IInv, ScanInvariant
  <2> QED BY <2>1, <2>2
<1>5. CASE EntryError(i) = "none" /\ prev' = entries[i + 1].self /\ i' = i + 1
           /\ UNCHANGED <<phase, result>>
  <2>1. PICK q \in Signing : Follows(q, i + 1)
    BY <1>1, <1>5, LinkExtendsPrefix
  <2>2. TypeOK'
    BY <1>1, <1>2, <1>5 DEF IInv, TypeOK
  <2>3. prev' = LastSelfHash(entries', i')
    BY <1>1, <1>2, <1>5 DEF LastSelfHash
  <2>4. LoopInvariant'
    BY <1>1, <1>5, <2>1, <2>3 DEF IInv, LoopInvariant, Follows, Covered
  <2>5. ResultInvariant'
    BY <1>1, <1>5 DEF ResultInvariant, Pending
  <2> QED BY <1>3, <1>4, <2>2, <2>4, <2>5 DEF IInv
<1>6. CASE EntryError(i) # "none" /\ UNCHANGED <<i, prev>> /\ phase' = "done"
           /\ result' = Fail(EntryError(i), i)
  <2>1. EntryError(i) \in {"missing", "compute", "self", "prev"}
    BY <1>6 DEF EntryError
  <2>2. result'.at = i /\ result'.kind = EntryError(i)
    BY <1>6 DEF Fail
  <2>3. TypeOK'
    BY <1>1, <1>2, <1>6, <2>1, <2>2 DEF IInv, TypeOK
  <2>4. EntryError(i)' = EntryError(i)
    BY <1>1, <1>6 DEF EntryError, Missing, LinkBroken, computeSelfHash
  <2>5. LoopInvariant'
    BY <1>1, <1>6 DEF IInv, LoopInvariant, Follows, Covered, LastSelfHash
  <2>6. ResultInvariant'
    BY <1>1, <1>6, <2>1, <2>2, <2>4 DEF ResultInvariant
  <2> QED BY <1>3, <1>4, <2>3, <2>5, <2>6 DEF IInv
<1> QED BY <1>5, <1>6

LEMMA ChainHoldsKeepsInv ==
  ASSUME IInv, ChainHolds
  PROVE  IInv'
<1>1. /\ phase = "verify" /\ phase' = "done" /\ i = Len(entries) /\ result' = Pass /\ signed
      /\ UNCHANGED <<sealed, entry, log, faults, lineNo, entries, signed, i, prev>>
  BY DEF ChainHolds, Finish, producerVars, fileVars, IInv, LoopInvariant
<1>2. result'.at = 0 /\ result'.kind = "chain" /\ Len(log) \in Nat
  BY <1>1, IsSeqLen DEF Pass, IInv, TypeOK
<1>3. TypeOK'
  BY <1>1, <1>2 DEF IInv, TypeOK
<1>4. SealedWellFormed' /\ HashFixesThePast'
  BY <1>1 DEF IInv, SealedWellFormed, HashFixesThePast, LastSelfHash, computeSelfHash, Covered
<1>5. NoForgedHash' /\ ScanInvariant'
  BY <1>1, SameLinesSameCount DEF IInv, NoForgedHash, ScanInvariant, HashOfSomebody
<1>6. LoopInvariant' /\ ResultInvariant'
  BY <1>1, <1>2 DEF IInv, LoopInvariant, ResultInvariant, Follows, Covered, LastSelfHash
<1> QED BY <1>3, <1>4, <1>5, <1>6 DEF IInv

-----------------------------------------------------------------------------
\* The theorems.

LEMMA InitEstablishesInv == Init => IInv
<1> SUFFICES ASSUME Init
             PROVE  IInv
  OBVIOUS
<1> USE DEF Init
<1>1. IsSeq(<<>>) /\ Len(<<>>) = 0
  BY SeqIsSeq, EmptySeq
<1>2. \A p \in Producers : sealed[p] = <<>>
  OBVIOUS
<1>3. TypeOK
  <2>1. Len(log) = 0 /\ Len(entries) = 0 /\ IsSeq(log) /\ IsSeq(entries)
    BY <1>1
  <2>2. result.at = 0 /\ result = Pending
    BY DEF Pending
  <2>3. DOMAIN sealed = Producers
    OBVIOUS
  <2>4. \A p \in Producers : IsSeq(sealed[p]) /\ Len(sealed[p]) = 0
    BY <1>1, <1>2
  <2>5. signed \in BOOLEAN
    OBVIOUS
  <2> QED BY <2>1, <2>2, <2>3, <2>4, <2>5, LegalAuditAssumption DEF TypeOK
<1>4. SealedWellFormed /\ HashFixesThePast
  BY <1>1, <1>2, LegalAuditAssumption DEF SealedWellFormed, HashFixesThePast
<1>5. EntryLines = {}
  BY <1>1 DEF EntryLines
<1>6. EntriesUpTo(0) = 0
  BY <1>1, CountEntries
<1>7. NoForgedHash /\ ScanInvariant
  BY <1>1, <1>5, <1>6 DEF NoForgedHash, ScanInvariant
<1>8. LoopInvariant /\ ResultInvariant
  BY DEF LoopInvariant, ResultInvariant, LastSelfHash, Pending
<1> QED BY <1>3, <1>4, <1>7, <1>8 DEF IInv

LEMMA NextKeepsInv == IInv /\ [Next]_vars => IInv'
<1> SUFFICES ASSUME IInv, [Next]_vars
             PROVE  IInv'
  OBVIOUS
<1>1. ASSUME NEW p \in Producers, Ship(p)
      PROVE  IInv'
  BY <1>1, ShipKeepsInv
<1>2. ASSUME NEW p \in Producers, NEW f \in Facts, AppendAudit(p, f)
      PROVE  IInv'
  BY <1>2, AppendKeepsInv
<1>3. CASE Damage
  BY <1>3, DamageKeepsInv
<1>4. CASE OpenLog
  BY <1>4, OpenLogKeepsInv
<1>5. CASE Verify
  BY <1>5, ScanLineKeepsInv, EndOfLogKeepsInv, VerifyEntryKeepsInv, ChainHoldsKeepsInv DEF Verify
<1>6. CASE UNCHANGED vars
  <2>1. TypeOK'
    BY <1>6 DEF vars, IInv, TypeOK
  <2>2. SealedWellFormed' /\ HashFixesThePast'
    BY <1>6 DEF vars, IInv, SealedWellFormed, HashFixesThePast, LastSelfHash,
                computeSelfHash, Covered
  <2>3. NoForgedHash' /\ ScanInvariant'
    BY <1>6, SameLinesSameCount DEF vars, IInv, NoForgedHash, ScanInvariant, HashOfSomebody
  <2>4. LoopInvariant' /\ ResultInvariant'
    BY <1>6 DEF vars, IInv, LoopInvariant, ResultInvariant, Follows, Covered, LastSelfHash,
                EntryError, Missing, LinkBroken, computeSelfHash
  <2> QED BY <2>1, <2>2, <2>3, <2>4 DEF IInv
<1> QED BY <1>1, <1>2, <1>3, <1>4, <1>5, <1>6 DEF Next, Done

\* IInv holds in every reachable state, whatever is written and lost.
THEOREM InvariantHolds == Spec => []IInv
BY InitEstablishesInv, NextKeepsInv, PTL DEF Spec

\* Type correctness of producers, delivered file and verifier.
THEOREM TypesHold == Spec => []TypeOK
<1>1. IInv => TypeOK
  BY DEF IInv
<1> QED BY <1>1, InvariantHolds, PTL

\* VerifyAuditChain accepts nothing but the beginning of one signed log, at
\* least its first entry.
THEOREM AcceptedLogsAreSigned == Spec => []OnlySealedPrefixAccepted
<1>1. IInv => OnlySealedPrefixAccepted
  <2> SUFFICES ASSUME IInv, result.kind = "chain"
               PROVE  \E p \in Signing : Follows(p, Len(entries))
    BY DEF OnlySealedPrefixAccepted
  <2>1. i = Len(entries) /\ signed /\ Len(entries) \in Nat
    BY IsSeqLen DEF IInv, TypeOK, ResultInvariant
  <2>2. i > 0
    BY <2>1 DEF IInv, ScanInvariant
  <2> QED BY <2>1, <2>2 DEF IInv, LoopInvariant
<1> QED BY <1>1, InvariantHolds, PTL

\* An entry that stands in a signed log behind the same entries has no error.
LEMMA FollowingEntryIsRight ==
  ASSUME IInv, NEW p \in Signing, Follows(p, i + 1)
  PROVE  EntryError(i) = "none"
<1> DEFINE e == entries[i + 1]
           g == sealed[p][i + 1]
<1>1. i \in Nat /\ Len(sealed[p]) \in Nat
  BY IsSeqLen, LegalAuditAssumption DEF IInv, TypeOK
<1>2. i + 1 \in 1..Len(sealed[p]) /\ Covered(e) = Covered(g)
  BY <1>1 DEF Follows
<1>3. e.fact = g.fact /\ e.prev = g.prev /\ e.self = g.self
  BY <1>2 DEF Covered
<1>4. /\ g.fact \in Facts
      /\ g.prev = LastSelfHash(sealed[p], i)
      /\ g.self = computeSelfHash(g)
  BY <1>1, <1>2 DEF IInv, SealedWellFormed
<1>5. e.fact # FloatFact
  BY <1>3, <1>4, LegalAuditAssumption
<1>6. e.self = computeSelfHash(e) /\ e.self # NoString
  BY <1>3, <1>4, SelfHashFixesEntry DEF computeSelfHash
<1>7. LastSelfHash(sealed[p], i) = LastSelfHash(entries, i)
  <2>1. CASE i = 0
    BY <2>1 DEF LastSelfHash
  <2>2. CASE i # 0
    <3>1. i \in 1..(i + 1)
      BY <1>1, <2>2
    <3>2. Covered(entries[i]) = Covered(sealed[p][i])
      BY <3>1 DEF Follows
    <3> QED BY <2>2, <3>2 DEF LastSelfHash, Covered
  <2> QED BY <2>1, <2>2
<1>8. e.prev = prev
  BY <1>3, <1>4, <1>7 DEF IInv, LoopInvariant
<1> QED BY <1>5, <1>6, <1>8 DEF EntryError, Missing, LinkBroken

\* The index in the result is the first at which the log departs from every
\* signed log.
THEOREM BrokenIndexIsExact == Spec => []BrokenAtFirstDeparture
<1>1. IInv => BrokenAtFirstDeparture
  <2> SUFFICES ASSUME IInv, result.kind \in {"missing", "compute", "self", "prev"}
               PROVE  /\ result.at > 0 => \E p \in Signing : Follows(p, result.at)
                      /\ \A p \in Signing : ~Follows(p, result.at + 1)
    BY DEF BrokenAtFirstDeparture
  <2>1. result.at = i /\ EntryError(i) # "none"
    BY DEF IInv, ResultInvariant
  <2> QED BY <2>1, FollowingEntryIsRight DEF IInv, LoopInvariant
<1> QED BY <1>1, InvariantHolds, PTL

\* A self_hash mismatch blames no entry that somebody signed, a broken link no
\* other.
THEOREM CauseNamesTheDamage == Spec => []CauseIsNamed
<1>1. IInv => CauseIsNamed
  <2> SUFFICES ASSUME IInv, result.kind \in {"self", "prev"}
               PROVE  Genuine(entries[result.at + 1]) <=> result.kind = "prev"
    BY DEF CauseIsNamed
  <2> DEFINE e == entries[i + 1]
  <2>1. result.at = i /\ i < Len(entries) /\ EntryError(i) = result.kind
    BY DEF IInv, ResultInvariant
  <2>2. i + 1 \in 1..Len(entries)
    BY <2>1, IsSeqLen DEF IInv, TypeOK
  <2>3. CASE result.kind = "self"
    <3>1. e.self # computeSelfHash(e)
      BY <2>1, <2>3 DEF EntryError
    <3>2. \A p \in Signing : \A j \in 1..Len(sealed[p]) : Covered(e) # Covered(sealed[p][j])
      BY <3>1 DEF Covered, IInv, SealedWellFormed, computeSelfHash
    <3> QED BY <2>1, <2>3, <3>2 DEF Genuine
  <2>4. CASE result.kind = "prev"
    <3>1. e.self = computeSelfHash(e)
      BY <2>1, <2>4 DEF EntryError
    <3>2. HashOfSomebody(e)
      BY <2>2 DEF IInv, NoForgedHash
    <3> QED BY <2>1, <2>4, <3>1, <3>2, RightHashIsGenuine DEF Genuine
  <2> QED BY <2>3, <2>4
<1> QED BY <1>1, InvariantHolds, PTL

\* No log with a signed entry left in it is skipped.
THEOREM SignedLogsAreJudged == Spec => []NoSilentDowngrade
<1>1. IInv => NoSilentDowngrade
  <2> SUFFICES ASSUME IInv, result.result = "SKIPPED", NEW k \in 1..Len(log),
                      log[k].kind = "entry", Genuine(log[k].entry)
               PROVE  FALSE
    BY DEF NoSilentDowngrade
  <2>1. result \in {Skipped("empty"), Skipped("unsigned")}
    BY DEF IInv, TypeOK, Pending, Pass, Fail
  <2>2. lineNo = Len(log) /\ ~signed
    BY <2>1 DEF IInv, ResultInvariant, Skipped
  <2>3. k \in EntryLines /\ k <= lineNo /\ Len(log) \in Nat
    BY <2>2, IsSeqLen DEF EntryLines, IInv, TypeOK
  <2>4. entries[EntriesUpTo(k)] = log[k].entry /\ EntriesUpTo(k) \in 1..Len(entries)
    BY <2>2, <2>3, PlaceOfEntry DEF IInv, ScanInvariant
  <2>5. log[k].entry.self = NoString
    BY <2>2, <2>4 DEF IInv, ScanInvariant
  <2>6. log[k].entry.self # NoString
    BY SelfHashFixesEntry DEF Genuine, Covered, IInv, SealedWellFormed, computeSelfHash
  <2> QED BY <2>5, <2>6
<1> QED BY <1>1, InvariantHolds, PTL

\* A file that can be read, whose entries begin somebody's log and whose other
\* lines are blank, does not fail.
THEOREM WholeLogsDoNotFail == Spec => []NoFalseAlarm
<1>1. IInv => NoFalseAlarm
  <2> SUFFICES ASSUME IInv, result.result = "FAIL", entry # "unreadable",
                      \A k \in 1..Len(log) : log[k].kind \notin {"malformed", "tooLong"},
                      NEW p \in Producers, BeginsLogOf(p)
               PROVE  FALSE
    BY DEF NoFalseAlarm
  <2>1. result.kind \in {"unreadable", "malformed", "tooLong", "missing", "compute", "self", "prev"}
    BY DEF IInv, TypeOK, Pending, Pass, Skipped, Fail
  <2>2. /\ signed /\ lineNo = Len(log)
        /\ i < Len(entries) /\ EntryError(i) # "none"
    BY <2>1 DEF IInv, ResultInvariant
  <2>3. /\ Len(log) \in Nat /\ i \in Nat /\ Len(entries) \in Nat
        /\ Len(sealed[p]) \in Nat /\ i + 1 \in 1..Len(entries)
    BY <2>2, IsSeqLen DEF IInv, TypeOK
  <2>4. ASSUME NEW n \in 1..Len(entries)
        PROVE  n \in 1..Len(sealed[p]) /\ Covered(entries[n]) = Covered(sealed[p][n])
    <3>1. PICK k \in EntryLines : k <= lineNo /\ EntriesUpTo(k) = n
      BY DEF IInv, ScanInvariant
    <3>2. entries[n] = log[k].entry
      BY <3>1 DEF IInv, ScanInvariant
    <3> QED BY <2>3, <3>1, <3>2 DEF BeginsLogOf
  <2>5. CASE p \in Signing
    <3>1. i + 1 <= Len(sealed[p]) /\ \A n \in 1..(i + 1) : n \in 1..Len(entries)
      BY <2>3, <2>4
    <3>2. Follows(p, i + 1)
      BY <2>4, <3>1 DEF Follows
    <3> QED BY <2>2, <2>5, <3>2, FollowingEntryIsRight
  <2>6. CASE p \notin Signing
    <3>1. \A n \in 1..Len(entries) : entries[n].self = NoString
      BY <2>4, <2>6 DEF IInv, SealedWellFormed, Covered
    <3> QED BY <2>2, <3>1 DEF IInv, ScanInvariant
  <2> QED BY <2>5, <2>6
<1> QED BY <1>1, InvariantHolds, PTL
=============================================================================
