--------------------------- MODULE HashedDocument ---------------------------
(***************************************************************************)
(* A document whose hash was sealed, on one of three routes:               *)
(*                                                                         *)
(*   "manifest"  ParseManifest, ToMap and the bundle's encoder;            *)
(*   "event"     one line of events.jsonl, through json.Unmarshal and the   *)
(*               bundle's encoder, which takes an AuditEventMap for a value *)
(*               to be encoded by reflection;                               *)
(*   "entry"     one line of audit.jsonl, through parseAuditEntry,          *)
(*               computeSelfHash and the Legal-Pack's encoder.              *)
(*                                                                         *)
(* The producer encodes it with the reference, transit alters it, and the   *)
(* verifier encodes what it has parsed and compares.  Digest, on which the *)
(* other modules rest, says that this comparison tells documents apart;     *)
(* here is how far that goes.                                              *)
(*                                                                         *)
(* A document has a field for each way in which a field is treated:         *)
(*   name     a required string      product_version   id       event      *)
(*   note     an optional one        case_reference    actor    role       *)
(*   count    the number of artifacts (manifest)                           *)
(*   inner    a value inside artifacts[], an event's or the entry's detail *)
(*   extra    a field that the verifier has no name for                    *)
(***************************************************************************)
EXTENDS CanonicalJSON, FiniteSets

CONSTANTS
  Routes,         \* the routes examined
  Names,          \* strings for the fields name and note
  Values,         \* values for the other fields, and what a field is altered to
  MaxAlterations  \* bound: alterations one document suffers

Fields == {"name", "note", "count", "inner", "extra"}

IsStringValue(v) == IsString(v) /\ v = String(v.chars) /\ v.chars \in Seq(Chars)
IsNumberValue(v) ==
  /\ IsNumber(v)
  /\ v.halves \in Int
  /\ v \in {Integer(v.halves \div 2), Decimal(v.halves)}

ASSUME DocumentAssumption ==
  /\ Routes \subseteq {"manifest", "event", "entry"}
  /\ \A v \in Names : IsStringValue(v)
  /\ \A v \in Values : IsStringValue(v) \/ IsNumberValue(v)
  /\ MaxAlterations \in Nat

VARIABLES
  route,       \* the route of the document
  platform,    \* what the verifier runs on
  sealed,      \* history: the document that was hashed
  delivered,   \* what is in the file
  alterations, \* alterations done so far
  phase,       \* "seal", "transit", "parsed", "encoded" or "done"
  parsed,      \* the map given to the encoder
  verdict      \* "none", or how the check ends

vars == <<route, platform, sealed, delivered, alterations, phase, parsed, verdict>>

NoFields == [f \in {} |-> Refused]

Init ==
  /\ route \in Routes
  /\ platform \in Platforms
  /\ sealed      = NoFields
  /\ delivered   = NoFields
  /\ alterations = 0
  /\ phase       = "seal"
  /\ parsed      = NoFields
  /\ verdict     = "none"

Without(doc, f) == [g \in DOMAIN doc \ {f} |-> doc[g]]
With(doc, f, v) == [g \in DOMAIN doc \cup {f} |-> IF g = f THEN v ELSE doc[g]]

-----------------------------------------------------------------------------
\* The producer.

ArtifactCount == 1

\* The canonical text of a document, but for the order of keys, which is theirs.
ReferenceOf(v)     == IF route = "entry" THEN LegalReference(v) ELSE Reference(v)
ReferenceText(doc) == [f \in DOMAIN doc |-> ReferenceOf(doc[f])]

\* Every document has its required fields and a value in it, a note or none; an
\* event may have fields of its own.
CanBeSealed(doc) ==
  /\ {"name", "inner"} \subseteq DOMAIN doc
  /\ doc["name"].chars # <<>>
  /\ route = "manifest" <=> "count" \in DOMAIN doc
  /\ "extra" \in DOMAIN doc => route = "event"
  /\ \A f \in DOMAIN doc : ReferenceOf(doc[f]) # Refused

Seal ==
  /\ phase = "seal"
  /\ \E n \in Names, v \in Values, note \in Names :
       \E doc \in {[name |-> n, inner |-> v],
                   [name |-> n, inner |-> v, note |-> note],
                   [name |-> n, inner |-> v, extra |-> v],
                   [name |-> n, inner |-> v, count |-> Integer(ArtifactCount)],
                   [name |-> n, inner |-> v, count |-> Integer(ArtifactCount), note |-> note]} :
         /\ CanBeSealed(doc)
         /\ sealed'    = doc
         /\ delivered' = doc
  /\ phase' = "transit"
  /\ UNCHANGED <<route, platform, alterations, parsed, verdict>>

-----------------------------------------------------------------------------
\* Transit, which is not code.

Alter ==
  /\ phase = "transit"
  /\ alterations < MaxAlterations
  /\ alterations' = alterations + 1
  /\ \E f \in Fields :
       \/ \E v \in Values : delivered' = With(delivered, f, v)
       \/ f \in DOMAIN delivered /\ delivered' = Without(delivered, f)
  /\ UNCHANGED <<route, platform, sealed, phase, parsed, verdict>>

-----------------------------------------------------------------------------
\* The verifier.

IsNonEmpty(v) == IsString(v) /\ v.chars # <<>>

\* ParseManifest with Validate: all required keys and no foreign ones, strings
\* where there must be strings, and the number of artifacts as stated.
RequiredKeys == {"name", "count", "inner"}
OptionalKeys == {"note"}
IsArtifactCount(v) == v = Integer(ArtifactCount)
ParseManifest(doc) ==
  /\ RequiredKeys \subseteq DOMAIN doc
  /\ DOMAIN doc \subseteq RequiredKeys \cup OptionalKeys
  /\ IsNonEmpty(doc["name"])
  /\ IsArtifactCount(doc["count"])
  /\ "note" \in DOMAIN doc => IsString(doc["note"])

\* The map that is hashed; before it, one that forgets an optional field.
ToMapRequired(doc) == [f \in RequiredKeys |-> doc[f]]
ToMap(doc)         == doc

\* parseAuditEntry wants an event's name.
parseAuditEntry(doc) == "name" \in DOMAIN doc /\ IsNonEmpty(doc["name"])

\* computeSelfHash puts together the fields it knows, the strings among them
\* when they are not empty; before it, also when they are.
Known(doc) ==
  {f \in DOMAIN doc : f \in {"name", "inner"} \/ (f = "note" /\ IsNonEmpty(doc[f]))}
SelfHashOfAllFields(doc) ==
  [f \in {"name", "inner", "note"} |-> IF f \in DOMAIN doc THEN doc[f] ELSE String(<<>>)]
computeSelfHash(doc) == [f \in Known(doc) |-> doc[f]]

\* An event is one JSON object; a number that no float64 holds does not parse.
parseAuditEvent(doc) ==
  \A f \in DOMAIN doc : IsNumber(doc[f]) => ~OutOfRange(doc[f].halves)

Parses(doc) ==
  CASE route = "manifest" -> ParseManifest(doc)
    [] route = "event"    -> parseAuditEvent(doc)
    [] route = "entry"    -> parseAuditEntry(doc)

\* What is hashed of a file that parses.
Parsed(doc) ==
  CASE route = "manifest" -> ToMap(doc)
    [] route = "event"    -> doc
    [] route = "entry"    -> computeSelfHash(doc)

Reject(how) == phase' = "done" /\ verdict' = how

Parse ==
  /\ phase = "transit"
  /\ \/ /\ ~Parses(delivered)
        /\ Reject("malformed")
        /\ UNCHANGED parsed
     \/ /\ Parses(delivered)
        /\ parsed' = Parsed(delivered)
        /\ phase'  = "parsed"
        /\ UNCHANGED verdict
  /\ UNCHANGED <<route, platform, sealed, delivered, alterations>>

Written(v) ==
  CASE route = "manifest" -> marshalAny(v, platform)
    [] route = "event"    -> marshalViaReflection(v, platform)
    [] route = "entry"    -> Marshal(v)
Text == [f \in DOMAIN parsed |-> Written(parsed[f])]

\* SHA256Hex gives an error for a value the encoder refuses.
IsEncoded == \A f \in DOMAIN parsed : Text[f] # Refused

Encode ==
  /\ phase = "parsed"
  /\ \/ ~IsEncoded /\ Reject("malformed")
     \/ IsEncoded /\ phase' = "encoded" /\ UNCHANGED verdict
  /\ UNCHANGED <<route, platform, sealed, delivered, alterations, parsed>>

\* The digest is compared with the sealed one.
Compare ==
  /\ phase = "encoded"
  /\ phase'   = "done"
  /\ verdict' = IF Text = ReferenceText(sealed) THEN "match" ELSE "mismatch"
  /\ UNCHANGED <<route, platform, sealed, delivered, alterations, parsed>>

Done == phase = "done" /\ UNCHANGED vars

Next == Seal \/ Alter \/ Parse \/ Encode \/ Compare \/ Done

Spec == Init /\ [][Next]_vars

-----------------------------------------------------------------------------
\* Types.

Verdicts == {"malformed", "match", "mismatch"}

IsValue(v) == v \in Names \cup Values \cup {Integer(ArtifactCount)}
IsDocument(doc) == DOMAIN doc \subseteq Fields /\ \A f \in DOMAIN doc : IsValue(doc[f])

\* Every variable has its type; a text that is compared shows integers and
\* characters, and nothing that was not in the file.
TypeOK ==
  /\ route \in Routes
  /\ platform \in Platforms
  /\ IsDocument(sealed)
  /\ IsDocument(delivered)
  /\ alterations \in 0..MaxAlterations
  /\ phase \in {"seal", "transit", "parsed", "encoded", "done"}
  /\ IsDocument(parsed)
  /\ DOMAIN parsed \subseteq DOMAIN delivered
  /\ phase = "encoded" => \A f \in DOMAIN parsed : Text[f] # Refused
  /\ verdict \in IF phase = "done" THEN Verdicts ELSE {"none"}

-----------------------------------------------------------------------------
\* The inductive invariant: what there is to seal, and what stands between that
\* and a verdict.

IsSealed(doc) ==
  /\ CanBeSealed(doc)
  /\ IsStringValue(doc["name"])
  /\ "note" \in DOMAIN doc => IsStringValue(doc["note"])
  /\ "count" \in DOMAIN doc => IsArtifactCount(doc["count"])

IsParsed == Parses(delivered) /\ parsed = Parsed(delivered)

VerdictIsDue ==
  \/ ~Parses(delivered) /\ verdict = "malformed"
  \/ IsParsed /\ ~IsEncoded /\ verdict = "malformed"
  \/ IsParsed /\ IsEncoded /\ verdict = IF Text = ReferenceText(sealed) THEN "match" ELSE "mismatch"

IInv ==
  /\ TypeOK
  /\ phase # "seal" => IsSealed(sealed)
  /\ phase \in {"seal", "transit"} => parsed = NoFields
  /\ phase \in {"parsed", "encoded"} => IsParsed
  /\ phase = "done" => VerdictIsDue

-----------------------------------------------------------------------------
\* Safety.

\* What a value says: a decimal says the float64 it is read as, in Python too.
Meaning(v) ==
  IF IsNumber(v) /\ v.form = "decimal"
  THEN [form |-> "integer", halves |-> Rounded(v.halves)]
  ELSE v

\* Of a Legal-Pack entry, a hash covers the fields known to the verifier, and an
\* empty one is an absent one.
Covered(doc) == IF route = "entry" THEN computeSelfHash(doc) ELSE doc

SameMeaning(doc, other) ==
  /\ DOMAIN Covered(doc) = DOMAIN Covered(other)
  /\ \A f \in DOMAIN Covered(doc) : Meaning(doc[f]) = Meaning(other[f])

\* The numbers that a float64 tells from their neighbours.
IsSafe(v) == IsNumber(v) => Magnitude(Meaning(v).halves) < Pow2[Precision + 1]
SafeNumbers(doc) == \A f \in DOMAIN doc : IsSafe(doc[f])

HasSeparator(v) == IsString(v) /\ "separator" \in ToSet(v.chars)
Separators(doc) == \E f \in DOMAIN doc : HasSeparator(doc[f])

\* No field of an entry is one that the verifier drops.
AllCovered(doc) == DOMAIN Covered(doc) = DOMAIN doc

\* Whatever a document of safe numbers was altered to, on any route and any
\* platform: when its hash still matches, it says what it said.
AlterationShows ==
  (verdict = "match" /\ SafeNumbers(sealed)) => SameMeaning(sealed, delivered)

\* The document that was sealed is one whose every part the encoders carry: no
\* field of it is dropped and, on the Legal-Pack's route, there is no separator.
IsCarried(doc) == AllCovered(doc) /\ (route = "entry" => ~Separators(doc))

\* Such a document with safe numbers matches, on every platform, when it was
\* delivered as sealed.
NoFalseAlarm ==
  (phase = "done" /\ delivered = sealed /\ IsCarried(sealed) /\ SafeNumbers(sealed))
    => verdict = "match"

\* Integers of any size survive the two routes that do not read them as floats:
\* there, it matches exactly as long as it says what it said.
IntegersOnly(doc) == \A f \in DOMAIN doc : IsNumber(doc[f]) => doc[f].form = "integer"
IntegersSurvive ==
  (/\ phase = "done"
   /\ route # "event"
   /\ IntegersOnly(sealed) /\ IntegersOnly(delivered)
   /\ IsCarried(sealed))
    => (verdict = "match" <=> SameMeaning(sealed, delivered))

\* An event whose hash matches can have been altered in its numbers only, and there
\* within one float64: each is read as the one that was sealed.  Numbers written with
\* an exponent are the exception: beyond int64 they all leave it as one.
AsFloat(v) == IF IsNumber(v) THEN Decimal(Rounded(v.halves)) ELSE v
HasExponent(v) ==
  IsNumber(v) /\ Magnitude(Rounded(v.halves)) >= 2 * Pow10[ExponentDigits]
EventsKeepFloats ==
  (verdict = "match" /\ route = "event") =>
    /\ DOMAIN delivered = DOMAIN sealed
    /\ \A f \in DOMAIN sealed :
         HasExponent(delivered[f]) \/ AsFloat(delivered[f]) = AsFloat(sealed[f])

-----------------------------------------------------------------------------
\* What the documentation says beyond that; neither holds.

\* "byte-exact equivalent to the Python [...] for every supported value type",
\* integers of 64 bits among them.
FitsInt64(doc) == \A f \in DOMAIN doc : IsNumber(doc[f]) => doc[f].halves \div 2 \in MinInt..MaxInt
NumbersByteExact ==
  (/\ phase = "done"
   /\ delivered = sealed
   /\ route # "entry"
   /\ IntegersOnly(sealed) /\ FitsInt64(sealed))
    => verdict = "match"

\* Marshal of canonicaljson: "The result is byte-exact equivalent to the CKNF
\* Python [...] for the supported value types", strings among them, with U+2028
\* and U+2029 in them too.
StringsByteExact ==
  (phase = "done" /\ delivered = sealed /\ AllCovered(sealed) /\ route = "entry")
    => verdict = "match"
=============================================================================
