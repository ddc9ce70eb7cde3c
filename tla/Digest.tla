------------------------------- MODULE Digest -------------------------------
(***************************************************************************)
(* Strings the verifier compares, as terms: SHA-256 over canonical JSON is *)
(* the constructor of a term that holds what was hashed, so two digests    *)
(* are equal exactly when the hashed values are.  Every module inherits    *)
(* this one cryptographic abstraction: SHA-256 has no collisions, and      *)
(* canonical JSON writes equal values, and only those, as equal bytes.     *)
(***************************************************************************)

EXTENDS Sequences, Functions

SHA256(x) == [sha256 |-> x]

\* The chain-genesis sentinel: 64 zeros, which no event hashes to.
ZeroHash == [zeros |-> 64]

\* The empty string: a cleared field, and what a string accessor returns
\* for a field that is missing or not a string.
NoString == [empty |-> 0]

\* A damaged string: the hash of nothing.
Garbage == [garbage |-> 0]

\* Such terms nest without bound, so that no set holds the records made of them:
\* a sequence of these is one over its own elements.
IsSeq(s) == s \in Seq(Range(s))
=============================================================================
