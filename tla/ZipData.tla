------------------------------ MODULE ZipData ------------------------------
(***************************************************************************)
(* The bytes of a ZIP entry, by what they parse as.                        *)
(***************************************************************************)
EXTENDS Digest

Data(kind, value) == [kind |-> kind, value |-> value]

\* The content of a file nobody parses, bytes that parse as nothing, and an
\* entry that fails its CRC while it is read.
File(c)    == Data("file", c)
Garbled    == Data("garbled", NoString)
Unreadable == Data("unreadable", NoString)
=============================================================================
