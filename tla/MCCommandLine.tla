---------------------------- MODULE MCCommandLine ---------------------------
(***************************************************************************)
(* CommandLine on every command line, with few license serials: those below *)
(* the offset, the offset, and the two above it.                           *)
(***************************************************************************)
EXTENDS CommandLine
=============================================================================
