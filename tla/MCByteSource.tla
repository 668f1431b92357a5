---------------------------- MODULE MCByteSource ----------------------------
(***************************************************************************)
(* TLC instance of CommandLine with ByteSource.                            *)
(***************************************************************************)
EXTENDS CommandLine
=============================================================================
