---------------------------- MODULE MCBlacklist -----------------------------
(***************************************************************************)
(* TLC instance of Blacklist: no file, an empty one, and one of two lines, *)
(* the last of which may lack its end.                                     *)
(***************************************************************************)
EXTENDS Blacklist

CONSTANTS u1, u2

MCUserText == {u1, u2}
MCUserFiles == {Absent, <<>>, <<u1, NL, u2, NL>>, <<u1, NL, u2>>}
=============================================================================
