---------------------------- MODULE MCBZReadFile ----------------------------
(***************************************************************************)
(* Small instances of the reading half of the stdio layer.                 *)
(***************************************************************************)
EXTENDS BZReadFile

MCSlowBits == {1, 20}
MCFastBits == {1, 15}
MCModeStrings == {<<"w", "r", "s", "5">>, <<>>}
MCSources  == {0, 13, 14, 60}
MCRooms    == {0, 2}
=============================================================================
