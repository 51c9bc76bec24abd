--------------------------- MODULE MCBZWriteFile ---------------------------
(***************************************************************************)
(* Small instances of the writing half of the stdio layer.                 *)
(***************************************************************************)
EXTENDS BZWriteFile

MCModeStrings == {<<"w", "0">>, <<"r", "w", "b">>, <<"w", "r", "s">>}
MCBuffRooms == {0, 1, 5, 8, 9}
TwoRooms    == {0, 2}
TwoBytes == {0, 1}
TwoSizes == {3, 4}
OneSize  == {3}
OneUnit  == {1}
TwoUnits == {1, 2}
=============================================================================
