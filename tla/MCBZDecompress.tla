--------------------------- MODULE MCBZDecompress ---------------------------
(***************************************************************************)
(* Small instances of the decompression stream.                            *)
(***************************************************************************)
EXTENDS BZDecompress

MCSlowBits == {1, 20}
MCFastBits == {1, 15}
MCChunks   == {0, 1, 5, 9}
MCRooms    == {0, 2}
=============================================================================
