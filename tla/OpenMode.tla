------------------------------ MODULE OpenMode ------------------------------
(***************************************************************************)
(* The mode string of BZ2_bzopen and BZ2_bzdopen, bzopen_or_bzdopen in     *)
(* src/bzlib.c: a sequence of letters, of which any may be missing, unknown*)
(* or there more than once.                                                *)
(***************************************************************************)
EXTENDS Integers, Sequences
LOCAL INSTANCE SequencesExt

Digits == <<"0", "1", "2", "3", "4", "5", "6", "7", "8", "9">>

DefaultMode == [writing |-> FALSE, small |-> FALSE, level |-> 9]

Letter(m, c) ==
  CASE c \in {"r", "w"}   -> [m EXCEPT !.writing = (c = "w")]
    [] c = "s"            -> [m EXCEPT !.small = TRUE]
    [] Contains(Digits, c) -> [m EXCEPT !.level = CHOOSE d \in 0..9 : Digits[d + 1] = c]
    [] OTHER              -> m

ParseMode(mode) == FoldLeft(Letter, DefaultMode, mode)

(* The block size for writing, which BZ2_bzWriteOpen wants in 1..9. *)
Clamp(level) == IF level < 1 THEN 1 ELSE IF level > 9 THEN 9 ELSE level
=============================================================================
