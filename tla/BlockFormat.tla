----------------------------- MODULE BlockFormat -----------------------------
(***************************************************************************)
(* What the encoder and the decoder of a block have in common              *)
(* (qbz2_internal.h): the alphabet and the sizes of the format.            *)
(***************************************************************************)
EXTENDS HuffmanCodes, SequencesExt

CONSTANTS
  MapWidth,          \* rows and columns of the mapping table (16)
  GroupSize,         \* BZ_G_SIZE (50)
  nblockMAX          \* the longest block the decoder has room for (100000 * blockSize100k)

ASSUME FormatAssumption ==
  /\ MapWidth \in Nat \ {0} /\ GroupSize \in Nat \ {0} /\ nblockMAX \in Nat

\* The first two symbols are the digits, one and two, of the length of a run.
RUNA == 0
RUNB == 1
Bytes == 0..(MapWidth * MapWidth - 1)

\* The element at place k of a sequence, moved to its front.
ToFront(s, k) == <<s[k]>> \o RemoveAt(s, k)
=============================================================================
