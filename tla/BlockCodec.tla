----------------------------- MODULE BlockCodec -----------------------------
(***************************************************************************)
(* One block from the encoder to the decoder: sorted, coded, handed over   *)
(* as bits, whole or with one bit or the place of the block changed, read  *)
(* with any cut of the input, and delivered with any cut of the output.    *)
(*                                                                         *)
(* A block with the flag randomised is one an old encoder has masked; the  *)
(* rest of its way is the same.  Another block may have been encoded with  *)
(* the same memory before it, which the decoder is not asked about then.   *)
(***************************************************************************)
EXTENDS BlockEncoder, ReferenceDecoder

CONSTANTS
  Blocks,         \* the blocks, functions on 0..n-1
  DamagedBlocks,  \* those that are also handed over damaged
  MaxRoom         \* the longest room for output in a call

VARIABLES
  original,    \* the block before it is sorted
  damaged,     \* it was changed on its way
  delivered    \* all output so far

cvars == <<evars, dvars, original, damaged, delivered>>

CodecInit ==
  /\ EncoderInit(Blocks) /\ DecoderInit
  /\ original = block /\ damaged = FALSE /\ delivered = <<>>

Encode == EncoderNext /\ UNCHANGED <<dvars, original, damaged, delivered>>

EncodeAnother ==
  /\ dstate = "idle" /\ NextBlock
  /\ original' = block' /\ UNCHANGED <<dvars, damaged, delivered>>

HandOver ==
  /\ estate = "sent"
  /\ \E small, randomised \in BOOLEAN :
       (randomised => sorted) /\ StartBlock(bits, origPtr, randomised, small)
  /\ UNCHANGED <<evars, original, damaged, delivered>>

HandOverDamaged ==
  /\ estate = "sent" /\ original \in DamagedBlocks
  /\ \/ \E k \in DOMAIN bits : StartBlock([bits EXCEPT ![k] = 1 - @], origPtr, FALSE, FALSE)
     \/ \E o \in 0..(nblock + 1), small \in BOOLEAN : StartBlock(bits, o, FALSE, small)
  /\ damaged' = TRUE /\ UNCHANGED <<evars, original, delivered>>

Decode == Parse /\ UNCHANGED <<evars, original, damaged, delivered>>

\* The input of a damaged block is cut only where it ends.
Cut ==
  /\ damaged /\ inCall => pos + Width > Len(input)
  /\ NeedInput \/ CallAgain
  /\ UNCHANGED <<evars, original, damaged, delivered>>

Output ==
  /\ \E room \in 0..MaxRoom : DeliverCall(room)
  /\ delivered' = delivered \o u'.out
  /\ UNCHANGED <<evars, original, damaged>>

Over == (dstate \in {"done", "error"} \/ estate = "stopped") /\ UNCHANGED cvars

CodecNext == Encode \/ EncodeAnother \/ HandOver \/ HandOverDamaged \/ Decode \/ Cut \/ Output \/ Over
CodecSpec == CodecInit /\ [][CodecNext]_cvars

----------------------------------------------------------------------------
(* What a block stands for *)

\* The places the mask of a randomised block falls on, 1 being the first byte.
RECURSIVE MaskPlaces(_, _, _)
MaskPlaces(from, k, n) ==
  IF from > n THEN {}
  ELSE {from + RNums[k] - 2} \cup MaskPlaces(from + RNums[k], 1 + (k % Len(RNums)), n)

Unmasked(b) ==
  LET n == Size(b)
      places == IF s.randomised THEN MaskPlaces(1, 1, n) ELSE {}
  IN  [k \in 1..n |-> IF k \notin places THEN b[k - 1]
                      ELSE IF b[k - 1] % 2 = 0 THEN b[k - 1] + 1 ELSE b[k - 1] - 1]

RunLength(q) == Max({n \in 1..Min({4, Len(q)}) : \A k \in 1..n : q[k] = q[1]})

\* The runs undone: four equal bytes are followed by a count of more.  cut: the count is missing.
RECURSIVE Expanded(_)
Expanded(q) ==
  IF q = <<>> THEN [out |-> <<>>, cut |-> FALSE]
  ELSE LET n == RunLength(q)
           rest == Expanded(SubSeq(q, IF n = 4 THEN 6 ELSE n + 1, Len(q)))
       IN  IF n = 4 /\ Len(q) = 4 THEN [out |-> <<>>, cut |-> TRUE]
           ELSE [out |-> Copies(IF n = 4 THEN 4 + q[5] ELSE n, q[1]) \o rest.out, cut |-> rest.cut]

Expected == Expanded(Unmasked(original))

----------------------------------------------------------------------------
(* generateMTFValues writes its values into the array it reads the order
   from (mtfv and ptr are arr1): it never writes ahead of what it has read,
   with a run still to be written and the end of the block to come, in
   whatever order the bytes come. *)
WriteBehindRead ==
  estate \in {"mtf", "fit"} => Len(mtf.mtfv \o RunSymbols(mtf.zPend)) <= mtf.i + (IF estate = "fit" THEN 1 ELSE 0)

DecodesBack ==
  (~damaged /\ dstate \in {"output", "done", "error"}) =>
    /\ Expected.cut \/ IsPrefix(delivered, Expected.out)
    /\ dstate = "done" => ~Expected.cut /\ delivered = Expected.out
    /\ dstate = "error" => Expected.cut
    /\ dstate # "error" => u.crc = delivered /\ pos = Len(input)

(* The decoder gives the bytes the encoder was given, however the input and
   the output are cut, in normal and small mode, randomised or not, and reads
   all bits of the block and none beyond; the CRC is taken over exactly these
   bytes; and an error is found only in a block that ends inside a run.  Only
   a block whose sort failed is excepted. *)
RoundTrip == sorted => DecodesBack

(* Whatever bit is changed, a block that is accepted fits its memory and
   names only tables and bytes it has, and its rows are one permutation. *)
WithinBounds ==
  /\ dstate \in {"literal", "EOB", "output"} =>
       /\ Len(s.col) <= nblockMAX /\ Range(s.col) \subseteq s.inUse
       /\ Range(s.selector) \subseteq DOMAIN s.tables
  /\ (dstate = "output" /\ ~s.small) =>
       {v.tt[i].next : i \in DOMAIN v.tt} = DOMAIN v.tt /\ u.tPos \in DOMAIN v.tt

(* Damaged or not, and however the input is cut, a block is judged as the
   reference implementation judges it: accepted with the same column after the
   same bits, refused, or found to end too early (requirements/REQUIREMENTS.md:25).
   If accepted, it is within the bounds of its memory. *)
Refused == dstate = "error" /\ v = <<>>
Lacking == inCall /\ dstate \in Labels /\ pos + Width > Len(input)
SameVerdict ==
  /\ WithinBounds
  /\ dstate = "output" /\ delivered = <<>> =>
       LET d == RefBlock(s.origPtr) IN d.at = "EOB" /\ d.col = s.col /\ d.pos = pos
  /\ Refused => RefBlock(s.origPtr).at = "error"
  /\ Lacking => RefBlock(s.origPtr).at = "starved"

(* A failed sort does no harm: "SA construction failed -- fall through with
   origPtr = -1" (blocksort.c:46), so that AssertH 1003 (363) stops it, and no
   block is encoded, in an order left by another, that is decoded to other bytes
   or not at all. *)
FailedSortHarmless == sorted \/ DecodesBack
=============================================================================
