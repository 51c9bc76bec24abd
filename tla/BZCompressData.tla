--------------------------- MODULE BZCompressData ---------------------------
(***************************************************************************)
(* What the bytes in the compressor mean: the data properties of           *)
(* BZCompress, stated with the inverse of the input run-length coder.      *)
(***************************************************************************)
EXTENDS BZCompress, SequencesExt, Accumulation

(* The inverse of add_pair_to_block: after four equal bytes comes a count  *)
(* of further ones.  A decoder holds the output, the last byte and how     *)
(* often it was seen.                                                      *)
Decoder == [out : Seq(Byte), ch : Byte, n : 0..4]
Start   == [out |-> <<>>, ch |-> 0, n |-> 0]

UnRLEStep ==
  [x \in Decoder \X Byte |->
     LET d == x[1]
         b == x[2]
     IN IF d.n = 4
        THEN [out |-> d.out \o Run(d.ch, b), ch |-> d.ch, n |-> 0]
        ELSE [out |-> Append(d.out, b), ch |-> b,
              n |-> IF d.n > 0 /\ b = d.ch THEN d.n + 1 ELSE 1]]

UnRLE(s)  == Accumulate(UnRLEStep, Start, s)
UnRLE1(s) == UnRLE(s).out

(* What the blocks among the sections decode to, one by one and together. *)
DecodeStep == [x \in Seq(Seq(Byte)) \X SectionType |->
                 IF x[2].kind = "block" THEN Append(x[1], UnRLE1(x[2].data)) ELSE x[1]]
JoinStep   == [x \in Seq(Byte) \X Seq(Byte) |-> x[1] \o x[2]]

Decoded(secs) == Accumulate(DecodeStep, <<>>, secs)
Joined(parts) == Accumulate(JoinStep, <<>>, parts)

InBlocks == Joined(Decoded(sections))
InBlock  == IF state = "INPUT" THEN UnRLE1(block) ELSE <<>>
InRun    == Run(inCh, inLen)

(* Every byte the library reads is in exactly one place, in order: in an   *)
(* emitted block, in the block being filled, or in the pending run.  Runs  *)
(* that cross calls, flushes and block boundaries decode to what was read. *)
NoInputLost == open => consumed = InBlocks \o InBlock \o InRun

(* The CRC of a block is of the bytes that decoding it yields, and the     *)
(* trailer combines the CRCs of all the blocks in their order.             *)
CRCsMatch ==
  open => \A i \in 1..Len(sections) :
    /\ sections[i].kind = "block"   => sections[i].crc = << UnRLE1(sections[i].data) >>
    /\ sections[i].kind = "trailer" => sections[i].crc = Decoded(sections)

-----------------------------------------------------------------------------
(* The refinement: BZCompress implements CompressStream *)

phase == IF open THEN [IDLE |-> "ended", RUNNING |-> "running", FLUSHING |-> "flushing",
                       FINISHING |-> "finishing"][mode]
                 ELSE "closed"

(* The bytes behind the CRC of the block being filled, and the pending run. *)
Inside == (IF state = "INPUT" THEN blockCRC ELSE <<>>) \o InRun

(* What a flush or a finish has still to accept. *)
Owed == IF mode \in {"FLUSHING", "FINISHING"} THEN expect ELSE 0

(* What is produced and not delivered: in zbits and in bsBuff. *)
Undelivered == Len(Pending) + Len(Unwritten)

(* Of a section, without what the bit writer makes of it. *)
Shown(s) == [i \in 1..Len(s) |-> [kind |-> s[i].kind, crc |-> s[i].crc]]

(* What bsNEEDW leaves behind: less than a word, and the last code.         *)
ASSUME LastAssumption == LastUnits # {}
Remainder == Word - 1 + Max(LastUnits)

CS == INSTANCE CompressStream WITH
        owed    <- Owed,
        inside  <- Inside,
        covered <- combinedCRC,
        stream  <- Shown(sections),
        left    <- Undelivered

(* However calls, buffers, full blocks and flushes interleave, the stream  *)
(* does what CompressStream promises: in particular a flush is over only   *)
(* when all its input is in blocks and what is missing of the output is    *)
(* less than a word and the last code; the trailer, with the CRCs of all   *)
(* the blocks, ends the stream.                                            *)
Implements == CS!Spec

-----------------------------------------------------------------------------
(* The inductive invariant behind the refinement *)

(* The block is empty exactly when its CRC is of nothing, and what stays   *)
(* in bsBuff is less than a word and the last code.                        *)
Covers    == block = <<>> <=> blockCRC = <<>>
HoldShort == Len(hold) <= Remainder
RefInv    == Covers /\ HoldShort

(* Every byte read is behind the CRC of one block, or of none yet, in      *)
(* order: block i has what was read from cut i - 1 to cut i, and what is   *)
(* pending was read after the last cut.                                    *)
CutAt(cut, crcs, rest, read) ==
  /\ cut[0] = 0
  /\ \A i \in 1..Len(crcs) : /\ cut[i - 1] <= cut[i]
                             /\ crcs[i] = SubSeq(read, cut[i - 1] + 1, cut[i])
  /\ rest = SubSeq(read, cut[Len(crcs)] + 1, Len(read))

InputKept == open => \E cut \in [0..Len(combinedCRC) -> 0..Len(consumed)] :
                       CutAt(cut, combinedCRC, Inside, consumed)

-----------------------------------------------------------------------------
(* The inductive invariant behind the data properties *)

(* The block being filled decodes to the bytes behind its CRC, and the     *)
(* decoder is where it can tell the pending run from what came before: it  *)
(* waits for no count and has not seen the byte of the run.                *)
Filling ==
  open /\ state = "INPUT" =>
    /\ UnRLE(block).out = blockCRC
    /\ UnRLE(block).n < 4
    /\ IF inCh < NoCh THEN UnRLE(block).n = 0 \/ UnRLE(block).ch # inCh ELSE block = <<>>

(* The blocks decode to what is behind the combined CRC, one by one, and   *)
(* the trailer comes last.                                                 *)
Sound(secs, crcs) ==
  /\ Decoded(secs) = crcs
  /\ \A i \in 1..Len(secs) :
       /\ secs[i].kind = "block"   => secs[i].crc = << UnRLE1(secs[i].data) >>
       /\ secs[i].kind = "trailer" => i = Len(secs) /\ secs[i].crc = crcs

Emitted == open => Sound(sections, combinedCRC)

(* Every byte read is behind the CRC of a block or of none yet, in order.  *)
Placed == open => consumed = Joined(combinedCRC) \o Inside

DataInv == Filling /\ Emitted /\ Placed
=============================================================================
