------------------------------ MODULE Recover ------------------------------
(***************************************************************************)
(* bzip2recover (reference/bzip2/bzip2recover.c): two passes over the bits *)
(* of a damaged file.  The first finds the marks, the headers of blocks    *)
(* and the ends of streams, at any bit; the second writes the bits between *)
(* two of them to a file of their own, a stream of one block.              *)
(*                                                                         *)
(* The marks have 48 bits, a CRC 32, a block at least 131; here they are   *)
(* constants, and bits are counted as they are there.                      *)
(***************************************************************************)
EXTENDS Integers, SequencesExt, Accumulation

CONSTANTS
  StreamHeader, BlockHeader, EndMark,    \* sequences of bits
  ByteBits, CrcBits,
  MinBits,        \* what is no longer than that between two marks is no block
  MaxBlocks,      \* BZ_MAX_HANDLED_BLOCKS
  Images,         \* [bits: a file, blocks: the blocks in it that are undamaged]
  Existing        \* which of the outputs, by number, may exist already

Bit == {0, 1}

ASSUME MarkAssumption ==
  /\ {StreamHeader, BlockHeader, EndMark} \subseteq Seq(Bit)
  /\ Len(BlockHeader) = Len(EndMark) /\ EndMark # <<>>
  /\ ByteBits \in Nat \ {0} /\ {CrcBits, MinBits} \subseteq Nat
  /\ CrcBits <= Len(EndMark) /\ Len(EndMark) <= MinBits

\* Where marks end, and what is between a mark and the next when it is as long as a block.
MarkEnds(bits) == {n \in Len(EndMark)..Len(bits) : SubSeq(bits, n - Len(EndMark) + 1, n) \in {BlockHeader, EndMark}}
Neighbours(bits, s, t) == {s, t} \subseteq MarkEnds(bits) /\ s < t /\ \A m \in MarkEnds(bits) : m <= s \/ t <= m
Holds(bits, block) ==
  \E s, t \in MarkEnds(bits) : /\ Neighbours(bits, s, t) /\ t - s - Len(EndMark) > MinBits
                              /\ block = SubSeq(bits, s + 1, t - Len(EndMark))

ASSUME ImageAssumption == \A i \in Images : i.bits \in Seq(Bit) /\ \A block \in i.blocks : Holds(i.bits, block)

VARIABLES
  image,      \* the file
  taken,      \* the numbers of output files that exist already
  scan,       \* the locals of main that both passes use, and the boundaries found
  wr,         \* outFile and bsWr: [open, buffer, bytes], bytes as bits
  made        \* the outputs finished

recvars == <<image, taken, scan, wr, made>>

NoFile == [open |-> FALSE, buffer |-> <<>>, bytes |-> <<>>]
RecoverInit ==
  /\ image \in Images /\ taken \in Existing
  /\ scan = [pc |-> "search", bitsRead |-> 0, buff |-> <<>>, currBlock |-> 0, start |-> 0,
             rb |-> <<>>, wrBlock |-> 0, blockCRC |-> <<>>]
  /\ wr = NoFile /\ made = <<>>

----------------------------------------------------------------------------
(* Bit streams *)

AtEnd == scan.bitsRead = Len(image.bits)
bsGetBit == image.bits[scan.bitsRead + 1]
bsPutBit(w, bit) ==
  IF Len(w.buffer) = ByteBits THEN [w EXCEPT !.bytes = @ \o w.buffer, !.buffer = <<bit>>]
  ELSE [w EXCEPT !.buffer = Append(@, bit)]
Writer == [open : BOOLEAN, buffer : Seq(Bit), bytes : Seq(Bit)]
PutStep == [x \in Writer \X Bit |-> bsPutBit(x[1], x[2])]
bsPut(w, bits) == Accumulate(PutStep, w, bits)
bsClose(w) == w.bytes \o w.buffer \o [i \in 1..(ByteBits - Len(w.buffer)) |-> 0]

\* buffHi and buffLo, as many of their bits as a mark has.
Shifted(buff, bit) == LET b == Append(buff, bit) IN IF Len(b) > Len(EndMark) THEN Tail(b) ELSE b

----------------------------------------------------------------------------
(* The first pass *)

\* The index of the last bit before a mark that ends with the bit just read.
EndBefore(n) == IF n > Len(EndMark) + 1 THEN n - (Len(EndMark) + 1) ELSE 0

\* Lengths are unsigned: between two marks side by side there is one that is very long.
IsBlock(start, end) == scan.currBlock > 0 /\ (end < start \/ end - start >= MinBits)

tooManyBlocks == scan.currBlock >= MaxBlocks

\* tooManyBlocks comes one mark late, when bStart[MaxBlocks], past its array, is stored
\* already: the images have fewer marks than that.
Search ==
  /\ scan.pc = "search" /\ ~AtEnd
  /\ LET n == scan.bitsRead + 1
         buff == Shifted(scan.buff, bsGetBit)
         end == EndBefore(n)
         rb == IF IsBlock(scan.start, end) THEN Append(scan.rb, [start |-> scan.start, end |-> end]) ELSE scan.rb
     IN  scan' = IF buff \notin {BlockHeader, EndMark} THEN [scan EXCEPT !.bitsRead = n, !.buff = buff]
                 ELSE IF tooManyBlocks THEN [scan EXCEPT !.pc = "failed"]
                 ELSE [scan EXCEPT !.bitsRead = n, !.buff = buff, !.rb = rb, !.currBlock = @ + 1, !.start = n]
  /\ UNCHANGED <<image, taken, wr, made>>

Searched ==
  /\ scan.pc = "search" /\ AtEnd
  /\ scan' = IF scan.rb = <<>> THEN [scan EXCEPT !.pc = "failed"] ELSE [scan EXCEPT !.pc = "split", !.bitsRead = 0]
  /\ UNCHANGED <<image, taken, wr, made>>

----------------------------------------------------------------------------
(* The second pass *)

\* rbStart, rbEnd: zero after the last block.
Block == IF scan.wrBlock < Len(scan.rb) THEN scan.rb[scan.wrBlock + 1] ELSE [start |-> 0, end |-> 0]

\* Bug: the CRC is taken one bit too early.
CrcSeen_Early == scan.bitsRead = Len(EndMark) - 2 + Block.start

\* When 48 bits of the block have gone by, the high ones are its CRC.
CrcSeen == scan.bitsRead = Len(EndMark) - 1 + Block.start

EndFile(w, crc) == bsClose(bsPut(bsPut(w, EndMark), crc))
BeginFile == bsPut([NoFile EXCEPT !.open = TRUE], StreamHeader \o BlockHeader)

\* O_EXCL: only a file that is not there yet.
Creatable(k) == k \notin taken

\* The next file begins after the bit just read.
Begin(s) ==
  /\ UNCHANGED made
  /\ IF Creatable(scan.wrBlock + 1) THEN scan' = s /\ wr' = BeginFile
     ELSE scan' = [s EXCEPT !.pc = "failed"] /\ UNCHANGED wr

\* The block ends with the bit just read.
End(s, w) ==
  /\ made' = IF w.open THEN Append(made, EndFile(w, s.blockCRC)) ELSE made
  /\ wr' = NoFile
  /\ scan' = IF scan.wrBlock >= Len(scan.rb) THEN [s EXCEPT !.pc = "finished"] ELSE [s EXCEPT !.wrBlock = @ + 1]

Split ==
  /\ scan.pc = "split" /\ ~AtEnd
  /\ LET n == scan.bitsRead + 1
         buff == Shifted(scan.buff, bsGetBit)
         s == [scan EXCEPT !.bitsRead = n, !.buff = buff, !.blockCRC = IF CrcSeen THEN SubSeq(buff, 1, CrcBits) ELSE @]
         w == IF wr.open /\ scan.bitsRead \in Block.start..Block.end THEN bsPutBit(wr, bsGetBit) ELSE wr
     IN  IF n = Block.end + 1 THEN End(s, w)
         ELSE IF n = Block.start THEN Begin(s)
         ELSE scan' = s /\ wr' = w /\ UNCHANGED made
  /\ UNCHANGED <<image, taken>>

Finished ==
  /\ scan.pc = "split" /\ AtEnd
  /\ scan' = [scan EXCEPT !.pc = "finished"]
  /\ UNCHANGED <<image, taken, wr, made>>

\* A call of the C library fails: to open, to read, to write; so does the end of the file while errno is not 0.
IOError ==
  /\ scan.pc \in {"search", "split"} /\ (scan.bitsRead = 0 \/ AtEnd \/ wr.open)
  /\ scan' = [scan EXCEPT !.pc = "failed"]
  /\ UNCHANGED <<image, taken, wr, made>>

RecoverNext ==
  \/ Search \/ Searched \/ Split \/ Finished \/ IOError
  \/ scan.pc \in {"finished", "failed"} /\ UNCHANGED recvars
RecoverSpec == RecoverInit /\ [][RecoverNext]_recvars

----------------------------------------------------------------------------
\* Bits in a file of whole bytes, with fewer zeros after them than a byte has.
InBytes(file, bits) ==
  Len(file) % ByteBits = 0 /\ \E n \in 0..ByteBits - 1 : file = bits \o [i \in 1..n |-> 0]

\* A stream of one block, whose CRC, the first bits of the block, is that of the stream.
OneBlock(block) == (StreamHeader \o BlockHeader) \o block \o EndMark \o SubSeq(block, 1, CrcBits)

\* bzip2recover.c:395-520, manual.xml:555-577: whatever bit of the file is damaged, every block that is
\* not has an output of its own, the stream of that block alone, in whole bytes.
BlocksRecovered ==
  scan.pc = "finished" =>
    \A block \in image.blocks : \E k \in DOMAIN made : InBytes(made[k], OneBlock(block))
=============================================================================
