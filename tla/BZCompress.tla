----------------------------- MODULE BZCompress -----------------------------
(***************************************************************************)
(* The compression stream of libqbz2: BZ2_bzCompressInit, BZ2_bzCompress,  *)
(* BZ2_bzCompressEnd (src/bzlib.c) and BZ2_compressBlock with its bit      *)
(* writer (src/compress.c).                                                *)
(*                                                                         *)
(* A call of BZ2_bzCompress is a sequence of steps.  The caller enters     *)
(* with an action, avail_in and avail_out (pc goes to "loop"); each step   *)
(* of handle_compress is one action: the OUTPUT half of the loop, one byte *)
(* absorbed by the INPUT half, one cut of a block; "ret" evaluates the     *)
(* return value.  The bytes behind next_in are chosen when they are read.  *)
(*                                                                         *)
(* The compressed stream is a sequence of sections (header, blocks,        *)
(* trailer); what the bit writer emits for a section is a sequence of      *)
(* units <<section number, index>>, one unit standing for a byte, Word     *)
(* units for the 32 bits that bsNEEDW moves at once.  A CRC is the         *)
(* sequence of the bytes it was computed from.                             *)
(***************************************************************************)
EXTENDS Integers, Sequences, FiniteSets

CONSTANTS
  Bytes,      \* the bytes a caller may supply
  MaxRun,     \* 255: the longest run of the input run-length coder
  NblockMax,  \* s->nblockMAX, 100000 * blockSize100k - 19
  BlkSlack,   \* 19: what nblockMAX leaves of the 100000 * blockSize100k bytes
  W,          \* 2^32: the wrap of total_in_lo32 and total_out_lo32
  Word,       \* the units that bsNEEDW moves at once (4 bytes)
  BlkUnits,   \* the sizes a compressed block may have, in units
  LastUnits,  \* the sizes of the last code of a block, written by one bsW
  TrlUnits,   \* the size of the trailer, in units
  MaxIn,      \* BOUND: the bytes a caller supplies in the life of a stream
  MaxOut      \* BOUND: the largest avail_out of a call

ASSUME BytesAssumption   == Bytes \subseteq 0..255
ASSUME MaxRunAssumption  == MaxRun \in 4..255
ASSUME BlockAssumption   == NblockMax \in Nat \ {0} /\ BlkSlack \in Nat /\ BlkSlack > 5
ASSUME CounterAssumption == W \in Nat \ {0} /\ MaxOut \in Nat /\ MaxOut < W
ASSUME UnitAssumption    == /\ Word \in Nat \ {0}
                            /\ BlkUnits \subseteq {n \in Nat : n > Word}
                            /\ LastUnits \subseteq 1..Word
                            /\ TrlUnits \in Nat /\ TrlUnits > Word
ASSUME BoundAssumption   == MaxIn \in Nat

Allocations == {"s", "arr1", "arr2", "ftab"}
Modes       == {"IDLE", "RUNNING", "FLUSHING", "FINISHING"}
Actions     == {"RUN", "FLUSH", "FINISH", "OTHER"}
Returns     == {"OK", "RUN_OK", "FLUSH_OK", "FINISH_OK", "STREAM_END",
                "PARAM_ERROR", "SEQUENCE_ERROR", "MEM_ERROR"}
NoCh        == 256                 \* state_in_ch when no run is pending
Garbage     == <<0, 0>>            \* a unit no section has: an unset bsBuff

VARIABLES
  open,        \* strm->state is not NULL
  live,        \* what bzalloc gave and bzfree has not taken back
  mode, state, expect,             \* s->mode, s->state, s->avail_in_expect
  inCh, inLen,                     \* s->state_in_ch, s->state_in_len
  block, inUse, blockCRC,          \* s->block[0 .. nblock-1], s->inUse, s->blockCRC
  blockNo, combinedCRC,
  zbits, pos,                      \* s->zbits[0 .. numZ-1], s->state_out_pos
  hold,                            \* the units still in s->bsBuff
  availIn, availOut,               \* strm->avail_in, strm->avail_out
  totalIn, totalOut,               \* strm->total_{in,out}_{lo,hi}32
  pc, progress, ret,               \* where the call is, progress_in || progress_out
  consumed, sections, written, sent
    \* history: bytes read, sections emitted, units written by bsW, units delivered

rle    == <<inCh, inLen, block, inUse, blockCRC>>
coder  == <<blockNo, combinedCRC, zbits, pos, hold>>
caller == <<availIn, availOut, totalIn, totalOut>>
hist   == <<consumed, sections, written, sent>>
vars   == <<open, live, mode, state, expect, rle, coder, caller, pc, progress, ret, hist>>

nblock     == Len(block)
numZ       == Len(zbits)
isempty_RL == ~(inCh < NoCh /\ inLen > 0)

-----------------------------------------------------------------------------
(* Lifetime of the stream *)

Init ==
  /\ open = FALSE /\ live = {}
  /\ mode = "IDLE" /\ state = "INPUT" /\ expect = 0       \* no EState yet
  /\ inCh = NoCh /\ inLen = 0 /\ block = <<>> /\ inUse = {} /\ blockCRC = <<>>
  /\ blockNo = 0 /\ combinedCRC = <<>> /\ zbits = <<>> /\ pos = 0 /\ hold = <<>>
  /\ availIn = 0 /\ availOut = 0
  /\ totalIn = [lo |-> 0, hi |-> 0] /\ totalOut = [lo |-> 0, hi |-> 0]
  /\ pc = "caller" /\ progress = FALSE /\ ret = "OK"
  /\ consumed = <<>> /\ sections = <<>> /\ written = <<>> /\ sent = <<>>

init_RL == inCh' = NoCh /\ inLen' = 0

(* init_RL, then prepare_new_block, on fresh memory.  The allocator does   *)
(* not clear the EState: avail_in_expect and bsBuff start with any value.  *)
CompressInitOK ==
  /\ pc = "caller" /\ ~open
  /\ live' = live \union Allocations
  /\ open' = TRUE /\ mode' = "RUNNING" /\ state' = "INPUT"
  /\ expect' \in {0, MaxIn}
  /\ init_RL
  /\ block' = <<>> /\ inUse' = {} /\ blockCRC' = <<>>
  /\ blockNo' = 1 /\ combinedCRC' = <<>> /\ zbits' = <<>> /\ pos' = 0
  /\ hold' = <<Garbage>>
  /\ totalIn' = [lo |-> 0, hi |-> 0] /\ totalOut' = [lo |-> 0, hi |-> 0]
  /\ consumed' = <<>> /\ sections' = <<>> /\ written' = <<>> /\ sent' = <<>>
  /\ ret' = "OK"
  /\ UNCHANGED <<availIn, availOut, pc, progress>>

(* Of the four allocations any may fail; without the first the other three *)
(* are not tried.                                                          *)
FreeOnFailure(got) == got

CompressInitFails ==
  /\ pc = "caller" /\ ~open
  /\ \E got \in SUBSET Allocations :
       /\ got # Allocations
       /\ "s" \notin got => got = {}
       /\ live' = (live \union got) \ FreeOnFailure(got)
  /\ ret' = "MEM_ERROR"
  /\ UNCHANGED <<open, mode, state, expect, rle, coder, caller, pc, progress, hist>>

(* The EState is gone: its fields get the values they have in Init. *)
CompressEnd ==
  /\ pc = "caller" /\ open
  /\ live' = live \ Allocations
  /\ open' = FALSE
  /\ mode' = "IDLE" /\ state' = "INPUT" /\ expect' = 0
  /\ inCh' = NoCh /\ inLen' = 0 /\ block' = <<>> /\ inUse' = {} /\ blockCRC' = <<>>
  /\ blockNo' = 0 /\ combinedCRC' = <<>> /\ zbits' = <<>> /\ pos' = 0 /\ hold' = <<>>
  /\ consumed' = <<>> /\ sections' = <<>> /\ written' = <<>> /\ sent' = <<>>
  /\ ret' = "OK"
  /\ UNCHANGED <<caller, pc, progress>>

(* BZ2_bzCompress or BZ2_bzCompressEnd on a stream without a state. *)
NoState ==
  /\ pc = "caller" /\ ~open
  /\ ret' = "PARAM_ERROR"
  /\ UNCHANGED <<open, live, mode, state, expect, rle, coder, caller, pc, progress, hist>>

-----------------------------------------------------------------------------
(* Entering BZ2_bzCompress: the switch on s->mode *)

Offer(n, m) == n \in 0 .. (MaxIn - Len(consumed)) /\ m \in 0 .. MaxOut

(* FLUSH and FINISH from RUNNING note avail_in and go to preswitch again,  *)
(* where the note is equal to avail_in.                                    *)
StartMode(a) == IF a = "FLUSH" THEN "FLUSHING" ELSE "FINISHING"

EnterRun(a) ==
  /\ mode = "RUNNING" /\ a = "RUN"
  /\ UNCHANGED <<mode, expect>>

EnterStart(a, n) ==
  /\ mode = "RUNNING" /\ a \in {"FLUSH", "FINISH"}
  /\ mode' = StartMode(a)
  /\ expect' = n

(* A mutant: avail_in is not compared with avail_in_expect. *)
EnterAgain_Trusting(a, n) ==
  /\ mode \in {"FLUSHING", "FINISHING"} /\ a \in {"FLUSH", "FINISH"}
  /\ mode = StartMode(a)
  /\ UNCHANGED <<mode, expect>>

EnterAgain(a, n) ==
  /\ mode \in {"FLUSHING", "FINISHING"} /\ a \in {"FLUSH", "FINISH"}
  /\ mode = StartMode(a)
  /\ expect = n
  /\ UNCHANGED <<mode, expect>>

Enter(a, n, m) ==
  /\ pc = "caller" /\ open
  /\ Offer(n, m)
  /\ EnterRun(a) \/ EnterStart(a, n) \/ EnterAgain(a, n)
  /\ availIn' = n /\ availOut' = m
  /\ pc' = "loop" /\ progress' = FALSE
  /\ UNCHANGED <<open, live, state, rle, coder, totalIn, totalOut, ret, hist>>

(* The calls the switch turns away, with the stream left as it was. *)
RefusedWith(a, n) ==
  CASE mode = "IDLE"                      -> "SEQUENCE_ERROR"
    [] mode = "RUNNING" /\ a = "OTHER"    -> "PARAM_ERROR"
    [] mode \in {"FLUSHING", "FINISHING"}
       /\ (a \notin {"FLUSH", "FINISH"} \/ mode # StartMode(a) \/ expect # n)
                                          -> "SEQUENCE_ERROR"
    [] OTHER                              -> "accepted"

Refuse(a, n, m) ==
  /\ pc = "caller" /\ open
  /\ Offer(n, m)
  /\ RefusedWith(a, n) # "accepted"
  /\ ret' = RefusedWith(a, n)
  /\ availIn' = n /\ availOut' = m
  /\ UNCHANGED <<open, live, mode, state, expect, rle, coder, totalIn, totalOut,
                 pc, progress, hist>>

-----------------------------------------------------------------------------
(* The input half of handle_compress: copy_input_until_stop *)

(* Mutants: a count that is one too large, a CRC of the coded bytes. *)
Pair_CountsOneMore(ch, len) == IF len \in 1..3 THEN [i \in 1..len |-> ch]
                                               ELSE <<ch, ch, ch, ch, (len - 3) % 256>>

(* add_pair_to_block: what a run of len bytes ch puts into the block. *)
Pair(ch, len) == IF len \in 1..3 THEN [i \in 1..len |-> ch]
                                 ELSE <<ch, ch, ch, ch, (len - 4) % 256>>
PairUse(ch, len) == IF len \in 1..3 THEN {ch} ELSE {ch, (len - 4) % 256}
Run(ch, len) == [i \in 1..len |-> ch]

add_pair_to_block_CodedCRC ==
  /\ block'    = block \o Pair(inCh, inLen)
  /\ inUse'    = inUse \union PairUse(inCh, inLen)
  /\ blockCRC' = blockCRC \o Pair(inCh, inLen)

add_pair_to_block ==
  /\ block'    = block \o Pair(inCh, inLen)
  /\ inUse'    = inUse \union PairUse(inCh, inLen)
  /\ blockCRC' = blockCRC \o Run(inCh, inLen)

ADD_CHAR_TO_BLOCK(c) ==
  \/ /\ c # inCh /\ inLen = 1          \* the fast track: a run of one ends
     /\ block' = Append(block, inCh)
     /\ inUse' = inUse \union {inCh}
     /\ blockCRC' = Append(blockCRC, inCh)
     /\ inCh' = c /\ UNCHANGED inLen
  \/ /\ ~(c # inCh /\ inLen = 1)
     /\ c # inCh \/ inLen = MaxRun
     /\ IF inCh < NoCh THEN add_pair_to_block ELSE UNCHANGED <<block, inUse, blockCRC>>
     /\ inCh' = c /\ inLen' = 1
  \/ /\ c = inCh /\ inLen # MaxRun
     /\ inLen' = inLen + 1
     /\ UNCHANGED <<inCh, block, inUse, blockCRC>>

(* A mutant: the block is never full. *)
CanAbsorb_NoLimit == availIn > 0 /\ (mode = "RUNNING" \/ expect > 0)

CanAbsorb == /\ nblock < NblockMax
             /\ availIn > 0
             /\ mode = "RUNNING" \/ expect > 0

(* A mutant: the low word does not wrap. *)
CountIn_NoWrap(t) == [lo |-> t.lo + 1, hi |-> t.hi]

(* total_in_lo32++ with the carry into total_in_hi32. *)
CountIn(t) == LET lo == (t.lo + 1) % W
              IN [lo |-> lo, hi |-> IF lo = 0 THEN (t.hi + 1) % W ELSE t.hi]

(* One round of the copy loop: one byte. *)
AbsorbByte ==
  /\ pc = "loop" /\ state = "INPUT" /\ CanAbsorb
  /\ \E c \in Bytes : ADD_CHAR_TO_BLOCK(c) /\ consumed' = Append(consumed, c)
  /\ availIn' = availIn - 1
  /\ totalIn' = CountIn(totalIn)
  /\ expect' = IF mode = "RUNNING" THEN expect ELSE expect - 1
  /\ progress' = TRUE
  /\ UNCHANGED <<open, live, mode, state, coder, availOut, totalOut, pc, ret,
                 sections, written, sent>>

-----------------------------------------------------------------------------
(* BZ2_compressBlock and the bit writer *)

Section(k, d, c, u) == [kind |-> k, data |-> d, crc |-> c, units |-> u]
Units(k, n) == [i \in 1..n |-> <<k, i>>]

(* The units that bsNEEDW has moved when n units were in the buffer, the   *)
(* last w of them by one bsW: it makes room before it writes, so its own   *)
(* units stay behind with less than a word of others.  w = 0: no bsW ran.  *)
FullWords(n, w) == IF w = 0 \/ n < w THEN 0 ELSE Word * ((n - w) \div Word)

(* Mutants: bsBuff is cleared for each block; bsFinishWrite is forgotten. *)
WriteUnits_DropsBuffer(zs, all, last, w) ==
  LET k == IF last THEN Len(all) ELSE FullWords(Len(all), w)
  IN zbits' = zs \o SubSeq(all, 1, k) /\ hold' = <<>>
WriteUnits_NoFinish(zs, all, last, w) ==
  LET k == FullWords(Len(all), w)
  IN /\ zbits' = zs \o SubSeq(all, 1, k)
     /\ hold'  = SubSeq(all, k + 1, Len(all))

(* What the buffer had and the new units: bsW for each of the new ones     *)
(* and, after the last block, bsFinishWrite.                               *)
WriteUnits(zs, all, last, w) ==
  LET k == IF last THEN Len(all) ELSE FullWords(Len(all), w)
  IN /\ zbits' = zs \o SubSeq(all, 1, k)
     /\ hold'  = SubSeq(all, k + 1, Len(all))

(* The block, its crc and combined crc when BZ2_compressBlock is called. *)
CompressBlock(blk, crc, last) ==
  LET full == blk # <<>>
      comb == IF full THEN Append(combinedCRC, crc) ELSE combinedCRC
      n0   == Len(sections)
      n1   == IF blockNo = 1 THEN n0 + 1 ELSE n0
      n2   == IF full THEN n1 + 1 ELSE n1
  IN \E u \in BlkUnits, v \in LastUnits :
       LET hdr == IF blockNo = 1 THEN <<Section("header", <<>>, <<>>, Word)>> ELSE <<>>
           bdy == IF full THEN <<Section("block", blk, <<crc>>, u)>> ELSE <<>>
           trl == IF last THEN <<Section("trailer", <<>>, comb, TrlUnits)>> ELSE <<>>
           new == (IF blockNo = 1 THEN Units(n1, Word) ELSE <<>>)
                  \o (IF full THEN Units(n2, u) ELSE <<>>)
                  \o (IF last THEN Units(n2 + 1, TrlUnits) ELSE <<>>)
           zs  == IF full /\ blockNo > 1 THEN <<>> ELSE zbits
           old == IF blockNo = 1 THEN <<>> ELSE hold       \* BZ2_bsInitWrite
           w   == IF full THEN v ELSE IF blockNo = 1 THEN 1 ELSE 0
       IN /\ combinedCRC' = comb
          /\ sections' = sections \o hdr \o bdy \o trl
          /\ written' = written \o new
          /\ WriteUnits(zs, old \o new, last, w)

StopAbsorbing == pc = "loop" /\ state = "INPUT" /\ ~CanAbsorb
MustCut       == mode # "RUNNING" /\ expect = 0

(* All that was promised is in: flush_RL, then the last block of the flush *)
(* or of the stream.                                                       *)
CutRest ==
  /\ StopAbsorbing /\ MustCut
  /\ IF inCh < NoCh
     THEN /\ add_pair_to_block
          /\ CompressBlock(block \o Pair(inCh, inLen), blockCRC \o Run(inCh, inLen),
                           mode = "FINISHING")
     ELSE /\ UNCHANGED <<block, inUse, blockCRC>>
          /\ CompressBlock(block, blockCRC, mode = "FINISHING")
  /\ init_RL
  /\ state' = "OUTPUT"
  /\ UNCHANGED <<open, live, mode, expect, blockNo, pos, caller, pc, progress, ret,
                 consumed, sent>>

(* The block is full; the pending run waits for the next one. *)
CutFull ==
  /\ StopAbsorbing /\ ~MustCut /\ nblock >= NblockMax
  /\ CompressBlock(block, blockCRC, FALSE)
  /\ state' = "OUTPUT"
  /\ UNCHANGED <<open, live, mode, expect, rle, blockNo, pos, caller, pc, progress, ret,
                 consumed, sent>>

Starve ==
  /\ StopAbsorbing /\ ~MustCut /\ nblock < NblockMax /\ availIn = 0
  /\ pc' = "ret"
  /\ UNCHANGED <<open, live, mode, state, expect, rle, coder, caller, progress, ret, hist>>

-----------------------------------------------------------------------------
(* The output half of handle_compress *)

CopyLen == IF numZ - pos < availOut THEN numZ - pos ELSE availOut

(* A mutant: no carry. *)
CountOut_NoCarry(t, n) == [lo |-> (t.lo + n) % W, hi |-> t.hi]

(* total_out_lo32 += n with the carry into total_out_hi32. *)
CountOut(t, n) == LET lo == (t.lo + n) % W
                  IN [lo |-> lo, hi |-> IF lo < t.lo THEN (t.hi + 1) % W ELSE t.hi]

(* A mutant: progress_out is not reported. *)
CopyOutput_NoProgress ==
  /\ sent' = sent \o SubSeq(zbits, pos + 1, pos + CopyLen)
  /\ availOut' = availOut - CopyLen
  /\ totalOut' = CountOut(totalOut, CopyLen)
  /\ UNCHANGED progress

(* copy_output_until_stop, but for the new state_out_pos. *)
CopyOutput ==
  /\ sent' = sent \o SubSeq(zbits, pos + 1, pos + CopyLen)
  /\ availOut' = availOut - CopyLen
  /\ totalOut' = CountOut(totalOut, CopyLen)
  /\ progress' = (progress \/ CopyLen > 0)

AllDone == expect = 0 /\ isempty_RL
Drained == pos + CopyLen >= numZ

(* The code compares blockNo with 1 only: 2 stands for every later block.  *)
NextBlockNo == IF blockNo = 0 THEN 1 ELSE 2

prepare_new_block ==
  /\ block' = <<>> /\ zbits' = <<>> /\ pos' = 0
  /\ blockCRC' = <<>> /\ inUse' = {} /\ blockNo' = NextBlockNo

(* Not all the output fits, or the stream is over: leave the loop. *)
OutputStops ==
  /\ pc = "loop" /\ state = "OUTPUT"
  /\ ~Drained \/ (mode = "FINISHING" /\ AllDone)
  /\ CopyOutput
  /\ pos' = pos + CopyLen
  /\ pc' = "ret"
  /\ UNCHANGED <<open, live, mode, state, expect, rle, blockNo, combinedCRC, zbits, hold,
                 availIn, totalIn, ret, consumed, sections, written>>

(* The block is out: begin the next, and leave the loop if a flush is over. *)
OutputNextBlock ==
  /\ pc = "loop" /\ state = "OUTPUT"
  /\ Drained /\ ~(mode = "FINISHING" /\ AllDone)
  /\ CopyOutput
  /\ prepare_new_block
  /\ state' = "INPUT"
  /\ pc' = IF mode = "FLUSHING" /\ AllDone THEN "ret" ELSE "loop"
  /\ UNCHANGED <<open, live, mode, expect, inCh, inLen, combinedCRC, hold,
                 availIn, totalIn, ret, consumed, sections, written>>

-----------------------------------------------------------------------------
(* Leaving BZ2_bzCompress *)

(* Mutants: output that waits is overlooked; an off-by-one in the test for it. *)
Unfinished_NoOutput == expect > 0 \/ ~isempty_RL
Unfinished_OffByOne == expect > 0 \/ ~isempty_RL \/ pos <= numZ

Unfinished == expect > 0 \/ ~isempty_RL \/ pos < numZ

Return ==
  /\ pc = "ret"
  /\ pc' = "caller" /\ progress' = FALSE
  /\ \/ /\ mode = "RUNNING"
        /\ ret' = IF progress THEN "RUN_OK" ELSE "PARAM_ERROR"
        /\ UNCHANGED mode
     \/ /\ mode = "FLUSHING"
        /\ ret'  = IF Unfinished THEN "FLUSH_OK" ELSE "RUN_OK"
        /\ mode' = IF Unfinished THEN mode ELSE "RUNNING"
     \/ /\ mode = "FINISHING" /\ ~progress
        /\ ret' = "SEQUENCE_ERROR"
        /\ UNCHANGED mode
     \/ /\ mode = "FINISHING" /\ progress
        /\ ret'  = IF Unfinished THEN "FINISH_OK" ELSE "STREAM_END"
        /\ mode' = IF Unfinished THEN mode ELSE "IDLE"
  /\ UNCHANGED <<open, live, state, expect, rle, coder, caller, hist>>

Library == AbsorbByte \/ CutRest \/ CutFull \/ Starve \/ OutputStops \/ OutputNextBlock
           \/ Return

Caller == \/ CompressInitOK \/ CompressInitFails \/ CompressEnd \/ NoState
          \/ \E a \in Actions, n \in 0..MaxIn, m \in 0..MaxOut :
               Enter(a, n, m) \/ Refuse(a, n, m)

Next == Library \/ Caller

Spec == Init /\ [][Next]_vars

(* A call of the library returns; a caller who asked to finish (to flush)  *)
(* asks again, with the same input and with room for output.               *)
Persist(a) == mode = StartMode(a) /\ \E m \in 1..MaxOut : Enter(a, expect, m)

FairSpec == Spec /\ WF_vars(Library) /\ SF_vars(Persist("FINISH")) /\ SF_vars(Persist("FLUSH"))
-----------------------------------------------------------------------------
(* Properties *)

Byte    == 0..255
Unit    == Nat \X Nat
SectionType == [kind : {"header", "block", "trailer"}, data : Seq(Byte),
                crc : Seq(Seq(Byte)), units : Nat]

TypeOK ==
  /\ open \in BOOLEAN /\ live \subseteq Allocations
  /\ mode \in Modes /\ state \in {"INPUT", "OUTPUT"} /\ expect \in 0..MaxIn
  /\ inCh \in Bytes \union {NoCh} /\ inLen \in 0..MaxRun
  /\ block \in Seq(Byte) /\ inUse \subseteq Byte /\ blockCRC \in Seq(Byte)
  /\ blockNo \in 0..2 /\ combinedCRC \in Seq(Seq(Byte))
  /\ zbits \in Seq(Unit) /\ pos \in Nat /\ hold \in Seq(Unit)
  /\ availIn \in 0..MaxIn /\ availOut \in 0..MaxOut
  /\ totalIn \in [lo : 0..W-1, hi : 0..W-1]
  /\ totalOut \in [lo : 0..W-1, hi : 0..W-1]
  /\ pc \in {"caller", "loop", "ret"} /\ progress \in BOOLEAN /\ ret \in Returns
  /\ consumed \in Seq(Bytes)
  /\ sections \in Seq(SectionType)
  /\ written \in Seq(Unit) /\ sent \in Seq(Unit)

(* add_pair_to_block and flush_RL store up to five bytes each without a    *)
(* bound check.  The block never reaches the end of its 100000 *           *)
(* blockSize100k bytes: a byte absorbed just below nblockMAX adds a pair   *)
(* of up to five, which leaves a run of one for flush_RL to add.           *)
BlockFits == nblock <= NblockMax + 5 /\ nblock < NblockMax + BlkSlack

(* The run-length coder has a pending byte exactly when it has a pending   *)
(* run: add_pair_to_block with state_in_len 0 would index inUse[-4].       *)
RunPending == (inCh < NoCh) <=> (inLen > 0)

(* What bsW wrote reaches the caller complete, in order and once: what was *)
(* delivered, what waits in zbits and what waits in bsBuff are all of it,  *)
(* whatever avail_out each call had and however often zbits is reused.     *)
Pending   == SubSeq(zbits, pos + 1, numZ)
Unwritten == IF sections = <<>> THEN <<>> ELSE hold
NoByteLost == open => sent \o Pending \o Unwritten = written

(* BZ_STREAM_END is not reported before the trailer is written and all of  *)
(* the stream is delivered; nothing of the input is left behind.  (The     *)
(* early exit of the loop in FINISHING does not look at the trailer.)      *)
TrailerWritten == sections # <<>> /\ sections[Len(sections)].kind = "trailer"
StreamEndComplete ==
  open /\ mode = "IDLE" => /\ TrailerWritten
                           /\ sent = written
                           /\ expect = 0 /\ isempty_RL

(* Between calls in RUNNING with output waiting, the coder has a pending   *)
(* run: it is what keeps a FINISH that starts there, with no more input,   *)
(* from leaving the loop before it has written a trailer.                  *)
OutputHasRun == open /\ mode = "RUNNING" /\ state = "OUTPUT" => ~isempty_RL

(* Allocation: a stream that failed to open, or was ended, holds no memory *)
(* and an open one holds all four allocations.                             *)
NoLeak == live = IF open THEN Allocations ELSE {}

(* total_{in,out}_{hi,lo}32 count the bytes read and delivered, across the *)
(* wrap of the low words.                                                  *)
Total(t) == t.hi * W + t.lo
CountersExact == open => /\ Total(totalIn)  = Len(consumed) % (W * W)
                         /\ Total(totalOut) = Len(sent) % (W * W)

(* While it flushes or finishes, the input the library may still take is   *)
(* what is left of the input the caller had when it asked: more cannot be  *)
(* slipped in, and less does not end the flush or the stream.              *)
PromiseKept ==
  mode \in {"FLUSHING", "FINISHING"} /\ pc \in {"loop", "ret"} => expect = availIn

(* A flush that reports BZ_RUN_OK has cut all the input it was given into  *)
(* blocks and has delivered all of zbits.                                  *)
FlushOver == open /\ mode = "FLUSHING" /\ mode' = "RUNNING"
             => expect = 0 /\ isempty_RL /\ block = <<>> /\ pos = numZ /\ state = "INPUT"
FlushComplete == [][FlushOver]_vars

(* What the manual says of a flush that reports BZ_RUN_OK: all compressed  *)
(* output has been removed.  The code violates it: up to 48 bits stay in   *)
(* bsBuff, which no test of the return value looks at.                     *)
FlushDeliversAll ==
  [][open /\ mode = "FLUSHING" /\ mode' = "RUNNING" => sent = written]_vars

(* A caller who follows the protocol in FINISHING, with room for output,   *)
(* is never told BZ_SEQUENCE_ERROR: some progress is always possible.      *)
NoSpuriousError ==
  [][pc = "ret" /\ mode = "FINISHING" /\ availOut > 0 => ret' # "SEQUENCE_ERROR"]_vars

(* FINISH, repeated with room for output, ends the stream. *)
FinishEnds == (open /\ mode = "FINISHING") ~> (mode = "IDLE" \/ ~open)

(* FLUSH, repeated with room for output, returns the stream to RUNNING. *)
FlushEnds == (open /\ mode = "FLUSHING") ~> (mode = "RUNNING" \/ ~open)

(* Both: bzlib.c:383, 465. *)
RequestsEnd == FinishEnds /\ FlushEnds
-----------------------------------------------------------------------------
(* The inductive invariant behind the safety properties *)

Buffers ==
  /\ pos <= numZ
  /\ state = "INPUT" => zbits = <<>> /\ pos = 0

(* A block that is full has a run of one pending: the byte that filled it. *)
BlockRoom ==
  /\ nblock <= NblockMax + (IF state = "INPUT" THEN 4 ELSE 5)
  /\ state = "INPUT" /\ nblock >= NblockMax => inCh < NoCh /\ inLen = 1

Numbering == IF open THEN /\ blockNo \in 1..2
                          /\ sections = <<>> <=> (blockNo = 1 /\ state = "INPUT")
                     ELSE sections = <<>>

(* The trailer is the last thing written, and the finish waits for it. *)
TrailerLast ==
  /\ TrailerWritten => /\ mode \in {"FINISHING", "IDLE"} /\ state = "OUTPUT"
                       /\ hold = <<>> /\ AllDone
  /\ open /\ mode = "IDLE" => TrailerWritten /\ pos = numZ
  /\ mode = "FINISHING" /\ state = "OUTPUT" /\ AllDone => TrailerWritten

(* Why the loop was left. *)
Left ==
  /\ ~open \/ mode = "IDLE" => pc = "caller"
  /\ pc = "ret" /\ mode = "FINISHING" /\ state = "INPUT" => expect > 0
  /\ pc = "ret" /\ mode # "FINISHING" /\ state = "OUTPUT" => pos < numZ
  /\ pc = "ret" /\ mode = "FLUSHING" /\ state = "INPUT" /\ expect = 0 => block = <<>>

(* A finish that has nothing more to take has output to give, so a call    *)
(* with room for output makes progress.                                    *)
FinishMoves ==
  mode = "FINISHING" =>
    /\ state = "OUTPUT" /\ AllDone => pos < numZ \/ (pc = "ret" /\ progress)
    /\ pc = "ret" /\ availOut > 0 => progress

IInv == /\ TypeOK /\ RunPending /\ Buffers /\ BlockRoom /\ Numbering
        /\ NoByteLost /\ OutputHasRun /\ TrailerLast /\ Left
        /\ PromiseKept /\ NoLeak /\ FinishMoves /\ CountersExact
=============================================================================
