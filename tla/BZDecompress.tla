---------------------------- MODULE BZDecompress ----------------------------
(***************************************************************************)
(* The decompression stream of libqbz2: BZ2_bzDecompressInit,              *)
(* BZ2_bzDecompress, BZ2_bzDecompressEnd (src/bzlib.c) and the resumable   *)
(* parser BZ2_decompress with its bit reader (src/decompress.c).           *)
(*                                                                         *)
(* A call of BZ2_bzDecompress is a sequence of steps: pc is "parse" while  *)
(* the parser runs, "output" in the OUTPUT state, "caller" between calls.  *)
(* The parser is always at a GET_BITS: `state` is its label and `want` the *)
(* number of bits it asks for.  The value that is read is chosen when the  *)
(* bits are taken; which bits they are is a matter of counting, since the  *)
(* bit buffer is a queue: bitsUsed counts the bits the parser has taken,   *)
(* bytesIn the bytes that went into the buffer.                            *)
(*                                                                         *)
(* From the mapping table to the end of the MTF values the parser is only  *)
(* known by the widths of its reads (state "BODY"), the block it yields by *)
(* the number of bytes it decodes to.                                      *)
(***************************************************************************)
EXTENDS Integers, Sequences, FiniteSets

CONSTANTS
  W,          \* 2^32: the wrap of total_in_lo32 and total_out_lo32
  SlowBits,   \* the widths of the reads of a block's tables and symbols
  FastBits,   \* the lengths of the codes the fast tables decode
  Chunks,     \* BOUND: the values of avail_in at a call
  Rooms,      \* BOUND: the values of avail_out at a call
  MaxBody,    \* BOUND: the reads that make the body of a block
  MaxBlocks,  \* BOUND: the blocks of a stream
  MaxYield    \* BOUND: the bytes a block decodes to

ASSUME CounterAssumption == W \in Nat /\ W > 4
ASSUME WidthAssumption   == SlowBits \subseteq 1..20 /\ FastBits \subseteq 1..20
ASSUME OfferAssumption   == /\ Chunks \subseteq Nat
                            /\ Rooms \subseteq {m \in Nat : m < W}
ASSUME BoundAssumption   == MaxBody \in Nat /\ MaxBlocks \in Nat /\ MaxYield \in Nat

(* The fields with a fixed successor: label, width, and what a wrong value *)
(* returns ("none": every value is accepted).                              *)
Chain == [
  MAGIC_1   |-> [next |-> "MAGIC_2",   bad |-> "DATA_ERROR_MAGIC"],
  MAGIC_2   |-> [next |-> "MAGIC_3",   bad |-> "DATA_ERROR_MAGIC"],
  MAGIC_3   |-> [next |-> "MAGIC_4",   bad |-> "DATA_ERROR_MAGIC"],
  BLKHDR_2  |-> [next |-> "BLKHDR_3",  bad |-> "DATA_ERROR"],
  BLKHDR_3  |-> [next |-> "BLKHDR_4",  bad |-> "DATA_ERROR"],
  BLKHDR_4  |-> [next |-> "BLKHDR_5",  bad |-> "DATA_ERROR"],
  BLKHDR_5  |-> [next |-> "BLKHDR_6",  bad |-> "DATA_ERROR"],
  BCRC_1    |-> [next |-> "BCRC_2",    bad |-> "none"],
  BCRC_2    |-> [next |-> "BCRC_3",    bad |-> "none"],
  BCRC_3    |-> [next |-> "BCRC_4",    bad |-> "none"],
  RANDBIT   |-> [next |-> "ORIGPTR_1", bad |-> "none"],
  ORIGPTR_1 |-> [next |-> "ORIGPTR_2", bad |-> "none"],
  ORIGPTR_2 |-> [next |-> "ORIGPTR_3", bad |-> "none"],
  ENDHDR_2  |-> [next |-> "ENDHDR_3",  bad |-> "DATA_ERROR"],
  ENDHDR_3  |-> [next |-> "ENDHDR_4",  bad |-> "DATA_ERROR"],
  ENDHDR_4  |-> [next |-> "ENDHDR_5",  bad |-> "DATA_ERROR"],
  ENDHDR_5  |-> [next |-> "ENDHDR_6",  bad |-> "DATA_ERROR"],
  ENDHDR_6  |-> [next |-> "CCRC_1",    bad |-> "DATA_ERROR"],
  CCRC_1    |-> [next |-> "CCRC_2",    bad |-> "none"],
  CCRC_2    |-> [next |-> "CCRC_3",    bad |-> "none"],
  CCRC_3    |-> [next |-> "CCRC_4",    bad |-> "none"] ]

Labels == {"MAGIC_1", "MAGIC_2", "MAGIC_3", "MAGIC_4",
           "BLKHDR_1", "BLKHDR_2", "BLKHDR_3", "BLKHDR_4", "BLKHDR_5", "BLKHDR_6",
           "BCRC_1", "BCRC_2", "BCRC_3", "BCRC_4", "RANDBIT",
           "ORIGPTR_1", "ORIGPTR_2", "ORIGPTR_3", "BODY",
           "ENDHDR_2", "ENDHDR_3", "ENDHDR_4", "ENDHDR_5", "ENDHDR_6",
           "CCRC_1", "CCRC_2", "CCRC_3", "CCRC_4"}
States == Labels \union {"IDLE", "OUTPUT"}
Width(st) == IF st = "RANDBIT" THEN 1 ELSE 8       \* "BODY" apart

Allocations == {"s", "tt", "ll16", "ll4"}
Returns == {"OK", "STREAM_END", "SEQUENCE_ERROR", "PARAM_ERROR", "MEM_ERROR",
            "DATA_ERROR", "DATA_ERROR_MAGIC"}

VARIABLES
  open, live, small,     \* strm->state # NULL; memory held; s->smallDecompress
  state, want,           \* s->state, the nnn of the GET_BITS it labels
  bsLive,                \* s->bsLive
  availIn, availOut,     \* strm->avail_in, strm->avail_out
  totalIn, totalOut,     \* strm->total_{in,out}_{lo,hi}32
  body, blocks,          \* reads left in the body at most, s->currBlockNo
  outLeft,               \* bytes of the block not yet delivered
  crcGood, combined,     \* stored block CRC is the data's; CRCs combined so far
  pc, ret,
  entryIn,               \* history: avail_in when the call began
  bytesIn, bytesOut,     \* history: bytes taken from next_in, bytes delivered
  bitsUsed, pad          \* history: bits taken by GET_BITS, bits dropped at the end

strm   == <<availIn, availOut, totalIn, totalOut>>
blk    == <<body, blocks, outLeft, crcGood, combined>>
hist   == <<entryIn, bytesIn, bytesOut, bitsUsed, pad>>
vars   == <<open, live, small, state, want, bsLive, strm, blk, pc, ret, hist>>

Zero == [lo |-> 0, hi |-> 0]

(* Mutants: the low word does not wrap; the push-back does not borrow. *)
CountUp_NoWrap(t, n) == [lo |-> t.lo + n, hi |-> t.hi]
CountDown_NoBorrow(t, n) == [lo |-> (t.lo - n) % W, hi |-> t.hi]

(* t += n with the carry: "old > new" for n > 1, "new = 0" for n = 1. *)
CountUp(t, n) == LET lo == (t.lo + n) % W
                 IN [lo |-> lo, hi |-> IF lo < t.lo THEN (t.hi + 1) % W ELSE t.hi]

(* The push-back of n bytes: borrow from the high word. *)
CountDown(t, n) == [lo |-> (t.lo - n) % W,
                    hi |-> IF t.lo < n THEN (t.hi - 1) % W ELSE t.hi]

-----------------------------------------------------------------------------
(* Lifetime *)

Init ==
  /\ open = FALSE /\ live = {} /\ small = FALSE
  /\ state = "IDLE" /\ want = 8 /\ bsLive = 0             \* no DState yet
  /\ availIn = 0 /\ availOut = 0 /\ totalIn = Zero /\ totalOut = Zero
  /\ body = 0 /\ blocks = 0 /\ outLeft = 0 /\ crcGood = TRUE /\ combined = 0
  /\ pc = "caller" /\ ret = "OK"
  /\ entryIn = 0 /\ bytesIn = 0 /\ bytesOut = 0 /\ bitsUsed = 0 /\ pad = 0

DecompressInit ==
  /\ pc = "caller" /\ ~open
  /\ open' = TRUE /\ live' = live \union {"s"} /\ small' \in BOOLEAN
  /\ state' = "MAGIC_1" /\ want' = 8 /\ bsLive' = 0
  /\ totalIn' = Zero /\ totalOut' = Zero
  /\ body' = 0 /\ blocks' = 0 /\ outLeft' = 0 /\ crcGood' = TRUE /\ combined' = 0
  /\ bytesIn' = 0 /\ bytesOut' = 0 /\ bitsUsed' = 0 /\ pad' = 0
  /\ ret' = "OK"
  /\ UNCHANGED <<availIn, availOut, pc, entryIn>>

DecompressInitFails ==
  /\ pc = "caller" /\ ~open
  /\ ret' = "MEM_ERROR"
  /\ UNCHANGED <<open, live, small, state, want, bsLive, strm, blk, pc, hist>>

(* The tables that are not NULL and the DState, whose fields get the       *)
(* values they have in Init.                                               *)
Freed_NoLl4 == live \intersect {"tt", "ll16", "s"}      \* a mutant: ll4 is kept
Freed == live \intersect {"tt", "ll16", "ll4", "s"}

DecompressEnd ==
  /\ pc = "caller" /\ open
  /\ open' = FALSE /\ live' = live \ Freed /\ small' = FALSE
  /\ state' = "IDLE" /\ want' = 8 /\ bsLive' = 0
  /\ body' = 0 /\ blocks' = 0 /\ outLeft' = 0 /\ crcGood' = TRUE /\ combined' = 0
  /\ bytesIn' = 0 /\ bytesOut' = 0 /\ bitsUsed' = 0 /\ pad' = 0
  /\ ret' = "OK"
  /\ UNCHANGED <<strm, pc, entryIn>>

(* BZ2_bzDecompress or BZ2_bzDecompressEnd on a stream without a state. *)
NoState ==
  /\ pc = "caller" /\ ~open
  /\ ret' = "PARAM_ERROR"
  /\ UNCHANGED <<open, live, small, state, want, bsLive, strm, blk, pc, hist>>

-----------------------------------------------------------------------------
(* BZ2_bzDecompress: the loop over OUTPUT and the parser *)

(* After an error a caller may only end the stream ("Allowable next actions"). *)
Call(n, m) ==
  /\ pc = "caller" /\ open /\ ret \in {"OK", "STREAM_END", "SEQUENCE_ERROR"}
  /\ availIn' = n /\ availOut' = m /\ entryIn' = n
  /\ IF state = "IDLE" THEN pc' = "caller" /\ ret' = "SEQUENCE_ERROR"
                       ELSE pc' = (IF state = "OUTPUT" THEN "output" ELSE "parse")
                            /\ UNCHANGED ret
  /\ UNCHANGED <<open, live, small, state, want, bsLive, totalIn, totalOut, blk,
                 bytesIn, bytesOut, bitsUsed, pad>>

Return(r) == pc' = "caller" /\ ret' = r

(* The input side: what GET_BITS does while bsLive < nnn. *)
TakeIn(n) ==
  /\ bsLive' = bsLive + 8 * n
  /\ availIn' = availIn - n
  /\ totalIn' = CountUp(totalIn, n)
  /\ bytesIn' = bytesIn + n

Starving_Eager == pc = "parse" /\ bsLive < 24   \* a mutant: 24 bits are kept ready
Starving == pc = "parse" /\ bsLive < want

RefillWord ==
  /\ Starving /\ availIn >= 4 /\ bsLive <= 32
  /\ TakeIn(4)
  /\ UNCHANGED <<open, live, small, state, want, availOut, totalOut, blk, pc, ret,
                 entryIn, bytesOut, bitsUsed, pad>>

RefillByte ==
  /\ Starving /\ ~(availIn >= 4 /\ bsLive <= 32) /\ availIn > 0
  /\ TakeIn(1)
  /\ UNCHANGED <<open, live, small, state, want, availOut, totalOut, blk, pc, ret,
                 entryIn, bytesOut, bitsUsed, pad>>

(* The input is used up in the middle of a field: save and return. *)
NeedInput ==
  /\ Starving /\ availIn = 0
  /\ Return("OK")
  /\ UNCHANGED <<open, live, small, state, want, bsLive, strm, blk, hist>>

-----------------------------------------------------------------------------
(* The fields.  TakeBits is the successful GET_BITS. *)

TakeBits(n) ==
  /\ bsLive >= n
  /\ bsLive' = bsLive - n
  /\ bitsUsed' = bitsUsed + n

At(st) == pc = "parse" /\ state = st /\ TakeBits(want)

Goto(st, n) == state' = st /\ want' = n /\ UNCHANGED <<pc, ret>>

(* A wrong value: the error is returned and the label stays. *)
Fail(r) == Return(r) /\ UNCHANGED <<state, want>>

Fields == <<open, small, strm, entryIn, bytesIn, bytesOut, pad>>

TakeChain ==
  /\ state \in DOMAIN Chain /\ At(state)
  /\ \/ Goto(Chain[state].next, Width(Chain[state].next))
     \/ Chain[state].bad # "none" /\ Fail(Chain[state].bad)
  /\ UNCHANGED <<live, blk>> /\ UNCHANGED Fields

(* The block size; then the block's memory, of which any part may fail. *)
Tables == IF small THEN {"ll16", "ll4"} ELSE {"tt"}

TakeMagic4 ==
  /\ At("MAGIC_4")
  /\ \/ Fail("DATA_ERROR_MAGIC") /\ UNCHANGED live
     \/ \E got \in SUBSET Tables :
          /\ live' = live \union got
          /\ \/ got = Tables /\ Goto("BLKHDR_1", 8)
             \/ got # Tables /\ Fail("MEM_ERROR")
  /\ UNCHANGED blk /\ UNCHANGED Fields

TakeBlkhdr1 ==
  /\ At("BLKHDR_1")
  /\ \/ Goto("ENDHDR_2", 8)
     \/ blocks < MaxBlocks /\ Goto("BLKHDR_2", 8)
     \/ Fail("DATA_ERROR")
  /\ UNCHANGED <<live, blk>> /\ UNCHANGED Fields

TakeBlkhdr6 ==
  /\ At("BLKHDR_6")
  /\ \/ Goto("BCRC_1", 8) /\ blocks' = blocks + 1
     \/ Fail("DATA_ERROR") /\ UNCHANGED blocks
  /\ UNCHANGED <<live, body, outLeft, crcGood, combined>> /\ UNCHANGED Fields

TakeBcrc4 ==
  /\ At("BCRC_4")
  /\ crcGood' \in BOOLEAN
  /\ Goto("RANDBIT", 1)
  /\ UNCHANGED <<live, body, blocks, outLeft, combined>> /\ UNCHANGED Fields

TakeOrigPtr3 ==
  /\ At("ORIGPTR_3")
  /\ \/ /\ \E n \in SlowBits : Goto("BODY", n)
        /\ body' = MaxBody
     \/ Fail("DATA_ERROR") /\ UNCHANGED body
  /\ UNCHANGED <<live, blocks, outLeft, crcGood, combined>> /\ UNCHANGED Fields

(* What follows a read of the body: another read, the end of the block,    *)
(* which makes the parser return and BZ2_bzDecompress go on with OUTPUT,   *)
(* or an error.                                                            *)
BodyContinues ==
  \/ /\ body > 0 /\ body' = body - 1
     /\ \E n \in SlowBits : Goto("BODY", n)
     /\ UNCHANGED outLeft
  \/ /\ outLeft' \in 1..MaxYield /\ body' = 0
     /\ state' = "OUTPUT" /\ want' = 8
     /\ pc' = "output" /\ UNCHANGED ret
  \/ Fail("DATA_ERROR") /\ UNCHANGED <<body, outLeft>>

TakeBody ==
  /\ At("BODY")
  /\ BodyContinues
  /\ UNCHANGED <<live, blocks, crcGood, combined>> /\ UNCHANGED Fields

(* The fast path, before a symbol's GET_BITS: a refill of a word whether   *)
(* the bits are needed or not, and, with 11 bits or more in the buffer,    *)
(* the look-up of a code of n bits that are all there.  A code is no       *)
(* shorter than gMinlen, which is what its GET_BITS would ask for.         *)
RefillAhead ==
  /\ pc = "parse" /\ state = "BODY" /\ body > 0
  /\ bsLive <= 32 /\ availIn >= 4
  /\ TakeIn(4)
  /\ UNCHANGED <<open, live, small, state, want, availOut, totalOut, blk, pc, ret,
                 entryIn, bytesOut, bitsUsed, pad>>

FastSymbol ==
  /\ pc = "parse" /\ state = "BODY" /\ body > 0 /\ bsLive >= 11
  /\ \E n \in FastBits : n >= want /\ TakeBits(n)
  /\ BodyContinues
  /\ UNCHANGED <<live, blocks, crcGood, combined>> /\ UNCHANGED Fields

-----------------------------------------------------------------------------
(* OUTPUT: unRLE_obuf_to_output_{FAST,SMALL} and the end of a block *)

Deliver(n) ==
  /\ outLeft' = outLeft - n
  /\ availOut' = availOut - n
  /\ totalOut' = CountUp(totalOut, n)
  /\ bytesOut' = bytesOut + n

(* A mutant: a block that is out is not noticed until the next call. *)
OutputStops_Late ==
  /\ pc = "output" /\ availOut <= outLeft
  /\ Deliver(availOut)
  /\ Return("OK")
  /\ UNCHANGED <<open, live, small, state, want, bsLive, availIn, totalIn, body, blocks,
                 crcGood, combined, entryIn, bytesIn, bitsUsed, pad>>

OutputStops ==
  /\ pc = "output" /\ availOut < outLeft
  /\ Deliver(availOut)
  /\ Return("OK")
  /\ UNCHANGED <<open, live, small, state, want, bsLive, availIn, totalIn, body, blocks,
                 crcGood, combined, entryIn, bytesIn, bitsUsed, pad>>

(* A mutant: the CRC of the block is not combined. *)
OutputEnds_NotCombined ==
  /\ pc = "output" /\ availOut >= outLeft
  /\ Deliver(outLeft)
  /\ UNCHANGED combined
  /\ \/ crcGood /\ state' = "BLKHDR_1" /\ want' = 8 /\ pc' = "parse" /\ UNCHANGED ret
     \/ ~crcGood /\ Fail("DATA_ERROR")
  /\ UNCHANGED <<open, live, small, bsLive, availIn, totalIn, body, blocks, crcGood,
                 entryIn, bytesIn, bitsUsed, pad>>

(* All of the block is out: its CRC is compared, then the parser goes on   *)
(* with the next header, though there may be no room for output.           *)
OutputEnds ==
  /\ pc = "output" /\ availOut >= outLeft
  /\ Deliver(outLeft)
  /\ \/ /\ crcGood
        /\ combined' = combined + 1
        /\ state' = "BLKHDR_1" /\ want' = 8
        /\ pc' = "parse" /\ UNCHANGED ret
     \/ ~crcGood /\ Fail("DATA_ERROR") /\ UNCHANGED combined
  /\ UNCHANGED <<open, live, small, bsLive, availIn, totalIn, body, blocks, crcGood,
                 entryIn, bytesIn, bitsUsed, pad>>

(* The RLE data of the block ends within a run count (nblock_used runs     *)
(* past save_nblock + 1).  The fast version of a block that is not         *)
(* randomised returns before it writes its cached counters back (n = 0).   *)
OutputCorrupt ==
  /\ pc = "output" /\ availOut > 0
  /\ Fail("DATA_ERROR")
  /\ \E n \in 0..availOut : n <= outLeft /\ Deliver(n)
  /\ UNCHANGED <<open, live, small, bsLive, availIn, totalIn, body, blocks, crcGood,
                 combined, entryIn, bytesIn, bitsUsed, pad>>

(* The last field.  The whole bytes left in the buffer go back to the      *)
(* input; then the combined CRC is compared.                               *)
Excess_None == 0                                   \* a mutant: nothing is given back
Excess == (bsLive - 8) \div 8

TakeCcrc4 ==
  /\ pc = "parse" /\ state = "CCRC_4" /\ bsLive >= 8
  /\ bitsUsed' = bitsUsed + 8
  /\ state' = "IDLE" /\ UNCHANGED want
  /\ availIn' = availIn + Excess
  /\ totalIn' = CountDown(totalIn, Excess)
  /\ bytesIn' = bytesIn - Excess
  /\ pad' = bsLive - 8 - 8 * Excess
  /\ bsLive' = 0
  /\ \E r \in {"STREAM_END", "DATA_ERROR"} : Return(r)
  /\ UNCHANGED <<open, live, small, availOut, totalOut, blk, entryIn, bytesOut>>

Parse == RefillWord \/ RefillByte \/ RefillAhead \/ NeedInput
         \/ TakeChain \/ TakeMagic4 \/ TakeBlkhdr1
         \/ TakeBlkhdr6 \/ TakeBcrc4 \/ TakeOrigPtr3 \/ TakeBody \/ FastSymbol \/ TakeCcrc4

Library == Parse \/ OutputStops \/ OutputEnds \/ OutputCorrupt

Next == Library \/ DecompressInit \/ DecompressInitFails \/ DecompressEnd \/ NoState
        \/ \E n \in Chunks, m \in Rooms : Call(n, m)

Spec == Init /\ [][Next]_vars
-----------------------------------------------------------------------------
(* Properties *)

Counter == [lo : 0..W-1, hi : 0..W-1]

TypeOK ==
  /\ open \in BOOLEAN /\ live \subseteq Allocations /\ small \in BOOLEAN
  /\ state \in States /\ want \in 1..20 /\ bsLive \in 0..64
  /\ availIn \in Nat /\ availOut \in Nat
  /\ totalIn \in Counter /\ totalOut \in Counter
  /\ body \in Nat /\ blocks \in Nat /\ outLeft \in Nat
  /\ crcGood \in BOOLEAN /\ combined \in Nat
  /\ pc \in {"caller", "parse", "output"} /\ ret \in Returns
  /\ entryIn \in Nat /\ bytesIn \in Int /\ bytesOut \in Nat
  /\ bitsUsed \in Nat /\ pad \in Nat

(* However the input is cut into calls, no bit is dropped and none is read *)
(* twice: the bytes that went in are the bits the fields took and the bits *)
(* in the buffer.  At the end of the stream fewer than eight are dropped,  *)
(* so next_in is at the first byte after the stream.                       *)
BitsConserved == /\ 8 * bytesIn = bitsUsed + bsLive + pad
                 /\ pad <= 7

(* The bytes given back at the end of the stream were all taken in the     *)
(* same call: next_in is never moved in front of the buffer this call was  *)
(* given, whose predecessors the caller may have freed.                    *)
PushBackSafe == availIn <= entryIn /\ bytesIn >= 0

(* A call that returns BZ_OK has used up its input, or its room for output *)
(* with a block still to deliver.  The FILE layer refills only then.       *)
Blocked == pc # "caller" /\ pc' = "caller" /\ ret' = "OK"
           => \/ availIn' = 0 /\ state' \in Labels /\ bsLive' < want'
              \/ availOut' = 0 /\ state' = "OUTPUT" /\ outLeft' > 0
OkMeansBlocked == [][Blocked]_vars

(* BZ_STREAM_END is reported only after every block of the stream was      *)
(* delivered in full with a matching CRC that entered the combined CRC.    *)
StreamEndChecked ==
  open /\ ret = "STREAM_END" => /\ state = "IDLE" /\ outLeft = 0
                                /\ combined = blocks

(* The block's memory is there before any of it is written or read.        *)
MemoryReady == open /\ state \in {"BODY", "OUTPUT"} => Tables \subseteq live

(* Ending a stream, opened or half opened, gives all the memory back.      *)
NoLeak == IF open THEN "s" \in live ELSE live = {}

(* total_{in,out}_{hi,lo}32 count the bytes taken and delivered, across    *)
(* the carry of one and of four and across the borrow of the push-back.    *)
Total(t) == t.hi * W + t.lo
CountersExact == open => /\ Total(totalIn)  = bytesIn % (W * W)
                         /\ Total(totalOut) = bytesOut % (W * W)

-----------------------------------------------------------------------------
(* The inductive invariant behind the safety properties *)

Magic   == {"MAGIC_1", "MAGIC_2", "MAGIC_3", "MAGIC_4"}
InBlock == {"BCRC_1", "BCRC_2", "BCRC_3", "BCRC_4", "RANDBIT",
            "ORIGPTR_1", "ORIGPTR_2", "ORIGPTR_3", "BODY", "OUTPUT"}

(* The bytes of the trailer that are read when the parser is at a label. *)
TrailerRead == [ ENDHDR_2 |-> 1, ENDHDR_3 |-> 2, ENDHDR_4 |-> 3, ENDHDR_5 |-> 4,
                 ENDHDR_6 |-> 5, CCRC_1 |-> 6, CCRC_2 |-> 7, CCRC_3 |-> 8, CCRC_4 |-> 9 ]
Trailer == DOMAIN TrailerRead

Where ==
  /\ ~open => pc = "caller"
  /\ pc = "parse"  => state \in Labels
  /\ pc = "output" => state = "OUTPUT"
  /\ state \in Labels \ {"BODY"} => want = Width(state)
  /\ open => (state # "OUTPUT" => outLeft = 0) /\ (state # "IDLE" => pad = 0)

(* Between calls, unless the last one failed, the buffer holds less than   *)
(* the field the parser waits for.                                         *)
Waiting == open /\ pc = "caller" /\ state \in Labels
           /\ ret \in {"OK", "STREAM_END", "SEQUENCE_ERROR"} => bsLive < want

(* The bits in the buffer that an earlier call took.  A buffer has at most *)
(* 64 bits and the trailer 80, so before its last field they are either    *)
(* used up or fewer than eight.                                            *)
Taken == 8 * (entryIn - availIn)
CarriedBits ==
  open /\ state \in Trailer => \/ bsLive <= Taken + 7
                               \/ bsLive + 8 * TrailerRead[state] <= Taken + 64

Memory == /\ NoLeak
          /\ open /\ state \notin Magic \union {"IDLE"} => Tables \subseteq live

Checked == /\ open => combined + (IF state \in InBlock THEN 1 ELSE 0) = blocks
           /\ open /\ ret = "STREAM_END" => state = "IDLE"

(* No step counts a whole word or more: a call has room for fewer bytes,   *)
(* and at the last field the buffer is left with what one refill brings,   *)
(* so that few bytes are given back; then it is empty.                     *)
Counting ==
  /\ availOut < W
  /\ open /\ state \in Trailer => \/ bsLive <= 39
                                  \/ bsLive + 8 * TrailerRead[state] <= 64
  /\ state = "IDLE" => bsLive = 0

IInv == /\ TypeOK /\ Where /\ BitsConserved /\ PushBackSafe
        /\ Waiting /\ CarriedBits /\ Memory /\ Checked
        /\ Counting /\ CountersExact
=============================================================================
