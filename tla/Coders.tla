------------------------------- MODULE Coders -------------------------------
(***************************************************************************)
(* The algorithms that keep no state, each called with every one of its    *)
(* inputs: code lengths and codes, the look-up of a symbol, the CRC of a   *)
(* buffer, the quicksort of the block sort, the block sort beside that of  *)
(* the reference implementation.  The answers are compared with            *)
(* definitions that say what they are for.                                 *)
(***************************************************************************)
EXTENDS HuffmanCodes, MainSort, Crc

CONSTANTS
  Frequencies,    \* functions on 0..n-1, given to BZ2_hbMakeCodeLengths
  Limits,         \* the longest length it may give
  CodeLengths,        \* code lengths a decoder may read, functions on 0..n-1
  Buffers,        \* [crc, buf, align]: what BZ2_crc32_update is called with
  ClassVectors,   \* eclass, functions on 0..n-1
  LargeBlocks,    \* blocks that the reference gives to mainSort
  WorkFactors     \* and the work factors it is given

VARIABLES call, answer

Calls == {"lengths", "tables", "crc", "qsort", "sort"}
CodersInit == call \in [of : {"none"}, next : Calls] /\ answer = "none"
Turn(of) == call = [of |-> "none", next |-> of]

MakeCodeLengths ==
  Turn("lengths") /\ \E freq \in Frequencies, limit \in Limits :
    /\ call' = [of |-> "lengths", freq |-> freq, limit |-> limit]
    /\ answer' = LET len == BZ2_hbMakeCodeLengths(freq, limit) IN [len |-> len, code |-> BZ2_hbAssignCodes(len)]

BuildFast ==
  Turn("tables") /\ \E len \in CodeLengths :
    /\ call' = [of |-> "tables", len |-> len]
    /\ answer' = [slow |-> BZ2_hbCreateDecodeTables(len), fast |-> FastTable(len)]

UpdateCRC ==
  Turn("crc") /\ \E b \in Buffers, pclmul \in BOOLEAN :
    /\ call' = [of |-> "crc", b |-> b]
    /\ answer' = BZ2_crc32_update(b.crc, b.buf, b.align, pclmul)

QSort3 ==
  Turn("qsort") /\ \E eclass \in ClassVectors :
    /\ call' = [of |-> "qsort", eclass |-> eclass]
    /\ answer' = fallbackQSort3([i \in DOMAIN eclass |-> i], eclass, 0, Size(eclass) - 1)

SortBoth ==
  Turn("sort") /\ \E block \in LargeBlocks, wfact \in WorkFactors :
    /\ call' = [of |-> "sort", block |-> block]
    /\ answer' = [ours |-> BZ2_blockSort(block), theirs |-> ReferenceSort(block, wfact)]

CodersNext ==
  \/ MakeCodeLengths \/ BuildFast \/ UpdateCRC \/ QSort3 \/ SortBoth
  \/ call.of # "none" /\ UNCHANGED <<call, answer>>
CodersSpec == CodersInit /\ [][CodersNext]_<<call, answer>>

Done(of) == call.of = of

----------------------------------------------------------------------------
\* The least cost of a code: that of joining the two least weights again and again.
RECURSIVE LeastCost(_)
LeastCost(weights) ==      \* a sequence
  IF Len(weights) = 1 THEN 0
  ELSE LET i == CHOOSE i \in DOMAIN weights : \A j \in DOMAIN weights : weights[i] <= weights[j]
           rest == [k \in 1..(Len(weights) - 1) |-> weights[IF k < i THEN k ELSE k + 1]]
           j == CHOOSE j \in DOMAIN rest : \A k \in DOMAIN rest : rest[j] <= rest[k]
       IN  weights[i] + rest[j] + LeastCost([rest EXCEPT ![j] = @ + weights[i]])
CostOf(freq, len) == MapThenSumSet(LAMBDA i : len[i] * freq[i], DOMAIN freq)

Prefix(c, lc, d, ld) == lc <= ld /\ d \div 2^(ld - lc) = c

\* huffman.c:60-200: whatever the frequencies, in a heap or halved until they fit, the lengths
\* are within the limit and use all of the code space, no code is the beginning of another,
\* and while nothing is halved there is no cheaper code.
CodeLengthsOK ==
  Done("lengths") =>
    LET len == answer.len
        freq == [i \in DOMAIN call.freq |-> IF call.freq[i] = 0 THEN 1 ELSE call.freq[i]]
    IN  /\ ~TooLong(len, call.limit)
        /\ MapThenSumSet(LAMBDA i : 2^(call.limit - len[i]), DOMAIN len) = 2^call.limit
        /\ \A i, j \in DOMAIN len : i # j => ~Prefix(answer.code[i], len[i], answer.code[j], len[j])
        /\ ~TooLong(TreeLengths(LeafWeights(call.freq), Size(freq)), call.limit) =>
             CostOf(freq, len) = LeastCost([k \in 1..Size(freq) |-> freq[k - 1]])

\* decompress.c:572-611: with any code lengths a stream can hold, complete or not, and any
\* number of bits in the buffer, the two-level look-up gives the symbol and takes the bits that the
\* reading bit by bit gives and takes, or leaves the symbol to it.
LookUpAgrees ==
  Done("tables") =>
    \A w \in [1..MaxCodeLen -> {0, 1}], live \in {TableBits - 1, TableBits, MaxCodeLen - 1, MaxCodeLen} :
      FastDecode(answer.fast, w, live) \in {NoSymbol, SlowDecode(answer.slow, w)}

\* crctable.c:637-676, crc32_pclmul.c:104-236: a byte at a time, eight at a time from
\* whatever address, or folded from 64 bytes on, the CRC is the same remainder.
CRCExact == Done("crc") => answer = Remainder(call.b.crc, call.b.buf)

\* blocksort.c:180-280, AssertH 1004: the stack of pending halves grows with the
\* logarithm of the bucket only, and what is left is in order.
QSortShallow ==
  Done("qsort") =>
    LET n == Size(call.eclass)
    IN  /\ 2^(answer.deepest - 1) <= n
        /\ {answer.fmap[i] : i \in 0..(n - 1)} = 0..(n - 1)
        /\ \A i \in 1..(n - 1) : call.eclass[answer.fmap[i - 1]] <= call.eclass[answer.fmap[i]]

\* What is coded: the bytes in front of the rotations, in their order.
Column(block, ptr) == [i \in DOMAIN ptr |-> block[(ptr[i] + Size(block) - 1) % Size(block)]]

\* blocksort.c:345-373 beside reference/bzip2/blocksort.c:1031-1088: by suffix arrays or by the
\* main sort, with the ranks it caches and whatever budget it is left with, a block is coded as
\* the same bytes; the reference's assertions hold.
SameColumn ==
  Done("sort") =>
    /\ Column(call.block, answer.ours.ptr) = Column(call.block, answer.theirs.ptr)
    /\ answer.theirs.met

\* What requirements/REQUIREMENTS.md says: the compressed output is that of libbz2 byte for byte.
\* The code violates it: equal rotations of a periodic block come in another order, and
\* origPtr is the place of one of them.
SameOrigPtr == Done("sort") => answer.ours.origPtr = answer.theirs.origPtr
=============================================================================
