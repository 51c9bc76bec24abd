# libqbz2 in TLA+

libqbz2 is a drop-in reimplementation of the bzip2 library: a compression and a
decompression stream that a caller feeds and drains through buffers of any
size, a stdio layer over them, and the coders below them; its repository keeps the
original library and its commands as a reference. This directory holds
TLA+ models of the streams, of the layers over them, of the coders and of the
commands, the TLC configurations that check them on small
instances, and proofs, checked by TLAPS, that the invariants of the two streams and of the
stdio layers over them hold for every value of the constants, that the blocks of the compression
stream decode to what was read, that it implements the abstract stream, that the suffix
sort releases its memory, and that the bzip2 command loses no data and exits with 0 only when all is done.

Paths in this document are relative to the root of the repository, with
`src/` for the library itself and `reference/bzip2/` for the original.

## 1. Inventory

| Component | Source | State | Operations |
|---|---|---|---|
| compression stream | `src/bzlib.c` 97-494, bit writer and `BZ2_compressBlock` in `src/compress.c` | `EState`: mode, state, avail_in_expect, the pending run, the block, inUse, CRCs, zbits and its cursor, bsBuff; the caller's `bz_stream` | Init, `BZ2_bzCompress` with RUN, FLUSH, FINISH, End |
| decompression stream | `src/bzlib.c` 497-893, `src/decompress.c` | `DState`: parser label, bit buffer, tables, saved locals, output cursor, CRCs | Init, `BZ2_bzDecompress`, End |
| output run-length decoder | `src/bzlib.c` 547-815, `src/randtable.c` | tPos, k0, nblock_used, state_out_len, state_out_ch, rNToGo | three versions: fast, fast randomised, small |
| block parser | `src/decompress.c` 298-690 | selectors, code lengths, MTF table, es/N, nblock | resumable loops |
| block encoder | `src/compress.c` 97-575 | mtfv, frequencies, selectors, code lengths | MTF/RUNA/RUNB, table selection, emission |
| Huffman codes | `src/huffman.c`, tables in `src/decompress.c` 367-474 | none (pure) | code lengths, codes, decode tables, two-level look-up |
| block sort | `src/blocksort.c` | none (pure) but for origPtr | order of the cyclic rotations, by doubling and quicksort or by suffix arrays; its inverse |
| suffix array construction | `src/libsais.c` (vendored) | the arrays of each recursive call, in one allocation and on the heap | `libsais`, `libsais_int` for one thread |
| CRC | `src/crctable.c`, `src/crc32_pclmul.c` | none (pure) | byte-wise, sliced and PCLMUL updates |
| stdio layer | `src/bzlib.c` 896-1269 | `bzFile`: handle, buffer, lastErr, writing | WriteOpen, Write, WriteClose, ReadOpen, Read, ReadClose, ReadGetUnused |
| buffer to buffer | `src/bzlib.c` 1276-1380 | none | compress, decompress |
| zlib-like interface | `src/bzlib.c` 1383-1584 | as the stdio layer, and the FILE it opened | bzopen, bzdopen, bzread, bzwrite, bzclose |
| reference block sort | `reference/bzip2/blocksort.c` | none (pure) | the main sort with its budget, the fallback |
| reference block parser | `reference/bzip2/decompress.c` 266-498 | tables, the move-to-front list in short lists | the fields of a block, bit by bit |
| bzip2 command | `reference/bzip2/bzip2.c` | options, file names, exit value, the output marked for deletion; the file system | compress, decompress, test; signals |
| bzip2recover | `reference/bzip2/bzip2recover.c` | bit position, the marks found, the output in progress | the two passes |

**How they interact.** Everything is sequential: a caller calls, the library runs to
its next return. The library keeps no thread and takes no callback but the
allocator. What makes it hard is that a call may stop *anywhere*: when the input
is used up (in the middle of a bit field), when the room for output is (in the
middle of a run of equal bytes), at a flush, at an error. The caller owns
`next_in`, `avail_in`, `next_out` and `avail_out`, may change them between calls,
may move or free its buffers, and decides on FLUSH and FINISH. The stdio layer is
such a caller; its own errors come from the files. The commands are the only part
that shares state with anyone: the file system, with other processes and with
signals that may end them between any two calls.

**What is hard.**
 * resumption: each field and each byte of output may be the place where a call ends;
 * bytes in two buffers at once: what `bsW` wrote is partly in `zbits`, partly in `bsBuff`;
   what the bit reader took is partly used, and the unused bytes must go back at the end;
 * ends: a flush is over, a stream is over, a block is over, each judged by other fields than
   those that say so directly;
 * limits: blocks filled to the last bytes by unchecked writes, runs of 255, 32-bit counters
   in two halves;
 * partial failure: one allocation of several, a write of several;
 * arrays with two uses at once: `mtfv` over `ptr`, the signs of suffix array entries, buckets
   and texts of recursive calls at the end of one array;
 * the commands: the end at any step between the creation of an output and the removal of
   its input.

`PROJECT.json` lists these as hazards, each at its line with the property that
would catch it going wrong.

**What makes each component correct.** The compression stream: what was read is
in the blocks, in order, with the right CRCs; what was written is delivered, in
order and once; the stream has one header and one trailer; flush, finish and end
mean what they say. The decompression stream: no bit is lost or read twice;
`BZ_STREAM_END` only for a checked stream; the rest of the input goes back to the
caller; memory is there before it is used and is given back. The run-length decoder:
its three versions and the encoder's run coder are inverse, however cut. The coders:
each decoder inverts its encoder. The stdio layer: a file that was closed with
`BZ_OK` holds the whole stream; `BZ_UNEXPECTED_EOF` only for truncated ones. The
commands: no data is lost, no part of an output stays, the exit value tells.

## 2. Modules

| Module | What it is |
|---|---|
| `BZCompress` | the compression stream; protocol properties; inductive invariant |
| `BZCompressData` | its data properties, with the inverse of the run coder; the refinement |
| `CompressStream` | the abstract compression stream that `BZCompress` implements |
| `BZCompressProofs` | theorems about `BZCompress` |
| `BZCompressDataProofs` | theorems about `BZCompressData`: the refinement, where the input goes, what the blocks decode to |
| `BZDecompress` | the decompression stream and its parser; properties; inductive invariant |
| `BZDecompressProofs` | theorems about `BZDecompress` |
| `OpenMode` | the mode string of `bzopen` and `bzdopen` |
| `BZWriteFile` | the writing stdio layer, the zlib-like writer and buffer to buffer, over `BZCompress` |
| `BZWriteFileProofs` | theorems about `BZWriteFile` |
| `BZReadFile` | the reading stdio layer, the zlib-like reader and buffer to buffer, over `BZDecompress` |
| `BZReadFileProofs` | theorems about `BZReadFile` |
| `Accumulation` | a fold as a recursive function, of `BZCompressData`, `BZip2Tool` and `Recover` |
| `CommonLemmas` | lemmas of several proofs: induction up to a number, folds over sequences, counters of two words |
| `HuffmanCodes` | code lengths, codes, decode tables, the two ways to decode a symbol |
| `BlockSort` | the block sort of the encoder |
| `MainSort` | the block sort of the reference |
| `Crc` | the three ways to compute a CRC |
| `Coders` | each of these algorithms called with every one of its inputs |
| `LibSAIS` | what the functions of the suffix array library do to their arrays |
| `SuffixSort` | the order they are called in: recursive calls, shared memory, failing allocations |
| `SuffixSortProofs` | theorems about `SuffixSort`: who holds a buffer on the heap |
| `BlockFormat` | what the encoder and the decoder of a block share |
| `BlockEncoder` | one block to bits |
| `UnRLE` | from the last column to the bytes delivered |
| `BlockDecoder` | bits to one block, resumable at every bit |
| `ReferenceDecoder` | the body of a block as the reference reads it, a function of its bits |
| `BlockCodec` | encoder and decoder composed: the round trip, and the verdict of the reference |
| `BZip2Tool` | the bzip2 command; properties; inductive invariant |
| `Recover` | bzip2recover |
| `ToolsProofs` | theorems about `BZip2Tool`: what becomes of data and outputs, what the exit value tells; about `Recover`: what it recovers |
| `MC...` | small instances of these for TLC |

The streams and the coders are models of two levels. In the streams a block is a number of
units of output and a body is a bounded number of reads, and every cut of every call
happens; in the coders it is bits and bytes, one block at a time. Where they meet is named in
both: `BlockDecoder` returns and resumes exactly where `BZDecompress` has `NeedInput`, and
`BlockEncoder` begins with the block that `BZCompress` has filled.

### BZCompress

A call of `BZ2_bzCompress` is a sequence of steps: `Enter` is the switch on the
mode (`EnterRun`, `EnterStart`, `EnterAgain`; `Refuse` for what it turns away);
then `pc = "loop"` and each step is one round of a loop of `handle_compress`:
`AbsorbByte` (`copy_input_until_stop`, one byte, with `ADD_CHAR_TO_BLOCK`),
`CutRest` (`flush_RL` and the last block of a flush or a finish), `CutFull`,
`Starve`, `OutputStops` and `OutputNextBlock` (`copy_output_until_stop`, the two
early exits, `prepare_new_block`); `Return` computes the return value and the next
mode. `CompressInitOK`, `CompressInitFails` (every subset of the allocations),
`CompressEnd` and `NoState` are the rest.

Data: bytes are small numbers; the caller's bytes are chosen when they are read. A
CRC is the sequence of bytes it was computed from. A compressed section (header,
block, trailer) is a number of *units*, one for a byte; `written` records the units
that `bsW` wrote, `zbits` and `hold` (`bsBuff`) where they are. `FullWords` is
`bsNEEDW`: it moves whole words, and `bsW` calls it *before* it writes, so that after a
block less than a word and the last code stay in the buffer. In the code these are up
to 31 + 17 = 48 bits. `blockNo` is 0, 1 or "later", since the code compares it with 1 only.
`sections`, `consumed`, `written` and `sent` are history variables.

The EState is not cleared by the allocator: `CompressInitOK` leaves
`avail_in_expect` and `bsBuff` arbitrary.

### CompressStream

What the stream promises without buffers, return codes or a block size: bytes are
accepted, cut into blocks in the order they came, delivered; `FlushOver` needs all
accepted bytes in blocks and all output but `Remainder` delivered; `Finished` needs
the trailer, with the CRCs of all blocks, delivered. `BZCompressData` gives the
refinement mapping: what is inside is the bytes behind the CRC of the block being filled
and the pending run; what is covered is what `combinedCRC` is made of; what is left is what is in `zbits`
and in `bsBuff`; `Remainder` is a word less one unit and the longest last code.

That a block, decoded, yields the bytes behind its CRC is `CRCsMatch`, and that all blocks together
yield what was read `NoInputLost`. `InputKept` says the second of the CRCs: they and the pending
run divide what was read at places in its order. All of these are proved. What decoding yields is a fold
over the data, `Accumulate`, the last value of a function on the prefixes of a sequence; the steps are functions
on typed records, so that lemmas can speak of them.

### BZDecompress

The parser of `BZ2_decompress` is always at a `GET_BITS`: `state` is the label and
`want` the number of bits. `RefillWord` and `RefillByte` are the two ways it takes
input, `NeedInput` the return when there is none, `RefillAhead` and `FastSymbol` the
fast path of the symbol loop. The fixed fields have an action each where they do more
than compare a byte (`TakeMagic4` with the allocations, `TakeBlkhdr1`, `TakeBlkhdr6`,
`TakeBcrc4`, `TakeOrigPtr3`, `TakeCcrc4` with the push-back) and share `TakeChain`
otherwise. The body of a block is a bounded number of reads of any of the widths the
code uses. `OutputStops`, `OutputEnds` and `OutputCorrupt` are the OUTPUT state of
`BZ2_bzDecompress` over the run-length decoder, which is a count of bytes here.

The bit buffer is a queue, so which bits it holds is a matter of counting: bits taken
by fields, bits in the buffer, bytes taken from the input.

`Call` requires that the last call did not report an error: the manual allows only
`BZ2_bzDecompressEnd` then ("Allowable next actions" of `BZ2_bzDecompress`).

### BZWriteFile and BZReadFile

Each extends the module of its stream and is the stream's caller: the actions of
`BZCompress` (`BZDecompress`) are the steps of the call the layer is in (`fpc` is
`"call"`, `"decompress"`), and the layer's own steps set `avail_in` and `avail_out` as its
code does. The stream is the detailed one, with its buffers and return codes, so that
what is checked is that the two agree.

Writing: `WriteOpen`, `WriteOpenInit` and `WriteOpened` are `BZ2_bzWriteOpen`, with a `malloc` that
does not clear `avail_in`. `Write` is the entry of `BZ2_bzWrite`, `CloseCall` that of
`BZ2_bzWriteClose64`, with and without abandon, and of `BZ2_bzclose`. The two functions share the loop:
`CallCompress`, `Compressed` (the chunk in `bzf->buf` is what the call delivered, `fwrite`
takes it, the loop is left or goes on), `FwriteFails` (after any part of the chunk). Then
`Fflush`, `CloseEnds`, or `Failed` for every error return.

Reading: `ReadOpen`, `ReadOpenInit`, `ReadOpened` with the bytes the program brings; `Read`;
`LoopHead` (the FILE asked for its end, `bzf->buf` filled by `Fread`), `CallDecompress`,
`Decompressed` (the three ways out of the loop); `GetUnused` and `ReadClose`.

`BzOpen` is `BZ2_bzopen` and `BZ2_bzdopen`: `OpenMode` reads the mode string (any letters, the last
of `r` and `w` counts, so does the last digit), a FILE it opened is closed when there is no BZFILE
for it, and by `BZ2_bzclose` when it is no standard stream (`owned`). Whether the mode string asks for
small mode changes no step and is left open.

The other callers of the streams are `BZ2_bzBuffToBuffCompress` (`BuffCompress`, `BuffFinish`,
`BuffFinished`) and `BZ2_bzBuffToBuffDecompress` (`BuffDecompress`, `BuffCall`, `BuffDecompressed`, `BuffEnd`):
one call with all the input and all the room, and a result that tells a full buffer from an
input that ends too early by what is left of the room (`OkIs`).

The FILE is external. It takes or refuses what is written, at any byte. When it is read, where
it ends is decided when it is asked (`AtEnd`, `HasMore`, a short `fread`), and it may fail
instead (`Fails`); its indicators `ended` and `ferr` stay set. The program that uses the layer
follows the manual: after an error it only closes.

### BlockEncoder, BlockDecoder, UnRLE, BlockCodec

`BlockEncoder` sorts a block (`BlockSort`; or fails to, and leaves `ptr` and `origPtr` as they were:
see below),
turns the order into move-to-front values in place (`i` is where it reads, `zPend` the run not yet
written), fits the coding tables (`GroupThresholds`, `Iterations`) and emits the fields.

A stream has one `ptr` and one `origPtr` for all its blocks, and nothing initialises them. For the first block
`origPtr` is any value of `Leftover` and `ptr` has no known entry (its domain is empty). `NextBlock`
fills another block after one has been encoded: `origPtr` stays, and of the order there is what the
MTF values have left of it, since `mtfv` lies over `ptr`, two values to a word (`LeftInPtr`,
`HalfWord`). A sort that succeeds sets both. `SortFails` sets neither: if `origPtr` is -1,
`AssertH1003` stops the program, else the block goes on. An entry that is not known, or that leads
out of the block (`Astray`), brings any byte the block has, or the program is not followed
further (`GoAstray`: the read faults, or the byte has no place in the list). `sorted` remembers whether the
sort succeeded.

`BlockDecoder` has one action for each label of `BZ2_decompress` from the mapping table on. The locals
`l` are lost when a call returns, but for what the save area keeps (`saved`); `NeedInput` may
happen at every label, `CallAgain` restores. A literal is taken bit by bit or by the two-level
look-up (`dstate` is `"literal"`). Every bound that the code tests is a guard with an error.
`UnRLE` has the two vectors (`tt`, with the place of the next row above the byte; `ll16` and `ll4`) and the
state machine of the output in its cached, plain and derandomising form.

`ReferenceDecoder` is what the reference does with the same bits, as a function of them: its calls are cut and
resumed at the same labels, which is the other decoder's subject here. It has no look-up; its
list of 256 bytes is cut into short lists kept in a larger array, which go back to its end when the first
reaches its beginning.

`BlockCodec` composes them: a block goes through the encoder and is handed over as bits, in normal or
small mode, as it is or as a block that an old encoder has masked (`randomised`), to the decoder; or
another block follows it (`EncodeAnother`), and that one is handed over; or it is
handed over with one bit changed or with another `origPtr`. The input is cut at every bit, the output at
every byte. What the decoder makes of the bits is compared with the block that was encoded
and with what the reference makes of them.

### HuffmanCodes, BlockSort, MainSort, Crc, Coders

The pure algorithms, loop by loop. `HuffmanCodes`: the heap of subtrees with the depth in the low 8 bits of a
weight, the scaling when a length is too long, `limit`, `base`, `perm`, the first table with its
overflow table. `BlockSort`: `fallbackSort` by doubling, with its quicksort on an explicit
stack; or the order taken from the suffix array of the block written twice. `MainSort`: radix sort
by two bytes, the order of the big buckets, the buckets derived from others, the quadrants
with their shift, the budget and the fallback. `Crc`: a byte at a time, eight at a time,
and by folding 16 bytes with carry-less products; words are polynomials, and
the tables are computed from the polynomial as the generated ones were.

`Coders` makes one call of each a state: its arguments and its answer. The properties compare
the answer with a definition of what it is for: a complete prefix code within the limit, the cheapest where nothing was scaled; the symbol whose code it
is; the remainder of the division; the order of the rotations.

### LibSAIS, SuffixSort

Induced sorting as `libsais` and `libsais_int` do it for one thread. `SuffixSort` keeps what is hard
to see in 8500 lines: all recursive calls share one allocation. `mem` is that memory and the
caller's text after it; each frame has its text at the end of it (`t`), its variant (8u, 6k, 4k, 2k, 1k, chosen by
the room that is left), and its buckets in the local buffer, in the free end of the array or on
the heap, which may fail. Buckets in the array overwrite it (`Written`); memory that nobody
has written has any content (`Junk`). Each action is one phase of a call: count, sort, induce, name,
recurse, merge, place, final. `LibSAIS` is what the scans of these phases do, with the
marks in the sign and the second-highest bit of an entry (`Top`).

### BZip2Tool, Recover

`BZip2Tool` is the command from the parse of the environment and the arguments to the exit value. An
action is one system call or one call of the library, so that a failing call, a signal that is
caught (`mySignalCatcher`), death without notice and another process that makes or removes a file
come between any two. The disk maps names to files with their kind, links, owner and data; data is
a sequence of chunks, a damaged one is `"!"`. `owed` is the data that nobody has asked
to lose: what was in regular files, but for what `-f` overwrites and what others remove. `Unpacked` is what a
decoder makes of the chunks of a file, a fold over them (`Accumulation`).

The calls (`Scenarios`) are a constant, restricted by `CallAssumption`: when files are made, no two of them are made into one
file, and none is made into one that is named to be read later (`Apart`); stdout is there, and no file has the name that stands
for it. A call like `bunzip2 -f a.bz2 a.tbz`, which goes
against this, makes `a` twice: `-f` allows the second to overwrite what the first was made into, and that is asked for.

`Recover` is bzip2recover bit by bit: the first pass with its two shift registers finds marks at any bit, the
second writes the bits between two of them with a header, an end mark and the CRC it read. Marks, CRC and
the least size of a block are shorter than in the format. The files are a constant, each with the blocks that are undamaged in it; an output that is in the way
(`Existing`) ends the program. An output is judged by its bits alone (`InBytes`, `OneBlock`), not by how they were written.

### Mutants

Operators with a name like `Unfinished_NoOutput`, `CanAbsorb_NoLimit` or
`Excess_None` are wrong versions of the definition they precede, each as a plausible
bug would have it. They are used by no specification. Each property of a passing run
is violated when one of them replaces the original (`mutants` in `PROJECT.json`): the
property is able to fail.

## 3. Runs

| Run | Configuration | States | What it shows |
|---|---|---|---|
| compress_protocol | `MCCompressProtocol.cfg` | 128,284 | every sequence of calls with every avail_in and avail_out; requests end |
| compress_data | `MCCompressData.cfg` | 541,002 | runs of bytes up to and past the longest, over calls, flushes and full blocks |
| decompress | `MCDecompress.cfg` | 2,175,090 | every cut of input and output of streams of up to two blocks |
| write_file | `MCWriteFile.cfg` | 3,438,119 | every sequence of writes and closes, every failure of the FILE, every size of a buffer |
| read_file | `MCReadFile.cfg` | 652,724 | a FILE that ends or fails at any byte; every read returns |
| block_codec | `MCBlockCodec.cfg` | 1,621,894 | blocks to bits and back, cut anywhere; damaged in any bit, judged as by the reference |
| algorithms | `MCAlgorithms.cfg` | 135,589 | codes, CRC, block sorts and suffix sort against what they are for |
| tools | `MCTools.cfg` | 128,390 | 36 calls of the bzip2 command with up to 3 mishaps; bzip2recover on damaged files |
| clean_up_releases | `MCCleanUpReleases.cfg` | violation | see Findings |
| failed_sort_harmless | `MCFailedSort.cfg` | violation | see Findings |
| flush_delivers_all | `MCFlushDeliversAll.cfg` | violation | see Findings |
| same_output | `MCReferenceSort.cfg` | violation | see Findings |

**compress_protocol.** `NoByteLost`, `StreamEndComplete`, `CountersExact`, `PromiseKept`,
`FlushComplete`, `NoSpuriousError`, `Implements` (the refinement) and `RequestsEnd`. Two bytes, a
longest run of 4 (255 in the code), a block limit of 1: three bytes of input then fill a block,
leave a run pending and start the next one. Room for output is 0, 1 or 2 units, sections have 2 to
4 and a word 2, last codes 1 or 2, so every cut of every section, in `zbits` and in `bsBuff`,
happens. Totals wrap at 3, so the carry into the high word happens several times.
Fairness: a call of the library returns (`WF(Library)`: it is sequential code), and a caller who
began to finish (to flush) keeps calling with the input it promised and with at least one
byte of room, as the manual requires ("You should always ensure that at least one byte of output
space is available at each call"). Strong fairness, because between two calls the library
has the control.

**compress_data.** `BlockFits`, `NoInputLost`, `CRCsMatch`. A longest run of 5 and seven
bytes of input: runs of every length up to the longest, two of them in a row, pairs with count
0 and 1. A limit of 2 lets a pair of five bytes start one below the limit. The callers of this
run always have room for all output and make no failing calls: that is the first run's subject, and
the product of both is too large.

**decompress.** Chunks of 0, 1, 5 and 9 bytes make the input end inside every field, let the
word-wise and the byte-wise refill alternate and give the parser more than eight bytes at a
time; rooms of 0 and 2 cut blocks of up to 3 bytes. Widths of 1 and 20 bits are the extremes
of the slow path, 15 that of a look-up in two levels. Two blocks, each of up to two reads
beyond its first, put every offset modulo 8 in front of the trailer. Totals wrap at 5, which
makes carry and borrow happen.

**write_file.** `StreamAgrees`, `FileIsPrefix`, `CloseIsComplete`. Up to five bytes in any number of
writes, which is several full blocks; the buffer holds 2 units and a section 2 to 4, so that every call
of the layer but the last fills it and the loops go round. A call that `BZ2_bzCompress` would turn
away would be a deadlock. Three mode strings: a level to be clamped, letters in both
orders, an unknown one. `*destLen` of 0, 1, 5, 8 and 9 units: none, less than a stream, the
least stream, all but one unit of a greater one.

**read_file.** `UnusedExact`, `EofMeansStarved`, `ReadReturns`. The buffer holds 5 bytes: a
word-wise refill and a byte-wise one from each filling, and the bit buffer spans two fillings. The
FILE may end after any number of bytes, in any field and after the stream. Reads of 2 bytes cut
blocks of up to 3. Fairness: a call of the library returns (`WF(Layer)`).

**block_codec.** `WriteBehindRead` (the values never overtake the order they replace), `RoundTrip`,
`SameVerdict` (a block is accepted, to the same column and after the same bits, refused, or found to
end too early, as by the reference; if accepted it is within its bounds), and no deadlock: every read finds a next
step. Nine bytes (`MapWidth` is 3), groups of 2 symbols, tables from 4, 6, 7 and 9 values on, look-up by 2 bits,
`ll16` of 2: all blocks of up to three of four bytes, and longer ones that have runs with their counts,
several groups and tables, are periodic, and reach both block sorts (`SmallBlock` is 7). The longest
block has 9 bytes, so a damaged run can ask for more. Every single bit of four blocks is
changed. The sort may fail for two blocks of seven bytes, one of a single byte and one of two, as the first of
their stream (`origPtr` is then -1, 0, or 8, which is beyond the block) or after one of four
earlier blocks, shorter and longer, sorted either way. `WriteBehindRead` and `SameVerdict` hold for these
blocks as well; `RoundTrip` excepts them, and what becomes of them is a finding. Only blocks of at most two
bytes are followed by another, so that every MTF value is below `HalfWord` (4). The reference's three short lists have 3 bytes in an array of 11, so they go back to its end after two moves
of bytes far from the front.

**algorithms.** `CodeLengthsOK`: all alphabets of five frequencies, limits 3 and 17. `LookUpAgrees`: all
lengths 1..5 of four symbols, complete or not. `CRCExact`: buffers with one bit, of lengths on both
sides of each branch; the CRC is linear over GF(2), so they stand for all of that length. `QSortShallow`,
`SameColumn`, `EveryCallSorts`: vectors of classes with few values, blocks of up to 9 bytes and
repetitive ones of 17 to 19, with a work factor that is used up and one that is not; all texts of two
symbols up to 7 and repetitive ones up to 37, which recurse several levels; room from
none to enough for each variant; `BucketsApart`: buckets never overlap what their call still
needs; `BuffersReleased`: no failing allocation leaves another one behind. `Top` is 128, so the marks are bits of
numbers that occur, and the local buffer 9, so every variant is chosen.

**tools.** `DataSurvives` (at every state, so at every moment of a death without notice: what is owed is in a file, whole,
as it was, compressed or decompressed), `NothingPartialLeft`, `ExitTells`,
`BlocksRecovered`. An exit value of 0 tells that every output is what it should be, and stdout the concatenation of what all
files are made into (`Due`). The second and third property leave out a pipe that `-d -f` passes through (`Passed`): it cannot be rewound, so what was
read to look for a stream is missing in the output. The calls differ in program name, options, suffixes, links, terminals,
kinds of files, existing outputs, concatenated, damaged, truncated and trailing data. Three mishaps
make an error, a signal in its handling, and another process possible in one run. For
bzip2recover: files of one stream or two, whole, with each bit changed, and with each bit lost. Marks have
6 bits that do not overlap.

Deadlock is checked in all runs; a program that has ended, or a block that is done, stutters.

### Findings

 * **Flush.** The manual (`reference/bzip2/docs/manual.xml` 1350-1352) says that a flush
   reports `BZ_RUN_OK` when "all compressed output has been removed".
   `BZ2_bzCompress` judges by `state_out_pos < numZ` (`src/bzlib.c` 455), and `bsBuff` may
   still hold up to 48 bits. The run `flush_delivers_all` shows a flush without input on a new
   stream: `BZ_RUN_OK`, and the whole header undelivered. What does hold is `FlushComplete`
   and, through `Implements`, the bound on what is missing. (A caller who flushes to make the
   data so far decodable does not get that.)
 * **Closing after an error.** `BZ2_bzWriteClose64` returns `BZ_IO_ERROR` before anything else
   while `ferror` is set (`src/bzlib.c` 1060), abandon or not, and frees nothing; it is set after a
   failed `fwrite`. The manual (2075-2077) says that after an error "the only action is to
   release the memory", and its example does so after `BZ_IO_ERROR`. `BZ2_bzclose` closes the
   FILE and forgets the pointer. The run `clean_up_releases` shows it. (Beside it: after an error that
   is not of the FILE, the code does call `fflush`, line 1088, which the manual excludes.)
 * **A failed sort.** `sais_bwt` returns when its allocation or `libsais` fails, and its comment says "fall
   through with origPtr = -1" (`src/blocksort.c` 46), which assertion 1003 (363) would stop. Nothing
   sets `origPtr` to -1 on that path: it has the value of the block before, so the assertion holds, and
   the block is encoded with that and with what is left in `ptr`. `FailedSortHarmless` asks that what the
   decoder makes of a block whose sort failed is the block. The run `failed_sort_harmless` starts from memory in which
   `origPtr` is -1, so that a first block is stopped as the comment says; it shows a block of eight bytes encoded,
   the sort of the next one, of seven, failing, and the decoder delivering other bytes. In a file the
   CRC of the block, which is that of the right bytes, makes it undecodable; the caller of the compressor is told `BZ_OK`.
 * **Same output.** `requirements/REQUIREMENTS.md` 25 asks for the output of the original, byte for byte. For a
   periodic block the equal rotations come in any order, and `origPtr` is the place of the first
   one: the suffix array puts it elsewhere than the original's sort. The last column, and so all
   other bits, are the same (`SameColumn`); the run `same_output` shows the difference.

Seen beside these, in prose only:

 * `BZ_RUN` without input returns `BZ_PARAM_ERROR` (`src/bzlib.c` 433); the manual (1330-1333) gives
   `BZ_RUN_OK`.
 * `myfeof` (`src/bzlib.c` 921) takes a failing `fgetc` for the end of the file: a read error is reported as
   `BZ_UNEXPECTED_EOF`, which the manual (1834-1838) tells apart.
 * `BZ_STREAM_END` with `feof(f)` may leave unused bytes, of a further stream; the manual (2155-2160) says
   it has none. What holds is `UnusedExact`.
 * `BZ2_bzBuffToBuffCompress` of nothing into no room returns `BZ_SEQUENCE_ERROR`, which is none of its documented
   results (`NothingAsked` excludes it from `StreamAgrees`).
 * The command does not check the `fclose` of its output when it ignores trailing garbage, and removes the input
   after it; the comment there says "If there was an I/O error, we won't get here"
   (`reference/bzip2/bzip2.c` 1289, 1466). `unchecked` marks this path, and `DataSurvives` excludes it.
 * With `-df` and trailing garbage the command writes the whole input after what it decoded; without an input
   that can be opened it leaves an empty output; a pipe cannot be rewound to be copied.
 * bzip2recover tells of too many blocks one mark late, and takes the difference of two marks closer than a
   mark's length modulo 2^64.

The original bzip2 behaves in the first two cases, and in those of the streams and the commands, as this code does;
its documentation diverges.

## 4. Proofs

The modules with theorems hold, for every value of the constants that satisfies the named
assumptions, `Spec => []IInv` for an inductive invariant of each component and from it the properties; the
theorems are listed in `PROJECT.json`. Assumptions: bytes are in 0..255; a longest run of 4..255; nblockMAX
leaves more than five bytes; a word is at least one unit, a block and the trailer have
more units than a word, a last code at most a word, and there is a last code; avail_out of a call is below 2^32
(`W`); for decompression, widths of 1..20 bits and W > 4; for the layers, a buffer of at least one unit and
rooms below 2^32; for the command, `CallAssumption` (see its module) and `ChunkAssumption`: the chunks that the model itself
puts into files are chunks, and `"none"`, which stands for no result, is not. There are files with any name and data, calls with any number of them, and any number of mishaps.

**Compression** (`BZCompressProofs`). Neither `BlockFits` nor `StreamEndComplete` is inductive.
 * `BlockFits` needs `BlockRoom`: in the INPUT state the block is at most 4 over its limit and,
   once full, has a run of exactly one pending, the byte that filled it. So the flush that may
   follow adds one byte and not five.
 * `StreamEndComplete` rests on `TrailerLast`: the trailer is the last section, in FINISHING,
   with nothing pending; conversely FINISHING in OUTPUT with nothing pending has written it.
   The second half is what the early exit of the loop relies on. It is inductive only with
   `OutputHasRun` (a FINISH that starts while a full block is being delivered finds a run
   pending), which in turn needs `Left`, why each call left its loop.
 * `NoByteLost` needs `Buffers` (`zbits` is empty in INPUT: nothing is overwritten when the next
   block is compressed) and `Numbering` (the buffer is reset with the header only).
 * `NoSpuriousError` needs `FinishMoves`: a finish that has nothing more to take has output to give, or has
   given some in this call.
 * `PromiseKept` is inductive by itself.

**Decompression** (`BZDecompressProofs`). `PushBackSafe` is the deep one: bytes are given back only from this call's
input. `Waiting` says that between calls the buffer has fewer bits than the field that waits, and
`CarriedBits` that in the trailer, bits of an earlier call are either used up or fewer than eight:
the buffer has at most 64 bits and the trailer 80, each label knows how many of its bytes are
read. `StreamEndChecked` rests on `Checked` (blocks begun and CRCs combined differ by one exactly
inside a block), `MemoryReady` on `Memory`.

**Counters** (`CommonLemmas`, for both). `CountersExact` is inductive when no step counts a whole word: the code
carries when the low word is *less than what was added* afterwards, and borrows when it is less than
what is taken. In the compressor a step counts one byte, or what one call delivers. In the decompressor a refill
counts one or four, and the push-back at most four, since the buffer holds at most 39 bits at the last field
(`Counting`). `CommonLemmas` proves that such a carry or borrow keeps hi * W + lo equal to the count
modulo W * W; the provers' arithmetic is linear, so products are kept behind lemmas.

**Writing** (`BZWriteFileProofs`). A step of the layer may change `avail_in`, `avail_out` and the request of the
stream, and every step of the stream is one of the layer: `StreamKept` shows that `IInv` of `BZCompress`
survives both, so all its properties hold under this caller too.
 * `StreamAgrees` needs `Handed` (what was given is consumed or waits, and the mode is the one in which the layer
   may ask for what it asks next) and, since a sequence error depends on progress, `Moving`: until a call has made some
   progress it has what it takes to make it.
 * `CloseIsComplete` needs `CameBack`: what each return code tells of the mode, and that `BZ_FINISH` comes back
   early only when the room is used up. That is why the loop of the close ends with a whole stream, and why a
   buffer reported as full is full.
 * `FileIsPrefix` needs `Filed`: the file has what was sent, without what is in the buffer.

**Reading** (`BZReadFileProofs`). `IInv` of `BZDecompress` does *not* survive: between two calls the layer
replaces next_in and avail_in, and what is said of the input of a call (`PushBackSafe`, `CarriedBits`) is false
there. `Stream` is the invariant weakened to what any caller may rely on: these two are said of a call under way. That it is
still inductive is `StreamIsUsedWell`.
 * `UnusedExact` is inductive with `RWhere` (what is fetched before the stream is open is in the buffer).
 * `EofMeansStarved` needs `Came`: a call that returned `BZ_OK` used up its input in the middle of a field, or its
   room. It is `OkMeansBlocked` carried over to the state after the call.

**Refinement** (`BZCompressDataProofs`). `StreamIsImplemented` goes action by action: `AbsorbByte` is an `Accept`, `CutRest` and `CutFull` are
a `Cut`, `OutputStops` a `Deliver` or a stutter, `Return` is a `FlushOver`, a `Finished` or a stutter. A cut is the hard
one. What leaves `Inside` must be what the new section's CRC covers, although `flush_RL` or `AddPair` moves the
run into the block in the same step; a section is left out exactly when nothing is cut, so the block must be
empty exactly when its CRC is of nothing (`Covers`); and the trailer comes with the cut that leaves nothing
inside. That a flush leaves at most `Remainder` is `HoldShort`: `bsNEEDW` moves whole words *before* a code is
written, so less than a word and one code may stay, and nothing that happens later adds to it without a
further `bsNEEDW`. `InputIsKept` follows with the cut positions as a witness: each cut extends the function by
the number of bytes read less those still pending.

**Data** (`BZCompressDataProofs`). `NoInputLost` and `CRCsMatch` say what decoders make of any number of bytes and
blocks, so they need induction. The induction theorems of the library take an operator, which no installed prover
instantiates; `UpTo` (`CommonLemmas`) is induction over a *set* of numbers, from the well-foundedness of < on
the naturals. With it a fold exists, has the type of its step (`FoldExists`), and is unique (`FoldUnique`), and so a fold over
one more element is one more step (`AccumulateOne`): all that the invariant needs.
 * `PairDecodes` is the run coder: a pending run of 1..`MaxRun` bytes, added to a block, adds exactly its bytes to what the
   block decodes to. It is false for an arbitrary block. The decoder must not wait for a count, and must not have just seen
   the byte of the run, or the two runs would be read as one; `Filling` says so. A run of four or more ends with its
   count, after which the decoder has forgotten the byte: that is why a run of `MaxRun` may be followed by more
   of the same byte.
 * `Emitted`: the blocks decode to what the combined CRC is of, one by one; the trailer has all of them because none follows it
   (`TrailerLast`).
 * `Placed`: what was read is what the combined CRC is of, followed by what is inside. With `Filling` and `Emitted` it is `NoInputLost`.

**Suffix sort** (`SuffixSortProofs`). `BuffersReleased` is about the end; what leads to it is who holds the buffers on the way.
 * `OthersWait`: every call but the last waits for the one it made; `main_8u` is the first if it is there; only it and
   the 1k variant have buckets on the heap.
 * `Accounted`: `main_8u` holds one buffer until it is done, and the *last* call one if it is of the 1k variant and past counting. A
   1k call that waits holds none: it has freed its buckets before it recurses and gets new ones after. So a chain of any depth
   has at most two buffers, and a failure in the last call can leave none behind with those that wait. That makes the
   invariant one about the first and the last call, and no sum over the calls is needed.
 The proof says nothing of what is in the arrays: it holds whatever the scans compute.

**Command** (`ToolsProofs`). `DataSurvives` is about what is on the disk at every moment; `CommandInvariant` says why it is
there. Each part is what some step needs.
 * `KeptAll` strengthens `DataSurvives`: what is owed is in a regular file of the *user's*, or it is whole in the output of a file
   that is *finished*. An output that is under way, or of another file, does not count, although it might happen to hold the
   same data: only then does it not matter that the output of this file is removed by `cleanUpAndFail`, `Discard` or a signal.
 * `Mine`: while the output is written, and wherever it would be removed, its name is that of a file that the command made. It holds
   because `deleteOutputOnInterrupt` is set only after `fopen_output_safely`, and `Located` says where it is set. Without it
   a signal could remove a file of the user's.
 * `Content` relates output and input at every place: what is in the file and its buffer is what a decoder makes of the part that
   is consumed (`Unwound`); when compressing, that output and the rest of the input are the whole; before the input is closed, the
   output is what it should be unless the FILE has an error (`Done`). So `RemoveInput` is reached only
   with a whole output. `UnpackOne` is its step: a fold over one more chunk, from `AccumulateOne`.
 * `Inputs` and `InOrder`: the input is still what it was at the start when it is opened, although other files were made and
   removed before it. This is where `Apart` is needed.
 * `Made` for `NothingPartialLeft`: an output is whole, or it is the current one and marked for deletion, or an exit
   has warned of it.
 * `Untested`: a test makes no output and never comes to the removal of an input.

`ExitTells` (`ExitIsTrue`) is about the end of the program and all of its files, so it needs what was true at the end of each file's
turn and was not undone since.
 * `Told`: as long as neither the exit value nor a failed test nor an unchecked close speaks against it (`Fair`), each file before
   this one is what can be packed or unpacked, and its output is on the disk as it should be (`Handled`). A step changes only the
   output and the input of its own turn (`DiskSpared`), which by `Apart` are neither the output of a file before it. What is `Fair` now was
   `Fair` before: every path that ends a turn otherwise goes through `setExit`, sets `testFailsExist` or
   `unzFailsExist`, or exits with a value that is not 0 (`Steadily`, `Codes`). `Arrives` then has one case for each way a turn
   can end without saying so. Garbage after a stream under `-t` is one: it is *not* an error from the second
   stream on (`MagicJudged`).
 * With `-c` all outputs are one file. `Level` says that between two turns stdout and its buffer are the concatenation of what all files so far
   are made into, as `Base` and `Wrote` say of the part of the current file while it is written; the
   last part leaves the buffer only in `exit`, and a failure there is `unchecked`. What a decoder makes of all of them is a fold over the
   names (`DueIs`).
 * `Codes`: `cleanUpAndFail` is called with a value above 0. Without it an error could exit with 0.

 Where `unchecked` is set, an output after trailing garbage was closed without a look at the result (see Findings;
 these properties leave it out), and nothing is claimed. The theorems hold for any data, with any number of streams in a
 file, for any number of files, failing calls and interventions of other processes, which TLC checks for three mishaps and 36 calls.

**bzip2recover** (`ToolsProofs`). `BlocksRecovered` is about a file and its outputs when all is over; the two passes only see a register
and a few counters. `RInv` ties these to the file, with one part for each pass.
 * `Searching`: the register is the last bits read (`LastBits`), so it holds a mark exactly when one ends here (`MarkSeen`), whatever
   its bits and at whatever place; `start` is where the last one ended. `Complete`: what was found has every block between two marks read so far.
   The difference of two marks is unsigned, so marks side by side are recorded as a long block that ends before it starts.
 * `Ordered` is what makes these harmless: the second pass goes from block to block by *equality* of `bitsRead` with an end or a start, and
   would never stop at one that it has passed. Each end lies after the end before it and each start more than one bit after it,
   also where marks overlap.
 * `Current`: the output is open exactly between start and end and has the headers and the bits since; the CRC is right from the bit on where
   it is seen, although the register may still have bits of the *first* pass in it when a block starts early: by then they have been
   shifted out. A block found is longer than a mark (`MarkAssumption`), so the CRC is seen before it ends.
 * `PutAll` and `CloseIs` are the writer: its bits are those put, in order (an induction over them with `UpTo`), and a buffer that was
   used at all is never empty when the file is closed, so there are whole bytes and less than one byte of zeros.

 The theorem is for marks of any bits and any length, overlapping or not, any file and any outputs that are in the way. `MarkAssumption` says
 that the two marks are as long as each other and no shorter than a CRC, a block longer than a mark; `ImageAssumption` what an undamaged block is: the bits between a mark and the
 *next* one, if there are more than `MinBits`. So a block in whose bits a mark occurs by chance is not claimed to be
 recovered, and it is not.

The proofs go action by action (`TypeStep`, `WhereStep`, `BitsStep`, ...), each with one step per
action, and `StepHolds` (`RStepHolds`, `FStepHolds`) combines them; every inductive invariant was checked by TLC on the
instances above before it was proved.

**Only model-checked:**
 * liveness (`RequestsEnd`, `ReadReturns`), which is out of the prover's reach;
 * `RoundTrip`, `WriteBehindRead`, `SameVerdict`, all of `Coders`: what long recursive computations yield for every
   input. Induction (`UpTo`) reaches recursive functions, but not `RECURSIVE` operators, with which the prover cannot be
   used at all; the modules with `RECURSIVE` operators (`HuffmanCodes`, `BlockSort`, `MainSort`, `Crc`, `UnRLE`,
   `BlockEncoder`, `BlockDecoder`, `ReferenceDecoder` and those that use them) are for TLC only;
 * `EveryCallSorts`, the correctness of induced sorting; `BucketsApart`, which needs that every call finds fewer names than
   it has suffixes left, a fact about what the naming scan computes.

## 5. Not modelled

 * Verbosity, the text of messages, `BZ2_bzerror`, `BZ2_bzlibVersion`, `BZ2_bzflush` (which does nothing), and parameter
   checks that change no state.
 * Calls after an error of the decompression stream: the manual forbids them.
 * `BZ2_bzread` after `BZ_STREAM_END`: it returns 0 and changes nothing.
 * The parts of `libsais.c` that are not built or not used here: OpenMP, `libsais_bwt`, `unbwt`, `plcp`,
   `lcp`, the generalised suffix array. Prefetching and unrolling change no result and are left out.
 * The rest of the original library: its streams, its Huffman codes and its CRC are those of libqbz2 in the
   form they had before; modelled are the parts that differ in their algorithm: the main sort, and the body of a block
   without a look-up and with short lists.
 * Tests, fuzzers, the benchmark and the profiling tool: callers, which the models' callers stand for.
 * Data abstracted: a compressed section is a number of units in the stream models; a block in the codec is one
   block, its header and CRC being the streams' subject; a file of the commands is a sequence of chunks; what is
   flushed from a FILE's buffer when the process dies is lost, although some of it might be written.

## 6. Plan

What is left is to prove more:

 1. `BucketsApart` of `SuffixSort`: bounds of the number of names, from the scans of `LibSAIS`, which are functions on
    intervals and so within reach of `UpTo`.
 2. Bounds of the output state machine: `tPos` inside the vector for every block that is accepted. It needs the parts of
    `UnRLE` without recursive operators in a module of their own.
 3. The pure algorithms that are one loop, such as the byte-wise CRC, as recursive functions, with `FoldUnique` for their results.
