-------------------------- MODULE BZReadFileProofs --------------------------
(***************************************************************************)
(* The safety of the reading half of the stdio layer for every value of    *)
(* the constants: whatever the size of bzf->buf and wherever the FILE      *)
(* ends, no byte of it is skipped or read twice, and a file is called      *)
(* truncated only when nothing that was read is left.                      *)
(*                                                                         *)
(* The layer exchanges the input and the output of the stream between two  *)
(* calls, so what BZDecompressProofs says of the stream is carried over    *)
(* for the calls (Library) and shown anew for what lies between them.      *)
(***************************************************************************)
EXTENDS BZReadFile, BZDecompressProofs

USE CounterAssumption, OfferAssumption, BufAssumption

-----------------------------------------------------------------------------
(* The stream as the layer uses it *)

(* Within a call every byte taken from next_in is counted, the stream      *)
(* stays open.                                                             *)
LEMMA LibraryFacts ==
  ASSUME TypeOK, Library
  PROVE  /\ pc # "caller"
         /\ open' = open
         /\ bytesIn' + availIn' = bytesIn + availIn
<1>1. CASE RefillWord \/ RefillByte \/ RefillAhead
  BY <1>1 DEF RefillWord, RefillByte, RefillAhead, Starving, TakeIn, TypeOK
<1>2. CASE NeedInput
  BY <1>2 DEF NeedInput, Starving, strm, hist
<1>3. CASE TakeChain
  BY <1>3 DEF TakeChain, At, Fields, strm
<1>4. CASE TakeMagic4
  BY <1>4 DEF TakeMagic4, At, Fields, strm
<1>5. CASE TakeBlkhdr1
  BY <1>5 DEF TakeBlkhdr1, At, Fields, strm
<1>6. CASE TakeBlkhdr6 \/ TakeBcrc4
  BY <1>6 DEF TakeBlkhdr6, TakeBcrc4, At, Fields, strm
<1>7. CASE TakeOrigPtr3
  BY <1>7 DEF TakeOrigPtr3, At, Fields, strm
<1>8. CASE TakeBody \/ FastSymbol
  BY <1>8 DEF TakeBody, FastSymbol, At, Fields, strm
<1>9. CASE TakeCcrc4
  <2>1. Excess \in Int
    BY <1>9, ExcessFacts DEF TakeCcrc4, TypeOK
  <2> QED BY <1>9, <2>1 DEF TakeCcrc4, TypeOK
<1>10. CASE OutputStops \/ OutputEnds \/ OutputCorrupt
  BY <1>10 DEF OutputStops, OutputEnds, OutputCorrupt
<1> QED BY <1>1, <1>2, <1>3, <1>4, <1>5, <1>6, <1>7, <1>8, <1>9, <1>10 DEF Library, Parse

(* Within a call the promises of the stream are its inductive invariant.   *)
LEMMA LibraryKeeps == Stream /\ Library => Stream'
<1> SUFFICES ASSUME Stream, Library PROVE Stream'
  OBVIOUS
<1>1. IInv
  BY LibraryFacts DEF Stream, IInv
<1>2. IInv'
  BY <1>1, StepHolds DEF Next
<1> QED BY <1>2 DEF IInv, Stream, PushBackSafe

(* A call with any input and any room for less than a word of output.      *)
LEMMA CallKeeps ==
  ASSUME NEW n \in Nat, NEW m \in Nat, m < W, Stream, Call(n, m)
  PROVE  Stream'
<1> USE DEF Stream
<1>1. TypeOK'
  BY DEF Call, TypeOK, blk, Returns
<1>2. Where' /\ Waiting' /\ Checked'
  BY DEF Call, blk, TypeOK, Where, Waiting, Checked, Labels, States
<1>3. BitsConserved' /\ bytesIn' >= 0
  BY DEF Call, BitsConserved
<1>4. Memory'
  BY DEF Call, Memory, NoLeak, Tables
<1>5. Counting' /\ CountersExact'
  BY DEF Call, Counting, CountersExact, Total
<1>6. PushBackSafe'
  BY DEF Call, PushBackSafe, TypeOK
<1>7. CarriedBits'
  BY DEF Call, CarriedBits, Waiting, Taken, Trailer, TrailerRead, TypeOK, Where, Labels, Width
<1> QED BY <1>1, <1>2, <1>3, <1>4, <1>5, <1>6, <1>7

(* Opening, refusing and ending a stream. *)
LEMMA LifetimeKeeps ==
  Stream /\ (DecompressInit \/ DecompressInitFails \/ DecompressEnd) => Stream'
<1> SUFFICES ASSUME Stream, DecompressInit \/ DecompressInitFails \/ DecompressEnd
             PROVE  Stream'
  OBVIOUS
<1>1. [Next]_vars
  BY DEF Next
<1>2. /\ TypeOK' /\ Where' /\ BitsConserved' /\ Waiting' /\ Memory' /\ Checked'
      /\ Counting' /\ CountersExact'
  BY <1>1, TypeStep, WhereStep, BitsStep, WaitingStep, MemoryStep, CheckedStep, CountingStep,
     CountStep DEF Stream
<1>3. pc' = "caller" /\ bytesIn' >= 0
  BY DEF Stream, DecompressInit, DecompressInitFails, DecompressEnd, hist
<1> QED BY <1>2, <1>3 DEF Stream

(* Between calls the caller may give the stream other buffers. *)
LEMMA BuffersKeep ==
  ASSUME Stream, pc = "caller", availIn' \in Nat, availOut' \in Nat, availOut' < W,
         UNCHANGED <<open, live, small, state, want, bsLive, totalIn, totalOut, blk, pc, ret,
                     hist>>
  PROVE  Stream'
<1> USE DEF Stream
<1>1. TypeOK'
  BY DEF TypeOK, blk, hist
<1>2. Where' /\ Waiting' /\ Checked'
  BY DEF blk, hist, Where, Waiting, Checked
<1>3. BitsConserved' /\ bytesIn' >= 0
  BY DEF BitsConserved, hist
<1>4. Memory'
  BY DEF Memory, NoLeak, Tables
<1>5. Counting' /\ CountersExact'
  BY DEF Counting, CountersExact, Total, hist
<1> QED BY <1>1, <1>2, <1>3, <1>4, <1>5

-----------------------------------------------------------------------------
(* The layer *)

(* What bzf->buf may hold, empty or after an fread. *)
LEMMA BufRange == 0 \in 0..BufSize /\ 1..BufSize \subseteq 0..BufSize /\ 0..BufSize \subseteq Nat
  OBVIOUS

(* The stream keeps its promises whatever the layer does with it. *)
LEMMA StreamStep == Stream /\ RTypeOK /\ RWhere /\ [RNext]_allVars => Stream'
<1> SUFFICES ASSUME Stream, RTypeOK, RWhere, [RNext]_allVars PROVE Stream'
  OBVIOUS
<1>0. ASSUME UNCHANGED vars PROVE Stream'
  <2>1. /\ TypeOK' /\ Where' /\ BitsConserved' /\ Waiting' /\ Memory' /\ Checked'
        /\ Counting' /\ CountersExact'
    BY <1>0, TypeStep, WhereStep, BitsStep, WaitingStep, MemoryStep, CheckedStep,
       CountingStep, CountStep DEF Stream
  <2>2. UNCHANGED <<open, state, bsLive, availIn, entryIn, bytesIn, pc>>
    BY <1>0 DEF vars, strm, hist
  <2> QED BY <2>1, <2>2 DEF Stream, PushBackSafe, CarriedBits, Taken
<1>1. CASE ReadOpen \/ BzOpen \/ Misuse \/ GetUnused \/ LoopFails \/ FreadFails
           \/ Decompressed \/ BuffDecompressed \/ UNCHANGED allVars
  BY <1>0, <1>1 DEF ReadOpen, BzOpen, Misuse, GetUnused, LoopFails, FreadFails, Decompressed,
     BuffDecompressed, allVars
<1>2. CASE ReadOpenInit \/ BuffDecompress \/ ReadClose \/ BuffEnd
  BY <1>2, LifetimeKeeps DEF ReadOpenInit, BuffDecompress, ReadClose, BuffEnd
<1>3. CASE ReadOpened
  BY <1>3, BuffersKeep DEF ReadOpened, Offer, RTypeOK, RWhere, InCall, Stream, TypeOK, Counting
<1>4. CASE \E len \in Lengths : Read(len)
  <2>1. PICK len \in Lengths : Read(len)
    BY <1>4
  <2>2. pc = "caller" /\ availIn' \in Nat /\ availOut' \in Nat /\ availOut' < W
    BY <2>1 DEF Read, Lengths, RWhere, InCall, Stream, TypeOK
  <2>3. UNCHANGED <<open, live, small, state, want, bsLive, totalIn, totalOut, blk, pc, ret,
                    hist>>
    BY <2>1 DEF Read
  <2> QED BY <2>2, <2>3, BuffersKeep
<1>5. CASE LoopHead
  <2>1. CASE NoRefill
    BY <1>0, <2>1 DEF NoRefill
  <2>2. CASE Fread
    BY <1>5, <2>2, BuffersKeep DEF LoopHead, Fread, Offer, RWhere, InCall, Stream, TypeOK,
       Counting
  <2> QED BY <1>5, <2>1, <2>2 DEF LoopHead
<1>6. CASE CallDecompress
  BY <1>6, CallKeeps DEF CallDecompress, Stream, TypeOK, Counting
<1>7. CASE BuffCall
  <2>1. PICK n \in Chunks, m \in Rooms : Call(n, m)
    BY <1>7 DEF BuffCall
  <2>2. n \in Nat /\ m \in Nat /\ m < W
    OBVIOUS
  <2> QED BY <2>1, <2>2, CallKeeps
<1>8. CASE Decompress
  BY <1>8, LibraryKeeps DEF Decompress
<1> QED BY <1>1, <1>2, <1>3, <1>4, <1>5, <1>6, <1>7, <1>8 DEF RNext, Layer

(* The bytes of two fetches are bytes. *)
LEMMA SumOfNats == \A m, n \in Nat : m + n \in Nat
  OBVIOUS

(* What fread brings fits bzf->buf. *)
LEMMA FreadRange ==
  ASSUME RTypeOK, bufN' \in 1..BufSize, fetched' = fetched + bufN'
  PROVE  bufN' \in 0..BufSize /\ fetched' \in Nat
<1>1. fetched \in Nat
  BY DEF RTypeOK
<1>2. bufN' \in 0..BufSize /\ bufN' \in Nat
  BY BufRange
<1>3. fetched' \in Nat
  BY <1>1, <1>2, SumOfNats
<1> QED BY <1>2, <1>3

(* The layer's variables keep their types. *)
LEMMA RTypeStep == Stream /\ RTypeOK /\ [RNext]_allVars => RTypeOK'
<1> SUFFICES ASSUME Stream, RTypeOK, [RNext]_allVars PROVE RTypeOK'
  OBVIOUS
<1> USE DEF RTypeOK, Reading, Buffer
<1>1. CASE ReadOpen \/ BzOpen \/ UNCHANGED allVars
  <2>1. CASE UNCHANGED fvars
    BY <2>1 DEF fvars
  <2>2. CASE bufN' \in 0..BufSize /\ fetched' = bufN'
    BY <1>1, <2>2, BufRange DEF ReadOpen, BzOpen, allVars, fvars, Returns
  <2> QED BY <1>1, <2>1, <2>2 DEF ReadOpen, BzOpen, allVars
<1>2. CASE ReadOpenInit \/ ReadClose
  <2>1. CASE Gone
    BY <2>1, BufRange DEF Gone, Done, Returns
  <2>2. CASE fpc' = "opened" /\ UNCHANGED <<bzf, lastErr, bufN, ended, ferr, fetched>>
    BY <2>2
  <2> QED BY <1>2, <2>1, <2>2 DEF ReadOpenInit, ReadClose
<1>3. CASE ReadOpened
  BY <1>3 DEF ReadOpened, Done, Returns
<1>4. CASE Misuse \/ GetUnused
  BY <1>4 DEF Misuse, GetUnused, Returns
<1>5. CASE \E len \in Lengths : Read(len)
  BY <1>5 DEF Read
<1>6. CASE LoopFails \/ FreadFails
  BY <1>6 DEF LoopFails, FreadFails, Fails, Done
<1>7. CASE LoopHead
  <2>1. CASE Fread
    <3>1. ended' \in BOOLEAN
      BY <2>1 DEF Fread
    <3>2. UNCHANGED <<bzf, lastErr, ferr>> /\ fpc' = "call"
      BY <1>7, <2>1 DEF LoopHead, Fread
    <3>3. bufN' \in 1..BufSize /\ fetched' = fetched + bufN'
      BY <2>1 DEF Fread
    <3>4. bufN' \in 0..BufSize /\ fetched' \in Nat
      BY <3>3, FreadRange DEF RTypeOK
    <3> QED BY <3>1, <3>2, <3>4
  <2>2. CASE ~Fread
    BY <1>7, <2>2 DEF LoopHead, AtEnd, Fails, NoRefill
  <2> QED BY <2>1, <2>2
<1>8. CASE CallDecompress \/ Decompress
  BY <1>8 DEF CallDecompress, Decompress, fvars
<1>9. CASE Decompressed
  <2>1. ret \in Returns
    BY DEF Stream, TypeOK
  <2> QED BY <1>9, <2>1 DEF Decompressed, AtEnd, Fails, HasMore, Done, Returns
<1>10. CASE BuffDecompress \/ BuffCall \/ BuffEnd
  BY <1>10 DEF BuffDecompress, BuffCall, BuffEnd, Done, Returns
<1>11. CASE BuffDecompressed
  <2>1. ret \in Returns
    BY DEF Stream, TypeOK
  <2> QED BY <1>11, <2>1 DEF BuffDecompressed, OkIs, Returns
<1> QED BY <1>1, <1>2, <1>3, <1>4, <1>5, <1>6, <1>7, <1>8, <1>9, <1>10, <1>11
        DEF RNext, Layer

(* A stream is open exactly while a bzFile or the buffer-to-buffer call    *)
(* uses it, and it runs only within one of the two calls.                  *)
LEMMA RWhereStep == Stream /\ RTypeOK /\ RWhere /\ [RNext]_allVars => RWhere'
<1> SUFFICES ASSUME Stream, RTypeOK, RWhere, [RNext]_allVars PROVE RWhere'
  OBVIOUS
<1> USE DEF RWhere, Reading, Buffer, InCall
<1>1. CASE ReadOpen \/ BzOpen \/ UNCHANGED allVars
  BY <1>1 DEF ReadOpen, BzOpen, allVars, fvars, vars, hist
<1>2. CASE ReadOpenInit \/ ReadClose
  BY <1>2 DEF ReadOpenInit, ReadClose, Gone, Done, DecompressInit, DecompressInitFails,
     DecompressEnd, hist
<1>3. CASE ReadOpened
  BY <1>3 DEF ReadOpened, Done, hist
<1>4. CASE Misuse \/ GetUnused
  BY <1>4 DEF Misuse, GetUnused, vars, hist
<1>5. CASE \E len \in Lengths : Read(len)
  BY <1>5 DEF Read, Usable, hist
<1>6. CASE LoopFails \/ FreadFails
  BY <1>6 DEF LoopFails, FreadFails, Done, vars
<1>7. CASE LoopHead
  <2>1. CASE Fread
    BY <1>7, <2>1 DEF LoopHead, Fread, hist
  <2>2. CASE NoRefill
    BY <1>7, <2>2 DEF LoopHead, NoRefill, vars, hist
  <2> QED BY <1>7, <2>1, <2>2 DEF LoopHead
<1>8. CASE CallDecompress \/ BuffCall
  BY <1>8 DEF CallDecompress, BuffCall, Call
<1>9. CASE Decompress
  BY <1>9, LibraryFacts DEF Decompress, fvars, Stream
<1>10. CASE Decompressed
  BY <1>10 DEF Decompressed, Done, vars
<1>11. CASE BuffDecompress
  BY <1>11 DEF BuffDecompress, DecompressInit, DecompressInitFails
<1>12. CASE BuffDecompressed
  BY <1>12 DEF BuffDecompressed, vars
<1>13. CASE BuffEnd
  BY <1>13 DEF BuffEnd, Done, DecompressEnd
<1> QED BY <1>1, <1>2, <1>3, <1>4, <1>5, <1>6, <1>7, <1>8, <1>9, <1>10, <1>11, <1>12, <1>13
        DEF RNext, Layer

(* BZ_OK from a call means that the input or the room is used up, and once *)
(* the end of the stream was reported nothing moves the parser on.         *)
LEMMA CameStep ==
  Stream /\ RTypeOK /\ RWhere /\ Came /\ [RNext]_allVars => Came'
<1> SUFFICES ASSUME Stream, RTypeOK, RWhere, Came, [RNext]_allVars PROVE Came'
  OBVIOUS
<1> USE DEF Came, InCall
<1>1. CASE ReadOpen \/ BzOpen \/ UNCHANGED allVars
  BY <1>1 DEF ReadOpen, BzOpen, allVars, fvars, vars, strm, blk
<1>2. CASE ReadOpenInit \/ ReadClose
  BY <1>2 DEF ReadOpenInit, ReadClose, Gone, Done, RWhere, Reading
<1>3. CASE ReadOpened
  BY <1>3 DEF ReadOpened, Done
<1>4. CASE Misuse \/ GetUnused
  BY <1>4 DEF Misuse, GetUnused, vars, strm, blk
<1>5. CASE \E len \in Lengths : Read(len)
  BY <1>5 DEF Read, Usable
<1>6. CASE LoopFails \/ FreadFails
  BY <1>6 DEF LoopFails, FreadFails, Done, vars
<1>7. CASE LoopHead
  BY <1>7 DEF LoopHead, NoRefill, Fread, RWhere, Reading
<1>8. CASE CallDecompress \/ BuffCall
  BY <1>8 DEF CallDecompress, BuffCall, Call, RWhere, Reading, Buffer
<1>9. CASE Decompress
  <2>1. Blocked /\ pc # "caller"
    BY <1>9, BlockedStep, LibraryFacts DEF Decompress, Stream, Next
  <2>2. ~(bzf' /\ lastErr' = "STREAM_END")
    BY <1>9 DEF Decompress, fvars, RWhere, Reading, Buffer
  <2> QED BY <2>1, <2>2 DEF Blocked
<1>10. CASE Decompressed
  <2>1. open /\ lastErr = "OK"
    BY <1>10 DEF Decompressed, RWhere, Reading
  <2>2. ret = "STREAM_END" => state = "IDLE"
    BY <2>1 DEF Stream, Checked
  <2> QED BY <1>10, <2>1, <2>2 DEF Decompressed, Done, vars
<1>11. CASE BuffDecompress
  BY <1>11 DEF BuffDecompress
<1>12. CASE BuffDecompressed
  BY <1>12 DEF BuffDecompressed, RWhere, Buffer
<1>13. CASE BuffEnd
  BY <1>13 DEF BuffEnd, Done
<1> QED BY <1>1, <1>2, <1>3, <1>4, <1>5, <1>6, <1>7, <1>8, <1>9, <1>10, <1>11, <1>12, <1>13
        DEF RNext, Layer

(* Every byte fetched was taken by the stream or waits in bzf->buf; at the *)
(* end of the stream fewer than eight bits were taken and not used.        *)
LEMMA UnusedStep ==
  Stream /\ RTypeOK /\ RWhere /\ UnusedExact /\ [RNext]_allVars => UnusedExact'
<1> SUFFICES ASSUME Stream, RTypeOK, RWhere, UnusedExact, [RNext]_allVars
             PROVE  UnusedExact'
  OBVIOUS
<1> USE DEF UnusedExact
<1>1. CASE ReadOpen \/ BzOpen \/ UNCHANGED allVars
  BY <1>1 DEF ReadOpen, BzOpen, allVars, fvars, vars, strm, hist
<1>2. CASE ReadOpenInit \/ ReadClose
  BY <1>2 DEF ReadOpenInit, ReadClose, Gone, Done
<1>3. CASE ReadOpened
  BY <1>3 DEF ReadOpened, Done, Offer, RWhere, RTypeOK, hist
<1>4. CASE Misuse \/ GetUnused
  BY <1>4 DEF Misuse, GetUnused, vars, strm, hist
<1>5. CASE \E len \in Lengths : Read(len)
  BY <1>5 DEF Read, hist
<1>6. CASE LoopFails \/ FreadFails
  BY <1>6 DEF LoopFails, FreadFails, Done, vars, strm, hist, RWhere, Reading
<1>7. CASE LoopHead
  <2>1. bzf /\ lastErr = "OK" /\ fetched = bytesIn + availIn
    BY <1>7 DEF LoopHead, RWhere, Reading
  <2>2. CASE Fread
    <3>1. availIn = 0 /\ availIn' = bufN' /\ fetched' = fetched + bufN' /\ bufN' \in Nat
      BY <1>7, <2>2, BufRange DEF LoopHead, Fread, Offer, NoRefill, Refill
    <3>2. bytesIn' = bytesIn /\ lastErr' = lastErr /\ bytesIn \in Int
      BY <2>2 DEF Fread, hist, Stream, TypeOK
    <3> QED BY <2>1, <3>1, <3>2
  <2>3. CASE NoRefill
    BY <1>7, <2>1, <2>3 DEF NoRefill, vars, strm, hist
  <2> QED BY <1>7, <2>2, <2>3 DEF LoopHead
<1>8. CASE CallDecompress \/ BuffCall
  BY <1>8 DEF CallDecompress, BuffCall, Call, RWhere, Reading, Buffer
<1>9. CASE Decompress
  <2>1. /\ bytesIn' + availIn' = bytesIn + availIn
        /\ fetched' = fetched /\ bzf' = bzf /\ lastErr' = lastErr
        /\ Stream'
    BY <1>9, LibraryFacts, LibraryKeeps DEF Decompress, fvars, Stream
  <2>2. bzf => lastErr = "OK"
    BY <1>9 DEF Decompress, RWhere, Reading, Buffer
  <2>3. bzf => fetched = bytesIn + availIn
    BY <1>9 DEF Decompress
  <2> QED BY <2>1, <2>2, <2>3
<1>10. CASE Decompressed
  <2>1. /\ open /\ bzf /\ fetched = bytesIn + availIn
        /\ UNCHANGED <<bzf, fetched, bytesIn, availIn, bitsUsed>>
        /\ lastErr' = "STREAM_END" => ret = "STREAM_END"
    BY <1>10 DEF Decompressed, RWhere, Reading, Done, vars, strm, hist
  <2>2. ret = "STREAM_END" => bsLive = 0
    BY <2>1 DEF Stream, Checked, Counting
  <2>3. 8 * bytesIn = bitsUsed + bsLive + pad /\ pad \in 0..7
    BY DEF Stream, BitsConserved, TypeOK
  <2> QED BY <2>1, <2>2, <2>3 DEF Stream, TypeOK
<1>11. CASE BuffDecompress \/ BuffDecompressed \/ BuffEnd
  BY <1>11 DEF BuffDecompress, BuffDecompressed, BuffEnd, RWhere, Buffer
<1> QED BY <1>1, <1>2, <1>3, <1>4, <1>5, <1>6, <1>7, <1>8, <1>9, <1>10, <1>11
        DEF RNext, Layer

(* When BZ2_bzRead or the buffer-to-buffer call reports a truncated input, *)
(* the stream waits for input and holds nothing it could deliver.          *)
LEMMA EofStep ==
  Stream /\ RTypeOK /\ RWhere /\ Came /\ EofMeansStarved /\ [RNext]_allVars => EofMeansStarved'
<1> SUFFICES ASSUME Stream, RTypeOK, RWhere, Came, EofMeansStarved, [RNext]_allVars
             PROVE  EofMeansStarved'
  OBVIOUS
<1> USE DEF EofMeansStarved
<1>0. ASSUME UNCHANGED <<availIn, state, bsLive, want, outLeft>>
      PROVE  Starved' <=> Starved
  BY <1>0 DEF Starved
<1>1. CASE ReadOpen \/ BzOpen \/ UNCHANGED allVars
  BY <1>0, <1>1 DEF ReadOpen, BzOpen, allVars, fvars, vars, strm, blk
<1>2. CASE ReadOpenInit \/ ReadClose
  BY <1>2 DEF ReadOpenInit, ReadClose, Gone, Done, RWhere, Reading
<1>3. CASE ReadOpened
  BY <1>3 DEF ReadOpened, Done
<1>4. CASE Misuse \/ GetUnused
  BY <1>4 DEF Misuse, GetUnused
<1>5. CASE \E len \in Lengths : Read(len)
  BY <1>5 DEF Read, Usable
<1>6. CASE LoopFails \/ FreadFails
  BY <1>6 DEF LoopFails, FreadFails, Done
<1>7. CASE LoopHead
  BY <1>7 DEF LoopHead, NoRefill, Fread, RWhere, Reading
<1>8. CASE CallDecompress \/ BuffCall
  BY <1>8 DEF CallDecompress, BuffCall, RWhere, Reading, Buffer
<1>9. CASE Decompress
  BY <1>9 DEF Decompress, fvars, RWhere, Reading, Buffer
<1>10. CASE Decompressed
  <2>1. /\ fpc = "decompress" /\ pc = "caller" /\ bzf /\ open /\ UNCHANGED vars
        /\ UNCHANGED bzf
    BY <1>10 DEF Decompressed, RWhere, Reading
  <2>2. CASE lastErr' = "UNEXPECTED_EOF"
    <3>1. ret # "UNEXPECTED_EOF" /\ lastErr = "OK"
      BY <2>1 DEF Stream, TypeOK, Returns, RWhere, Reading
    <3>2. ret = "OK" /\ Short /\ (AtEnd \/ Fails)
      BY <1>10, <2>2, <3>1 DEF Decompressed, Done
    <3>3. Starved
      BY <2>1, <3>2 DEF Came, InCall, Short, Starved, Stream, Where, TypeOK, Labels
    <3>4. ended' \/ ferr'
      BY <3>2 DEF AtEnd, Fails
    <3> QED BY <1>0, <2>1, <3>3, <3>4 DEF vars, strm, blk
  <2>3. CASE lastErr' # "UNEXPECTED_EOF"
    BY <2>3
  <2> QED BY <2>2, <2>3
<1>11. CASE BuffDecompress
  BY <1>11 DEF BuffDecompress
<1>12. CASE BuffDecompressed
  <2>1. /\ fpc = "buffDecompress" /\ pc = "caller" /\ ~bzf /\ open /\ UNCHANGED vars
        /\ UNCHANGED bzf
    BY <1>12 DEF BuffDecompressed, RWhere, Buffer
  <2>2. CASE lastErr' = "UNEXPECTED_EOF"
    <3>1. ret # "UNEXPECTED_EOF"
      BY DEF Stream, TypeOK, Returns
    <3>2. ret = "OK" /\ availOut > 0
      BY <1>12, <2>2, <3>1 DEF BuffDecompressed, OkIs
    <3>3. Starved
      BY <2>1, <3>2 DEF Came, InCall, Starved, Stream, Where, TypeOK, Labels
    <3> QED BY <1>0, <2>1, <3>3 DEF vars, strm, blk
  <2>3. CASE lastErr' # "UNEXPECTED_EOF"
    BY <2>3
  <2> QED BY <2>2, <2>3
<1>13. CASE BuffEnd
  BY <1>13 DEF BuffEnd, Done, RWhere, Buffer
<1> QED BY <1>1, <1>2, <1>3, <1>4, <1>5, <1>6, <1>7, <1>8, <1>9, <1>10, <1>11, <1>12, <1>13
        DEF RNext, Layer

-----------------------------------------------------------------------------
(* Before anything is opened the invariant holds. *)
LEMMA RInitHolds == RInit => RInv
<1> SUFFICES ASSUME RInit PROVE RInv
  OBVIOUS
<1>1. Stream
  BY InitHolds DEF RInit, Stream, IInv, PushBackSafe
<1>2. RTypeOK
  BY BufRange DEF RInit, RTypeOK, Returns
<1>3. RWhere /\ Came /\ UnusedExact /\ EofMeansStarved
  BY DEF RInit, Init, RWhere, Reading, Buffer, InCall, Came, UnusedExact, EofMeansStarved
<1> QED BY <1>1, <1>2, <1>3 DEF RInv

(* Every step of the layer or of the stream it calls keeps it. *)
LEMMA RStepHolds == RInv /\ [RNext]_allVars => RInv'
  BY StreamStep, RTypeStep, RWhereStep, CameStep, UnusedStep, EofStep DEF RInv

(* The inductive invariant of reading holds of every reachable state. *)
THEOREM ReadInvariance == RSpec => []RInv
  BY RInitHolds, RStepHolds, PTL DEF RSpec

(* However the file is cut into bufferfuls and the data into calls of      *)
(* BZ2_bzRead, no byte is skipped or read twice, and BZ2_bzReadGetUnused   *)
(* returns what follows the stream, no less and no more.                   *)
THEOREM UnusedIsExact == RSpec => []UnusedExact
<1>1. RInv => UnusedExact
  BY DEF RInv
<1> QED BY ReadInvariance, <1>1, PTL

(* BZ_UNEXPECTED_EOF is never reported of a file or a buffer that holds    *)
(* all of a stream.                                                        *)
THEOREM EofIsStarved == RSpec => []EofMeansStarved
<1>1. RInv => EofMeansStarved
  BY DEF RInv
<1> QED BY ReadInvariance, <1>1, PTL

(* Used through the stdio layer, which exchanges the buffers of the stream *)
(* between two calls, the stream still conserves every bit, and within a   *)
(* call the push-back stays inside bzf->buf.                               *)
THEOREM StreamIsUsedWell ==
  RSpec => [](BitsConserved /\ CountersExact /\ (pc # "caller" => PushBackSafe))
<1>1. RInv => BitsConserved /\ CountersExact /\ (pc # "caller" => PushBackSafe)
  BY DEF RInv, Stream
<1> QED BY ReadInvariance, <1>1, PTL

=============================================================================
