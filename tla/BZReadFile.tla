----------------------------- MODULE BZReadFile -----------------------------
(***************************************************************************)
(* The reading half of the stdio layer: BZ2_bzReadOpen, BZ2_bzRead,        *)
(* BZ2_bzReadGetUnused, BZ2_bzReadClose, BZ2_bzopen, BZ2_bzread and        *)
(* BZ2_bzclose (src/bzlib.c), as the caller of the decompression stream of *)
(* BZDecompress, on a FILE that may end or fail at any byte; and its other *)
(* caller, BZ2_bzBuffToBuffDecompress, which makes one call with all the   *)
(* input.                                                                  *)
(*                                                                         *)
(* Where the FILE ends is decided when it is asked: by myfeof, or by an    *)
(* fread that returns less than it was asked for.                          *)
(***************************************************************************)
EXTENDS BZDecompress, OpenMode

CONSTANTS
  BufSize,     \* BZ_MAX_UNUSED: the size of bzf->buf
  ModeStrings  \* BOUND: the mode strings of BZ2_bzopen

ASSUME BufAssumption == BufSize \in Nat \ {0}

VARIABLES
  bzf,        \* the bzFile is allocated
  lastErr,    \* bzf->lastErr; at "buffEnd" the return value
  bufN,       \* bzf->bufN
  ended,      \* the FILE is at its end: feof(bzf->handle)
  ferr,       \* ferror(bzf->handle)
  fpc,        \* where the layer is
  fetched     \* history: the bytes that went into bzf->buf

fvars   == <<bzf, lastErr, bufN, ended, ferr, fpc, fetched>>
allVars == <<vars, fvars>>

Lengths == Rooms \ {0}     \* the len of a BZ2_bzRead that is not 0
Usable  == lastErr = "OK"

RInit == /\ Init
         /\ bzf = FALSE /\ lastErr = "OK" /\ bufN = 0
         /\ ended = FALSE /\ ferr = FALSE /\ fpc = "user" /\ fetched = 0

(* BZ_SETERR and the return to the caller. *)
Done(e) == fpc' = "user" /\ lastErr' = e

(* There is no bzFile any more, and the next one has a FILE of its own. *)
Gone == /\ bzf' = FALSE /\ Done("OK")
        /\ bufN' = 0 /\ ended' = FALSE /\ ferr' = FALSE /\ fetched' = 0

-----------------------------------------------------------------------------
(* BZ2_bzReadOpen, BZ2_bzopen and BZ2_bzdopen *)

(* The program brings a FILE and up to BufSize bytes it has read of it.    *)
(* One whose error indicator is set is refused, malloc may fail.           *)
ReadOpen ==
  /\ fpc = "user" /\ ~bzf
  /\ \/ /\ bzf' = TRUE /\ fpc' = "init" /\ lastErr' = "OK"
        /\ bufN' \in 0..BufSize /\ fetched' = bufN'
        /\ ended' \in BOOLEAN /\ ferr' = FALSE
     \/ UNCHANGED fvars
  /\ UNCHANGED vars

(* A FILE for a path or a descriptor, or the standard input for no path.   *)
(* It is opened and closed as in BZWriteFile.                              *)
BzOpen ==
  /\ fpc = "user" /\ ~bzf
  /\ \E m \in ModeStrings : ~ParseMode(m).writing
  /\ \/ /\ bzf' = TRUE /\ fpc' = "init" /\ lastErr' = "OK"
        /\ bufN' = 0 /\ fetched' = 0 /\ ended' = FALSE /\ ferr' = FALSE
     \/ UNCHANGED fvars
  /\ UNCHANGED vars

ReadOpenInit ==
  /\ fpc = "init"
  /\ \/ /\ DecompressInit
        /\ fpc' = "opened" /\ UNCHANGED <<bzf, lastErr, bufN, ended, ferr, fetched>>
     \/ DecompressInitFails /\ Gone

(* The bytes in bzf->buf become the input of the stream. *)
Offer == availIn' = bufN' /\ UNCHANGED <<availOut, totalIn, totalOut>>

ReadOpened ==
  /\ fpc = "opened" /\ Done("OK")
  /\ UNCHANGED bufN /\ Offer
  /\ UNCHANGED <<open, live, small, state, want, bsLive, blk, pc, ret, hist,
                 bzf, ended, ferr, fetched>>

-----------------------------------------------------------------------------
(* BZ2_bzRead *)

(* A bad argument, a function of the writing half, or BZ2_bzReadGetUnused  *)
(* when the last call did not report the end of the stream.                *)
Misuse ==
  /\ fpc = "user" /\ bzf /\ Usable
  /\ lastErr' \in {"PARAM_ERROR", "SEQUENCE_ERROR"}
  /\ UNCHANGED <<vars, bzf, bufN, ended, ferr, fpc, fetched>>

Read(len) ==
  /\ fpc = "user" /\ bzf /\ Usable
  /\ availOut' = len /\ fpc' = "loop"
  /\ UNCHANGED <<open, live, small, state, want, bsLive, availIn, totalIn, totalOut, blk,
                 pc, ret, hist, bzf, lastErr, bufN, ended, ferr, fetched>>

(* myfeof, which is TRUE at the end of the FILE and when fgetc fails. *)
AtEnd   == ended' = TRUE /\ UNCHANGED ferr
Fails   == ~ended /\ ferr' = TRUE /\ UNCHANGED ended
HasMore == ~ended /\ UNCHANGED <<ended, ferr>>

(* Mutants: bzf->buf is filled although the stream has not used it up; an  *)
(* empty buffer is not filled.                                             *)
Refill_Always == ~ended
Refill == availIn = 0

NoRefill == UNCHANGED <<vars, bzf, lastErr, bufN, fetched>>

Fread ==
  /\ bufN' \in 1..BufSize
  /\ fetched' = fetched + bufN'
  /\ ended' = (bufN' < BufSize)
  /\ Offer
  /\ UNCHANGED <<open, live, small, state, want, bsLive, blk, pc, ret, hist, bzf, lastErr, ferr>>

(* The head of the loop: an error of the FILE, and the input. *)
LoopFails ==
  /\ fpc = "loop" /\ ferr
  /\ Done("IO_ERROR")
  /\ UNCHANGED <<vars, bzf, bufN, ended, ferr, fetched>>

LoopHead ==
  /\ fpc = "loop" /\ ~ferr
  /\ \/ ~Refill /\ UNCHANGED <<ended, ferr>> /\ NoRefill
     \/ Refill /\ (AtEnd \/ Fails) /\ NoRefill
     \/ Refill /\ ~ended /\ Fread
  /\ fpc' = "call"

FreadFails ==
  /\ fpc = "loop" /\ ~ferr /\ Refill /\ ~ended
  /\ Fails /\ Done("IO_ERROR")
  /\ UNCHANGED <<vars, bzf, bufN, fetched>>

CallDecompress ==
  /\ fpc = "call"
  /\ Call(availIn, availOut)
  /\ fpc' = "decompress"
  /\ UNCHANGED <<bzf, lastErr, bufN, ended, ferr, fetched>>

Decompress == fpc \in {"decompress", "buffDecompress"} /\ Library /\ UNCHANGED fvars

(* Mutants: a full buffer of the caller is not asked about; the test is    *)
(* forgotten.                                                              *)
Short_AnyRoom == availIn = 0
Short_Never   == FALSE
Short == availIn = 0 /\ availOut > 0

(* The tail of the loop. *)
Decompressed ==
  /\ fpc = "decompress" /\ pc = "caller"
  /\ IF ret # "OK" THEN Done(ret) /\ UNCHANGED <<ended, ferr>>
     ELSE \/ (AtEnd \/ Fails) /\ Short /\ Done("UNEXPECTED_EOF")
          \/ /\ HasMore \/ ((AtEnd \/ Fails) /\ ~Short)
             /\ IF availOut = 0 THEN Done("OK") ELSE fpc' = "loop" /\ UNCHANGED lastErr
  /\ UNCHANGED <<vars, bzf, bufN, fetched>>

-----------------------------------------------------------------------------
(* After the end of the stream, and BZ2_bzReadClose *)

(* BZ2_bzReadGetUnused: the bytes from next_in on.  It resets lastErr.     *)
GetUnused ==
  /\ fpc = "user" /\ bzf /\ lastErr = "STREAM_END"
  /\ lastErr' = "OK"
  /\ UNCHANGED <<vars, bzf, bufN, ended, ferr, fpc, fetched>>

ReadClose ==
  /\ fpc = "user" /\ bzf
  /\ DecompressEnd /\ Gone

-----------------------------------------------------------------------------
(* BZ2_bzBuffToBuffDecompress: all the input, all the room, one call *)

BuffDecompress ==
  /\ fpc = "user" /\ ~bzf
  /\ \/ DecompressInit /\ fpc' = "buffOpened" /\ UNCHANGED lastErr
     \/ DecompressInitFails /\ UNCHANGED <<fpc, lastErr>>
  /\ UNCHANGED <<bzf, bufN, ended, ferr, fetched>>

BuffCall ==
  /\ fpc = "buffOpened"
  /\ \E sourceLen \in Chunks, destLen \in Rooms : Call(sourceLen, destLen)
  /\ fpc' = "buffDecompress"
  /\ UNCHANGED <<bzf, lastErr, bufN, ended, ferr, fetched>>

OkIs == IF availOut > 0 THEN "UNEXPECTED_EOF" ELSE "OUTBUFF_FULL"

BuffDecompressed ==
  /\ fpc = "buffDecompress" /\ pc = "caller"
  /\ lastErr' = CASE ret = "OK"         -> OkIs
                  [] ret = "STREAM_END" -> "OK"
                  [] OTHER              -> ret
  /\ fpc' = "buffEnd"
  /\ UNCHANGED <<vars, bzf, bufN, ended, ferr, fetched>>

BuffEnd ==
  /\ fpc = "buffEnd"
  /\ DecompressEnd /\ Done("OK")
  /\ UNCHANGED <<bzf, bufN, ended, ferr, fetched>>

Layer == \/ ReadOpenInit \/ ReadOpened \/ LoopFails \/ LoopHead \/ FreadFails
         \/ CallDecompress \/ Decompress \/ Decompressed
         \/ BuffCall \/ BuffDecompressed \/ BuffEnd

RNext == \/ ReadOpen \/ BzOpen \/ BuffDecompress \/ Misuse \/ GetUnused \/ ReadClose
         \/ \E len \in Lengths : Read(len)
         \/ Layer

RSpec == RInit /\ [][RNext]_allVars

(* A call of the library returns: it is sequential code. *)
FairRSpec == RSpec /\ WF_allVars(Layer)
-----------------------------------------------------------------------------
(* Properties *)

(* No byte of the FILE is skipped or read twice over any number of         *)
(* refills: what was fetched is what the stream took and what waits in     *)
(* bzf->buf.  After BZ_STREAM_END what waits is exactly what follows the   *)
(* stream: BZ2_bzReadGetUnused returns no less and no more.                *)
UnusedExact ==
  bzf /\ fpc \notin {"init", "opened"} =>
    /\ fetched = bytesIn + availIn
    /\ lastErr = "STREAM_END" => 8 * (fetched - availIn) - bitsUsed \in 0..7

(* BZ_UNEXPECTED_EOF is reported only when nothing that was read waits to  *)
(* be decoded or delivered: a FILE that ends right after a whole stream,   *)
(* or with a last block that fills the caller's buffer, is not truncated,  *)
(* nor is a source whose data does not fit the buffer.                     *)
Starved == availIn = 0 /\ state \in Labels /\ bsLive < want /\ outLeft = 0
EofMeansStarved ==
  (bzf \/ fpc = "buffEnd") /\ lastErr = "UNEXPECTED_EOF" =>
    (bzf => ended \/ ferr) /\ Starved

(* BZ2_bzRead returns, wherever the FILE ends or fails. *)
ReadReturns == (fpc # "user") ~> (fpc = "user")

-----------------------------------------------------------------------------
(* The inductive invariant behind the safety properties *)

Reading == {"init", "opened", "loop", "call", "decompress"}
Buffer  == {"buffOpened", "buffDecompress", "buffEnd"}
InCall  == {"decompress", "buffDecompress"}

RTypeOK ==
  /\ bzf \in BOOLEAN /\ ended \in BOOLEAN /\ ferr \in BOOLEAN
  /\ bufN \in 0..BufSize /\ fetched \in Nat
  /\ lastErr \in Returns \union {"IO_ERROR", "UNEXPECTED_EOF", "OUTBUFF_FULL"}
  /\ fpc \in {"user"} \union Reading \union Buffer

(* What the stream promises its caller, who may exchange next_in and       *)
(* avail_in between calls: what is said of the input of a call is said of  *)
(* a call that is under way.                                               *)
Stream == /\ TypeOK /\ Where /\ BitsConserved /\ Waiting /\ Memory /\ Checked
          /\ Counting /\ CountersExact
          /\ bytesIn >= 0
          /\ pc # "caller" => PushBackSafe /\ CarriedBits

(* Which part of the layer is where, and what it knows of the stream. *)
RWhere ==
  /\ open <=> (bzf /\ fpc # "init") \/ fpc \in Buffer
  /\ fpc \in Reading => bzf /\ lastErr = "OK"
  /\ fpc \in Buffer => ~bzf
  /\ pc # "caller" => fpc \in InCall
  /\ fpc \in {"init", "opened"} => fetched = bufN
  /\ fpc = "opened" => bytesIn = 0

(* Why the stream came back, and that BZ_STREAM_END stays true. *)
Came ==
  /\ fpc \in InCall /\ pc = "caller" /\ ret = "OK"
       => \/ availIn = 0 /\ state \in Labels /\ bsLive < want
          \/ availOut = 0 /\ state = "OUTPUT" /\ outLeft > 0
  /\ bzf /\ lastErr = "STREAM_END" => state = "IDLE"

RInv == Stream /\ RTypeOK /\ RWhere /\ Came /\ UnusedExact /\ EofMeansStarved
=============================================================================
