----------------------------- MODULE BZWriteFile -----------------------------
(***************************************************************************)
(* The writing half of the stdio layer: BZ2_bzWriteOpen, BZ2_bzWrite,      *)
(* BZ2_bzWriteClose64, BZ2_bzopen, BZ2_bzdopen, BZ2_bzwrite and            *)
(* BZ2_bzclose (src/bzlib.c), as the caller of the compression stream of   *)
(* BZCompress, on a FILE that may fail at any time; and its other caller,  *)
(* BZ2_bzBuffToBuffCompress, which makes one call with all the input.      *)
(*                                                                         *)
(* The layer's position in a call is fpc; while it is "call" the steps are *)
(* those of BZ2_bzCompress.  Between calls the program does what the       *)
(* manual allows: after an error only BZ2_bzWriteClose.                    *)
(***************************************************************************)
EXTENDS BZCompress, OpenMode

CONSTANTS
  BufSize,     \* BZ_MAX_UNUSED: the size of bzf->buf
  ModeStrings, \* BOUND: the mode strings of BZ2_bzopen
  BuffRooms    \* BOUND: the values of *destLen

ASSUME BufAssumption == BufSize \in 1..MaxOut /\ BuffRooms \subseteq 0..MaxOut

VARIABLES
  bzf,        \* the bzFile is allocated
  lastErr,    \* bzf->lastErr; in op "buff" the return value
  owned,      \* the FILE was opened by BZ2_bzopen, and is no standard stream
  ferr,       \* ferror(bzf->handle)
  fpc, op,    \* where the layer is, and in which function
  file,       \* the units fwrite has taken, in order
  synced,     \* fflush has succeeded since the last of them
  given,      \* history: the bytes given to BZ2_bzWrite
  lost        \* history: memory of a BZFILE that nobody can release any more

fvars   == <<bzf, lastErr, owned, ferr, fpc, op, file, synced, given, lost>>
allVars == <<vars, fvars>>

Closes  == {"close", "abandon", "bzclose"}
InError == lastErr # "OK"

FInit == /\ Init
         /\ bzf = FALSE /\ lastErr = "OK" /\ owned = FALSE /\ ferr = FALSE
         /\ fpc = "user" /\ op = "none"
         /\ file = <<>> /\ synced = TRUE /\ given = 0 /\ lost = FALSE

(* BZ_SETERR and the return to the caller. *)
Done(e) == fpc' = "user" /\ lastErr' = e /\ op' = "none"

-----------------------------------------------------------------------------
(* BZ2_bzWriteOpen, BZ2_bzopen and BZ2_bzdopen *)

(* On a new FILE.  One whose error indicator is set is refused, so is a    *)
(* wrong block size, malloc may fail; what malloc gives is not cleared:    *)
(* avail_in has any value.                                                 *)
OpenWith(level) ==
  /\ fpc = "user" /\ ~bzf
  /\ ferr' = FALSE /\ file' = <<>> /\ synced' = TRUE /\ given' = 0
  /\ \/ /\ level \in 1..9
        /\ bzf' = TRUE /\ fpc' = "init" /\ op' = "open" /\ lastErr' = "OK"
        /\ availIn' \in {0, MaxIn}
     \/ UNCHANGED <<bzf, fpc, op, lastErr, availIn>>
  /\ UNCHANGED <<open, live, mode, state, expect, rle, coder, availOut, totalIn, totalOut,
                 pc, progress, ret, hist, lost>>

(* The program brings the FILE. *)
WriteOpen == \E level \in 0..10 : OpenWith(level) /\ owned' = FALSE

(* A FILE for a path or a descriptor, or the standard output for no path;  *)
(* it is closed again when there is no BZFILE for it.                      *)
BzOpen ==
  \E m \in ModeStrings :
    /\ ParseMode(m).writing
    /\ OpenWith(Clamp(ParseMode(m).level))
    /\ owned' \in IF bzf' THEN BOOLEAN ELSE {FALSE}

WriteOpenInit ==
  /\ fpc = "init"
  /\ \/ CompressInitOK /\ fpc' = "opened" /\ UNCHANGED <<bzf, op, owned>>
     \/ /\ CompressInitFails
        /\ fpc' = "user" /\ bzf' = FALSE /\ op' = "none" /\ owned' = FALSE
  /\ UNCHANGED <<lastErr, ferr, file, synced, given, lost>>

(* A mutant: avail_in is left as malloc gave it. *)
WriteOpened_KeepsAvailIn ==
  /\ fpc = "opened" /\ op = "open" /\ Done("OK")
  /\ UNCHANGED <<vars, bzf, owned, ferr, file, synced, given, lost>>

WriteOpened ==
  /\ fpc = "opened" /\ op = "open" /\ Done("OK")
  /\ availIn' = 0
  /\ UNCHANGED <<open, live, mode, state, expect, rle, coder, availOut, totalIn, totalOut,
                 pc, progress, ret, hist, bzf, owned, ferr, file, synced, given, lost>>

-----------------------------------------------------------------------------
(* BZ2_bzWrite *)

(* A bad argument, or a function of the reading half. *)
Misuse ==
  /\ fpc = "user" /\ bzf /\ ~InError
  /\ lastErr' \in {"PARAM_ERROR", "SEQUENCE_ERROR"}
  /\ UNCHANGED <<vars, bzf, owned, ferr, fpc, op, file, synced, given, lost>>

Write(n) ==
  /\ fpc = "user" /\ bzf /\ ~InError /\ n + Len(consumed) <= MaxIn
  /\ IF ferr THEN Done("IO_ERROR") /\ UNCHANGED <<availIn, given>>
     ELSE IF n = 0 THEN Done("OK") /\ UNCHANGED <<availIn, given>>
     ELSE fpc' = "loop" /\ op' = "write" /\ availIn' = n /\ given' = given + n
          /\ UNCHANGED lastErr
  /\ UNCHANGED <<open, live, mode, state, expect, rle, coder, availOut, totalIn, totalOut,
                 pc, progress, ret, hist, bzf, owned, ferr, file, synced, lost>>

(* The program's own use of the FILE fails. *)
HandleFails ==
  /\ fpc = "user" /\ bzf /\ ~ferr
  /\ ferr' = TRUE
  /\ UNCHANGED <<vars, bzf, lastErr, owned, fpc, op, file, synced, given, lost>>

-----------------------------------------------------------------------------
(* The loop of BZ2_bzWrite and of BZ2_bzWriteClose64 *)

(* A call that BZ2_bzCompress would turn away is a deadlock here. *)
CallCompress ==
  /\ fpc = "loop"
  /\ Enter(IF op = "write" THEN "RUN" ELSE "FINISH", availIn, BufSize)
  /\ fpc' = "call"
  /\ UNCHANGED <<bzf, lastErr, owned, ferr, op, file, synced, given, lost>>

Compress == fpc = "call" /\ Library /\ UNCHANGED fvars

(* What is in bzf->buf: the units this call delivered. *)
BufLen_OffByOne == BufSize - availOut - 1                              \* a mutant
BufLen == BufSize - availOut
Chunk  == SubSeq(sent, Len(sent) - BufLen + 1, Len(sent))

Expected == IF op = "write" THEN {"RUN_OK"} ELSE {"FINISH_OK", "STREAM_END"}

(* A mutant: BZ2_bzWrite asks for the rest of the output, which BZ_RUN     *)
(* does not give.                                                          *)
Leave_Drains    == IF op = "write" THEN availIn = 0 /\ BufLen = 0 ELSE ret = "STREAM_END"

Leave == IF op = "write" THEN availIn = 0 ELSE ret = "STREAM_END"

(* After the chunk is written: another round, the caller, or the fflush. *)
GoOn == IF ~Leave THEN fpc' = "loop" /\ UNCHANGED <<lastErr, op>>
        ELSE IF op = "write" THEN Done("OK")
        ELSE fpc' = "flush" /\ UNCHANGED <<lastErr, op>>

Compressed ==
  /\ fpc = "call" /\ pc = "caller" /\ op # "buff"
  /\ IF ret \in Expected
     THEN /\ GoOn
          /\ file' = file \o Chunk
          /\ synced' = (synced /\ BufLen = 0)
     ELSE fpc' = "failed" /\ UNCHANGED <<lastErr, op, file, synced>>
  /\ UNCHANGED <<vars, bzf, owned, ferr, given, lost>>

(* fwrite takes only a part, or the error indicator is set after it. *)
FwriteFails ==
  /\ fpc = "call" /\ pc = "caller" /\ op # "buff"
  /\ ret \in Expected /\ BufLen > 0
  /\ \E k \in 0..BufLen : file' = file \o SubSeq(Chunk, 1, k)
  /\ synced' = FALSE /\ ferr' = TRUE
  /\ fpc' = "failed"
  /\ UNCHANGED <<vars, bzf, lastErr, owned, op, given, lost>>

-----------------------------------------------------------------------------
(* BZ2_bzWriteClose64 and BZ2_bzclose *)

CloseCall(o) ==
  /\ fpc = "user" /\ bzf
  /\ owned => o = "bzclose"
  /\ op' = o
  /\ fpc' = IF ferr THEN "failed"
            ELSE IF o = "abandon" THEN "end"
            ELSE IF InError THEN "flush" ELSE "loop"
  /\ UNCHANGED <<vars, bzf, lastErr, owned, ferr, file, synced, given, lost>>

Fflush ==
  /\ fpc = "flush"
  /\ \/ synced' = TRUE /\ fpc' = "end" /\ UNCHANGED ferr
     \/ ferr' = TRUE /\ fpc' = "failed" /\ UNCHANGED synced
  /\ UNCHANGED <<vars, bzf, lastErr, owned, op, file, given, lost>>

(* The BZFILE is gone; BZ2_bzclose closes the FILE too. *)
FileCloses == owned' = (owned /\ op # "bzclose")

CloseEnds ==
  /\ fpc = "end"
  /\ CompressEnd
  /\ bzf' = FALSE /\ FileCloses /\ Done("OK")
  /\ UNCHANGED <<ferr, file, synced, given, lost>>

(* An error return: nothing is released.  BZ2_bzclose calls again, with   *)
(* abandon, and is turned away again if it was for ferror; then the BZFILE *)
(* is out of reach, and the variables are those of the next one.           *)
Failed ==
  /\ fpc = "failed"
  /\ IF op # "bzclose"
     THEN Done(IF ferr THEN "IO_ERROR" ELSE ret) /\ UNCHANGED <<vars, bzf, owned, lost>>
     ELSE /\ CompressEnd /\ bzf' = FALSE /\ lost' = (lost \/ ferr)
          /\ FileCloses /\ Done("OK")
  /\ UNCHANGED <<ferr, file, synced, given>>

-----------------------------------------------------------------------------
(* BZ2_bzBuffToBuffCompress: all the input, all the room, one BZ_FINISH *)

BuffCompress ==
  /\ fpc = "user" /\ ~bzf
  /\ fpc' = "init" /\ op' = "buff" /\ lastErr' = "OK"
  /\ given' \in 0..MaxIn
  /\ UNCHANGED <<vars, bzf, owned, ferr, file, synced, lost>>

BuffFinish ==
  /\ fpc = "opened" /\ op = "buff"
  /\ \E destLen \in BuffRooms : Enter("FINISH", given, destLen)
  /\ fpc' = "call"
  /\ UNCHANGED <<bzf, lastErr, owned, ferr, op, file, synced, given, lost>>

(* The return value; BZ2_bzCompressEnd is CloseEnds. *)
BuffFinished ==
  /\ fpc = "call" /\ pc = "caller" /\ op = "buff"
  /\ lastErr' = CASE ret = "FINISH_OK"  -> "OUTBUFF_FULL"
                  [] ret = "STREAM_END" -> "OK"
                  [] OTHER              -> ret
  /\ fpc' = "end"
  /\ UNCHANGED <<vars, bzf, owned, ferr, op, file, synced, given, lost>>

FNext == \/ WriteOpen \/ BzOpen \/ BuffCompress \/ BuffFinish \/ BuffFinished
         \/ WriteOpenInit \/ WriteOpened \/ Misuse \/ HandleFails
         \/ \E n \in 0..MaxIn : Write(n)
         \/ \E o \in Closes : CloseCall(o)
         \/ CallCompress \/ Compress \/ Compressed \/ FwriteFails
         \/ Fflush \/ CloseEnds \/ Failed

FSpec == FInit /\ [][FNext]_allVars
-----------------------------------------------------------------------------
(* Properties *)

(* The layer's calls of BZ2_bzCompress make progress: BZ_RUN is never      *)
(* called without input, which reports BZ_PARAM_ERROR, and BZ_FINISH, with *)
(* an avail_in left over from BZ2_bzWrite or from BZ2_bzWriteOpen, is      *)
(* never out of sequence.  Only a compression of nothing into a buffer     *)
(* without room makes none.                                                *)
NothingAsked == op = "buff" /\ given = 0 /\ availOut = 0 /\ sent = <<>>
StreamAgrees == fpc = "call" /\ pc = "caller" /\ ~NothingAsked => ret \in Expected

(* The file holds the compressed stream from its start, without a gap and  *)
(* without a repetition, also after a write that failed half way; while no *)
(* write failed it holds all that the stream has delivered.                *)
FileIsPrefix ==
  bzf /\ open => /\ Len(file) <= Len(sent) /\ file = SubSeq(sent, 1, Len(file))
                 /\ ~ferr /\ fpc \in {"user", "loop", "flush"} => file = sent

(* BZ2_bzWriteClose that reports BZ_OK, of a stream without an error that  *)
(* is not abandoned, leaves in the file, and flushed to it, a whole stream *)
(* of all the bytes that were written, trailer included.  A buffer that    *)
(* BZ2_bzBuffToBuffCompress reports BZ_OK for holds such a stream; one it  *)
(* reports full is too small for it.  A FILE that BZ2_bzopen opened is     *)
(* closed when its BZFILE is gone, however that ended.                     *)
Completing == fpc = "end" /\ op # "abandon" /\ ~InError
AllWritten == TrailerWritten /\ Len(consumed) = given /\ isempty_RL
CloseIsComplete ==
  /\ Completing => /\ AllWritten
                   /\ IF op = "buff" THEN sent = written ELSE file = written /\ synced
  /\ fpc = "end" /\ lastErr = "OUTBUFF_FULL" =>
       availOut = 0 /\ (AllWritten => sent # written)
  /\ fpc = "user" /\ ~bzf => ~owned

(* What the manual says of BZ2_bzWriteClose after an error, and what its   *)
(* example does after BZ_IO_ERROR: it releases the memory.  The code       *)
(* violates it: while the error indicator of the FILE is set, as it is     *)
(* after a failed write, it returns BZ_IO_ERROR and releases nothing,      *)
(* whether told to abandon the stream or not.                              *)
CleanUpReleases ==
  [][fpc # "user" /\ fpc' = "user" /\ op \in {"close", "abandon"} /\ lastErr = "IO_ERROR"
     => ~bzf']_allVars

-----------------------------------------------------------------------------
(* The inductive invariant behind the safety properties *)

(* The functions the layer may be in, at each place. *)
Ops == [ user   |-> {"none"},
         init   |-> {"open", "buff"},
         opened |-> {"open", "buff"},
         loop   |-> {"write", "close", "bzclose"},
         call   |-> {"write", "close", "bzclose", "buff"},
         flush  |-> {"close", "bzclose"},
         failed |-> {"write"} \union Closes,
         end    |-> {"buff"} \union Closes ]

FTypeOK ==
  /\ bzf \in BOOLEAN /\ owned \in BOOLEAN /\ ferr \in BOOLEAN
  /\ synced \in BOOLEAN /\ lost \in BOOLEAN
  /\ lastErr \in Returns \union {"IO_ERROR", "OUTBUFF_FULL"}
  /\ fpc \in DOMAIN Ops /\ op \in Ops[fpc]
  /\ file \in Seq(Unit) /\ given \in 0..MaxIn

FWhere ==
  /\ open <=> fpc # "init" /\ (bzf \/ op = "buff")
  /\ pc # "caller" => fpc = "call"
  /\ op # "none" => (bzf <=> op # "buff")
  /\ ~bzf \/ op \in {"close", "abandon"} => ~owned
  /\ fpc \in {"init", "opened", "loop", "call"} => lastErr = "OK"
  /\ lastErr = "OUTBUFF_FULL" => op = "buff"
  /\ fpc \in {"loop", "call", "flush"} /\ op # "buff" => ~ferr
  /\ fpc = "failed" => ferr

(* Every byte the program gave is consumed or waits at next_in, and the    *)
(* stream is in the mode in which the layer may ask for what it asks next. *)
Handed ==
  /\ open /\ fpc # "opened" => given = Len(consumed) + availIn
  /\ op = "open" => given = 0 /\ file = <<>>
  /\ fpc = "opened" => /\ mode = "RUNNING" /\ state = "INPUT" /\ block = <<>>
                       /\ consumed = <<>> /\ sent = <<>>
  /\ fpc = "user" /\ bzf /\ ~InError => mode = "RUNNING" /\ availIn = 0
  /\ fpc = "loop" => IF op = "write" THEN mode = "RUNNING" /\ availIn > 0
                     ELSE mode \in {"RUNNING", "FINISHING"} /\ availIn = 0
  /\ fpc \in {"flush", "end"} /\ op # "abandon" /\ ~InError => mode = "IDLE" /\ availIn = 0
  /\ lastErr = "OUTBUFF_FULL" => mode = "FINISHING" /\ Unfinished /\ availOut = 0

(* A call of the layer has what it takes to make progress until it has     *)
(* made some, and BZ_FINISH comes back early only when the room is used up.*)
Moving ==
  fpc = "call" /\ pc # "caller" =>
    /\ mode = IF op = "write" THEN "RUNNING" ELSE "FINISHING"
    /\ op \in {"close", "bzclose"} => availIn = 0
    /\ ~progress =>
         IF op = "buff"
         THEN /\ consumed = <<>> /\ sent = <<>>
              /\ given > 0 => pc = "loop" /\ state = "INPUT" /\ block = <<>>
         ELSE /\ availOut = BufSize
              /\ op = "write" => pc = "loop" /\ availIn > 0
    /\ pc = "ret" /\ op # "write" /\ Unfinished => availOut = 0

CameBack ==
  fpc = "call" /\ pc = "caller" =>
    /\ ret \in Expected \/ (NothingAsked /\ ret = "SEQUENCE_ERROR")
    /\ op \in {"close", "bzclose"} => availIn = 0
    /\ ret = "RUN_OK"     => mode = "RUNNING"
    /\ ret = "STREAM_END" => mode = "IDLE" /\ availIn = 0
    /\ ret = "FINISH_OK"  => mode = "FINISHING" /\ Unfinished /\ availOut = 0

(* What the file has of the stream. *)
Filed ==
  /\ bzf /\ open => Len(file) <= Len(sent) /\ file = SubSeq(sent, 1, Len(file))
  /\ bzf /\ open /\ ~ferr /\ fpc \in {"user", "loop", "flush"} => Len(file) = Len(sent)
  /\ fpc = "call" /\ op # "buff" => availOut <= BufSize /\ Len(file) + BufLen = Len(sent)
  /\ Completing /\ op # "buff" => Len(file) = Len(sent) /\ synced

FIInv == IInv /\ FTypeOK /\ FWhere /\ Handed /\ Moving /\ CameBack /\ Filed
=============================================================================
