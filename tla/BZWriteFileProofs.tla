------------------------- MODULE BZWriteFileProofs -------------------------
(***************************************************************************)
(* The safety of the writing half of the stdio layer for every value of    *)
(* the constants: its calls of BZ2_bzCompress are accepted and make        *)
(* progress, the file is a prefix of the compressed stream, and a close    *)
(* that reports BZ_OK leaves all of it there.                              *)
(*                                                                         *)
(* The steps of the layer that reach the stream are steps of BZCompress,   *)
(* whose inductive invariant is thereby kept; only avail_in is set by the  *)
(* layer itself, between two calls.                                        *)
(***************************************************************************)
EXTENDS BZWriteFile, BZCompressProofs

USE BlockAssumption, CounterAssumption, BoundAssumption, BufAssumption

-----------------------------------------------------------------------------
(* Prefixes *)

(* What is appended to a sequence leaves its beginning alone. *)
LEMMA PrefixStays ==
  ASSUME NEW S, NEW s \in Seq(S), NEW t \in Seq(S), NEW k \in 0..Len(s)
  PROVE  SubSeq(s \o t, 1, k) = SubSeq(s, 1, k)
<1>1. CASE k = 0
  <2>1. SubSeq(s \o t, 1, 0) = <<>> /\ SubSeq(s, 1, 0) = <<>>
    BY SubSeqEmpty
  <2> QED BY <1>1, <2>1
<1>2. CASE k # 0
  <2>1. 1 \in 1..Len(s) /\ k \in 1..Len(s)
    BY <1>2, LenProperties
  <2> QED BY <2>1, SubSeqOfConcat1
<1> QED BY <1>1, <1>2

(* A prefix of what follows a prefix makes a longer one. *)
LEMMA PrefixGrows ==
  ASSUME NEW S, NEW s \in Seq(S), NEW i \in 0..Len(s), NEW k \in 0..Len(s) - i
  PROVE  /\ SubSeq(s, 1, i) \o SubSeq(SubSeq(s, i + 1, Len(s)), 1, k) = SubSeq(s, 1, i + k)
         /\ SubSeq(SubSeq(s, i + 1, Len(s)), 1, k) \in Seq(S)
         /\ Len(SubSeq(s, 1, i + k)) = i + k
         /\ SubSeq(s, 1, i + k) \in Seq(S)
<1>0. Len(s) \in Nat
  BY LenProperties
<1>1. SubSeq(SubSeq(s, i + 1, Len(s)), 1, k) = SubSeq(s, i + 1, i + k)
  <2>1. CASE k = 0
    <3>1. SubSeq(SubSeq(s, i + 1, Len(s)), 1, 0) = <<>>
      BY SubSeqEmpty
    <3>2. SubSeq(s, i + 1, i) = <<>>
      BY SubSeqEmpty
    <3> QED BY <2>1, <3>1, <3>2
  <2>2. CASE k # 0
    <3>1. /\ i + 1 \in 1..Len(s) /\ Len(s) \in 1..Len(s)
          /\ 1 \in 1..Len(s) - (i + 1) + 1 /\ k \in 1..Len(s) - (i + 1) + 1
          /\ (i + 1) + 1 - 1 = i + 1 /\ (i + 1) + k - 1 = i + k
      BY <1>0, <2>2
    <3> QED BY <3>1, SubSeqOfSubSeq
  <2> QED BY <2>1, <2>2
<1>2. 1 \in 1..Len(s)+1 /\ i \in (1-1)..Len(s) /\ i + k \in i..Len(s)
  BY <1>0
<1>3. SubSeq(s, 1, i) \o SubSeq(s, i + 1, i + k) = SubSeq(s, 1, i + k)
  BY <1>2, ConcatAdjacentSubSeq
<1>4. \A j \in 1..Len(s) : s[j] \in S
  BY ElementOfSeq
<1>5. SubSeq(s, i + 1, i + k) \in Seq(S)
  BY <1>0, <1>4, SubSeqProperties
<1>6. SubSeq(s, 1, i + k) \in Seq(S) /\ Len(SubSeq(s, 1, i + k)) = i + k
  BY <1>0, <1>4, SubSeqProperties
<1> QED BY <1>1, <1>3, <1>5, <1>6

-----------------------------------------------------------------------------
(* The stream as the layer uses it *)

(* Within a call the stream stays open and every byte that is absorbed     *)
(* leaves next_in.                                                         *)
LEMMA LibraryFacts ==
  ASSUME TypeOK, Library
  PROVE  /\ pc # "caller" /\ open' = open
         /\ Len(consumed') + availIn' = Len(consumed) + availIn
<1>1. CASE AbsorbByte
  <2>1. PICK c \in Bytes : consumed' = Append(consumed, c)
    BY <1>1 DEF AbsorbByte
  <2>2. Len(consumed') = Len(consumed) + 1 /\ Len(consumed) \in Nat
    BY <2>1, AppendProperties, LenProperties DEF TypeOK
  <2>3. pc # "caller" /\ open' = open /\ availIn' = availIn - 1 /\ availIn \in Int
    BY <1>1 DEF AbsorbByte, TypeOK
  <2> QED BY <2>2, <2>3
<1>2. CASE CutRest \/ CutFull
  BY <1>2 DEF CutRest, CutFull, StopAbsorbing, caller
<1>3. CASE Starve
  BY <1>3 DEF Starve, StopAbsorbing, caller, hist
<1>4. CASE OutputStops \/ OutputNextBlock
  BY <1>4 DEF OutputStops, OutputNextBlock
<1>5. CASE Return
  BY <1>5 DEF Return, caller, hist
<1> QED BY <1>1, <1>2, <1>3, <1>4, <1>5 DEF Library

(* What a step delivers is appended to what was delivered before, and uses *)
(* up as much of the room.                                                 *)
LEMMA Delivers ==
  ASSUME TypeOK, Buffers, Library
  PROVE  /\ availOut' <= availOut
         /\ Len(sent') = Len(sent) + (availOut - availOut')
         /\ \A k \in 0..Len(sent) : SubSeq(sent', 1, k) = SubSeq(sent, 1, k)
         /\ progress \/ availOut' # availOut => progress' \/ pc = "ret"
<1>1. CASE OutputStops \/ OutputNextBlock
  <2>1. CopyOutput
    BY <1>1 DEF OutputStops, OutputNextBlock
  <2>2. PICK piece \in Seq(Unit) : sent' = sent \o piece
    BY <2>1, CopySends
  <2>3. \A k \in 0..Len(sent) : SubSeq(sent', 1, k) = SubSeq(sent, 1, k)
    BY <2>2, PrefixStays DEF TypeOK
  <2>4. /\ Len(sent') = Len(sent) + CopyLen /\ availOut' = availOut - CopyLen
        /\ progress' = (progress \/ CopyLen > 0)
    BY <2>1, CopySends DEF CopyOutput
  <2>5. CopyLen \in Nat /\ availOut \in Nat /\ Len(sent) \in Nat
    BY CopyRange, LenProperties DEF TypeOK
  <2>6. availOut' <= availOut /\ Len(sent') = Len(sent) + (availOut - availOut')
    BY <2>4, <2>5
  <2>7. availOut' # availOut => CopyLen > 0
    BY <2>4, <2>5
  <2> QED BY <2>3, <2>4, <2>6, <2>7
<1>2. CASE AbsorbByte \/ CutRest \/ CutFull \/ Starve \/ Return
  <2>1. /\ availOut' = availOut /\ sent' = sent
        /\ progress => progress' \/ pc = "ret"
    <3>1. CASE AbsorbByte
      BY <3>1 DEF AbsorbByte
    <3>2. CASE CutRest \/ CutFull
      <4>1. availOut' = availOut /\ sent' = sent /\ progress' = progress
        BY <3>2 DEF CutRest, CutFull, caller
      <4> QED BY <4>1
    <3>3. CASE Starve \/ Return
      BY <3>3 DEF Starve, Return, caller, hist
    <3> QED BY <1>2, <3>1, <3>2, <3>3
  <2>2. availOut \in Nat /\ Len(sent) \in Nat
    BY LenProperties DEF TypeOK
  <2>3. availOut' <= availOut /\ Len(sent') = Len(sent) + (availOut - availOut')
    BY <2>1, <2>2
  <2> QED BY <2>1, <2>3
<1> QED BY <1>1, <1>2 DEF Library

(* Between calls the layer may set avail_in. *)
LEMMA AvailInKeeps ==
  ASSUME IInv, pc = "caller", availIn' \in 0..MaxIn,
         UNCHANGED <<open, live, mode, state, expect, rle, coder, availOut, totalIn, totalOut,
                     pc, progress, ret, hist>>
  PROVE  IInv'
<1> USE DEF IInv, rle, coder, hist
<1>1. TypeOK'
  BY DEF TypeOK
<1>2. RunPending' /\ Buffers' /\ BlockRoom' /\ Numbering'
  BY DEF RunPending, Buffers, BlockRoom, Numbering, nblock, numZ
<1>3. NoByteLost' /\ OutputHasRun'
  BY DEF NoByteLost, Pending, Unwritten, numZ, OutputHasRun, isempty_RL
<1>4. TrailerLast' /\ Left'
  BY DEF TrailerLast, TrailerWritten, AllDone, isempty_RL, numZ, Left
<1>5. PromiseKept' /\ NoLeak' /\ FinishMoves' /\ CountersExact'
  BY DEF PromiseKept, NoLeak, FinishMoves, AllDone, isempty_RL, numZ, CountersExact, Total
<1> QED BY <1>1, <1>2, <1>3, <1>4, <1>5

-----------------------------------------------------------------------------
(* The layer *)

(* The functions at each place, one by one. *)
LEMMA OpsAt ==
  /\ DOMAIN Ops = {"user", "init", "opened", "loop", "call", "flush", "failed", "end"}
  /\ Ops["user"]   = {"none"}
  /\ Ops["init"]   = {"open", "buff"}
  /\ Ops["opened"] = {"open", "buff"}
  /\ Ops["loop"]   = {"write", "close", "bzclose"}
  /\ Ops["call"]   = {"write", "close", "bzclose", "buff"}
  /\ Ops["flush"]  = {"close", "bzclose"}
  /\ Ops["failed"] = {"write", "close", "abandon", "bzclose"}
  /\ Ops["end"]    = {"buff", "close", "abandon", "bzclose"}
  BY DEF Ops, Closes

(* Opening takes what the program brings, or nothing happens. *)
LEMMA OpenFacts ==
  ASSUME WriteOpen \/ BzOpen
  PROVE  /\ fpc = "user" /\ ~bzf
         /\ ferr' = FALSE /\ file' = <<>> /\ synced' = TRUE /\ given' = 0 /\ lost' = lost
         /\ \/ /\ bzf' = TRUE /\ fpc' = "init" /\ op' = "open" /\ lastErr' = "OK"
               /\ availIn' \in {0, MaxIn} /\ owned' \in BOOLEAN
            \/ /\ UNCHANGED <<bzf, fpc, op, lastErr, availIn>>
               /\ owned' = FALSE
         /\ UNCHANGED <<open, live, mode, state, expect, rle, coder, availOut, totalIn, totalOut,
                        pc, progress, ret, hist>>
<1>1. PICK level : OpenWith(level)
  BY DEF WriteOpen, BzOpen
<1>2. owned' \in BOOLEAN /\ (~bzf' => owned' = FALSE)
  BY DEF WriteOpen, BzOpen
<1>3. bzf' = bzf => ~bzf'
  BY <1>1 DEF OpenWith
<1> QED BY <1>1, <1>2, <1>3 DEF OpenWith

(* Whatever the layer does, the stream keeps its invariant. *)
LEMMA StreamKept == IInv /\ FTypeOK /\ FWhere /\ [FNext]_allVars => IInv'
<1> SUFFICES ASSUME IInv, FTypeOK, FWhere, [FNext]_allVars PROVE IInv'
  OBVIOUS
<1>0. ASSUME UNCHANGED vars PROVE IInv'
  BY <1>0, StepHolds
<1>1. CASE WriteOpen \/ BzOpen
  <2>1. pc = "caller"
    BY <1>1, OpenFacts DEF FWhere
  <2>2. availIn' \in {0, MaxIn} \/ availIn' = availIn
    BY <1>1, OpenFacts
  <2>3. availIn' \in 0..MaxIn
    BY <2>2, SMTT(30) DEF IInv, TypeOK
  <2> QED BY <1>1, <2>1, <2>3, OpenFacts, AvailInKeeps
<1>2. CASE BuffCompress \/ BuffFinished \/ Misuse \/ HandleFails \/ Compressed \/ FwriteFails
           \/ Fflush \/ UNCHANGED allVars
  BY <1>0, <1>2 DEF BuffCompress, BuffFinished, Misuse, HandleFails, Compressed, FwriteFails,
     Fflush, allVars
<1>3. CASE \E o \in Closes : CloseCall(o)
  BY <1>0, <1>3 DEF CloseCall
<1>4. CASE WriteOpenInit
  BY <1>4, StepHolds DEF WriteOpenInit, Next, Caller
<1>5. CASE WriteOpened
  <2>1. availIn' \in 0..MaxIn /\ pc = "caller"
    BY <1>5 DEF WriteOpened, FWhere
  <2> QED BY <1>5, <2>1, AvailInKeeps DEF WriteOpened
<1>6. CASE \E n \in 0..MaxIn : Write(n)
  <2>1. PICK n \in 0..MaxIn : Write(n)
    BY <1>6
  <2>2. availIn' \in 0..MaxIn /\ pc = "caller"
    BY <2>1 DEF Write, FWhere, IInv, TypeOK
  <2> QED BY <2>1, <2>2, AvailInKeeps DEF Write
<1>7. CASE CallCompress
  <2>1. availIn \in 0..MaxIn /\ BufSize \in 0..MaxOut
    BY DEF IInv, TypeOK
  <2>2. \E a \in Actions : Enter(a, availIn, BufSize)
    BY <1>7 DEF CallCompress, Actions
  <2> QED BY <2>1, <2>2, StepHolds DEF Next, Caller
<1>8. CASE BuffFinish
  <2>1. given \in 0..MaxIn
    BY DEF FTypeOK
  <2>2. PICK destLen \in BuffRooms : Enter("FINISH", given, destLen)
    BY <1>8 DEF BuffFinish
  <2>3. "FINISH" \in Actions /\ destLen \in 0..MaxOut
    BY DEF Actions
  <2> QED BY <2>1, <2>2, <2>3, StepHolds DEF Next, Caller
<1>9. CASE Compress
  BY <1>9, StepHolds DEF Compress, Next
<1>10. CASE CloseEnds
  BY <1>10, StepHolds DEF CloseEnds, Next, Caller
<1>11. CASE Failed
  BY <1>0, <1>11, StepHolds DEF Failed, Next, Caller
<1> QED BY <1>1, <1>2, <1>3, <1>4, <1>5, <1>6, <1>7, <1>8, <1>9, <1>10, <1>11 DEF FNext

(* The file only receives units. *)
LEMMA ChunkFacts ==
  ASSUME TypeOK, Filed, FTypeOK, fpc = "call", op # "buff", bzf, open, NEW k \in 0..BufLen
  PROVE  /\ file \o SubSeq(Chunk, 1, k) = SubSeq(sent, 1, Len(file) + k)
         /\ file \o SubSeq(Chunk, 1, k) \in Seq(Unit)
         /\ Len(file \o SubSeq(Chunk, 1, k)) = Len(file) + k
         /\ Len(file) + k <= Len(sent)
         /\ SubSeq(Chunk, 1, BufLen) = Chunk
<1>1. sent \in Seq(Unit) /\ Len(sent) \in Nat /\ Len(file) \in Nat /\ file = SubSeq(sent, 1, Len(file))
  BY LenProperties DEF TypeOK, Filed, FTypeOK
<1>2. BufLen \in Int /\ Len(file) + BufLen = Len(sent)
  BY DEF BufLen, Filed, TypeOK
<1>3. Chunk = SubSeq(sent, Len(file) + 1, Len(sent))
  <2>1. Len(sent) - BufLen + 1 = Len(file) + 1
    BY <1>1, <1>2
  <2> QED BY <2>1 DEF Chunk
<1>4. Len(file) \in 0..Len(sent) /\ k \in 0..Len(sent) - Len(file)
  BY <1>1, <1>2
<1>5. /\ file \o SubSeq(Chunk, 1, k) = SubSeq(sent, 1, Len(file) + k)
      /\ SubSeq(sent, 1, Len(file) + k) \in Seq(Unit)
      /\ Len(SubSeq(sent, 1, Len(file) + k)) = Len(file) + k
  BY <1>1, <1>3, <1>4, PrefixGrows, SMTT(30)
<1>6. SubSeq(Chunk, 1, BufLen) = Chunk
  <2>1. \A j \in 1..Len(sent) : sent[j] \in Unit
    BY <1>1, ElementOfSeq
  <2>2. Chunk \in Seq(Unit) /\ Len(Chunk) = BufLen
    BY <1>1, <1>2, <1>3, <1>4, <2>1, SubSeqProperties
  <2> QED BY <2>2, SubSeqFull
<1>7. Len(file) + k <= Len(sent)
  BY <1>1, <1>4
<1> QED BY <1>5, <1>6, <1>7

(* After the fwrite of a whole chunk the file has all that was delivered.  *)
LEMMA WholeChunk ==
  ASSUME TypeOK, Filed, FTypeOK, fpc = "call", op # "buff", bzf, open, file' = file \o Chunk
  PROVE  /\ file' = SubSeq(sent, 1, Len(file')) /\ file' \in Seq(Unit)
         /\ Len(file') = Len(sent)
<1>1. BufLen \in Nat /\ Len(file) + BufLen = Len(sent)
  BY DEF BufLen, Filed, TypeOK
<1>2. BufLen \in 0..BufLen
  BY <1>1
<1> QED BY <1>1, <1>2, ChunkFacts

(* The layer's variables keep their types, and each place its functions.   *)
LEMMA FTypeStep ==
  IInv /\ FTypeOK /\ FWhere /\ Handed /\ Filed /\ [FNext]_allVars => FTypeOK'
<1> SUFFICES ASSUME IInv, FTypeOK, FWhere, Handed, Filed, [FNext]_allVars PROVE FTypeOK'
  OBVIOUS
<1>0. ASSUME UNCHANGED <<bzf, owned, ferr, synced, lost, lastErr, file, given>>,
             fpc' \in DOMAIN Ops, op' \in Ops[fpc']
      PROVE  FTypeOK'
  BY <1>0 DEF FTypeOK
<1>1. CASE WriteOpen \/ BzOpen
  <2>1. given' = 0 /\ file' = <<>>
    BY <1>1, OpenFacts
  <2>2. given' \in 0..MaxIn
    BY <2>1
  <2>3. file' \in Seq(Unit)
    BY <2>1, EmptySeq
  <2> QED BY <1>1, <2>2, <2>3, OpenFacts, OpsAt DEF FTypeOK, Returns
<1>2. CASE BuffCompress
  BY <1>2, OpsAt DEF BuffCompress, FTypeOK, Returns
<1>3. CASE BuffFinish
  BY <1>0, <1>3, OpsAt DEF BuffFinish
<1>4. CASE BuffFinished
  <2>1. ret \in Returns
    BY DEF IInv, TypeOK
  <2> QED BY <1>4, <2>1, OpsAt DEF BuffFinished, FTypeOK, Returns
<1>5. CASE WriteOpenInit
  BY <1>5, OpsAt DEF WriteOpenInit, FTypeOK
<1>6. CASE WriteOpened
  BY <1>6, OpsAt DEF WriteOpened, Done, FTypeOK, Returns
<1>7. CASE Misuse \/ HandleFails
  BY <1>7 DEF Misuse, HandleFails, FTypeOK, Returns
<1>8. CASE \E n \in 0..MaxIn : Write(n)
  <2>1. PICK n \in 0..MaxIn : Write(n)
    BY <1>8
  <2>2. given' \in 0..MaxIn
    <3>1. CASE given' = given
      BY <3>1 DEF FTypeOK
    <3>2. CASE given' = given + n
      <4>1. fpc = "user" /\ bzf /\ open /\ ~InError /\ n + Len(consumed) <= MaxIn
        BY <2>1, OpsAt DEF Write, FWhere
      <4>2. given = Len(consumed) + availIn /\ availIn = 0
        BY <4>1 DEF Handed
      <4>3. given \in Nat /\ Len(consumed) \in Nat
        BY LenProperties DEF FTypeOK, IInv, TypeOK
      <4> QED BY <3>2, <4>1, <4>2, <4>3
    <3> QED BY <2>1, <3>1, <3>2 DEF Write
  <2> QED BY <2>1, <2>2, OpsAt DEF Write, Done, FTypeOK, Returns
<1>9. CASE \E o \in Closes : CloseCall(o)
  BY <1>0, <1>9, OpsAt DEF CloseCall, Closes
<1>10. CASE CallCompress
  BY <1>0, <1>10, OpsAt DEF CallCompress, FTypeOK
<1>11. CASE Compress
  BY <1>11 DEF Compress, fvars, FTypeOK
<1>12. CASE Compressed
  <2>1. bzf /\ open /\ op \in {"write", "close", "bzclose"}
    BY <1>12, OpsAt DEF Compressed, FTypeOK, FWhere
  <2>2. CASE ret \in Expected
    <3>1. file' = file \o Chunk
      BY <1>12, <2>2 DEF Compressed
    <3>2. file' \in Seq(Unit)
      BY <1>12, <2>1, <3>1, WholeChunk DEF Compressed, IInv
    <3>3. synced' \in BOOLEAN
      BY <1>12, <2>2 DEF Compressed
    <3>4. fpc' \in DOMAIN Ops /\ op' \in Ops[fpc']
      BY <1>12, <2>1, <2>2, OpsAt DEF Compressed, GoOn, Done
    <3>5. lastErr' \in Returns \union {"IO_ERROR", "OUTBUFF_FULL"}
      BY <1>12, <2>2 DEF Compressed, GoOn, Done, FTypeOK, Returns
    <3> QED BY <1>12, <3>2, <3>3, <3>4, <3>5 DEF Compressed, FTypeOK
  <2>3. CASE ret \notin Expected
    BY <1>0, <1>12, <2>1, <2>3, OpsAt DEF Compressed
  <2> QED BY <2>2, <2>3
<1>13. CASE FwriteFails
  <2>1. bzf /\ open /\ op \in {"write", "close", "bzclose"}
    BY <1>13, OpsAt DEF FwriteFails, FTypeOK, FWhere
  <2>2. file' \in Seq(Unit)
    BY <1>13, <2>1, ChunkFacts DEF FwriteFails, IInv
  <2> QED BY <1>13, <2>1, <2>2, OpsAt DEF FwriteFails, FTypeOK
<1>14. CASE Fflush
  BY <1>14, OpsAt DEF Fflush, FTypeOK
<1>15. CASE CloseEnds
  BY <1>15, OpsAt DEF CloseEnds, FileCloses, Done, FTypeOK, Returns
<1>16. CASE Failed
  <2>1. ret \in Returns
    BY DEF IInv, TypeOK
  <2> QED BY <1>16, <2>1, OpsAt DEF Failed, FileCloses, Done, FTypeOK, Returns
<1>17. CASE UNCHANGED allVars
  BY <1>17 DEF allVars, fvars, FTypeOK
<1> QED BY <1>1, <1>2, <1>3, <1>4, <1>5, <1>6, <1>7, <1>8, <1>9, <1>10, <1>11, <1>12, <1>13,
           <1>14, <1>15, <1>16, <1>17 DEF FNext

(* A stream is open exactly for a BZFILE or a buffer-to-buffer call, and   *)
(* only a BZFILE owns a FILE.                                              *)
LEMMA FWhereStep ==
  IInv /\ FTypeOK /\ FWhere /\ Handed /\ CameBack /\ [FNext]_allVars => FWhere'
<1> SUFFICES ASSUME IInv, FTypeOK, FWhere, Handed, CameBack, [FNext]_allVars PROVE FWhere'
  OBVIOUS
<1> USE DEF FWhere
<1>1. CASE WriteOpen \/ BzOpen
  <2>1. ~open /\ pc = "caller" /\ op = "none" /\ open' = open /\ pc' = pc
    BY <1>1, OpenFacts, OpsAt DEF FTypeOK
  <2>2. CASE bzf' = TRUE /\ fpc' = "init" /\ op' = "open" /\ lastErr' = "OK"
    BY <2>1, <2>2
  <2>3. CASE UNCHANGED <<bzf, fpc, op, lastErr>> /\ owned' = FALSE
    <3>1. fpc = "user" /\ ~bzf
      BY <1>1, OpenFacts
    <3> QED BY <2>1, <2>3, <3>1
  <2> QED BY <1>1, <2>2, <2>3, OpenFacts
<1>2. CASE BuffCompress
  BY <1>2, OpsAt DEF BuffCompress, vars, FTypeOK
<1>3. CASE BuffFinish
  BY <1>3 DEF BuffFinish, Enter
<1>4. CASE BuffFinished
  BY <1>4 DEF BuffFinished, vars
<1>5. CASE WriteOpenInit
  BY <1>5, OpsAt DEF WriteOpenInit, CompressInitOK, CompressInitFails, FTypeOK
<1>6. CASE WriteOpened
  BY <1>6 DEF WriteOpened, Done
<1>7. CASE Misuse \/ HandleFails
  BY <1>7, OpsAt DEF Misuse, HandleFails, vars, FTypeOK
<1>8. CASE \E n \in 0..MaxIn : Write(n)
  BY <1>8, OpsAt DEF Write, Done, InError, FTypeOK
<1>9. CASE \E o \in Closes : CloseCall(o)
  <2>1. PICK o \in Closes : CloseCall(o)
    BY <1>9
  <2>2. op = "none" /\ pc = "caller" /\ open /\ lastErr # "OUTBUFF_FULL"
    BY <2>1, OpsAt DEF CloseCall, FTypeOK
  <2> QED BY <2>1, <2>2 DEF CloseCall, Closes, InError, vars
<1>10. CASE CallCompress
  BY <1>10 DEF CallCompress, Enter
<1>11. CASE Compress
  BY <1>11, LibraryFacts DEF Compress, fvars, IInv
<1>12. CASE Compressed
  <2>1. ret \in Expected
    BY <1>12 DEF CameBack, Compressed, NothingAsked
  <2> QED BY <1>12, <2>1, OpsAt DEF Compressed, GoOn, Done, vars, FTypeOK
<1>13. CASE FwriteFails
  BY <1>13 DEF FwriteFails, vars
<1>14. CASE Fflush
  BY <1>14, OpsAt DEF Fflush, vars, FTypeOK
<1>15. CASE CloseEnds
  BY <1>15, OpsAt DEF CloseEnds, CompressEnd, FileCloses, Done, FTypeOK
<1>16. CASE Failed
  <2>1. ferr /\ bzf /\ op \in {"write", "close", "abandon", "bzclose"}
    BY <1>16, OpsAt DEF Failed, FTypeOK
  <2> QED BY <1>16, <2>1 DEF Failed, CompressEnd, FileCloses, Done, vars
<1>17. CASE UNCHANGED allVars
  BY <1>17 DEF allVars, fvars, vars
<1> QED BY <1>1, <1>2, <1>3, <1>4, <1>5, <1>6, <1>7, <1>8, <1>9, <1>10, <1>11, <1>12, <1>13,
           <1>14, <1>15, <1>16, <1>17 DEF FNext

(* The data that was given is consumed or waits, and the stream is where   *)
(* the layer's next call needs it.                                         *)
LEMMA HandedStep ==
  IInv /\ FTypeOK /\ FWhere /\ Handed /\ CameBack /\ [FNext]_allVars => Handed'
<1> SUFFICES ASSUME IInv, FTypeOK, FWhere, Handed, CameBack, [FNext]_allVars PROVE Handed'
  OBVIOUS
<1> USE DEF Handed
<1>a. Len(consumed) \in Nat /\ availIn \in Nat /\ given \in Nat
  BY LenProperties DEF IInv, TypeOK, FTypeOK
<1>b. Len(<<>>) = 0
  OBVIOUS
<1>1. CASE WriteOpen \/ BzOpen
  <2>1. ~open /\ open' = open /\ op = "none" /\ lastErr # "OUTBUFF_FULL" /\ fpc = "user" /\ ~bzf
    BY <1>1, OpenFacts, OpsAt DEF FTypeOK, FWhere
  <2>2. CASE bzf' = TRUE /\ fpc' = "init" /\ op' = "open" /\ lastErr' = "OK"
    BY <1>1, <2>1, <2>2, OpenFacts
  <2>3. CASE UNCHANGED <<bzf, fpc, op, lastErr, availIn>>
    BY <2>1, <2>3
  <2>4. \/ bzf' = TRUE /\ fpc' = "init" /\ op' = "open" /\ lastErr' = "OK"
        \/ UNCHANGED <<bzf, fpc, op, lastErr, availIn>>
    BY <1>1, OpenFacts
  <2> QED BY <2>2, <2>3, <2>4
<1>2. CASE BuffCompress
  BY <1>2, OpsAt DEF BuffCompress, vars, FWhere, FTypeOK
<1>3. CASE BuffFinish
  <2>1. /\ consumed' = <<>> /\ availIn' = given' /\ fpc' = "call" /\ op' = "buff"
        /\ lastErr' = "OK"
    BY <1>3 DEF BuffFinish, Enter, hist, FWhere
  <2>2. given' = Len(consumed') + availIn'
    BY <1>3, <1>a, <1>b, <2>1 DEF BuffFinish
  <2> QED BY <2>1, <2>2
<1>4. CASE BuffFinished
  <2>1. /\ UNCHANGED vars /\ fpc' = "end" /\ op' = "buff" /\ given' = given
        /\ ret \in {"FINISH_OK", "STREAM_END", "SEQUENCE_ERROR"}
        /\ lastErr' = "OK" => ret = "STREAM_END"
        /\ lastErr' = "OUTBUFF_FULL" => ret = "FINISH_OK"
    BY <1>4 DEF BuffFinished, CameBack, Expected
  <2> QED BY <1>4, <2>1 DEF BuffFinished, CameBack, vars, hist, rle, coder, caller, InError, Unfinished,
          isempty_RL, numZ
<1>5. CASE WriteOpenInit
  BY <1>5, OpsAt DEF WriteOpenInit, CompressInitOK, CompressInitFails, FWhere, FTypeOK
<1>6. CASE WriteOpened
  <2>1. /\ given' = 0 /\ consumed' = <<>> /\ availIn' = 0 /\ mode' = "RUNNING"
        /\ fpc' = "user" /\ op' = "none" /\ lastErr' = "OK"
    BY <1>6 DEF WriteOpened, Done, hist
  <2> QED BY <1>b, <2>1
<1>7. CASE Misuse \/ HandleFails
  BY <1>7, OpsAt DEF Misuse, HandleFails, vars, hist, caller, FWhere, FTypeOK, InError
<1>8. CASE \E n \in 0..MaxIn : Write(n)
  <2>1. PICK n \in 0..MaxIn : Write(n)
    BY <1>8
  <2>2. /\ open /\ open' /\ mode = "RUNNING" /\ mode' = mode /\ availIn = 0 /\ consumed' = consumed
        /\ given = Len(consumed) + availIn /\ fpc = "user" /\ op = "none" /\ lastErr = "OK"
    BY <2>1, OpsAt DEF Write, hist, FWhere, FTypeOK, InError
  <2>3. CASE UNCHANGED <<availIn, given>>
    <3>1. fpc' = "user" /\ op' = "none" /\ lastErr' \in {"OK", "IO_ERROR"}
      BY <2>1, <2>2, <2>3 DEF Write, Done
    <3> QED BY <2>2, <2>3, <3>1
  <2>4. CASE fpc' = "loop" /\ op' = "write" /\ availIn' = n /\ given' = given + n /\ n > 0
    <3>1. given' = Len(consumed') + availIn'
      BY <1>a, <2>2, <2>4
    <3> QED BY <2>1, <2>2, <2>4, <3>1 DEF Write
  <2> QED BY <2>1, <2>3, <2>4 DEF Write
<1>9. CASE \E o \in Closes : CloseCall(o)
  <2>1. PICK o \in Closes : CloseCall(o)
    BY <1>9
  <2>2. lastErr # "OUTBUFF_FULL" /\ open
    BY <2>1, OpsAt DEF CloseCall, FTypeOK, FWhere
  <2> QED BY <2>1, <2>2 DEF CloseCall, Closes, InError, vars, hist, caller
<1>10. CASE CallCompress
  BY <1>10 DEF CallCompress, Enter, hist, FWhere
<1>11. CASE Compress
  <2>1. Len(consumed') + availIn' = Len(consumed) + availIn /\ open' = open
    BY <1>11, LibraryFacts DEF Compress, IInv
  <2>2. fpc = "call" /\ op # "open" /\ lastErr = "OK"
    BY <1>11, OpsAt DEF Compress, FTypeOK, FWhere
  <2> QED BY <1>11, <2>1, <2>2 DEF Compress, fvars
<1>12. CASE Compressed
  <2>1. /\ ret \in Expected /\ UNCHANGED vars /\ GoOn /\ UNCHANGED <<bzf, given>>
        /\ op \in {"write", "close", "bzclose"} /\ lastErr = "OK" /\ open
    BY <1>12, OpsAt DEF CameBack, Compressed, NothingAsked, FTypeOK, FWhere
  <2>2. UNCHANGED <<open, consumed, availIn, mode>>
    BY <2>1 DEF vars, hist, caller
  <2>3. given = Len(consumed) + availIn
    BY <1>12, <2>1 DEF Compressed
  <2>4. CASE op = "write"
    <3>1. mode = "RUNNING"
      BY <1>12, <2>1, <2>4 DEF Compressed, CameBack, Expected
    <3>2. CASE availIn = 0
      BY <2>1, <2>2, <2>3, <2>4, <3>1, <3>2 DEF GoOn, Leave, Done
    <3>3. CASE availIn > 0
      BY <2>1, <2>2, <2>3, <2>4, <3>1, <3>3 DEF GoOn, Leave
    <3> QED BY <1>a, <3>2, <3>3
  <2>5. CASE op # "write"
    <3>1. availIn = 0 /\ ret \in {"FINISH_OK", "STREAM_END"}
      BY <1>12, <2>1, <2>5 DEF Compressed, CameBack, Expected
    <3>2. CASE ret = "FINISH_OK"
      BY <1>12, <2>1, <2>2, <2>3, <2>5, <3>1, <3>2 DEF Compressed, CameBack, GoOn, Leave
    <3>3. CASE ret = "STREAM_END"
      BY <1>12, <2>1, <2>2, <2>3, <2>5, <3>1, <3>3 DEF Compressed, CameBack, GoOn, Leave
    <3> QED BY <3>1, <3>2, <3>3
  <2> QED BY <2>4, <2>5
<1>13. CASE FwriteFails
  BY <1>13, OpsAt DEF FwriteFails, vars, hist, caller, FTypeOK, FWhere
<1>14. CASE Fflush
  BY <1>14, OpsAt DEF Fflush, vars, hist, caller, FTypeOK, FWhere, InError
<1>15. CASE CloseEnds
  BY <1>15 DEF CloseEnds, CompressEnd, Done
<1>16. CASE Failed
  <2>1. ferr /\ bzf /\ op \in {"write", "close", "abandon", "bzclose"}
    BY <1>16, OpsAt DEF Failed, FTypeOK, FWhere
  <2> QED BY <1>16, <2>1 DEF Failed, CompressEnd, Done, vars, hist, caller, InError
<1>17. CASE UNCHANGED allVars
  BY <1>17 DEF allVars, fvars, vars, hist, rle, coder, caller, InError, Unfinished, isempty_RL, numZ
<1> QED BY <1>1, <1>2, <1>3, <1>4, <1>5, <1>6, <1>7, <1>8, <1>9, <1>10, <1>11, <1>12, <1>13,
           <1>14, <1>15, <1>16, <1>17 DEF FNext

(* What the file has of the stream stays a prefix of it. *)
LEMMA FiledStep ==
  IInv /\ FTypeOK /\ FWhere /\ Handed /\ CameBack /\ Filed /\ [FNext]_allVars => Filed'
<1> SUFFICES ASSUME IInv, FTypeOK, FWhere, Handed, CameBack, Filed, [FNext]_allVars PROVE Filed'
  OBVIOUS
<1>a. Len(file) \in Nat /\ Len(sent) \in Nat /\ availOut \in Nat
  BY LenProperties DEF IInv, TypeOK, FTypeOK
(* A step that leaves file and stream alone, and does not come to a place  *)
(* of which more is said.                                                  *)
<1>b. ASSUME UNCHANGED <<file, sent, open, bzf, availOut, fpc, op, ferr, lastErr, synced>>
      PROVE  Filed'
  BY <1>b DEF Filed, BufLen, Completing, InError
<1>1. CASE WriteOpen \/ BzOpen
  <2>1. ~open /\ open' = open /\ fpc = "user"
    BY <1>1, OpenFacts, OpsAt DEF FTypeOK, FWhere
  <2>2. fpc' \in {"init", "user"}
    BY <1>1, <2>1, OpenFacts
  <2> QED BY <2>1, <2>2 DEF Filed, Completing
<1>2. CASE BuffCompress
  BY <1>2 DEF BuffCompress, Filed, Completing
<1>3. CASE BuffFinish
  <2>1. ~bzf' /\ fpc' = "call" /\ op' = "buff"
    BY <1>3, OpsAt DEF BuffFinish, FWhere, FTypeOK
  <2> QED BY <2>1 DEF Filed, Completing
<1>4. CASE BuffFinished
  <2>1. ~bzf' /\ fpc' = "end" /\ op' = "buff"
    BY <1>4, OpsAt DEF BuffFinished, FWhere, FTypeOK
  <2> QED BY <2>1 DEF Filed, Completing
<1>5. CASE WriteOpenInit
  <2>1. CASE CompressInitOK /\ fpc' = "opened" /\ UNCHANGED <<bzf, op, owned>>
    <3>1. sent' = <<>> /\ file' = file
      BY <1>5, <2>1 DEF CompressInitOK, WriteOpenInit
    <3>2. bzf' => file = <<>>
      BY <1>5, <2>1, OpsAt DEF WriteOpenInit, FWhere, FTypeOK, Handed
    <3>3. bzf' => Len(file') <= Len(sent') /\ file' = SubSeq(sent', 1, Len(file'))
      <4>1. SubSeq(<<>>, 1, 0) = <<>> /\ Len(<<>>) = 0
        BY SubSeqEmpty
      <4> QED BY <3>1, <3>2, <4>1
    <3> QED BY <2>1, <3>3 DEF Filed, Completing
  <2>2. CASE fpc' = "user" /\ bzf' = FALSE
    BY <2>2 DEF Filed, Completing
  <2> QED BY <1>5, <2>1, <2>2 DEF WriteOpenInit
<1>6. CASE WriteOpened
  <2>1. file = <<>> /\ sent = <<>>
    BY <1>6 DEF WriteOpened, Handed
  <2>2. UNCHANGED <<file, sent, open, bzf>> /\ fpc' = "user"
    BY <1>6 DEF WriteOpened, Done, hist
  <2>3. Len(file) = Len(sent) /\ (bzf /\ open => file = SubSeq(sent, 1, Len(file)))
    BY <2>1 DEF Filed
  <2> QED BY <1>a, <2>2, <2>3 DEF Filed, Completing
<1>7. CASE Misuse \/ HandleFails
  <2>1. UNCHANGED <<file, sent, open, bzf>> /\ fpc' = "user" /\ fpc = "user" /\ (~ferr' => ~ferr)
    BY <1>7 DEF Misuse, HandleFails, vars, hist
  <2> QED BY <2>1 DEF Filed, Completing
<1>8. CASE \E n \in 0..MaxIn : Write(n)
  <2>1. UNCHANGED <<file, sent, open, bzf, ferr>> /\ fpc' \in {"user", "loop"} /\ fpc = "user"
    BY <1>8 DEF Write, Done, hist
  <2> QED BY <2>1 DEF Filed, Completing
<1>9. CASE \E o \in Closes : CloseCall(o)
  <2>1. PICK o \in Closes : CloseCall(o)
    BY <1>9
  <2>2. UNCHANGED <<file, sent, open, bzf, ferr>> /\ fpc = "user"
    BY <2>1 DEF CloseCall, vars, hist
  <2>3. fpc' \in {"failed", "end", "flush", "loop"} /\ (fpc' = "end" => op' = "abandon")
    BY <2>1 DEF CloseCall
  <2> QED BY <2>2, <2>3 DEF Filed, Completing
<1>10. CASE CallCompress
  <2>1. /\ bzf /\ open /\ ~ferr /\ op \in {"write", "close", "bzclose"}
        /\ UNCHANGED <<file, sent, open, bzf, op>> /\ availOut' = BufSize /\ fpc' = "call"
        /\ Len(file) = Len(sent)
    BY <1>10, OpsAt DEF CallCompress, Enter, hist, FTypeOK, FWhere, Filed
  <2>2. Len(file') + (BufSize - availOut') = Len(sent') /\ availOut' <= BufSize
    BY <1>a, <2>1
  <2> QED BY <2>1, <2>2 DEF Filed, BufLen, Completing
<1>11. CASE Compress
  <2>1. /\ UNCHANGED fvars /\ Library /\ fpc = "call" /\ open' = open
        /\ availOut' <= availOut /\ Len(sent') = Len(sent) + (availOut - availOut')
        /\ \A k \in 0..Len(sent) : SubSeq(sent', 1, k) = SubSeq(sent, 1, k)
    BY <1>11, LibraryFacts, Delivers DEF Compress, IInv
  <2>2. UNCHANGED <<bzf, fpc, op, file, open>>
    BY <2>1 DEF fvars
  <2>3. availOut' \in Nat
    <3>1. TypeOK'
      BY StreamKept DEF IInv
    <3> QED BY <3>1 DEF TypeOK
  <2>4. Len(file) <= Len(sent) => /\ Len(file) <= Len(sent')
                                  /\ SubSeq(sent', 1, Len(file)) = SubSeq(sent, 1, Len(file))
    <3>1. Len(sent) <= Len(sent')
      BY <1>a, <2>1, <2>3
    <3> QED BY <1>a, <2>1, <3>1
  <2>5. availOut <= BufSize => availOut' <= BufSize
    BY <1>a, <2>1, <2>3
  <2>6. Len(file) + (BufSize - availOut) = Len(sent)
          => Len(file) + (BufSize - availOut') = Len(sent')
    BY <1>a, <2>1, <2>3
  <2> QED BY <2>1, <2>2, <2>4, <2>5, <2>6 DEF Filed, BufLen, Completing
<1>12. CASE Compressed
  <2>1. /\ ret \in Expected /\ UNCHANGED vars /\ GoOn /\ bzf' = bzf /\ file' = file \o Chunk
        /\ fpc = "call" /\ op # "buff" /\ bzf /\ open /\ ~ferr
    BY <1>12, OpsAt DEF CameBack, Compressed, NothingAsked, FTypeOK, FWhere
  <2>2. file' = SubSeq(sent, 1, Len(file')) /\ Len(file') = Len(sent)
    BY <2>1, WholeChunk DEF IInv
  <2>3. fpc' \in {"loop", "user", "flush"}
    BY <2>1 DEF GoOn, Done
  <2>4. UNCHANGED <<sent, open>>
    BY <2>1 DEF vars, hist
  <2> QED BY <1>a, <2>2, <2>3, <2>4 DEF Filed, Completing
<1>13. CASE FwriteFails
  <2>1. /\ UNCHANGED vars /\ bzf' = bzf /\ fpc' = "failed"
        /\ fpc = "call" /\ op # "buff" /\ bzf /\ open
    BY <1>13, OpsAt DEF FwriteFails, FTypeOK, FWhere
  <2>2. PICK k \in 0..BufLen : file' = file \o SubSeq(Chunk, 1, k)
    BY <1>13 DEF FwriteFails
  <2>3. Len(file') <= Len(sent) /\ file' = SubSeq(sent, 1, Len(file'))
    BY <2>1, <2>2, ChunkFacts DEF IInv
  <2>4. UNCHANGED <<sent, open>>
    BY <2>1 DEF vars, hist
  <2> QED BY <2>1, <2>3, <2>4 DEF Filed, Completing
<1>14. CASE Fflush
  <2>1. UNCHANGED <<file, sent, open, bzf, op>> /\ fpc = "flush" /\ bzf /\ open /\ ~ferr
    BY <1>14, OpsAt DEF Fflush, vars, hist, FTypeOK, FWhere
  <2>2. (fpc' = "end" /\ synced') \/ fpc' = "failed"
    BY <1>14 DEF Fflush
  <2> QED BY <2>1, <2>2 DEF Filed, Completing
<1>15. CASE CloseEnds
  BY <1>15 DEF CloseEnds, Done, Filed, Completing
<1>16. CASE Failed
  <2>1. ferr /\ ferr' /\ fpc' = "user" /\ file' = file
    BY <1>16, OpsAt DEF Failed, Done, FTypeOK, FWhere
  <2>2. CASE bzf' = FALSE
    BY <2>1, <2>2 DEF Filed, Completing
  <2>3. CASE UNCHANGED <<vars, bzf>>
    BY <2>1, <2>3 DEF Filed, Completing, vars, hist
  <2> QED BY <1>16, <2>2, <2>3 DEF Failed
<1>17. CASE UNCHANGED allVars
  BY <1>b, <1>17 DEF allVars, fvars, vars, hist, caller
<1> QED BY <1>1, <1>2, <1>3, <1>4, <1>5, <1>6, <1>7, <1>8, <1>9, <1>10, <1>11, <1>12, <1>13,
           <1>14, <1>15, <1>16, <1>17 DEF FNext

(* A call under way keeps what it takes to make progress, and BZ_FINISH    *)
(* leaves the loop early only when the room is used up.                    *)
LEMMA MovingCall ==
  IInv /\ FTypeOK /\ FWhere /\ Handed /\ Moving /\ Compress => Moving'
<1> SUFFICES ASSUME IInv, FTypeOK, FWhere, Handed, Moving, Compress, pc' # "caller"
             PROVE  Moving'
  BY DEF Moving
<1>a. /\ Library /\ TypeOK /\ Buffers /\ fpc = "call" /\ pc # "caller" /\ open
      /\ UNCHANGED <<fpc, op, given>>
  BY LibraryFacts, OpsAt DEF Compress, fvars, IInv, FWhere, FTypeOK
<1>b. /\ mode = IF op = "write" THEN "RUNNING" ELSE "FINISHING"
      /\ op \in {"close", "bzclose"} => availIn = 0
      /\ ~progress /\ op = "buff" => /\ consumed = <<>> /\ sent = <<>>
                                     /\ given > 0 => pc = "loop" /\ state = "INPUT" /\ block = <<>>
      /\ ~progress /\ op # "buff" => availOut = BufSize
      /\ ~progress /\ op = "write" => pc = "loop" /\ availIn > 0
      /\ op \in {"write", "close", "bzclose", "buff"}
  BY <1>a, OpsAt DEF Moving, FTypeOK
<1>c. /\ availIn \in Nat /\ availOut \in Nat /\ Len(consumed) \in Nat /\ Len(sent) \in Nat
      /\ expect \in Nat /\ pos \in Nat /\ numZ \in Nat /\ CopyLen \in Nat
      /\ given \in Nat /\ NblockMax > 0 /\ BufSize > 0
      /\ given = Len(consumed) + availIn
      /\ op # "write" => expect = availIn
  <2>1. /\ availIn \in Nat /\ availOut \in Nat /\ Len(consumed) \in Nat /\ Len(sent) \in Nat
        /\ expect \in Nat /\ pos \in Nat /\ numZ \in Nat /\ CopyLen \in Nat /\ given \in Nat
    BY <1>a, LenProperties, CopyRange DEF TypeOK, FTypeOK, numZ
  <2>2. given = Len(consumed) + availIn
    BY <1>a DEF Handed
  <2>3. op # "write" => expect = availIn
    BY <1>a, <1>b DEF IInv, PromiseKept, TypeOK
  <2> QED BY <2>1, <2>2, <2>3
(* A buffer to compress that is not begun is begun. *)
<1>d. ASSUME op = "buff", ~progress, given > 0 PROVE state = "INPUT" /\ CanAbsorb
  <2>1. consumed = <<>> /\ state = "INPUT" /\ block = <<>>
    BY <1>b, <1>d
  <2>2. Len(consumed) = 0 /\ Len(block) = 0
    BY <2>1
  <2>3. availIn > 0 /\ expect > 0
    BY <1>c, <1>d, <2>2
  <2> QED BY <1>c, <2>1, <2>2, <2>3 DEF CanAbsorb, nblock
<1>1. CASE AbsorbByte
  <2>1. mode' = mode /\ progress' /\ pc' = "loop" /\ availIn > 0
    BY <1>1 DEF AbsorbByte, CanAbsorb
  <2>2. op \notin {"close", "bzclose"}
    BY <1>b, <1>c, <2>1
  <2> QED BY <1>a, <1>b, <2>1, <2>2 DEF Moving
<1>2. CASE CutRest \/ CutFull
  <2>1. /\ ~CanAbsorb /\ pc' = "loop"
        /\ UNCHANGED <<mode, availIn, availOut, progress, consumed, sent>>
    BY <1>2 DEF CutRest, CutFull, StopAbsorbing, caller
  <2>2. op = "buff" /\ ~progress => ~(given > 0)
    BY <1>d, <2>1
  <2> QED BY <1>a, <1>b, <2>1, <2>2 DEF Moving
<1>3. CASE Starve
  <2>1. /\ ~CanAbsorb /\ ~MustCut /\ availIn = 0
        /\ UNCHANGED <<mode, availIn, availOut, progress, consumed, sent>>
    BY <1>3 DEF Starve, StopAbsorbing, caller, hist
  <2>2. op = "buff" /\ ~progress => ~(given > 0)
    BY <1>d, <2>1
  <2>3. op = "write"
    BY <1>b, <1>c, <2>1 DEF MustCut
  <2>4. progress
    BY <1>b, <1>c, <2>1, <2>3
  <2> QED BY <1>a, <1>b, <2>1, <2>3, <2>4 DEF Moving
<1>4. CASE OutputStops \/ OutputNextBlock
  <2>1. /\ pc = "loop" /\ state = "OUTPUT" /\ UNCHANGED <<mode, availIn, consumed>>
        /\ CopyOutput
    BY <1>4 DEF OutputStops, OutputNextBlock
  <2>2. /\ availOut' = availOut - CopyLen
        /\ Len(sent') = Len(sent) + (availOut - availOut')
        /\ progress \/ availOut' # availOut => progress'
    BY <1>a, <2>1, Delivers DEF CopyOutput
  <2>3. ~progress' => ~progress /\ availOut' = availOut /\ Len(sent') = Len(sent)
    BY <1>c, <2>2
  <2>4. ~progress' /\ op = "buff" => consumed' = <<>> /\ sent' = <<>> /\ ~(given > 0)
    <3>1. ASSUME ~progress', op = "buff" PROVE consumed' = <<>> /\ sent' = <<>> /\ ~(given > 0)
      <4>1. consumed = <<>> /\ sent = <<>> /\ ~(given > 0)
        BY <1>b, <2>1, <2>3, <3>1
      <4>2. Len(sent') = 0
        BY <2>3, <3>1, <4>1
      <4>3. sent' \in Seq(Unit)
        BY <1>a, <2>1, CopySends, ConcatProperties DEF TypeOK
      <4>4. sent' = <<>>
        BY <4>2, <4>3, EmptySeq
      <4> QED BY <2>1, <4>1, <4>4
    <3> QED BY <3>1
  <2>5. op \in {"close", "bzclose"} => availIn' = 0
    BY <1>b, <2>1
  <2>6. CASE OutputStops
    <3>1. ~Drained => CopyLen = availOut /\ availOut' = 0
      BY <1>c, <2>2 DEF Drained, CopyLen
    <3>2. op = "write" => progress'
      <4>1. ASSUME op = "write", ~progress' PROVE FALSE
        <5>1. ~Drained /\ ~progress
          BY <1>b, <2>3, <2>6, <4>1 DEF OutputStops
        <5>2. availOut = BufSize /\ availOut' = 0
          BY <1>b, <3>1, <4>1, <5>1
        <5> QED BY <1>c, <2>3, <4>1, <5>2
      <4> QED BY <4>1
    <3>3. Unfinished' => availOut' = 0
      <4>1. CASE ~Drained
        BY <3>1, <4>1
      <4>2. CASE Drained
        <5>1. AllDone /\ pos' = pos + CopyLen /\ UNCHANGED <<expect, inCh, inLen, zbits>>
          BY <2>6, <4>2 DEF OutputStops, rle
        <5>2. ~(pos + CopyLen < numZ) /\ numZ' = numZ
          BY <1>c, <4>2, <5>1 DEF Drained, numZ
        <5>3. isempty_RL' /\ expect' = 0
          BY <5>1 DEF AllDone, isempty_RL
        <5> QED BY <5>1, <5>2, <5>3 DEF Unfinished
      <4> QED BY <4>1, <4>2
    <3>4. ~progress' /\ op # "buff" => availOut' = BufSize
      BY <1>b, <2>3
    <3> QED BY <1>a, <1>b, <2>1, <2>4, <2>5, <3>2, <3>3, <3>4 DEF Moving
  <2>7. CASE OutputNextBlock
    <3>1. pc' = "loop"
      BY <1>b, <2>7 DEF OutputNextBlock
    <3>2. ~progress' /\ op # "buff" => availOut' = BufSize
      BY <1>b, <2>3
    <3>3. ~progress' /\ op = "write" => availIn' > 0
      BY <1>b, <2>1, <2>3
    <3> QED BY <1>a, <1>b, <2>1, <2>4, <2>5, <3>1, <3>2, <3>3 DEF Moving
  <2> QED BY <1>4, <2>6, <2>7
<1>5. CASE Return
  BY <1>5 DEF Return
<1> QED BY <1>a, <1>1, <1>2, <1>3, <1>4, <1>5 DEF Library

(* Only two steps begin a call of BZ2_bzCompress; a step outside a call    *)
(* leaves the layer outside.                                               *)
LEMMA CallsBegin ==
  ASSUME \/ WriteOpen \/ BzOpen \/ BuffCompress \/ BuffFinished
         \/ WriteOpenInit \/ WriteOpened \/ Misuse \/ HandleFails
         \/ \E n \in 0..MaxIn : Write(n)
         \/ \E o \in Closes : CloseCall(o)
         \/ Compressed \/ FwriteFails \/ Fflush \/ CloseEnds \/ Failed
  PROVE  fpc' # "call"
<1>1. CASE WriteOpen \/ BzOpen
  BY <1>1, OpenFacts
<1>2. CASE BuffCompress \/ BuffFinished \/ WriteOpenInit \/ WriteOpened \/ Misuse \/ HandleFails
  BY <1>2 DEF BuffCompress, BuffFinished, WriteOpenInit, WriteOpened, Misuse, HandleFails, Done
<1>3. CASE \E n \in 0..MaxIn : Write(n)
  BY <1>3 DEF Write, Done
<1>4. CASE \E o \in Closes : CloseCall(o)
  BY <1>4 DEF CloseCall
<1>5. CASE Compressed \/ FwriteFails
  BY <1>5 DEF Compressed, FwriteFails, GoOn, Done, vars
<1>6. CASE Fflush \/ CloseEnds \/ Failed
  BY <1>6 DEF Fflush, CloseEnds, Failed, Done
<1> QED BY <1>1, <1>2, <1>3, <1>4, <1>5, <1>6

(* Every call of the layer begins with what it needs, and keeps it. *)
LEMMA MovingStep ==
  IInv /\ FTypeOK /\ FWhere /\ Handed /\ Moving /\ [FNext]_allVars => Moving'
<1> SUFFICES ASSUME IInv, FTypeOK, FWhere, Handed, Moving, [FNext]_allVars,
                    fpc' = "call", pc' # "caller"
             PROVE  Moving'
  BY DEF Moving
<1>1. CASE CallCompress
  <2>1. /\ op \in {"write", "close", "bzclose"} /\ op' = op
        /\ Enter(IF op = "write" THEN "RUN" ELSE "FINISH", availIn, BufSize)
    BY <1>1, OpsAt DEF CallCompress, FTypeOK
  <2>2. pc' = "loop" /\ progress' = FALSE /\ availOut' = BufSize /\ availIn' = availIn
    BY <2>1 DEF Enter
  <2>3. CASE op = "write"
    <3>1. mode' = "RUNNING" /\ availIn > 0
      BY <1>1, <2>1, <2>3 DEF Enter, EnterRun, EnterStart, EnterAgain, Handed, CallCompress
    <3> QED BY <2>1, <2>2, <2>3, <3>1 DEF Moving
  <2>4. CASE op # "write"
    <3>1. mode' = "FINISHING" /\ availIn = 0
      BY <1>1, <2>1, <2>4 DEF Enter, EnterRun, EnterStart, EnterAgain, StartMode, Handed,
         CallCompress
    <3> QED BY <2>1, <2>2, <2>4, <3>1 DEF Moving
  <2> QED BY <2>3, <2>4
<1>2. CASE BuffFinish
  <2>1. PICK destLen \in BuffRooms : Enter("FINISH", given, destLen)
    BY <1>2 DEF BuffFinish
  <2>2. /\ mode = "RUNNING" /\ state = "INPUT" /\ block = <<>> /\ consumed = <<>> /\ sent = <<>>
        /\ op' = "buff"
    BY <1>2 DEF BuffFinish, Handed
  <2>3. /\ mode' = "FINISHING" /\ pc' = "loop"
        /\ UNCHANGED <<state, block, consumed, sent>>
    BY <2>1, <2>2 DEF Enter, EnterRun, EnterStart, EnterAgain, StartMode, rle, hist
  <2> QED BY <2>2, <2>3 DEF Moving
<1>3. CASE Compress
  BY <1>3, MovingCall
<1>4. CASE UNCHANGED allVars
  BY <1>4 DEF allVars, fvars, vars, hist, rle, coder, caller, Moving, Unfinished, isempty_RL, numZ
<1>5. CASE \/ WriteOpen \/ BzOpen \/ BuffCompress \/ BuffFinished
           \/ WriteOpenInit \/ WriteOpened \/ Misuse \/ HandleFails
           \/ \E n \in 0..MaxIn : Write(n)
           \/ \E o \in Closes : CloseCall(o)
           \/ Compressed \/ FwriteFails \/ Fflush \/ CloseEnds \/ Failed
  BY <1>5, CallsBegin
<1> QED BY <1>1, <1>2, <1>3, <1>4, <1>5 DEF FNext

(* What a call of the layer comes back with. *)
LEMMA CameBackStep ==
  IInv /\ FTypeOK /\ FWhere /\ Handed /\ Moving /\ CameBack /\ [FNext]_allVars => CameBack'
<1> SUFFICES ASSUME IInv, FTypeOK, FWhere, Handed, Moving, CameBack, [FNext]_allVars,
                    fpc' = "call", pc' = "caller"
             PROVE  CameBack'
  BY DEF CameBack
<1>1. CASE CallCompress \/ BuffFinish
  BY <1>1 DEF CallCompress, BuffFinish, Enter
<1>2. CASE Compress /\ ~Return
  BY <1>2 DEF Compress, Library, AbsorbByte, CutRest, CutFull, Starve, StopAbsorbing,
     OutputStops, OutputNextBlock
<1>3. CASE Compress /\ Return
  <2>1. /\ fpc = "call" /\ pc = "ret" /\ UNCHANGED <<op, given>>
        /\ UNCHANGED <<expect, inCh, inLen, zbits, pos, availIn, availOut, sent>>
        /\ op \in {"write", "close", "bzclose", "buff"}
    BY <1>3, OpsAt DEF Compress, Return, fvars, rle, coder, caller, hist, FTypeOK
  <2>2. Unfinished' = Unfinished
    BY <2>1 DEF Unfinished, isempty_RL, numZ
  <2>3. /\ mode = IF op = "write" THEN "RUNNING" ELSE "FINISHING"
        /\ op \in {"close", "bzclose"} => availIn = 0
        /\ ~progress /\ op = "buff" => sent = <<>> /\ ~(given > 0)
        /\ ~progress /\ op # "buff" => availOut = BufSize
        /\ ~progress => op # "write"
        /\ op # "write" /\ Unfinished => availOut = 0
    BY <2>1 DEF Moving
  <2>4. op # "write" /\ availOut > 0 => progress
    BY <2>1, <2>3 DEF IInv, FinishMoves
  <2>5. op # "write" => expect = availIn
    BY <2>1, <2>3 DEF IInv, PromiseKept
  <2>6. CASE op = "write"
    <3>1. ret' = "RUN_OK" /\ mode' = "RUNNING"
      BY <1>3, <2>3, <2>6 DEF Return
    <3> QED BY <2>1, <2>6, <3>1 DEF CameBack, Expected
  <2>7. CASE op # "write" /\ progress
    <3>1. CASE Unfinished
      <4>1. ret' = "FINISH_OK" /\ mode' = "FINISHING"
        BY <1>3, <2>3, <2>7, <3>1 DEF Return
      <4> QED BY <2>1, <2>2, <2>3, <2>7, <3>1, <4>1 DEF CameBack, Expected
    <3>2. CASE ~Unfinished
      <4>1. ret' = "STREAM_END" /\ mode' = "IDLE"
        BY <1>3, <2>3, <2>7, <3>2 DEF Return
      <4>2. availIn = 0
        <5>1. ~(expect > 0) /\ expect \in Nat
          BY <3>2 DEF Unfinished, IInv, TypeOK
        <5> QED BY <2>5, <2>7, <5>1
      <4> QED BY <2>1, <2>7, <4>1, <4>2 DEF CameBack, Expected
    <3> QED BY <3>1, <3>2
  <2>8. CASE op # "write" /\ ~progress
    <3>1. availOut = 0
      <4>1. availOut \in Nat
        BY DEF IInv, TypeOK
      <4> QED BY <2>4, <2>8, <4>1
    <3>2. op = "buff"
      BY <2>3, <2>8, <3>1
    <3>3. sent = <<>> /\ given = 0
      BY <2>3, <2>8, <3>2 DEF FTypeOK
    <3>4. ret' = "SEQUENCE_ERROR"
      BY <1>3, <2>3, <2>8 DEF Return
    <3> QED BY <2>1, <3>1, <3>2, <3>3, <3>4 DEF CameBack, NothingAsked
  <2> QED BY <2>6, <2>7, <2>8
<1>4. CASE UNCHANGED allVars
  BY <1>4 DEF allVars, fvars, vars, hist, rle, coder, caller, CameBack, Expected, NothingAsked,
     Unfinished, isempty_RL, numZ
<1>5. CASE \/ WriteOpen \/ BzOpen \/ BuffCompress \/ BuffFinished
           \/ WriteOpenInit \/ WriteOpened \/ Misuse \/ HandleFails
           \/ \E n \in 0..MaxIn : Write(n)
           \/ \E o \in Closes : CloseCall(o)
           \/ Compressed \/ FwriteFails \/ Fflush \/ CloseEnds \/ Failed
  BY <1>5, CallsBegin
<1> QED BY <1>1, <1>2, <1>3, <1>4, <1>5 DEF FNext

-----------------------------------------------------------------------------
(* The inductive invariant *)

(* Before the first BZFILE. *)
LEMMA FInitHolds == FInit => FIInv
<1> SUFFICES ASSUME FInit PROVE FIInv
  OBVIOUS
<1>1. IInv
  BY InitHolds DEF FInit
<1>2. /\ bzf = FALSE /\ lastErr = "OK" /\ owned = FALSE /\ ferr = FALSE
      /\ fpc = "user" /\ op = "none" /\ file = <<>> /\ synced = TRUE /\ given = 0 /\ lost = FALSE
      /\ open = FALSE /\ pc = "caller"
  BY DEF FInit, Init
<1>3. FTypeOK
  <2>1. file \in Seq(Unit)
    BY <1>2, EmptySeq
  <2>2. fpc \in DOMAIN Ops /\ op \in Ops[fpc]
    BY <1>2, OpsAt
  <2>3. given \in 0..MaxIn
    BY <1>2
  <2>4. lastErr \in Returns \union {"IO_ERROR", "OUTBUFF_FULL"}
    BY <1>2 DEF Returns
  <2> QED BY <1>2, <2>1, <2>2, <2>3, <2>4 DEF FTypeOK
<1>4. FWhere /\ Handed /\ Moving /\ CameBack /\ Filed
  BY <1>2 DEF FWhere, Handed, Moving, CameBack, Filed, Completing
<1> QED BY <1>1, <1>3, <1>4 DEF FIInv

(* Every step of the layer, or of the stream within a call, keeps it. *)
LEMMA FStepHolds == FIInv /\ [FNext]_allVars => FIInv'
  BY StreamKept, FTypeStep, FWhereStep, HandedStep, MovingStep, CameBackStep, FiledStep DEF FIInv

(* The layer and the stream beneath it keep the invariant: in particular   *)
(* everything that BZCompress promises of a stream holds for one that is   *)
(* driven by BZ2_bzWrite, BZ2_bzWriteClose64 or BZ2_bzBuffToBuffCompress.  *)
THEOREM WriteInvariance == FSpec => []FIInv
<1> QED BY FInitHolds, FStepHolds, PTL DEF FSpec

(* The layer never asks BZ2_bzCompress for something out of sequence or    *)
(* without effect: with BZ_RUN there is input, BZ_FINISH has the avail_in  *)
(* it promised, and each time there is room to make progress.              *)
THEOREM CallsAgree == FSpec => []StreamAgrees
<1>1. FIInv => StreamAgrees
  BY DEF FIInv, CameBack, StreamAgrees
<1> QED BY WriteInvariance, <1>1, PTL

(* Whatever fwrite takes, and wherever it fails, the file is a prefix of   *)
(* the compressed stream; without a failure it has all that was delivered. *)
THEOREM FileHasPrefix == FSpec => []FileIsPrefix
<1>1. FIInv => FileIsPrefix
  <2> SUFFICES ASSUME FIInv, bzf, open
               PROVE  /\ Len(file) <= Len(sent) /\ file = SubSeq(sent, 1, Len(file))
                      /\ ~ferr /\ fpc \in {"user", "loop", "flush"} => file = sent
    BY DEF FileIsPrefix
  <2>1. Len(file) <= Len(sent) /\ file = SubSeq(sent, 1, Len(file))
    BY DEF FIInv, Filed
  <2>2. ~ferr /\ fpc \in {"user", "loop", "flush"} => Len(file) = Len(sent)
    BY DEF FIInv, Filed
  <2>3. SubSeq(sent, 1, Len(sent)) = sent
    BY SubSeqFull DEF FIInv, IInv, TypeOK
  <2> QED BY <2>1, <2>2, <2>3
<1> QED BY WriteInvariance, <1>1, PTL

(* A close that reports BZ_OK leaves the whole stream, of all that was     *)
(* written, in the file and flushed; a buffer that is reported as full is  *)
(* too small; and no FILE of BZ2_bzopen is left behind without a BZFILE.   *)
THEOREM CloseCompletes == FSpec => []CloseIsComplete
<1>1. ASSUME FIInv, Completing
      PROVE  AllWritten /\ IF op = "buff" THEN sent = written ELSE file = written /\ synced
  <2>1. mode = "IDLE" /\ availIn = 0 /\ fpc = "end" /\ op \in {"buff", "close", "bzclose"}
    BY <1>1, OpsAt DEF FIInv, Handed, Completing, FTypeOK
  <2>2. open /\ (op # "buff" => bzf)
    BY <1>1, <2>1 DEF FIInv, FWhere
  <2>3. TrailerWritten /\ sent = written /\ isempty_RL
    BY <1>1, <2>1, <2>2, EndIsWhole DEF FIInv, StreamEndComplete
  <2>4. Len(consumed) = given
    <3>1. given = Len(consumed) + availIn /\ Len(consumed) \in Nat
      BY <1>1, <2>1, <2>2, LenProperties DEF FIInv, Handed, IInv, TypeOK
    <3> QED BY <2>1, <3>1
  <2>5. op # "buff" => file = sent /\ synced
    <3>1. SubSeq(sent, 1, Len(sent)) = sent
      BY <1>1, SubSeqFull DEF FIInv, IInv, TypeOK
    <3> QED BY <1>1, <2>2, <3>1 DEF FIInv, Filed
  <2> QED BY <2>3, <2>4, <2>5 DEF AllWritten
<1>2. ASSUME FIInv, fpc = "end", lastErr = "OUTBUFF_FULL"
      PROVE  availOut = 0 /\ (AllWritten => sent # written)
  <2>1. op = "buff" /\ open /\ mode = "FINISHING" /\ Unfinished /\ availOut = 0
    BY <1>2 DEF FIInv, FWhere, Handed
  <2>2. ASSUME AllWritten PROVE sent # written
    <3>1. hold = <<>> /\ expect = 0 /\ isempty_RL
      BY <1>2, <2>2 DEF AllWritten, FIInv, IInv, TrailerLast, AllDone
    <3>2. pos < numZ /\ pos \in Nat /\ numZ \in Nat
      BY <1>2, <2>1, <3>1, LenProperties DEF Unfinished, FIInv, IInv, TypeOK, numZ
    <3>3. Pending \in Seq(Unit) /\ Len(Pending) # 0
      <4>1. zbits \in Seq(Unit) /\ \A i \in 1..Len(zbits) : zbits[i] \in Unit
        BY <1>2, ElementOfSeq DEF FIInv, IInv, TypeOK
      <4>2. pos + 1 <= numZ /\ Len(Pending) = numZ - (pos + 1) + 1 /\ Pending \in Seq(Unit)
        BY <3>2, <4>1, SubSeqProperties DEF Pending, numZ
      <4> QED BY <3>2, <4>2
    <3>4. sent \in Seq(Unit) /\ sent \o Pending \o <<>> = written
      BY <1>2, <2>1, <3>1 DEF FIInv, IInv, NoByteLost, Unwritten, TypeOK
    <3>5. Len(written) = Len(sent) + Len(Pending)
      BY <3>3, <3>4, ConcatProperties, ConcatEmptySeq
    <3>6. Len(sent) \in Nat /\ Len(Pending) \in Nat
      BY <3>3, <3>4, LenProperties
    <3>7. Len(written) # Len(sent)
      BY <3>3, <3>5, <3>6
    <3> QED BY <3>7
  <2> QED BY <2>1, <2>2
<1>3. FIInv => CloseIsComplete
  BY <1>1, <1>2 DEF CloseIsComplete, FIInv, FWhere
<1> QED BY WriteInvariance, <1>3, PTL

=============================================================================
