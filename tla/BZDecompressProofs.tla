------------------------- MODULE BZDecompressProofs -------------------------
(***************************************************************************)
(* The safety of the decompression stream for every value of the           *)
(* constants: the bit buffer neither overflows nor loses a bit, the        *)
(* push-back at the end of the stream stays inside the caller's buffer.    *)
(***************************************************************************)
EXTENDS BZDecompress, CommonLemmas, TLAPS

USE CounterAssumption, WidthAssumption, OfferAssumption, BoundAssumption

(* The counters stay in their range when bytes are counted or given back. *)
LEMMA CounterRange ==
  ASSUME NEW t \in Counter, NEW n \in Nat
  PROVE  CountUp(t, n) \in Counter /\ CountDown(t, n) \in Counter
  BY DEF Counter, CountUp, CountDown

(* A new stream has counted nothing. *)
LEMMA ZeroCounter == Zero \in Counter
  BY DEF Zero, Counter

(* What a block is stored in is some of what a stream may hold. *)
LEMMA TablesHeld == Tables \subseteq Allocations
  BY DEF Tables, Allocations

(* The fields of Chain: their labels and where they lead. *)
LEMMA ChainFacts ==
  ASSUME NEW st \in DOMAIN Chain
  PROVE  /\ st \in Labels \ {"BODY", "MAGIC_4", "BLKHDR_1", "BLKHDR_6", "BCRC_4",
                             "ORIGPTR_3", "CCRC_4"}
         /\ Chain[st].next \in Labels \ {"BODY", "BLKHDR_1", "BCRC_1", "RANDBIT",
                                         "MAGIC_1", "ENDHDR_2", "BLKHDR_2"}
         /\ Chain[st].next \in InBlock <=> st \in InBlock
         /\ Chain[st].next \in Magic <=> st \in Magic
         /\ Chain[st].next \in Trailer <=> st \in Trailer
         /\ st \in Trailer => TrailerRead[Chain[st].next] = TrailerRead[st] + 1
         /\ Chain[st].bad \in {"none", "DATA_ERROR", "DATA_ERROR_MAGIC"}
  BY DEF Chain, Labels, InBlock, Magic, Trailer, TrailerRead

(* The bits left after the last field are whole bytes and fewer than eight *)
(* that are dropped.                                                       *)
LEMMA ExcessFacts ==
  ASSUME bsLive \in 8..64
  PROVE  Excess \in 0..7 /\ bsLive - 8 - 8 * Excess \in 0..7
  BY DEF Excess

(* Every step keeps the types: the bit buffer stays within its 64 bits, the *)
(* counters within 32.                                                     *)
LEMMA TypeStep == TypeOK /\ [Next]_vars => TypeOK'
<1> SUFFICES ASSUME TypeOK, [Next]_vars PROVE TypeOK'
  OBVIOUS
<1>1. CASE DecompressInit
  BY <1>1, ZeroCounter DEF Allocations, DecompressInit, TypeOK, States, Labels, Returns
<1>2. CASE DecompressInitFails
  BY <1>2 DEF DecompressInitFails, strm, blk, hist, TypeOK, Returns
<1>3. CASE DecompressEnd
  <2>1. /\ open' \in BOOLEAN /\ small' \in BOOLEAN /\ crcGood' \in BOOLEAN
        /\ state' \in States /\ ret' \in Returns /\ pc' \in {"caller", "parse", "output"}
    BY <1>3 DEF DecompressEnd, States, Returns
  <2>2. /\ live' \subseteq Allocations
        /\ want' \in 1..20 /\ bsLive' \in 0..64 /\ availIn' \in Nat /\ availOut' \in Nat
        /\ totalIn' \in Counter /\ totalOut' \in Counter
        /\ body' \in Nat /\ blocks' \in Nat /\ outLeft' \in Nat /\ combined' \in Nat
        /\ entryIn' \in Nat /\ bytesIn' \in Int /\ bytesOut' \in Nat
        /\ bitsUsed' \in Nat /\ pad' \in Nat
    BY <1>3 DEF DecompressEnd, strm, TypeOK
  <2> QED BY <2>1, <2>2 DEF TypeOK
<1>4. CASE NoState
  BY <1>4 DEF NoState, strm, blk, hist, TypeOK, Returns
<1>5. CASE \E n \in Chunks, m \in Rooms : Call(n, m)
  BY <1>5 DEF Call, blk, TypeOK, Returns
<1>6. CASE RefillWord
  BY <1>6, CounterRange DEF RefillWord, TakeIn, blk, TypeOK
<1>7. CASE RefillByte
  BY <1>7, CounterRange DEF RefillByte, Starving, TakeIn, blk, TypeOK
<1>8. CASE NeedInput
  BY <1>8 DEF NeedInput, Return, strm, blk, hist, TypeOK, Returns
<1>9. CASE TakeChain
  BY <1>9, ChainFacts DEF TakeChain, At, TakeBits, Goto, Fail, Return, Fields, strm, blk,
     TypeOK, States, Returns, Width
<1>10. CASE TakeMagic4
  BY <1>10, TablesHeld DEF TakeMagic4, At, TakeBits, Goto, Fail, Return, Fields, strm,
     blk, TypeOK, States, Labels, Returns
<1>11. CASE TakeBlkhdr1
  BY <1>11 DEF TakeBlkhdr1, At, TakeBits, Goto, Fail, Return, Fields, strm, blk, TypeOK,
     States, Labels, Returns
<1>12. CASE TakeBlkhdr6
  BY <1>12 DEF TakeBlkhdr6, At, TakeBits, Goto, Fail, Return, Fields, strm, TypeOK,
     States, Labels, Returns
<1>13. CASE TakeBcrc4
  BY <1>13 DEF TakeBcrc4, At, TakeBits, Goto, Fields, strm, TypeOK, States, Labels
<1>14. CASE TakeOrigPtr3
  BY <1>14 DEF TakeOrigPtr3, At, TakeBits, Goto, Fail, Return, Fields, strm, TypeOK,
     States, Labels, Returns
<1>15. CASE TakeBody
  BY <1>15 DEF TakeBody, BodyContinues, At, TakeBits, Goto, Fail, Return, Fields, strm,
     TypeOK, States, Returns
<1>16. CASE RefillAhead
  BY <1>16, CounterRange DEF RefillAhead, TakeIn, blk, TypeOK
<1>17. CASE FastSymbol
  BY <1>17 DEF FastSymbol, BodyContinues, TakeBits, Goto, Fail, Return, Fields, strm,
     TypeOK, States, Returns
<1>18. CASE TakeCcrc4
  BY <1>18, CounterRange DEF TakeCcrc4, Excess, Return, blk, TypeOK, States, Returns
<1>19. CASE OutputStops
  BY <1>19, CounterRange DEF OutputStops, Deliver, Return, TypeOK, Returns
<1>20. CASE OutputEnds
  <2>1. outLeft \in Nat /\ availOut' \in Nat /\ outLeft' \in Nat /\ bytesOut' \in Nat
        /\ totalOut' \in Counter
    BY <1>20, CounterRange DEF OutputEnds, Deliver, TypeOK
  <2>2. /\ state' \in States /\ want' \in 1..20 /\ pc' \in {"caller", "parse", "output"}
        /\ ret' \in Returns /\ combined' \in Nat
    BY <1>20 DEF OutputEnds, Fail, Return, TypeOK, States, Labels, Returns
  <2> QED BY <1>20, <2>1, <2>2 DEF OutputEnds, TypeOK
<1>21. CASE OutputCorrupt
  BY <1>21, CounterRange DEF OutputCorrupt, Deliver, Fail, Return, TypeOK, Returns
<1>22. CASE UNCHANGED vars
  BY <1>22 DEF vars, strm, blk, hist, TypeOK
<1> QED BY <1>1, <1>2, <1>3, <1>4, <1>5, <1>6, <1>7, <1>8, <1>9, <1>10, <1>11, <1>12,
           <1>13, <1>14, <1>15, <1>16, <1>17, <1>18, <1>19, <1>20, <1>21, <1>22 DEF Next,
           Library, Parse

(* The program counter and the label of the parser agree. *)
LEMMA WhereStep == TypeOK /\ Where /\ [Next]_vars => Where'
<1> SUFFICES ASSUME TypeOK, Where, [Next]_vars PROVE Where'
  OBVIOUS
<1>1. CASE DecompressInit
  BY <1>1 DEF DecompressInit, Where, Width
<1>2. CASE DecompressInitFails
  BY <1>2 DEF DecompressInitFails, Where
<1>3. CASE DecompressEnd
  BY <1>3 DEF DecompressEnd, Where, Labels
<1>4. CASE NoState
  BY <1>4 DEF NoState, Where
<1>5. CASE \E n \in Chunks, m \in Rooms : Call(n, m)
  BY <1>5 DEF Call, blk, TypeOK, Where, States
<1>6. CASE RefillWord
  BY <1>6 DEF RefillWord, blk, Where
<1>7. CASE RefillByte
  BY <1>7 DEF RefillByte, blk, Where
<1>8. CASE NeedInput
  BY <1>8 DEF NeedInput, Return, blk, hist, Where
<1>9. CASE TakeChain
  BY <1>9, ChainFacts DEF TakeChain, Goto, Fail, Return, Fields, blk, Where, Labels
<1>10. CASE TakeMagic4
  BY <1>10 DEF TakeMagic4, At, Goto, Fail, Return, Fields, blk, Where, Labels, Width
<1>11. CASE TakeBlkhdr1
  BY <1>11 DEF TakeBlkhdr1, At, Goto, Fail, Return, Fields, blk, Where, Labels, Width
<1>12. CASE TakeBlkhdr6
  BY <1>12 DEF TakeBlkhdr6, At, Goto, Fail, Return, Fields, Where, Labels, Width
<1>13. CASE TakeBcrc4
  BY <1>13 DEF TakeBcrc4, At, Goto, Fields, Where, Labels, Width
<1>14. CASE TakeOrigPtr3
  BY <1>14 DEF TakeOrigPtr3, At, Goto, Fail, Return, Fields, Where, Labels
<1>15. CASE TakeBody
  BY <1>15 DEF TakeBody, BodyContinues, At, Goto, Fail, Return, Fields, Where, Labels
<1>16. CASE RefillAhead
  BY <1>16 DEF RefillAhead, blk, Where
<1>17. CASE FastSymbol
  BY <1>17 DEF FastSymbol, BodyContinues, Goto, Fail, Return, Fields, Where, Labels
<1>18. CASE TakeCcrc4
  BY <1>18 DEF TakeCcrc4, Return, blk, Where, Labels
<1>19. CASE OutputStops
  BY <1>19 DEF OutputStops, Return, Where
<1>20. CASE OutputEnds
  BY <1>20 DEF OutputEnds, Deliver, Fail, Return, TypeOK, Where, Labels, Width
<1>21. CASE OutputCorrupt
  BY <1>21 DEF OutputCorrupt, Fail, Return, Where
<1>22. CASE UNCHANGED vars
  BY <1>22 DEF vars, blk, hist, Where
<1> QED BY <1>1, <1>2, <1>3, <1>4, <1>5, <1>6, <1>7, <1>8, <1>9, <1>10, <1>11, <1>12,
           <1>13, <1>14, <1>15, <1>16, <1>17, <1>18, <1>19, <1>20, <1>21, <1>22 DEF Next,
           Library, Parse

(* No step loses or duplicates a bit: a refill adds what it takes from     *)
(* next_in, a GET_BITS counts what it drops, the push-back gives back.     *)
LEMMA BitsStep == TypeOK /\ Where /\ BitsConserved /\ [Next]_vars => BitsConserved'
<1> SUFFICES ASSUME TypeOK, Where, BitsConserved, [Next]_vars PROVE BitsConserved'
  OBVIOUS
<1>1. CASE DecompressInit
  BY <1>1 DEF DecompressInit, BitsConserved
<1>2. CASE DecompressInitFails
  BY <1>2 DEF DecompressInitFails, hist, BitsConserved
<1>3. CASE DecompressEnd
  BY <1>3 DEF DecompressEnd, BitsConserved
<1>4. CASE NoState
  BY <1>4 DEF NoState, hist, BitsConserved
<1>5. CASE \E n \in Chunks, m \in Rooms : Call(n, m)
  BY <1>5 DEF Call, BitsConserved
<1>6. CASE RefillWord
  BY <1>6 DEF RefillWord, TakeIn, TypeOK, BitsConserved
<1>7. CASE RefillByte
  BY <1>7 DEF RefillByte, TakeIn, TypeOK, BitsConserved
<1>8. CASE NeedInput
  BY <1>8 DEF NeedInput, hist, BitsConserved
<1>9. CASE TakeChain
  BY <1>9 DEF TakeChain, At, TakeBits, Fields, TypeOK, BitsConserved
<1>10. CASE TakeMagic4
  BY <1>10 DEF TakeMagic4, At, TakeBits, Fields, TypeOK, BitsConserved
<1>11. CASE TakeBlkhdr1
  BY <1>11 DEF TakeBlkhdr1, At, TakeBits, Fields, TypeOK, BitsConserved
<1>12. CASE TakeBlkhdr6
  BY <1>12 DEF TakeBlkhdr6, At, TakeBits, Fields, TypeOK, BitsConserved
<1>13. CASE TakeBcrc4
  BY <1>13 DEF TakeBcrc4, At, TakeBits, Fields, TypeOK, BitsConserved
<1>14. CASE TakeOrigPtr3
  BY <1>14 DEF TakeOrigPtr3, At, TakeBits, Fields, TypeOK, BitsConserved
<1>15. CASE TakeBody
  BY <1>15 DEF TakeBody, At, TakeBits, Fields, TypeOK, BitsConserved
<1>16. CASE RefillAhead
  BY <1>16 DEF RefillAhead, TakeIn, TypeOK, BitsConserved
<1>17. CASE FastSymbol
  BY <1>17 DEF FastSymbol, TakeBits, Fields, TypeOK, BitsConserved
<1>18. CASE TakeCcrc4
  BY <1>18, ExcessFacts DEF Where, TakeCcrc4, TypeOK, BitsConserved
<1>19. CASE OutputStops
  BY <1>19 DEF OutputStops, BitsConserved
<1>20. CASE OutputEnds
  BY <1>20 DEF OutputEnds, BitsConserved
<1>21. CASE OutputCorrupt
  BY <1>21 DEF OutputCorrupt, BitsConserved
<1>22. CASE UNCHANGED vars
  BY <1>22 DEF vars, hist, BitsConserved
<1> QED BY <1>1, <1>2, <1>3, <1>4, <1>5, <1>6, <1>7, <1>8, <1>9, <1>10, <1>11, <1>12,
           <1>13, <1>14, <1>15, <1>16, <1>17, <1>18, <1>19, <1>20, <1>21, <1>22 DEF Next,
           Library, Parse

(* Past the stream header the tables are allocated, and the DState goes    *)
(* with them.                                                              *)
LEMMA MemoryStep == TypeOK /\ Where /\ Memory /\ [Next]_vars => Memory'
<1> SUFFICES ASSUME TypeOK, Where, Memory, [Next]_vars PROVE Memory'
  OBVIOUS
<1>1. CASE DecompressInit
  BY <1>1 DEF DecompressInit, Memory, NoLeak, Magic
<1>2. CASE DecompressInitFails
  BY <1>2 DEF DecompressInitFails, Memory, NoLeak
<1>3. CASE DecompressEnd
  BY <1>3 DEF DecompressEnd, Freed, TypeOK, Allocations, Memory, NoLeak
<1>4. CASE NoState
  BY <1>4 DEF NoState, Memory, NoLeak
<1>5. CASE \E n \in Chunks, m \in Rooms : Call(n, m)
  BY <1>5 DEF Call, Memory, NoLeak, Tables
<1>6. CASE RefillWord
  BY <1>6 DEF RefillWord, Memory, NoLeak, Tables
<1>7. CASE RefillByte
  BY <1>7 DEF RefillByte, Memory, NoLeak, Tables
<1>8. CASE NeedInput
  BY <1>8 DEF NeedInput, Memory, NoLeak, Tables
<1>9. CASE TakeChain
  BY <1>9, ChainFacts DEF TakeChain, Goto, Fail, Fields, Memory, NoLeak, Tables, Labels
<1>10. CASE TakeMagic4
  BY <1>10 DEF TakeMagic4, At, Fail, Fields, Memory, NoLeak, Where, Tables
<1>11. CASE TakeBlkhdr1
  BY <1>11 DEF TakeBlkhdr1, At, Fields, Memory, NoLeak, Magic, Tables
<1>12. CASE TakeBlkhdr6
  BY <1>12 DEF TakeBlkhdr6, At, Fields, Memory, NoLeak, Magic, Tables
<1>13. CASE TakeBcrc4
  BY <1>13 DEF TakeBcrc4, At, Fields, Memory, NoLeak, Magic, Tables
<1>14. CASE TakeOrigPtr3
  BY <1>14 DEF TakeOrigPtr3, At, Fields, Memory, NoLeak, Magic, Tables
<1>15. CASE TakeBody
  BY <1>15 DEF TakeBody, At, Fields, Memory, NoLeak, Magic, Tables
<1>16. CASE RefillAhead
  BY <1>16 DEF RefillAhead, Memory, NoLeak, Tables
<1>17. CASE FastSymbol
  BY <1>17 DEF FastSymbol, Fields, Memory, NoLeak, Magic, Tables
<1>18. CASE TakeCcrc4
  BY <1>18 DEF TakeCcrc4, Memory, NoLeak
<1>19. CASE OutputStops
  BY <1>19 DEF OutputStops, Memory, NoLeak, Tables
<1>20. CASE OutputEnds
  BY <1>20 DEF OutputEnds, Memory, NoLeak, Where, Magic, Tables
<1>21. CASE OutputCorrupt
  BY <1>21 DEF OutputCorrupt, Fail, Memory, NoLeak, Tables
<1>22. CASE UNCHANGED vars
  BY <1>22 DEF vars, Memory, NoLeak, Tables
<1> QED BY <1>1, <1>2, <1>3, <1>4, <1>5, <1>6, <1>7, <1>8, <1>9, <1>10, <1>11, <1>12,
           <1>13, <1>14, <1>15, <1>16, <1>17, <1>18, <1>19, <1>20, <1>21, <1>22 DEF Next,
           Library, Parse

(* Each block's CRC enters the combined CRC once, after its last byte.     *)
LEMMA CheckedStep == TypeOK /\ Where /\ Checked /\ [Next]_vars => Checked'
<1> SUFFICES ASSUME TypeOK, Where, Checked, [Next]_vars PROVE Checked'
  OBVIOUS
<1>1. CASE DecompressInit
  BY <1>1 DEF DecompressInit, Checked, InBlock
<1>2. CASE DecompressInitFails
  BY <1>2 DEF DecompressInitFails, Checked
<1>3. CASE DecompressEnd
  BY <1>3 DEF DecompressEnd, Checked
<1>4. CASE NoState
  BY <1>4 DEF NoState, Checked
<1>5. CASE \E n \in Chunks, m \in Rooms : Call(n, m)
  BY <1>5 DEF Call, blk, Checked
<1>6. CASE RefillWord
  BY <1>6 DEF RefillWord, blk, Checked
<1>7. CASE RefillByte
  BY <1>7 DEF RefillByte, blk, Checked
<1>8. CASE NeedInput
  BY <1>8 DEF NeedInput, Return, blk, Checked
<1>9. CASE TakeChain
  BY <1>9, ChainFacts DEF TakeChain, Goto, Fail, Return, Fields, blk, Checked, Labels
<1>10. CASE TakeMagic4
  BY <1>10 DEF TakeMagic4, At, Goto, Fail, Return, Fields, blk, Checked, InBlock
<1>11. CASE TakeBlkhdr1
  BY <1>11 DEF TakeBlkhdr1, At, Goto, Fail, Return, Fields, blk, Checked, InBlock
<1>12. CASE TakeBlkhdr6
  BY <1>12 DEF TakeBlkhdr6, At, Goto, Fail, Return, Fields, TypeOK, Checked, InBlock
<1>13. CASE TakeBcrc4
  BY <1>13 DEF TakeBcrc4, At, Goto, Fields, Checked, InBlock
<1>14. CASE TakeOrigPtr3
  BY <1>14 DEF TakeOrigPtr3, At, Goto, Fail, Return, Fields, Checked, InBlock
<1>15. CASE TakeBody
  BY <1>15 DEF TakeBody, BodyContinues, At, Goto, Fail, Return, Fields, Checked, InBlock
<1>16. CASE RefillAhead
  BY <1>16 DEF RefillAhead, blk, Checked
<1>17. CASE FastSymbol
  BY <1>17 DEF FastSymbol, BodyContinues, Goto, Fail, Return, Fields, Checked, InBlock
<1>18. CASE TakeCcrc4
  BY <1>18 DEF TakeCcrc4, blk, Checked, InBlock
<1>19. CASE OutputStops
  BY <1>19 DEF OutputStops, Return, Checked
<1>20. CASE OutputEnds
  BY <1>20 DEF OutputEnds, Fail, Return, TypeOK, Checked, Where, InBlock
<1>21. CASE OutputCorrupt
  BY <1>21 DEF OutputCorrupt, Fail, Return, Checked
<1>22. CASE UNCHANGED vars
  BY <1>22 DEF vars, blk, Checked
<1> QED BY <1>1, <1>2, <1>3, <1>4, <1>5, <1>6, <1>7, <1>8, <1>9, <1>10, <1>11, <1>12,
           <1>13, <1>14, <1>15, <1>16, <1>17, <1>18, <1>19, <1>20, <1>21, <1>22 DEF Next,
           Library, Parse

(* A call that did not fail leaves less than a field in the bit buffer.    *)
LEMMA WaitingStep == TypeOK /\ Where /\ Waiting /\ [Next]_vars => Waiting'
<1> SUFFICES ASSUME TypeOK, Where, Waiting, [Next]_vars PROVE Waiting'
  OBVIOUS
<1>1. CASE DecompressInit
  BY <1>1 DEF DecompressInit, Waiting
<1>2. CASE DecompressInitFails
  BY <1>2 DEF DecompressInitFails, Waiting
<1>3. CASE DecompressEnd
  BY <1>3 DEF DecompressEnd, Waiting
<1>4. CASE NoState
  BY <1>4 DEF NoState, Waiting
<1>5. CASE \E n \in Chunks, m \in Rooms : Call(n, m)
  BY <1>5 DEF Call, Waiting
<1>6. CASE RefillWord
  BY <1>6 DEF RefillWord, Starving, Waiting
<1>7. CASE RefillByte
  BY <1>7 DEF RefillByte, Starving, Waiting
<1>8. CASE NeedInput
  BY <1>8 DEF NeedInput, Starving, Waiting
<1>9. CASE TakeChain
  BY <1>9, ChainFacts DEF TakeChain, At, Goto, Fail, Return, Waiting
<1>10. CASE TakeMagic4
  BY <1>10 DEF TakeMagic4, At, Goto, Fail, Return, Waiting
<1>11. CASE TakeBlkhdr1
  BY <1>11 DEF TakeBlkhdr1, At, Goto, Fail, Return, Waiting
<1>12. CASE TakeBlkhdr6
  BY <1>12 DEF TakeBlkhdr6, At, Goto, Fail, Return, Waiting
<1>13. CASE TakeBcrc4
  BY <1>13 DEF TakeBcrc4, At, Goto, Waiting
<1>14. CASE TakeOrigPtr3
  BY <1>14 DEF TakeOrigPtr3, At, Goto, Fail, Return, Waiting
<1>15. CASE TakeBody
  BY <1>15 DEF TakeBody, BodyContinues, At, Goto, Fail, Return, Waiting
<1>16. CASE RefillAhead
  BY <1>16 DEF RefillAhead, Waiting
<1>17. CASE FastSymbol
  BY <1>17 DEF FastSymbol, BodyContinues, Goto, Fail, Return, Waiting
<1>18. CASE TakeCcrc4
  BY <1>18 DEF TakeCcrc4, Waiting, TypeOK
<1>19. CASE OutputStops
  BY <1>19 DEF OutputStops, Waiting, Where, Labels
<1>20. CASE OutputEnds
  BY <1>20 DEF OutputEnds, Fail, Return, Waiting
<1>21. CASE OutputCorrupt
  BY <1>21 DEF OutputCorrupt, Fail, Return, Waiting
<1>22. CASE UNCHANGED vars
  BY <1>22 DEF vars, Waiting
<1> QED BY <1>1, <1>2, <1>3, <1>4, <1>5, <1>6, <1>7, <1>8, <1>9, <1>10, <1>11, <1>12,
           <1>13, <1>14, <1>15, <1>16, <1>17, <1>18, <1>19, <1>20, <1>21, <1>22 DEF Next,
           Library, Parse

(* What is in the buffer at a field of the trailer was taken in this call, *)
(* but for the bits of a starved field and of one full buffer.             *)
LEMMA CarriedStep ==
  TypeOK /\ Where /\ Waiting /\ PushBackSafe /\ CarriedBits /\ [Next]_vars => CarriedBits'
<1> SUFFICES ASSUME TypeOK, Where, Waiting, PushBackSafe, CarriedBits, [Next]_vars
             PROVE  CarriedBits'
  OBVIOUS
<1>1. CASE DecompressInit
  BY <1>1 DEF DecompressInit, CarriedBits, Trailer, TrailerRead
<1>2. CASE DecompressInitFails
  BY <1>2 DEF DecompressInitFails, CarriedBits
<1>3. CASE DecompressEnd
  BY <1>3 DEF DecompressEnd, CarriedBits
<1>4. CASE NoState
  BY <1>4 DEF NoState, CarriedBits
<1>5. CASE \E n \in Chunks, m \in Rooms : Call(n, m)
  BY <1>5 DEF Call, CarriedBits, Waiting, Taken, Trailer, TrailerRead, TypeOK, Where,
     Labels, Width
<1>6. CASE RefillWord
  BY <1>6 DEF RefillWord, TakeIn, CarriedBits, Taken, Trailer, TrailerRead, TypeOK
<1>7. CASE RefillByte
  BY <1>7 DEF RefillByte, TakeIn, CarriedBits, Taken, Trailer, TrailerRead, TypeOK
<1>8. CASE NeedInput
  BY <1>8 DEF NeedInput, strm, hist, CarriedBits, Taken
<1>9. CASE TakeChain
  BY <1>9, ChainFacts DEF TakeChain, At, TakeBits, Goto, Fail, Fields, strm, CarriedBits,
     Taken, Trailer, TrailerRead, TypeOK, Where, Width
<1>10. CASE TakeMagic4
  BY <1>10 DEF TakeMagic4, At, Goto, Fail, CarriedBits, Trailer, TrailerRead
<1>11. CASE TakeBlkhdr1
  BY <1>11 DEF TakeBlkhdr1, At, TakeBits, Goto, Fail, Fields, strm, CarriedBits, Taken,
     Trailer, TrailerRead, PushBackSafe, TypeOK, Where, Width
<1>12. CASE TakeBlkhdr6
  BY <1>12 DEF TakeBlkhdr6, At, Goto, Fail, CarriedBits, Trailer, TrailerRead
<1>13. CASE TakeBcrc4
  BY <1>13 DEF TakeBcrc4, Goto, CarriedBits, Trailer, TrailerRead
<1>14. CASE TakeOrigPtr3
  BY <1>14 DEF TakeOrigPtr3, At, Goto, Fail, CarriedBits, Trailer, TrailerRead
<1>15. CASE TakeBody
  BY <1>15 DEF TakeBody, BodyContinues, At, Goto, Fail, CarriedBits, Trailer, TrailerRead
<1>16. CASE RefillAhead
  BY <1>16 DEF RefillAhead, CarriedBits, Trailer, TrailerRead
<1>17. CASE FastSymbol
  BY <1>17 DEF FastSymbol, BodyContinues, Goto, Fail, CarriedBits, Trailer, TrailerRead
<1>18. CASE TakeCcrc4
  BY <1>18 DEF TakeCcrc4, CarriedBits, Trailer, TrailerRead
<1>19. CASE OutputStops
  BY <1>19 DEF OutputStops, CarriedBits, Taken
<1>20. CASE OutputEnds
  BY <1>20 DEF OutputEnds, Fail, CarriedBits, Taken, Trailer, TrailerRead
<1>21. CASE OutputCorrupt
  BY <1>21 DEF OutputCorrupt, Fail, CarriedBits, Taken
<1>22. CASE UNCHANGED vars
  BY <1>22 DEF vars, strm, hist, CarriedBits, Taken
<1> QED BY <1>1, <1>2, <1>3, <1>4, <1>5, <1>6, <1>7, <1>8, <1>9, <1>10, <1>11, <1>12,
           <1>13, <1>14, <1>15, <1>16, <1>17, <1>18, <1>19, <1>20, <1>21, <1>22 DEF Next,
           Library, Parse

(* The push-back returns no more than this call took.                     *)
LEMMA PushBackStep ==
  TypeOK /\ Where /\ BitsConserved /\ CarriedBits /\ PushBackSafe /\ [Next]_vars => PushBackSafe'
<1> SUFFICES ASSUME TypeOK, Where, BitsConserved, CarriedBits, PushBackSafe, [Next]_vars
             PROVE  PushBackSafe'
  OBVIOUS
<1>1. CASE DecompressInit
  BY <1>1 DEF DecompressInit, PushBackSafe
<1>2. CASE DecompressInitFails
  BY <1>2 DEF DecompressInitFails, strm, hist, PushBackSafe
<1>3. CASE DecompressEnd
  BY <1>3 DEF DecompressEnd, strm, PushBackSafe
<1>4. CASE NoState
  BY <1>4 DEF NoState, strm, hist, PushBackSafe
<1>5. CASE \E n \in Chunks, m \in Rooms : Call(n, m)
  BY <1>5 DEF Call, PushBackSafe
<1>6. CASE RefillWord
  BY <1>6 DEF RefillWord, TakeIn, PushBackSafe, TypeOK
<1>7. CASE RefillByte
  BY <1>7 DEF RefillByte, TakeIn, PushBackSafe, TypeOK
<1>8. CASE NeedInput
  BY <1>8 DEF NeedInput, strm, hist, PushBackSafe
<1>9. CASE TakeChain
  BY <1>9 DEF TakeChain, Fields, strm, PushBackSafe
<1>10. CASE TakeMagic4
  BY <1>10 DEF TakeMagic4, Fields, strm, PushBackSafe
<1>11. CASE TakeBlkhdr1
  BY <1>11 DEF TakeBlkhdr1, Fields, strm, PushBackSafe
<1>12. CASE TakeBlkhdr6
  BY <1>12 DEF TakeBlkhdr6, Fields, strm, PushBackSafe
<1>13. CASE TakeBcrc4
  BY <1>13 DEF TakeBcrc4, Fields, strm, PushBackSafe
<1>14. CASE TakeOrigPtr3
  BY <1>14 DEF TakeOrigPtr3, Fields, strm, PushBackSafe
<1>15. CASE TakeBody
  BY <1>15 DEF TakeBody, Fields, strm, PushBackSafe
<1>16. CASE RefillAhead
  BY <1>16 DEF RefillAhead, TakeIn, PushBackSafe, TypeOK
<1>17. CASE FastSymbol
  BY <1>17 DEF FastSymbol, Fields, strm, PushBackSafe
<1>18. CASE TakeCcrc4
  BY <1>18, ExcessFacts DEF CarriedBits, Where, BitsConserved, Trailer, Taken,
     TrailerRead, TakeCcrc4, PushBackSafe, TypeOK
<1>19. CASE OutputStops
  BY <1>19 DEF OutputStops, PushBackSafe
<1>20. CASE OutputEnds
  BY <1>20 DEF OutputEnds, PushBackSafe
<1>21. CASE OutputCorrupt
  BY <1>21 DEF OutputCorrupt, PushBackSafe
<1>22. CASE UNCHANGED vars
  BY <1>22 DEF vars, strm, hist, PushBackSafe
<1> QED BY <1>1, <1>2, <1>3, <1>4, <1>5, <1>6, <1>7, <1>8, <1>9, <1>10, <1>11, <1>12,
           <1>13, <1>14, <1>15, <1>16, <1>17, <1>18, <1>19, <1>20, <1>21, <1>22 DEF Next,
           Library, Parse

-----------------------------------------------------------------------------
(* The counters *)

(* No step counts a whole word: a refill is of one word of bits and stops  *)
(* at 39, and the trailer uses up what was read ahead before it.           *)
LEMMA CountingStep == TypeOK /\ Where /\ Counting /\ [Next]_vars => Counting'
<1> SUFFICES ASSUME TypeOK, Where, Counting, [Next]_vars PROVE Counting'
  OBVIOUS
<1>1. CASE DecompressInit
  BY <1>1 DEF DecompressInit, Counting, Trailer, TrailerRead
<1>2. CASE DecompressInitFails
  BY <1>2 DEF DecompressInitFails, strm, Counting
<1>3. CASE DecompressEnd
  BY <1>3 DEF DecompressEnd, strm, Counting
<1>4. CASE NoState
  BY <1>4 DEF NoState, strm, Counting
<1>5. CASE \E n \in Chunks, m \in Rooms : Call(n, m)
  BY <1>5 DEF Call, Counting
<1>6. CASE RefillWord
  BY <1>6 DEF RefillWord, Starving, TakeIn, Counting, Where, Trailer, TrailerRead, Labels,
     Width, TypeOK
<1>7. CASE RefillByte
  BY <1>7 DEF RefillByte, Starving, TakeIn, Counting, Where, Trailer, TrailerRead, Labels,
     Width, TypeOK
<1>8. CASE NeedInput
  BY <1>8 DEF NeedInput, strm, Counting
<1>9. CASE TakeChain
  <2>1. /\ state \in DOMAIN Chain /\ open' = open
        /\ bsLive >= want /\ bsLive' = bsLive - want /\ availOut' = availOut
        /\ state' = state \/ state' = Chain[state].next
    BY <1>9 DEF TakeChain, At, TakeBits, Goto, Fail, Fields, strm
  <2>2. state \in Labels /\ Chain[state].next \in Labels
    BY <2>1, ChainFacts
  <2>3. state' # "IDLE" /\ state # "IDLE"
    BY <2>1, <2>2 DEF Labels
  <2>4. CASE state \in Trailer
    <3>1. want = 8
      BY <2>2, <2>4 DEF Where, Width, Labels, Trailer, TrailerRead
    <3>2. \/ state' = state
          \/ state' \in Trailer /\ TrailerRead[state'] = TrailerRead[state] + 1
      BY <2>1, <2>4, ChainFacts
    <3>3. TrailerRead[state] \in 1..9
      BY <2>4 DEF Trailer, TrailerRead
    <3> QED BY <2>1, <2>3, <2>4, <3>1, <3>2, <3>3 DEF Counting, TypeOK
  <2>5. CASE state \notin Trailer
    <3>1. state' \notin Trailer
      BY <2>1, <2>5, ChainFacts
    <3> QED BY <2>1, <2>3, <3>1 DEF Counting
  <2> QED BY <2>4, <2>5
<1>10. CASE TakeMagic4
  BY <1>10 DEF TakeMagic4, At, Goto, Fail, Fields, strm, Counting, Trailer, TrailerRead
<1>11. CASE TakeBlkhdr1
  BY <1>11 DEF TakeBlkhdr1, At, TakeBits, Goto, Fail, Fields, strm, Counting, Trailer,
     TrailerRead, TypeOK, Where, Labels, Width
<1>12. CASE TakeBlkhdr6
  BY <1>12 DEF TakeBlkhdr6, At, Goto, Fail, Fields, strm, Counting, Trailer, TrailerRead
<1>13. CASE TakeBcrc4
  BY <1>13 DEF TakeBcrc4, Goto, Fields, strm, Counting, Trailer, TrailerRead
<1>14. CASE TakeOrigPtr3
  BY <1>14 DEF TakeOrigPtr3, At, Goto, Fail, Fields, strm, Counting, Trailer, TrailerRead
<1>15. CASE TakeBody
  BY <1>15 DEF TakeBody, BodyContinues, At, Goto, Fail, Fields, strm, Counting, Trailer,
     TrailerRead
<1>16. CASE RefillAhead
  BY <1>16 DEF RefillAhead, Counting, Trailer, TrailerRead
<1>17. CASE FastSymbol
  BY <1>17 DEF FastSymbol, BodyContinues, Goto, Fail, Fields, strm, Counting, Trailer,
     TrailerRead
<1>18. CASE TakeCcrc4
  BY <1>18 DEF TakeCcrc4, Counting, Trailer, TrailerRead
<1>19. CASE OutputStops
  BY <1>19 DEF OutputStops, Deliver, Counting, TypeOK
<1>20. CASE OutputEnds
  BY <1>20 DEF OutputEnds, Deliver, Fail, Counting, Trailer, TrailerRead, TypeOK
<1>21. CASE OutputCorrupt
  BY <1>21 DEF OutputCorrupt, Deliver, Fail, Counting, TypeOK
<1>22. CASE UNCHANGED vars
  BY <1>22 DEF vars, strm, Counting
<1> QED BY <1>1, <1>2, <1>3, <1>4, <1>5, <1>6, <1>7, <1>8, <1>9, <1>10, <1>11, <1>12,
           <1>13, <1>14, <1>15, <1>16, <1>17, <1>18, <1>19, <1>20, <1>21, <1>22 DEF Next,
           Library, Parse

(* W is the size of a word. *)
LEMMA WordSize == W \in Nat \ {0}
  OBVIOUS

(* Counting up is exact modulo W * W. *)
LEMMA CountUpExact ==
  ASSUME NEW t \in Counter, NEW N \in Int, Total(t) = N % (W * W), NEW n \in 0..W-1
  PROVE  Total(CountUp(t, n)) = (N + n) % (W * W)
  <1> DEFINE lo == t.lo
             hi == t.hi
             lo2 == (lo + n) % W
             hi2 == IF lo2 < lo THEN (hi + 1) % W ELSE hi
  <1>1. lo \in 0..W-1 /\ hi \in 0..W-1 /\ Number(W, lo, hi) = N % Numbers(W)
    BY DEF Total, Number, Numbers, Counter
  <1>2. Total(CountUp(t, n)) = Number(W, lo2, hi2)
    BY DEF Total, CountUp, Number
  <1>3. lo2 = (lo + n) % W /\ hi2 = IF lo2 < lo THEN (hi + 1) % W ELSE hi
    OBVIOUS
  <1> HIDE DEF lo, hi, lo2, hi2
  <1>4. Number(W, lo2, hi2) = (N + n) % Numbers(W)
    BY <1>1, <1>3, WordSize, CarryUp
  <1> QED BY <1>2, <1>4 DEF Numbers

(* So is counting down. *)
LEMMA CountDownExact ==
  ASSUME NEW t \in Counter, NEW N \in Int, Total(t) = N % (W * W), NEW n \in 0..W-1
  PROVE  Total(CountDown(t, n)) = (N - n) % (W * W)
  <1> DEFINE lo == t.lo
             hi == t.hi
             lo2 == (lo - n) % W
             hi2 == IF lo < n THEN (hi - 1) % W ELSE hi
  <1>1. lo \in 0..W-1 /\ hi \in 0..W-1 /\ Number(W, lo, hi) = N % Numbers(W)
    BY DEF Total, Number, Numbers, Counter
  <1>2. Total(CountDown(t, n)) = Number(W, lo2, hi2)
    BY DEF Total, CountDown, Number
  <1>3. lo2 = (lo - n) % W /\ hi2 = IF lo < n THEN (hi - 1) % W ELSE hi
    OBVIOUS
  <1> HIDE DEF lo, hi, lo2, hi2
  <1>4. Number(W, lo2, hi2) = (N - n) % Numbers(W)
    BY <1>1, <1>3, WordSize, BorrowDown
  <1> QED BY <1>2, <1>4 DEF Numbers

(* A refill counts what it takes. *)
LEMMA TakeInCounts ==
  ASSUME TypeOK, CountersExact, NEW n \in 0..W-1, TakeIn(n),
         UNCHANGED <<open, totalOut, bytesOut>>
  PROVE  CountersExact'
  <1> SUFFICES ASSUME open PROVE /\ Total(totalIn)'  = bytesIn' % (W * W)
                                 /\ Total(totalOut)' = bytesOut' % (W * W)
    BY DEF CountersExact
  <1>1. /\ totalIn' = CountUp(totalIn, n) /\ bytesIn' = bytesIn + n
        /\ totalIn \in Counter /\ bytesIn \in Int
        /\ Total(totalIn) = bytesIn % (W * W) /\ Total(totalOut) = bytesOut % (W * W)
    BY DEF TakeIn, TypeOK, CountersExact
  <1>2. Total(CountUp(totalIn, n)) = (bytesIn + n) % (W * W)
    BY <1>1, CountUpExact
  <1> QED BY <1>1, <1>2 DEF Total

(* A delivery counts what it gives. *)
LEMMA DeliverCounts ==
  ASSUME TypeOK, CountersExact, NEW n \in 0..W-1, Deliver(n),
         UNCHANGED <<open, totalIn, bytesIn>>
  PROVE  CountersExact'
  <1> SUFFICES ASSUME open PROVE /\ Total(totalIn)'  = bytesIn' % (W * W)
                                 /\ Total(totalOut)' = bytesOut' % (W * W)
    BY DEF CountersExact
  <1>1. /\ totalOut' = CountUp(totalOut, n) /\ bytesOut' = bytesOut + n
        /\ totalOut \in Counter /\ bytesOut \in Int
        /\ Total(totalIn) = bytesIn % (W * W) /\ Total(totalOut) = bytesOut % (W * W)
    BY DEF Deliver, TypeOK, CountersExact
  <1>2. Total(CountUp(totalOut, n)) = (bytesOut + n) % (W * W)
    BY <1>1, CountUpExact
  <1> QED BY <1>1, <1>2 DEF Total

(* The counters follow the history of the bytes, also when bytes are given *)
(* back.                                                                   *)
LEMMA CountStep ==
  TypeOK /\ Where /\ Counting /\ CountersExact /\ [Next]_vars => CountersExact'
<1> SUFFICES ASSUME TypeOK, Where, Counting, CountersExact, [Next]_vars, open'
             PROVE  /\ Total(totalIn)'  = bytesIn' % (W * W)
                    /\ Total(totalOut)' = bytesOut' % (W * W)
  BY DEF CountersExact
<1> USE DEF CountersExact
<1>0. ASSUME UNCHANGED <<open, totalIn, totalOut, bytesIn, bytesOut>>
      PROVE  /\ Total(totalIn)'  = bytesIn' % (W * W)
             /\ Total(totalOut)' = bytesOut' % (W * W)
  BY <1>0 DEF Total
<1>1. CASE DecompressInit
  <2>1. /\ totalIn' = Zero /\ bytesIn' = 0 /\ totalOut' = Zero /\ bytesOut' = 0
    BY <1>1 DEF DecompressInit
  <2> DEFINE M == W * W
  <2>2. M \in Nat \ {0}
    BY WordSize, Square
  <2> HIDE DEF M
  <2>3. 0 % M = 0
    BY <2>2, RemainderSmall
  <2>4. Total(totalIn)' = 0 /\ Total(totalOut)' = 0
    BY <2>1 DEF Total, Zero
  <2> QED BY <2>1, <2>3, <2>4 DEF M
<1>2. CASE DecompressInitFails
  BY <1>0, <1>2 DEF DecompressInitFails, strm, hist
<1>3. CASE DecompressEnd
  BY <1>3 DEF DecompressEnd
<1>4. CASE NoState
  BY <1>0, <1>4 DEF NoState, strm, hist
<1>5. CASE \E n \in Chunks, m \in Rooms : Call(n, m)
  BY <1>0, <1>5 DEF Call
<1>6. CASE RefillWord
  <2>1. TakeIn(4) /\ UNCHANGED <<open, totalOut, bytesOut>>
    BY <1>6 DEF RefillWord
  <2>2. 4 \in 0..W-1
    OBVIOUS
  <2> QED BY <2>1, <2>2, TakeInCounts
<1>7. CASE RefillByte
  <2>1. TakeIn(1) /\ UNCHANGED <<open, totalOut, bytesOut>>
    BY <1>7 DEF RefillByte
  <2>2. 1 \in 0..W-1
    OBVIOUS
  <2> QED BY <2>1, <2>2, TakeInCounts
<1>8. CASE NeedInput
  BY <1>0, <1>8 DEF NeedInput, strm, hist
<1>9. CASE TakeChain
  BY <1>0, <1>9 DEF TakeChain, Fields, strm
<1>10. CASE TakeMagic4
  BY <1>0, <1>10 DEF TakeMagic4, Fields, strm
<1>11. CASE TakeBlkhdr1
  BY <1>0, <1>11 DEF TakeBlkhdr1, Fields, strm
<1>12. CASE TakeBlkhdr6
  BY <1>0, <1>12 DEF TakeBlkhdr6, Fields, strm
<1>13. CASE TakeBcrc4
  BY <1>0, <1>13 DEF TakeBcrc4, Fields, strm
<1>14. CASE TakeOrigPtr3
  BY <1>0, <1>14 DEF TakeOrigPtr3, Fields, strm
<1>15. CASE TakeBody
  BY <1>0, <1>15 DEF TakeBody, Fields, strm
<1>16. CASE RefillAhead
  <2>1. TakeIn(4) /\ UNCHANGED <<open, totalOut, bytesOut>>
    BY <1>16 DEF RefillAhead
  <2>2. 4 \in 0..W-1
    OBVIOUS
  <2> QED BY <2>1, <2>2, TakeInCounts
<1>17. CASE FastSymbol
  BY <1>0, <1>17 DEF FastSymbol, Fields, strm
<1>18. CASE TakeCcrc4
  <2>1. /\ totalIn' = CountDown(totalIn, Excess) /\ bytesIn' = bytesIn - Excess
        /\ UNCHANGED <<open, totalOut, bytesOut>> /\ state = "CCRC_4" /\ bsLive >= 8
    BY <1>18 DEF TakeCcrc4
  <2>2. open /\ bsLive <= 39
    BY <2>1 DEF Counting, Trailer, TrailerRead, TypeOK
  <2>3. Excess \in 0..W-1
    BY <2>1, <2>2 DEF Excess, TypeOK
  <2>4. totalIn \in Counter /\ bytesIn \in Int
    BY DEF TypeOK
  <2>5. Total(totalIn) = bytesIn % (W * W) /\ Total(totalOut) = bytesOut % (W * W)
    BY <2>2 DEF CountersExact
  <2>6. Total(CountDown(totalIn, Excess)) = (bytesIn - Excess) % (W * W)
    BY <2>3, <2>4, <2>5, CountDownExact
  <2> QED BY <2>1, <2>5, <2>6 DEF Total
<1>19. CASE OutputStops
  <2>1. Deliver(availOut) /\ availOut \in 0..W-1
    BY <1>19 DEF OutputStops, TypeOK, Counting
  <2>2. UNCHANGED <<open, totalIn, bytesIn>>
    BY <1>19 DEF OutputStops
  <2> QED BY <2>1, <2>2, DeliverCounts
<1>20. CASE OutputEnds
  <2>1. Deliver(outLeft) /\ outLeft \in 0..W-1
    BY <1>20 DEF OutputEnds, TypeOK, Counting
  <2>2. UNCHANGED <<open, totalIn, bytesIn>>
    BY <1>20 DEF OutputEnds
  <2> QED BY <2>1, <2>2, DeliverCounts
<1>21. CASE OutputCorrupt
  <2>1. PICK n \in 0..availOut : Deliver(n) /\ n \in 0..W-1
    BY <1>21 DEF OutputCorrupt, TypeOK, Counting
  <2>2. UNCHANGED <<open, totalIn, bytesIn>>
    BY <1>21 DEF OutputCorrupt
  <2> QED BY <2>1, <2>2, DeliverCounts
<1>22. CASE UNCHANGED vars
  BY <1>0, <1>22 DEF vars, strm, hist
<1> QED BY <1>1, <1>2, <1>3, <1>4, <1>5, <1>6, <1>7, <1>8, <1>9, <1>10, <1>11, <1>12,
           <1>13, <1>14, <1>15, <1>16, <1>17, <1>18, <1>19, <1>20, <1>21, <1>22 DEF Next,
           Library, Parse

-----------------------------------------------------------------------------
(* The stream that is not open yet satisfies the invariant. *)
LEMMA InitHolds == Init => IInv
<1> SUFFICES ASSUME Init PROVE IInv
  OBVIOUS
<1>1. TypeOK
  <2>1. /\ open \in BOOLEAN /\ small \in BOOLEAN /\ crcGood \in BOOLEAN
        /\ state \in States /\ ret \in Returns /\ pc \in {"caller", "parse", "output"}
    BY DEF Init, States, Returns
  <2>2. /\ live \subseteq Allocations /\ want \in 1..20 /\ bsLive \in 0..64
        /\ availIn \in Nat /\ availOut \in Nat
        /\ totalIn \in Counter /\ totalOut \in Counter
        /\ body \in Nat /\ blocks \in Nat /\ outLeft \in Nat /\ combined \in Nat
        /\ entryIn \in Nat /\ bytesIn \in Int /\ bytesOut \in Nat
        /\ bitsUsed \in Nat /\ pad \in Nat
    BY ZeroCounter DEF Init
  <2> QED BY <2>1, <2>2 DEF TypeOK
<1>2. Where
  BY DEF Init, Where, Labels
<1>3. BitsConserved /\ PushBackSafe
  BY DEF Init, BitsConserved, PushBackSafe
<1>4. Waiting /\ CarriedBits /\ Checked
  BY DEF Init, Waiting, CarriedBits, Checked
<1>5. Memory
  BY DEF Init, Memory, NoLeak
<1>6. Counting /\ CountersExact
  BY DEF Init, Counting, CountersExact
<1> QED BY <1>1, <1>2, <1>3, <1>4, <1>5, <1>6 DEF IInv

(* Every step keeps it. *)
LEMMA StepHolds == IInv /\ [Next]_vars => IInv'
  BY TypeStep, WhereStep, BitsStep, PushBackStep, WaitingStep, CarriedStep, MemoryStep,
     CheckedStep, CountingStep, CountStep DEF IInv

(* The inductive invariant holds of every reachable state. *)
THEOREM Invariance == Spec => []IInv
  BY InitHolds, StepHolds, PTL DEF Spec

(* The types, and with them the widths: bsLive never exceeds the 64 bits   *)
(* of bsBuff, so no shift of GET_BITS or of the refill loses input.        *)
THEOREM TypeCorrect == Spec => []TypeOK
<1>1. IInv => TypeOK
  BY DEF IInv
<1> QED BY Invariance, <1>1, PTL

(* However the input is cut into calls, no bit is dropped or read twice,   *)
(* and next_in ends up at the first byte after the stream.                 *)
THEOREM BitsAreConserved == Spec => []BitsConserved
<1>1. IInv => BitsConserved
  BY DEF IInv
<1> QED BY Invariance, <1>1, PTL

(* The push-back of decompress.c's save_state_and_return never moves       *)
(* next_in in front of the buffer the current call was given.              *)
THEOREM PushBackIsSafe == Spec => []PushBackSafe
<1>1. IInv => PushBackSafe
  BY DEF IInv
<1> QED BY Invariance, <1>1, PTL

(* BZ_STREAM_END means that every block was delivered and had its CRC      *)
(* compared.                                                               *)
THEOREM StreamEndIsChecked == Spec => []StreamEndChecked
<1>1. IInv => StreamEndChecked
  BY DEF IInv, Checked, StreamEndChecked, InBlock, Where, TypeOK
<1> QED BY Invariance, <1>1, PTL

(* The tables of a block are allocated before they are used, also when an  *)
(* allocation failed.                                                      *)
THEOREM MemoryIsReady == Spec => []MemoryReady
<1>1. IInv => MemoryReady
  BY DEF IInv, Memory, MemoryReady, Magic
<1> QED BY Invariance, <1>1, PTL

(* BZ2_bzDecompressEnd frees what BZ2_bzDecompressInit and the parser      *)
(* allocated.                                                              *)
THEOREM NothingLeaks == Spec => []NoLeak
<1>1. IInv => NoLeak
  BY DEF IInv, Memory
<1> QED BY Invariance, <1>1, PTL

(* total_in and total_out count every byte, across the carry of the words  *)
(* and the borrow of the push-back.                                        *)
THEOREM CountersAreExact == Spec => []CountersExact
<1>1. IInv => CountersExact
  BY DEF IInv
<1> QED BY Invariance, <1>1, PTL

(* Only NeedInput and OutputStops return BZ_OK. *)
LEMMA BlockedStep == TypeOK /\ Where /\ [Next]_vars => Blocked
<1> SUFFICES ASSUME TypeOK, Where, [Next]_vars PROVE Blocked
  OBVIOUS
<1>1. CASE DecompressInit
  BY <1>1 DEF DecompressInit, Blocked
<1>2. CASE DecompressInitFails
  BY <1>2 DEF DecompressInitFails, Blocked
<1>3. CASE DecompressEnd
  BY <1>3 DEF DecompressEnd, Blocked
<1>4. CASE NoState
  BY <1>4 DEF NoState, Blocked
<1>5. CASE \E n \in Chunks, m \in Rooms : Call(n, m)
  BY <1>5 DEF Call, Blocked
<1>6. CASE RefillWord
  BY <1>6 DEF RefillWord, Blocked
<1>7. CASE RefillByte
  BY <1>7 DEF RefillByte, Blocked
<1>8. CASE NeedInput
  BY <1>8 DEF NeedInput, Starving, strm, Blocked, Where
<1>9. CASE TakeChain
  BY <1>9, ChainFacts DEF TakeChain, Goto, Fail, Return, Blocked
<1>10. CASE TakeMagic4
  BY <1>10 DEF TakeMagic4, Goto, Fail, Return, Blocked
<1>11. CASE TakeBlkhdr1
  BY <1>11 DEF TakeBlkhdr1, Goto, Fail, Return, Blocked
<1>12. CASE TakeBlkhdr6
  BY <1>12 DEF TakeBlkhdr6, Goto, Fail, Return, Blocked
<1>13. CASE TakeBcrc4
  BY <1>13 DEF TakeBcrc4, Goto, Blocked
<1>14. CASE TakeOrigPtr3
  BY <1>14 DEF TakeOrigPtr3, Goto, Fail, Return, Blocked
<1>15. CASE TakeBody
  BY <1>15 DEF TakeBody, BodyContinues, Goto, Fail, Return, Blocked
<1>16. CASE RefillAhead
  BY <1>16 DEF RefillAhead, Blocked
<1>17. CASE FastSymbol
  BY <1>17 DEF FastSymbol, BodyContinues, Goto, Fail, Return, Blocked
<1>18. CASE TakeCcrc4
  BY <1>18 DEF TakeCcrc4, Return, Blocked
<1>19. CASE OutputStops
  BY <1>19 DEF OutputStops, Deliver, Blocked, Where, TypeOK
<1>20. CASE OutputEnds
  BY <1>20 DEF OutputEnds, Fail, Return, Blocked
<1>21. CASE OutputCorrupt
  BY <1>21 DEF OutputCorrupt, Fail, Return, Blocked
<1>22. CASE UNCHANGED vars
  BY <1>22 DEF vars, Blocked
<1> QED BY <1>1, <1>2, <1>3, <1>4, <1>5, <1>6, <1>7, <1>8, <1>9, <1>10, <1>11, <1>12,
           <1>13, <1>14, <1>15, <1>16, <1>17, <1>18, <1>19, <1>20, <1>21, <1>22 DEF Next,
           Library, Parse

(* A call returns BZ_OK only when its input or its room is used up: nothing *)
(* is left undone that the caller's buffers allow.                          *)
THEOREM OkIsBlocked == Spec => OkMeansBlocked
<1>1. IInv /\ [Next]_vars => [Blocked]_vars
  BY BlockedStep DEF IInv
<1> QED BY Invariance, <1>1, PTL DEF Spec, OkMeansBlocked

=============================================================================
