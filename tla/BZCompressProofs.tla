-------------------------- MODULE BZCompressProofs --------------------------
(***************************************************************************)
(* The safety of the compression stream for every value of the constants:  *)
(* the block never overflows its array, no byte the bit writer emits is    *)
(* lost, and BZ_STREAM_END is reported only for a complete stream.         *)
(***************************************************************************)
EXTENDS BZCompress, CommonLemmas, SequenceTheorems, TLAPS

USE BytesAssumption, MaxRunAssumption, BlockAssumption, CounterAssumption,
    UnitAssumption, BoundAssumption

-----------------------------------------------------------------------------
(* The run-length coder *)

(* Three pieces of the output, joined in either order. *)
LEMMA Regroup ==
  \A s, t, u \in Seq(Unit) : s \o (t \o u) = (s \o t) \o u
  BY Associative

(* A sequence written as a function. *)
LEMMA RunIsSeq ==
  ASSUME NEW S, NEW ch \in S, NEW len \in Nat
  PROVE  Run(ch, len) \in Seq(S) /\ Len(Run(ch, len)) = len
  BY DEF Run

(* A run takes one to five bytes of the block, a run of one takes one. *)
LEMMA PairFacts ==
  ASSUME NEW ch \in Byte, NEW len \in 1..MaxRun
  PROVE  /\ Pair(ch, len) \in Seq(Byte)
         /\ Len(Pair(ch, len)) \in 1..5
         /\ len = 1 => Len(Pair(ch, len)) = 1
         /\ PairUse(ch, len) \subseteq Byte
  <1>1. CASE len \in 1..3
    <2>1. Pair(ch, len) = Run(ch, len)
      BY <1>1 DEF Pair, Run
    <2>2. Run(ch, len) \in Seq(Byte) /\ Len(Run(ch, len)) = len
      BY RunIsSeq
    <2>3. PairUse(ch, len) \subseteq Byte
      BY <1>1 DEF PairUse
    <2> QED BY <1>1, <2>1, <2>2, <2>3
  <1>2. CASE len \notin 1..3
    <2>1. (len - 4) % 256 \in Byte
      BY DEF Byte
    <2>2. Pair(ch, len) = <<ch, ch, ch, ch, (len - 4) % 256>>
      BY <1>2 DEF Pair
    <2>3. Pair(ch, len) \in Seq(Byte) /\ Len(Pair(ch, len)) = 5
      BY <2>1, <2>2
    <2> QED BY <1>2, <2>1, <2>3 DEF PairUse
  <1> QED BY <1>1, <1>2

-----------------------------------------------------------------------------
(* The bit writer *)

(* A sequence cut in two. *)
LEMMA CutInTwo ==
  ASSUME NEW S, NEW seq \in Seq(S), NEW k \in 0..Len(seq)
  PROVE  /\ SubSeq(seq, 1, k) \in Seq(S) /\ SubSeq(seq, k + 1, Len(seq)) \in Seq(S)
         /\ SubSeq(seq, 1, k) \o SubSeq(seq, k + 1, Len(seq)) = seq
  <1>1. 1 \in 1..Len(seq)+1 /\ k \in (1-1)..Len(seq) /\ Len(seq) \in k..Len(seq)
    OBVIOUS
  <1>2. SubSeq(seq, 1, k) \o SubSeq(seq, k + 1, Len(seq)) = SubSeq(seq, 1, Len(seq))
    BY <1>1, ConcatAdjacentSubSeq, Zenon
  <1>3. SubSeq(seq, 1, k) \in Seq(S) /\ SubSeq(seq, k + 1, Len(seq)) \in Seq(S)
    OBVIOUS
  <1> QED BY <1>2, <1>3, SubSeqFull

(* The units of a block or of the trailer form a sequence of units. *)
LEMMA UnitsIsSeq ==
  ASSUME NEW k \in Nat, NEW n \in Nat
  PROVE  Units(k, n) \in Seq(Unit)
  BY DEF Units, Unit

(* bsNEEDW moves no more than there is. *)
LEMMA FullWordsRange ==
  ASSUME NEW n \in Nat, NEW w \in Nat
  PROVE  FullWords(n, w) \in 0..n
  <1>1. CASE w = 0 \/ n < w
    BY <1>1 DEF FullWords
  <1>2. CASE ~(w = 0 \/ n < w)
    <2> DEFINE m == n - w
               q == m \div Word
    <2>0. m \in Nat /\ m <= n
      BY <1>2
    <2> HIDE DEF m
    <2>1. q \in Nat /\ Word * q <= m
      BY <2>0
    <2>2. Word * q \in Nat
      BY <2>1
    <2>3. Word * q \in 0..n
      BY <2>0, <2>1, <2>2
    <2>4. FullWords(n, w) = Word * q
      BY <1>2 DEF FullWords, m
    <2> QED BY <2>3, <2>4
  <1> QED BY <1>1, <1>2

(* What is written goes to zbits and to the buffer, in order. *)
LEMMA WriteUnitsFacts ==
  ASSUME NEW zs \in Seq(Unit), NEW all \in Seq(Unit), NEW last \in BOOLEAN,
         NEW w \in Nat, WriteUnits(zs, all, last, w)
  PROVE  /\ zbits' \in Seq(Unit) /\ hold' \in Seq(Unit)
         /\ zbits' \o hold' = zs \o all
         /\ last => hold' = <<>>
  <1> DEFINE k == IF last THEN Len(all) ELSE FullWords(Len(all), w)
  <1>1. k \in 0..Len(all)
    BY FullWordsRange, LenProperties
  <1> DEFINE a == SubSeq(all, 1, k)
             b == SubSeq(all, k + 1, Len(all))
  <1>2. zbits' = zs \o a /\ hold' = b
    BY DEF WriteUnits
  <1> HIDE DEF k
  <1>3. a \in Seq(Unit) /\ b \in Seq(Unit)
    BY <1>1, CutInTwo
  <1>4. a \o b = all
    BY <1>1, CutInTwo
  <1>5. last => hold' = <<>>
    BY <1>2, SubSeqEmpty DEF k
  <1> HIDE DEF a, b
  <1>6. zs \o (a \o b) = (zs \o a) \o b
    BY <1>3, Associative
  <1>7. zbits' \o hold' = zs \o all
    BY <1>2, <1>4, <1>6
  <1>8. zbits' \in Seq(Unit)
    BY <1>2, <1>3, ConcatProperties
  <1> QED BY <1>2, <1>3, <1>5, <1>7, <1>8

(* BZ2_compressBlock called with an empty zbits: what was in the buffer    *)
(* and what is new is in zbits and in the buffer, and only the last block  *)
(* writes a trailer.                                                       *)
LEMMA CompressBlockFacts ==
  ASSUME TypeOK, open, Numbering, Buffers, state = "INPUT",
         NEW blk \in Seq(Byte), NEW crc \in Seq(Byte), NEW last \in BOOLEAN,
         CompressBlock(blk, crc, last)
  PROVE  /\ combinedCRC' \in Seq(Seq(Byte)) /\ sections' \in Seq(SectionType)
         /\ written' \in Seq(Unit) /\ zbits' \in Seq(Unit) /\ hold' \in Seq(Unit)
         /\ NoByteLost => sent \o (zbits' \o hold') = written'
         /\ sections' # <<>>
         /\ last => TrailerWritten' /\ hold' = <<>> /\ zbits' # <<>>
         /\ ~last /\ ~TrailerWritten => ~TrailerWritten'
  <1> DEFINE full == blk # <<>>
             comb == IF full THEN Append(combinedCRC, crc) ELSE combinedCRC
             n0   == Len(sections)
             n1   == IF blockNo = 1 THEN n0 + 1 ELSE n0
             n2   == IF full THEN n1 + 1 ELSE n1
             hdr  == IF blockNo = 1 THEN <<Section("header", <<>>, <<>>, Word)>> ELSE <<>>
             bdy(u) == IF full THEN <<Section("block", blk, <<crc>>, u)>> ELSE <<>>
             trl  == IF last THEN <<Section("trailer", <<>>, comb, TrlUnits)>> ELSE <<>>
             uh   == IF blockNo = 1 THEN Units(n1, Word) ELSE <<>>
             ub(u) == IF full THEN Units(n2, u) ELSE <<>>
             ut   == IF last THEN Units(n2 + 1, TrlUnits) ELSE <<>>
             zs   == IF full /\ blockNo > 1 THEN <<>> ELSE zbits
             old  == IF blockNo = 1 THEN <<>> ELSE hold
             w(v) == IF full THEN v ELSE IF blockNo = 1 THEN 1 ELSE 0
  <1>1. PICK u \in BlkUnits, v \in LastUnits :
          /\ combinedCRC' = comb
          /\ sections' = sections \o hdr \o bdy(u) \o trl
          /\ written' = written \o (uh \o ub(u) \o ut)
          /\ WriteUnits(zs, old \o (uh \o ub(u) \o ut), last, w(v))
    BY DEF CompressBlock
  <1> DEFINE new == uh \o ub(u) \o ut
             pre == sections \o hdr \o bdy(u)
  <1>2. u \in Nat /\ n0 \in Nat /\ n1 \in Nat /\ n2 \in Nat
    <2>1. n0 \in Nat
      BY DEF TypeOK
    <2>2. u \in Nat
      BY UnitAssumption
    <2> HIDE DEF n0
    <2> QED BY <2>1, <2>2
  <1>3. uh \in Seq(Unit) /\ ub(u) \in Seq(Unit) /\ ut \in Seq(Unit)
    <2>1. Units(n1, Word) \in Seq(Unit)
      BY <1>2, UnitsIsSeq
    <2>2. Units(n2, u) \in Seq(Unit)
      BY <1>2, UnitsIsSeq
    <2>3. Units(n2 + 1, TrlUnits) \in Seq(Unit)
      <3>1. n2 + 1 \in Nat
        BY <1>2
      <3> QED BY <3>1, UnitsIsSeq
    <2>4. << >> \in Seq(Unit)
      OBVIOUS
    <2> HIDE DEF n1, n2
    <2> QED BY <2>1, <2>2, <2>3, <2>4, Zenon
  <1>4. new \in Seq(Unit)
    <2> HIDE DEF uh, ub, ut
    <2> QED BY <1>3, ConcatProperties
  <1>5. comb \in Seq(Seq(Byte))
    BY AppendProperties DEF TypeOK, Byte
  <1>6. hdr \in Seq(SectionType) /\ bdy(u) \in Seq(SectionType) /\ trl \in Seq(SectionType)
    <2> HIDE DEF comb
    <2>1. /\ Section("header", <<>>, <<>>, Word) \in SectionType
          /\ Section("trailer", <<>>, comb, TrlUnits) \in SectionType
      BY <1>5 DEF Section, SectionType
    <2>2. Section("block", blk, <<crc>>, u) \in SectionType
      BY <1>2 DEF Section, SectionType
    <2>3. \A x \in SectionType : <<x>> \in Seq(SectionType)
      OBVIOUS
    <2>4. << >> \in Seq(SectionType)
      OBVIOUS
    <2> QED BY <2>1, <2>2, <2>3, <2>4, Zenon
  <1>7. zs = <<>> /\ old \in Seq(Unit)
    BY DEF Buffers, TypeOK
  <1>8. pre \in Seq(SectionType) /\ pre # <<>>
    <2> HIDE DEF bdy
    <2>1. sections \in Seq(SectionType)
      BY DEF TypeOK
    <2>2. /\ sections \o hdr \in Seq(SectionType)
          /\ Len(sections \o hdr) = Len(sections) + Len(hdr)
      BY <1>6, <2>1, ConcatProperties
    <2>3. Len(sections \o hdr) > 0
      <3>1. CASE blockNo = 1
        BY <2>1, <2>2, <3>1
      <3>2. CASE blockNo # 1
        BY <2>1, <2>2, <3>2 DEF Numbering
      <3> QED BY <3>1, <3>2
    <2> HIDE DEF hdr
    <2>4. pre \in Seq(SectionType) /\ Len(pre) > 0
      BY <1>6, <2>2, <2>3, ConcatProperties
    <2> QED BY <2>4
  <1>9. sections' = pre \o trl
    BY <1>1
  <1>10. /\ zbits' \in Seq(Unit) /\ hold' \in Seq(Unit)
         /\ zbits' \o hold' = old \o new
         /\ last => hold' = <<>>
    <2> DEFINE all == old \o new
    <2>0. w(v) \in Nat
      OBVIOUS
    <2>1. WriteUnits(<<>>, all, last, w(v))
      BY <1>1, <1>7
    <2> HIDE DEF old, new, w
    <2>2. all \in Seq(Unit)
      BY <1>4, <1>7, ConcatProperties
    <2> HIDE DEF all
    <2>3. /\ zbits' \in Seq(Unit) /\ hold' \in Seq(Unit)
          /\ zbits' \o hold' = <<>> \o all
          /\ last => hold' = <<>>
      <3>1. << >> \in Seq(Unit)
        OBVIOUS
      <3> QED BY <2>0, <2>1, <2>2, <3>1, WriteUnitsFacts, Zenon
    <2>4. <<>> \o all = all
      BY <2>2, ConcatEmptySeq
    <2> QED BY <2>3, <2>4 DEF all
  <1>11. ASSUME NoByteLost PROVE sent \o (zbits' \o hold') = written'
    <2> HIDE DEF new
    <2>1. Pending = <<>>
      BY SubSeqEmpty DEF Buffers, Pending
    <2>2. Unwritten = old
      BY DEF Unwritten, Numbering
    <2> HIDE DEF old
    <2>3. sent \in Seq(Unit)
      BY DEF TypeOK
    <2>4. sent \o old = written
      BY <1>11, <1>7, <2>1, <2>2, <2>3, ConcatEmptySeq DEF NoByteLost
    <2>5. sent \o (old \o new) = (sent \o old) \o new
      <3>1. old \in Seq(Unit)
        BY <1>7
      <3>2. new \in Seq(Unit)
        BY <1>4
      <3> HIDE DEF w, comb, n1, n2, hdr, bdy, trl, uh, ub, ut, zs, pre
      <3> QED BY <2>3, <3>1, <3>2, Regroup, Zenon
    <2>6. written' = written \o new
      BY <1>1 DEF new
    <2> QED BY <1>10, <2>4, <2>5, <2>6
  <1>12. sections' \in Seq(SectionType) /\ sections' # <<>>
    <2> HIDE DEF pre, trl
    <2>1. pre \o trl \in Seq(SectionType) /\ Len(pre \o trl) = Len(pre) + Len(trl)
      BY <1>6, <1>8, ConcatProperties
    <2>2. Len(pre) > 0 /\ Len(trl) >= 0
      BY <1>6, <1>8
    <2> QED BY <1>9, <2>1, <2>2
  <1>13. ASSUME last PROVE TrailerWritten'
    <2> HIDE DEF pre, comb
    <2>1. trl = <<Section("trailer", <<>>, comb, TrlUnits)>>
      BY <1>13
    <2>2. sections'[Len(sections')] = Section("trailer", <<>>, comb, TrlUnits)
      BY <1>6, <1>8, <1>9, <2>1
    <2> QED BY <1>12, <2>2 DEF TrailerWritten, Section
  <1>14. ASSUME ~last, ~TrailerWritten PROVE ~TrailerWritten'
    <2>1. sections' = pre
      <3>1. trl = <<>>
        BY <1>14
      <3> HIDE DEF pre, trl
      <3> QED BY <1>8, <1>9, <3>1, ConcatEmptySeq
    <2>2. sections \o hdr \in Seq(SectionType)
      <3> HIDE DEF hdr
      <3> QED BY <1>6, ConcatProperties DEF TypeOK
    <2> SUFFICES pre[Len(pre)].kind # "trailer"
      BY <2>1 DEF TrailerWritten
    <2>3. CASE full
      <3>1. pre = (sections \o hdr) \o <<Section("block", blk, <<crc>>, u)>>
        BY <2>3
      <3> HIDE DEF pre, hdr
      <3>2. pre[Len(pre)] = Section("block", blk, <<crc>>, u)
        BY <2>2, <3>1
      <3> QED BY <3>2 DEF Section
    <2>4. CASE ~full /\ blockNo = 1
      <3>1. pre = sections \o <<Section("header", <<>>, <<>>, Word)>>
        BY <2>2, <2>4, ConcatEmptySeq
      <3> HIDE DEF pre
      <3>2. pre[Len(pre)] = Section("header", <<>>, <<>>, Word)
        BY <3>1 DEF TypeOK
      <3> QED BY <3>2 DEF Section
    <2>5. CASE ~full /\ blockNo # 1
      <3>1. pre = sections
        BY <2>5, ConcatEmptySeq DEF TypeOK
      <3> QED BY <1>14, <3>1, <1>8 DEF TrailerWritten
    <2> QED BY <2>3, <2>4, <2>5
  <1>15. written' \in Seq(Unit)
    BY <1>1, <1>4, ConcatProperties DEF TypeOK
  <1>16. ASSUME last PROVE zbits' # <<>>
    <2> DEFINE head == uh \o ub(u)
    <2>1. ut = Units(n2 + 1, TrlUnits) /\ Len(ut) = TrlUnits /\ ut \in Seq(Unit)
      BY <1>3, <1>16 DEF Units
    <2>2. head \in Seq(Unit)
      <3> HIDE DEF uh, ub
      <3> QED BY <1>3, ConcatProperties
    <2>3. new = head \o ut
      OBVIOUS
    <2> HIDE DEF head, ut, new, old
    <2>4. Len(new) = Len(head) + Len(ut) /\ Len(head) \in Nat
      BY <2>1, <2>2, <2>3, ConcatProperties
    <2>5. Len(old \o new) = Len(old) + Len(new) /\ Len(old) \in Nat
      BY <1>4, <1>7, ConcatProperties, LenProperties
    <2>6. Len(zbits' \o hold') = Len(zbits') + Len(hold') /\ hold' = <<>>
      BY <1>10, <1>16, ConcatProperties
    <2>7. Len(zbits') > 0
      BY <1>10, <2>1, <2>4, <2>5, <2>6
    <2> QED BY <2>7
  <1> QED BY <1>1, <1>5, <1>10, <1>11, <1>12, <1>13, <1>14, <1>15, <1>16

-----------------------------------------------------------------------------
(* What the absorption of a byte and the two cuts do to the block *)

(* A pair enters the block and its CRC as bytes, and the block grows by at *)
(* most five bytes.                                                       *)
LEMMA AddPairFacts ==
  ASSUME TypeOK, RunPending, inCh < NoCh, add_pair_to_block
  PROVE  /\ block' \in Seq(Byte) /\ blockCRC' \in Seq(Byte) /\ inUse' \subseteq Byte
         /\ Len(block') \in nblock + 1 .. nblock + 5
         /\ inLen = 1 => Len(block') = nblock + 1
  <1>1. inCh \in Byte /\ inLen \in 1..MaxRun
    BY DEF TypeOK, RunPending, NoCh, Byte
  <1>2. /\ Pair(inCh, inLen) \in Seq(Byte) /\ Len(Pair(inCh, inLen)) \in 1..5
        /\ inLen = 1 => Len(Pair(inCh, inLen)) = 1
        /\ PairUse(inCh, inLen) \subseteq Byte
    BY <1>1, PairFacts
  <1>3. Run(inCh, inLen) \in Seq(Byte)
    BY <1>1, RunIsSeq
  <1>4. block \in Seq(Byte) /\ blockCRC \in Seq(Byte) /\ inUse \subseteq Byte
    BY DEF TypeOK
  <1>5. /\ block' = block \o Pair(inCh, inLen)
        /\ blockCRC' = blockCRC \o Run(inCh, inLen)
        /\ inUse' = inUse \union PairUse(inCh, inLen)
    BY DEF add_pair_to_block
  <1> DEFINE n == Len(Pair(inCh, inLen))
  <1>6. block' \in Seq(Byte)
    BY <1>2, <1>4, <1>5, ConcatProperties
  <1>7. Len(block') = Len(block) + n
    BY <1>2, <1>4, <1>5, ConcatProperties
  <1>8. blockCRC' \in Seq(Byte)
    BY <1>3, <1>4, <1>5, ConcatProperties
  <1>9. inUse' \subseteq Byte
    BY <1>2, <1>4, <1>5
  <1>10. /\ Len(block') \in nblock + 1 .. nblock + 5
         /\ inLen = 1 => Len(block') = nblock + 1
    <2>1. n \in 1..5 /\ (inLen = 1 => n = 1)
      BY <1>2
    <2>2. nblock \in Nat /\ Len(block') = nblock + n
      BY <1>4, <1>7, LenProperties DEF nblock
    <2> HIDE DEF n
    <2> QED BY <2>1, <2>2
  <1> QED BY <1>6, <1>8, <1>9, <1>10

(* A byte adds five bytes at most, and what adds some starts a new run. *)
LEMMA AddCharFacts ==
  ASSUME TypeOK, RunPending, NEW c \in Bytes, ADD_CHAR_TO_BLOCK(c)
  PROVE  /\ block' \in Seq(Byte) /\ blockCRC' \in Seq(Byte) /\ inUse' \subseteq Byte
         /\ inCh' \in Bytes /\ inLen' \in 1..MaxRun
         /\ Len(block') \in nblock .. nblock + 5
         /\ Len(block') # nblock => inLen' = 1
  <1>1. /\ nblock \in Nat /\ nblock = Len(block) /\ c \in Byte
        /\ block \in Seq(Byte) /\ blockCRC \in Seq(Byte) /\ inUse \subseteq Byte
        /\ inCh \in Bytes \union {NoCh} /\ inLen \in 0..MaxRun
    BY LenProperties DEF nblock, TypeOK, Byte
  <1>2. CASE c # inCh /\ inLen = 1
    <2>1. inCh \in Byte /\ inCh \in Bytes
      BY <1>2 DEF TypeOK, RunPending, NoCh, Byte
    <2>2. /\ block' = Append(block, inCh) /\ blockCRC' = Append(blockCRC, inCh)
          /\ inUse' = inUse \union {inCh} /\ inCh' = c /\ inLen' = inLen
      BY <1>2, <2>1 DEF ADD_CHAR_TO_BLOCK
    <2>3. block' \in Seq(Byte) /\ blockCRC' \in Seq(Byte) /\ Len(block') = nblock + 1
      BY <1>1, <2>1, <2>2, AppendProperties
    <2>4. inUse' \subseteq Byte
      BY <1>1, <2>1, <2>2
    <2> QED BY <1>1, <1>2, <2>2, <2>3, <2>4
  <1>3. CASE ~(c # inCh /\ inLen = 1) /\ (c # inCh \/ inLen = MaxRun)
    <2>1. inCh' = c /\ inLen' = 1
      BY <1>3 DEF ADD_CHAR_TO_BLOCK
    <2>2. CASE inCh < NoCh
      <3>1. add_pair_to_block
        BY <1>3, <2>2 DEF ADD_CHAR_TO_BLOCK
      <3>2. /\ block' \in Seq(Byte) /\ blockCRC' \in Seq(Byte) /\ inUse' \subseteq Byte
            /\ Len(block') \in nblock + 1 .. nblock + 5
        BY <2>2, <3>1, AddPairFacts
      <3> QED BY <1>1, <2>1, <3>2
    <2>3. CASE ~(inCh < NoCh)
      <3>1. block' = block /\ blockCRC' = blockCRC /\ inUse' = inUse
        BY <1>3, <2>3 DEF ADD_CHAR_TO_BLOCK
      <3> QED BY <1>1, <2>1, <3>1
    <2> QED BY <2>2, <2>3
  <1>4. CASE c = inCh /\ inLen # MaxRun
    <2>1. /\ block' = block /\ blockCRC' = blockCRC /\ inUse' = inUse
          /\ inCh' = inCh /\ inLen' = inLen + 1
      BY <1>4 DEF ADD_CHAR_TO_BLOCK
    <2> QED BY <1>1, <1>4, <2>1
  <1> QED BY <1>2, <1>3, <1>4

(* Absorbing a byte of input keeps the types of what it writes. *)
LEMMA AbsorbFacts ==
  ASSUME TypeOK, RunPending, AbsorbByte
  PROVE  /\ block' \in Seq(Byte) /\ blockCRC' \in Seq(Byte) /\ inUse' \subseteq Byte
         /\ inCh' \in Bytes /\ inLen' \in 1..MaxRun
         /\ Len(block') \in nblock .. nblock + 5
         /\ Len(block') # nblock => inLen' = 1
         /\ nblock < NblockMax /\ consumed' \in Seq(Bytes)
  <1>1. PICK c \in Bytes : ADD_CHAR_TO_BLOCK(c) /\ consumed' = Append(consumed, c)
    BY DEF AbsorbByte
  <1>2. nblock < NblockMax
    BY DEF AbsorbByte, CanAbsorb
  <1>3. consumed' \in Seq(Bytes)
    BY <1>1, AppendProperties DEF TypeOK
  <1> QED BY <1>1, <1>2, <1>3, AddCharFacts

-----------------------------------------------------------------------------
(* The two cuts *)

(* What both cuts of a block establish: the block within its array, what   *)
(* the bit writer wrote, the trailer if it was the last one.               *)
LEMMA CutFacts ==
  ASSUME TypeOK, open, RunPending, Buffers, BlockRoom, Numbering, CutRest \/ CutFull
  PROVE  /\ block' \in Seq(Byte) /\ blockCRC' \in Seq(Byte) /\ inUse' \subseteq Byte
         /\ Len(block') <= NblockMax + 5
         /\ combinedCRC' \in Seq(Seq(Byte)) /\ sections' \in Seq(SectionType)
         /\ written' \in Seq(Unit) /\ zbits' \in Seq(Unit) /\ hold' \in Seq(Unit)
         /\ NoByteLost => sent \o (zbits' \o hold') = written'
         /\ sections' # <<>>
         /\ CutRest => /\ inCh' = NoCh /\ inLen' = 0
                       /\ mode = "FINISHING" => /\ TrailerWritten' /\ hold' = <<>>
                                                /\ zbits' # <<>>
         /\ CutFull => inCh < NoCh /\ UNCHANGED <<inCh, inLen>>
         /\ ~TrailerWritten /\ (CutFull \/ mode # "FINISHING") => ~TrailerWritten'
  <1>1. /\ nblock = Len(block) /\ nblock \in Nat /\ state = "INPUT"
        /\ block \in Seq(Byte) /\ blockCRC \in Seq(Byte) /\ inUse \subseteq Byte
    BY LenProperties DEF CutRest, init_RL, CutFull, StopAbsorbing, TypeOK, nblock
  <1> DEFINE Written(last) ==
               /\ combinedCRC' \in Seq(Seq(Byte)) /\ sections' \in Seq(SectionType)
               /\ written' \in Seq(Unit) /\ zbits' \in Seq(Unit) /\ hold' \in Seq(Unit)
               /\ NoByteLost => sent \o (zbits' \o hold') = written'
               /\ sections' # <<>>
               /\ last => TrailerWritten' /\ hold' = <<>> /\ zbits' # <<>>
               /\ ~last /\ ~TrailerWritten => ~TrailerWritten'
  <1>2. CASE CutRest /\ inCh < NoCh
    <2>1. /\ add_pair_to_block /\ inCh' = NoCh /\ inLen' = 0
          /\ CompressBlock(block \o Pair(inCh, inLen), blockCRC \o Run(inCh, inLen),
                           mode = "FINISHING")
      BY <1>2 DEF CutRest, init_RL
    <2>2. CompressBlock(block', blockCRC', mode = "FINISHING")
      BY <2>1 DEF add_pair_to_block
    <2>3. /\ block' \in Seq(Byte) /\ blockCRC' \in Seq(Byte) /\ inUse' \subseteq Byte
          /\ Len(block') \in nblock + 1 .. nblock + 5
          /\ inLen = 1 => Len(block') = nblock + 1
      BY <1>2, <2>1, AddPairFacts
    <2>4. Len(block') <= NblockMax + 5
      BY <1>1, <2>3 DEF BlockRoom
    <2> DEFINE last == mode = "FINISHING"
    <2>5. last \in BOOLEAN
      OBVIOUS
    <2>6. ~CutFull
      BY <1>2 DEF CutRest, init_RL, CutFull
    <2> HIDE DEF last
    <2>7. CompressBlock(block', blockCRC', last)
      BY <2>2 DEF last
    <2>8. Written(last)
      BY <1>1, <2>3, <2>5, <2>7, CompressBlockFacts
    <2> QED BY <1>2, <2>1, <2>3, <2>4, <2>6, <2>8 DEF last
  <1>3. CASE CutRest /\ ~(inCh < NoCh)
    <2>1. /\ block' = block /\ blockCRC' = blockCRC /\ inUse' = inUse
          /\ inCh' = NoCh /\ inLen' = 0
          /\ CompressBlock(block, blockCRC, mode = "FINISHING")
      BY <1>3 DEF CutRest, init_RL
    <2> DEFINE last == mode = "FINISHING"
    <2>2. last \in BOOLEAN /\ CompressBlock(block, blockCRC, last)
      BY <2>1
    <2> HIDE DEF last
    <2>3. Written(last)
      BY <1>1, <2>2, CompressBlockFacts
    <2>4. ~CutFull
      BY <1>3 DEF CutRest, init_RL, CutFull
    <2>5. Len(block) <= NblockMax + 5
      BY <1>1 DEF BlockRoom
    <2> QED BY <1>1, <1>3, <2>1, <2>3, <2>4, <2>5 DEF last
  <1>4. CASE CutFull
    <2>1. /\ UNCHANGED <<block, blockCRC, inUse, inCh, inLen>>
          /\ CompressBlock(block, blockCRC, FALSE) /\ nblock >= NblockMax
      BY <1>4 DEF CutFull, rle
    <2>2. inCh < NoCh
      BY <1>1, <2>1 DEF BlockRoom
    <2>3. Written(FALSE)
      BY <1>1, <2>1, CompressBlockFacts
    <2>4. ~CutRest
      BY <1>4 DEF CutRest, init_RL, CutFull
    <2>5. Len(block) <= NblockMax + 5
      BY <1>1 DEF BlockRoom
    <2> QED BY <1>1, <2>1, <2>2, <2>3, <2>4, <2>5
  <1> QED BY <1>2, <1>3, <1>4

-----------------------------------------------------------------------------
(* No byte is lost *)

(* Writing a block or the trailer keeps every unit in order. *)
LEMMA CutKeepsBytes ==
  ASSUME TypeOK, open, RunPending, Buffers, BlockRoom, Numbering, NoByteLost,
         CutRest \/ CutFull
  PROVE  NoByteLost'
  <1>1. state = "INPUT" /\ pos = 0 /\ pos' = pos /\ sent' = sent
    BY DEF CutRest, init_RL, CutFull, StopAbsorbing, Buffers
  <1>2. /\ written' \in Seq(Unit) /\ zbits' \in Seq(Unit) /\ hold' \in Seq(Unit)
        /\ sent \o (zbits' \o hold') = written'
        /\ sections' # <<>>
    BY CutFacts
  <1>3. Pending' = zbits'
    <2>1. SubSeq(zbits', 1, Len(zbits')) = zbits'
      BY <1>2, SubSeqFull
    <2> QED BY <1>1, <2>1 DEF Pending, numZ
  <1>4. Unwritten' = hold'
    BY <1>2 DEF Unwritten
  <1>5. sent \o (zbits' \o hold') = (sent \o zbits') \o hold'
    <2>1. sent \in Seq(Unit) /\ zbits' \in Seq(Unit) /\ hold' \in Seq(Unit)
      BY <1>2 DEF TypeOK
    <2> QED BY <2>1, Associative
  <1> QED BY <1>1, <1>2, <1>3, <1>4, <1>5 DEF NoByteLost

(* What is delivered and what is still pending were pending. *)
LEMMA CopyFacts ==
  ASSUME TypeOK, Buffers
  PROVE  /\ CopyLen \in 0 .. numZ - pos /\ CopyLen \in 0 .. availOut
         /\ SubSeq(zbits, pos + 1, pos + CopyLen) \in Seq(Unit)
         /\ SubSeq(zbits, pos + CopyLen + 1, numZ) \in Seq(Unit)
         /\ SubSeq(zbits, pos + 1, pos + CopyLen) \o SubSeq(zbits, pos + CopyLen + 1, numZ)
            = Pending
  <1>1. /\ zbits \in Seq(Unit) /\ numZ = Len(zbits) /\ numZ \in Nat /\ pos \in 0..numZ
    BY LenProperties DEF TypeOK, Buffers, numZ
  <1>2. CopyLen \in 0 .. numZ - pos /\ CopyLen \in 0 .. availOut
    <2>1. availOut \in Nat
      BY DEF TypeOK
    <2> QED BY <1>1, <2>1 DEF CopyLen
  <1> DEFINE k == pos + CopyLen
  <1>3. /\ pos + 1 \in 1 .. Len(zbits) + 1 /\ k \in (pos + 1) - 1 .. Len(zbits)
        /\ Len(zbits) \in k .. Len(zbits)
    BY <1>1, <1>2
  <1> HIDE DEF k
  <1>4. /\ SubSeq(zbits, pos + 1, k) \in Seq(Unit) /\ SubSeq(zbits, k + 1, numZ) \in Seq(Unit)
    BY <1>1, <1>3
  <1>5. SubSeq(zbits, pos + 1, k) \o SubSeq(zbits, k + 1, Len(zbits))
        = SubSeq(zbits, pos + 1, Len(zbits))
    BY <1>1, <1>3, ConcatAdjacentSubSeq, Zenon
  <1> QED BY <1>2, <1>4, <1>5 DEF k, Pending, numZ

(* copy_output_until_stop never copies more than next_out has room for. *)
LEMMA CopyRange ==
  ASSUME TypeOK, Buffers
  PROVE  CopyLen \in Nat /\ CopyLen <= availOut
  <1>1. availOut \in Nat /\ CopyLen \in 0..availOut
    BY CopyFacts DEF TypeOK
  <1> QED BY <1>1

(* Copying output until the room or the block ends keeps every unit. *)
LEMMA StopsKeepsBytes ==
  ASSUME TypeOK, Buffers, NoByteLost, OutputStops
  PROVE  NoByteLost'
  <1> DEFINE a == SubSeq(zbits, pos + 1, pos + CopyLen)
             b == SubSeq(zbits, pos + CopyLen + 1, numZ)
  <1>1. a \in Seq(Unit) /\ b \in Seq(Unit) /\ sent \in Seq(Unit)
    BY CopyFacts DEF TypeOK
  <1>2. a \o b = Pending
    BY CopyFacts
  <1>3. sent' = sent \o a
    BY DEF OutputStops, CopyOutput
  <1>4. Pending' = b /\ Unwritten' = Unwritten /\ written' = written /\ open' = open
    BY DEF OutputStops, Pending, Unwritten, numZ
  <1> HIDE DEF a, b
  <1>5. sent \o (a \o b) = (sent \o a) \o b
    BY <1>1, Associative
  <1> QED BY <1>2, <1>3, <1>4, <1>5 DEF NoByteLost

(* The block that replaces a drained one leaves no unit behind. *)
LEMMA NextBlockKeepsBytes ==
  ASSUME TypeOK, Buffers, NoByteLost, OutputNextBlock
  PROVE  NoByteLost'
  <1>1. /\ CopyLen \in 0 .. numZ - pos /\ pos + CopyLen >= numZ
        /\ numZ \in Nat /\ pos \in Nat
    BY CopyFacts, LenProperties DEF TypeOK, OutputNextBlock, Drained, numZ
  <1>2. pos + CopyLen = numZ
    BY <1>1
  <1>3. sent' = sent \o Pending
    BY <1>2 DEF OutputNextBlock, CopyOutput, Pending
  <1>4. zbits' = <<>> /\ pos' = 0 /\ Unwritten' = Unwritten /\ written' = written /\ open' = open
    BY DEF OutputNextBlock, prepare_new_block, Unwritten
  <1>5. Pending' = <<>>
    BY <1>4 DEF Pending, numZ
  <1>6. sent \o Pending \in Seq(Unit)
    <2>1. Pending \in Seq(Unit)
      BY <1>1 DEF Pending, numZ, TypeOK
    <2> QED BY <2>1, ConcatProperties DEF TypeOK
  <1>7. sent' \o <<>> = sent'
    BY <1>3, <1>6, ConcatEmptySeq
  <1> QED BY <1>3, <1>4, <1>5, <1>7 DEF NoByteLost

-----------------------------------------------------------------------------
(* The counters *)

(* A remainder modulo W is a value of a 32-bit word. *)
LEMMA ModRange == ASSUME NEW x \in Int PROVE x % W \in 0..W-1
  OBVIOUS

(* The 64-bit totals, kept in two words, stay within their words. *)
LEMMA CountFacts ==
  ASSUME NEW t \in [lo : 0..W-1, hi : 0..W-1], NEW n \in Nat
  PROVE  /\ CountIn(t) \in [lo : 0..W-1, hi : 0..W-1]
         /\ CountOut(t, n) \in [lo : 0..W-1, hi : 0..W-1]
  BY ModRange DEF CountIn, CountOut

(* A new stream has counted nothing. *)
LEMMA ZeroCounter == [lo |-> 0, hi |-> 0] \in [lo : 0..W-1, hi : 0..W-1]
  OBVIOUS

(* total_in_lo32++ and total_out_lo32 += n count modulo W * W. *)
LEMMA CountInExact ==
  ASSUME NEW t \in [lo : 0..W-1, hi : 0..W-1], NEW N \in Nat, Total(t) = N % (W * W)
  PROVE  Total(CountIn(t)) = (N + 1) % (W * W)
  <1> DEFINE lo == t.lo
             hi == t.hi
             lo2 == (lo + 1) % W
             hi2 == IF lo2 = 0 THEN (hi + 1) % W ELSE hi
  <1>1. lo \in 0..W-1 /\ hi \in 0..W-1 /\ Number(W, lo, hi) = N % Numbers(W)
    BY DEF Total, Number, Numbers
  <1>2. Total(CountIn(t)) = Number(W, lo2, hi2)
    BY DEF Total, CountIn, Number
  <1> HIDE DEF lo, hi
  <1>3. Number(W, lo2, hi2) = (N + 1) % Numbers(W)
    BY <1>1, CarryOne
  <1> HIDE DEF lo2, hi2
  <1> QED BY <1>2, <1>3 DEF Numbers

(* So is counting the output. *)
LEMMA CountOutExact ==
  ASSUME NEW t \in [lo : 0..W-1, hi : 0..W-1], NEW N \in Nat, Total(t) = N % (W * W),
         NEW n \in 0..W-1
  PROVE  Total(CountOut(t, n)) = (N + n) % (W * W)
  <1> DEFINE lo == t.lo
             hi == t.hi
             lo2 == (lo + n) % W
             hi2 == IF lo2 < lo THEN (hi + 1) % W ELSE hi
  <1>1. lo \in 0..W-1 /\ hi \in 0..W-1 /\ Number(W, lo, hi) = N % Numbers(W)
    BY DEF Total, Number, Numbers
  <1>2. Total(CountOut(t, n)) = Number(W, lo2, hi2)
    BY DEF Total, CountOut, Number
  <1>3. lo2 = (lo + n) % W /\ hi2 = IF lo2 < lo THEN (hi + 1) % W ELSE hi
    OBVIOUS
  <1> HIDE DEF lo, hi, lo2, hi2
  <1>4. Number(W, lo2, hi2) = (N + n) % Numbers(W)
    BY <1>1, <1>3, CarryUp
  <1> QED BY <1>2, <1>4 DEF Numbers

(* The output half appends CopyLen units to what was delivered. *)
LEMMA CopySends ==
  ASSUME TypeOK, Buffers, CopyOutput
  PROVE  /\ \E piece \in Seq(Unit) : sent' = sent \o piece
         /\ sent' \in Seq(Unit) /\ Len(sent') = Len(sent) + CopyLen
  <1> DEFINE piece == SubSeq(zbits, pos + 1, pos + CopyLen)
  <1>1. sent' = sent \o piece
    BY DEF CopyOutput
  <1>2. CopyLen \in Nat /\ pos + CopyLen <= Len(zbits) /\ pos \in Nat
    <2>1. pos \in Nat /\ numZ \in Nat
      BY LenProperties DEF TypeOK, numZ
    <2>2. CopyLen \in 0 .. numZ - pos
      BY CopyFacts
    <2> HIDE DEF piece
    <2> QED BY <2>1, <2>2 DEF numZ
  <1>3. piece \in Seq(Unit) /\ Len(piece) = CopyLen
    <2>1. CopyLen \in Nat /\ zbits \in Seq(Unit) /\ Len(zbits) \in Nat
      BY <1>2, LenProperties DEF TypeOK
    <2>2. piece \in Seq(Unit)
      BY CopyFacts
    <2>3. Len(piece) = CopyLen
      BY <1>2, <2>1, SubSeqProperties
    <2> QED BY <2>2, <2>3
  <1> HIDE DEF piece
  <1>4. sent \in Seq(Unit)
    BY DEF TypeOK
  <1>5. sent \o piece \in Seq(Unit) /\ Len(sent \o piece) = Len(sent) + Len(piece)
    BY <1>3, <1>4, ConcatProperties
  <1> QED BY <1>1, <1>3, <1>5

(* copy_output_until_stop counts what it copies. *)
LEMMA CopyCounts ==
  ASSUME TypeOK, Buffers, CountersExact, CopyOutput, open', UNCHANGED <<open, totalIn, consumed>>
  PROVE  /\ Total(totalIn)'  = Len(consumed') % (W * W)
         /\ Total(totalOut)' = Len(sent') % (W * W)
  <1>1. totalOut' = CountOut(totalOut, CopyLen)
    BY DEF CopyOutput
  <1>2. CopyLen \in 0..W-1
    <2>1. availOut \in 0..MaxOut
      BY DEF TypeOK
    <2>2. CopyLen \in 0 .. availOut
      BY CopyFacts
    <2> QED BY <2>1, <2>2
  <1>4. Len(sent') = Len(sent) + CopyLen /\ Len(sent) \in Nat
    <2>1. sent \in Seq(Unit)
      BY DEF TypeOK
    <2> QED BY <2>1, CopySends, LenProperties
  <1>5. open /\ Total(totalOut) = Len(sent) % (W * W)
    BY DEF CountersExact
  <1>6. totalOut \in [lo : 0..W-1, hi : 0..W-1]
    BY DEF TypeOK
  <1>7. Total(CountOut(totalOut, CopyLen)) = (Len(sent) + CopyLen) % (W * W)
    BY <1>2, <1>4, <1>5, <1>6, CountOutExact
  <1>8. Total(totalIn)'  = Len(consumed') % (W * W)
    BY <1>5 DEF CountersExact, Total
  <1> QED BY <1>1, <1>4, <1>7, <1>8 DEF Total

-----------------------------------------------------------------------------
(* Every step keeps each part of the invariant *)

(* A run and its byte are pending together. *)
LEMMA RunPendingStep ==
  TypeOK /\ RunPending /\ [Next]_vars
  => RunPending'
<1> SUFFICES ASSUME TypeOK, RunPending, [Next]_vars
             PROVE  RunPending'
  OBVIOUS
<1>1. CASE CompressInitOK
  BY <1>1 DEF CompressInitOK, init_RL, RunPending, TypeOK, NoCh
<1>2. CASE CompressInitFails
  BY <1>2 DEF CompressInitFails, FreeOnFailure, rle, coder, caller, hist, RunPending,
       TypeOK, NoCh
<1>3. CASE CompressEnd
  BY <1>3 DEF CompressEnd, caller, RunPending, TypeOK, NoCh
<1>4. CASE NoState
  BY <1>4 DEF NoState, rle, coder, caller, hist, RunPending, TypeOK, NoCh
<1>5. CASE \E a \in Actions, n \in 0..MaxIn, m \in 0..MaxOut : Enter(a, n, m)
  BY <1>5 DEF Enter, EnterRun, EnterStart, EnterAgain, StartMode, Offer, rle, coder,
       hist, RunPending, TypeOK, NoCh
<1>6. CASE \E a \in Actions, n \in 0..MaxIn, m \in 0..MaxOut : Refuse(a, n, m)
  BY <1>6 DEF Refuse, Offer, rle, coder, hist, RunPending, TypeOK, NoCh
<1>7. CASE AbsorbByte
  <2>1. inCh' \in Bytes /\ inLen' \in 1..MaxRun
    BY <1>7, AbsorbFacts
  <2> QED BY <2>1 DEF RunPending, NoCh
<1>8. CASE CutRest
  BY <1>8 DEF CutRest, init_RL, StopAbsorbing, MustCut, caller, RunPending, TypeOK, NoCh
<1>9. CASE CutFull
  BY <1>9 DEF CutFull, StopAbsorbing, MustCut, caller, rle, RunPending, TypeOK, NoCh
<1>10. CASE Starve
  BY <1>10 DEF Starve, StopAbsorbing, MustCut, rle, coder, caller, hist, RunPending,
       TypeOK, NoCh
<1>11. CASE OutputStops
  BY <1>11 DEF OutputStops, CopyOutput, CopyLen, rle, RunPending, TypeOK, NoCh
<1>12. CASE OutputNextBlock
  BY <1>12 DEF OutputNextBlock, CopyOutput, prepare_new_block, NextBlockNo, RunPending,
       TypeOK, NoCh
<1>13. CASE Return
  BY <1>13 DEF Return, rle, coder, caller, hist, RunPending, TypeOK, NoCh
<1>14. CASE UNCHANGED vars
  BY <1>14 DEF vars, rle, coder, caller, hist, RunPending, TypeOK, NoCh
<1> QED BY <1>1, <1>2, <1>3, <1>4, <1>5, <1>6, <1>7, <1>8, <1>9, <1>10, <1>11, <1>12,
     <1>13, <1>14 DEF Next, Library, Caller

(* The byte that fills the block starts a run; nothing is added to a full  *)
(* block but that run of one.                                              *)
LEMMA RoomStep ==
  TypeOK /\ RunPending /\ Buffers /\ Numbering /\ Left /\ BlockRoom /\ [Next]_vars
  => BlockRoom'
<1> SUFFICES ASSUME TypeOK, RunPending, Buffers, Numbering, Left, BlockRoom, [Next]_vars
             PROVE  BlockRoom'
  OBVIOUS
<1>1. CASE CompressInitOK
  BY <1>1 DEF CompressInitOK, init_RL, BlockRoom, TypeOK, NoCh, nblock
<1>2. CASE CompressInitFails
  BY <1>2 DEF CompressInitFails, FreeOnFailure, rle, coder, caller, hist, BlockRoom,
       TypeOK, NoCh, nblock
<1>3. CASE CompressEnd
  BY <1>3 DEF CompressEnd, caller, BlockRoom, TypeOK, NoCh, nblock
<1>4. CASE NoState
  BY <1>4 DEF NoState, rle, coder, caller, hist, BlockRoom, TypeOK, NoCh, nblock
<1>5. CASE \E a \in Actions, n \in 0..MaxIn, m \in 0..MaxOut : Enter(a, n, m)
  BY <1>5 DEF Enter, EnterRun, EnterStart, EnterAgain, StartMode, Offer, rle, coder,
       hist, BlockRoom, TypeOK, NoCh, nblock
<1>6. CASE \E a \in Actions, n \in 0..MaxIn, m \in 0..MaxOut : Refuse(a, n, m)
  BY <1>6 DEF Refuse, Offer, rle, coder, hist, BlockRoom, TypeOK, NoCh, nblock
<1>7. CASE AbsorbByte
  <2>1. /\ inCh' \in Bytes /\ Len(block') \in nblock .. nblock + 5
        /\ Len(block') # nblock => inLen' = 1
        /\ nblock < NblockMax
    BY <1>7, AbsorbFacts
  <2>2. nblock \in Nat /\ state' = "INPUT"
    BY <1>7, LenProperties DEF TypeOK, nblock, AbsorbByte
  <2>3. nblock' = Len(block')
    BY DEF nblock
  <2> QED BY <2>1, <2>2, <2>3 DEF BlockRoom, NoCh
<1>8. CASE CutRest
  BY <1>8, CutFacts DEF Left, CutRest, init_RL, StopAbsorbing, MustCut, caller, BlockRoom, TypeOK,
       NoCh, nblock
<1>9. CASE CutFull
  BY <1>9, CutFacts DEF Left, CutFull, StopAbsorbing, MustCut, caller, rle, BlockRoom, TypeOK,
       NoCh, nblock
<1>10. CASE Starve
  BY <1>10 DEF Starve, StopAbsorbing, MustCut, rle, coder, caller, hist, BlockRoom,
       TypeOK, NoCh, nblock
<1>11. CASE OutputStops
  BY <1>11 DEF OutputStops, CopyOutput, CopyLen, rle, BlockRoom, TypeOK, NoCh, nblock
<1>12. CASE OutputNextBlock
  BY <1>12 DEF OutputNextBlock, CopyOutput, prepare_new_block, NextBlockNo, BlockRoom,
       TypeOK, NoCh, nblock
<1>13. CASE Return
  BY <1>13 DEF Return, rle, coder, caller, hist, BlockRoom, TypeOK, NoCh, nblock
<1>14. CASE UNCHANGED vars
  BY <1>14 DEF vars, rle, coder, caller, hist, BlockRoom, TypeOK, NoCh, nblock
<1> QED BY <1>1, <1>2, <1>3, <1>4, <1>5, <1>6, <1>7, <1>8, <1>9, <1>10, <1>11, <1>12,
     <1>13, <1>14 DEF Next, Library, Caller

(* state_out_pos stays within zbits, which is empty while a block is       *)
(* being filled.                                                           *)
LEMMA BuffersStep ==
  TypeOK /\ RunPending /\ BlockRoom /\ Numbering /\ Left /\ Buffers /\ [Next]_vars
  => Buffers'
<1> SUFFICES ASSUME TypeOK, RunPending, BlockRoom, Numbering, Left, Buffers, [Next]_vars
             PROVE  Buffers'
  OBVIOUS
<1>1. CASE CompressInitOK
  BY <1>1 DEF CompressInitOK, init_RL, Buffers, TypeOK, numZ
<1>2. CASE CompressInitFails
  BY <1>2 DEF CompressInitFails, FreeOnFailure, rle, coder, caller, hist, Buffers,
       TypeOK, numZ
<1>3. CASE CompressEnd
  BY <1>3 DEF CompressEnd, caller, Buffers, TypeOK, numZ
<1>4. CASE NoState
  BY <1>4 DEF NoState, rle, coder, caller, hist, Buffers, TypeOK, numZ
<1>5. CASE \E a \in Actions, n \in 0..MaxIn, m \in 0..MaxOut : Enter(a, n, m)
  BY <1>5 DEF Enter, EnterRun, EnterStart, EnterAgain, StartMode, Offer, rle, coder,
       hist, Buffers, TypeOK, numZ
<1>6. CASE \E a \in Actions, n \in 0..MaxIn, m \in 0..MaxOut : Refuse(a, n, m)
  BY <1>6 DEF Refuse, Offer, rle, coder, hist, Buffers, TypeOK, numZ
<1>7. CASE AbsorbByte
  BY <1>7 DEF AbsorbByte, CanAbsorb, coder, Buffers, TypeOK, numZ
<1>8. CASE CutRest
  BY <1>8, CutFacts DEF Left, CutRest, init_RL, StopAbsorbing, MustCut, caller, Buffers, TypeOK, numZ
<1>9. CASE CutFull
  BY <1>9, CutFacts DEF Left, CutFull, StopAbsorbing, MustCut, caller, rle, Buffers, TypeOK,
       numZ
<1>10. CASE Starve
  BY <1>10 DEF Starve, StopAbsorbing, MustCut, rle, coder, caller, hist, Buffers,
       TypeOK, numZ
<1>11. CASE OutputStops
  BY <1>11 DEF OutputStops, CopyOutput, CopyLen, rle, Buffers, TypeOK, numZ
<1>12. CASE OutputNextBlock
  BY <1>12 DEF OutputNextBlock, CopyOutput, prepare_new_block, NextBlockNo, Buffers,
       TypeOK, numZ
<1>13. CASE Return
  BY <1>13 DEF Return, rle, coder, caller, hist, Buffers, TypeOK, numZ
<1>14. CASE UNCHANGED vars
  BY <1>14 DEF vars, rle, coder, caller, hist, Buffers, TypeOK, numZ
<1> QED BY <1>1, <1>2, <1>3, <1>4, <1>5, <1>6, <1>7, <1>8, <1>9, <1>10, <1>11, <1>12,
     <1>13, <1>14 DEF Next, Library, Caller

(* blockNo tells whether the header is written. *)
LEMMA NumberingStep ==
  TypeOK /\ RunPending /\ BlockRoom /\ Buffers /\ Left /\ Numbering /\ [Next]_vars
  => Numbering'
<1> SUFFICES ASSUME TypeOK, RunPending, BlockRoom, Buffers, Left, Numbering, [Next]_vars
             PROVE  Numbering'
  OBVIOUS
<1>1. CASE CompressInitOK
  BY <1>1 DEF CompressInitOK, init_RL, Numbering, Left, TypeOK
<1>2. CASE CompressInitFails
  BY <1>2 DEF CompressInitFails, FreeOnFailure, rle, coder, caller, hist, Numbering,
       Left, TypeOK
<1>3. CASE CompressEnd
  BY <1>3 DEF CompressEnd, caller, Numbering, Left, TypeOK
<1>4. CASE NoState
  BY <1>4 DEF NoState, rle, coder, caller, hist, Numbering, Left, TypeOK
<1>5. CASE \E a \in Actions, n \in 0..MaxIn, m \in 0..MaxOut : Enter(a, n, m)
  BY <1>5 DEF Enter, EnterRun, EnterStart, EnterAgain, StartMode, Offer, rle, coder,
       hist, Numbering, Left, TypeOK
<1>6. CASE \E a \in Actions, n \in 0..MaxIn, m \in 0..MaxOut : Refuse(a, n, m)
  BY <1>6 DEF Refuse, Offer, rle, coder, hist, Numbering, Left, TypeOK
<1>7. CASE AbsorbByte
  BY <1>7 DEF AbsorbByte, CanAbsorb, coder, Numbering, Left, TypeOK
<1>8. CASE CutRest
  BY <1>8, CutFacts DEF CutRest, init_RL, StopAbsorbing, MustCut, caller, Numbering, Left, TypeOK
<1>9. CASE CutFull
  BY <1>9, CutFacts DEF CutFull, StopAbsorbing, MustCut, caller, rle, Numbering, Left,
       TypeOK
<1>10. CASE Starve
  BY <1>10 DEF Starve, StopAbsorbing, MustCut, rle, coder, caller, hist, Numbering,
       Left, TypeOK
<1>11. CASE OutputStops
  BY <1>11 DEF OutputStops, CopyOutput, CopyLen, rle, Numbering, Left, TypeOK
<1>12. CASE OutputNextBlock
  BY <1>12 DEF OutputNextBlock, CopyOutput, prepare_new_block, NextBlockNo, Numbering,
       Left, TypeOK
<1>13. CASE Return
  BY <1>13 DEF Return, rle, coder, caller, hist, Numbering, Left, TypeOK
<1>14. CASE UNCHANGED vars
  BY <1>14 DEF vars, rle, coder, caller, hist, Numbering, Left, TypeOK
<1> QED BY <1>1, <1>2, <1>3, <1>4, <1>5, <1>6, <1>7, <1>8, <1>9, <1>10, <1>11, <1>12,
     <1>13, <1>14 DEF Next, Library, Caller

(* Why the loop was left. *)
LEMMA LeftStep ==
  TypeOK /\ Buffers /\ Left /\ [Next]_vars
  => Left'
<1> SUFFICES ASSUME TypeOK, Buffers, Left, [Next]_vars
             PROVE  Left'
  OBVIOUS
<1>1. CASE CompressInitOK
  BY <1>1 DEF CompressInitOK, init_RL, TypeOK, Left, numZ, Buffers, Drained
<1>2. CASE CompressInitFails
  BY <1>2 DEF CompressInitFails, FreeOnFailure, rle, coder, caller, hist, TypeOK, Left,
       numZ, Buffers, Drained
<1>3. CASE CompressEnd
  BY <1>3 DEF CompressEnd, caller, TypeOK, Left, numZ, Buffers, Drained
<1>4. CASE NoState
  BY <1>4 DEF NoState, rle, coder, caller, hist, TypeOK, Left, numZ, Buffers, Drained
<1>5. CASE \E a \in Actions, n \in 0..MaxIn, m \in 0..MaxOut : Enter(a, n, m)
  BY <1>5, SMTT(30) DEF Enter, EnterRun, EnterStart, EnterAgain, StartMode, Offer, rle, coder,
       hist, TypeOK, Left, numZ, Buffers, Drained
<1>6. CASE \E a \in Actions, n \in 0..MaxIn, m \in 0..MaxOut : Refuse(a, n, m)
  BY <1>6 DEF Refuse, Offer, rle, coder, hist, TypeOK, Left, numZ, Buffers, Drained
<1>7. CASE AbsorbByte
  BY <1>7 DEF AbsorbByte, CanAbsorb, coder, TypeOK, Left, numZ, Buffers, Drained
<1>8. CASE CutRest
  BY <1>8, CutFacts DEF Left, CutRest, init_RL, StopAbsorbing, MustCut, caller, TypeOK, Left, numZ,
       Buffers, Drained
<1>9. CASE CutFull
  BY <1>9, CutFacts DEF Left, CutFull, StopAbsorbing, MustCut, caller, rle, TypeOK, Left,
       numZ, Buffers, Drained
<1>10. CASE Starve
  BY <1>10 DEF Starve, StopAbsorbing, MustCut, rle, coder, caller, hist, TypeOK, Left,
       numZ, Buffers, Drained
<1>11. CASE OutputStops
  BY <1>11 DEF OutputStops, CopyOutput, CopyLen, rle, TypeOK, Left, numZ, Buffers,
       Drained
<1>12. CASE OutputNextBlock
  BY <1>12 DEF OutputNextBlock, CopyOutput, prepare_new_block, NextBlockNo, TypeOK,
       Left, numZ, Buffers, Drained
<1>13. CASE Return
  BY <1>13 DEF Return, rle, coder, caller, hist, TypeOK, Left, numZ, Buffers, Drained
<1>14. CASE UNCHANGED vars
  BY <1>14 DEF vars, rle, coder, caller, hist, TypeOK, Left, numZ, Buffers, Drained
<1> QED BY <1>1, <1>2, <1>3, <1>4, <1>5, <1>6, <1>7, <1>8, <1>9, <1>10, <1>11, <1>12,
     <1>13, <1>14 DEF Next, Library, Caller

(* Every step keeps the types. *)
LEMMA TypeStep ==
  TypeOK /\ RunPending /\ Buffers /\ BlockRoom /\ Numbering /\ Left /\ [Next]_vars
  => TypeOK'
<1> SUFFICES ASSUME TypeOK, RunPending, Buffers, BlockRoom, Numbering, Left, [Next]_vars
             PROVE  TypeOK'
  OBVIOUS
<1>1. CASE CompressInitOK
  <2>1. /\ open' \in BOOLEAN /\ progress' \in BOOLEAN
    BY <1>1 DEF CompressInitOK, init_RL, TypeOK
  <2>2. /\ live' \subseteq Allocations /\ mode' \in Modes
        /\ state' \in {"INPUT", "OUTPUT"} /\ expect' \in 0..MaxIn
        /\ pc' \in {"caller", "loop", "ret"} /\ ret' \in Returns
    BY <1>1 DEF CompressInitOK, init_RL, TypeOK, Modes, Returns
  <2>3. /\ inCh' \in Bytes \union {NoCh} /\ inLen' \in 0..MaxRun
        /\ block' \in Seq(Byte) /\ inUse' \subseteq Byte /\ blockCRC' \in Seq(Byte)
    BY <1>1 DEF CompressInitOK, init_RL, TypeOK, NoCh
  <2>4. /\ blockNo' \in 0..2 /\ combinedCRC' \in Seq(Seq(Byte))
        /\ zbits' \in Seq(Unit) /\ pos' \in Nat /\ hold' \in Seq(Unit)
    BY <1>1 DEF CompressInitOK, init_RL, TypeOK, Unit, Garbage
  <2>5. /\ availIn' \in 0..MaxIn /\ availOut' \in 0..MaxOut
        /\ totalIn' \in [lo : 0..W-1, hi : 0..W-1]
        /\ totalOut' \in [lo : 0..W-1, hi : 0..W-1]
    BY <1>1, ZeroCounter DEF CompressInitOK, init_RL, TypeOK
  <2>6. /\ consumed' \in Seq(Bytes) /\ sections' \in Seq(SectionType)
        /\ written' \in Seq(Unit) /\ sent' \in Seq(Unit)
    BY <1>1 DEF CompressInitOK, init_RL, TypeOK
  <2> QED BY <2>1, <2>2, <2>3, <2>4, <2>5, <2>6 DEF TypeOK
<1>2. CASE CompressInitFails
  BY <1>2 DEF CompressInitFails, FreeOnFailure, rle, coder, caller, hist, TypeOK, Modes,
       Returns, NoCh, Byte
<1>3. CASE CompressEnd
  <2>1. /\ open' \in BOOLEAN /\ progress' \in BOOLEAN
    BY <1>3 DEF CompressEnd, caller, TypeOK
  <2>2. /\ live' \subseteq Allocations /\ mode' \in Modes
        /\ state' \in {"INPUT", "OUTPUT"} /\ expect' \in 0..MaxIn
        /\ pc' \in {"caller", "loop", "ret"} /\ ret' \in Returns
    BY <1>3 DEF CompressEnd, caller, TypeOK, Modes, Returns
  <2>3. /\ inCh' \in Bytes \union {NoCh} /\ inLen' \in 0..MaxRun
        /\ block' \in Seq(Byte) /\ inUse' \subseteq Byte /\ blockCRC' \in Seq(Byte)
    BY <1>3 DEF CompressEnd, caller, TypeOK, NoCh
  <2>4. /\ blockNo' \in 0..2 /\ combinedCRC' \in Seq(Seq(Byte))
        /\ zbits' \in Seq(Unit) /\ pos' \in Nat /\ hold' \in Seq(Unit)
    BY <1>3 DEF CompressEnd, caller, TypeOK
  <2>5. /\ availIn' \in 0..MaxIn /\ availOut' \in 0..MaxOut
        /\ totalIn' \in [lo : 0..W-1, hi : 0..W-1]
        /\ totalOut' \in [lo : 0..W-1, hi : 0..W-1]
    BY <1>3 DEF CompressEnd, caller, TypeOK
  <2>6. /\ consumed' \in Seq(Bytes) /\ sections' \in Seq(SectionType)
        /\ written' \in Seq(Unit) /\ sent' \in Seq(Unit)
    BY <1>3 DEF CompressEnd, caller, TypeOK
  <2> QED BY <2>1, <2>2, <2>3, <2>4, <2>5, <2>6 DEF TypeOK
<1>4. CASE NoState
  BY <1>4 DEF NoState, rle, coder, caller, hist, TypeOK, Modes, Returns, NoCh, Byte
<1>5. CASE \E a \in Actions, n \in 0..MaxIn, m \in 0..MaxOut : Enter(a, n, m)
  <2>1. /\ open' \in BOOLEAN /\ progress' \in BOOLEAN
    BY <1>5 DEF Enter, EnterRun, EnterStart, EnterAgain, StartMode, Offer, rle, coder,
         hist, TypeOK
  <2>2. /\ live' \subseteq Allocations /\ mode' \in Modes
        /\ state' \in {"INPUT", "OUTPUT"} /\ expect' \in 0..MaxIn
        /\ pc' \in {"caller", "loop", "ret"} /\ ret' \in Returns
    BY <1>5, SMTT(30) DEF Enter, EnterRun, EnterStart, EnterAgain, StartMode, Offer, rle, coder,
         hist, TypeOK, Modes, Returns
  <2>3. /\ inCh' \in Bytes \union {NoCh} /\ inLen' \in 0..MaxRun
        /\ block' \in Seq(Byte) /\ inUse' \subseteq Byte /\ blockCRC' \in Seq(Byte)
    BY <1>5 DEF Enter, EnterRun, EnterStart, EnterAgain, StartMode, Offer, rle, coder,
         hist, TypeOK
  <2>4. /\ blockNo' \in 0..2 /\ combinedCRC' \in Seq(Seq(Byte))
        /\ zbits' \in Seq(Unit) /\ pos' \in Nat /\ hold' \in Seq(Unit)
    BY <1>5 DEF Enter, EnterRun, EnterStart, EnterAgain, StartMode, Offer, rle, coder,
         hist, TypeOK
  <2>5. /\ availIn' \in 0..MaxIn /\ availOut' \in 0..MaxOut
        /\ totalIn' \in [lo : 0..W-1, hi : 0..W-1]
        /\ totalOut' \in [lo : 0..W-1, hi : 0..W-1]
    BY <1>5 DEF Enter, EnterRun, EnterStart, EnterAgain, StartMode, Offer, rle, coder,
         hist, TypeOK
  <2>6. /\ consumed' \in Seq(Bytes) /\ sections' \in Seq(SectionType)
        /\ written' \in Seq(Unit) /\ sent' \in Seq(Unit)
    BY <1>5 DEF Enter, EnterRun, EnterStart, EnterAgain, StartMode, Offer, rle, coder,
         hist, TypeOK
  <2> QED BY <2>1, <2>2, <2>3, <2>4, <2>5, <2>6 DEF TypeOK
<1>6. CASE \E a \in Actions, n \in 0..MaxIn, m \in 0..MaxOut : Refuse(a, n, m)
  <2>1. /\ open' \in BOOLEAN /\ progress' \in BOOLEAN
    BY <1>6 DEF Refuse, Offer, rle, coder, hist, TypeOK
  <2>2. /\ live' \subseteq Allocations /\ mode' \in Modes
        /\ state' \in {"INPUT", "OUTPUT"} /\ expect' \in 0..MaxIn
        /\ pc' \in {"caller", "loop", "ret"} /\ ret' \in Returns
    BY <1>6 DEF Refuse, Offer, rle, coder, hist, TypeOK, Returns, RefusedWith
  <2>3. /\ inCh' \in Bytes \union {NoCh} /\ inLen' \in 0..MaxRun
        /\ block' \in Seq(Byte) /\ inUse' \subseteq Byte /\ blockCRC' \in Seq(Byte)
    BY <1>6 DEF Refuse, Offer, rle, coder, hist, TypeOK
  <2>4. /\ blockNo' \in 0..2 /\ combinedCRC' \in Seq(Seq(Byte))
        /\ zbits' \in Seq(Unit) /\ pos' \in Nat /\ hold' \in Seq(Unit)
    BY <1>6 DEF Refuse, Offer, rle, coder, hist, TypeOK
  <2>5. /\ availIn' \in 0..MaxIn /\ availOut' \in 0..MaxOut
        /\ totalIn' \in [lo : 0..W-1, hi : 0..W-1]
        /\ totalOut' \in [lo : 0..W-1, hi : 0..W-1]
    BY <1>6 DEF Refuse, Offer, rle, coder, hist, TypeOK
  <2>6. /\ consumed' \in Seq(Bytes) /\ sections' \in Seq(SectionType)
        /\ written' \in Seq(Unit) /\ sent' \in Seq(Unit)
    BY <1>6 DEF Refuse, Offer, rle, coder, hist, TypeOK
  <2> QED BY <2>1, <2>2, <2>3, <2>4, <2>5, <2>6 DEF TypeOK
<1>7. CASE AbsorbByte
  <2>1. /\ open' \in BOOLEAN /\ progress' \in BOOLEAN
    BY <1>7 DEF AbsorbByte, CanAbsorb, coder, TypeOK
  <2>2. /\ live' \subseteq Allocations /\ mode' \in Modes
        /\ state' \in {"INPUT", "OUTPUT"} /\ expect' \in 0..MaxIn
        /\ pc' \in {"caller", "loop", "ret"} /\ ret' \in Returns
    BY <1>7 DEF AbsorbByte, CanAbsorb, coder, TypeOK, Modes, Returns
  <2>3. /\ inCh' \in Bytes \union {NoCh} /\ inLen' \in 0..MaxRun
        /\ block' \in Seq(Byte) /\ inUse' \subseteq Byte /\ blockCRC' \in Seq(Byte)
    BY <1>7, AbsorbFacts
  <2>4. /\ blockNo' \in 0..2 /\ combinedCRC' \in Seq(Seq(Byte))
        /\ zbits' \in Seq(Unit) /\ pos' \in Nat /\ hold' \in Seq(Unit)
    BY <1>7 DEF AbsorbByte, CanAbsorb, coder, TypeOK
  <2>5. /\ availIn' \in 0..MaxIn /\ availOut' \in 0..MaxOut
        /\ totalIn' \in [lo : 0..W-1, hi : 0..W-1]
        /\ totalOut' \in [lo : 0..W-1, hi : 0..W-1]
    BY <1>7, CountFacts DEF AbsorbByte, CanAbsorb, coder, TypeOK
  <2>6. /\ consumed' \in Seq(Bytes) /\ sections' \in Seq(SectionType)
        /\ written' \in Seq(Unit) /\ sent' \in Seq(Unit)
    BY <1>7, AbsorbFacts DEF AbsorbByte, coder, TypeOK
  <2> QED BY <2>1, <2>2, <2>3, <2>4, <2>5, <2>6 DEF TypeOK
<1>8. CASE CutRest
  <2>1. /\ open' \in BOOLEAN /\ progress' \in BOOLEAN
    BY <1>8 DEF CutRest, init_RL, StopAbsorbing, MustCut, caller, TypeOK
  <2>2. /\ live' \subseteq Allocations /\ mode' \in Modes
        /\ state' \in {"INPUT", "OUTPUT"} /\ expect' \in 0..MaxIn
        /\ pc' \in {"caller", "loop", "ret"} /\ ret' \in Returns
    BY <1>8 DEF CutRest, init_RL, StopAbsorbing, MustCut, caller, TypeOK, Modes, Returns, Left
  <2>3. /\ inCh' \in Bytes \union {NoCh} /\ inLen' \in 0..MaxRun
        /\ block' \in Seq(Byte) /\ inUse' \subseteq Byte /\ blockCRC' \in Seq(Byte)
    BY <1>8, CutFacts DEF Left, CutRest, init_RL, StopAbsorbing, MustCut, caller, TypeOK, Left
  <2>4. /\ blockNo' \in 0..2 /\ combinedCRC' \in Seq(Seq(Byte))
        /\ zbits' \in Seq(Unit) /\ pos' \in Nat /\ hold' \in Seq(Unit)
    BY <1>8, CutFacts DEF Left, CutRest, init_RL, StopAbsorbing, MustCut, caller, TypeOK, Left
  <2>5. /\ availIn' \in 0..MaxIn /\ availOut' \in 0..MaxOut
        /\ totalIn' \in [lo : 0..W-1, hi : 0..W-1]
        /\ totalOut' \in [lo : 0..W-1, hi : 0..W-1]
    BY <1>8 DEF CutRest, init_RL, StopAbsorbing, MustCut, caller, TypeOK
  <2>6. /\ consumed' \in Seq(Bytes) /\ sections' \in Seq(SectionType)
        /\ written' \in Seq(Unit) /\ sent' \in Seq(Unit)
    BY <1>8, CutFacts DEF Left, CutRest, init_RL, StopAbsorbing, MustCut, caller, TypeOK, Left
  <2> QED BY <2>1, <2>2, <2>3, <2>4, <2>5, <2>6 DEF TypeOK
<1>9. CASE CutFull
  <2>1. /\ open' \in BOOLEAN /\ progress' \in BOOLEAN
    BY <1>9 DEF CutFull, StopAbsorbing, MustCut, caller, rle, TypeOK
  <2>2. /\ live' \subseteq Allocations /\ mode' \in Modes
        /\ state' \in {"INPUT", "OUTPUT"} /\ expect' \in 0..MaxIn
        /\ pc' \in {"caller", "loop", "ret"} /\ ret' \in Returns
    BY <1>9 DEF CutFull, StopAbsorbing, MustCut, caller, rle, TypeOK, Modes, Returns, Left
  <2>3. /\ inCh' \in Bytes \union {NoCh} /\ inLen' \in 0..MaxRun
        /\ block' \in Seq(Byte) /\ inUse' \subseteq Byte /\ blockCRC' \in Seq(Byte)
    BY <1>9, CutFacts DEF Left, CutFull, StopAbsorbing, MustCut, caller, rle, TypeOK, Left
  <2>4. /\ blockNo' \in 0..2 /\ combinedCRC' \in Seq(Seq(Byte))
        /\ zbits' \in Seq(Unit) /\ pos' \in Nat /\ hold' \in Seq(Unit)
    BY <1>9, CutFacts DEF Left, CutFull, StopAbsorbing, MustCut, caller, rle, TypeOK, Left
  <2>5. /\ availIn' \in 0..MaxIn /\ availOut' \in 0..MaxOut
        /\ totalIn' \in [lo : 0..W-1, hi : 0..W-1]
        /\ totalOut' \in [lo : 0..W-1, hi : 0..W-1]
    BY <1>9 DEF CutFull, StopAbsorbing, MustCut, caller, rle, TypeOK
  <2>6. /\ consumed' \in Seq(Bytes) /\ sections' \in Seq(SectionType)
        /\ written' \in Seq(Unit) /\ sent' \in Seq(Unit)
    BY <1>9, CutFacts DEF Left, CutFull, StopAbsorbing, MustCut, caller, rle, TypeOK, Left
  <2> QED BY <2>1, <2>2, <2>3, <2>4, <2>5, <2>6 DEF TypeOK
<1>10. CASE Starve
  <2>1. /\ pc' = "ret"
        /\ UNCHANGED <<open, live, mode, state, expect, rle, coder, caller, progress, ret, hist>>
    BY <1>10 DEF Starve
  <2> QED BY <2>1 DEF rle, coder, caller, hist, TypeOK
<1>11. CASE OutputStops
  <2>1. CopyLen \in Nat /\ CopyLen <= availOut
    BY CopyRange
  <2>2. CountOut(totalOut, CopyLen) \in [lo : 0..W-1, hi : 0..W-1]
    BY <2>1, CountFacts DEF TypeOK
  <2>3. /\ open' \in BOOLEAN /\ progress' \in BOOLEAN
    BY <1>11 DEF OutputStops, CopyOutput, rle, TypeOK
  <2>4. /\ live' \subseteq Allocations /\ mode' \in Modes
        /\ state' \in {"INPUT", "OUTPUT"} /\ expect' \in 0..MaxIn
        /\ pc' \in {"caller", "loop", "ret"} /\ ret' \in Returns
    BY <1>11 DEF OutputStops, CopyOutput, rle, TypeOK, Modes, Returns
  <2>5. /\ inCh' \in Bytes \union {NoCh} /\ inLen' \in 0..MaxRun
        /\ block' \in Seq(Byte) /\ inUse' \subseteq Byte /\ blockCRC' \in Seq(Byte)
    BY <1>11 DEF OutputStops, CopyOutput, rle, TypeOK
  <2>6. /\ blockNo' \in 0..2 /\ combinedCRC' \in Seq(Seq(Byte))
        /\ zbits' \in Seq(Unit) /\ pos' \in Nat /\ hold' \in Seq(Unit)
    BY <1>11, <2>1 DEF OutputStops, CopyOutput, rle, TypeOK
  <2>7. /\ availIn' \in 0..MaxIn /\ availOut' \in 0..MaxOut
        /\ totalIn' \in [lo : 0..W-1, hi : 0..W-1]
        /\ totalOut' \in [lo : 0..W-1, hi : 0..W-1]
    BY <1>11, <2>1, <2>2 DEF OutputStops, CopyOutput, rle, TypeOK
  <2>8. /\ consumed' \in Seq(Bytes) /\ sections' \in Seq(SectionType)
        /\ written' \in Seq(Unit) /\ sent' \in Seq(Unit)
    BY <1>11, CopyFacts, ConcatProperties DEF OutputStops, CopyOutput, rle, TypeOK
  <2> QED BY <2>3, <2>4, <2>5, <2>6, <2>7, <2>8 DEF TypeOK
<1>12. CASE OutputNextBlock
  <2>1. CopyLen \in Nat /\ CopyLen <= availOut
    BY CopyRange
  <2>2. CountOut(totalOut, CopyLen) \in [lo : 0..W-1, hi : 0..W-1]
    BY <2>1, CountFacts DEF TypeOK
  <2>3. /\ open' \in BOOLEAN /\ progress' \in BOOLEAN
    BY <1>12 DEF OutputNextBlock, CopyOutput, prepare_new_block, NextBlockNo, TypeOK
  <2>4. /\ live' \subseteq Allocations /\ mode' \in Modes
        /\ state' \in {"INPUT", "OUTPUT"} /\ expect' \in 0..MaxIn
        /\ pc' \in {"caller", "loop", "ret"} /\ ret' \in Returns
    BY <1>12 DEF OutputNextBlock, CopyOutput, prepare_new_block, NextBlockNo, TypeOK, Modes,
         Returns
  <2>5. /\ inCh' \in Bytes \union {NoCh} /\ inLen' \in 0..MaxRun
        /\ block' \in Seq(Byte) /\ inUse' \subseteq Byte /\ blockCRC' \in Seq(Byte)
    BY <1>12 DEF OutputNextBlock, CopyOutput, prepare_new_block, NextBlockNo, TypeOK
  <2>6. /\ blockNo' \in 0..2 /\ combinedCRC' \in Seq(Seq(Byte))
        /\ zbits' \in Seq(Unit) /\ pos' \in Nat /\ hold' \in Seq(Unit)
    BY <1>12, <2>1 DEF OutputNextBlock, CopyOutput, prepare_new_block, NextBlockNo, TypeOK
  <2>7. /\ availIn' \in 0..MaxIn /\ availOut' \in 0..MaxOut
        /\ totalIn' \in [lo : 0..W-1, hi : 0..W-1]
        /\ totalOut' \in [lo : 0..W-1, hi : 0..W-1]
    BY <1>12, <2>1, <2>2 DEF OutputNextBlock, CopyOutput, prepare_new_block, NextBlockNo,
         TypeOK
  <2>8. /\ consumed' \in Seq(Bytes) /\ sections' \in Seq(SectionType)
        /\ written' \in Seq(Unit) /\ sent' \in Seq(Unit)
    BY <1>12, CopyFacts, ConcatProperties DEF OutputNextBlock, CopyOutput,
         prepare_new_block, NextBlockNo, TypeOK
  <2> QED BY <2>3, <2>4, <2>5, <2>6, <2>7, <2>8 DEF TypeOK
<1>13. CASE Return
  BY <1>13, ZenonT(60) DEF Return, rle, coder, caller, hist, TypeOK, Modes, Returns, NoCh, Byte
<1>14. CASE UNCHANGED vars
  BY <1>14 DEF vars, rle, coder, caller, hist, TypeOK, Modes, Returns, NoCh, Byte
<1> QED BY <1>1, <1>2, <1>3, <1>4, <1>5, <1>6, <1>7, <1>8, <1>9, <1>10, <1>11, <1>12,
     <1>13, <1>14 DEF Next, Library, Caller

(* No step loses a byte between bsW and next_out. *)
LEMMA LostStep ==
  TypeOK /\ RunPending /\ BlockRoom /\ Buffers /\ Numbering /\ Left /\ NoByteLost /\
  [Next]_vars
  => NoByteLost'
<1> SUFFICES ASSUME TypeOK, RunPending, BlockRoom, Buffers, Numbering, Left, NoByteLost,
                    [Next]_vars
             PROVE  NoByteLost'
  OBVIOUS
<1>1. CASE CompressInitOK
  BY <1>1 DEF CompressInitOK, init_RL, NoByteLost, Pending, Unwritten, numZ
<1>2. CASE CompressInitFails
  BY <1>2 DEF CompressInitFails, FreeOnFailure, rle, coder, caller, hist, NoByteLost,
       Pending, Unwritten, numZ
<1>3. CASE CompressEnd
  BY <1>3 DEF CompressEnd, caller, NoByteLost, Pending, Unwritten, numZ
<1>4. CASE NoState
  BY <1>4 DEF NoState, rle, coder, caller, hist, NoByteLost, Pending, Unwritten, numZ
<1>5. CASE \E a \in Actions, n \in 0..MaxIn, m \in 0..MaxOut : Enter(a, n, m)
  BY <1>5 DEF Enter, EnterRun, EnterStart, EnterAgain, StartMode, Offer, rle, coder,
       hist, NoByteLost, Pending, Unwritten, numZ
<1>6. CASE \E a \in Actions, n \in 0..MaxIn, m \in 0..MaxOut : Refuse(a, n, m)
  BY <1>6 DEF Refuse, Offer, rle, coder, hist, NoByteLost, Pending, Unwritten, numZ
<1>7. CASE AbsorbByte
  BY <1>7 DEF AbsorbByte, CanAbsorb, coder, NoByteLost, Pending, Unwritten, numZ
<1>8. CASE CutRest
  BY <1>8, CutKeepsBytes DEF Left, CutRest, init_RL, StopAbsorbing
<1>9. CASE CutFull
  BY <1>9, CutKeepsBytes DEF Left, CutFull, StopAbsorbing
<1>10. CASE Starve
  BY <1>10 DEF Starve, StopAbsorbing, MustCut, rle, coder, caller, hist, NoByteLost,
       Pending, Unwritten, numZ
<1>11. CASE OutputStops
  BY <1>11, StopsKeepsBytes
<1>12. CASE OutputNextBlock
  BY <1>12, NextBlockKeepsBytes
<1>13. CASE Return
  BY <1>13 DEF Return, rle, coder, caller, hist, NoByteLost, Pending, Unwritten, numZ
<1>14. CASE UNCHANGED vars
  BY <1>14 DEF vars, rle, coder, caller, hist, NoByteLost, Pending, Unwritten, numZ
<1> QED BY <1>1, <1>2, <1>3, <1>4, <1>5, <1>6, <1>7, <1>8, <1>9, <1>10, <1>11, <1>12,
     <1>13, <1>14 DEF Next, Library, Caller

(* Outside a flush or a finish a block is cut with a run pending. *)
LEMMA HasRunStep ==
  TypeOK /\ RunPending /\ BlockRoom /\ Buffers /\ Numbering /\ Left /\ OutputHasRun /\
  [Next]_vars
  => OutputHasRun'
<1> SUFFICES ASSUME TypeOK, RunPending, BlockRoom, Buffers, Numbering, Left,
                    OutputHasRun, [Next]_vars
             PROVE  OutputHasRun'
  OBVIOUS
<1>1. CASE CompressInitOK
  BY <1>1 DEF CompressInitOK, init_RL, OutputHasRun, isempty_RL, RunPending, Unfinished, numZ,
       Left
<1>2. CASE CompressInitFails
  BY <1>2 DEF CompressInitFails, FreeOnFailure, rle, coder, caller, hist, OutputHasRun,
       isempty_RL, RunPending, Unfinished, numZ, Left
<1>3. CASE CompressEnd
  BY <1>3 DEF CompressEnd, caller, OutputHasRun, isempty_RL, RunPending, Unfinished,
       numZ, Left
<1>4. CASE NoState
  BY <1>4 DEF NoState, rle, coder, caller, hist, OutputHasRun, isempty_RL, RunPending,
       Unfinished, numZ, Left
<1>5. CASE \E a \in Actions, n \in 0..MaxIn, m \in 0..MaxOut : Enter(a, n, m)
  BY <1>5 DEF Enter, EnterRun, EnterStart, EnterAgain, StartMode, Offer, rle, coder,
       hist, OutputHasRun, isempty_RL, RunPending, Unfinished, numZ, Left
<1>6. CASE \E a \in Actions, n \in 0..MaxIn, m \in 0..MaxOut : Refuse(a, n, m)
  BY <1>6 DEF Refuse, Offer, rle, coder, hist, OutputHasRun, isempty_RL, RunPending,
       Unfinished, numZ, Left
<1>7. CASE AbsorbByte
  BY <1>7 DEF AbsorbByte, CanAbsorb, coder, OutputHasRun, isempty_RL, RunPending,
       Unfinished, numZ, Left
<1>8. CASE CutRest
  BY <1>8, CutFacts DEF Left, CutRest, init_RL, StopAbsorbing, MustCut, caller, OutputHasRun,
       isempty_RL, RunPending, Unfinished, numZ, Left
<1>9. CASE CutFull
  BY <1>9, CutFacts DEF Left, CutFull, StopAbsorbing, MustCut, caller, rle, OutputHasRun,
       isempty_RL, RunPending, Unfinished, numZ, Left
<1>10. CASE Starve
  BY <1>10 DEF Starve, StopAbsorbing, MustCut, rle, coder, caller, hist, OutputHasRun,
       isempty_RL, RunPending, Unfinished, numZ, Left
<1>11. CASE OutputStops
  BY <1>11 DEF OutputStops, CopyOutput, CopyLen, rle, OutputHasRun, isempty_RL,
       RunPending, Unfinished, numZ, Left
<1>12. CASE OutputNextBlock
  BY <1>12 DEF OutputNextBlock, CopyOutput, prepare_new_block, NextBlockNo,
       OutputHasRun, isempty_RL, RunPending, Unfinished, numZ, Left
<1>13. CASE Return
  BY <1>13 DEF Return, rle, coder, caller, hist, OutputHasRun, isempty_RL, RunPending,
       Unfinished, numZ, Left
<1>14. CASE UNCHANGED vars
  BY <1>14 DEF vars, rle, coder, caller, hist, OutputHasRun, isempty_RL, RunPending,
       Unfinished, numZ, Left
<1> QED BY <1>1, <1>2, <1>3, <1>4, <1>5, <1>6, <1>7, <1>8, <1>9, <1>10, <1>11, <1>12,
     <1>13, <1>14 DEF Next, Library, Caller

(* The trailer ends the stream. *)
LEMMA TrailerStep ==
  TypeOK /\ RunPending /\ BlockRoom /\ Buffers /\ Numbering /\ OutputHasRun /\ Left /\
  TrailerLast /\ [Next]_vars
  => TrailerLast'
<1> SUFFICES ASSUME TypeOK, RunPending, BlockRoom, Buffers, Numbering, OutputHasRun,
                    Left, TrailerLast, [Next]_vars
             PROVE  TrailerLast'
  OBVIOUS
<1>1. CASE CompressInitOK
  BY <1>1 DEF CompressInitOK, init_RL, TrailerLast, TrailerWritten, AllDone, isempty_RL, numZ,
       Left
<1>2. CASE CompressInitFails
  BY <1>2 DEF CompressInitFails, FreeOnFailure, rle, coder, caller, hist, TrailerLast,
       TrailerWritten, AllDone, isempty_RL, numZ, Left
<1>3. CASE CompressEnd
  BY <1>3 DEF CompressEnd, caller, TrailerLast, TrailerWritten, AllDone, isempty_RL,
       numZ, Left
<1>4. CASE NoState
  BY <1>4 DEF NoState, rle, coder, caller, hist, TrailerLast, TrailerWritten, AllDone,
       isempty_RL, numZ, Left
<1>5. CASE \E a \in Actions, n \in 0..MaxIn, m \in 0..MaxOut : Enter(a, n, m)
  BY <1>5 DEF Enter, EnterRun, EnterStart, EnterAgain, StartMode, OutputHasRun, rle,
       coder, hist, TrailerLast, TrailerWritten, AllDone, isempty_RL, Left
<1>6. CASE \E a \in Actions, n \in 0..MaxIn, m \in 0..MaxOut : Refuse(a, n, m)
  BY <1>6 DEF Refuse, Offer, rle, coder, hist, TrailerLast, TrailerWritten, AllDone,
       isempty_RL, numZ, Left
<1>7. CASE AbsorbByte
  BY <1>7 DEF AbsorbByte, CanAbsorb, coder, TrailerLast, TrailerWritten, AllDone,
       isempty_RL, numZ, Left
<1>8. CASE CutRest
  BY <1>8, CutFacts DEF Left, CutRest, init_RL, StopAbsorbing, MustCut, caller, TrailerLast,
       TrailerWritten, AllDone, isempty_RL, numZ, Left
<1>9. CASE CutFull
  BY <1>9, CutFacts DEF Left, CutFull, StopAbsorbing, MustCut, caller, rle, TrailerLast,
       TrailerWritten, AllDone, isempty_RL, numZ, Left
<1>10. CASE Starve
  BY <1>10 DEF Starve, StopAbsorbing, MustCut, rle, coder, caller, hist, TrailerLast,
       TrailerWritten, AllDone, isempty_RL, numZ, Left
<1>11. CASE OutputStops
  BY <1>11 DEF OutputStops, CopyOutput, CopyLen, rle, TrailerLast, TrailerWritten,
       AllDone, isempty_RL, numZ, Left
<1>12. CASE OutputNextBlock
  BY <1>12 DEF OutputNextBlock, CopyOutput, prepare_new_block, NextBlockNo, TrailerLast,
       TrailerWritten, AllDone, isempty_RL, numZ, Left
<1>13. CASE Return
  <2>1. ~Unfinished => expect = 0 /\ isempty_RL /\ pos = numZ
    BY LenProperties DEF Unfinished, TypeOK, Buffers, numZ
  <2>2. mode = "FINISHING" /\ ~Unfinished => TrailerWritten
    BY <1>13, <2>1 DEF Return, Left, TrailerLast, AllDone, TypeOK
  <2>3. /\ UNCHANGED <<open, state, expect, hold, pos>>
        /\ TrailerWritten' = TrailerWritten /\ AllDone' = AllDone /\ numZ' = numZ
    BY <1>13 DEF Return, rle, coder, hist, TrailerWritten, AllDone, isempty_RL, numZ
  <2>4. mode' = mode \/ (mode = "FLUSHING" /\ mode' = "RUNNING")
        \/ (mode = "FINISHING" /\ mode' = "IDLE" /\ ~Unfinished)
    BY <1>13 DEF Return
  <2> QED BY <2>1, <2>2, <2>3, <2>4 DEF TrailerLast
<1>14. CASE UNCHANGED vars
  BY <1>14 DEF vars, rle, coder, caller, hist, TrailerLast, TrailerWritten, AllDone,
       isempty_RL, numZ, Left
<1> QED BY <1>1, <1>2, <1>3, <1>4, <1>5, <1>6, <1>7, <1>8, <1>9, <1>10, <1>11, <1>12,
     <1>13, <1>14 DEF Next, Library, Caller

(* avail_in_expect and avail_in go down together. *)
LEMMA PromiseStep ==
  TypeOK /\ PromiseKept /\ [Next]_vars
  => PromiseKept'
<1> SUFFICES ASSUME TypeOK, PromiseKept, [Next]_vars
             PROVE  PromiseKept'
  OBVIOUS
<1>1. CASE CompressInitOK
  BY <1>1 DEF CompressInitOK, init_RL, PromiseKept, TypeOK
<1>2. CASE CompressInitFails
  BY <1>2 DEF CompressInitFails, FreeOnFailure, rle, coder, caller, hist, PromiseKept,
       TypeOK
<1>3. CASE CompressEnd
  BY <1>3 DEF CompressEnd, caller, PromiseKept, TypeOK
<1>4. CASE NoState
  BY <1>4 DEF NoState, rle, coder, caller, hist, PromiseKept, TypeOK
<1>5. CASE \E a \in Actions, n \in 0..MaxIn, m \in 0..MaxOut : Enter(a, n, m)
  BY <1>5 DEF Enter, EnterRun, EnterStart, EnterAgain, StartMode, Offer, rle, coder,
       hist, PromiseKept, TypeOK
<1>6. CASE \E a \in Actions, n \in 0..MaxIn, m \in 0..MaxOut : Refuse(a, n, m)
  BY <1>6 DEF Refuse, Offer, rle, coder, hist, PromiseKept, TypeOK
<1>7. CASE AbsorbByte
  BY <1>7 DEF AbsorbByte, CanAbsorb, coder, PromiseKept, TypeOK
<1>8. CASE CutRest
  BY <1>8 DEF CutRest, init_RL, StopAbsorbing, MustCut, caller, PromiseKept, TypeOK
<1>9. CASE CutFull
  BY <1>9 DEF CutFull, StopAbsorbing, MustCut, caller, rle, PromiseKept, TypeOK
<1>10. CASE Starve
  BY <1>10 DEF Starve, StopAbsorbing, MustCut, rle, coder, caller, hist, PromiseKept,
       TypeOK
<1>11. CASE OutputStops
  BY <1>11 DEF OutputStops, CopyOutput, CopyLen, rle, PromiseKept, TypeOK
<1>12. CASE OutputNextBlock
  BY <1>12 DEF OutputNextBlock, CopyOutput, prepare_new_block, NextBlockNo, PromiseKept,
       TypeOK
<1>13. CASE Return
  BY <1>13 DEF Return, rle, coder, caller, hist, PromiseKept, TypeOK
<1>14. CASE UNCHANGED vars
  BY <1>14 DEF vars, rle, coder, caller, hist, PromiseKept, TypeOK
<1> QED BY <1>1, <1>2, <1>3, <1>4, <1>5, <1>6, <1>7, <1>8, <1>9, <1>10, <1>11, <1>12,
     <1>13, <1>14 DEF Next, Library, Caller

(* Memory is taken and given back whole. *)
LEMMA LeakStep ==
  NoLeak /\ [Next]_vars
  => NoLeak'
<1> SUFFICES ASSUME NoLeak, [Next]_vars
             PROVE  NoLeak'
  OBVIOUS
<1>1. CASE CompressInitOK
  BY <1>1 DEF CompressInitOK, init_RL, NoLeak
<1>2. CASE CompressInitFails
  BY <1>2 DEF CompressInitFails, FreeOnFailure, rle, coder, caller, hist, NoLeak
<1>3. CASE CompressEnd
  BY <1>3 DEF CompressEnd, caller, NoLeak
<1>4. CASE NoState
  BY <1>4 DEF NoState, rle, coder, caller, hist, NoLeak
<1>5. CASE \E a \in Actions, n \in 0..MaxIn, m \in 0..MaxOut : Enter(a, n, m)
  BY <1>5 DEF Enter, EnterRun, EnterStart, EnterAgain, StartMode, Offer, rle, coder,
       hist, NoLeak
<1>6. CASE \E a \in Actions, n \in 0..MaxIn, m \in 0..MaxOut : Refuse(a, n, m)
  BY <1>6 DEF Refuse, Offer, rle, coder, hist, NoLeak
<1>7. CASE AbsorbByte
  BY <1>7 DEF AbsorbByte, CanAbsorb, coder, NoLeak
<1>8. CASE CutRest
  BY <1>8 DEF CutRest, init_RL, StopAbsorbing, MustCut, caller, NoLeak
<1>9. CASE CutFull
  BY <1>9 DEF CutFull, StopAbsorbing, MustCut, caller, rle, NoLeak
<1>10. CASE Starve
  BY <1>10 DEF Starve, StopAbsorbing, MustCut, rle, coder, caller, hist, NoLeak
<1>11. CASE OutputStops
  BY <1>11 DEF OutputStops, CopyOutput, CopyLen, rle, NoLeak
<1>12. CASE OutputNextBlock
  BY <1>12 DEF OutputNextBlock, CopyOutput, prepare_new_block, NextBlockNo, NoLeak
<1>13. CASE Return
  BY <1>13 DEF Return, rle, coder, caller, hist, NoLeak
<1>14. CASE UNCHANGED vars
  BY <1>14 DEF vars, rle, coder, caller, hist, NoLeak
<1> QED BY <1>1, <1>2, <1>3, <1>4, <1>5, <1>6, <1>7, <1>8, <1>9, <1>10, <1>11, <1>12,
     <1>13, <1>14 DEF Next, Library, Caller
(* A finish moves: what is left to take is what avail_in has, the last     *)
(* block brings a trailer, and a finish that starts with a block waiting   *)
(* starts with a run pending.                                              *)
LEMMA FinishStep ==
  TypeOK /\ RunPending /\ Buffers /\ BlockRoom /\ Numbering /\ OutputHasRun /\ Left /\
  PromiseKept /\ FinishMoves /\ [Next]_vars
  => FinishMoves'
<1> SUFFICES ASSUME TypeOK, RunPending, Buffers, BlockRoom, Numbering, OutputHasRun, Left,
                    PromiseKept, FinishMoves, [Next]_vars
             PROVE  FinishMoves'
  OBVIOUS
<1> USE DEF FinishMoves
<1>1. CASE CompressInitOK
  BY <1>1 DEF CompressInitOK, init_RL, AllDone, isempty_RL, numZ
<1>2. CASE CompressInitFails
  BY <1>2 DEF CompressInitFails, FreeOnFailure, rle, coder, caller, hist, AllDone,
       isempty_RL, numZ
<1>3. CASE CompressEnd
  BY <1>3 DEF CompressEnd, caller, AllDone, isempty_RL, numZ
<1>4. CASE NoState
  BY <1>4 DEF NoState, rle, coder, caller, hist, AllDone, isempty_RL, numZ
<1>5. CASE \E a \in Actions, n \in 0..MaxIn, m \in 0..MaxOut : Enter(a, n, m)
  BY <1>5 DEF Enter, EnterRun, EnterStart, EnterAgain, StartMode, Offer, rle, coder, hist,
       AllDone, isempty_RL, numZ, OutputHasRun
<1>6. CASE \E a \in Actions, n \in 0..MaxIn, m \in 0..MaxOut : Refuse(a, n, m)
  BY <1>6 DEF Refuse, Offer, rle, coder, hist, AllDone, isempty_RL, numZ
<1>7. CASE AbsorbByte
  BY <1>7 DEF AbsorbByte, coder
<1>8. CASE CutRest
  <2>1. mode = "FINISHING" => zbits' # <<>> /\ zbits' \in Seq(Unit)
    BY <1>8, CutFacts DEF CutRest, StopAbsorbing, Left
  <2>2. mode' = mode /\ pos' = 0 /\ pc' = "loop"
    BY <1>8 DEF CutRest, StopAbsorbing, Buffers
  <2>3. numZ' = Len(zbits')
    BY DEF numZ
  <2> QED BY <2>1, <2>2, <2>3
<1>9. CASE CutFull
  BY <1>9 DEF CutFull, StopAbsorbing, MustCut, AllDone
<1>10. CASE Starve
  BY <1>10 DEF Starve, StopAbsorbing, MustCut, caller, PromiseKept, TypeOK
<1>11. CASE OutputStops
  <2>1. /\ CopyLen \in Nat /\ numZ \in Nat /\ pos \in Nat /\ pos <= numZ /\ availOut \in Nat
        /\ CopyLen = IF numZ - pos < availOut THEN numZ - pos ELSE availOut
    BY CopyRange, LenProperties DEF CopyLen, TypeOK, Buffers, numZ
  <2>2. /\ state = "OUTPUT" /\ pc = "loop" /\ numZ' = numZ /\ mode' = mode /\ state' = state
        /\ AllDone' = AllDone /\ pos' = pos + CopyLen /\ availOut' = availOut - CopyLen
        /\ pos + CopyLen < numZ \/ (mode = "FINISHING" /\ AllDone)
        /\ progress' = (progress \/ CopyLen > 0) /\ pc' = "ret"
    BY <1>11, <2>1 DEF OutputStops, CopyOutput, rle, AllDone, isempty_RL, numZ, Drained
  <2>3. mode = "FINISHING" /\ AllDone => pos < numZ
    BY <2>2
  <2>4. CASE CopyLen = 0
    BY <2>1, <2>2, <2>3, <2>4
  <2>5. CASE CopyLen > 0
    BY <2>2, <2>5
  <2> QED BY <2>1, <2>4, <2>5
<1>12. CASE OutputNextBlock
  BY <1>12 DEF OutputNextBlock
<1>13. CASE Return
  <2>1. /\ UNCHANGED <<state, expect, inCh, inLen, pos, zbits>> /\ pc = "ret" /\ pc' = "caller"
        /\ mode' = "FINISHING" => mode = "FINISHING" /\ (~progress \/ Unfinished)
    BY <1>13 DEF Return, rle, coder, TypeOK, Modes
  <2>2. numZ' = numZ /\ AllDone' = AllDone
    BY <2>1 DEF numZ, AllDone, isempty_RL
  <2> QED BY <2>1, <2>2 DEF Unfinished, AllDone
<1>14. CASE UNCHANGED vars
  BY <1>14 DEF vars, rle, coder, caller, hist, AllDone, isempty_RL, numZ
<1> QED BY <1>1, <1>2, <1>3, <1>4, <1>5, <1>6, <1>7, <1>8, <1>9, <1>10, <1>11, <1>12,
     <1>13, <1>14 DEF Next, Library, Caller

(* The counters follow the history of the bytes. *)
LEMMA CountStep ==
  TypeOK /\ Buffers /\ Left /\ CountersExact /\ [Next]_vars
  => CountersExact'
<1> SUFFICES ASSUME TypeOK, Buffers, Left, CountersExact, [Next]_vars, open'
             PROVE  /\ Total(totalIn)'  = Len(consumed') % (W * W)
                    /\ Total(totalOut)' = Len(sent') % (W * W)
  BY DEF CountersExact
<1> DEFINE Same == UNCHANGED <<open, totalIn, totalOut, consumed, sent>>
<1>0. ASSUME Same PROVE /\ Total(totalIn)'  = Len(consumed') % (W * W)
                        /\ Total(totalOut)' = Len(sent') % (W * W)
  BY <1>0 DEF CountersExact, Total
<1>1. CASE CompressInitOK
  <2>1. /\ totalIn' = [lo |-> 0, hi |-> 0] /\ consumed' = <<>>
        /\ totalOut' = [lo |-> 0, hi |-> 0] /\ sent' = <<>>
    BY <1>1 DEF CompressInitOK
  <2>2. W * W \in Nat \ {0}
    BY Square
  <2> DEFINE M == W * W
  <2> HIDE DEF M
  <2>3. 0 % M = 0
    BY <2>2, RemainderSmall DEF M
  <2>4. Total(totalIn)' = 0 /\ Total(totalOut)' = 0
    BY <2>1 DEF Total
  <2> QED BY <2>1, <2>3, <2>4 DEF M
<1>2. CASE CompressInitFails
  BY <1>0, <1>2 DEF CompressInitFails, caller, hist
<1>3. CASE CompressEnd
  BY <1>3 DEF CompressEnd
<1>4. CASE NoState
  BY <1>0, <1>4 DEF NoState, caller, hist
<1>5. CASE \E a \in Actions, n \in 0..MaxIn, m \in 0..MaxOut : Enter(a, n, m)
  BY <1>0, <1>5 DEF Enter, hist
<1>6. CASE \E a \in Actions, n \in 0..MaxIn, m \in 0..MaxOut : Refuse(a, n, m)
  BY <1>0, <1>6 DEF Refuse, hist
<1>7. CASE AbsorbByte
  <2>1. /\ totalIn' = CountIn(totalIn) /\ UNCHANGED <<open, totalOut, sent>>
        /\ \E c \in Bytes : consumed' = Append(consumed, c)
    BY <1>7 DEF AbsorbByte
  <2>2. Len(consumed') = Len(consumed) + 1
    BY <2>1, AppendProperties DEF TypeOK
  <2>3. totalIn \in [lo : 0..W-1, hi : 0..W-1] /\ Len(consumed) \in Nat
    BY LenProperties DEF TypeOK
  <2>4. open /\ Total(totalIn) = Len(consumed) % (W * W)
    BY <2>1 DEF CountersExact
  <2>5. Total(CountIn(totalIn)) = (Len(consumed) + 1) % (W * W)
    BY <2>3, <2>4, CountInExact
  <2>6. Total(totalOut)' = Len(sent') % (W * W)
    BY <2>1, <2>4 DEF CountersExact, Total
  <2> QED BY <2>1, <2>2, <2>5, <2>6 DEF Total
<1>8. CASE CutRest
  BY <1>0, <1>8 DEF CutRest, caller
<1>9. CASE CutFull
  BY <1>0, <1>9 DEF CutFull, caller
<1>10. CASE Starve
  BY <1>0, <1>10 DEF Starve, caller, hist
<1>11. CASE OutputStops
  <2>1. CopyOutput /\ UNCHANGED <<open, totalIn, consumed>>
    BY <1>11 DEF OutputStops
  <2> QED BY <2>1, CopyCounts
<1>12. CASE OutputNextBlock
  <2>1. CopyOutput /\ UNCHANGED <<open, totalIn, consumed>>
    BY <1>12 DEF OutputNextBlock
  <2> QED BY <2>1, CopyCounts
<1>13. CASE Return
  BY <1>0, <1>13 DEF Return, caller, hist
<1>14. CASE UNCHANGED vars
  BY <1>0, <1>14 DEF vars, caller, hist
<1> QED BY <1>1, <1>2, <1>3, <1>4, <1>5, <1>6, <1>7, <1>8, <1>9, <1>10, <1>11, <1>12,
     <1>13, <1>14 DEF Next, Library, Caller
-----------------------------------------------------------------------------
(* It holds at the beginning. *)
LEMMA InitHolds == Init => IInv
<1> SUFFICES ASSUME Init PROVE IInv
  OBVIOUS
<1>1. TypeOK
  <2>1. /\ open \in BOOLEAN /\ progress \in BOOLEAN /\ ret \in Returns
        /\ live \subseteq Allocations /\ mode \in Modes
        /\ state \in {"INPUT", "OUTPUT"} /\ pc \in {"caller", "loop", "ret"}
    BY DEF Init, Modes, Returns
  <2>2. /\ expect \in 0..MaxIn /\ inCh \in Bytes \union {NoCh} /\ inLen \in 0..MaxRun
        /\ blockNo \in 0..2 /\ pos \in Nat
        /\ availIn \in 0..MaxIn /\ availOut \in 0..MaxOut
    BY DEF Init, NoCh
  <2>3. /\ block \in Seq(Byte) /\ inUse \subseteq Byte /\ blockCRC \in Seq(Byte)
        /\ combinedCRC \in Seq(Seq(Byte)) /\ zbits \in Seq(Unit) /\ hold \in Seq(Unit)
        /\ consumed \in Seq(Bytes) /\ sections \in Seq(SectionType)
        /\ written \in Seq(Unit) /\ sent \in Seq(Unit)
    BY DEF Init
  <2>4. /\ totalIn \in [lo : 0..W-1, hi : 0..W-1]
        /\ totalOut \in [lo : 0..W-1, hi : 0..W-1]
    BY ZeroCounter DEF Init
  <2> QED BY <2>1, <2>2, <2>3, <2>4 DEF TypeOK
<1>2. RunPending /\ Buffers /\ Numbering /\ NoByteLost /\ OutputHasRun /\ NoLeak
  BY DEF Init, RunPending, NoCh, Buffers, numZ, Numbering, NoByteLost, OutputHasRun, NoLeak
<1>3. BlockRoom
  BY DEF Init, BlockRoom, nblock
<1>4. TrailerLast /\ Left /\ PromiseKept /\ FinishMoves /\ CountersExact
  BY DEF Init, TrailerLast, TrailerWritten, Left, PromiseKept, FinishMoves, CountersExact
<1> QED BY <1>1, <1>2, <1>3, <1>4 DEF IInv

(* Every step keeps the invariant. *)
LEMMA StepHolds == IInv /\ [Next]_vars => IInv'
  BY TypeStep, RunPendingStep, RoomStep, BuffersStep, NumberingStep, LostStep,
     HasRunStep, TrailerStep, LeftStep, PromiseStep, LeakStep, FinishStep, CountStep
  DEF IInv

(* The inductive invariant holds of every reachable state. *)
THEOREM Invariance == Spec => []IInv
  BY InitHolds, StepHolds, PTL DEF Spec

(* The types: blockNo, the counters and the run length stay in range. *)
THEOREM TypeCorrect == Spec => []TypeOK
<1>1. IInv => TypeOK
  BY DEF IInv
<1> QED BY Invariance, <1>1, PTL

(* add_pair_to_block and flush_RL never write behind the block array.      *)
THEOREM BlockNeverOverflows == Spec => []BlockFits
<1>1. IInv => BlockFits
  <2> SUFFICES ASSUME IInv PROVE BlockFits
    OBVIOUS
  <2>1. nblock \in Nat /\ nblock <= NblockMax + 5
    BY LenProperties DEF IInv, TypeOK, BlockRoom, nblock
  <2> QED BY <2>1 DEF BlockFits
<1> QED BY Invariance, <1>1, PTL

(* add_pair_to_block is never called for a run of no bytes. *)
THEOREM RunIsPending == Spec => []RunPending
<1>1. IInv => RunPending
  BY DEF IInv
<1> QED BY Invariance, <1>1, PTL

(* All that bsW wrote is delivered, in zbits or in bsBuff, in order. *)
THEOREM BytesAreKept == Spec => []NoByteLost
<1>1. IInv => NoByteLost
  BY DEF IInv
<1> QED BY Invariance, <1>1, PTL

(* A block that waits in RUNNING was cut with a run pending. *)
THEOREM HasRun == Spec => []OutputHasRun
<1>1. IInv => OutputHasRun
  BY DEF IInv
<1> QED BY Invariance, <1>1, PTL

(* At the end of the stream nothing waits anywhere. *)
LEMMA EndIsWhole == IInv => StreamEndComplete
<1> SUFFICES ASSUME IInv, open, mode = "IDLE"
             PROVE  TrailerWritten /\ sent = written /\ expect = 0 /\ isempty_RL
  BY DEF StreamEndComplete
<1>1. TrailerWritten /\ pos = numZ /\ hold = <<>> /\ expect = 0 /\ isempty_RL
  BY DEF IInv, TrailerLast, AllDone
<1>2. numZ \in Nat /\ sent \in Seq(Unit)
  BY LenProperties DEF IInv, TypeOK, numZ
<1>3. Pending = <<>>
  BY <1>1, <1>2, SubSeqEmpty DEF Pending
<1>4. Unwritten = <<>>
  BY <1>1 DEF Unwritten
<1>5. sent \o Pending \o Unwritten = written
  BY DEF IInv, NoByteLost
<1>6. sent \o <<>> = sent
  BY <1>2, ConcatEmptySeq
<1>7. sent = written
  BY <1>3, <1>4, <1>5, <1>6
<1> QED BY <1>1, <1>7

(* BZ_STREAM_END: the trailer is written and all of the stream delivered. *)
THEOREM StreamEndIsComplete == Spec => []StreamEndComplete
<1> QED BY Invariance, EndIsWhole, PTL

(* The bytes a flush or a finish takes are those it was given. *)
THEOREM PromiseIsKept == Spec => []PromiseKept
<1>1. IInv => PromiseKept
  BY DEF IInv
<1> QED BY Invariance, <1>1, PTL

(* A stream that is not open holds no memory. *)
THEOREM NothingLeaks == Spec => []NoLeak
<1>1. IInv => NoLeak
  BY DEF IInv
<1> QED BY Invariance, <1>1, PTL

(* total_in and total_out count every byte, across the wrap of the words. *)
THEOREM CountersAreExact == Spec => []CountersExact
<1>1. IInv => CountersExact
  BY DEF IInv
<1> QED BY Invariance, <1>1, PTL

(* A finish with room for output is never told BZ_SEQUENCE_ERROR. *)
THEOREM FinishIsInSequence == Spec => NoSpuriousError
<1>1. IInv /\ [Next]_vars
      => [pc = "ret" /\ mode = "FINISHING" /\ availOut > 0 => ret' # "SEQUENCE_ERROR"]_vars
  <2> SUFFICES ASSUME IInv, [Next]_vars, vars' # vars,
                      pc = "ret", mode = "FINISHING", availOut > 0
               PROVE  ret' # "SEQUENCE_ERROR"
    OBVIOUS
  <2>1. Return
    BY DEF Next, Library, Caller, CompressInitOK, CompressInitFails, CompressEnd, NoState,
           Enter, Refuse, AbsorbByte, CutRest, CutFull, StopAbsorbing, Starve, OutputStops,
           OutputNextBlock
  <2>2. progress
    BY DEF IInv, FinishMoves
  <2> QED BY <2>1, <2>2 DEF Return
<1> QED BY Invariance, <1>1, PTL DEF Spec, NoSpuriousError

(* A flush that is over has cut and delivered what it was given. *)
THEOREM FlushIsComplete == Spec => FlushComplete
<1>1. IInv /\ [Next]_vars => [FlushOver]_vars
  <2> SUFFICES ASSUME IInv, [Next]_vars, open, mode = "FLUSHING", mode' = "RUNNING"
               PROVE  /\ expect = 0 /\ isempty_RL /\ block = <<>>
                      /\ pos = numZ /\ state = "INPUT"
    BY DEF FlushOver
  <2>1. Return
    BY DEF Next, Library, Caller, vars, CompressInitOK, init_RL, CompressInitFails, CompressEnd,
           NoState, Enter, EnterRun, EnterStart, EnterAgain, StartMode, Refuse, AbsorbByte,
           CutRest, CutFull, Starve, OutputStops, OutputNextBlock
  <2>2. pc = "ret" /\ ~Unfinished
    BY <2>1 DEF Return
  <2>3. expect = 0 /\ isempty_RL /\ pos = numZ
    BY <2>2, LenProperties DEF Unfinished, IInv, TypeOK, Buffers, numZ
  <2>4. state = "INPUT" /\ block = <<>>
    BY <2>2, <2>3, LenProperties DEF IInv, Left, TypeOK, numZ
  <2> QED BY <2>3, <2>4
<1> QED BY Invariance, <1>1, PTL DEF Spec, FlushComplete

=============================================================================
