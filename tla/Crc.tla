-------------------------------- MODULE Crc --------------------------------
(***************************************************************************)
(* The CRC over a buffer (crctable.c, crc32_pclmul.c): a byte at a time,   *)
(* eight bytes at a time, and by folding 16-byte blocks with carry-less    *)
(* products.                                                               *)
(*                                                                         *)
(* A word is a polynomial over GF(2): the set of its bits that are 1.  A   *)
(* buffer is a sequence of bytes, subsets of 0..7.                         *)
(***************************************************************************)
EXTENDS Integers, Sequences, FiniteSetsExt

Plus(a, b) == (a \ b) \cup (b \ a)
Total(S) == FoldSet(Plus, {}, S)
Shift(a, n) == {i + n : i \in a}
Below(a, n) == {i \in a : i < n}
Times(a, b) == {n \in {i + j : i \in a, j \in b} : Cardinality({i \in a : n - i \in b}) % 2 = 1}

\* A word from its halves, high then low.
HalfBits(h) == {i \in 0..15 : (h \div 2^i) % 2 = 1}
Word(w) == Shift(HalfBits(w[1]), 16) \cup HalfBits(w[2])

\* x^32 + x^26 + ... + 1: 0x104C11DB7.
P == {32} \cup Word(<<\h04c1, \h1db7>>)

----------------------------------------------------------------------------
(* The tables.  Their entries for the bytes with one bit; the entry of any
   other byte is the sum of those of its bits. *)

crc32_s8 ==
  <<
     << <<\h04c1, \h1db7>>, <<\h0982, \h3b6e>>, <<\h1304, \h76dc>>, <<\h2608, \hedb8>>, <<\h4c11, \hdb70>>, <<\h9823, \hb6e0>>, <<\h3486, \h7077>>, <<\h690c, \he0ee>> >>,
     << <<\hd219, \hc1dc>>, <<\ha0f2, \h9e0f>>, <<\h4524, \h21a9>>, <<\h8a48, \h4352>>, <<\h1051, \h9b13>>, <<\h20a3, \h3626>>, <<\h4146, \h6c4c>>, <<\h828c, \hd898>> >>,
     << <<\h01d8, \hac87>>, <<\h03b1, \h590e>>, <<\h0762, \hb21c>>, <<\h0ec5, \h6438>>, <<\h1d8a, \hc870>>, <<\h3b15, \h90e0>>, <<\h762b, \h21c0>>, <<\hec56, \h4380>> >>,
     << <<\hdc6d, \h9ab7>>, <<\hbc1a, \h28d9>>, <<\h7cf5, \h4c05>>, <<\hf9ea, \h980a>>, <<\hf714, \h2da3>>, <<\heae9, \h46f1>>, <<\hd113, \h9055>>, <<\ha6e6, \h3d1d>> >>,
     << <<\h490d, \h678d>>, <<\h921a, \hcf1a>>, <<\h20f4, \h8383>>, <<\h41e9, \h0706>>, <<\h83d2, \h0e0c>>, <<\h0365, \h01af>>, <<\h06ca, \h035e>>, <<\h0d94, \h06bc>> >>,
     << <<\h1b28, \h0d78>>, <<\h3650, \h1af0>>, <<\h6ca0, \h35e0>>, <<\hd940, \h6bc0>>, <<\hb641, \hca37>>, <<\h6842, \h89d9>>, <<\hd085, \h13b2>>, <<\ha5cb, \h3ad3>> >>,
     << <<\h4f57, \h6811>>, <<\h9eae, \hd022>>, <<\h399c, \hbdf3>>, <<\h7339, \h7be6>>, <<\he672, \hf7cc>>, <<\hc824, \hf22f>>, <<\h9488, \hf9e9>>, <<\h2dd0, \hee65>> >>,
     << <<\h5ba1, \hdcca>>, <<\hb743, \hb994>>, <<\h6a46, \h6e9f>>, <<\hd48c, \hdd3e>>, <<\hadd8, \ha7cb>>, <<\h5f70, \h5221>>, <<\hbee0, \ha442>>, <<\h7900, \h5533>> >>
  >>

\* A table of its own in the code, with the entries of the first of these.
BZ2_crc32Table == crc32_s8[1]

TableEntry(table, byte) == FoldSet(LAMBDA b, acc : Plus(Word(table[b + 1]), acc), {}, byte)

----------------------------------------------------------------------------
(* Software *)

\* (crc << 8) ^ table[(crc >> 24) ^ byte]
UpdateByte(crc, byte) ==
  Plus(Shift(Below(crc, 24), 8), TableEntry(BZ2_crc32Table, Plus({i - 24 : i \in crc \ 0..23}, byte)))

\* Eight bytes from place k on; the first four with the crc so far.
UpdateEight(crc, buf, k) ==
  LET CrcByte(q) == {i - 8 * (3 - q) : i \in crc \cap (8 * (3 - q))..(8 * (3 - q) + 7)}
      Byte(q) == IF q < 4 THEN Plus(buf[k + q], CrcByte(q)) ELSE buf[k + q]
  IN  FoldSet(LAMBDA q, acc : Plus(TableEntry(crc32_s8[8 - q], Byte(q)), acc), {}, 0..7)

RECURSIVE ByteWise(_, _, _, _)
ByteWise(crc, buf, k, end) ==
  IF k > end THEN crc ELSE ByteWise(UpdateByte(crc, buf[k]), buf, k + 1, end)

RECURSIVE Slices(_, _, _)
Slices(crc, buf, k) ==
  IF k + 7 > Len(buf) THEN ByteWise(crc, buf, k, Len(buf)) ELSE Slices(UpdateEight(crc, buf, k), buf, k + 8)

\* align is the address of buf modulo 4.
Software(crc, buf, align) ==
  LET head == Min({Len(buf), (4 - align) % 4})
  IN  Slices(ByteWise(crc, buf, 1, head), buf, head + 1)

----------------------------------------------------------------------------
(* crc32_pclmul.  A register is a subset of 0..127. *)

K_FOLD4_HI == Word(<<\h8833, \h794c>>)
K_FOLD4_LO == Word(<<\he622, \h8b11>>)
K_FOLD1_HI == Word(<<\hc5b9, \hcd4c>>)
K_FOLD1_LO == Word(<<\he8a4, \h5605>>)
K_REDUCE_64 == Word(<<\h490d, \h678d>>)
K_BARRETT_MU == {32} \cup Word(<<\h04d1, \h01df>>)
K_X32_MOD_P == Word(<<\h04c1, \h1db7>>)

\* Sixteen bytes from place k on, the first in the highest bits.
Load(buf, k) == UNION {Shift(buf[k + q], 8 * (15 - q)) : q \in 0..15}
High(x, n) == {i - n : i \in x \ 0..(n - 1)}

\* Bug: the constants change places.
fold_128_Crossed(data, old, hi, lo) ==
  Plus(data, Plus(Times(Below(old, 64), hi), Times(High(old, 64), lo)))

fold_128(data, old, hi, lo) ==
  Plus(data, Plus(Times(Below(old, 64), lo), Times(High(old, 64), hi)))

barrett_reduce(x) ==
  LET t == Below(High(x, 32), 32)
      q == High(Times(t, K_BARRETT_MU), 32)
  IN  Below(Plus(x, Times(Below(q, 64), P)), 32)

\* Four registers at once over 64 bytes at a time, from place k on, then one over 16 at a time.
RECURSIVE FoldSixteen(_, _, _)
FoldSixteen(x, buf, k) ==
  IF k + 15 > Len(buf) THEN [x |-> x, at |-> k]
  ELSE FoldSixteen(fold_128(Load(buf, k), x, K_FOLD1_HI, K_FOLD1_LO), buf, k + 16)

RECURSIVE FoldSixtyFour(_, _, _)
FoldSixtyFour(x, buf, k) ==
  LET Next(n) == fold_128(Load(buf, k + 16 * (n - 1)), x[n], K_FOLD4_HI, K_FOLD4_LO)
      Join(n, acc) == fold_128(x[n], acc, K_FOLD1_HI, K_FOLD1_LO)
  IN  IF k + 63 > Len(buf) THEN FoldSixteen(Join(4, Join(3, Join(2, x[1]))), buf, k)
      ELSE FoldSixtyFour(<<Next(1), Next(2), Next(3), Next(4)>>, buf, k + 64)

crc32_pclmul(crc, buf) ==
  LET x0 == Plus(Load(buf, 1), Shift(crc, 96))
      f == FoldSixtyFour(<<x0, Load(buf, 17), Load(buf, 33), Load(buf, 49)>>, buf, 65)
      to96 == Plus(Below(f.x, 64), Times(High(f.x, 64), K_REDUCE_64))
      to64 == Plus(Below(to96, 64), Times(Below(High(to96, 64), 32), K_REDUCE_64))
      reduced == barrett_reduce(Times(barrett_reduce(to64), K_X32_MOD_P))
  IN  ByteWise(reduced, buf, f.at, Len(buf))

BZ2_crc32_update(crc, buf, align, pclmul) ==
  IF pclmul /\ Len(buf) >= 64 THEN crc32_pclmul(crc, buf) ELSE Software(crc, buf, align)

----------------------------------------------------------------------------
(* What a CRC is: the remainder of crc * x^(8 n) + message * x^32. *)

RECURSIVE ModP(_)
ModP(a) ==
  IF a \subseteq 0..31 THEN a ELSE ModP(Plus(a, Shift(P, Max(a) - 32)))

Remainder(crc, buf) ==
  LET n == Len(buf)
  IN  ModP(Plus(Shift(crc, 8 * n), UNION {Shift(buf[k], 8 * (n - k) + 32) : k \in 1..n}))
=============================================================================
