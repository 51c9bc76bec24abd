---------------------------- MODULE HuffmanCodes ----------------------------
(***************************************************************************)
(* The Huffman codes: code lengths and codes of the encoder (huffman.c),   *)
(* the decode tables (huffman.c), the two-level look-up table and the two  *)
(* ways to decode a symbol (decompress.c).                                 *)
(*                                                                         *)
(* Symbols are 0..alphaSize-1; freq, len, code, ... are functions on them. *)
(***************************************************************************)
EXTENDS Integers, Sequences, FiniteSetsExt

CONSTANTS
  MaxCodeLen,     \* the longest code the decoder reads (20 in the code)
  TableBits,      \* BZ_DECODE_TABLE_BITS (11)
  OverflowSize    \* entries of decode_overflow[t] (512)

ASSUME HuffmanAssumption ==
  /\ MaxCodeLen \in Nat /\ TableBits \in 1..MaxCodeLen
  /\ OverflowSize \in Nat

Symbols(alphaSize) == 0..(alphaSize - 1)
minLen(len) == Min({len[i] : i \in DOMAIN len})
maxLen(len) == Max({len[i] : i \in DOMAIN len})
Count(len, l) == Cardinality({i \in DOMAIN len : len[i] = l})

----------------------------------------------------------------------------
(* Code lengths: a heap of subtrees, ordered by weight.  A weight holds the
   frequency above its low 8 bits and the depth of the subtree in them. *)

WEIGHTOF(zz) == zz - (zz % 256)
DEPTHOF(zz) == zz % 256
ADDWEIGHTS(z1, z2) == WEIGHTOF(z1) + WEIGHTOF(z2) + 1 + Max({DEPTHOF(z1), DEPTHOF(z2)})

\* The heap is a function on 0..: heap[0] = 0 is the sentinel, of weight 0.
RECURSIVE UPHEAP(_, _, _, _)
UPHEAP(heap, weight, zz, tmp) ==
  IF weight[tmp] < weight[heap[zz \div 2]]
  THEN UPHEAP([heap EXCEPT ![zz] = heap[zz \div 2]], weight, zz \div 2, tmp)
  ELSE [heap EXCEPT ![zz] = tmp]

\* Bug: the right child is not looked at.
RECURSIVE DOWNHEAP_LeftOnly(_, _, _, _, _)
DOWNHEAP_LeftOnly(heap, weight, nHeap, zz, tmp) ==
  LET yy == 2 * zz
  IN  IF yy > nHeap \/ weight[tmp] < weight[heap[yy]]
      THEN [heap EXCEPT ![zz] = tmp]
      ELSE DOWNHEAP_LeftOnly([heap EXCEPT ![zz] = heap[yy]], weight, nHeap, yy, tmp)

RECURSIVE DOWNHEAP(_, _, _, _, _)
DOWNHEAP(heap, weight, nHeap, zz, tmp) ==
  LET left == 2 * zz
      yy == IF left < nHeap /\ weight[heap[left + 1]] < weight[heap[left]] THEN left + 1 ELSE left
  IN  IF left > nHeap \/ weight[tmp] < weight[heap[yy]]
      THEN [heap EXCEPT ![zz] = tmp]
      ELSE DOWNHEAP([heap EXCEPT ![zz] = heap[yy]], weight, nHeap, yy, tmp)

PushNode(t, node) ==
  [t EXCEPT !.nHeap = @ + 1,
            !.heap = UPHEAP([@ EXCEPT ![t.nHeap + 1] = node], t.weight, t.nHeap + 1, node)]

PopNode(t) ==
  [t EXCEPT !.nHeap = @ - 1,
            !.heap = DOWNHEAP(t.heap, t.weight, t.nHeap - 1, 1, t.heap[t.nHeap])]

RECURSIVE PushLeaves(_, _, _)
PushLeaves(t, i, alphaSize) ==
  IF i > alphaSize THEN t ELSE PushLeaves(PushNode(t, i), i + 1, alphaSize)

\* A tree without its leaves in the heap yet; weight is that of the leaves, 1..alphaSize.
EmptyTree(weight, alphaSize) ==
  [heap |-> [i \in 0..(alphaSize + 1) |-> 0], nHeap |-> 0, nNodes |-> alphaSize,
   weight |-> [i \in 0..(2 * alphaSize) |-> IF i \in DOMAIN weight THEN weight[i] ELSE 0],
   parent |-> [i \in 0..(2 * alphaSize) |-> -1]]

RECURSIVE JoinAll(_)
JoinAll(t) ==
  IF t.nHeap <= 1 THEN t
  ELSE LET n1 == t.heap[1]
           t1 == PopNode(t)
           n2 == t1.heap[1]
           t2 == PopNode(t1)
           new == t.nNodes + 1
       IN  JoinAll(PushNode([t2 EXCEPT !.nNodes = new,
                                       !.parent = [@ EXCEPT ![n1] = new, ![n2] = new],
                                       !.weight[new] = ADDWEIGHTS(t.weight[n1], t.weight[n2])],
                            new))

RECURSIVE DepthIn(_, _)
DepthIn(parent, k) == IF parent[k] < 0 THEN 0 ELSE 1 + DepthIn(parent, parent[k])

TreeLengths(weight, alphaSize) ==
  LET t == JoinAll(PushLeaves(EmptyTree(weight, alphaSize), 1, alphaSize))
  IN  [i \in Symbols(alphaSize) |-> DepthIn(t.parent, i + 1)]

LeafWeights(freq) ==
  [i \in 1..Cardinality(DOMAIN freq) |-> 256 * (IF freq[i - 1] = 0 THEN 1 ELSE freq[i - 1])]
Halved(weight) == [i \in DOMAIN weight |-> 256 * (1 + (weight[i] \div 256) \div 2)]

\* All lengths, until none is above the limit.
TooLong(len, limit) == \E i \in DOMAIN len : len[i] > limit

RECURSIVE LengthsOf(_, _, _)
LengthsOf(weight, alphaSize, limit) ==
  LET len == TreeLengths(weight, alphaSize)
  IN  IF TooLong(len, limit) THEN LengthsOf(Halved(weight), alphaSize, limit) ELSE len

BZ2_hbMakeCodeLengths(freq, limit) ==
  LengthsOf(LeafWeights(freq), Cardinality(DOMAIN freq), limit)

----------------------------------------------------------------------------
(* Canonical codes.  FirstCode(len, l) is vec when the loop over the symbols
   comes to length l. *)

RECURSIVE FirstCode(_, _)
FirstCode(len, l) ==
  IF l = minLen(len) THEN 0 ELSE 2 * (FirstCode(len, l - 1) + Count(len, l - 1))

BZ2_hbAssignCodes(len) ==
  [i \in DOMAIN len |->
     FirstCode(len, len[i]) + Cardinality({j \in DOMAIN len : j < i /\ len[j] = len[i]})]

\* perm: the symbols in the order of their codes, by length and then by number.
CodeBefore(len, i, j) == len[i] < len[j] \/ (len[i] = len[j] /\ i < j)
Perm(len) ==
  [p \in DOMAIN len |-> CHOOSE i \in DOMAIN len : Cardinality({j \in DOMAIN len : CodeBefore(len, j, i)}) = p]

\* limit[l] is the last code of length l, base[l] what turns a code into an index of perm.
BZ2_hbCreateDecodeTables(len) ==
  LET lo == minLen(len)
      hi == maxLen(len)
      upto(l) == Cardinality({i \in DOMAIN len : len[i] < l})
      limit == [l \in 0..(MaxCodeLen + 2) |->
                  IF l \in lo..hi THEN FirstCode(len, l) + Count(len, l) - 1 ELSE 0]
      base == [l \in 0..(MaxCodeLen + 2) |->
                 IF l \in (lo + 1)..hi THEN 2 * (limit[l - 1] + 1) - upto(l) ELSE upto(l)]
  IN  [minLen |-> lo, limit |-> limit, base |-> base, perm |-> Perm(len)]

----------------------------------------------------------------------------
(* The look-up in two levels.  An entry of the first table is 0 (none), a
   symbol and its length, or minus one less than the place and the width of
   a second table: 16 * offset + width. *)

Entry(l, sym) == 65536 * l + sym
EntryLen(e) == e \div 65536
EntrySym(e) == e % 65536
OverflowMark(offset, width) == 0 - (1 + 16 * offset + width)
MarkOf(e) == -(e + 1)

\* Bug: one entry too many.
Filled_OneMore(f, from, n, e) == [i \in DOMAIN f |-> IF i \in from..(from + n) THEN e ELSE f[i]]

Filled(f, from, n, e) == [i \in DOMAIN f |-> IF i \in from..(from + n - 1) THEN e ELSE f[i]]
NoTable == [tbl |-> [i \in 0..(2^TableBits - 1) |-> 0],
            ovf |-> [i \in 0..(OverflowSize - 1) |-> 0], used |-> 0]

\* A code that fits the first table fills all its entries that start with it.
PlaceShort(f, l, sym, code) ==
  LET n == 2^(TableBits - l)
  IN  IF code * n + n > 2^TableBits THEN [f EXCEPT !.ok = FALSE]
      ELSE [f EXCEPT !.tbl = Filled(@, code * n, n, Entry(l, sym))]

\* The second table of a prefix, when it has none yet: of the width of the longest code.
Opened(f, prefix, hi) ==
  LET width == IF hi > TableBits THEN hi - TableBits ELSE 1
  IN  IF f.used + 2^width > OverflowSize THEN f
      ELSE [f EXCEPT !.tbl[prefix] = OverflowMark(f.used, width), !.used = @ + 2^width]

PlaceLong(f, l, sym, code, hi) ==
  LET extra == l - TableBits
      prefix == code \div 2^extra
      g == IF f.tbl[prefix] = 0 THEN Opened(f, prefix, hi) ELSE f
      mark == MarkOf(g.tbl[prefix])
      n == 2^((mark % 16) - extra)
      from == (mark \div 16) + (code % 2^extra) * n
  IN  IF prefix >= 2^TableBits THEN [f EXCEPT !.ok = FALSE]
      ELSE IF g.tbl[prefix] = 0 THEN g     \* no room for a second table: the slow path
      ELSE IF mark % 16 < extra \/ from + n > OverflowSize THEN [g EXCEPT !.ok = FALSE]
      ELSE [g EXCEPT !.ovf = Filled(@, from, n, Entry(l, sym))]

\* The loop over the symbols in the order of perm, from pp on; code_val runs beside it.
RECURSIVE PlaceFrom(_, _, _, _, _)
PlaceFrom(f, len, pp, code, cur) ==
  IF pp \notin DOMAIN len \/ ~f.ok THEN f
  ELSE LET sym == Perm(len)[pp]
           l == len[sym]
           val == code * 2^(l - cur)
           g == IF l <= TableBits THEN PlaceShort(f, l, sym, val)
                                  ELSE PlaceLong(f, l, sym, val, maxLen(len))
       IN  PlaceFrom(g, len, pp + 1, val + 1, l)

\* Degenerate codes are left to the slow path: an empty table.
FastTable(len) ==
  LET f == PlaceFrom([tbl |-> NoTable.tbl, ovf |-> NoTable.ovf, used |-> 0, ok |-> TRUE],
                     len, 0, 0, minLen(len))
  IN  IF f.ok THEN [tbl |-> f.tbl, ovf |-> f.ovf, used |-> f.used]
              ELSE [NoTable EXCEPT !.ovf = f.ovf]

----------------------------------------------------------------------------
(* Decoding one symbol from the bits w that come next, a sequence. *)

RECURSIVE ValueOf(_, _)
ValueOf(w, n) == IF n = 0 THEN 0 ELSE 2 * ValueOf(w, n - 1) + w[n]

NoSymbol == [sym |-> -1, bits |-> 0]

\* GET_MTF_VAL: a bit at a time from minLen, until the code is at most the last of its length.
SlowDecode(tables, w) ==
  LET ends == {zn \in tables.minLen..MaxCodeLen : ValueOf(w, zn) <= tables.limit[zn]}
      zn == Min(ends)
      place == ValueOf(w, zn) - tables.base[zn]
  IN  IF ends = {} \/ place \notin DOMAIN tables.perm THEN NoSymbol
      ELSE [sym |-> tables.perm[place], bits |-> zn]

\* The look-up, given that live bits are in the buffer; NoSymbol: go on with GET_MTF_VAL.
FastDecode(f, w, live) ==
  LET e == f.tbl[ValueOf(w, TableBits)]
      mark == MarkOf(e)
      total == TableBits + (mark % 16)
      e2 == f.ovf[(mark \div 16) + (ValueOf(w, total) % 2^(mark % 16))]
  IN  CASE live < TableBits -> NoSymbol
        [] e > 0 -> [sym |-> EntrySym(e), bits |-> EntryLen(e)]
        [] e < 0 /\ live >= total /\ e2 > 0 -> [sym |-> EntrySym(e2), bits |-> EntryLen(e2)]
        [] OTHER -> NoSymbol
=============================================================================
