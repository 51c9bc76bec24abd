----------------------------- MODULE BlockSort -----------------------------
(***************************************************************************)
(* The block sort of the encoder (blocksort.c): the order of the rotations *)
(* of a block, by doubling and ternary quicksort for a small block, from   *)
(* the suffix array of the block written twice for a large one.            *)
(*                                                                         *)
(* Arrays of the code are functions on 0..n-1; the block is one of bytes.  *)
(***************************************************************************)
EXTENDS Integers, Sequences, FiniteSetsExt

CONSTANTS
  SmallBlock,     \* blocks below this size are sorted by fallbackSort (10000)
  SmallThresh,    \* FALLBACK_QSORT_SMALL_THRESH (10)
  StackSize       \* FALLBACK_QSORT_STACK_SIZE (100)

ASSUME BlockSortAssumption ==
  /\ SmallBlock \in Nat /\ SmallThresh \in Nat \ {0} /\ StackSize \in Nat

Size(block) == Cardinality(DOMAIN block)
Swapped(f, a, b) == [f EXCEPT ![a] = f[b], ![b] = f[a]]

----------------------------------------------------------------------------
(* Ordering the places lo..hi of fmap by eclass. *)

\* One pass of the insertion sort from the right, over every step-th place.
RECURSIVE InsertPass(_, _, _, _, _, _)
InsertPass(fmap, eclass, i, lo, hi, step) ==
  IF i < lo THEN fmap
  ELSE LET Smaller(k) == eclass[fmap[i]] > eclass[fmap[i + k * step]]
           n == Max({0} \cup {k \in 1..((hi - i) \div step) : \A q \in 1..k : Smaller(q)})
           to == {i + k * step : k \in 0..(n - 1)}
       IN  InsertPass([p \in DOMAIN fmap |-> IF p \in to THEN fmap[p + step]
                                             ELSE IF p = i + n * step THEN fmap[i] ELSE fmap[p]],
                      eclass, i - 1, lo, hi, step)

fallbackSimpleSort(fmap, eclass, lo, hi) ==
  LET coarse == IF hi - lo > 3 THEN InsertPass(fmap, eclass, hi - 4, lo, hi, 4) ELSE fmap
  IN  InsertPass(coarse, eclass, hi - 1, lo, hi, 1)

\* The two scans towards each other; the pivots go to the ends.
RECURSIVE Partition(_, _, _)
Partition(p, eclass, med) ==
  LET e == eclass[p.fmap[p.unLo]]
      f == eclass[p.fmap[p.unHi]]
  IN  IF p.unLo > p.unHi THEN p
      ELSE Partition(
        CASE e < med -> [p EXCEPT !.unLo = @ + 1]
          [] e = med -> [p EXCEPT !.fmap = Swapped(@, p.unLo, p.ltLo), !.ltLo = @ + 1, !.unLo = @ + 1]
          [] e > med /\ f > med -> [p EXCEPT !.unHi = @ - 1]
          [] e > med /\ f = med -> [p EXCEPT !.fmap = Swapped(@, p.unHi, p.gtHi), !.gtHi = @ - 1, !.unHi = @ - 1]
          [] OTHER -> [p EXCEPT !.fmap = Swapped(@, p.unLo, p.unHi), !.unLo = @ + 1, !.unHi = @ - 1],
        eclass, med)

\* fvswap: n places from a on change with n places from b on.
BlocksSwapped(f, a, b, n) ==
  [p \in DOMAIN f |-> IF p \in a..(a + n - 1) THEN f[p + b - a]
                      ELSE IF p \in b..(b + n - 1) THEN f[p + a - b] ELSE f[p]]

Shorter(a, b) == IF a < b THEN a ELSE b

\* The pivots from the ends to the middle.
Gathered(q, lo, hi) ==
  LET n == Shorter(q.ltLo - lo, q.unLo - q.ltLo)
      m == Shorter(hi - q.gtHi, q.gtHi - q.unHi)
  IN  BlocksSwapped(BlocksSwapped(q.fmap, lo, q.unLo - n, n), q.unLo, hi - m + 1, m)

Pivot(fmap, eclass, lo, hi, r) ==
  eclass[fmap[IF r % 3 = 0 THEN lo ELSE IF r % 3 = 1 THEN (lo + hi) \div 2 ELSE hi]]

\* Bug: the smaller half is pushed first.
Halves_SmallerFirst(q, lo, hi) ==
  LET left == <<lo, lo + q.unLo - q.ltLo - 1>>
      right == <<hi - (q.gtHi - q.unHi) + 1, hi>>
  IN  IF left[2] - left[1] > right[2] - right[1] THEN <<right, left>> ELSE <<left, right>>

\* The larger half is pushed first, so that the smaller is done next.
Halves(q, lo, hi) ==
  LET left == <<lo, lo + q.unLo - q.ltLo - 1>>
      right == <<hi - (q.gtHi - q.unHi) + 1, hi>>
  IN  IF left[2] - left[1] > right[2] - right[1] THEN <<left, right>> ELSE <<right, left>>

\* deepest is the greatest sp that AssertH 1004 saw; q is a bucket after its partition.
RECURSIVE QSort(_, _, _, _, _)
Divided(q, eclass, lo, hi, stack, r, deepest) ==
  IF q.gtHi < q.ltLo THEN QSort(q.fmap, eclass, stack, r, deepest)
  ELSE QSort(Gathered(q, lo, hi), eclass, stack \o Halves(q, lo, hi), r, deepest)
QSort(fmap, eclass, stack, r, deepest) ==
  IF stack = <<>> THEN [fmap |-> fmap, deepest |-> deepest]
  ELSE LET lo == stack[Len(stack)][1]
           hi == stack[Len(stack)][2]
           rest == SubSeq(stack, 1, Len(stack) - 1)
           now == Max({deepest, Len(stack)})
           r1 == (r * 7621 + 1) % 32768
       IN  IF hi - lo < SmallThresh
           THEN QSort(IF lo < hi THEN fallbackSimpleSort(fmap, eclass, lo, hi) ELSE fmap, eclass, rest, r, now)
           ELSE Divided(Partition([fmap |-> fmap, unLo |-> lo, ltLo |-> lo, unHi |-> hi, gtHi |-> hi],
                                  eclass, Pivot(fmap, eclass, lo, hi, r1)), eclass, lo, hi, rest, r1, now)

fallbackQSort3(fmap, eclass, lo, hi) == QSort(fmap, eclass, <<<<lo, hi>>>>, 0, 0)

----------------------------------------------------------------------------
(* fallbackSort: bh has a bit set where a bucket begins, and beyond the
   block bits set and clear in turn, at which the scans for buckets stop. *)

Sentinels(n) == {n + 2 * i : i \in 0..31}
NextClear(bh, k) == Min({i \in k..(k + Cardinality(bh)) : i \notin bh})
NextSet(bh, k) == Min({i \in bh : i >= k})

\* The places of the bytes, the last first within a byte; and the first place of each byte.
ByteOrder(block) ==
  LET n == Size(block)
      Place(i) == Cardinality({j \in DOMAIN block : block[j] < block[i] \/ (block[j] = block[i] /\ j > i)})
  IN  [k \in 0..(n - 1) |-> CHOOSE i \in DOMAIN block : Place(i) = k]
BucketStart(block, b) == Cardinality({j \in DOMAIN block : block[j] < b})

\* The class of a rotation is the place where the bucket of the rotation H bytes on begins.
Classes(fmap, bh, H) ==
  LET n == Size(fmap)
      Place(k) == CHOOSE i \in 0..(n - 1) : fmap[i] = (k + H) % n
  IN  [k \in 0..(n - 1) |-> Max({0} \cup {j \in bh : j <= Place(k)})]

\* The bucket l..last, in the order q, splits where the class changes.
Split(s, q, eclass, l, last) ==
  [fmap |-> q.fmap, notDone |-> s.notDone + (last - l + 1), deepest |-> Max({s.deepest, q.deepest}),
   bh |-> s.bh \cup {i \in l..last : i = l \/ eclass[q.fmap[i]] # eclass[q.fmap[i - 1]]}]

\* The buckets after place r, each sorted by class.
RECURSIVE SortBuckets(_, _, _)
SortBuckets(s, eclass, r) ==
  LET n == Size(eclass)
      l == NextClear(s.bh, r + 1) - 1
      last == NextSet(s.bh, l + 1) - 1
  IN  IF l >= n \/ last >= n THEN s
      ELSE SortBuckets(Split(s, fallbackQSort3(s.fmap, eclass, l, last), eclass, l, last), eclass, last)

RECURSIVE Doubling(_, _)
Doubling(s, H) ==
  IF H > Size(s.fmap) \/ s.notDone = 0 THEN s
  ELSE Doubling(SortBuckets([s EXCEPT !.notDone = 0], Classes(s.fmap, s.bh, H), -1), 2 * H)

\* The classes are written over the block, which is made again from the order and the counts.
Reconstructed(block, fmap) ==
  LET Place(i) == CHOOSE k \in DOMAIN fmap : fmap[k] = i
      ByteAt(k) == Max({b \in {block[i] : i \in DOMAIN block} : BucketStart(block, b) <= k})
  IN  [i \in DOMAIN block |-> ByteAt(Place(i))]

Finished(block, s) == [ptr |-> s.fmap, block |-> Reconstructed(block, s.fmap), deepest |-> s.deepest]

fallbackSort(block) ==
  LET n == Size(block)
      bytes == {block[i] : i \in DOMAIN block}
  IN  Finished(block, Doubling([fmap |-> ByteOrder(block), notDone |-> n, deepest |-> 0,
                                bh |-> {BucketStart(block, b) : b \in bytes} \cup Sentinels(n)], 1))

----------------------------------------------------------------------------
(* sais_bwt *)

\* A suffix before another of the same string, a proper prefix first.
SuffixBefore(s, i, j) ==
  LET n == Size(s)
      Differ == {k \in 0..(n - 1 - Max({i, j})) : s[i + k] # s[j + k]}
  IN  IF Differ = {} THEN i > j ELSE s[i + Min(Differ)] < s[j + Min(Differ)]

\* What libsais returns.
libsais(s) ==
  [p \in DOMAIN s |-> CHOOSE i \in DOMAIN s : Cardinality({j \in DOMAIN s : SuffixBefore(s, j, i)}) = p]

Doubled(block) == [i \in 0..(2 * Size(block) - 1) |-> block[i % Size(block)]]

\* The suffixes that begin in the first copy, in their order.
InFirstCopy(SA, n) ==
  LET first == {p \in DOMAIN SA : SA[p] < n}
  IN  [j \in 0..(n - 1) |-> SA[CHOOSE p \in first : Cardinality({q \in first : q < p}) = j]]
sais_bwt(block) == InFirstCopy(libsais(Doubled(block)), Size(block))

----------------------------------------------------------------------------
(* BZ2_blockSort: the order, the place of the whole block in it, the block
   as it is left behind. *)

OrigPtr(ptr) == Min({i \in DOMAIN ptr : ptr[i] = 0})
WithOrigPtr(f) == [ptr |-> f.ptr, block |-> f.block, deepest |-> f.deepest, origPtr |-> OrigPtr(f.ptr)]

BZ2_blockSort(block) ==
  WithOrigPtr(IF Size(block) < SmallBlock THEN fallbackSort(block)
              ELSE [ptr |-> sais_bwt(block), block |-> block, deepest |-> 0])
=============================================================================
