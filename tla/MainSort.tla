------------------------------ MODULE MainSort ------------------------------
(***************************************************************************)
(* The block sort of the reference implementation                          *)
(* (reference/bzip2/blocksort.c), which libqbz2 replaced by suffix arrays: *)
(* a radix sort by two bytes, a ternary quicksort of the small buckets     *)
(* that cannot be derived from those already sorted, and the fallback when *)
(* its budget of comparisons is spent.                                     *)
(*                                                                         *)
(* The state of the sort is a record: the order ptr, the budget, the ranks *)
(* known so far (quadrant), the small buckets done, and whether the        *)
(* assertions held.  block and quadrant go on past the block by the first  *)
(* Overshoot places again.                                                 *)
(***************************************************************************)
EXTENDS BlockSort

CONSTANTS
  Bytes,          \* the bytes: 0..255
  NQSort,         \* BZ_N_QSORT (12)
  NShell,         \* BZ_N_SHELL (18)
  PlainBytes,     \* the bytes mainGtU compares without their quadrants (12)
  Unroll,         \* the bytes it compares for one unit of the budget (8)
  MainThresh,     \* MAIN_QSORT_SMALL_THRESH (20)
  MaxQuadrant     \* the greatest rank a quadrant holds (65534)

ASSUME MainSortAssumption ==
  /\ Bytes \subseteq Nat /\ NShell + 2 = PlainBytes + Unroll
  /\ {NQSort, PlainBytes, MaxQuadrant} \subseteq Nat /\ {Unroll, MainThresh} \subseteq Nat \ {0}

NRadix == 2
Overshoot == NRadix + NQSort + NShell + 2
Wrapped(i, n) == IF i >= n THEN i - n ELSE i

----------------------------------------------------------------------------
(* Comparing and sorting by comparisons *)

\* Unroll bytes and quadrants at a time; k bounds the rounds.
RECURSIVE GtRounds(_, _, _, _, _)
GtRounds(m, i1, i2, k, budget) ==
  LET n == Size(m.ptr)
      Differ == {o \in 0..(Unroll - 1) : \/ m.block[i1 + o] # m.block[i2 + o]
                                         \/ m.quadrant[i1 + o] # m.quadrant[i2 + o]}
      o == Min(Differ)
      a == i1 + o
      b == i2 + o
  IN  IF Differ # {}
      THEN [gt |-> IF m.block[a] # m.block[b] THEN m.block[a] > m.block[b] ELSE m.quadrant[a] > m.quadrant[b],
            budget |-> budget]
      ELSE IF k - Unroll < 0 THEN [gt |-> FALSE, budget |-> budget - 1]
      ELSE GtRounds(m, Wrapped(i1 + Unroll, n), Wrapped(i2 + Unroll, n), k - Unroll, budget - 1)

mainGtU(m, i1, i2) ==
  LET Differ == {o \in 0..(PlainBytes - 1) : m.block[i1 + o] # m.block[i2 + o]}
      o == Min(Differ)
  IN  IF Differ # {} THEN [gt |-> m.block[i1 + o] > m.block[i2 + o], budget |-> m.budget]
      ELSE GtRounds(m, i1 + PlainBytes, i2 + PlainBytes, Size(m.ptr) + 8, m.budget)

\* v moves down from place j by steps of h, while it is below what g compared it with.
RECURSIVE Inserted(_, _, _, _, _, _)
Compared(m, g, v, j, h, lo, d) ==
  LET moved == [m EXCEPT !.ptr[j] = m.ptr[j - h], !.budget = g.budget]
  IN  IF ~g.gt THEN [m EXCEPT !.ptr[j] = v, !.budget = g.budget]
      ELSE IF j - h <= lo + h - 1 THEN [moved EXCEPT !.ptr[j - h] = v]
      ELSE Inserted(moved, v, j - h, h, lo, d)
Inserted(m, v, j, h, lo, d) == Compared(m, mainGtU(m, m.ptr[j - h] + d, v + d), v, j, h, lo, d)

\* The shell sort, from place i on by steps of h; the budget is looked at after every third place.
Checked(m, x) == IF x % 3 = 2 /\ m.budget < 0 THEN [m EXCEPT !.spent = TRUE] ELSE m
RECURSIVE ShellPass(_, _, _, _, _, _)
ShellPass(m, h, i, lo, hi, d) ==
  IF i > hi \/ m.spent THEN m
  ELSE ShellPass(Checked(Inserted(m, m.ptr[i], i, h, lo, d), i - lo - h), h, i + 1, lo, hi, d)

RECURSIVE ShellPasses(_, _, _, _, _)
ShellPasses(m, h, lo, hi, d) ==
  IF h = 0 \/ m.spent THEN m ELSE ShellPasses(ShellPass(m, h, lo + h, lo, hi, d), (h - 1) \div 3, lo, hi, d)

\* The increments are 1, 4, 13, ...: the first is the last of them below the number of places.
RECURSIVE Increment(_, _)
Increment(h, bigN) == IF 3 * h + 1 < bigN THEN Increment(3 * h + 1, bigN) ELSE h

mainSimpleSort(m, lo, hi, d) ==
  IF hi - lo + 1 < 2 THEN m ELSE ShellPasses(m, Increment(1, hi - lo + 1), lo, hi, d)

----------------------------------------------------------------------------
(* mainQSort3 *)

mmed3(a, b, c) == CHOOSE x \in {a, b, c} : /\ Cardinality({y \in {1, 2, 3} : <<a, b, c>>[y] < x}) <= 1
                                           /\ Cardinality({y \in {1, 2, 3} : <<a, b, c>>[y] > x}) <= 1

\* Before and after the pivots at the same depth, the pivots one byte deeper; the largest first.
Thirds(q, lo, hi, d) ==
  LET n == lo + q.unLo - q.ltLo - 1
      k == hi - (q.gtHi - q.unHi) + 1
      Longer(a, b) == a[2] - a[1] < b[2] - b[1]
      Ordered(s, x) == IF Longer(s[x], s[x + 1]) THEN [s EXCEPT ![x] = s[x + 1], ![x + 1] = s[x]] ELSE s
  IN  Ordered(Ordered(Ordered(<<<<lo, n, d>>, <<k, hi, d>>, <<n + 1, k - 1, d + 1>>>>, 1), 2), 1)

RECURSIVE MainQSort(_, _)
DividedInThree(m, q, lo, hi, d, stack) ==
  IF q.gtHi < q.ltLo THEN MainQSort([m EXCEPT !.ptr = q.fmap], Append(stack, <<lo, hi, d + 1>>))
  ELSE MainQSort([m EXCEPT !.ptr = Gathered(q, lo, hi)], stack \o Thirds(q, lo, hi, d))
MainQSort(m, stack) ==
  IF stack = <<>> \/ m.budget < 0 THEN m
  ELSE LET top == stack[Len(stack)]
           lo == top[1]
           hi == top[2]
           d == top[3]
           rest == SubSeq(stack, 1, Len(stack) - 1)
           At == [k \in DOMAIN m.ptr |-> m.block[k + d]]
       IN  IF hi - lo < MainThresh \/ d > NRadix + NQSort THEN MainQSort(mainSimpleSort(m, lo, hi, d), rest)
           ELSE DividedInThree(m, Partition([fmap |-> m.ptr, unLo |-> lo, ltLo |-> lo, unHi |-> hi, gtHi |-> hi], At,
                                            mmed3(At[m.ptr[lo]], At[m.ptr[hi]], At[m.ptr[(lo + hi) \div 2]])),
                               lo, hi, d, rest)

mainQSort3(m, lo, hi) == MainQSort(m, <<<<lo, hi, NRadix>>>>)

----------------------------------------------------------------------------
(* mainSort *)

\* The order by two bytes, of equal ones by place; where the small bucket [a, b] begins and ends.
Before2(block, i, j) ==
  \/ block[i] < block[j]
  \/ block[i] = block[j] /\ block[i + 1] < block[j + 1]
  \/ block[i] = block[j] /\ block[i + 1] = block[j + 1] /\ i < j
Radix(block, n) ==
  [p \in 0..(n - 1) |-> CHOOSE i \in 0..(n - 1) : Cardinality({j \in 0..(n - 1) : Before2(block, j, i)}) = p]
Counted(block, n) ==
  [x \in (0..(Max(Bytes) + 1)) \X (0..(Max(Bytes) + 1)) |->
     Cardinality({i \in 0..(n - 1) : block[i] < x[1] \/ (block[i] = x[1] /\ block[i + 1] < x[2])})]
SmallFirst(m, a, b) == m.ftab[a, b]
SmallLast(m, a, b) == m.ftab[a, b + 1] - 1
BigFirst(m, a) == SmallFirst(m, a, 0)
BIGFREQ(m, a) == BigFirst(m, a + 1) - BigFirst(m, a)

\* The big buckets from the least full, by a shell sort.
RECURSIVE OrderPass(_, _, _, _)
OrderPass(m, order, h, i) ==
  LET Smaller(k) == BIGFREQ(m, order[i - k * h]) > BIGFREQ(m, order[i])
      n == Max({0} \cup {k \in 1..(i \div h) : \A x \in 1..k : Smaller(x)})
  IN  IF i \notin DOMAIN order THEN order
      ELSE OrderPass(m, [p \in DOMAIN order |-> IF p \in {i - k * h : k \in 0..(n - 1)} THEN order[p - h]
                                                ELSE IF p = i - n * h THEN order[i] ELSE order[p]], h, i + 1)
RECURSIVE OrderPasses(_, _, _)
OrderPasses(m, order, h) ==
  IF h = 1 THEN OrderPass(m, order, 1, 1) ELSE OrderPasses(m, OrderPass(m, order, h, h), h \div 3)
RECURSIVE Beyond(_, _)
Beyond(h, n) == IF h <= n THEN Beyond(3 * h + 1, n) ELSE h
runningOrder(m) ==
  LET n == Max(Bytes) + 1 IN OrderPasses(m, [i \in 0..(n - 1) |-> i], Beyond(4, n) \div 3)

\* Step 1: the small buckets [ss, j] that are not done, in the order of j.
WithDone(m, buckets) == [m EXCEPT !.done = @ \cup buckets]
RECURSIVE QSorted(_, _, _)
QSorted(m, ss, j) ==
  LET lo == SmallFirst(m, ss, j)
      hi == SmallLast(m, ss, j)
      ready == j = ss \/ <<ss, j>> \in m.done \/ hi <= lo
  IN  IF j \notin Bytes \/ m.budget < 0 THEN m
      ELSE QSorted(WithDone(IF ready THEN m ELSE mainQSort3(m, lo, hi), {<<ss, j>>} \ {<<ss, ss>>}), ss, j + 1)

\* Step 2: the rotations that begin one byte before those of [ss], from both ends.
OneBefore(m, p) == IF m.ptr[p] = 0 THEN Size(m.ptr) - 1 ELSE m.ptr[p] - 1
RECURSIVE CopiedUp(_, _, _, _)
CopiedUp(m, copyStart, ss, p) ==
  LET k == OneBefore(m, p)
      c == m.block[k]
  IN  IF p >= copyStart[ss] THEN [m |-> m, copy |-> copyStart]
      ELSE IF c \in m.big THEN CopiedUp(m, copyStart, ss, p + 1)
      ELSE CopiedUp([m EXCEPT !.ptr[copyStart[c]] = k], [copyStart EXCEPT ![c] = @ + 1], ss, p + 1)
RECURSIVE CopiedDown(_, _, _, _)
CopiedDown(m, copyEnd, ss, p) ==
  LET k == OneBefore(m, p)
      c == m.block[k]
  IN  IF p <= copyEnd[ss] THEN [m |-> m, copy |-> copyEnd]
      ELSE IF c \in m.big THEN CopiedDown(m, copyEnd, ss, p - 1)
      ELSE CopiedDown([m EXCEPT !.ptr[copyEnd[c]] = k], [copyEnd EXCEPT ![c] = @ - 1], ss, p - 1)

\* AssertH 1007: the two scans have met.
Derived(m, ss) ==
  LET up == CopiedUp(m, [j \in Bytes |-> SmallFirst(m, j, ss)], ss, BigFirst(m, ss))
      down == CopiedDown(up.m, [j \in Bytes |-> SmallLast(m, j, ss)], ss, BigFirst(m, ss + 1) - 1)
      met == \/ up.copy[ss] - 1 = down.copy[ss]
             \/ up.copy[ss] = 0 /\ down.copy[ss] = Size(m.ptr) - 1
  IN  [down.m EXCEPT !.done = @ \cup {<<j, ss>> : j \in Bytes}, !.met = @ /\ met]

\* Step 3: the ranks within [ss], for the comparisons to come.  Bug: not past the block.
RECURSIVE Shifted(_)
Shifted(size) == IF size > MaxQuadrant THEN 2 * Shifted(size \div 2) ELSE 1
Ranked_NoOvershoot(m, ss) ==
  LET q(i) == (CHOOSE p \in DOMAIN m.ptr : m.ptr[p] = i) - BigFirst(m, ss)
  IN  [m EXCEPT !.big = @ \cup {ss},
                !.quadrant = [i \in DOMAIN m.quadrant |->
                  IF i \in DOMAIN m.ptr /\ m.block[i] = ss THEN q(i) \div Shifted(BIGFREQ(m, ss))
                  ELSE m.quadrant[i]]]

Ranked(m, ss) ==
  LET n == Size(m.ptr)
      q(i) == (CHOOSE p \in DOMAIN m.ptr : m.ptr[p] = i) - BigFirst(m, ss)
  IN  [m EXCEPT !.big = @ \cup {ss},
                !.quadrant = [i \in DOMAIN m.quadrant |->
                  IF m.block[i] = ss THEN q(Wrapped(i, n)) \div Shifted(BIGFREQ(m, ss)) ELSE m.quadrant[i]]]

\* The last big bucket needs no ranks.
RECURSIVE BigBuckets(_, _, _)
BigSorted(m, order, i) ==
  IF m.budget < 0 THEN m
  ELSE IF i = Max(Bytes) THEN Derived(m, order[i])
  ELSE BigBuckets(Ranked(Derived(m, order[i]), order[i]), order, i + 1)
BigBuckets(m, order, i) == BigSorted(QSorted(m, order[i], 0), order, i)

mainSort(block, budget) ==
  LET n == Size(block)
      long == [i \in 0..(n + Overshoot - 1) |-> block[i % n]]
      m == [ptr |-> Radix(long, n), block |-> long, ftab |-> Counted(long, n), quadrant |-> [i \in DOMAIN long |-> 0],
            budget |-> budget, spent |-> FALSE, done |-> {}, big |-> {}, met |-> TRUE]
  IN  BigBuckets(m, runningOrder(m), 0)

----------------------------------------------------------------------------
(* BZ2_blockSort of the reference, for a work factor *)

Budget(n, wfact) == n * (((IF wfact < 1 THEN 1 ELSE IF wfact > 100 THEN 100 ELSE wfact) - 1) \div 3)

\* The fallback of the reference is the code libqbz2 kept for small blocks.
ReferenceFallback(block) == fallbackSort(block).ptr

Coded(ptr, met) == [ptr |-> ptr, met |-> met, origPtr |-> OrigPtr(ptr)]
MainOrFallback(block, m) ==
  IF m.budget < 0 THEN Coded(ReferenceFallback(block), m.met) ELSE Coded(m.ptr, m.met)
ReferenceSort(block, wfact) ==
  IF Size(block) < SmallBlock THEN Coded(ReferenceFallback(block), TRUE)
  ELSE MainOrFallback(block, mainSort(block, Budget(Size(block), wfact)))
=============================================================================
