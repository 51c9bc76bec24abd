------------------------------ MODULE LibSAIS ------------------------------
(***************************************************************************)
(* The suffix array construction of libsais.c, as it is built here: one    *)
(* thread, no flags.  What the functions do to the arrays is in this       *)
(* module; the order they are called in is in SuffixSort.                  *)
(*                                                                         *)
(* T is the text, a function on 0..n-1.  st holds what the functions work  *)
(* on: SA, the memory, and the buckets, each array of them under a name.   *)
(* A pair <<c, x>> is an index BUCKETS_INDEX2 or 4 into such an array.     *)
(***************************************************************************)
EXTENDS Integers, SequencesExt, FiniteSetsExt

CONSTANT Top        \* SAINT_MAX + 1, a power of two

ASSUME TopAssumption == Top \in Nat /\ Top % 2 = 0

\* Steps for lo, lo + 1, ... hi, and for hi, hi - 1, ... lo.
Upward(Step(_, _), st, lo, hi) ==
  LET after[i \in (lo - 1)..hi] == LET before == after[i - 1] IN IF i < lo THEN st ELSE Step(before, i)
  IN  IF hi < lo THEN st ELSE after[hi]
Downward(Step(_, _), st, lo, hi) ==
  LET after[i \in lo..(hi + 1)] == LET before == after[i + 1] IN IF i > hi THEN st ELSE Step(before, i)
  IN  IF hi < lo THEN st ELSE after[lo]

\* All of f: of [x \in S |-> e] TLC would evaluate e again wherever f is applied.
Whole(f) == f @@ <<>>

Bit(b) == IF b THEN 1 ELSE 0
Plain(v) == v % Top                                   \* v & SAINT_MAX
Signed(v, b) == IF b THEN v - Top ELSE v              \* v | SAINT_MIN, when b
Flipped(v) == IF v < 0 THEN v + Top ELSE v - Top      \* v ^ SAINT_MIN
SUFFIX_GROUP_MARKER == Top \div 2
InGroup(v) == Plain(v) >= SUFFIX_GROUP_MARKER
Ungrouped(v) == IF InGroup(v) THEN v - SUFFIX_GROUP_MARKER ELSE v
Grouped(v, b) == IF b THEN Ungrouped(v) + SUFFIX_GROUP_MARKER ELSE Ungrouped(v)

Zeroed(SA, from, to) == Whole([i \in DOMAIN SA |-> IF i \in from..(to - 1) THEN 0 ELSE SA[i]])
Copied(SA, to, from, len) ==
  Whole([i \in DOMAIN SA |-> IF i \in to..(to + len - 1) THEN SA[from + i - to] ELSE SA[i]])

SumBelow(f(_), c) == LET sum[x \in 0..c] == IF x = 0 THEN 0 ELSE sum[x - 1] + f(x - 1) IN sum[c]

----------------------------------------------------------------------------
(* Types of suffixes and the leftmost ones of type S. *)

\* Larger than its successor (L), as is the last suffix.
Larger(T) ==
  LET n == Cardinality(DOMAIN T)
      larger[i \in 0..(n - 1)] == IF i = n - 1 THEN TRUE ELSE T[i] > T[i + 1] \/ (T[i] = T[i + 1] /\ larger[i + 1])
  IN  larger

LMS(T) ==
  LET larger == Larger(T) IN {i \in DOMAIN T \ {0} : ~larger[i] /\ larger[i - 1]}

InOrder(S) == Whole([p \in 0..(Cardinality(S) - 1) |-> CHOOSE x \in S : Cardinality({y \in S : y < x}) = p])

\* The members of S at the end of the n places; the scan leaves its last i in the place before them.
GatheredAtEnd(SA, S, n, last) ==
  LET m == Cardinality(S)
      s == InOrder(S)
  IN  Whole([i \in DOMAIN SA |-> IF i \in (n - m)..(n - 1) THEN s[i - (n - m)] ELSE IF i = n - m - 1 THEN last ELSE SA[i]])

\* Counted by symbol, own type and type of the suffix before.
Count4(T, S, k) ==
  LET larger == Larger(T)
      kind(i) == 2 * Bit(larger[i]) + Bit(i > 0 /\ larger[i - 1])
  IN  Whole([v \in (0..(k - 1)) \X (0..3) |-> Cardinality({i \in S : T[i] = v[1] /\ kind(i) = v[2]})])
\* Counted by symbol, and apart those of S; symbols without their mark.
Count2(T, S, k) ==
  Whole([v \in (0..(k - 1)) \X (0..1) |-> Cardinality({i \in DOMAIN T : Plain(T[i]) = v[1] /\ Bit(i \in S) = v[2]})])

gather_lms_suffixes_8u(T, SA, n) == GatheredAtEnd(SA, LMS(T), n, 0)
gather_lms_suffixes_32s(T, SA, n) ==
  LET S == LMS(T)
  IN  GatheredAtEnd(SA, S, n, IF n = 1 \/ 1 \in S THEN SA[n - Cardinality(S) - 1] ELSE 1)
\* Bug: the marks are not looked at.
Unmarked_All(T) == LMS(T)

\* Of a text in which the unique suffixes are marked, the others.
Unmarked(T) == {i \in LMS(T) : T[i] >= 0}
gather_compacted_lms_suffixes_32s(T, SA, n) ==
  LET S == Unmarked(T)
  IN  GatheredAtEnd(SA, S, n, IF n = 1 \/ 1 \in S THEN SA[n - Cardinality(S) - 1] ELSE 1)

count_and_gather_lms_suffixes_8u(T, st, n, k) ==
  [SA |-> GatheredAtEnd(st.SA, LMS(T), n, 0), cnt |-> Count4(T, DOMAIN T, k)]
count_and_gather_lms_suffixes_32s_4k(T, st, n, k) ==
  [SA |-> GatheredAtEnd(st.SA, LMS(T), n, 0), cnt |-> Count4(T, DOMAIN T, k)]
count_and_gather_lms_suffixes_32s_2k(T, st, n, k) ==
  [SA |-> GatheredAtEnd(st.SA, LMS(T), n, 0), cnt |-> Count2(T, LMS(T), k)]
count_and_gather_compacted_lms_suffixes_32s_2k(T, st, n, k) ==
  [SA |-> GatheredAtEnd(st.SA, Unmarked(T), n, 0), cnt |-> Count2(T, LMS(T), k)]
count_lms_suffixes_32s_2k(T, k) == Count2(T, LMS(T), k)
count_suffixes_32s(T, k) == Whole([c \in 0..(k - 1) |-> Cardinality({i \in DOMAIN T : T[i] = c})])

----------------------------------------------------------------------------
(* Buckets *)

Number(cnt, c, S) == MapThenSumSet(LAMBDA x : cnt[<<c, x>>], S)
Starts(cnt, k, S) == Whole([c \in 0..(k - 1) |-> SumBelow(LAMBDA x : Number(cnt, x, S), c)])
Ends(cnt, k, S) == Whole([c \in 0..(k - 1) |-> SumBelow(LAMBDA x : Number(cnt, x, S), c + 1)])

initialize_buckets_start_and_end_8u(cnt, A) == [start |-> Starts(cnt, A, 0..3), end |-> Ends(cnt, A, 0..3)]
initialize_buckets_start_and_end_32s_6k(cnt, k) == [start |-> Starts(cnt, k, 0..3), end |-> Ends(cnt, k, 0..3)]
initialize_buckets_start_and_end_32s_4k(cnt, k) == [start |-> Starts(cnt, k, 0..1), end |-> Ends(cnt, k, 0..1)]
initialize_buckets_end_32s_2k(cnt, k) == Ends(cnt, k, 0..1)
initialize_buckets_start_and_end_32s_2k(end, k) == Whole([c \in 0..(k - 1) |-> IF c = 0 THEN 0 ELSE end[c - 1]])
initialize_buckets_start_32s_1k(count, k) == Whole([c \in 0..(k - 1) |-> SumBelow(LAMBDA x : count[x], c)])
initialize_buckets_end_32s_1k(count, k) == Whole([c \in 0..(k - 1) |-> SumBelow(LAMBDA x : count[x], c + 1)])

\* Suffixes up to the first LMS one, its type taken for S, are not counted.
CountAfter(T, first, k) == Count4(T, {i \in DOMAIN T : i > first}, k)

\* The suffixes that follow one of type L come first: temp[c, 0] their end within c, temp[c, 1] their start.
initialize_buckets_for_lms_suffixes_radix_sort_8u(T, first, A) ==
  LET cnt == CountAfter(T, first, A)
      start == Starts(cnt, A, {1, 3})
      end == Ends(cnt, A, {1, 3})
  IN  [cnt |-> cnt, left |-> end[A - 1],
       temp |-> Whole([v \in (0..(A - 1)) \X (0..1) |-> IF v[2] = 0 THEN end[v[1]] ELSE start[v[1]]])]
initialize_buckets_for_lms_suffixes_radix_sort_32s_6k(T, first, k) ==
  LET cnt == CountAfter(T, first, k)
      end == Ends(cnt, k, {1, 3})
  IN  [cnt |-> cnt, left |-> end[k - 1], temp |-> end]

\* The first LMS suffix is counted as another one.
WithoutFirst(T, cnt, first) == [cnt EXCEPT ![<<T[first], 0>>] = @ + 1, ![<<T[first], 1>>] = @ - 1]
initialize_buckets_for_lms_suffixes_radix_sort_32s_2k(T, cnt, first, k) ==
  LET c1 == WithoutFirst(T, cnt, first) IN [end |-> Ends(c1, k, 0..1), lms |-> Ends(c1, k, {1})]
initialize_buckets_for_radix_and_partial_sorting_32s_4k(T, cnt, first, k) ==
  LET c1 == WithoutFirst(T, cnt, first)
  IN  [start |-> Starts(c1, k, 0..1), end |-> Ends(c1, k, 0..1), lms |-> Ends(c1, k, {1})]

----------------------------------------------------------------------------
(* The LMS suffixes but the first, by their symbol; ptr is counted down. *)

RadixSort(T, SA, ptr, n, m) ==
  Downward(LAMBDA st, i : LET c == T[st.SA[i]]
                          IN  [SA |-> [st.SA EXCEPT ![st.ptr[c] - 1] = st.SA[i]], ptr |-> [st.ptr EXCEPT ![c] = @ - 1]],
           [SA |-> SA, ptr |-> ptr], n - m + 1, n - 1)

radix_sort_lms_suffixes_8u(T, SA, temp, n, m) ==
  LET r == RadixSort(T, SA, Whole([c \in {v[1] : v \in DOMAIN temp} |-> temp[<<c, 0>>]]), n, m)
  IN  [SA |-> r.SA, temp |-> Whole([v \in DOMAIN temp |-> IF v[2] = 0 THEN r.ptr[v[1]] ELSE temp[v]])]
radix_sort_lms_suffixes_32s_6k(T, SA, temp, n, m) == RadixSort(T, SA, temp, n, m)
radix_sort_lms_suffixes_32s_2k(T, SA, lms, n, m) == RadixSort(T, SA, lms, n, m)

\* All LMS suffixes at the ends of their buckets; the place of the first is emptied.
radix_sort_lms_suffixes_32s_1k(T, SA, end) ==
  LET S == LMS(T)
      At(i) == end[T[i]] - Cardinality({j \in S : j >= i /\ T[j] = T[i]})
      Placed == Whole([p \in DOMAIN SA |-> IF \E i \in S : At(i) = p THEN CHOOSE i \in S : At(i) = p ELSE SA[p]])
  IN  IF Cardinality(S) > 1 THEN [Placed EXCEPT ![At(Min(S))] = 0] ELSE Placed

\* A mark where the LMS suffixes of each symbol but the last begin.
radix_sort_set_markers_32s_6k(SA, temp, k) ==
  LET marks == {temp[c] : c \in 0..(k - 2)} IN Whole([i \in DOMAIN SA |-> IF i \in marks THEN Signed(Plain(SA[i]), TRUE) ELSE SA[i]])
radix_sort_set_markers_32s_4k(SA, lms, k) ==
  LET marks == {lms[c] : c \in 0..(k - 2)} IN Whole([i \in DOMAIN SA |-> IF i \in marks THEN Grouped(SA[i], TRUE) ELSE SA[i]])

----------------------------------------------------------------------------
(* Partial order with two sets of buckets: the suffixes after one of type L
   in 0..left-1, the others after place left.  A mark: the substring is
   another than the one before it; d counts them, names holds the last d. *)

NoNames(k) == Whole([v \in (0..(k - 1)) \X (0..1) |-> 0])

initialize_buckets_for_partial_sorting_8u(T, cnt, temp, first, left, A) ==
  LET c1 == [cnt EXCEPT ![<<T[first], 1>>] = @ + 1]
      start == Starts(c1, A, {0, 2})
      end == Ends(c1, A, {0, 2})
      lms == Ends(c1, A, {1})
  IN  [temp |-> Whole([v \in DOMAIN temp |-> IF v[2] = 0 THEN left + 1 + start[v[1]] ELSE temp[v]]),
       right |-> Whole([v \in DOMAIN temp |-> IF v[2] = 0 THEN left + 1 + end[v[1]] ELSE lms[v[1]]])]
initialize_buckets_for_partial_sorting_32s_6k(T, cnt, first, left, k) ==
  LET start == Starts(cnt, k, {0, 2})
      end == Ends(cnt, k, {0, 2})
      lefts == Starts(cnt, k, {1, 3})
      lms == Ends(cnt, k, {1})
  IN  [temp |-> Whole([v \in (0..(k - 1)) \X (0..1) |-> IF v[2] = 0 THEN left + 1 + start[v[1]] ELSE lefts[v[1]]]),
       right |-> Whole([v \in (0..(k - 1)) \X (0..1) |-> IF v[2] = 0 THEN left + 1 + end[v[1]]
                                                  ELSE lms[v[1]] + Bit(v[1] >= T[first])])]

\* The suffix before the one at place i, with a mark when its name is new; s: [SA, at, names, d].
PutLeft(T, s, p, d, v) ==
  [SA |-> [s.SA EXCEPT ![s.at[v]] = Signed(p, s.names[v] # d)], at |-> [s.at EXCEPT ![v] = @ + 1],
   names |-> [s.names EXCEPT ![v] = d], d |-> d]
LeftStep(T, s, i) ==
  LET p == Plain(s.SA[i]) - 1
  IN  PutLeft(T, s, p, s.d + Bit(s.SA[i] < 0), <<T[p], Bit(T[p - 1] >= T[p])>>)
partial_sorting_scan_left_to_right_8u(T, s, left) == Upward(LAMBDA r, i : LeftStep(T, r, i), s, 0, left - 1)
partial_sorting_scan_left_to_right_32s_6k(T, s, left) == Upward(LAMBDA r, i : LeftStep(T, r, i), s, 0, left - 1)

\* The last suffix is placed before the scan, with the first name.
partial_sorting_scan_left_to_right_8u_omp(T, s, n, left) ==
  partial_sorting_scan_left_to_right_8u(T, PutLeft(T, s, n - 1, 1, <<T[n - 1], Bit(T[n - 2] >= T[n - 1])>>), left)
partial_sorting_scan_left_to_right_32s_6k_omp(T, s, n, left) ==
  partial_sorting_scan_left_to_right_32s_6k(T, PutLeft(T, s, n - 1, 1, <<T[n - 1], Bit(T[n - 2] >= T[n - 1])>>), left)

\* Bug: the marks stay where the other scan put them.
ShiftedMarks_Left(SA, from, to) == SA

\* Read from the right a mark belongs to the place before it, and one to the last place of a symbol.
ShiftedMarks(SA, from, to) ==
  Whole([i \in DOMAIN SA |-> IF i \in from..to THEN Signed(Plain(SA[i]), i = to \/ SA[i + 1] < 0) ELSE SA[i]])
partial_sorting_shift_markers_8u_omp(SA, temp, right, A) ==
  Downward(LAMBDA r, c : ShiftedMarks(r, right[<<c - 1, 0>>], temp[<<c, 0>>] - 1), SA, 1, A - 1)
partial_sorting_shift_markers_32s_6k_omp(SA, temp, right, k) ==
  Downward(LAMBDA r, c : ShiftedMarks(r, right[<<c - 1, 0>>], temp[<<c, 0>>] - 1), SA, 1, k - 1)

RightStep(T, s, i) ==
  LET d == s.d + Bit(s.SA[i] < 0)
      p == Plain(s.SA[i]) - 1
      v == <<T[p], Bit(T[p - 1] > T[p])>>
  IN  [SA |-> [s.SA EXCEPT ![s.at[v] - 1] = Signed(p, s.names[v] # d)], at |-> [s.at EXCEPT ![v] = @ - 1],
       names |-> [s.names EXCEPT ![v] = d], d |-> d]
partial_sorting_scan_right_to_left_8u(T, s, from, to) == Downward(LAMBDA r, i : RightStep(T, r, i), s, from, to - 1)
partial_sorting_scan_right_to_left_32s_6k(T, s, from, to) == Downward(LAMBDA r, i : RightStep(T, r, i), s, from, to - 1)

induce_partial_order_8u(T, SA, temp, right, n, first, left, A) ==
  LET s == partial_sorting_scan_left_to_right_8u_omp(T, [SA |-> SA, at |-> temp, names |-> NoNames(A), d |-> 0], n, left)
      marked == partial_sorting_shift_markers_8u_omp(s.SA, s.at, right, A)
  IN  partial_sorting_scan_right_to_left_8u(T, [s EXCEPT !.SA = marked, !.at = right], left + 1, n - first)
\* partial_sorting_shift_buckets_32s_6k puts right in the place of temp.
induce_partial_order_32s_6k(T, SA, temp, right, n, first, left, k) ==
  LET s == partial_sorting_scan_left_to_right_32s_6k_omp(T, [SA |-> SA, at |-> temp, names |-> NoNames(k), d |-> 0], n, left)
      marked == partial_sorting_shift_markers_32s_6k_omp(s.SA, s.at, right, k)
  IN  partial_sorting_scan_right_to_left_32s_6k(T, [s EXCEPT !.SA = marked, !.at = right], left + 1, n - first)

----------------------------------------------------------------------------
(* Partial order with one set of buckets, over all places.  The sign: the
   suffix is for the other scan; the group marker (4k): a new name. *)

\* From place i when its suffix is of this scan; At and Turn differ with the direction.
PlaceLeft(T, s, p, group) ==
  [s EXCEPT !.SA = [@ EXCEPT ![s.start[T[p]]] = Grouped(Signed(p, T[p - 1] < T[p]), group)], !.start[T[p]] = @ + 1]
PlaceRight(T, s, p, group) ==
  [s EXCEPT !.SA = [@ EXCEPT ![s.end[T[p]] - 1] = Grouped(Signed(p, T[p - 1] > T[p]), group)], !.end[T[p]] = @ - 1]
Taken(s, i, v) == [s EXCEPT !.SA[i] = v]

Named(s, v, d) == [s EXCEPT !.names[v] = d, !.d = d]
partial_sorting_scan_left_to_right_32s_4k(T, s, n) ==
  LET Step(r, i) ==
        LET d == r.d + Bit(InGroup(r.SA[i]))
            p == Ungrouped(r.SA[i]) - 1
            v == <<T[p], Bit(T[p - 1] < T[p])>>
        IN  IF r.SA[i] <= 0 THEN Taken(r, i, Plain(r.SA[i]))
            ELSE Named(PlaceLeft(T, Taken(r, i, 0), p, r.names[v] # d), v, d)
  IN  Upward(Step, s, 0, n - 1)
partial_sorting_scan_left_to_right_32s_4k_omp(T, s, n) ==
  partial_sorting_scan_left_to_right_32s_4k(T,
    Named(PlaceLeft(T, s, n - 1, TRUE), <<T[n - 1], Bit(T[n - 2] < T[n - 1])>>, s.d + 1), n)

partial_sorting_shift_markers_32s_4k(SA, n) ==
  LET next(i) == {j \in (i + 1)..(n - 1) : SA[j] > 0}
  IN  Whole([i \in DOMAIN SA |-> IF i >= n \/ SA[i] <= 0 THEN SA[i]
                           ELSE Grouped(SA[i], next(i) = {} \/ InGroup(SA[Min(next(i))]))])

partial_sorting_scan_right_to_left_32s_4k(T, s, n) ==
  LET Step(r, i) ==
        LET d == r.d + Bit(InGroup(r.SA[i]))
            p == Ungrouped(r.SA[i]) - 1
            v == <<T[p], Bit(T[p - 1] > T[p])>>
        IN  IF r.SA[i] <= 0 THEN r
            ELSE Named(PlaceRight(T, Taken(r, i, 0), p, r.names[v] # d), v, d)
  IN  Downward(Step, s, 0, n - 1)

partial_sorting_scan_left_to_right_32s_1k(T, s, n) ==
  LET Step(r, i) == IF r.SA[i] <= 0 THEN Taken(r, i, Plain(r.SA[i]))
                    ELSE PlaceLeft(T, Taken(r, i, 0), r.SA[i] - 1, FALSE)
  IN  Upward(Step, s, 0, n - 1)
partial_sorting_scan_left_to_right_32s_1k_omp(T, s, n) ==
  partial_sorting_scan_left_to_right_32s_1k(T, PlaceLeft(T, s, n - 1, FALSE), n)
partial_sorting_scan_right_to_left_32s_1k(T, s, n) ==
  LET Step(r, i) == IF r.SA[i] <= 0 THEN r ELSE PlaceRight(T, Taken(r, i, 0), r.SA[i] - 1, FALSE)
  IN  Downward(Step, s, 0, n - 1)

\* The suffixes with a sign to the front, as Kept makes them; the last write may be left over.
GatheredInFront(SA, Kept(_), n) ==
  Upward(LAMBDA g, i : [SA |-> [g.SA EXCEPT ![g.l] = Kept(g.SA[i])], l |-> g.l + Bit(g.SA[i] < 0)],
         [SA |-> SA, l |-> 0], 0, n - 1).SA
\* s - SUFFIX_GROUP_MARKER without the marker: the sign stays when there was a marker.
partial_sorting_gather_lms_suffixes_32s_4k(SA, n) ==
  GatheredInFront(SA, LAMBDA v : Signed(Ungrouped(Plain(v)), (v < 0) = InGroup(v)), n)
partial_sorting_gather_lms_suffixes_32s_1k(SA, n) == GatheredInFront(SA, LAMBDA v : Plain(v), n)

induce_partial_order_32s_4k(T, SA, start, end, n, k) ==
  LET s == partial_sorting_scan_left_to_right_32s_4k_omp(T,
             [SA |-> SA, start |-> start, end |-> end, names |-> NoNames(k), d |-> 0], n)
      r == partial_sorting_scan_right_to_left_32s_4k(T,
             [s EXCEPT !.SA = partial_sorting_shift_markers_32s_4k(@, n)], n)
  IN  partial_sorting_gather_lms_suffixes_32s_4k(r.SA, n)
induce_partial_order_32s_2k(T, SA, start, end, n) ==
  LET s == partial_sorting_scan_left_to_right_32s_1k_omp(T, [SA |-> SA, start |-> start, end |-> end], n)
  IN  partial_sorting_gather_lms_suffixes_32s_1k(partial_sorting_scan_right_to_left_32s_1k(T, s, n).SA, n)
induce_partial_order_32s_1k(T, SA, n, k) ==
  LET count == count_suffixes_32s(T, k)
  IN  induce_partial_order_32s_2k(T, SA, initialize_buckets_start_32s_1k(count, k),
                                  initialize_buckets_end_32s_1k(count, k), n)

----------------------------------------------------------------------------
(* Names.  The name of suffix p is at SA[m + p / 2], which is 0 elsewhere:
   no two LMS suffixes are neighbours. *)

renumber_lms_suffixes_8u(SA, m) ==
  Upward(LAMBDA r, i : [SA |-> [r.SA EXCEPT ![m + Plain(r.SA[i]) \div 2] = Signed(r.name, TRUE)],
                        name |-> r.name + Bit(r.SA[i] < 0)],
         [SA |-> SA, name |-> 0], 0, m - 1)

\* The names in the order of the text, to the end of the memory: the text of the recursion.
gather_marked_lms_suffixes(SA, m, l, size) ==
  Downward(LAMBDA r, i : [SA |-> [r.SA EXCEPT ![r.l] = Plain(r.SA[i])], l |-> r.l - Bit(r.SA[i] < 0)],
           [SA |-> SA, l |-> l - 1], m, m + size - 1).SA

renumber_and_gather_lms_suffixes_omp(SA, n, m, fs) ==
  LET r == renumber_lms_suffixes_8u(Zeroed(SA, m, m + n \div 2), m)
  IN  [name |-> r.name,
       SA |-> IF r.name < m THEN gather_marked_lms_suffixes(r.SA, m, n + fs, n \div 2)
              ELSE Whole([i \in DOMAIN SA |-> IF i < m THEN Plain(r.SA[i]) ELSE r.SA[i]])]

\* A name is signed when it and the one before were new: the suffix before it may be unique.
renumber_distinct_lms_suffixes_32s_4k(SA, m) ==
  Upward(LAMBDA r, i : LET p == Plain(r.SA[i])
                       IN  [SA |-> [r.SA EXCEPT ![i] = p, ![m + p \div 2] = Signed(r.name, r.SA[i] < 0 /\ r.before < 0)],
                            name |-> r.name + Bit(r.SA[i] < 0), before |-> r.SA[i]],
         [SA |-> SA, name |-> 1, before |-> 0], 0, m - 1)

\* In the order of the text: a sign stays only after a signed name.
mark_distinct_lms_suffixes_32s(SA, m, size) ==
  Upward(LAMBDA r, i : [SA |-> [r.SA EXCEPT ![i] = Signed(Plain(@), @ < 0 /\ r.before < 0)],
                        before |-> IF r.SA[i] = 0 THEN r.before ELSE r.SA[i]],
         [SA |-> SA, before |-> 0], m, m + size - 1).SA

renumber_and_mark_distinct_lms_suffixes_32s_4k_omp(SA, n, m) ==
  LET r == renumber_distinct_lms_suffixes_32s_4k(Zeroed(SA, m, m + n \div 2), m)
  IN  [name |-> r.name - 1,
       SA |-> IF r.name - 1 < m THEN mark_distinct_lms_suffixes_32s(r.SA, m, n \div 2) ELSE r.SA]

\* Lengths of the LMS substrings at the places of the names, signed while the suffixes at
\* the end of SA may share them; then the sign is taken and what has none is cleared.
clamp_lms_suffixes_length_32s(SA, m, size) ==
  Whole([i \in DOMAIN SA |-> IF i \in m..(m + size - 1) THEN (IF SA[i] < 0 THEN Plain(SA[i]) ELSE 0) ELSE SA[i]])
Lengths(T, SA, n, m) ==
  LET g == Zeroed(gather_lms_suffixes_32s(T, SA, n), m, n - m)
      Ended(a) == [a EXCEPT ![m + a[n - 1] \div 2] = Signed(1, TRUE)]
  IN  clamp_lms_suffixes_length_32s(
        Ended(Upward(LAMBDA a, i : [a EXCEPT ![m + a[i] \div 2] = Signed(a[i + 1] - a[i] + 1, TRUE)], g, n - m, n - 2)),
        m, n \div 2)

\* Each substring against the one before it, s being their lengths; new: those that differ.
NewNames(T, s, m) ==
  LET at(p) == m + p \div 2
      Differ(p, q) == s[at(p)] # s[at(q)] \/ \E l \in 0..(s[at(p)] - 1) : T[p + l] # T[q + l]
  IN  {i \in 1..(m - 1) : Differ(s[i - 1], s[i])}

\* A name is signed when it and the next are new.
WithNames(s, m, new) ==
  LET New(i) == i \in {0, m} \cup new
      Name(i) == Signed(1 + Cardinality({j \in new : j <= i}), New(i) /\ New(i + 1))
      Put(r, i) == [r EXCEPT ![m + r[i] \div 2] = Name(i)]
  IN  Upward(Put, s, 0, m - 1)
NamesOrMarks(named, n, m, name) ==
  [name |-> name, SA |-> IF name < m THEN mark_distinct_lms_suffixes_32s(named, m, n \div 2) ELSE named]
NamesMarked(s, n, m, new) == NamesOrMarks(WithNames(s, m, new), n, m, 1 + Cardinality(new))
WithLengths(T, s, n, m) == NamesMarked(s, n, m, NewNames(T, s, m))

renumber_and_mark_distinct_lms_suffixes_32s_1k_omp(T, SA, n, m) == WithLengths(T, Lengths(T, SA, n, m), n, m)

----------------------------------------------------------------------------
(* Compaction: suffixes with a signed name are in place already.  They get
   a mark in the text, and are kept apart from the names to be sorted. *)

renumber_unique_and_nonunique_lms_suffixes_32s(T, SA, m) ==
  Upward(LAMBDA r, i : LET at == m + r.SA[i] \div 2
                           unique == r.SA[at] < 0
                           f == r.f + Bit(unique)
                       IN  [SA |-> [r.SA EXCEPT ![at] = IF unique THEN Signed(i, TRUE) ELSE @ - f],
                            T |-> IF unique THEN [r.T EXCEPT ![r.SA[i]] = Signed(Plain(@), TRUE)] ELSE r.T, f |-> f],
         [SA |-> SA, T |-> T, f |-> 0], 0, m - 1)

Less1(v) == IF v = 0 - Top THEN Top - 1 ELSE v - 1     \* 32 bits
compact_unique_and_nonunique_lms_suffixes_32s(SA, m, r0, size) ==
  Downward(LAMBDA c, i : LET v == c.SA[i]
                         IN  [SA |-> [[c.SA EXCEPT ![c.l] = Plain(v)] EXCEPT ![c.r] = Less1(v)],
                              l |-> c.l - Bit(v < 0), r |-> c.r - Bit(v > 0)],
           [SA |-> SA, l |-> m - 1, r |-> r0 - 1], m, m + size - 1).SA

\* [f, T, SA]; the places of the unique suffixes are put below the text of the recursion.
compact_lms_suffixes_32s_omp(T, SA, n, m, fs) ==
  LET r == renumber_unique_and_nonunique_lms_suffixes_32s(T, SA, m)
      c == compact_unique_and_nonunique_lms_suffixes_32s(r.SA, m, n + fs, n \div 2)
  IN  [f |-> r.f, T |-> r.T, SA |-> Copied(c, n + fs - m, m - r.f, r.f)]

----------------------------------------------------------------------------
(* Back from the recursion: from names to LMS suffixes. *)

reconstruct_lms_suffixes(SA, n, size, m) ==
  Whole([i \in DOMAIN SA |-> IF i < size THEN SA[n - m + SA[i]] ELSE SA[i]])

merge_unique_lms_suffixes_32s(T, SA, n, m) ==
  LET unique == {i \in 0..(n - 1) : T[i] < 0}
      nth(i) == SA[n - m - 1 + Cardinality({j \in unique : j < i})]
  IN  Whole([p \in DOMAIN SA |-> IF \E i \in unique : nth(i) = p THEN CHOOSE i \in unique : nth(i) = p ELSE SA[p]])
merge_nonunique_lms_suffixes_32s(SA, n, m, f) ==
  LET free == {i \in 0..(m - 1) : SA[i] = 0}
  IN  Whole([p \in DOMAIN SA |-> IF p \in free THEN SA[n - m - 1 + f + Cardinality({q \in free : q < p})] ELSE SA[p]])

\* [T, SA]; g is SA with the LMS suffixes that are not unique gathered at its end.
Merged(T, g, n, m, f) ==
  LET a == reconstruct_lms_suffixes(g, n, m - f, m - f)
      b == Zeroed(Copied(a, n - m - 1 + f, 0, m - f), 0, m)
  IN  [T |-> Whole([i \in DOMAIN T |-> Plain(T[i])]),
       SA |-> merge_nonunique_lms_suffixes_32s(merge_unique_lms_suffixes_32s(T, b, n, m), n, m, f)]

reconstruct_compacted_lms_suffixes_32s_2k_omp(T, SA, n, k, m, fs, f) ==
  LET a == IF f > 0 THEN Copied(SA, n - m - 1, n + fs - m, f) ELSE SA
      g == IF f > 0 THEN count_and_gather_compacted_lms_suffixes_32s_2k(T, [SA |-> a], n, k)
                    ELSE count_and_gather_lms_suffixes_32s_2k(T, [SA |-> a], n, k)
  IN  [cnt |-> g.cnt] @@ IF f > 0 THEN Merged(T, g.SA, n, m, f)
                         ELSE [T |-> T, SA |-> reconstruct_lms_suffixes(g.SA, n, m, m)]
reconstruct_compacted_lms_suffixes_32s_1k_omp(T, SA, n, m, fs, f) ==
  IF f > 0
  THEN Merged(T, gather_compacted_lms_suffixes_32s(T, Copied(SA, n - m - 1, n + fs - m, f), n), n, m, f)
  ELSE [T |-> T, SA |-> reconstruct_lms_suffixes(gather_lms_suffixes_32s(T, SA, n), n, m, m)]

----------------------------------------------------------------------------
(* The m sorted LMS suffixes from the front to the ends of their buckets,
   Many(c) of them for symbol c; all other places are cleared. *)

Spread(SA, n, m, end, Many(_), last) ==
  LET Step(r, c) ==
        LET l == Many(c)
            i == end[c]
        IN  IF l <= 0 THEN r
            ELSE [SA |-> Copied(Zeroed(r.SA, i, r.j), i - l, r.m - l, l), j |-> i - l, m |-> r.m - l]
      s == Downward(Step, [SA |-> SA, j |-> n, m |-> m], 0, last)
  IN  Zeroed(s.SA, 0, s.j)

place_lms_suffixes_interval_8u(SA, n, m, end, right, A) ==
  Spread(SA, n, m, end, LAMBDA c : right[<<c + 1, 1>>] - right[<<c, 1>>], A - 2)
place_lms_suffixes_interval_32s_4k(SA, n, k, m, end, lms) ==
  Spread(SA, n, m, end, LAMBDA c : lms[c + 1] - lms[c], k - 2)
place_lms_suffixes_interval_32s_2k(SA, n, k, m, end, lms) ==
  Spread(SA, n, m, end, LAMBDA c : lms[c + 1] - lms[c], k - 2)
place_lms_suffixes_histogram_32s_6k(SA, n, k, m, end, cnt) == Spread(SA, n, m, end, LAMBDA c : cnt[<<c, 1>>], k - 2)
place_lms_suffixes_histogram_32s_4k(SA, n, k, m, end, cnt) == Spread(SA, n, m, end, LAMBDA c : cnt[<<c, 1>>], k - 2)
place_lms_suffixes_histogram_32s_2k(SA, n, k, m, end, cnt) == Spread(SA, n, m, end, LAMBDA c : cnt[<<c, 1>>], k - 2)

place_lms_suffixes_interval_32s_1k(T, SA, k, m, end) ==
  LET Step(r, i) ==
        LET p == r.SA[i]
            same == T[p] = r.c
            l == IF same THEN r.l ELSE end[T[p]]
            a == IF same THEN r.SA ELSE Zeroed(r.SA, l, r.l)
        IN  [SA |-> [a EXCEPT ![l - 1] = p], c |-> T[p], l |-> l - 1]
      s == Downward(Step, [SA |-> SA, c |-> k - 1, l |-> end[k - 1]], 0, m - 1)
  IN  Zeroed(s.SA, 0, s.l)

----------------------------------------------------------------------------
(* Final order *)

Before(p) == IF p > 0 THEN p - 1 ELSE p
FinalLeft(T, s, p) ==
  [s EXCEPT !.SA = [@ EXCEPT ![s.start[T[p]]] = Signed(p, T[Before(p)] < T[p])], !.start[T[p]] = @ + 1]
FinalRight(T, s, p) ==
  [s EXCEPT !.SA = [@ EXCEPT ![s.end[T[p]] - 1] = Signed(p, T[Before(p)] > T[p])], !.end[T[p]] = @ - 1]

final_sorting_scan_left_to_right_8u(T, s, n) ==
  Upward(LAMBDA r, i : LET t == Taken(r, i, Flipped(r.SA[i]))
                       IN  IF r.SA[i] > 0 THEN FinalLeft(T, t, r.SA[i] - 1) ELSE t, s, 0, n - 1)
final_sorting_scan_left_to_right_32s(T, s, n) == final_sorting_scan_left_to_right_8u(T, s, n)
final_sorting_scan_left_to_right_8u_omp(T, s, n) ==
  final_sorting_scan_left_to_right_8u(T, FinalLeft(T, s, n - 1), n)
final_sorting_scan_left_to_right_32s_omp(T, s, n) ==
  final_sorting_scan_left_to_right_32s(T, FinalLeft(T, s, n - 1), n)

final_sorting_scan_right_to_left_8u(T, s, n) ==
  Downward(LAMBDA r, i : LET t == Taken(r, i, Plain(r.SA[i]))
                         IN  IF r.SA[i] > 0 THEN FinalRight(T, t, r.SA[i] - 1) ELSE t, s, 0, n - 1)
final_sorting_scan_right_to_left_32s(T, s, n) == final_sorting_scan_right_to_left_8u(T, s, n)

induce_final_order_8u_omp(T, SA, start, end, n) ==
  final_sorting_scan_right_to_left_8u(T,
    final_sorting_scan_left_to_right_8u_omp(T, [SA |-> SA, start |-> start, end |-> end], n), n).SA
induce_final_order_32s(T, SA, start, end, n) ==
  final_sorting_scan_right_to_left_32s(T,
    final_sorting_scan_left_to_right_32s_omp(T, [SA |-> SA, start |-> start, end |-> end], n), n).SA
induce_final_order_32s_1k(T, SA, n, k) ==
  LET count == count_suffixes_32s(T, k)
  IN  induce_final_order_32s(T, SA, initialize_buckets_start_32s_1k(count, k), initialize_buckets_end_32s_1k(count, k), n)
=============================================================================
