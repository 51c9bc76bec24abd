----------------------------- MODULE SuffixSort -----------------------------
(***************************************************************************)
(* libsais and libsais_int: induced sorting, which names the LMS substrings *)
(* and sorts the text of their names the same way when two are equal.      *)
(*                                                                         *)
(* mem is SA, the places 0..n+fs-1, and after them the text of the caller. *)
(* A call of the sort is a frame: its text is at t, the text of a call it  *)
(* makes lies at the end of SA, which all calls share.  The buckets of a   *)
(* call are in the local buffer, in the free end of SA, or on the heap.    *)
(***************************************************************************)
EXTENDS LibSAIS

CONSTANTS
  ALPHABET_SIZE,      \* 256
  LocalBuffer,        \* LIBSAIS_LOCAL_BUFFER_SIZE (2000)
  Wide,               \* n / 8192 < k in the 6k variant
  Alignments,         \* of the buckets in SA, the larger first (1024, 16)
  Inputs,             \* [api, text, fs]: what a caller gives
  Junk                \* contents of memory nobody has written

VARIABLES mem, frames, b, held, code, input

vars == <<mem, frames, b, held, code, input>>

Running == 1       \* no value the calls return
Clamp(n, fs) == Min({fs, Top - 1 - n})
Variant(n, k, fs) ==
  LET Room(x) == fs \div k >= x \/ LocalBuffer \div k >= x
  IN  IF Room(6) THEN "6k" ELSE IF n <= (Top - 1) \div 2 /\ Room(4) THEN "4k" ELSE IF Room(2) THEN "2k" ELSE "1k"
Width(variant) == CASE variant = "6k" -> 6 [] variant = "4k" -> 4 [] variant = "2k" -> 2 [] OTHER -> 1

\* Bug: aligned without a look at the room.
BucketPlaces_Aligned(variant, n, k, fs) ==
  LET size == Width(variant) * k
      align == Alignments[1]
  IN  IF variant = "8u" \/ (variant = "1k" /\ fs < k) THEN {[in |-> "heap"]}
      ELSE IF variant # "1k" /\ LocalBuffer > fs THEN {[in |-> "local", size |-> size]}
      ELSE {[in |-> "SA", at |-> n + fs - size - align + x, size |-> size] : x \in 0..(align - 1)}

\* Where SA + x starts in memory is not known: aligned, buckets begin at one of the next places.
BucketPlaces(variant, n, k, fs) ==
  LET size == Width(variant) * k
      align == IF (fs - Alignments[1]) \div k >= Width(variant) THEN Alignments[1] ELSE Alignments[2]
  IN  IF variant = "8u" \/ (variant = "1k" /\ fs < k) THEN {[in |-> "heap"]}
      ELSE IF variant # "1k" /\ LocalBuffer > fs THEN {[in |-> "local", size |-> size]}
      ELSE IF (fs - align) \div k >= Width(variant)
      THEN {[in |-> "SA", at |-> n + fs - size - align + x, size |-> size] : x \in 0..(align - 1)}
      ELSE {[in |-> "SA", at |-> n + fs - size, size |-> size]}

\* A call that begins: main_8u, or main_32s_recursion with its variant.
Frames(variant, n, k, fs, t) ==
  {[variant |-> variant, n |-> n, k |-> k, fs |-> Clamp(n, fs), t |-> t, pc |-> "count", m |-> 0, f |-> 0, bk |-> p] :
     p \in BucketPlaces(variant, n, k, Clamp(n, fs))}
main_32s_recursion(n, k, fs, t) == Frames(Variant(n, k, Clamp(n, fs)), n, k, fs, t)

Init ==
  \E i \in Inputs :
    LET n == Cardinality(DOMAIN i.text)
        size == n + i.fs
    IN  /\ input = i
        /\ mem \in {[p \in 0..(size + n - 1) |-> IF p < size THEN j ELSE i.text[p - size]] : j \in Junk}
        /\ b = <<>>
        /\ IF n <= 1
           THEN frames = <<>> /\ held = 0 /\ code = Running
           ELSE IF i.api = "libsais"
           THEN \/ \E fr \in Frames("8u", n, ALPHABET_SIZE, i.fs, size) : frames = <<fr>> /\ held = 1 /\ code = Running
                \/ frames = <<>> /\ held = 0 /\ code = -2          \* libsais_main: no buckets
           ELSE /\ \E fr \in main_32s_recursion(n, i.k, i.fs, size) : frames = <<fr>>
                /\ held = 0 /\ code = Running

fr == frames[Len(frames)]
T == Whole([i \in 0..(fr.n - 1) |-> mem[fr.t + i]])
With(f, change) == [x \in DOMAIN change \cup DOMAIN f |-> IF x \in DOMAIN change THEN change[x] ELSE f[x]]
Frame(change) == frames' = [frames EXCEPT ![Len(frames)] = With(@, change)]
Go(pc) == Frame([pc |-> pc])
At(pc, variants) == code = Running /\ frames # <<>> /\ fr.pc = pc /\ fr.variant \in variants

\* Buckets in SA overwrite their places.
Written(SA) ==
  IF fr.bk.in # "SA" THEN SA
  ELSE Whole([p \in DOMAIN SA |-> IF p \in fr.bk.at..(fr.bk.at + fr.bk.size - 1) THEN 1 ELSE SA[p]])
WithText(SA, text) == [p \in DOMAIN SA |-> IF p \in fr.t..(fr.t + fr.n - 1) THEN text[p - fr.t] ELSE SA[p]]

\* Bug: libsais_main returns the error at once.
Fail_Leaks == code' = -2 /\ frames' = <<>> /\ held' = held

\* The calls all end with an error: the one who allocated buckets frees them.
Fail == code' = -2 /\ frames' = <<>> /\ held' = IF input.api = "libsais" THEN 0 ELSE held

----------------------------------------------------------------------------
(* Counting; with more than one LMS suffix (one in main_8u) there is something to sort. *)

Alone(SA, n) == [SA EXCEPT ![0] = SA[n - 1]]

Count8u ==
  /\ At("count", {"8u"})
  /\ LET c == count_and_gather_lms_suffixes_8u(T, [SA |-> mem], fr.n, fr.k)
         m == Cardinality(LMS(T))
     IN  /\ b' = [cnt |-> c.cnt] @@ initialize_buckets_start_and_end_8u(c.cnt, fr.k)
         /\ mem' = IF m > 0 THEN c.SA ELSE Zeroed(c.SA, 0, fr.n)
         /\ Frame([m |-> m, pc |-> IF m > 0 THEN "sort" ELSE "final"])
  /\ UNCHANGED <<held, code, input>>

Count6k ==
  /\ At("count", {"6k"})
  /\ LET c == count_and_gather_lms_suffixes_32s_4k(T, [SA |-> mem], fr.n, fr.k)
         m == Cardinality(LMS(T))
     IN  /\ b' = [cnt |-> c.cnt]
         /\ mem' = Written(IF m > 1 THEN Zeroed(c.SA, 0, fr.n - m) ELSE Alone(c.SA, fr.n))
         /\ Frame([m |-> m, pc |-> IF m > 1 THEN "sort" ELSE "place"])
  /\ UNCHANGED <<held, code, input>>

Count2k4k ==
  /\ At("count", {"4k", "2k"})
  /\ LET c == count_and_gather_lms_suffixes_32s_2k(T, [SA |-> mem], fr.n, fr.k)
         m == Cardinality(LMS(T))
     IN  /\ b' = [cnt |-> c.cnt]
         /\ mem' = Written(IF m > 1 THEN c.SA ELSE Alone(c.SA, fr.n))
         /\ Frame([m |-> m, pc |-> IF m > 1 THEN "sort" ELSE "place"])
  /\ UNCHANGED <<held, code, input>>

\* The sort of the LMS suffixes is part of the count here.
Count1k ==
  /\ At("count", {"1k"})
  /\ LET end == initialize_buckets_end_32s_1k(count_suffixes_32s(T, fr.k), fr.k)
         m == Cardinality(LMS(T))
     IN  \/ /\ mem' = Written(radix_sort_lms_suffixes_32s_1k(T, Zeroed(mem, 0, fr.n), end))
            /\ Frame([m |-> m, pc |-> IF m > 1 THEN "induce" ELSE "final"])
            /\ held' = held + Bit(fr.bk.in = "heap")
            /\ UNCHANGED <<code, input, b>>
         \/ fr.bk.in = "heap" /\ Fail /\ UNCHANGED <<mem, b, input>>

----------------------------------------------------------------------------
(* Radix sort of the LMS suffixes by their first symbol, and the buckets for the partial order. *)

Sort8u ==
  /\ At("sort", {"8u"})
  /\ LET first == mem[fr.n - fr.m]
         r == initialize_buckets_for_lms_suffixes_radix_sort_8u(T, first, fr.k)
         s == radix_sort_lms_suffixes_8u(T, mem, r.temp, fr.n, fr.m)
     IN  /\ mem' = s.SA
         /\ b' = [first |-> first, left |-> r.left]
                 @@ initialize_buckets_for_partial_sorting_8u(T, r.cnt, s.temp, first, r.left, fr.k)
                 @@ b
  /\ Go("induce")
  /\ UNCHANGED <<held, code, input>>

Sort6k ==
  /\ At("sort", {"6k"})
  /\ LET first == mem[fr.n - fr.m]
         r == initialize_buckets_for_lms_suffixes_radix_sort_32s_6k(T, first, fr.k)
         s == radix_sort_lms_suffixes_32s_6k(T, mem, r.temp, fr.n, fr.m)
         marked == IF fr.n \div Wide < fr.k THEN radix_sort_set_markers_32s_6k(s.SA, s.ptr, fr.k) ELSE s.SA
     IN  /\ mem' = Written(marked)
         /\ b' = [first |-> first, left |-> r.left]
                 @@ initialize_buckets_for_partial_sorting_32s_6k(T, r.cnt, first, r.left, fr.k)
  /\ Go("induce")
  /\ UNCHANGED <<held, code, input>>

Sort4k ==
  /\ At("sort", {"4k"})
  /\ LET r == initialize_buckets_for_radix_and_partial_sorting_32s_4k(T, b.cnt, mem[fr.n - fr.m], fr.k)
         s == radix_sort_lms_suffixes_32s_2k(T, mem, r.lms, fr.n, fr.m)
     IN  /\ mem' = Written(place_lms_suffixes_interval_32s_4k(
                             radix_sort_set_markers_32s_4k(s.SA, s.ptr, fr.k), fr.n, fr.k, fr.m - 1, r.end, s.ptr))
         /\ b' = r
  /\ Go("induce")
  /\ UNCHANGED <<held, code, input>>

Sort2k ==
  /\ At("sort", {"2k"})
  /\ LET r == initialize_buckets_for_lms_suffixes_radix_sort_32s_2k(T, b.cnt, mem[fr.n - fr.m], fr.k)
         s == radix_sort_lms_suffixes_32s_2k(T, mem, r.lms, fr.n, fr.m)
     IN  /\ mem' = Written(place_lms_suffixes_interval_32s_2k(s.SA, fr.n, fr.k, fr.m - 1, r.end, s.ptr))
         /\ b' = [start |-> initialize_buckets_start_and_end_32s_2k(r.end, fr.k), end |-> r.end]
  /\ Go("induce")
  /\ UNCHANGED <<held, code, input>>

\* The scan counts the ends of the LMS suffixes down to their starts.
Induce8u ==
  /\ At("induce", {"8u"})
  /\ LET r == induce_partial_order_8u(T, mem, b.temp, b.right, fr.n, b.first, b.left, fr.k)
     IN  mem' = r.SA /\ b' = [b EXCEPT !.right = r.at]
  /\ Go("name")
  /\ UNCHANGED <<held, code, input>>

Induce ==
  /\ At("induce", {"6k", "4k", "2k", "1k"})
  /\ mem' = Written(
       CASE fr.variant = "6k" -> induce_partial_order_32s_6k(T, mem, b.temp, b.right, fr.n, b.first, b.left, fr.k).SA
         [] fr.variant = "4k" -> induce_partial_order_32s_4k(T, mem, b.start, b.end, fr.n, fr.k)
         [] fr.variant = "2k" -> induce_partial_order_32s_2k(T, mem, b.start, b.end, fr.n)
         [] OTHER -> induce_partial_order_32s_1k(T, mem, fr.n, fr.k))
  /\ Go("name")
  /\ UNCHANGED <<b, held, code, input>>

----------------------------------------------------------------------------
(* Names; two equal ones make a call for the text of the names. *)

Marks == fr.variant \notin {"8u", "6k"} \/ (fr.variant = "6k" /\ fr.n \div Wide < fr.k)
Renumbered ==
  IF ~Marks THEN renumber_and_gather_lms_suffixes_omp(mem, fr.n, fr.m, fr.fs)
  ELSE IF fr.variant \in {"6k", "4k"} THEN renumber_and_mark_distinct_lms_suffixes_32s_4k_omp(mem, fr.n, fr.m)
  ELSE renumber_and_mark_distinct_lms_suffixes_32s_1k_omp(T, mem, fr.n, fr.m)

Distinct ==
  /\ At("name", {"8u", "6k", "4k", "2k", "1k"})
  /\ \E r \in {Renumbered} :
       /\ r.name >= fr.m
       /\ mem' = r.SA
       /\ b' = IF fr.variant \in {"6k", "4k", "2k"} THEN [cnt |-> count_lms_suffixes_32s_2k(T, fr.k)] ELSE b
  /\ Go("place")
  /\ UNCHANGED <<held, code, input>>

Compacted(SA) ==
  IF Marks THEN compact_lms_suffixes_32s_omp(T, SA, fr.n, fr.m, fr.fs) ELSE [f |-> 0, T |-> T, SA |-> SA]
Recurse ==
  /\ At("name", {"8u", "6k", "4k", "2k", "1k"})
  /\ \E r \in {Renumbered} :
       /\ r.name < fr.m
       /\ \E c \in {Compacted(r.SA)} :
            LET m == fr.m - c.f
            IN  /\ mem' = WithText(c.SA, c.T)
                /\ \E called \in main_32s_recursion(m, r.name - c.f, fr.fs + fr.n - 2 * fr.m + c.f, fr.n + fr.fs - m) :
                     frames' = Append([frames EXCEPT ![Len(frames)] = With(@, [f |-> c.f, pc |-> "back", own |-> b])], called)
  /\ held' = held - Bit(fr.variant = "1k" /\ fr.bk.in = "heap")
  /\ UNCHANGED <<b, code, input>>

\* The LMS suffixes in order, from the order of their names.
Back8u ==
  /\ At("back", {"8u"})
  /\ mem' = reconstruct_lms_suffixes(gather_lms_suffixes_8u(T, mem, fr.n), fr.n, fr.m, fr.m)
  /\ b' = fr.own
  /\ Go("place")
  /\ UNCHANGED <<held, code, input>>

Back2k4k6k ==
  /\ At("back", {"6k", "4k", "2k"})
  /\ LET r == reconstruct_compacted_lms_suffixes_32s_2k_omp(T, mem, fr.n, fr.k, fr.m, fr.fs, fr.f)
     IN  /\ mem' = Written(WithText(r.SA, r.T))
         /\ b' = [cnt |-> r.cnt]
  /\ Go("place")
  /\ UNCHANGED <<held, code, input>>

Back1k ==
  /\ At("back", {"1k"})
  /\ LET r == reconstruct_compacted_lms_suffixes_32s_1k_omp(T, mem, fr.n, fr.m, fr.fs, fr.f)
     IN  /\ mem' = WithText(r.SA, r.T)
         /\ \/ held' = held + Bit(fr.bk.in = "heap") /\ Go("place") /\ UNCHANGED code
            \/ fr.bk.in = "heap" /\ Fail
  /\ UNCHANGED <<b, input>>

----------------------------------------------------------------------------
(* Placing the LMS suffixes and the final order.  b is gone after a call and is counted
   again; main_8u has buckets of its own. *)

Place ==
  /\ At("place", {"8u", "6k", "4k", "2k", "1k"})
  /\ LET v == IF fr.variant = "6k" /\ fr.m > 1 THEN "4k" ELSE fr.variant
         n == fr.n  k == fr.k  m == fr.m
         counted == CASE v = "6k" -> initialize_buckets_start_and_end_32s_6k(b.cnt, k)
                      [] v = "4k" -> initialize_buckets_start_and_end_32s_4k(b.cnt, k)
                      [] v = "2k" -> LET end == initialize_buckets_end_32s_2k(b.cnt, k)
                                     IN  [start |-> initialize_buckets_start_and_end_32s_2k(end, k), end |-> end]
                      [] v = "1k" -> [end |-> initialize_buckets_end_32s_1k(count_suffixes_32s(T, k), k)]
                      [] OTHER -> b
     IN  /\ mem' = Written(
              CASE v = "8u" -> place_lms_suffixes_interval_8u(mem, n, m, b.end, b.right, k)
                [] v = "6k" -> place_lms_suffixes_histogram_32s_6k(mem, n, k, m, counted.end, b.cnt)
                [] v = "4k" -> place_lms_suffixes_histogram_32s_4k(mem, n, k, m, counted.end, b.cnt)
                [] v = "2k" -> place_lms_suffixes_histogram_32s_2k(mem, n, k, m, counted.end, b.cnt)
                [] OTHER -> place_lms_suffixes_interval_32s_1k(T, mem, k, m, counted.end))
         /\ b' = counted
  /\ Go("final")
  /\ UNCHANGED <<held, code, input>>

Sorted ==
  CASE fr.variant = "8u" -> induce_final_order_8u_omp(T, mem, b.start, b.end, fr.n)
    [] fr.variant = "1k" -> induce_final_order_32s_1k(T, mem, fr.n, fr.k)
    [] OTHER -> induce_final_order_32s(T, mem, b.start, b.end, fr.n)

Final ==
  /\ At("final", {"8u", "6k", "4k", "2k", "1k"})
  /\ mem' = Written(Sorted)
  /\ Go("return")
  /\ held' = held - Bit(fr.bk.in = "heap")
  /\ UNCHANGED <<b, code, input>>

Return ==
  /\ At("return", {"8u", "6k", "4k", "2k", "1k"})
  /\ frames' = Front(frames)
  /\ code' = IF Len(frames) = 1 THEN 0 ELSE Running
  /\ UNCHANGED <<mem, b, held, input>>

\* libsais, libsais_int: nothing to sort.
Trivial ==
  /\ code = Running /\ frames = <<>>
  /\ mem' = IF DOMAIN input.text = {} THEN mem ELSE [mem EXCEPT ![0] = 0]
  /\ code' = 0
  /\ UNCHANGED <<frames, b, held, input>>

\* The caller has its answer.
Answered == code # Running /\ UNCHANGED vars

Next ==
  \/ Count8u \/ Count6k \/ Count2k4k \/ Count1k
  \/ Sort8u \/ Sort6k \/ Sort4k \/ Sort2k
  \/ Induce8u \/ Induce \/ Distinct \/ Recurse
  \/ Back8u \/ Back2k4k6k \/ Back1k
  \/ Place \/ Final \/ Return \/ Trivial \/ Answered

Spec == Init /\ [][Next]_vars

----------------------------------------------------------------------------
\* The order of suffixes, by definition: a prefix is before what it is a prefix of.
SuffixLess(text, p, q) ==
  LET n == Cardinality(DOMAIN text)
      differ == {l \in 0..(n - Max({p, q}) - 1) : text[p + l] # text[q + l]}
  IN  IF differ = {} THEN p > q ELSE text[p + Min(differ)] < text[q + Min(differ)]
InSuffixOrder(SA, text) ==
  LET n == Cardinality(DOMAIN text)
  IN  /\ {SA[i] : i \in 0..(n - 1)} = 0..(n - 1)
      /\ \A i \in 1..(n - 1) : SuffixLess(text, SA[i - 1], SA[i])

\* libsais.c:6668-6938: every call of the sort, at whatever depth and in whatever variant,
\* leaves the suffixes of its text in order; and the text of the caller comes back as it
\* was, although the calls mark it and use the end of SA for texts of their own.
EveryCallSorts ==
  (frames # <<>> /\ fr.pc = "return") =>
    /\ InSuffixOrder(mem, T)
    /\ Len(frames) = 1 => T = input.text

\* libsais.c:6674-6676, 6733-6735, 6778-6780, 6827-6828: buckets lie in the local buffer, or in the free end of
\* SA; they never reach the suffixes or the text of the call.
BucketsApart ==
  \A d \in DOMAIN frames :
    LET f == frames[d]
    IN  CASE f.bk.in = "local" -> f.bk.size <= LocalBuffer
          [] f.bk.in = "SA" -> f.bk.at >= f.n /\ f.bk.at + f.bk.size <= f.t
          [] OTHER -> TRUE

\* libsais.c:6830, 6845, 6856, 6866, 6934: whichever allocation fails, every buffer is given back by the end.
BuffersReleased == code # Running => held = 0

----------------------------------------------------------------------------
(* The inductive invariant behind BuffersReleased *)

\* All calls but the last wait for the one they made. main_8u is never made by another
\* call, and has its buckets on the heap; of the others only the 1k variant may.
OthersWait ==
  /\ frames \in Seq({frames[d] : d \in DOMAIN frames})
  /\ \A d \in DOMAIN frames :
       LET f == frames[d]
       IN  /\ {"variant", "bk", "pc"} \subseteq DOMAIN f
           /\ d < Len(frames) => f.pc = "back"
           /\ f.variant = "8u" => d = 1 /\ f.bk.in = "heap"
           /\ f.bk.in = "heap" => f.variant \in {"8u", "1k"}
  /\ frames # <<>> => code = Running

\* Who holds a buffer: main_8u until it is done, and the last call, in the 1k variant, but not
\* while it counts or while a call that it made runs.
Holds8u == frames # <<>> /\ frames[1].variant = "8u" /\ frames[1].pc # "return"
Holds1k == /\ frames # <<>> /\ fr.variant = "1k" /\ fr.bk.in = "heap"
           /\ fr.pc \in {"induce", "name", "place", "final"}
Accounted == /\ held = Bit(Holds8u) + Bit(Holds1k)
             /\ Holds8u => input.api = "libsais"

IInv == OthersWait /\ Accounted
=============================================================================
