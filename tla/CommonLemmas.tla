---------------------------- MODULE CommonLemmas ----------------------------
(***************************************************************************)
(* Lemmas that the proofs of more than one component rest on: induction up *)
(* to a number, folds over sequences, and the counters of two words.       *)
(***************************************************************************)
EXTENDS Accumulation, SequenceTheorems, WellFoundedInduction, TLAPS

-----------------------------------------------------------------------------
(* Induction and folds *)

(* Induction up to n: what 0 has, and each has if the one before has it, all have. *)
LEMMA UpTo ==
  ASSUME NEW n \in Nat, NEW P, 0 \in P, \A i \in 0..n - 1 : i \in P => i + 1 \in P
  PROVE  0..n \subseteq P
<1> DEFINE T == {i \in 0..n : i \notin P}
<1> SUFFICES ASSUME T # {} PROVE FALSE
  OBVIOUS
<1>1. T \subseteq Nat
  OBVIOUS
<1>2. PICK i \in T : \A j \in T : <<j, i>> \notin OpToRel(<, Nat)
  BY <1>1, NatLessThanWellFounded, WFMin
<1>3. \A j \in T : ~(j < i)
  BY <1>1, <1>2 DEF OpToRel
<1>4. i \in 0..n /\ i \notin P /\ i # 0
  OBVIOUS
<1>5. i - 1 \in 0..n - 1 /\ i - 1 < i /\ (i - 1) + 1 = i /\ i - 1 \in 0..n
  BY <1>4
<1>6. i - 1 \in P
  BY <1>3, <1>5
<1> QED BY <1>4, <1>5, <1>6

(* f has the results of a fold, from none of s to all of it. *)
Results(f, step, base, s) ==
  f[0] = base /\ \A i \in 1..Len(s) : f[i] = step[<<f[i - 1], s[i]>>]

(* There are such results. *)
LEMMA FoldExists ==
  ASSUME NEW A, NEW B, NEW base \in A, NEW step \in [A \X B -> A], NEW s \in Seq(B)
  PROVE  \E f \in [0..Len(s) -> A] : Results(f, step, base, s)
<1> DEFINE n == Len(s)
           Is(f, k) == f[0] = base /\ \A i \in 1..k : f[i] = step[<<f[i - 1], s[i]>>]
           P == {k \in 0..n : \E f \in [0..k -> A] : Is(f, k)}
<1>0. n \in Nat /\ \A i \in 1..n : s[i] \in B
  OBVIOUS
<1> HIDE DEF n
<1>1. 0 \in P
  <2> DEFINE f == [i \in 0..0 |-> base]
  <2>1. f \in [0..0 -> A] /\ f[0] = base /\ 1..0 = {}
    OBVIOUS
  <2> HIDE DEF f
  <2>2. Is(f, 0) /\ 0 \in 0..n
    BY <2>1, <1>0
  <2> HIDE DEF Is
  <2> QED BY <2>1, <2>2
<1>2. ASSUME NEW k \in 0..n - 1, k \in P PROVE k + 1 \in P
  <2>1. PICK f \in [0..k -> A] : Is(f, k)
    BY <1>2
  <2> DEFINE a == step[<<f[k], s[k + 1]>>]
             g == [i \in 0..k + 1 |-> IF i <= k THEN f[i] ELSE a]
  <2>2. a \in A /\ k \in Nat /\ k + 1 \in 1..n
    BY <1>0, <1>2
  <2> HIDE DEF a
  <2>3. g \in [0..k + 1 -> A]
    BY <2>2
  <2>4. g[0] = base
    BY <2>1, <2>2
  <2>5. ASSUME NEW i \in 1..k + 1 PROVE g[i] = step[<<g[i - 1], s[i]>>]
    <3>1. CASE i <= k
      <4>1. g[i] = f[i] /\ g[i - 1] = f[i - 1] /\ i \in 1..k
        BY <2>2, <3>1
      <4> QED BY <2>1, <4>1
    <3>2. CASE i = k + 1
      <4>1. g[i] = a /\ g[i - 1] = f[k]
        BY <2>2, <3>2
      <4> QED BY <3>2, <4>1 DEF a
    <3> QED BY <2>2, <3>1, <3>2
  <2> HIDE DEF g
  <2>6. Is(g, k + 1)
    BY <2>4, <2>5
  <2> HIDE DEF Is
  <2>7. k + 1 \in 0..n
    BY <2>2
  <2> QED BY <2>3, <2>6, <2>7
<1>3. n \in P
  <2> HIDE DEF P
  <2>1. 0..n \subseteq P
    BY <1>0, <1>1, <1>2, UpTo
  <2>2. n \in 0..n
    BY <1>0
  <2> QED BY <2>1, <2>2
<1> QED BY <1>3 DEF n, Results

(* There are no others. *)
LEMMA FoldUnique ==
  ASSUME NEW step, NEW base, NEW s, Len(s) \in Nat, NEW f, Results(f, step, base, s),
         NEW g, Results(g, step, base, s)
  PROVE  \A i \in 0..Len(s) : f[i] = g[i]
<1> DEFINE n == Len(s)
           P == {i \in 0..n : f[i] = g[i]}
<1>1. 0 \in P
  BY DEF Results
<1>2. ASSUME NEW i \in 0..n - 1, i \in P PROVE i + 1 \in P
  <2>1. i + 1 \in 1..n /\ (i + 1) - 1 = i /\ i + 1 \in 0..n
    OBVIOUS
  <2>2. f[i + 1] = step[<<f[i], s[i + 1]>>] /\ g[i + 1] = step[<<g[i], s[i + 1]>>]
    BY <2>1 DEF Results
  <2> QED BY <1>2, <2>1, <2>2
<1> HIDE DEF P
<1>3. 0..n \subseteq P
  BY <1>1, <1>2, UpTo
<1> QED BY <1>3 DEF P

(* Concatenation of sequences over one set is associative. *)
LEMMA Associative ==
  ASSUME NEW S, NEW s \in Seq(S), NEW t \in Seq(S), NEW u \in Seq(S)
  PROVE  s \o (t \o u) = (s \o t) \o u
  BY ConcatAssociative

-----------------------------------------------------------------------------
(* Accumulating over a sequence *)

(* Whatever has the results of the steps has the result of all of them. *)
LEMMA AccumulateIs ==
  ASSUME NEW step, NEW start, NEW s, Len(s) \in Nat, NEW f, Results(f, step, start, s)
  PROVE  Accumulate(step, start, s) = f[Len(s)]
<1> DEFINE Of(g) == [i \in 0..Len(s) |-> IF i = 0 THEN start ELSE step[<<g[i - 1], s[i]>>]]
           Is(g) == g = Of(g)
           k     == [i \in 0..Len(s) |-> f[i]]
           h     == CHOOSE g : Is(g)
<1>1. Is(k)
  <2>1. ASSUME NEW i \in 0..Len(s) PROVE (IF i = 0 THEN start ELSE step[<<k[i - 1], s[i]>>]) = f[i]
    <3>1. i # 0 => i \in 1..Len(s) /\ i - 1 \in 0..Len(s)
      OBVIOUS
    <3> QED BY <3>1 DEF Results
  <2> HIDE DEF k
  <2>2. Of(k) = [i \in 0..Len(s) |-> f[i]]
    BY <2>1
  <2> QED BY <2>2 DEF k
<1>2. Accumulate(step, start, s) = h[Len(s)]
  BY DEF Accumulate
<1> HIDE DEF Is
<1> HIDE DEF k
<1>3. Is(h)
  BY <1>1
<1> HIDE DEF h
<1>4. Results(h, step, start, s)
  <2>1. \A i \in 0..Len(s) : h[i] = IF i = 0 THEN start ELSE step[<<h[i - 1], s[i]>>]
    BY <1>3 DEF Is
  <2>2. 0 \in 0..Len(s) /\ \A i \in 1..Len(s) : i \in 0..Len(s) /\ i # 0
    OBVIOUS
  <2> QED BY <2>1, <2>2 DEF Results
<1>5. \A i \in 0..Len(s) : h[i] = f[i]
  BY <1>4, FoldUnique
<1> QED BY <1>2, <1>5

(* Of nothing it is the start. *)
LEMMA AccumulateNone == ASSUME NEW step, NEW start PROVE Accumulate(step, start, <<>>) = start
<1> DEFINE f == [i \in 0..0 |-> start]
           s == <<>>
<1>1. Len(s) = 0 /\ f[0] = start /\ 1..0 = {}
  OBVIOUS
<1> HIDE DEF f, s
<1>2. Len(s) \in Nat /\ Results(f, step, start, s)
  BY <1>1 DEF Results
<1>3. Accumulate(step, start, s) = f[Len(s)]
  BY <1>2, AccumulateIs
<1> QED BY <1>1, <1>3 DEF s

(* A step takes a result in A and an element of B to a result in A. *)
Takes(step, A, B) == step \in [A \X B -> A]

(* One more element is one more step. *)
LEMMA AccumulateOne ==
  ASSUME NEW A, NEW B, NEW start \in A, NEW step, Takes(step, A, B), NEW s \in Seq(B), NEW e \in B
  PROVE  /\ Accumulate(step, start, s) \in A
         /\ Accumulate(step, start, Append(s, e)) = step[<<Accumulate(step, start, s), e>>]
<1> DEFINE t == Append(s, e)
           n == Len(s)
<1>1. /\ t \in Seq(B) /\ Len(t) = n + 1 /\ n \in Nat
      /\ (\A i \in 1..n : t[i] = s[i]) /\ t[n + 1] = e
  BY AppendProperties, LenProperties
<1> HIDE DEF t
<1>2. PICK f \in [0..Len(t) -> A] : Results(f, step, start, t)
  BY <1>1, FoldExists DEF Takes
<1> DEFINE g == [i \in 0..n |-> f[i]]
<1>3. Results(g, step, start, s) /\ g[n] = f[n]
  <2>1. \A i \in 0..n : i \in 0..Len(t)
    BY <1>1
  <2>2. \A i \in 1..n : i \in 1..Len(t) /\ i - 1 \in 0..n /\ i \in 0..n
    BY <1>1
  <2>3. 0 \in 0..n /\ n \in 0..n
    BY <1>1
  <2> QED BY <1>1, <1>2, <2>1, <2>2, <2>3 DEF Results
<1> HIDE DEF g
<1>4. Accumulate(step, start, s) = g[n]
  BY <1>3, AccumulateIs
<1>5. Accumulate(step, start, t) = f[Len(t)]
  BY <1>1, <1>2, AccumulateIs
<1>6. f[n + 1] = step[<<f[n], e>>] /\ f[n] \in A
  <2>1. n + 1 \in 1..Len(t) /\ (n + 1) - 1 = n /\ n \in 0..Len(t)
    BY <1>1
  <2> QED BY <1>1, <1>2, <2>1 DEF Results
<1> QED BY <1>1, <1>3, <1>4, <1>5, <1>6 DEF t

-----------------------------------------------------------------------------
(* The arithmetic of total_in_{lo,hi}32 and total_out_{lo,hi}32: a number   *)
(* modulo W * W kept in two words modulo W, counted up with a carry and    *)
(* down with a borrow.  W is 2^32 in the code and any word size here.      *)

(* The number in two words, and the number of the numbers they can hold. *)
Number(W, lo, hi) == hi * W + lo
Numbers(W)       == W * W

-----------------------------------------------------------------------------
(* Division *)

(* What % and \div mean. *)
LEMMA Division ==
  ASSUME NEW M \in Nat \ {0}, NEW N \in Int
  PROVE  N % M \in 0..M-1 /\ N \div M \in Int /\ N = M * (N \div M) + (N % M)
  OBVIOUS

(* A remainder is determined by its range. *)
LEMMA RemainderIs ==
  ASSUME NEW M \in Nat \ {0}, NEW q \in Int, NEW r \in 0..M-1
  PROVE  (M * q + r) % M = r
  OBVIOUS

(* A product and its neighbours. *)
LEMMA Multiples ==
  ASSUME NEW M \in Nat \ {0}, NEW q \in Int
  PROVE  M * (q + 1) = M * q + M /\ M * (q - 1) = M * q - M /\ M * q \in Int
  OBVIOUS

(* Counting up by at most M passes M at most once. *)
LEMMA RemainderUp ==
  ASSUME NEW M \in Nat \ {0}, NEW N \in Int, NEW d \in 0..M
  PROVE  (N + d) % M = IF (N % M) + d < M THEN (N % M) + d ELSE (N % M) + d - M
  <1> DEFINE q == N \div M
             r == N % M
  <1>1. r \in 0..M-1 /\ q \in Int /\ N = M * q + r
    BY Division
  <1>2. M * (q + 1) = M * q + M /\ M * q \in Int
    BY <1>1, Multiples
  <1> HIDE DEF q, r
  <1>3. CASE r + d < M
    <2>1. N + d = M * q + (r + d) /\ r + d \in 0..M-1
      BY <1>1, <1>2, <1>3
    <2>2. (M * q + (r + d)) % M = r + d
      BY <1>1, <2>1, RemainderIs
    <2> QED BY <1>3, <2>1, <2>2 DEF r
  <1>4. CASE ~(r + d < M)
    <2>1. N + d = M * (q + 1) + (r + d - M) /\ r + d - M \in 0..M-1 /\ q + 1 \in Int
      BY <1>1, <1>2, <1>4
    <2>2. (M * (q + 1) + (r + d - M)) % M = r + d - M
      BY <2>1, RemainderIs
    <2> QED BY <1>4, <2>1, <2>2 DEF r
  <1> QED BY <1>3, <1>4

(* Counting down by at most M passes 0 at most once. *)
LEMMA RemainderDown ==
  ASSUME NEW M \in Nat \ {0}, NEW N \in Int, NEW d \in 0..M
  PROVE  (N - d) % M = IF (N % M) < d THEN (N % M) - d + M ELSE (N % M) - d
  <1> DEFINE q == N \div M
             r == N % M
  <1>1. r \in 0..M-1 /\ q \in Int /\ N = M * q + r
    BY Division
  <1>2. M * (q - 1) = M * q - M /\ M * q \in Int
    BY <1>1, Multiples
  <1> HIDE DEF q, r
  <1>3. CASE ~(r < d)
    <2>1. N - d = M * q + (r - d) /\ r - d \in 0..M-1
      BY <1>1, <1>2, <1>3
    <2>2. (M * q + (r - d)) % M = r - d
      BY <1>1, <2>1, RemainderIs
    <2> QED BY <1>3, <2>1, <2>2 DEF r
  <1>4. CASE r < d
    <2>1. N - d = M * (q - 1) + (r - d + M) /\ r - d + M \in 0..M-1 /\ q - 1 \in Int
      BY <1>1, <1>2, <1>4
    <2>2. (M * (q - 1) + (r - d + M)) % M = r - d + M
      BY <2>1, RemainderIs
    <2> QED BY <1>4, <2>1, <2>2 DEF r
  <1> QED BY <1>3, <1>4

(* Below M a number is its own remainder. *)
LEMMA RemainderSmall ==
  ASSUME NEW M \in Nat \ {0}, NEW r \in 0..M-1
  PROVE  r % M = r
  OBVIOUS
-----------------------------------------------------------------------------
(* Two words *)

(* Two words hold the numbers below W * W, and a high word that is not the *)
(* last leaves room for one more.                                          *)
LEMMA TwoWordsRange ==
  ASSUME NEW W \in Nat \ {0}, NEW lo \in 0..W-1, NEW hi \in 0..W-1
  PROVE  /\ W * W \in Nat \ {0} /\ W <= W * W
         /\ hi * W + lo \in 0 .. W * W - 1
         /\ hi * W \in Nat /\ (W - 1) * W = W * W - W
         /\ (hi + 1) * W = hi * W + W /\ (hi - 1) * W = hi * W - W
         /\ hi < W - 1 => hi * W + W <= W * W - W
         /\ hi > 0 => hi * W >= W
  <1>1. W * W \in Nat \ {0} /\ W <= W * W
    OBVIOUS
  <1>2. /\ (hi + 1) * W = hi * W + W /\ (hi - 1) * W = hi * W - W
        /\ hi * W \in Nat /\ (W - 1) * W = W * W - W
    OBVIOUS
  <1>3. hi * W <= (W - 1) * W
    OBVIOUS
  <1>4. ASSUME hi < W - 1 PROVE hi * W + W <= W * W - W
    <2>1. hi + 1 \in Nat /\ hi + 1 <= W - 1
      BY <1>4
    <2>2. (hi + 1) * W <= (W - 1) * W
      BY <2>1
    <2> QED BY <1>2, <2>2
  <1>5. ASSUME hi > 0 PROVE hi * W >= W
    BY <1>5
  <1> QED BY <1>1, <1>2, <1>3, <1>4, <1>5

(* The size of two words. *)
LEMMA Square == ASSUME NEW W \in Nat \ {0} PROVE W * W \in Nat \ {0}
  OBVIOUS

(* Adding n to the low word, with a carry when it wraps. *)
LEMMA CarryUp ==
  ASSUME NEW W \in Nat \ {0}, NEW N \in Int, NEW n \in 0..W-1,
         NEW lo \in 0..W-1, NEW hi \in 0..W-1, Number(W, lo, hi) = N % Numbers(W),
         NEW lo2, lo2 = (lo + n) % W,
         NEW hi2, hi2 = IF lo2 < lo THEN (hi + 1) % W ELSE hi
  PROVE  Number(W, lo2, hi2) = (N + n) % Numbers(W)
  <1> DEFINE M == W * W
             x == hi * W
  <1>1. /\ M \in Nat \ {0} /\ W <= M /\ x \in Nat /\ x + lo \in 0..M-1
        /\ (hi + 1) * W = x + W /\ (W - 1) * W = M - W
        /\ hi < W - 1 => x + W <= M - W
    BY TwoWordsRange
  <1>2. n \in 0..M
    BY <1>1
  <1> HIDE DEF M
  <1>3. (N + n) % M = IF (x + lo) + n < M THEN (x + lo) + n ELSE (x + lo) + n - M
    BY <1>1, <1>2, RemainderUp DEF M, Number, Numbers
  <1>4. lo % W = lo /\ hi % W = hi
    BY RemainderSmall
  <1>5. lo2 = IF lo + n < W THEN lo + n ELSE lo + n - W
    BY <1>4, RemainderUp
  <1>6. (hi + 1) % W = IF hi + 1 < W THEN hi + 1 ELSE hi + 1 - W
    BY <1>4, RemainderUp
  <1>7. CASE lo + n < W
    <2>1. lo2 = lo + n /\ hi2 = hi
      BY <1>5, <1>7
    <2>2. x + lo + n < M
      <3>1. hi = W - 1 => x = M - W
        BY <1>1
      <3> HIDE DEF x
      <3> QED BY <1>1, <1>7, <3>1
    <2> HIDE DEF x
    <2>3. (N + n) % M = x + lo + n
      BY <1>1, <1>3, <2>2
    <2> QED BY <1>1, <2>1, <2>3 DEF x, M, Number, Numbers
  <1>8. CASE ~(lo + n < W) /\ hi < W - 1
    <2>1. lo2 = lo + n - W /\ hi2 = hi + 1
      BY <1>5, <1>6, <1>8
    <2>2. hi2 * W = x + W
      BY <1>1, <2>1
    <2> HIDE DEF x
    <2>3. (N + n) % M = x + lo + n
      BY <1>1, <1>3, <1>8
    <2>4. (x + W) + (lo + n - W) = x + lo + n
      BY <1>1
    <2> QED BY <2>1, <2>2, <2>3, <2>4 DEF M, Number, Numbers
  <1>9. CASE ~(lo + n < W) /\ ~(hi < W - 1)
    <2>1. lo2 = lo + n - W /\ hi2 = 0 /\ hi = W - 1
      BY <1>5, <1>6, <1>9
    <2>2. x = M - W
      BY <1>1, <2>1
    <2>3. hi2 * W = 0
      BY <2>1
    <2> HIDE DEF x
    <2>4. (N + n) % M = lo + n - W
      BY <1>1, <1>3, <1>9, <2>2
    <2> QED BY <2>1, <2>3, <2>4 DEF M, Number, Numbers
  <1> QED BY <1>7, <1>8, <1>9

(* Counting one: the carry of total_in_lo32++ asks whether the word is 0.  *)
LEMMA CarryOne ==
  ASSUME NEW W \in Nat \ {0}, NEW N \in Int,
         NEW lo \in 0..W-1, NEW hi \in 0..W-1, Number(W, lo, hi) = N % Numbers(W),
         NEW lo2, lo2 = (lo + 1) % W,
         NEW hi2, hi2 = IF lo2 = 0 THEN (hi + 1) % W ELSE hi
  PROVE  Number(W, lo2, hi2) = (N + 1) % Numbers(W)
  <1>1. CASE W = 1
    <2>1. lo2 = 0 /\ hi2 = 0
      BY <1>1
    <2>2. (N + 1) % 1 = 0
      OBVIOUS
    <2>3. W * W = 1 /\ hi2 * W + lo2 = 0
      BY <1>1, <2>1
    <2> QED BY <1>1, <2>2, <2>3 DEF Number, Numbers
  <1>2. CASE W > 1
    <2>1. lo % W = lo
      BY RemainderSmall
    <2>2. lo2 = IF lo + 1 < W THEN lo + 1 ELSE lo + 1 - W
      BY <2>1, RemainderUp
    <2>3. lo2 = 0 <=> lo2 < lo
      BY <1>2, <2>2
    <2>4. 1 \in 0..W-1
      BY <1>2
    <2>5. hi2 = IF lo2 < lo THEN (hi + 1) % W ELSE hi
      BY <2>3
    <2> QED BY <2>4, <2>5, CarryUp
  <1> QED BY <1>1, <1>2

(* Taking n back from the low word, with a borrow. *)
LEMMA BorrowDown ==
  ASSUME NEW W \in Nat \ {0}, NEW N \in Int, NEW n \in 0..W-1,
         NEW lo \in 0..W-1, NEW hi \in 0..W-1, Number(W, lo, hi) = N % Numbers(W),
         NEW lo2, lo2 = (lo - n) % W,
         NEW hi2, hi2 = IF lo < n THEN (hi - 1) % W ELSE hi
  PROVE  Number(W, lo2, hi2) = (N - n) % Numbers(W)
  <1> DEFINE M == W * W
             x == hi * W
  <1>1. /\ M \in Nat \ {0} /\ W <= M /\ x \in Nat /\ x + lo \in 0..M-1
        /\ (hi - 1) * W = x - W /\ (W - 1) * W = M - W
        /\ hi > 0 => x >= W
    BY TwoWordsRange
  <1>2. n \in 0..M
    BY <1>1
  <1> HIDE DEF M
  <1>3. (N - n) % M = IF (x + lo) < n THEN (x + lo) - n + M ELSE (x + lo) - n
    BY <1>1, <1>2, RemainderDown DEF M, Number, Numbers
  <1>4. lo % W = lo /\ hi % W = hi
    BY RemainderSmall
  <1>5. lo2 = IF lo < n THEN lo - n + W ELSE lo - n
    BY <1>4, RemainderDown
  <1>6. (hi - 1) % W = IF hi < 1 THEN hi - 1 + W ELSE hi - 1
    BY <1>4, RemainderDown
  <1>7. CASE ~(lo < n)
    <2>1. lo2 = lo - n /\ hi2 = hi
      BY <1>5, <1>7
    <2> HIDE DEF x
    <2>2. (N - n) % M = (x + lo) - n
      BY <1>1, <1>3, <1>7
    <2> QED BY <1>1, <2>1, <2>2 DEF x, M, Number, Numbers
  <1>8. CASE lo < n /\ hi > 0
    <2>1. lo2 = lo - n + W /\ hi2 = hi - 1
      BY <1>5, <1>6, <1>8
    <2>2. hi2 * W = x - W
      BY <1>1, <2>1
    <2> HIDE DEF x
    <2>3. (N - n) % M = (x + lo) - n
      BY <1>1, <1>3, <1>8
    <2>4. (x - W) + (lo - n + W) = (x + lo) - n
      BY <1>1
    <2> QED BY <2>1, <2>2, <2>3, <2>4 DEF M, Number, Numbers
  <1>9. CASE lo < n /\ ~(hi > 0)
    <2>1. lo2 = lo - n + W /\ hi2 = W - 1 /\ hi = 0
      BY <1>5, <1>6, <1>9
    <2>2. x = 0 /\ hi2 * W = M - W
      BY <1>1, <2>1
    <2> HIDE DEF x
    <2>3. (N - n) % M = lo - n + M
      BY <1>1, <1>3, <1>9, <2>2
    <2>4. (M - W) + (lo - n + W) = lo - n + M
      BY <1>1
    <2> QED BY <2>1, <2>2, <2>3, <2>4 DEF M, Number, Numbers
  <1> QED BY <1>7, <1>8, <1>9
=============================================================================
