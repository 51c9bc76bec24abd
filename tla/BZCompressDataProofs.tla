------------------------ MODULE BZCompressDataProofs ------------------------
(***************************************************************************)
(* Theorems about BZCompressData, for every input and every value of the   *)
(* constants.  The compression stream implements CompressStream: every     *)
(* step of BZ2_bzCompress is a step of the abstract stream or leaves it    *)
(* alone.  And what its blocks decode to: the bytes that were read, in     *)
(* order, and the bytes behind the CRCs.                                   *)
(***************************************************************************)
EXTENDS BZCompressData, BZCompressProofs

-----------------------------------------------------------------------------
(* Parts of a sequence, and the input in its parts *)

(* A part of a sequence, element by element. *)
LEMMA PartIs ==
  ASSUME NEW S, NEW s \in Seq(S), NEW a \in 0..Len(s), NEW b \in a..Len(s)
  PROVE  /\ SubSeq(s, a + 1, b) \in Seq(S) /\ Len(SubSeq(s, a + 1, b)) = b - a
         /\ \A i \in 1..b - a : SubSeq(s, a + 1, b)[i] = s[a + i]
<1> DEFINE m == a + 1
<1>1. /\ m \in Int /\ b \in Int /\ b - m + 1 = b - a /\ (m <= b <=> b # a)
      /\ (\A i \in m..b : s[i] \in S) /\ a \in Nat /\ b \in Nat /\ b >= a
  <2>1. a \in Nat /\ b \in Nat /\ b <= Len(s) /\ b >= a /\ Len(s) \in Nat
    BY LenProperties
  <2>2. \A i \in m..b : s[i] \in S
    BY <2>1, ElementOfSeq
  <2> QED BY <2>1, <2>2
<1> HIDE DEF m
<1>2. /\ SubSeq(s, m, b) \in Seq(S)
      /\ Len(SubSeq(s, m, b)) = IF m <= b THEN b - m + 1 ELSE 0
      /\ \A i \in 1..b - m + 1 : SubSeq(s, m, b)[i] = s[m + i - 1]
  <2>1. m \in Int /\ b \in Int /\ \A i \in m..b : s[i] \in S
    BY <1>1
  <2> QED BY ONLY <2>1, SubSeqProperties
<1> DEFINE t == SubSeq(s, m, b)
<1> HIDE DEF t
<1>3. t \in Seq(S) /\ Len(t) = b - a /\ \A i \in 1..b - a : t[i] = s[m + i - 1]
  BY <1>1, <1>2 DEF t
<1>4. \A i \in 1..b - a : m + i - 1 = a + i
  BY <1>1 DEF m
<1>5. t \in Seq(S) /\ Len(t) = b - a /\ \A i \in 1..b - a : t[i] = s[a + i]
  BY <1>3, <1>4
<1> QED BY <1>5 DEF t, m

(* What is appended to a sequence belongs to its last part only. *)
LEMMA PartOfAppend ==
  ASSUME NEW S, NEW s \in Seq(S), NEW e \in S, NEW a \in 0..Len(s)
  PROVE  /\ \A b \in a..Len(s) : SubSeq(Append(s, e), a + 1, b) = SubSeq(s, a + 1, b)
         /\ SubSeq(Append(s, e), a + 1, Len(Append(s, e)))
              = Append(SubSeq(s, a + 1, Len(s)), e)
<1> DEFINE t == Append(s, e)
           n == Len(s)
<1>1. /\ t \in Seq(S) /\ Len(t) = n + 1 /\ n \in Nat /\ a \in Nat /\ a <= n
      /\ (\A i \in 1..n : t[i] = s[i]) /\ t[n + 1] = e
  BY AppendProperties, LenProperties
<1> HIDE DEF t
<1>2. ASSUME NEW b \in a..n PROVE SubSeq(t, a + 1, b) = SubSeq(s, a + 1, b)
  <2> DEFINE p == SubSeq(t, a + 1, b)
             q == SubSeq(s, a + 1, b)
  <2>1. a \in 0..Len(t) /\ b \in a..Len(t) /\ a \in 0..Len(s) /\ b \in a..Len(s) /\ b \in Nat
    BY <1>1
  <2>2. p \in Seq(S) /\ Len(p) = b - a /\ \A i \in 1..b - a : p[i] = t[a + i]
    BY <1>1, <2>1, PartIs
  <2>3. q \in Seq(S) /\ Len(q) = b - a /\ \A i \in 1..b - a : q[i] = s[a + i]
    BY <2>1, PartIs
  <2>4. \A i \in 1..b - a : a + i \in 1..n
    BY <1>1, <2>1
  <2>5. \A i \in 1..b - a : p[i] = q[i]
    BY <1>1, <2>2, <2>3, <2>4
  <2> HIDE DEF p, q
  <2>6. p = q
    BY <2>2, <2>3, <2>5, SeqEqual
  <2> QED BY <2>6 DEF p, q
<1>3. SubSeq(t, a + 1, Len(t)) = Append(SubSeq(s, a + 1, n), e)
  <2> DEFINE p == SubSeq(t, a + 1, Len(t))
             q == SubSeq(s, a + 1, n)
             r == Append(q, e)
             l == n - a
  <2>1. /\ a \in 0..Len(t) /\ Len(t) \in a..Len(t) /\ n \in a..Len(s) /\ l \in Nat
        /\ Len(t) - a = l + 1
    BY <1>1
  <2>2. p \in Seq(S) /\ Len(p) = l + 1 /\ \A i \in 1..l + 1 : p[i] = t[a + i]
    BY <1>1, <2>1, PartIs
  <2>3. q \in Seq(S) /\ Len(q) = l /\ \A i \in 1..l : q[i] = s[a + i]
    BY <2>1, PartIs
  <2> HIDE DEF p, q
  <2>4. /\ r \in Seq(S) /\ Len(r) = l + 1 /\ (\A i \in 1..l : r[i] = q[i]) /\ r[l + 1] = e
    BY <2>3, AppendProperties
  <2>5. /\ \A i \in 1..l : a + i \in 1..n
        /\ a + (l + 1) = n + 1
    BY <1>1
  <2> HIDE DEF r, l
  <2>6. ASSUME NEW i \in 1..l PROVE p[i] = r[i]
    <3>1. i \in 1..l + 1
      BY <2>1
    <3>2. p[i] = t[a + i] /\ r[i] = q[i] /\ q[i] = s[a + i]
      BY <2>2, <2>3, <2>4, <3>1
    <3>3. t[a + i] = s[a + i]
      BY <1>1, <2>5
    <3> QED BY <3>2, <3>3
  <2>7. p[l + 1] = r[l + 1]
    <3>1. l + 1 \in 1..l + 1
      BY <2>1
    <3>2. p[l + 1] = t[a + (l + 1)]
      BY <2>2, <3>1
    <3> QED BY <1>1, <2>4, <2>5, <3>2
  <2>8. \A i \in 1..l + 1 : p[i] = r[i]
    BY <2>1, <2>6, <2>7
  <2>9. p = r
    BY <2>2, <2>4, <2>8, SeqEqual
  <2> QED BY <2>9 DEF p, q, r
<1> QED BY <1>2, <1>3 DEF t

(* What is behind the first a elements of s is p and then q. *)
RestIs(s, a, p, q) == p \o q = SubSeq(s, a + 1, Len(s))

(* Then each of the two is a part of s. *)
LEMMA PartInTwo ==
  ASSUME NEW S, NEW s \in Seq(S), NEW a \in 0..Len(s), NEW p \in Seq(S), NEW q \in Seq(S),
         RestIs(s, a, p, q)
  PROVE  /\ a + Len(p) \in a..Len(s)
         /\ p = SubSeq(s, a + 1, a + Len(p))
         /\ q = SubSeq(s, a + Len(p) + 1, Len(s))
<1> DEFINE n == Len(s)
           k == a + Len(p)
<1>1. /\ n \in Nat /\ a \in Nat /\ a <= n /\ Len(p) \in Nat /\ Len(q) \in Nat
      /\ Len(p \o q) = Len(p) + Len(q)
      /\ \A i \in 1..Len(p) + Len(q) : (p \o q)[i] = IF i <= Len(p) THEN p[i] ELSE q[i - Len(p)]
  <2>1. n \in Nat /\ a \in Nat /\ a <= n /\ Len(p) \in Nat /\ Len(q) \in Nat
    BY LenProperties
  <2>2. /\ Len(p \o q) = Len(p) + Len(q)
        /\ \A i \in 1..Len(p) + Len(q) :
             (p \o q)[i] = IF i <= Len(p) THEN p[i] ELSE q[i - Len(p)]
    BY ConcatProperties
  <2> QED BY <2>1, <2>2
<1>2. Len(p \o q) = n - a /\ \A i \in 1..n - a : (p \o q)[i] = s[a + i]
  <2>1. n \in a..Len(s)
    BY <1>1
  <2> QED BY <2>1, PartIs DEF RestIs
<1>3. k \in a..n /\ k \in 0..n /\ k \in Nat /\ n - k = Len(q) /\ k - a = Len(p)
      /\ Len(p) + Len(q) = n - a /\ n \in k..n
  BY <1>1, <1>2
<1>4. p = SubSeq(s, a + 1, k)
  <2> DEFINE t == SubSeq(s, a + 1, k)
  <2>1. t \in Seq(S) /\ Len(t) = Len(p) /\ \A i \in 1..Len(p) : t[i] = s[a + i]
    <3>1. t \in Seq(S) /\ Len(t) = k - a /\ \A i \in 1..k - a : t[i] = s[a + i]
      <4> HIDE DEF k
      <4> QED BY <1>3, PartIs
    <3> HIDE DEF t
    <3> QED BY <1>3, <3>1
  <2>2. ASSUME NEW i \in 1..Len(p) PROVE p[i] = t[i]
    <3>1. i \in 1..Len(p) + Len(q) /\ i <= Len(p)
      BY <1>1
    <3> HIDE DEF t
    <3> QED BY <1>1, <1>2, <1>3, <2>1, <3>1
  <2> HIDE DEF t
  <2>3. p = t
    BY <2>1, <2>2, SeqEqual
  <2> QED BY <2>3 DEF t
<1>5. q = SubSeq(s, k + 1, n)
  <2> DEFINE t == SubSeq(s, k + 1, n)
  <2>1. t \in Seq(S) /\ Len(t) = Len(q) /\ \A i \in 1..Len(q) : t[i] = s[k + i]
    <3>1. t \in Seq(S) /\ Len(t) = n - k /\ \A i \in 1..n - k : t[i] = s[k + i]
      <4> HIDE DEF k
      <4> QED BY <1>3, PartIs
    <3> HIDE DEF t
    <3> QED BY <1>3, <3>1
  <2>2. ASSUME NEW i \in 1..Len(q) PROVE q[i] = t[i]
    <3> DEFINE j == Len(p) + i
    <3>1. j \in 1..Len(p) + Len(q) /\ ~(j <= Len(p)) /\ j - Len(p) = i /\ k + i = a + j
      BY <1>1
    <3> HIDE DEF t, j, k
    <3>2. (p \o q)[j] = q[i]
      BY <1>1, <3>1
    <3>3. (p \o q)[j] = s[a + j]
      BY <1>2, <1>3, <3>1
    <3> QED BY <2>1, <3>1, <3>2, <3>3
  <2> HIDE DEF t
  <2>3. q = t
    BY <2>1, <2>2, SeqEqual
  <2> QED BY <2>3 DEF t
<1> QED BY <1>3, <1>4, <1>5

(* A byte that is read is pending. *)
LEMMA KeptAppend ==
  ASSUME NEW crcs \in Seq(Seq(Byte)), NEW read \in Seq(Byte), NEW rest, NEW c \in Byte,
         NEW cut \in [0..Len(crcs) -> 0..Len(read)], CutAt(cut, crcs, rest, read)
  PROVE  /\ cut \in [0..Len(crcs) -> 0..Len(Append(read, c))]
         /\ CutAt(cut, crcs, Append(rest, c), Append(read, c))
<1> DEFINE n == Len(crcs)
           m == Len(read)
           t == Append(read, c)
<1>1. /\ n \in Nat /\ m \in Nat /\ Len(t) = m + 1 /\ cut \in [0..n -> 0..m] /\ cut[0] = 0
      /\ rest = SubSeq(read, cut[n] + 1, m)
  BY LenProperties, AppendProperties DEF CutAt
<1>2. ASSUME NEW i \in 1..n
      PROVE  /\ cut[i - 1] <= cut[i]
             /\ crcs[i] = SubSeq(t, cut[i - 1] + 1, cut[i])
  <2>1. cut[i - 1] <= cut[i] /\ crcs[i] = SubSeq(read, cut[i - 1] + 1, cut[i])
    BY DEF CutAt
  <2>2. i - 1 \in 0..n /\ i \in 0..n
    BY <1>1
  <2>3. cut[i - 1] \in 0..m /\ cut[i] \in 0..m
    BY <1>1, <2>2
  <2> DEFINE a == cut[i - 1]
             b == cut[i]
  <2>4. a \in 0..m /\ b \in a..m
    <3>1. a \in 0..m /\ b \in 0..m /\ a <= b
      BY <2>1, <2>3
    <3> HIDE DEF a, b, m
    <3> QED BY <3>1
  <2> HIDE DEF a, b
  <2>5. SubSeq(t, a + 1, b) = SubSeq(read, a + 1, b)
    BY <2>4, PartOfAppend
  <2> QED BY <2>1, <2>5 DEF a, b
<1>3. Append(rest, c) = SubSeq(t, cut[n] + 1, Len(t))
  <2> DEFINE a == cut[n]
  <2>1. a \in 0..m
    <3>1. n \in 0..n
      BY <1>1
    <3> QED BY <1>1, <3>1
  <2> HIDE DEF a
  <2>2. SubSeq(t, a + 1, Len(t)) = Append(SubSeq(read, a + 1, m), c)
    BY <2>1, PartOfAppend
  <2> QED BY <1>1, <2>2 DEF a
<1>4. cut \in [0..n -> 0..Len(t)]
  <2>1. \A x \in 0..m : x \in 0..m + 1
    BY <1>1
  <2> HIDE DEF n, m, t
  <2>2. \A i \in 0..n : cut[i] \in 0..m + 1
    BY <1>1, <2>1
  <2> QED BY <1>1, <2>2
<1> QED BY <1>1, <1>2, <1>3, <1>4 DEF CutAt

(* A block takes the first of the bytes that are pending. *)
LEMMA KeptCut ==
  ASSUME NEW crcs \in Seq(Seq(Byte)), NEW read \in Seq(Byte),
         NEW p \in Seq(Byte), NEW q \in Seq(Byte),
         NEW cut \in [0..Len(crcs) -> 0..Len(read)], CutAt(cut, crcs, p \o q, read)
  PROVE  \E new \in [0..Len(Append(crcs, p)) -> 0..Len(read)] :
           CutAt(new, Append(crcs, p), q, read)
<1> DEFINE n == Len(crcs)
           m == Len(read)
           a == cut[n]
           b == a + Len(p)
           new == [i \in 0..n + 1 |-> IF i <= n THEN cut[i] ELSE b]
           t == Append(crcs, p)
<1>1. /\ n \in Nat /\ m \in Nat /\ cut \in [0..n -> 0..m] /\ cut[0] = 0
      /\ p \o q = SubSeq(read, a + 1, m)
  BY LenProperties DEF CutAt
<1>2. a \in 0..m
  <2>1. n \in 0..n
    BY <1>1
  <2> QED BY <1>1, <2>1
<1>3. /\ b \in a..m /\ p = SubSeq(read, a + 1, b) /\ q = SubSeq(read, b + 1, m)
  <2>1. a \in 0..Len(read) /\ RestIs(read, a, p, q)
    BY <1>1, <1>2 DEF RestIs
  <2> HIDE DEF a
  <2> QED BY <2>1, PartInTwo
<1>4. t \in Seq(Seq(Byte)) /\ Len(t) = n + 1 /\ (\A i \in 1..n : t[i] = crcs[i]) /\ t[n + 1] = p
  BY AppendProperties
<1> HIDE DEF t
<1>5. b \in 0..m /\ a <= b
  <2> HIDE DEF a, b, m
  <2> QED BY <1>1, <1>2, <1>3
<1> HIDE DEF b
<1>6. /\ new \in [0..n + 1 -> 0..m] /\ new[0] = 0 /\ new[n] = a /\ new[n + 1] = b
      /\ \A i \in 0..n : new[i] = cut[i]
  <2>1. \A i \in 0..n + 1 : (IF i <= n THEN cut[i] ELSE b) \in 0..m
    <3>1. ASSUME NEW i \in 0..n + 1 PROVE (IF i <= n THEN cut[i] ELSE b) \in 0..m
      <4>1. i <= n => i \in 0..n
        BY <1>1
      <4> QED BY <1>1, <1>5, <4>1
    <3> QED BY <3>1
  <2>2. 0 \in 0..n + 1 /\ n \in 0..n + 1 /\ n + 1 \in 0..n + 1 /\ 0 <= n /\ n <= n /\ ~(n + 1 <= n)
    BY <1>1
  <2>3. \A i \in 0..n : i \in 0..n + 1 /\ i <= n
    BY <1>1
  <2> QED BY <1>1, <2>1, <2>2, <2>3
<1> HIDE DEF new
<1>7. ASSUME NEW i \in 1..n + 1
      PROVE  new[i - 1] <= new[i] /\ t[i] = SubSeq(read, new[i - 1] + 1, new[i])
  <2>1. CASE i \in 1..n
    <3>1. cut[i - 1] <= cut[i] /\ crcs[i] = SubSeq(read, cut[i - 1] + 1, cut[i])
      BY <2>1 DEF CutAt
    <3>2. i - 1 \in 0..n /\ i \in 0..n
      BY <1>1, <2>1
    <3> QED BY <1>4, <1>6, <2>1, <3>1, <3>2
  <2>2. CASE i = n + 1
    <3>1. i - 1 = n
      BY <1>1, <2>2
    <3> HIDE DEF n, m, a
    <3> QED BY <1>3, <1>4, <1>5, <1>6, <2>2, <3>1
  <2>3. i \in 1..n \/ i = n + 1
    BY <1>1
  <2> QED BY <2>1, <2>2, <2>3
<1>8. q = SubSeq(read, new[Len(t)] + 1, m)
  BY <1>3, <1>4, <1>6
<1>9. CutAt(new, t, q, read)
  BY <1>4, <1>6, <1>7, <1>8 DEF CutAt
<1>10. new \in [0..Len(t) -> 0..m]
  BY <1>4, <1>6
<1> QED BY <1>9, <1>10 DEF t

USE BytesAssumption, MaxRunAssumption, BlockAssumption, CounterAssumption,
    UnitAssumption, BoundAssumption, LastAssumption

-----------------------------------------------------------------------------
(* What the bit writer leaves behind *)

(* There is a longest last code. *)
LEMMA LongestLast ==
  Max(LastUnits) \in LastUnits /\ \A v \in LastUnits : v <= Max(LastUnits)
<1> DEFINE room == {Word - v : v \in LastUnits}
<1>1. room \subseteq Nat /\ room # {}
  <2>1. \A v \in LastUnits : v \in Nat /\ Word - v \in Nat
    OBVIOUS
  <2>2. PICK v \in LastUnits : TRUE
    OBVIOUS
  <2> QED BY <2>1, <2>2
<1>2. PICK r \in room : \A q \in room : <<q, r>> \notin OpToRel(<, Nat)
  BY <1>1, NatLessThanWellFounded, WFMin
<1>3. \A q \in room : ~(q < r)
  BY <1>1, <1>2 DEF OpToRel
<1>4. PICK m \in LastUnits : r = Word - m
  OBVIOUS
<1>5. \A v \in LastUnits : m >= v
  <2>1. ASSUME NEW v \in LastUnits PROVE m >= v
    <3>1. ~(Word - v < Word - m)
      BY <1>3, <1>4
    <3> QED BY <3>1
  <2> QED BY <2>1
<1> QED BY <1>5 DEF Max

(* bsNEEDW moves all but less than a word of what is there before the last *)
(* bsW.                                                                    *)
LEMMA FullWordsLeaves ==
  ASSUME NEW n \in Nat, NEW w \in 1..Word
  PROVE  n - FullWords(n, w) <= w + Word - 1
<1>1. CASE n < w
  BY <1>1 DEF FullWords
<1>2. CASE ~(n < w)
  <2> DEFINE m == n - w
             q == m \div Word
  <2>0. m \in Nat /\ n = m + w
    BY <1>2
  <2> HIDE DEF m
  <2>1. m - Word * q <= Word - 1 /\ Word * q \in Nat
    <3>1. m = Word * q + (m % Word) /\ m % Word \in 0..Word-1 /\ q \in Nat
      BY <2>0, Division
    <3> DEFINE x == Word * q
    <3>2. x \in Nat
      BY <3>1
    <3> HIDE DEF x, q
    <3> QED BY <2>0, <3>1, <3>2 DEF x
  <2>2. FullWords(n, w) = Word * q
    BY <1>2 DEF FullWords, m
  <2> DEFINE x == Word * q
  <2> HIDE DEF x, q
  <2> QED BY <2>0, <2>1, <2>2 DEF x
<1> QED BY <1>1, <1>2

(* The remainder that a flush leaves is at least a word. *)
LEMMA RemainderFacts ==
  /\ Remainder \in Nat /\ Word <= Remainder
  /\ \A v \in LastUnits : v \in 1..Word /\ v + Word - 1 <= Remainder
<1> DEFINE m == Max(LastUnits)
<1>1. m \in 1..Word /\ \A v \in LastUnits : v \in 1..Word /\ v <= m
  BY LongestLast
<1> HIDE DEF m
<1>2. Remainder = Word - 1 + m
  BY DEF Remainder, m
<1> QED BY <1>1, <1>2

(* What stays in the buffer after the units of a section are written. *)
LEMMA WriteUnitsShort ==
  ASSUME NEW zs, NEW old \in Seq(Unit), NEW new \in Seq(Unit), NEW last \in BOOLEAN,
         NEW w \in 0..Word, WriteUnits(zs, old \o new, last, w),
         Len(old) <= Remainder, w # 0 => w + Word - 1 <= Remainder,
         w = 0 /\ ~last => new = <<>>
  PROVE  Len(hold') <= Remainder
<1> DEFINE all == old \o new
           k   == IF last THEN Len(all) ELSE FullWords(Len(all), w)
<1>1. all \in Seq(Unit) /\ Len(all) = Len(old) + Len(new)
  BY ConcatProperties
<1>2. hold' = SubSeq(all, k + 1, Len(all))
  BY DEF WriteUnits
<1> HIDE DEF all
<1>3. Len(all) \in Nat /\ Len(old) \in Nat /\ Len(new) \in Nat
  BY <1>1, LenProperties
<1>4. FullWords(Len(all), w) \in 0..Len(all)
  BY <1>3, FullWordsRange
<1>5. k \in 0..Len(all)
  BY <1>3, <1>4
<1> HIDE DEF k
<1>6. Len(hold') = Len(all) - k
  <2>1. \A i \in k + 1..Len(all) : all[i] \in Unit
    BY <1>1, <1>3, <1>5, ElementOfSeq
  <2>2. k + 1 \in Int /\ Len(all) \in Int
    BY <1>3, <1>5
  <2>3. Len(SubSeq(all, k + 1, Len(all))) = IF k + 1 <= Len(all) THEN Len(all) - (k + 1) + 1 ELSE 0
    BY <2>1, <2>2, SubSeqProperties
  <2> QED BY <1>2, <1>3, <1>5, <2>3
<1>7. Len(all) - k <= Remainder
  <2>1. CASE last
    BY <1>3, <2>1, RemainderFacts DEF k
  <2>2. CASE ~last /\ w # 0
    <3>1. Len(all) - FullWords(Len(all), w) <= w + Word - 1
      BY <1>3, <2>2, FullWordsLeaves
    <3> QED BY <1>3, <1>4, <2>2, <3>1, RemainderFacts DEF k
  <2>3. CASE ~last /\ w = 0
    <3>1. FullWords(Len(all), w) = 0 /\ Len(new) = 0
      BY <2>3 DEF FullWords
    <3> QED BY <1>1, <1>3, <2>3, <3>1 DEF k
  <2> QED BY <2>1, <2>2, <2>3
<1> QED BY <1>6, <1>7

-----------------------------------------------------------------------------
(* The sections as the abstract stream shows them *)

One(x)    == [kind |-> x.kind, crc |-> x.crc]
ShownType == [kind : {"header", "block", "trailer"}, crc : Seq(Seq(Byte))]

(* Each section is shown, in its place. *)
LEMMA ShownFacts ==
  ASSUME NEW s \in Seq(SectionType)
  PROVE  /\ Shown(s) \in Seq(ShownType) /\ Len(Shown(s)) = Len(s)
         /\ \A i \in 1..Len(s) : Shown(s)[i] = One(s[i])
<1>1. \A i \in 1..Len(s) : s[i] \in SectionType
  BY ElementOfSeq
<1>2. \A x \in SectionType : One(x) \in ShownType
  BY DEF One, SectionType, ShownType
<1>3. Shown(s) = [i \in 1..Len(s) |-> One(s[i])]
  BY DEF Shown, One
<1> QED BY <1>1, <1>2, <1>3

(* What is shown of two sequences of sections, one after the other. *)
LEMMA ShownConcat ==
  ASSUME NEW s \in Seq(SectionType), NEW t \in Seq(SectionType)
  PROVE  Shown(s \o t) = Shown(s) \o Shown(t)
<1>1. /\ s \o t \in Seq(SectionType) /\ Len(s \o t) = Len(s) + Len(t)
      /\ \A i \in 1..Len(s) + Len(t) : (s \o t)[i] = IF i <= Len(s) THEN s[i] ELSE t[i - Len(s)]
  BY ConcatProperties
<1>2. /\ Shown(s) \in Seq(ShownType) /\ Len(Shown(s)) = Len(s)
      /\ \A i \in 1..Len(s) : Shown(s)[i] = One(s[i])
  BY ShownFacts
<1>3. /\ Shown(t) \in Seq(ShownType) /\ Len(Shown(t)) = Len(t)
      /\ \A i \in 1..Len(t) : Shown(t)[i] = One(t[i])
  BY ShownFacts
<1>4. /\ Shown(s \o t) \in Seq(ShownType) /\ Len(Shown(s \o t)) = Len(s) + Len(t)
      /\ \A i \in 1..Len(s) + Len(t) : Shown(s \o t)[i] = One((s \o t)[i])
  BY <1>1, ShownFacts
<1>5. /\ Shown(s) \o Shown(t) \in Seq(ShownType)
      /\ Len(Shown(s) \o Shown(t)) = Len(s) + Len(t)
      /\ \A i \in 1..Len(s) + Len(t) :
           (Shown(s) \o Shown(t))[i] = IF i <= Len(s) THEN Shown(s)[i] ELSE Shown(t)[i - Len(s)]
  BY <1>2, <1>3, ConcatProperties
<1>6. \A i \in 1..Len(s) + Len(t) : Shown(s \o t)[i] = (Shown(s) \o Shown(t))[i]
  <2>1. ASSUME NEW i \in 1..Len(s) + Len(t)
        PROVE  Shown(s \o t)[i] = (Shown(s) \o Shown(t))[i]
    <3>1. CASE i <= Len(s)
      <4>1. i \in 1..Len(s)
        BY <3>1, LenProperties
      <4> QED BY <1>1, <1>2, <1>4, <1>5, <3>1, <4>1
    <3>2. CASE ~(i <= Len(s))
      <4>1. i - Len(s) \in 1..Len(t)
        BY <3>2, LenProperties
      <4> QED BY <1>1, <1>3, <1>4, <1>5, <3>2, <4>1
    <3> QED BY <3>1, <3>2
  <2> QED BY <2>1
<1> HIDE DEF Shown
<1> QED BY <1>4, <1>5, <1>6, SeqEqual

(* No section, or one. *)
LEMMA ShownOne ==
  /\ Shown(<<>>) = <<>>
  /\ \A k, d, c, u : Shown(<<Section(k, d, c, u)>>) = <<[kind |-> k, crc |-> c]>>
BY DEF Shown, Section

-----------------------------------------------------------------------------
(* BZ2_compressBlock as the abstract stream sees it *)

(* Header, block and trailer are appended, each when it is due; something  *)
(* is written exactly when there is one; and bsBuff stays short.           *)
LEMMA CompressBlockShown ==
  ASSUME TypeOK, open, Numbering, Buffers, state = "INPUT", HoldShort,
         NEW blk \in Seq(Byte), NEW crc \in Seq(Byte), NEW last \in BOOLEAN,
         CompressBlock(blk, crc, last)
  PROVE  /\ combinedCRC' = IF blk # <<>> THEN Append(combinedCRC, crc) ELSE combinedCRC
         /\ Shown(sections') =
              Shown(sections)
              \o (IF sections = <<>> THEN <<[kind |-> "header", crc |-> <<>>]>> ELSE <<>>)
              \o (IF blk # <<>> THEN <<[kind |-> "block", crc |-> <<crc>>]>> ELSE <<>>)
              \o (IF last THEN <<[kind |-> "trailer", crc |-> combinedCRC']>> ELSE <<>>)
         /\ \/ sections' = sections /\ written' = written
            \/ Len(sections') > Len(sections) /\ Len(written') > Len(written)
         /\ HoldShort'
<1> DEFINE full == blk # <<>>
           comb == IF full THEN Append(combinedCRC, crc) ELSE combinedCRC
           n0   == Len(sections)
           n1   == IF blockNo = 1 THEN n0 + 1 ELSE n0
           n2   == IF full THEN n1 + 1 ELSE n1
           hdr  == IF blockNo = 1 THEN <<Section("header", <<>>, <<>>, Word)>> ELSE <<>>
           bdy(u) == IF full THEN <<Section("block", blk, <<crc>>, u)>> ELSE <<>>
           trl  == IF last THEN <<Section("trailer", <<>>, comb, TrlUnits)>> ELSE <<>>
           uh   == IF blockNo = 1 THEN Units(n1, Word) ELSE <<>>
           ub(u) == IF full THEN Units(n2, u) ELSE <<>>
           ut   == IF last THEN Units(n2 + 1, TrlUnits) ELSE <<>>
           zs   == IF full /\ blockNo > 1 THEN <<>> ELSE zbits
           old  == IF blockNo = 1 THEN <<>> ELSE hold
           w(v) == IF full THEN v ELSE IF blockNo = 1 THEN 1 ELSE 0
<1>1. PICK u \in BlkUnits, v \in LastUnits :
        /\ combinedCRC' = comb
        /\ sections' = sections \o hdr \o bdy(u) \o trl
        /\ written' = written \o (uh \o ub(u) \o ut)
        /\ WriteUnits(zs, old \o (uh \o ub(u) \o ut), last, w(v))
  BY DEF CompressBlock
<1>2. u \in Nat \ {0} /\ n0 \in Nat /\ n1 \in Nat /\ n2 \in Nat /\ n2 + 1 \in Nat
  <2>1. n0 \in Nat
    BY DEF TypeOK
  <2>2. u \in Nat \ {0}
    BY UnitAssumption
  <2> HIDE DEF n0
  <2> QED BY <2>1, <2>2
<1>3. /\ uh \in Seq(Unit) /\ Len(uh) = (IF blockNo = 1 THEN Word ELSE 0)
      /\ ub(u) \in Seq(Unit) /\ Len(ub(u)) = (IF full THEN u ELSE 0)
      /\ ut \in Seq(Unit) /\ Len(ut) = (IF last THEN TrlUnits ELSE 0)
  <2>0. \A k, n \in Nat : Units(k, n) \in Seq(Unit)
    BY UnitsIsSeq
  <2>1. \A k, n \in Nat : Units(k, n) \in Seq(Unit) /\ Len(Units(k, n)) = n
    <3>1. \A k, n \in Nat : Len(Units(k, n)) = n
      BY DEF Units
    <3> QED BY <2>0, <3>1
  <2>2. << >> \in Seq(Unit) /\ Len(<<>>) = 0
    OBVIOUS
  <2> HIDE DEF n0, n1, n2
  <2> QED BY <1>2, <2>1, <2>2
<1> DEFINE new == uh \o ub(u) \o ut
           lnew == (IF blockNo = 1 THEN Word ELSE 0) + (IF full THEN u ELSE 0)
                   + (IF last THEN TrlUnits ELSE 0)
<1>4. new \in Seq(Unit) /\ Len(new) = lnew
  <2> DEFINE head == uh \o ub(u)
  <2> HIDE DEF uh, ub, ut, full
  <2>1. head \in Seq(Unit) /\ Len(head) = Len(uh) + Len(ub(u))
    BY <1>3, ConcatProperties
  <2> HIDE DEF head
  <2>2. head \o ut \in Seq(Unit) /\ Len(head \o ut) = Len(head) + Len(ut)
    BY <1>3, <2>1, ConcatProperties
  <2> QED BY <1>3, <2>1, <2>2 DEF head
<1>5. comb \in Seq(Seq(Byte))
  BY AppendProperties DEF TypeOK, Byte
<1>6. /\ hdr \in Seq(SectionType) /\ Len(hdr) = (IF blockNo = 1 THEN 1 ELSE 0)
      /\ bdy(u) \in Seq(SectionType) /\ Len(bdy(u)) = (IF full THEN 1 ELSE 0)
      /\ trl \in Seq(SectionType) /\ Len(trl) = (IF last THEN 1 ELSE 0)
  <2> HIDE DEF comb
  <2>1. /\ Section("header", <<>>, <<>>, Word) \in SectionType
        /\ Section("trailer", <<>>, comb, TrlUnits) \in SectionType
    BY <1>5 DEF Section, SectionType
  <2>2. Section("block", blk, <<crc>>, u) \in SectionType
    BY <1>2 DEF Section, SectionType
  <2>3. \A x \in SectionType : <<x>> \in Seq(SectionType) /\ Len(<<x>>) = 1
    OBVIOUS
  <2>4. << >> \in Seq(SectionType) /\ Len(<<>>) = 0
    OBVIOUS
  <2> QED BY <2>1, <2>2, <2>3, <2>4
<1>7. sections \in Seq(SectionType) /\ (sections = <<>> <=> blockNo = 1)
  BY DEF TypeOK, Numbering
<1>8. /\ Shown(hdr) = IF sections = <<>> THEN <<[kind |-> "header", crc |-> <<>>]>> ELSE <<>>
      /\ Shown(bdy(u)) = IF full THEN <<[kind |-> "block", crc |-> <<crc>>]>> ELSE <<>>
      /\ Shown(trl) = IF last THEN <<[kind |-> "trailer", crc |-> comb]>> ELSE <<>>
  <2> HIDE DEF comb, full
  <2>1. Shown(hdr) = IF sections = <<>> THEN <<[kind |-> "header", crc |-> <<>>]>> ELSE <<>>
    BY <1>7, ShownOne
  <2>2. Shown(bdy(u)) = IF full THEN <<[kind |-> "block", crc |-> <<crc>>]>> ELSE <<>>
    BY ShownOne
  <2>3. Shown(trl) = IF last THEN <<[kind |-> "trailer", crc |-> comb]>> ELSE <<>>
    BY ShownOne
  <2> QED BY <2>1, <2>2, <2>3
<1>9. /\ Shown(sections') = Shown(sections) \o Shown(hdr) \o Shown(bdy(u)) \o Shown(trl)
      /\ Len(sections') = Len(sections) + Len(hdr) + Len(bdy(u)) + Len(trl)
  <2> DEFINE a == sections \o hdr
             b == a \o bdy(u)
             c == b \o trl
  <2> HIDE DEF hdr, bdy, trl, full, comb
  <2>1. a \in Seq(SectionType) /\ Len(a) = Len(sections) + Len(hdr)
        /\ Shown(a) = Shown(sections) \o Shown(hdr)
    BY <1>6, <1>7, ConcatProperties, ShownConcat
  <2>2. b \in Seq(SectionType) /\ Len(b) = Len(a) + Len(bdy(u))
        /\ Shown(b) = Shown(a) \o Shown(bdy(u))
    <3> HIDE DEF a
    <3> QED BY <1>6, <2>1, ConcatProperties, ShownConcat
  <2>3. Len(c) = Len(b) + Len(trl) /\ Shown(c) = Shown(b) \o Shown(trl)
    <3> HIDE DEF b
    <3> QED BY <1>6, <2>2, ConcatProperties, ShownConcat
  <2>4. sections' = c
    BY <1>1
  <2> HIDE DEF a, b, c
  <2> QED BY <2>1, <2>2, <2>3, <2>4
<1>10. Len(written') = Len(written) + lnew
  <2> HIDE DEF new, lnew
  <2>1. written' = written \o new /\ written \in Seq(Unit)
    BY <1>1 DEF new, TypeOK
  <2> QED BY <1>4, <2>1, ConcatProperties
<1>11. \/ sections' = sections /\ written' = written
       \/ Len(sections') > Len(sections) /\ Len(written') > Len(written)
  <2>0. Len(sections) \in Nat /\ Len(written) \in Nat
    BY LenProperties DEF TypeOK
  <2>1. CASE blockNo = 1 \/ full \/ last
    <3>1. lnew > 0
      BY <1>2, <2>1
    <3>2. Len(hdr) + Len(bdy(u)) + Len(trl) > 0 /\ Len(hdr) \in Nat /\ Len(bdy(u)) \in Nat
          /\ Len(trl) \in Nat
      <4> HIDE DEF hdr, bdy, trl, full
      <4> QED BY <1>6, <2>1
    <3>3. lnew \in Nat
      BY <1>2
    <3> HIDE DEF lnew, hdr, bdy, trl
    <3> QED BY <1>9, <1>10, <2>0, <3>1, <3>2, <3>3
  <2>2. CASE ~(blockNo = 1 \/ full \/ last)
    <3>1. hdr = <<>> /\ bdy(u) = <<>> /\ trl = <<>> /\ uh = <<>> /\ ub(u) = <<>> /\ ut = <<>>
      BY <2>2
    <3>2. sections' = sections \o <<>> \o <<>> \o <<>> /\ written' = written \o (<<>> \o <<>> \o <<>>)
      <4> HIDE DEF hdr, bdy, trl, uh, ub, ut
      <4> QED BY <1>1, <3>1
    <3>3. sections \o <<>> = sections /\ written \o <<>> = written
      BY <1>7, ConcatEmptySeq DEF TypeOK
    <3>4. <<>> \o <<>> \o <<>> = <<>>
      OBVIOUS
    <3> QED BY <3>2, <3>3, <3>4
  <2> QED BY <2>1, <2>2
<1>12. HoldShort'
  <2>1. old \in Seq(Unit) /\ Len(old) <= Remainder
    <3>1. <<>> \in Seq(Unit) /\ Len(<<>>) = 0 /\ Remainder \in Nat
      BY RemainderFacts
    <3> QED BY <3>1 DEF TypeOK, HoldShort
  <2>2. w(v) \in 0..Word /\ (w(v) # 0 => w(v) + Word - 1 <= Remainder)
    BY RemainderFacts
  <2>3. w(v) = 0 /\ ~last => new = <<>>
    <3>1. w(v) = 0 => ~full /\ blockNo # 1
      BY RemainderFacts
    <3>2. w(v) = 0 /\ ~last => uh = <<>> /\ ub(u) = <<>> /\ ut = <<>>
      BY <3>1
    <3> HIDE DEF uh, ub, ut, w
    <3> QED BY <3>2
  <2>4. WriteUnits(zs, old \o new, last, w(v))
    BY <1>1
  <2> HIDE DEF zs, old, new, w
  <2>5. Len(hold') <= Remainder
    BY <1>4, <2>1, <2>2, <2>3, <2>4, WriteUnitsShort
  <2> QED BY <2>5 DEF HoldShort, Remainder
<1> QED BY <1>1, <1>8, <1>9, <1>11, <1>12

-----------------------------------------------------------------------------
(* The invariant of the refinement *)

(* A pending run enters the block and its CRC, and both grow. *)
LEMMA PairGrows ==
  ASSUME TypeOK, RunPending, inCh < NoCh, add_pair_to_block
  PROVE  block' # <<>> /\ blockCRC' # <<>>
<1>1. inCh \in Byte /\ inLen \in 1..MaxRun
  BY DEF TypeOK, RunPending, NoCh, Byte
<1>2. Run(inCh, inLen) \in Seq(Byte) /\ Len(Run(inCh, inLen)) = inLen
  BY <1>1, RunIsSeq
<1>3. blockCRC' = blockCRC \o Run(inCh, inLen) /\ blockCRC \in Seq(Byte)
  BY DEF add_pair_to_block, TypeOK
<1>4. Len(blockCRC') = Len(blockCRC) + inLen /\ Len(blockCRC) \in Nat
  BY <1>2, <1>3, ConcatProperties, LenProperties
<1>5. Len(block') > 0
  BY AddPairFacts, LenProperties DEF TypeOK, nblock
<1> QED BY <1>1, <1>4, <1>5

(* A byte leaves the block and its CRC alone, or both grow. *)
LEMMA AbsorbGrows ==
  ASSUME TypeOK, RunPending, NEW c \in Bytes, ADD_CHAR_TO_BLOCK(c)
  PROVE  \/ block' = block /\ blockCRC' = blockCRC
         \/ block' # <<>> /\ blockCRC' # <<>>
<1>1. CASE c # inCh /\ inLen = 1
  <2>1. block' = Append(block, inCh) /\ blockCRC' = Append(blockCRC, inCh)
    BY <1>1 DEF ADD_CHAR_TO_BLOCK
  <2>2. block \in Seq(Byte) /\ blockCRC \in Seq(Byte) /\ inCh \in Byte
    BY <1>1 DEF TypeOK, RunPending, NoCh, Byte
  <2> QED BY <2>1, <2>2, AppendProperties
<1>2. CASE ~(c # inCh /\ inLen = 1) /\ (c # inCh \/ inLen = MaxRun)
  <2>1. CASE inCh < NoCh
    BY <1>2, <2>1, PairGrows DEF ADD_CHAR_TO_BLOCK
  <2>2. CASE ~(inCh < NoCh)
    BY <1>2, <2>2 DEF ADD_CHAR_TO_BLOCK
  <2> QED BY <2>1, <2>2
<1>3. CASE c = inCh /\ inLen # MaxRun
  BY <1>3 DEF ADD_CHAR_TO_BLOCK
<1> QED BY <1>1, <1>2, <1>3

(* What a cut of the block is called with, and what it does to the run. *)
LEMMA CutCalls ==
  ASSUME TypeOK, open, RunPending, Buffers, BlockRoom, Numbering, CutRest \/ CutFull
  PROVE  /\ state = "INPUT" /\ state' = "OUTPUT"
         /\ block' \in Seq(Byte) /\ blockCRC' \in Seq(Byte)
         /\ CompressBlock(block', blockCRC', CutRest /\ mode = "FINISHING")
         /\ Covers => Covers'
         /\ CutRest => blockCRC' = Inside /\ InRun' = <<>> /\ expect = 0 /\ mode # "RUNNING"
         /\ CutFull => /\ blockCRC' = blockCRC /\ block' = block /\ InRun' = InRun
                       /\ block # <<>> /\ (mode = "RUNNING" \/ expect # 0) /\ ~CutRest
<1>1. state = "INPUT" /\ state' = "OUTPUT" /\ block' \in Seq(Byte) /\ blockCRC' \in Seq(Byte)
  BY CutFacts DEF CutRest, CutFull, StopAbsorbing
<1>2. CASE CutRest
  <2>1. inCh' = NoCh /\ inLen' = 0 /\ expect = 0 /\ mode # "RUNNING"
    BY <1>2 DEF CutRest, init_RL, MustCut
  <2>2. InRun' = <<>>
    BY <2>1 DEF InRun, Run
  <2>3. ~CutFull
    BY <1>2 DEF CutRest, CutFull
  <2>4. CASE inCh < NoCh
    <3>1. /\ add_pair_to_block
          /\ CompressBlock(block \o Pair(inCh, inLen), blockCRC \o Run(inCh, inLen),
                           mode = "FINISHING")
      BY <1>2, <2>4 DEF CutRest
    <3>2. CompressBlock(block', blockCRC', mode = "FINISHING") /\ blockCRC' = Inside
      BY <1>1, <3>1 DEF add_pair_to_block, Inside, InRun
    <3>3. block' # <<>> /\ blockCRC' # <<>>
      BY <2>4, <3>1, PairGrows
    <3>4. CompressBlock(block', blockCRC', CutRest /\ mode = "FINISHING")
      <4> DEFINE last == CutRest /\ mode = "FINISHING"
      <4>1. last = (mode = "FINISHING")
        BY <1>2
      <4> HIDE DEF last
      <4> QED BY <3>2, <4>1 DEF last
    <3> QED BY <1>1, <1>2, <2>1, <2>2, <2>3, <3>2, <3>3, <3>4 DEF Covers
  <2>5. CASE ~(inCh < NoCh)
    <3>1. /\ block' = block /\ blockCRC' = blockCRC
          /\ CompressBlock(block, blockCRC, mode = "FINISHING")
      BY <1>2, <2>5 DEF CutRest
    <3>2. InRun = <<>>
      <4>1. inLen = 0
        BY <2>5 DEF TypeOK, RunPending
      <4> QED BY <4>1 DEF InRun, Run
    <3>3. Inside = blockCRC
      BY <1>1, <3>2, ConcatEmptySeq DEF Inside, TypeOK
    <3>4. CompressBlock(block', blockCRC', CutRest /\ mode = "FINISHING")
      <4> DEFINE last == CutRest /\ mode = "FINISHING"
      <4>1. last = (mode = "FINISHING")
        BY <1>2
      <4> HIDE DEF last
      <4> QED BY <3>1, <4>1 DEF last
    <3> QED BY <1>1, <1>2, <2>1, <2>2, <2>3, <3>1, <3>3, <3>4 DEF Covers
  <2> QED BY <2>4, <2>5
<1>3. CASE CutFull
  <2>1. /\ UNCHANGED <<block, blockCRC, inCh, inLen>> /\ nblock >= NblockMax
        /\ CompressBlock(block, blockCRC, FALSE) /\ (mode = "RUNNING" \/ expect # 0)
    BY <1>3 DEF CutFull, rle, MustCut
  <2>2. ~CutRest
    BY <1>3 DEF CutRest, CutFull
  <2>3. InRun' = InRun
    BY <2>1 DEF InRun
  <2>4. block # <<>>
    BY <2>1 DEF nblock
  <2>5. CompressBlock(block', blockCRC', CutRest /\ mode = "FINISHING")
    <3> DEFINE last == CutRest /\ mode = "FINISHING"
    <3>1. last = FALSE
      BY <2>2
    <3> HIDE DEF last
    <3> QED BY <2>1, <3>1 DEF last
  <2> QED BY <1>1, <2>1, <2>2, <2>3, <2>4, <2>5 DEF Covers
<1> QED BY <1>2, <1>3

(* Every step keeps the block and its CRC together and bsBuff short. *)
LEMMA RefInvStep == IInv /\ RefInv /\ [Next]_vars => RefInv'
<1> SUFFICES ASSUME IInv, RefInv, [Next]_vars
             PROVE  RefInv'
  OBVIOUS
<1>0. TypeOK /\ RunPending /\ Buffers /\ BlockRoom /\ Numbering /\ Covers /\ HoldShort
  BY DEF IInv, RefInv
<1>u. ASSUME UNCHANGED <<block, blockCRC, hold>> PROVE RefInv'
  BY <1>0, <1>u DEF RefInv, Covers, HoldShort, Remainder
<1>e. ASSUME block' = <<>>, blockCRC' = <<>>, hold' = hold \/ Len(hold') \in {0, 1}
      PROVE  RefInv'
  <2>1. Remainder \in Nat /\ 1 <= Remainder
    BY RemainderFacts
  <2>2. Len(hold') <= Remainder
    <3>1. CASE hold' = hold
      BY <1>0, <3>1 DEF HoldShort
    <3>2. CASE Len(hold') \in {0, 1}
      <4> DEFINE n == Len(hold')
                 r == Remainder
      <4>1. n \in {0, 1} /\ r \in Nat /\ 1 <= r
        BY <2>1, <3>2
      <4> HIDE DEF n, r
      <4>2. n <= r
        BY <4>1
      <4> QED BY <4>2 DEF n, r
    <3> QED BY <1>e, <3>1, <3>2
  <2> QED BY <1>e, <2>2 DEF RefInv, Covers, HoldShort, Remainder
<1>1. CASE CompressInitOK
  BY <1>1, <1>e DEF CompressInitOK
<1>2. CASE CompressInitFails
  BY <1>2, <1>u DEF CompressInitFails, rle, coder
<1>3. CASE CompressEnd
  BY <1>3, <1>e DEF CompressEnd
<1>4. CASE NoState
  BY <1>4, <1>u DEF NoState, rle, coder
<1>5. CASE \E a \in Actions, n \in 0..MaxIn, m \in 0..MaxOut : Enter(a, n, m)
  BY <1>5, <1>u DEF Enter, rle, coder
<1>6. CASE \E a \in Actions, n \in 0..MaxIn, m \in 0..MaxOut : Refuse(a, n, m)
  BY <1>6, <1>u DEF Refuse, rle, coder
<1>7. CASE AbsorbByte
  <2>1. PICK c \in Bytes : ADD_CHAR_TO_BLOCK(c)
    BY <1>7 DEF AbsorbByte
  <2>2. hold' = hold
    BY <1>7 DEF AbsorbByte, coder
  <2>3. Covers'
    BY <1>0, <2>1, AbsorbGrows DEF Covers
  <2> QED BY <1>0, <2>2, <2>3 DEF RefInv, HoldShort, Remainder
<1>8. CASE CutRest \/ CutFull
  <2>1. open
    <3>1. pc = "loop"
      BY <1>8 DEF CutRest, CutFull, StopAbsorbing
    <3> QED BY <3>1 DEF IInv, Left
  <2> DEFINE last == CutRest /\ mode = "FINISHING"
  <2>2. /\ state = "INPUT" /\ block' \in Seq(Byte) /\ blockCRC' \in Seq(Byte)
        /\ CompressBlock(block', blockCRC', last) /\ Covers'
    BY <1>0, <1>8, <2>1, CutCalls
  <2>3. last \in BOOLEAN
    OBVIOUS
  <2> HIDE DEF last
  <2>4. HoldShort'
    BY <1>0, <2>1, <2>2, <2>3, CompressBlockShown
  <2> QED BY <2>2, <2>4 DEF RefInv
<1>10. CASE Starve
  BY <1>10, <1>u DEF Starve, rle, coder
<1>11. CASE OutputStops
  BY <1>11, <1>u DEF OutputStops, rle
<1>12. CASE OutputNextBlock
  BY <1>12, <1>e DEF OutputNextBlock, prepare_new_block
<1>13. CASE Return
  BY <1>13, <1>u DEF Return, rle, coder
<1>14. CASE UNCHANGED vars
  BY <1>14, <1>u DEF vars, rle, coder
<1> QED BY <1>1, <1>2, <1>3, <1>4, <1>5, <1>6, <1>7, <1>8, <1>10, <1>11, <1>12,
     <1>13, <1>14 DEF Next, Library, Caller

-----------------------------------------------------------------------------
(* What is produced and not delivered *)

(* The difference of what bsW wrote and what the caller has. *)
LeftFacts == /\ Undelivered \in Nat /\ Len(sent) \in Nat /\ Len(written) \in Nat
             /\ Undelivered = Len(written) - Len(sent)

(* The facts about what is left, of an open stream. *)
LEMMA LeftIs == IInv /\ open => LeftFacts
<1> SUFFICES ASSUME IInv, open PROVE LeftFacts
  OBVIOUS
<1>1. /\ sent \in Seq(Unit) /\ written \in Seq(Unit) /\ hold \in Seq(Unit)
      /\ sent \o Pending \o Unwritten = written
  BY DEF IInv, TypeOK, NoByteLost
<1>2. Pending \in Seq(Unit)
  <2>1. SubSeq(zbits, pos + 1, Len(zbits)) \in Seq(Unit)
    <3>1. pos \in 0..Len(zbits) /\ zbits \in Seq(Unit)
      BY LenProperties DEF IInv, TypeOK, Buffers, numZ
    <3> QED BY <3>1, CutInTwo
  <2> QED BY <2>1 DEF Pending, numZ
<1>3. Unwritten \in Seq(Unit)
  BY <1>1 DEF Unwritten
<1> DEFINE p == Pending
           u == Unwritten
           a == sent \o p
<1> HIDE DEF p, u
<1>4. a \in Seq(Unit) /\ Len(a) = Len(sent) + Len(p)
  BY <1>1, <1>2, ConcatProperties DEF p
<1> HIDE DEF a
<1>5. Len(written) = Len(a) + Len(u)
  <2>1. written = a \o u
    BY <1>1 DEF a, p, u
  <2> QED BY <1>3, <1>4, <2>1, ConcatProperties DEF u
<1>6. Len(sent) \in Nat /\ Len(p) \in Nat /\ Len(u) \in Nat /\ Len(written) \in Nat
  BY <1>1, <1>2, <1>3, LenProperties DEF p, u
<1> QED BY <1>4, <1>5, <1>6 DEF LeftFacts, Undelivered, p, u

(* The same of the state that a step leads to. *)
LEMMA LeftIsNext == IInv' /\ open' => LeftFacts'
BY LeftIs, PTL

-----------------------------------------------------------------------------
(* The bytes that are in no block yet *)

(* What is pending is a sequence of bytes. *)
LEMMA InsideIsSeq ==
  ASSUME TypeOK, RunPending
  PROVE  /\ InRun \in Seq(Byte) /\ Inside \in Seq(Byte)
         /\ isempty_RL => InRun = <<>>
<1>1. InRun \in Seq(Byte)
  <2>1. CASE inCh < NoCh
    <3>1. inCh \in Byte /\ inLen \in Nat
      BY <2>1 DEF TypeOK, NoCh, Byte
    <3> QED BY <3>1, RunIsSeq DEF InRun
  <2>2. CASE ~(inCh < NoCh)
    <3>1. inLen = 0
      BY <2>2 DEF TypeOK, RunPending
    <3> QED BY <3>1 DEF InRun, Run
  <2> QED BY <2>1, <2>2
<1>2. Inside \in Seq(Byte)
  <2>1. blockCRC \in Seq(Byte) /\ <<>> \in Seq(Byte)
    BY DEF TypeOK
  <2> QED BY <1>1, <2>1, ConcatProperties DEF Inside
<1>3. ASSUME isempty_RL PROVE InRun = <<>>
  <2>1. inLen = 0
    BY <1>3 DEF isempty_RL, TypeOK, RunPending
  <2> QED BY <2>1 DEF InRun, Run
<1> QED BY <1>1, <1>2, <1>3

(* A run of one, and a run that grows. *)
LEMMA RunGrows ==
  ASSUME NEW c \in Byte, NEW n \in Nat
  PROVE  /\ Run(c, 1) = <<c>>
         /\ Run(c, n + 1) = Run(c, n) \o <<c>>
<1>1. Run(c, 1) = <<c>>
  BY DEF Run
<1>2. /\ Run(c, n) \in Seq(Byte) /\ Len(Run(c, n)) = n
      /\ \A i \in 1..n : Run(c, n)[i] = c
  BY RunIsSeq DEF Run
<1>3. /\ Run(c, n + 1) \in Seq(Byte) /\ Len(Run(c, n + 1)) = n + 1
      /\ \A i \in 1..n + 1 : Run(c, n + 1)[i] = c
  <2>1. n + 1 \in Nat
    OBVIOUS
  <2> QED BY <2>1, RunIsSeq DEF Run
<1>4. <<c>> \in Seq(Byte) /\ Len(<<c>>) = 1 /\ <<c>>[1] = c
  OBVIOUS
<1> DEFINE r == Run(c, n)
           q == r \o <<c>>
<1> HIDE DEF r
<1>5. /\ q \in Seq(Byte) /\ Len(q) = n + 1
      /\ \A i \in 1..n + 1 : q[i] = c
  BY <1>2, <1>4, ConcatProperties DEF r
<1> HIDE DEF q
<1>6. Run(c, n + 1) = q
  BY <1>3, <1>5, SeqEqual
<1> QED BY <1>1, <1>6 DEF q, r

(* A byte absorbed is behind those that were: in the run, or in a new run  *)
(* while the old one goes to the CRC of the block.                         *)
LEMMA AbsorbAppends ==
  ASSUME TypeOK, RunPending, state = "INPUT", NEW c \in Bytes, ADD_CHAR_TO_BLOCK(c),
         state' = state
  PROVE  Inside' = Append(Inside, c)
<1>1. /\ blockCRC \in Seq(Byte) /\ c \in Byte /\ InRun \in Seq(Byte) /\ Inside \in Seq(Byte)
      /\ <<c>> \in Seq(Byte) /\ inLen \in Nat /\ Inside = blockCRC \o InRun
  BY InsideIsSeq DEF TypeOK, Byte, Inside
<1>2. Inside' = blockCRC' \o Run(inCh', inLen')
  BY DEF Inside, InRun
<1>3. Append(Inside, c) = (blockCRC \o InRun) \o <<c>>
  BY <1>1, AppendIsConcat
<1>4. CASE c # inCh /\ inLen = 1
  <2>1. inCh \in Byte
    BY <1>4 DEF TypeOK, RunPending, NoCh, Byte
  <2>2. blockCRC' = Append(blockCRC, inCh) /\ inCh' = c /\ inLen' = 1
    BY <1>4 DEF ADD_CHAR_TO_BLOCK
  <2>3. Append(blockCRC, inCh) = blockCRC \o <<inCh>>
    BY <1>1, <2>1, AppendIsConcat
  <2>4. InRun = <<inCh>> /\ Run(inCh', inLen') = <<c>>
    BY <1>1, <1>4, <2>1, <2>2, RunGrows DEF InRun
  <2> QED BY <1>2, <1>3, <2>2, <2>3, <2>4
<1>5. CASE ~(c # inCh /\ inLen = 1) /\ (c # inCh \/ inLen = MaxRun)
  <2>1. inCh' = c /\ inLen' = 1
    BY <1>5 DEF ADD_CHAR_TO_BLOCK
  <2>2. Run(inCh', inLen') = <<c>>
    BY <1>1, <2>1, RunGrows
  <2>3. blockCRC' = blockCRC \o InRun
    <3>1. CASE inCh < NoCh
      BY <1>5, <3>1 DEF ADD_CHAR_TO_BLOCK, add_pair_to_block, InRun
    <3>2. CASE ~(inCh < NoCh)
      <4>1. blockCRC' = blockCRC /\ InRun = <<>>
        BY <1>5, <3>2, InsideIsSeq DEF ADD_CHAR_TO_BLOCK, isempty_RL
      <4> QED BY <1>1, <4>1, ConcatEmptySeq
    <3> QED BY <3>1, <3>2
  <2> QED BY <1>2, <1>3, <2>2, <2>3
<1>6. CASE c = inCh /\ inLen # MaxRun
  <2>1. blockCRC' = blockCRC /\ inCh' = c /\ inLen' = inLen + 1
    BY <1>6 DEF ADD_CHAR_TO_BLOCK
  <2>2. Run(inCh', inLen') = InRun \o <<c>>
    BY <1>1, <1>6, <2>1, RunGrows DEF InRun
  <2>3. blockCRC \o (InRun \o <<c>>) = (blockCRC \o InRun) \o <<c>>
    BY <1>1, Associative
  <2> QED BY <1>2, <1>3, <2>1, <2>2, <2>3
<1> QED BY <1>4, <1>5, <1>6

(* A prefix and what is behind it. *)
LEMMA CutBehind ==
  ASSUME NEW S, NEW s \in Seq(S), NEW t \in Seq(S)
  PROVE  /\ Len(s) \in 0..Len(s \o t)
         /\ SubSeq(s \o t, 1, Len(s)) = s
         /\ SubSeq(s \o t, Len(s) + 1, Len(s \o t)) = t
<1> DEFINE a == s \o t
           p == SubSeq(a, 1, Len(s))
           q == SubSeq(a, Len(s) + 1, Len(a))
<1>1. /\ a \in Seq(S) /\ Len(a) = Len(s) + Len(t) /\ Len(s) \in Nat /\ Len(t) \in Nat
      /\ \A i \in 1..Len(s) + Len(t) : a[i] = IF i <= Len(s) THEN s[i] ELSE t[i - Len(s)]
  BY ConcatProperties, LenProperties
<1> HIDE DEF a
<1>2. Len(s) \in 0..Len(a)
  BY <1>1
<1>3. \A i \in 1..Len(a) : a[i] \in S
  BY <1>1, ElementOfSeq
<1>4. p = s
  <2>1. p \in Seq(S) /\ Len(p) = Len(s) /\ \A i \in 1..Len(s) : p[i] = a[i]
    BY <1>1, <1>2, <1>3, SubSeqProperties
  <2>2. \A i \in 1..Len(s) : p[i] = s[i]
    BY <1>1, <2>1
  <2> HIDE DEF p
  <2> QED BY <2>1, <2>2, SeqEqual
<1>5. q = t
  <2>0. \A i \in Len(s) + 1..Len(a) : a[i] \in S
    BY <1>1, <1>3
  <2>1. q \in Seq(S) /\ Len(q) = Len(t) /\ \A i \in 1..Len(t) : q[i] = a[Len(s) + i]
    <3> DEFINE m == Len(s) + 1
               n == Len(a)
    <3>1. m \in Int /\ n \in Int /\ n - m + 1 = Len(t) /\ (m <= n <=> Len(t) # 0)
          /\ \A i \in m..n : a[i] \in S
      BY <1>1, <2>0
    <3> HIDE DEF m, n
    <3>2. /\ SubSeq(a, m, n) \in Seq(S)
          /\ Len(SubSeq(a, m, n)) = IF m <= n THEN n - m + 1 ELSE 0
          /\ \A i \in 1..n - m + 1 : SubSeq(a, m, n)[i] = a[m + i - 1]
      BY <3>1, SubSeqProperties
    <3>3. \A i \in 1..Len(t) : m + i - 1 = Len(s) + i
      BY <1>1 DEF m
    <3>4. q = SubSeq(a, m, n)
      BY DEF m, n
    <3> HIDE DEF q
    <3> QED BY <3>1, <3>2, <3>3, <3>4
  <2>2. ASSUME NEW i \in 1..Len(t) PROVE q[i] = t[i]
    <3> DEFINE k == Len(s) + i
    <3>1. k \in 1..Len(s) + Len(t) /\ ~(k <= Len(s)) /\ k - Len(s) = i
      BY <1>1
    <3>2. q[i] = a[k]
      BY <2>1
    <3> HIDE DEF k, q
    <3> QED BY <1>1, <3>1, <3>2
  <2> HIDE DEF q
  <2> QED BY <2>1, <2>2, SeqEqual
<1> QED BY <1>2, <1>4, <1>5 DEF a

-----------------------------------------------------------------------------
(* Each step is a step of the abstract stream *)

(* The phase of an open stream. *)
LEMMA PhaseIs ==
  /\ ~open => phase = "closed"
  /\ open /\ mode = "RUNNING" => phase = "running"
  /\ open /\ mode = "FLUSHING" => phase = "flushing"
  /\ open /\ mode = "FINISHING" => phase = "finishing"
  /\ open /\ mode = "IDLE" => phase = "ended"
BY DEF phase

(* The same of the state that a step leads to. *)
LEMMA PhaseIsNext ==
  /\ ~open' => phase' = "closed"
  /\ open' /\ mode' = "RUNNING" => phase' = "running"
  /\ open' /\ mode' = "FLUSHING" => phase' = "flushing"
  /\ open' /\ mode' = "FINISHING" => phase' = "finishing"
  /\ open' /\ mode' = "IDLE" => phase' = "ended"
BY DEF phase

(* A stream that is new or gone has accepted and produced nothing. *)
LEMMA FreshStream ==
  ASSUME mode' \in {"RUNNING", "IDLE"}, state' = "INPUT", inLen' = 0, blockCRC' = <<>>,
         combinedCRC' = <<>>, sections' = <<>>, zbits' = <<>>, pos' = 0
  PROVE  CS!Fresh'
<1>1. Owed' = 0
  BY DEF Owed
<1>2. Inside' = <<>>
  <2>1. InRun' = <<>>
    BY DEF InRun, Run
  <2> QED BY <2>1 DEF Inside
<1>3. Shown(sections') = <<>>
  BY ShownOne
<1>4. Undelivered' = 0
  <2>1. Pending' = <<>> /\ Unwritten' = <<>>
    BY DEF Pending, numZ, Unwritten
  <2> QED BY <2>1 DEF Undelivered
<1> QED BY <1>1, <1>2, <1>3, <1>4 DEF CS!Fresh

(* At first no stream is open. *)
LEMMA RefinesInit == Init => CS!Init
<1> SUFFICES ASSUME Init PROVE CS!Init
  OBVIOUS
<1>1. phase = "closed"
  BY PhaseIs DEF Init
<1>2. Owed = 0
  BY DEF Init, Owed
<1>3. Inside = <<>>
  <2>1. InRun = <<>>
    BY DEF Init, InRun, Run
  <2> QED BY <2>1 DEF Init, Inside
<1>4. Shown(sections) = <<>> /\ combinedCRC = <<>>
  BY ShownOne DEF Init
<1>5. Undelivered = 0
  <2>1. Pending = <<>> /\ Unwritten = <<>>
    BY DEF Init, Pending, numZ, Unwritten
  <2> QED BY <2>1 DEF Undelivered
<1> QED BY <1>1, <1>2, <1>3, <1>4, <1>5 DEF CS!Init, CS!Fresh

(* Opening a stream. *)
LEMMA OpenStep == CompressInitOK => CS!Open
<1> SUFFICES ASSUME CompressInitOK PROVE CS!Open
  OBVIOUS
<1>1. phase = "closed" /\ phase' = "running"
  BY PhaseIs, PhaseIsNext DEF CompressInitOK
<1>2. CS!Fresh'
  BY FreshStream DEF CompressInitOK, init_RL
<1> QED BY <1>1, <1>2 DEF CS!Open

(* Closing it. *)
LEMMA CloseStep == TypeOK /\ CompressEnd => CS!Close
<1> SUFFICES ASSUME TypeOK, CompressEnd PROVE CS!Close
  OBVIOUS
<1>1. phase # "closed" /\ phase' = "closed"
  <2>1. open /\ ~open' /\ mode \in {"IDLE", "RUNNING", "FLUSHING", "FINISHING"}
    BY DEF CompressEnd, TypeOK, Modes
  <2> QED BY <2>1, PhaseIs, PhaseIsNext
<1>2. CS!Fresh'
  BY FreshStream DEF CompressEnd
<1> QED BY <1>1, <1>2 DEF CS!Close

(* What leaves the coder alone leaves the data of the stream alone. *)
LEMMA DataStays ==
  ASSUME UNCHANGED <<state, inCh, inLen, blockCRC, combinedCRC, zbits, pos, hold, sections>>
  PROVE  UNCHANGED <<Inside, combinedCRC, Shown(sections), Undelivered>>
<1>1. Inside' = Inside
  BY DEF Inside, InRun
<1>2. Shown(sections)' = Shown(sections)
  BY DEF Shown
<1>3. Undelivered' = Undelivered
  BY DEF Undelivered, Pending, Unwritten, numZ
<1> QED BY <1>1, <1>2, <1>3

(* So does the stream as a whole, when the mode and the promise stay. *)
LEMMA StreamStays ==
  ASSUME UNCHANGED <<open, mode, expect, state, inCh, inLen, blockCRC, combinedCRC,
                     zbits, pos, hold, sections>>
  PROVE  UNCHANGED CS!vars
<1>1. phase' = phase /\ Owed' = Owed
  BY DEF phase, Owed
<1> QED BY <1>1, DataStays DEF CS!vars

(* A call that starts a flush or a finish asks for it, another changes     *)
(* nothing yet.                                                            *)
LEMMA EnterStep ==
  ASSUME IInv, NEW a \in Actions, NEW n \in 0..MaxIn, NEW m \in 0..MaxOut, Enter(a, n, m)
  PROVE  CS!Ask \/ UNCHANGED CS!vars
<1>1. /\ UNCHANGED <<open, state, inCh, inLen, blockCRC, combinedCRC, zbits, pos, hold, sections>>
      /\ open /\ n \in Nat
  BY DEF Enter, rle, coder, hist
<1>2. CASE EnterStart(a, n)
  <2>1. /\ mode = "RUNNING" /\ mode' \in {"FLUSHING", "FINISHING"} /\ expect' = n
    BY <1>2 DEF EnterStart, StartMode
  <2>2. phase = "running" /\ phase' \in {"flushing", "finishing"}
    BY <1>1, <2>1, PhaseIs, PhaseIsNext
  <2>3. Owed' \in Nat
    BY <1>1, <2>1 DEF Owed
  <2> QED BY <1>1, <2>2, <2>3, DataStays DEF CS!Ask
<1>3. CASE EnterRun(a) \/ EnterAgain(a, n)
  <2>1. UNCHANGED <<mode, expect>>
    BY <1>3 DEF EnterRun, EnterAgain
  <2> QED BY <1>1, <2>1, StreamStays
<1> QED BY <1>2, <1>3 DEF Enter

(* A byte absorbed is a byte accepted. *)
LEMMA AcceptStep == IInv /\ AbsorbByte => CS!Accept
<1> SUFFICES ASSUME IInv, AbsorbByte PROVE CS!Accept
  OBVIOUS
<1>1. /\ TypeOK /\ RunPending /\ open /\ mode # "IDLE" /\ mode \in Modes /\ expect \in Nat
      /\ state = "INPUT"
  BY DEF IInv, AbsorbByte, Left, TypeOK
<1>2. /\ UNCHANGED <<open, mode, state, combinedCRC, zbits, pos, hold, sections>>
      /\ mode = "RUNNING" \/ expect > 0
      /\ expect' = IF mode = "RUNNING" THEN expect ELSE expect - 1
  BY DEF AbsorbByte, coder, CanAbsorb
<1>3. PICK c \in Bytes : ADD_CHAR_TO_BLOCK(c)
  BY DEF AbsorbByte
<1>4. Inside' = Append(Inside, c)
  BY <1>1, <1>2, <1>3, AbsorbAppends
<1>5. phase' = phase
  BY <1>2 DEF phase
<1>6. UNCHANGED <<combinedCRC, Shown(sections), Undelivered>>
  BY <1>2 DEF Shown, Undelivered, Pending, Unwritten, numZ
<1>7. \/ phase = "running" /\ UNCHANGED Owed
      \/ phase \in {"flushing", "finishing"} /\ Owed > 0 /\ Owed' = Owed - 1
  <2>1. CASE mode = "RUNNING"
    BY <1>1, <1>2, <2>1, PhaseIs DEF Owed
  <2>2. CASE mode # "RUNNING"
    <3>1. mode \in {"FLUSHING", "FINISHING"}
      BY <1>1, <2>2 DEF Modes
    <3>2. phase \in {"flushing", "finishing"}
      BY <1>1, <3>1, PhaseIs
    <3>3. Owed = expect /\ Owed' = expect'
      BY <1>2, <3>1 DEF Owed
    <3> QED BY <1>2, <2>2, <3>2, <3>3
  <2> QED BY <2>1, <2>2
<1> QED BY <1>4, <1>5, <1>6, <1>7 DEF CS!Accept

(* The first bytes of Inside become the block, the rest stays. *)
LEMMA CutInside ==
  ASSUME TypeOK, open, RunPending, Buffers, BlockRoom, Numbering, CutRest \/ CutFull
  PROVE  \E k \in 0..Len(Inside) :
           /\ SubSeq(Inside, 1, k) = blockCRC'
           /\ SubSeq(Inside, k + 1, Len(Inside)) = Inside'
           /\ CutRest => k = Len(Inside)
<1>1. /\ state = "INPUT" /\ state' = "OUTPUT"
      /\ CutRest => blockCRC' = Inside /\ InRun' = <<>>
      /\ CutFull => blockCRC' = blockCRC /\ InRun' = InRun /\ ~CutRest
  BY CutCalls
<1>2. /\ InRun \in Seq(Byte) /\ Inside \in Seq(Byte) /\ blockCRC \in Seq(Byte)
      /\ Inside = blockCRC \o InRun
  BY <1>1, InsideIsSeq DEF TypeOK, Inside
<1>3. Inside' = <<>> \o InRun'
  BY <1>1 DEF Inside
<1>4. CASE CutRest
  <2>1. Inside' = <<>>
    BY <1>1, <1>3, <1>4
  <2>2. Len(Inside) \in Nat /\ SubSeq(Inside, 1, Len(Inside)) = Inside
    BY <1>2, LenProperties, SubSeqFull
  <2>3. SubSeq(Inside, Len(Inside) + 1, Len(Inside)) = <<>>
    BY <2>2, SubSeqEmpty
  <2>4. Len(Inside) \in 0..Len(Inside)
    BY <2>2
  <2> QED BY <1>1, <1>4, <2>1, <2>2, <2>3, <2>4
<1>5. CASE CutFull
  <2>1. Inside' = InRun
    BY <1>1, <1>2, <1>3, <1>5, ConcatEmptySeq
  <2>2. /\ Len(blockCRC) \in 0..Len(Inside) /\ SubSeq(Inside, 1, Len(blockCRC)) = blockCRC
        /\ SubSeq(Inside, Len(blockCRC) + 1, Len(Inside)) = InRun
    BY <1>2, CutBehind
  <2> QED BY <1>1, <1>5, <2>1, <2>2
<1> QED BY <1>4, <1>5

(* Once the trailer is shown it is written. *)
LEMMA SealedIs ==
  ASSUME TypeOK
  PROVE  CS!Sealed <=> TrailerWritten
<1>1. /\ sections \in Seq(SectionType) /\ Len(Shown(sections)) = Len(sections)
      /\ Shown(sections) \in Seq(ShownType)
      /\ \A i \in 1..Len(sections) : Shown(sections)[i] = One(sections[i])
  BY ShownFacts DEF TypeOK
<1>2. Shown(sections) = <<>> <=> sections = <<>>
  <2> DEFINE t == Shown(sections)
  <2>1. t \in Seq(ShownType) /\ Len(t) = Len(sections)
    BY <1>1
  <2> HIDE DEF t
  <2>2. t = <<>> <=> sections = <<>>
    BY <1>1, <2>1
  <2> QED BY <2>2 DEF t
<1>3. sections # <<>> => Len(sections) \in 1..Len(sections)
  BY <1>1
<1>4. ASSUME sections # <<>>
      PROVE  Shown(sections)[Len(Shown(sections))].kind = sections[Len(sections)].kind
  <2> DEFINE n == Len(sections)
  <2>1. n \in 1..n /\ Len(Shown(sections)) = n
    BY <1>1, <1>3, <1>4
  <2>2. \A i \in 1..n : Shown(sections)[i] = One(sections[i])
    BY <1>1
  <2> HIDE DEF n
  <2>3. Shown(sections)[n] = One(sections[n])
    BY <2>1, <2>2
  <2>4. Shown(sections)[n].kind = sections[n].kind
    BY <2>3 DEF One
  <2> QED BY <2>1, <2>4 DEF n
<1> QED BY <1>2, <1>4 DEF CS!Sealed, TrailerWritten

(* A block cut is a block of the abstract stream. *)
LEMMA CutStep == IInv /\ RefInv /\ IInv' /\ (CutRest \/ CutFull) => CS!Cut
<1> SUFFICES ASSUME IInv, RefInv, IInv', CutRest \/ CutFull PROVE CS!Cut
  OBVIOUS
<1>1. /\ TypeOK /\ RunPending /\ Buffers /\ BlockRoom /\ Numbering /\ Covers /\ HoldShort
      /\ TrailerLast /\ Left /\ mode \in Modes
  BY DEF IInv, RefInv, TypeOK
<1>2. /\ UNCHANGED <<open, mode, expect, sent>> /\ pc = "loop"
  BY DEF CutRest, CutFull, StopAbsorbing
<1>3. open /\ mode # "IDLE"
  BY <1>1, <1>2 DEF Left
<1> DEFINE last == CutRest /\ mode = "FINISHING"
<1>4. /\ state = "INPUT" /\ block' \in Seq(Byte) /\ blockCRC' \in Seq(Byte)
      /\ CompressBlock(block', blockCRC', last) /\ Covers'
      /\ CutRest => expect = 0 /\ mode # "RUNNING"
      /\ CutFull => (mode = "RUNNING" \/ expect # 0) /\ ~CutRest
  BY <1>1, <1>3, CutCalls
<1>5. last \in BOOLEAN
  OBVIOUS
<1>6. PICK k \in 0..Len(Inside) :
        /\ SubSeq(Inside, 1, k) = blockCRC'
        /\ SubSeq(Inside, k + 1, Len(Inside)) = Inside'
        /\ CutRest => k = Len(Inside)
  BY <1>1, <1>3, CutInside
<1>7. phase \in {"running", "flushing", "finishing"} /\ (phase = "finishing" <=> mode = "FINISHING")
      /\ UNCHANGED <<phase, Owed>>
  <2>1. mode \in {"RUNNING", "FLUSHING", "FINISHING"}
    BY <1>1, <1>3 DEF Modes
  <2>2. UNCHANGED <<phase, Owed>>
    BY <1>2 DEF phase, Owed
  <2> QED BY <1>3, <2>1, <2>2, PhaseIs
<1>8. last <=> phase = "finishing" /\ Owed = 0 /\ k = Len(Inside)
  <2>1. mode = "FINISHING" => Owed = expect
    BY DEF Owed
  <2> QED BY <1>4, <1>6, <1>7, <2>1
<1> HIDE DEF last
<1>9. /\ combinedCRC' = IF block' # <<>> THEN Append(combinedCRC, blockCRC') ELSE combinedCRC
      /\ Shown(sections') =
           Shown(sections)
           \o (IF sections = <<>> THEN <<[kind |-> "header", crc |-> <<>>]>> ELSE <<>>)
           \o (IF block' # <<>> THEN <<[kind |-> "block", crc |-> <<blockCRC'>>]>> ELSE <<>>)
           \o (IF last THEN <<[kind |-> "trailer", crc |-> combinedCRC']>> ELSE <<>>)
      /\ \/ sections' = sections /\ written' = written
         \/ Len(sections') > Len(sections) /\ Len(written') > Len(written)
  BY <1>1, <1>3, <1>4, <1>5, CompressBlockShown
<1>10. block' # <<>> <=> blockCRC' # <<>>
  BY <1>4 DEF Covers
<1>11. Shown(sections) = <<>> <=> sections = <<>>
  <2> DEFINE t == Shown(sections)
  <2>1. t \in Seq(ShownType) /\ Len(t) = Len(sections) /\ sections \in Seq(SectionType)
    BY <1>1, ShownFacts DEF TypeOK
  <2> HIDE DEF t
  <2>2. t = <<>> <=> sections = <<>>
    BY <2>1
  <2> QED BY <2>2 DEF t
<1>12. ~CS!Sealed
  <2>1. ~TrailerWritten
    BY <1>1, <1>4 DEF TrailerLast
  <2> QED BY <1>1, <2>1, SealedIs
<1>13. IF Shown(sections') = Shown(sections) THEN Undelivered' = Undelivered
                                             ELSE Undelivered' > Undelivered
  <2>1. LeftFacts /\ LeftFacts'
    BY <1>2, <1>3, LeftIs, LeftIsNext
  <2> DEFINE x == Undelivered
             y == Undelivered'
             l == Len(sent)
             w == Len(written)
             v == Len(written')
  <2>2. /\ x \in Nat /\ y \in Nat /\ l \in Nat /\ w \in Nat /\ v \in Nat
        /\ x = w - l /\ y = v - l
    BY <1>2, <2>1 DEF LeftFacts
  <2>3. CASE sections' = sections /\ written' = written
    <3>1. x = y
      <4>1. w = v
        BY <2>3
      <4> HIDE DEF x, y, w, v, l
      <4> QED BY <2>2, <4>1
    <3> QED BY <2>3, <3>1
  <2>4. CASE Len(sections') > Len(sections) /\ Len(written') > Len(written)
    <3>1. y > x
      <4>1. v > w
        BY <2>4
      <4> HIDE DEF x, y, w, v, l
      <4> QED BY <2>2, <4>1
    <3>2. Shown(sections') # Shown(sections)
      <4>1. Len(Shown(sections)) = Len(sections) /\ Len(Shown(sections')) = Len(sections')
        BY <1>1, ShownFacts DEF IInv, TypeOK
      <4>2. Len(sections) \in Nat
        BY <1>1, LenProperties DEF TypeOK
      <4> HIDE DEF Shown
      <4> QED BY <2>4, <4>1, <4>2
    <3> QED BY <3>1, <3>2
  <2> QED BY <1>9, <2>3, <2>4
<1> DEFINE data == SubSeq(Inside, 1, k)
           done == phase = "finishing" /\ Owed = 0 /\ k = Len(Inside)
<1>14. combinedCRC' = IF data # <<>> THEN Append(combinedCRC, data) ELSE combinedCRC
  BY <1>6, <1>9, <1>10
<1>15. Shown(sections') = Shown(sections) \o CS!Header \o CS!Block(data)
                         \o CS!Trailer(done, combinedCRC')
  <2>1. CS!Header = IF sections = <<>> THEN <<[kind |-> "header", crc |-> <<>>]>> ELSE <<>>
    BY <1>11 DEF CS!Header
  <2>2. CS!Block(data) = IF block' # <<>> THEN <<[kind |-> "block", crc |-> <<blockCRC'>>]>> ELSE <<>>
    BY <1>6, <1>10 DEF CS!Block
  <2>3. CS!Trailer(done, combinedCRC') =
          IF last THEN <<[kind |-> "trailer", crc |-> combinedCRC']>> ELSE <<>>
    BY <1>8 DEF CS!Trailer
  <2> HIDE DEF data, done
  <2> QED BY <1>9, <2>1, <2>2, <2>3
<1>16. /\ Inside' = SubSeq(Inside, k + 1, Len(Inside))
       /\ combinedCRC' = IF data # <<>> THEN Append(combinedCRC, data) ELSE combinedCRC
       /\ Shown(sections)' = Shown(sections) \o CS!Header \o CS!Block(data)
                             \o CS!Trailer(done, combinedCRC')
  BY <1>6, <1>14, <1>15 DEF Shown
<1>17. IF Shown(sections)' = Shown(sections) THEN Undelivered' = Undelivered
                                             ELSE Undelivered' > Undelivered
  BY <1>13 DEF Shown
<1> QED BY <1>7, <1>12, <1>16, <1>17 DEF CS!Cut

(* What is copied out is delivered. *)
LEMMA DeliverStep ==
  IInv /\ IInv' /\ (OutputStops \/ OutputNextBlock) => CS!Deliver \/ UNCHANGED CS!vars
<1> SUFFICES ASSUME IInv, IInv', OutputStops \/ OutputNextBlock
             PROVE  CS!Deliver \/ UNCHANGED CS!vars
  OBVIOUS
<1>1. /\ TypeOK /\ RunPending /\ Buffers /\ Left
  BY DEF IInv
<1>2. /\ UNCHANGED <<open, mode, expect, inCh, inLen, combinedCRC, sections, written>>
      /\ CopyOutput /\ pc = "loop" /\ state = "OUTPUT"
  BY DEF OutputStops, OutputNextBlock, rle
<1>3. open
  BY <1>1, <1>2 DEF Left
<1>4. UNCHANGED <<phase, Owed, combinedCRC, Shown(sections)>>
  BY <1>2 DEF phase, Owed, Shown
<1>5. Inside' = Inside
  <2>1. Inside = <<>> \o InRun /\ InRun' = InRun
    BY <1>2 DEF Inside, InRun
  <2>2. CASE OutputStops
    <3>1. state' = "OUTPUT"
      BY <1>2, <2>2 DEF OutputStops
    <3> QED BY <2>1, <3>1 DEF Inside
  <2>3. CASE OutputNextBlock
    <3>1. blockCRC' = <<>>
      BY <2>3 DEF OutputNextBlock, prepare_new_block
    <3> QED BY <2>1, <3>1 DEF Inside
  <2> QED BY <2>2, <2>3
<1>6. /\ Undelivered \in Nat /\ Undelivered' \in Nat /\ CopyLen \in Nat
      /\ Undelivered' = Undelivered - CopyLen
  <2>1. LeftFacts /\ LeftFacts'
    BY <1>2, <1>3, LeftIs, LeftIsNext
  <2>2. Len(sent') = Len(sent) + CopyLen /\ CopyLen \in Nat
    BY <1>1, <1>2, CopySends, CopyRange
  <2> DEFINE x == Undelivered
             y == Undelivered'
             l == Len(sent)
             m == Len(sent')
             w == Len(written)
             n == CopyLen
  <2>3. /\ x \in Nat /\ y \in Nat /\ l \in Nat /\ w \in Nat /\ m \in Nat /\ n \in Nat
        /\ x = w - l /\ y = w - m /\ m = l + n
    BY <1>2, <2>1, <2>2 DEF LeftFacts
  <2> HIDE DEF x, y, l, m, w, n
  <2>4. y = x - n
    BY <2>3
  <2> QED BY <2>3, <2>4 DEF x, y, n
<1>7. CASE CopyLen = 0
  <2>1. Undelivered' = Undelivered
    BY <1>6, <1>7
  <2> QED BY <1>4, <1>5, <2>1 DEF CS!vars
<1>8. CASE CopyLen # 0
  <2>1. Undelivered > 0 /\ Undelivered' \in 0 .. Undelivered - 1
    BY <1>6, <1>8
  <2> QED BY <1>4, <1>5, <2>1 DEF CS!Deliver
<1> QED BY <1>7, <1>8

(* A flush is over when its input is in blocks and all but the remainder   *)
(* is delivered.                                                           *)
LEMMA FlushOverStep ==
  ASSUME IInv, RefInv, Return, mode = "FLUSHING", mode' # mode
  PROVE  CS!FlushOver
<1>1. /\ TypeOK /\ RunPending /\ Buffers /\ Left /\ Covers /\ HoldShort
  BY DEF IInv, RefInv
<1>2. /\ UNCHANGED <<open, expect, state, inCh, inLen, blockCRC, combinedCRC, zbits, pos, hold,
                     sections>>
      /\ pc = "ret" /\ mode' = "RUNNING" /\ ~Unfinished
  BY DEF Return, rle, coder, hist
<1>3. open /\ expect = 0 /\ isempty_RL /\ ~(pos < numZ)
  BY <1>1, <1>2 DEF Left, Unfinished, TypeOK
<1>4. state = "INPUT" /\ block = <<>>
  BY <1>1, <1>2, <1>3 DEF Left, TypeOK
<1>5. phase = "flushing" /\ phase' = "running"
  BY <1>2, <1>3, PhaseIs, PhaseIsNext
<1>6. Owed = 0 /\ Owed' = 0
  BY <1>2, <1>3 DEF Owed
<1>7. Inside = <<>>
  <2>1. blockCRC = <<>> /\ InRun = <<>>
    BY <1>1, <1>3, <1>4, InsideIsSeq DEF Covers
  <2> QED BY <2>1 DEF Inside
<1>8. Undelivered <= Remainder
  <2>1. Pending = <<>>
    <3>1. zbits = <<>> /\ pos = 0
      BY <1>1, <1>4 DEF Buffers
    <3> QED BY <3>1 DEF Pending, numZ
  <2>2. Undelivered = Len(Unwritten)
    <3>1. Len(Unwritten) \in Nat /\ Len(Pending) = 0
      BY <1>1, <2>1, LenProperties DEF Unwritten, TypeOK
    <3> QED BY <3>1 DEF Undelivered
  <2>3. CASE sections = <<>>
    <3>1. Unwritten = <<>>
      BY <2>3 DEF Unwritten
    <3> QED BY <2>2, <3>1, RemainderFacts
  <2>4. CASE sections # <<>>
    <3>1. Unwritten = hold
      BY <2>4 DEF Unwritten
    <3> QED BY <1>1, <2>2, <3>1 DEF HoldShort
  <2> QED BY <2>3, <2>4
<1>9. UNCHANGED <<Inside, combinedCRC, Shown(sections), Undelivered>>
  BY <1>2, DataStays
<1> QED BY <1>5, <1>6, <1>7, <1>8, <1>9 DEF CS!FlushOver

(* The stream is finished when its trailer is delivered. *)
LEMMA FinishedStep ==
  ASSUME IInv, Return, mode = "FINISHING", mode' # mode
  PROVE  CS!Finished
<1>1. /\ TypeOK /\ RunPending /\ Buffers /\ Left /\ TrailerLast
  BY DEF IInv
<1>2. /\ UNCHANGED <<open, expect, state, inCh, inLen, blockCRC, combinedCRC, zbits, pos, hold,
                     sections>>
      /\ pc = "ret" /\ mode' = "IDLE" /\ ~Unfinished
  BY DEF Return, rle, coder, hist
<1>3. open /\ expect = 0 /\ isempty_RL /\ ~(pos < numZ)
  BY <1>1, <1>2 DEF Left, Unfinished, TypeOK
<1>4. state = "OUTPUT"
  BY <1>1, <1>2, <1>3 DEF Left, TypeOK
<1>5. TrailerWritten /\ hold = <<>>
  BY <1>1, <1>3, <1>4 DEF TrailerLast, AllDone
<1>6. phase = "finishing" /\ phase' = "ended"
  BY <1>2, <1>3, PhaseIs, PhaseIsNext
<1>7. Owed = 0 /\ Owed' = 0
  BY <1>2, <1>3 DEF Owed
<1>8. CS!Sealed
  BY <1>1, <1>5, SealedIs
<1>9. Undelivered = 0
  <2>1. pos \in Nat /\ numZ \in Nat /\ ~(pos < numZ)
    BY <1>1, <1>3, LenProperties DEF TypeOK, numZ
  <2>2. Pending = <<>>
    <3>1. numZ < pos + 1
      BY <2>1
    <3> QED BY <2>1, <3>1, SubSeqEmpty DEF Pending
  <2>3. Unwritten = <<>>
    BY <1>5 DEF Unwritten
  <2> QED BY <2>2, <2>3 DEF Undelivered
<1>10. UNCHANGED <<Inside, combinedCRC, Shown(sections), Undelivered>>
  BY <1>2, DataStays
<1> QED BY <1>6, <1>7, <1>8, <1>9, <1>10 DEF CS!Finished

(* A call that returns ends a flush, ends the stream, or changes nothing. *)
LEMMA ReturnStep ==
  IInv /\ RefInv /\ Return => CS!FlushOver \/ CS!Finished \/ UNCHANGED CS!vars
<1> SUFFICES ASSUME IInv, RefInv, Return
             PROVE  CS!FlushOver \/ CS!Finished \/ UNCHANGED CS!vars
  OBVIOUS
<1>1. CASE mode' = mode
  <2>1. UNCHANGED <<open, mode, expect, state, inCh, inLen, blockCRC, combinedCRC, zbits, pos,
                    hold, sections>>
    BY <1>1 DEF Return, rle, coder, hist
  <2> QED BY <2>1, StreamStays
<1>2. CASE mode' # mode
  <2>1. mode \in {"FLUSHING", "FINISHING"}
    BY <1>2 DEF Return
  <2> QED BY <1>2, <2>1, FlushOverStep, FinishedStep
<1> QED BY <1>1, <1>2

(* Every step is a step of the abstract stream or leaves it alone. *)
LEMMA RefinesStep == IInv /\ IInv' /\ RefInv /\ [Next]_vars => [CS!Next]_(CS!vars)
<1> SUFFICES ASSUME IInv, IInv', RefInv, [Next]_vars
             PROVE  CS!Next \/ UNCHANGED CS!vars
  OBVIOUS
<1>1. CASE CompressInitOK
  BY <1>1, OpenStep DEF CS!Next
<1>2. CASE CompressInitFails
  BY <1>2, StreamStays DEF CompressInitFails, rle, coder, hist
<1>3. CASE CompressEnd
  BY <1>3, CloseStep DEF CS!Next, IInv
<1>4. CASE NoState
  BY <1>4, StreamStays DEF NoState, rle, coder, hist
<1>5. CASE \E a \in Actions, n \in 0..MaxIn, m \in 0..MaxOut : Enter(a, n, m)
  BY <1>5, EnterStep DEF CS!Next
<1>6. CASE \E a \in Actions, n \in 0..MaxIn, m \in 0..MaxOut : Refuse(a, n, m)
  BY <1>6, StreamStays DEF Refuse, rle, coder, hist
<1>7. CASE AbsorbByte
  BY <1>7, AcceptStep DEF CS!Next
<1>8. CASE CutRest \/ CutFull
  BY <1>8, CutStep DEF CS!Next
<1>9. CASE Starve
  BY <1>9, StreamStays DEF Starve, rle, coder, hist
<1>10. CASE OutputStops \/ OutputNextBlock
  BY <1>10, DeliverStep DEF CS!Next
<1>11. CASE Return
  BY <1>11, ReturnStep DEF CS!Next
<1>12. CASE UNCHANGED vars
  BY <1>12, StreamStays DEF vars, rle, coder, hist
<1> QED BY <1>1, <1>2, <1>3, <1>4, <1>5, <1>6, <1>7, <1>8, <1>9, <1>10, <1>11, <1>12
     DEF Next, Library, Caller

(* The invariant of the refinement holds at first. *)
LEMMA InitShort == Init => RefInv
<1> SUFFICES ASSUME Init PROVE RefInv
  OBVIOUS
<1>1. hold = <<>> /\ Len(<<>>) = 0 /\ block = <<>> /\ blockCRC = <<>>
  BY DEF Init
<1> QED BY <1>1, RemainderFacts DEF RefInv, Covers, HoldShort

(* However calls, full blocks, flushes and room for output interleave, the *)
(* compression stream does what CompressStream promises: bytes are cut     *)
(* into blocks in order, a flush is over when only the remainder is left,  *)
(* the stream when its trailer is delivered.                               *)
THEOREM StreamIsImplemented == Spec => Implements
<1>1. Spec => []RefInv
  BY InitShort, Invariance, RefInvStep, PTL DEF Spec
<1> QED BY <1>1, Invariance, RefinesInit, RefinesStep, PTL DEF Spec, Implements, CS!Spec

-----------------------------------------------------------------------------
(* No byte of the input is lost, doubled or moved *)

(* What leaves the input and the blocks alone keeps the input. *)
LEMMA KeptStays ==
  ASSUME InputKept, UNCHANGED <<open, combinedCRC, Inside, consumed>>
  PROVE  InputKept'
BY DEF InputKept

(* Every step keeps each byte read in its place. *)
LEMMA KeptStep == IInv /\ RefInv /\ IInv' /\ InputKept /\ [Next]_vars => InputKept'
<1> SUFFICES ASSUME IInv, RefInv, IInv', InputKept, [Next]_vars, open'
             PROVE  \E cut \in [0..Len(combinedCRC') -> 0..Len(consumed')] :
                      CutAt(cut, combinedCRC', Inside', consumed')
  BY DEF InputKept
<1>0. /\ TypeOK /\ RunPending /\ Buffers /\ BlockRoom /\ Numbering /\ Covers /\ HoldShort /\ Left
      /\ combinedCRC \in Seq(Seq(Byte)) /\ consumed \in Seq(Byte)
  <2>1. consumed \in Seq(Byte)
    <3>1. consumed \in Seq(Bytes)
      BY DEF IInv, TypeOK
    <3>2. Len(consumed) \in Nat /\ consumed \in [1..Len(consumed) -> Byte]
      <4>1. \A i \in 1..Len(consumed) : consumed[i] \in Byte
        BY <3>1, ElementOfSeq, BytesAssumption DEF Byte
      <4> QED BY <3>1, <4>1, LenProperties
    <3> QED BY <3>2, SeqDef
  <2> QED BY <2>1 DEF IInv, RefInv, TypeOK
<1>u. ASSUME UNCHANGED <<open, combinedCRC, Inside, consumed>>
      PROVE  \E cut \in [0..Len(combinedCRC') -> 0..Len(consumed')] :
               CutAt(cut, combinedCRC', Inside', consumed')
  BY <1>u DEF InputKept
<1>s. ASSUME UNCHANGED <<open, state, inCh, inLen, blockCRC, combinedCRC, consumed>>
      PROVE  \E cut \in [0..Len(combinedCRC') -> 0..Len(consumed')] :
               CutAt(cut, combinedCRC', Inside', consumed')
  <2>1. Inside' = Inside
    BY <1>s DEF Inside, InRun
  <2> QED BY <1>s, <1>u, <2>1
<1>1. CASE CompressInitOK
  <2>1. combinedCRC' = <<>> /\ consumed' = <<>>
    BY <1>1 DEF CompressInitOK
  <2>2. Inside' = <<>>
    <3>1. InRun' = <<>>
      BY <1>1 DEF CompressInitOK, init_RL, InRun, Run
    <3> QED BY <1>1, <3>1 DEF CompressInitOK, Inside
  <2> DEFINE cut == [i \in 0..0 |-> 0]
  <2>3. cut \in [0..0 -> 0..0] /\ cut[0] = 0 /\ Len(<<>>) = 0
    OBVIOUS
  <2>4. SubSeq(<<>>, 0 + 1, 0) = <<>>
    OBVIOUS
  <2>5. CutAt(cut, <<>>, <<>>, <<>>)
    BY <2>3, <2>4 DEF CutAt
  <2> HIDE DEF cut
  <2> QED BY <2>1, <2>2, <2>3, <2>5
<1>2. CASE CompressInitFails
  BY <1>2, <1>s DEF CompressInitFails, rle, coder, hist
<1>3. CASE CompressEnd
  BY <1>3 DEF CompressEnd
<1>4. CASE NoState
  BY <1>4, <1>s DEF NoState, rle, coder, hist
<1>5. CASE \E a \in Actions, n \in 0..MaxIn, m \in 0..MaxOut : Enter(a, n, m)
  BY <1>5, <1>s DEF Enter, rle, coder, hist
<1>6. CASE \E a \in Actions, n \in 0..MaxIn, m \in 0..MaxOut : Refuse(a, n, m)
  BY <1>6, <1>s DEF Refuse, rle, coder, hist
<1>7. CASE AbsorbByte
  <2>1. PICK c \in Bytes : ADD_CHAR_TO_BLOCK(c) /\ consumed' = Append(consumed, c)
    BY <1>7 DEF AbsorbByte
  <2>2. state = "INPUT" /\ UNCHANGED <<open, state, combinedCRC>> /\ c \in Byte
    BY <1>7 DEF AbsorbByte, coder, Byte
  <2>3. Inside' = Append(Inside, c)
    BY <1>0, <2>1, <2>2, AbsorbAppends
  <2>4. PICK cut \in [0..Len(combinedCRC) -> 0..Len(consumed)] :
          CutAt(cut, combinedCRC, Inside, consumed)
    BY <2>2 DEF InputKept
  <2>5. /\ cut \in [0..Len(combinedCRC) -> 0..Len(Append(consumed, c))]
        /\ CutAt(cut, combinedCRC, Append(Inside, c), Append(consumed, c))
    BY <1>0, <2>2, <2>4, KeptAppend
  <2> QED BY <2>1, <2>2, <2>3, <2>5
<1>8. CASE CutRest \/ CutFull
  <2>1. UNCHANGED <<open, consumed>> /\ open
    BY <1>8 DEF CutRest, CutFull
  <2> DEFINE last == CutRest /\ mode = "FINISHING"
  <2>2. /\ state = "INPUT" /\ state' = "OUTPUT" /\ block' \in Seq(Byte) /\ blockCRC' \in Seq(Byte)
        /\ CompressBlock(block', blockCRC', last) /\ Covers'
        /\ CutRest => blockCRC' = Inside /\ InRun' = <<>>
        /\ CutFull => blockCRC' = blockCRC /\ InRun' = InRun
    BY <1>0, <1>8, <2>1, CutCalls
  <2>3. last \in BOOLEAN
    OBVIOUS
  <2> HIDE DEF last
  <2>4. combinedCRC' = IF block' # <<>> THEN Append(combinedCRC, blockCRC') ELSE combinedCRC
    BY <1>0, <2>1, <2>2, <2>3, CompressBlockShown
  <2>5. Inside' \in Seq(Byte) /\ InRun \in Seq(Byte) /\ Inside \in Seq(Byte)
    <3>1. <<>> \in Seq(Byte) /\ InRun \in Seq(Byte) /\ Inside \in Seq(Byte)
      BY <1>0, InsideIsSeq
    <3>2. InRun' \in Seq(Byte) /\ Inside' = <<>> \o InRun'
      BY <1>8, <2>2, <3>1 DEF Inside
    <3> QED BY <3>1, <3>2, ConcatProperties
  <2>6. Inside = blockCRC' \o Inside'
    <3>1. Inside = blockCRC \o InRun /\ Inside' = <<>> \o InRun'
      BY <2>2 DEF Inside
    <3>2. CASE CutRest
      <4>1. Inside' = <<>> /\ blockCRC' = Inside
        BY <2>2, <3>1, <3>2
      <4> QED BY <2>5, <4>1, ConcatEmptySeq
    <3>3. CASE CutFull
      <4>1. Inside' = InRun
        BY <2>2, <2>5, <3>1, <3>3, ConcatEmptySeq
      <4> QED BY <2>2, <3>1, <3>3, <4>1
    <3> QED BY <1>8, <3>2, <3>3
  <2>7. PICK cut \in [0..Len(combinedCRC) -> 0..Len(consumed)] :
          CutAt(cut, combinedCRC, Inside, consumed)
    BY <2>1 DEF InputKept
  <2>8. CASE block' = <<>>
    <3>1. blockCRC' = <<>> /\ combinedCRC' = combinedCRC
      BY <2>2, <2>4, <2>8 DEF Covers
    <3>2. Inside' = Inside
      BY <2>5, <2>6, <3>1, ConcatEmptySeq
    <3> QED BY <1>u, <2>1, <3>1, <3>2
  <2>9. CASE block' # <<>>
    <3>1. combinedCRC' = Append(combinedCRC, blockCRC')
      BY <2>4, <2>9
    <3>2. CutAt(cut, combinedCRC, blockCRC' \o Inside', consumed)
      BY <2>6, <2>7
    <3>3. \E new \in [0..Len(Append(combinedCRC, blockCRC')) -> 0..Len(consumed)] :
            CutAt(new, Append(combinedCRC, blockCRC'), Inside', consumed)
      BY <1>0, <2>2, <2>5, <3>2, KeptCut
    <3> QED BY <2>1, <3>1, <3>3
  <2> QED BY <2>8, <2>9
<1>9. CASE Starve
  BY <1>9, <1>s DEF Starve, rle, coder, hist
<1>10. CASE OutputStops \/ OutputNextBlock
  <2>1. UNCHANGED <<open, combinedCRC, consumed, inCh, inLen>> /\ state = "OUTPUT"
    BY <1>10 DEF OutputStops, OutputNextBlock, rle
  <2>2. Inside' = Inside
    <3>1. Inside = <<>> \o InRun /\ InRun' = InRun
      BY <2>1 DEF Inside, InRun
    <3>2. (IF state' = "INPUT" THEN blockCRC' ELSE <<>>) = <<>>
      BY <1>10, <2>1 DEF OutputStops, OutputNextBlock, prepare_new_block
    <3> QED BY <3>1, <3>2 DEF Inside
  <2> QED BY <1>u, <2>1, <2>2
<1>11. CASE Return
  BY <1>11, <1>s DEF Return, rle, coder, hist
<1>12. CASE UNCHANGED vars
  BY <1>12, <1>s DEF vars, rle, coder, hist
<1> QED BY <1>1, <1>2, <1>3, <1>4, <1>5, <1>6, <1>7, <1>8, <1>9, <1>10, <1>11, <1>12
     DEF Next, Library, Caller

(* Every byte the library reads is behind the CRC of exactly one block, or *)
(* still waits for one, in the order it was read: runs that cross calls,   *)
(* flushes and full blocks lose none and double none.                      *)
THEOREM InputIsKept == Spec => []InputKept
<1>1. Init => InputKept
  BY DEF Init, InputKept
<1>2. Spec => []RefInv
  BY InitShort, Invariance, RefInvStep, PTL DEF Spec
<1> QED BY <1>1, <1>2, Invariance, KeptStep, PTL DEF Spec


-----------------------------------------------------------------------------
(* The decoders *)

(* A byte more and a decoder is a decoder; a section more or a part more   *)
(* and there are sequences again.                                          *)
LEMMA StepTypes ==
  /\ Takes(UnRLEStep, Decoder, Byte) /\ Start \in Decoder
  /\ Takes(JoinStep, Seq(Byte), Seq(Byte)) /\ <<>> \in Seq(Byte)
<1>1. ASSUME NEW d \in Decoder, NEW b \in Byte
      PROVE  /\ [out |-> d.out \o Run(d.ch, b), ch |-> d.ch, n |-> 0] \in Decoder
             /\ d.n # 4 => [out |-> Append(d.out, b), ch |-> b,
                            n |-> IF d.n > 0 /\ b = d.ch THEN d.n + 1 ELSE 1] \in Decoder
  <2>1. d.out \in Seq(Byte) /\ d.ch \in Byte /\ d.n \in 0..4 /\ b \in Nat
    BY DEF Decoder, Byte
  <2>2. Run(d.ch, b) \in Seq(Byte)
    BY <2>1, RunIsSeq
  <2>3. d.out \o Run(d.ch, b) \in Seq(Byte)
    BY <2>1, <2>2, ConcatProperties
  <2>4. Append(d.out, b) \in Seq(Byte)
    BY <2>1, AppendProperties
  <2>5. d.n # 4 => (IF d.n > 0 /\ b = d.ch THEN d.n + 1 ELSE 1) \in 0..4
    BY <2>1
  <2> QED BY <2>1, <2>3, <2>4, <2>5 DEF Decoder
<1>2. ASSUME NEW x \in Decoder \X Byte PROVE UnRLEStep[x] \in Decoder
  <2>1. x[1] \in Decoder /\ x[2] \in Byte
    OBVIOUS
  <2> QED BY <1>1, <2>1 DEF UnRLEStep
<1>3. UnRLEStep \in [Decoder \X Byte -> Decoder]
  <2>1. UnRLEStep = [x \in Decoder \X Byte |-> UnRLEStep[x]]
    BY DEF UnRLEStep
  <2> QED BY <1>2, <2>1
<1>4. Start \in Decoder
  BY DEF Start, Decoder, Byte
<1>5. JoinStep \in [Seq(Byte) \X Seq(Byte) -> Seq(Byte)]
  <2>1. ASSUME NEW x \in Seq(Byte) \X Seq(Byte) PROVE x[1] \o x[2] \in Seq(Byte)
    <3>1. x[1] \in Seq(Byte) /\ x[2] \in Seq(Byte)
      OBVIOUS
    <3> QED BY <3>1, ConcatProperties
  <2> QED BY <2>1 DEF JoinStep
<1> QED BY <1>3, <1>4, <1>5 DEF Takes

(* What a block decodes to, byte by byte. *)
LEMMA UnRLEOne ==
  ASSUME NEW s \in Seq(Byte)
  PROVE  /\ UnRLE(s) \in Decoder /\ UnRLE(<<>>) = Start
         /\ \A b \in Byte : UnRLE(Append(s, b)) = UnRLEStep[<<UnRLE(s), b>>]
<1>1. ASSUME NEW b \in Byte
      PROVE  UnRLE(s) \in Decoder /\ UnRLE(Append(s, b)) = UnRLEStep[<<UnRLE(s), b>>]
  BY StepTypes, AccumulateOne DEF UnRLE
<1>2. 0 \in Byte
  BY DEF Byte
<1>3. UnRLE(<<>>) = Start
  BY AccumulateNone DEF UnRLE
<1> QED BY <1>1, <1>2, <1>3

(* One more section: a block is decoded. *)
LEMMA DecodedOne ==
  ASSUME NEW s \in Seq(SectionType)
  PROVE  /\ Decoded(s) \in Seq(Seq(Byte)) /\ Decoded(<<>>) = <<>>
         /\ \A x \in SectionType :
              Decoded(Append(s, x)) = IF x.kind = "block" THEN Append(Decoded(s), UnRLE1(x.data))
                                                          ELSE Decoded(s)
<1> DEFINE A == Seq(Seq(Byte))
           of(p) == IF p[2].kind = "block" THEN Append(p[1], UnRLE1(p[2].data)) ELSE p[1]
<1>1. ASSUME NEW a \in A, NEW x \in SectionType
      PROVE  of(<<a, x>>) \in A
  <2>1. x.data \in Seq(Byte)
    BY DEF SectionType
  <2>2. UnRLE1(x.data) \in Seq(Byte)
    BY <2>1, UnRLEOne DEF UnRLE1, Decoder
  <2>3. Append(a, UnRLE1(x.data)) \in A
    BY <2>2, AppendProperties
  <2> QED BY <2>3
<1>2. Takes(DecodeStep, A, SectionType)
  <2>1. ASSUME NEW p \in A \X SectionType PROVE of(p) \in A
    <3>1. p = <<p[1], p[2]>> /\ p[1] \in A /\ p[2] \in SectionType
      OBVIOUS
    <3> HIDE DEF of, A
    <3> QED BY <1>1, <3>1
  <2>2. DecodeStep = [p \in A \X SectionType |-> of(p)]
    BY DEF DecodeStep
  <2> HIDE DEF of, A
  <2> QED BY <2>1, <2>2 DEF Takes
<1>3. <<>> \in A
  OBVIOUS
<1> HIDE DEF A
<1>4. ASSUME NEW x \in SectionType
      PROVE  /\ Decoded(s) \in A
             /\ Decoded(Append(s, x)) = DecodeStep[<<Decoded(s), x>>]
  BY <1>2, <1>3, AccumulateOne DEF Decoded
<1>5. Decoded(s) \in A
  <2>1. Section("header", <<>>, <<>>, 0) \in SectionType
    BY DEF Section, SectionType
  <2> QED BY <1>4, <2>1
<1>6. ASSUME NEW x \in SectionType
      PROVE  DecodeStep[<<Decoded(s), x>>] =
               IF x.kind = "block" THEN Append(Decoded(s), UnRLE1(x.data)) ELSE Decoded(s)
  BY <1>5 DEF DecodeStep, A
<1>7. Decoded(<<>>) = <<>>
  BY AccumulateNone DEF Decoded
<1> QED BY <1>4, <1>5, <1>6, <1>7 DEF A

(* One more part is behind the others. *)
LEMMA JoinedOne ==
  ASSUME NEW s \in Seq(Seq(Byte))
  PROVE  /\ Joined(s) \in Seq(Byte) /\ Joined(<<>>) = <<>>
         /\ \A p \in Seq(Byte) : Joined(Append(s, p)) = Joined(s) \o p
<1> DEFINE S == Seq(Byte)
<1>0. Takes(JoinStep, S, S) /\ <<>> \in S /\ s \in Seq(S)
  BY StepTypes
<1> HIDE DEF S
<1>1. ASSUME NEW p \in S
      PROVE  Joined(s) \in S /\ Joined(Append(s, p)) = JoinStep[<<Joined(s), p>>]
  BY <1>0, AccumulateOne DEF Joined
<1>2. Joined(s) \in S
  BY <1>0, <1>1
<1> USE DEF S
<1>3. Joined(s) \in Seq(Byte)
  BY <1>2
<1>4. ASSUME NEW p \in Seq(Byte) PROVE Joined(Append(s, p)) = Joined(s) \o p
  BY <1>1, <1>3 DEF JoinStep
<1>5. Joined(<<>>) = <<>>
  BY AccumulateNone DEF Joined
<1> QED BY <1>3, <1>4, <1>5

-----------------------------------------------------------------------------
(* The run-length coder and its inverse *)

(* Two runs of a byte are one. *)
LEMMA RunsJoin ==
  ASSUME NEW c \in Byte, NEW m \in Nat, NEW n \in Nat
  PROVE  Run(c, m) \o Run(c, n) = Run(c, m + n)
<1> DEFINE p == Run(c, m)
           q == Run(c, n)
           r == Run(c, m + n)
<1>1. /\ p \in Seq(Byte) /\ Len(p) = m /\ (\A i \in 1..m : p[i] = c)
      /\ q \in Seq(Byte) /\ Len(q) = n /\ (\A i \in 1..n : q[i] = c)
  BY RunIsSeq DEF Run
<1>2. r \in Seq(Byte) /\ Len(r) = m + n /\ (\A i \in 1..m + n : r[i] = c)
  <2> DEFINE k == m + n
  <2>1. k \in Nat
    OBVIOUS
  <2> HIDE DEF k
  <2>2. Run(c, k) \in Seq(Byte) /\ Len(Run(c, k)) = k /\ (\A i \in 1..k : Run(c, k)[i] = c)
    BY <2>1, RunIsSeq DEF Run
  <2> QED BY <2>2 DEF k
<1> HIDE DEF p, q, r
<1>3. /\ p \o q \in Seq(Byte) /\ Len(p \o q) = m + n
      /\ \A i \in 1..m + n : (p \o q)[i] = IF i <= m THEN p[i] ELSE q[i - m]
  BY <1>1, ConcatProperties
<1>4. \A i \in 1..m + n : (p \o q)[i] = r[i]
  <2>1. ASSUME NEW i \in 1..m + n PROVE (p \o q)[i] = c
    <3>1. i <= m => i \in 1..m
      OBVIOUS
    <3>2. ~(i <= m) => i - m \in 1..n
      OBVIOUS
    <3> QED BY <1>1, <1>3, <3>1, <3>2
  <2> QED BY <1>2, <2>1
<1>5. p \o q = r
  BY <1>2, <1>3, <1>4, SeqEqual
<1> QED BY <1>5 DEF p, q, r

(* The four bytes and the count of a longer run. *)
LEMMA CountedRun ==
  ASSUME NEW ch \in Byte, NEW x \in Byte
  PROVE  <<ch, ch, ch, ch, x>> = Append(Run(ch, 4), x)
<1> DEFINE r == Run(ch, 4)
           u == Append(r, x)
           v == <<ch, ch, ch, ch, x>>
<1>1. r \in Seq(Byte) /\ Len(r) = 4 /\ \A i \in 1..4 : r[i] = ch
  BY RunIsSeq DEF Run
<1>2. v \in Seq(Byte) /\ Len(v) = 5 /\ (\A i \in 1..4 : v[i] = ch) /\ v[5] = x
  OBVIOUS
<1> HIDE DEF r, v
<1>3. /\ u \in Seq(Byte) /\ Len(u) = Len(r) + 1 /\ u[Len(r) + 1] = x
      /\ \A i \in 1..Len(r) : u[i] = r[i]
  <2>1. r \in Seq(Byte)
    BY <1>1
  <2>2. u \in Seq(Byte)
    BY <2>1, AppendProperties
  <2>3. Len(u) = Len(r) + 1
    BY <2>1, AppendProperties
  <2>4. u[Len(r) + 1] = x
    BY <2>1, AppendProperties
  <2>5. \A i \in 1..Len(r) : u[i] = r[i]
    BY <2>1, AppendProperties
  <2> QED BY <2>2, <2>3, <2>4, <2>5
<1> HIDE DEF u
<1>4. \A i \in 1..5 : u[i] = v[i]
  <2>1. \A i \in 1..5 : i \in 1..4 \/ i = 5
    OBVIOUS
  <2> QED BY <1>1, <1>2, <1>3, <2>1
<1>5. u = v
  BY <1>1, <1>2, <1>3, <1>4, SeqEqual
<1> QED BY <1>5 DEF u, v, r

(* A decoder that has seen d and then len times ch. *)
Saw(d, ch, len) == [out |-> d.out \o Run(ch, len), ch |-> ch, n |-> len]

(* Up to four equal bytes decode to themselves. *)
LEMMA RunDecodes ==
  ASSUME NEW s \in Seq(Byte), NEW ch \in Byte, UnRLE(s).n < 4,
         UnRLE(s).n = 0 \/ UnRLE(s).ch # ch
  PROVE  \A k \in 1..4 : UnRLE(s \o Run(ch, k)) = Saw(UnRLE(s), ch, k)
<1> DEFINE d == UnRLE(s)
           P == {k \in 1..4 : UnRLE(s \o Run(ch, k)) = Saw(d, ch, k)}
<1>1. d \in Decoder /\ d.out \in Seq(Byte) /\ d.n \in 0..4 /\ d.ch \in Byte /\ d.n # 4
  <2>1. d \in Decoder
    BY UnRLEOne
  <2> HIDE DEF d
  <2>2. d.out \in Seq(Byte) /\ d.n \in 0..4 /\ d.ch \in Byte
    BY <2>1 DEF Decoder
  <2>3. d.n < 4
    BY DEF d
  <2> QED BY <2>1, <2>2, <2>3
<1>2. \A k \in 0..3 : /\ Run(ch, k) \in Seq(Byte) /\ Run(ch, k + 1) = Run(ch, k) \o <<ch>>
                      /\ d.out \o Run(ch, k) \in Seq(Byte) /\ s \o Run(ch, k) \in Seq(Byte)
  <2>1. ASSUME NEW k \in 0..3
        PROVE  Run(ch, k) \in Seq(Byte) /\ Run(ch, k + 1) = Run(ch, k) \o <<ch>>
    <3>1. k \in Nat
      OBVIOUS
    <3> QED BY <3>1, RunIsSeq, RunGrows
  <2> HIDE DEF d
  <2> QED BY <1>1, <2>1, ConcatProperties
<1>3. \A k \in 0..3, t \in Seq(Byte) : t \o Run(ch, k + 1) = Append(t \o Run(ch, k), ch)
  <2>1. ASSUME NEW k \in 0..3, NEW t \in Seq(Byte)
        PROVE  t \o Run(ch, k + 1) = Append(t \o Run(ch, k), ch)
    <3> DEFINE r == Run(ch, k)
    <3>0. <<ch>> \in Seq(Byte)
      OBVIOUS
    <3>1. r \in Seq(Byte) /\ Run(ch, k + 1) = r \o <<ch>> /\ <<ch>> \in Seq(Byte)
      <4> HIDE DEF d
      <4> QED BY <1>2, <3>0
    <3> HIDE DEF r
    <3>2. t \o (r \o <<ch>>) = (t \o r) \o <<ch>>
      BY <3>1, Associative
    <3>3. t \o r \in Seq(Byte)
      BY <3>1, ConcatProperties
    <3>4. Append(t \o r, ch) = (t \o r) \o <<ch>>
      BY <3>3, AppendIsConcat
    <3> QED BY <3>1, <3>2, <3>4 DEF r
  <2> QED BY <2>1
<1>4. ASSUME NEW k \in 0..3, NEW e \in Decoder, UnRLE(s \o Run(ch, k)) = e,
             e.out = d.out \o Run(ch, k), e.n = k \/ (k = 0 /\ e.ch # ch /\ e.n # 4),
             k = 0 \/ e.ch = ch
      PROVE  UnRLE(s \o Run(ch, k + 1)) = Saw(d, ch, k + 1)
  <2>1. UnRLE(s \o Run(ch, k + 1)) = UnRLEStep[<<e, ch>>]
    <3> DEFINE t == s \o Run(ch, k)
    <3>1. t \in Seq(Byte) /\ s \o Run(ch, k + 1) = Append(t, ch) /\ UnRLE(t) = e
      BY <1>2, <1>3, <1>4
    <3> HIDE DEF t
    <3> QED BY <3>1, UnRLEOne
  <2>2. e.n # 4 /\ (IF e.n > 0 /\ ch = e.ch THEN e.n + 1 ELSE 1) = k + 1
    BY <1>4 DEF Decoder
  <2>3. UnRLEStep[<<e, ch>>] = [out |-> Append(e.out, ch), ch |-> ch, n |-> k + 1]
    BY <2>2 DEF UnRLEStep
  <2>4. Append(e.out, ch) = d.out \o Run(ch, k + 1)
    <3> HIDE DEF d
    <3> QED BY <1>1, <1>3, <1>4
  <2> QED BY <2>1, <2>3, <2>4 DEF Saw
<1>5. 1 \in P
  <2>1. Run(ch, 0) = <<>>
    BY DEF Run
  <2>2. s \o <<>> = s
    BY ConcatEmptySeq
  <2>3. d.out \o <<>> = d.out
    <3> HIDE DEF d
    <3> QED BY <1>1, ConcatEmptySeq
  <2>4. UnRLE(s \o Run(ch, 0)) = d /\ d.out = d.out \o Run(ch, 0)
    BY <2>1, <2>2, <2>3
  <2>5. d.n = 0 \/ (d.ch # ch /\ d.n # 4)
    BY <1>1
  <2> HIDE DEF d
  <2>6. UnRLE(s \o Run(ch, 0 + 1)) = Saw(d, ch, 0 + 1)
    BY <1>1, <1>4, <2>4, <2>5
  <2> QED BY <2>6
<1>6. ASSUME NEW k \in 1..3, k \in P PROVE k + 1 \in P
  <2> DEFINE e == Saw(d, ch, k)
  <2>1. UnRLE(s \o Run(ch, k)) = e
    BY <1>6
  <2>2. e.out = d.out \o Run(ch, k) /\ e.n = k /\ e.ch = ch
    BY DEF Saw
  <2>3. e \in Decoder
    BY <1>2 DEF Saw, Decoder
  <2> HIDE DEF e, d
  <2>4. UnRLE(s \o Run(ch, k + 1)) = Saw(d, ch, k + 1)
    <3>1. k \in 0..3
      OBVIOUS
    <3> HIDE <1>6
    <3> QED BY <1>4, <2>1, <2>2, <2>3, <3>1
  <2> QED BY <2>4
<1> HIDE DEF P
<1>7. 2 \in P /\ 3 \in P /\ 4 \in P
  <2>1. 1 + 1 = 2 /\ 2 + 1 = 3 /\ 3 + 1 = 4
    OBVIOUS
  <2>2. 2 \in P
    BY <1>5, <1>6, <2>1
  <2>3. 3 \in P
    BY <1>6, <2>1, <2>2
  <2> QED BY <1>6, <2>1, <2>2, <2>3
<1>8. \A k \in 1..4 : k \in P
  BY <1>5, <1>7
<1> QED BY <1>8 DEF P

(* What add_pair_to_block stores for a run decodes to the run, and leaves  *)
(* the decoder ready for any other byte.                                   *)
LEMMA PairDecodes ==
  ASSUME NEW s \in Seq(Byte), NEW ch \in Byte, NEW len \in 1..MaxRun, UnRLE(s).n < 4,
         UnRLE(s).n = 0 \/ UnRLE(s).ch # ch
  PROVE  /\ UnRLE(s \o Pair(ch, len)).out = UnRLE(s).out \o Run(ch, len)
         /\ UnRLE(s \o Pair(ch, len)).ch = ch
         /\ UnRLE(s \o Pair(ch, len)).n = IF len < 4 THEN len ELSE 0
<1> DEFINE d == UnRLE(s)
<1>1. \A k \in 1..4 : UnRLE(s \o Run(ch, k)) = Saw(d, ch, k)
  BY RunDecodes
<1>2. d.out \in Seq(Byte)
  BY UnRLEOne DEF Decoder
<1>3. CASE len \in 1..3
  <2>1. Pair(ch, len) = Run(ch, len) /\ len \in 1..4 /\ len < 4
    BY <1>3 DEF Pair, Run
  <2>2. UnRLE(s \o Pair(ch, len)) = Saw(d, ch, len)
    BY <1>1, <2>1
  <2> HIDE DEF d
  <2>3. /\ Saw(d, ch, len).out = d.out \o Run(ch, len) /\ Saw(d, ch, len).ch = ch
        /\ Saw(d, ch, len).n = len
    BY DEF Saw
  <2> QED BY <2>1, <2>2, <2>3 DEF d
<1>4. CASE len \notin 1..3
  <2> DEFINE c == len - 4
             r == Run(ch, 4)
  <2>1. c \in Byte /\ (len - 4) % 256 = c /\ c \in Nat /\ 4 + c = len /\ ~(len < 4)
    <3>1. c \in 0..251
      BY <1>4, MaxRunAssumption
    <3>2. len = c + 4 /\ c \in Nat
      BY <1>4, <3>1
    <3> HIDE DEF c
    <3>3. c \in Byte /\ (len - 4) = c /\ c % 256 = c /\ ~(len < 4)
      BY <3>1, <3>2 DEF Byte
    <3> QED BY <3>2, <3>3
  <2>2. Pair(ch, len) = <<ch, ch, ch, ch, c>>
    BY <1>4, <2>1 DEF Pair
  <2>3. r \in Seq(Byte)
    BY RunIsSeq
  <2>4. Pair(ch, len) = Append(r, c)
    <3> HIDE DEF c
    <3> QED BY <2>1, <2>2, CountedRun
  <2> HIDE DEF r, c
  <2>5. s \o Pair(ch, len) = Append(s \o r, c) /\ s \o r \in Seq(Byte)
    <3>1. <<c>> \in Seq(Byte) /\ Append(r, c) = r \o <<c>>
      BY <2>1, <2>3, AppendIsConcat
    <3>2. s \o (r \o <<c>>) = (s \o r) \o <<c>> /\ s \o r \in Seq(Byte)
      BY <2>3, <3>1, Associative, ConcatProperties
    <3>3. Append(s \o r, c) = (s \o r) \o <<c>>
      <4> DEFINE q == s \o r
      <4>1. q \in Seq(Byte) /\ c \in Byte
        BY <2>1, <3>2
      <4> HIDE DEF q
      <4>2. Append(q, c) = q \o <<c>>
        BY ONLY <4>1, AppendIsConcat
      <4> QED BY <4>2 DEF q
    <3> QED BY <2>4, <3>1, <3>2, <3>3
  <2> DEFINE e == Saw(d, ch, 4)
             t == s \o r
  <2>6. UnRLE(t) = e
    BY <1>1 DEF r
  <2>7. e.n = 4 /\ e.ch = ch /\ e.out = d.out \o r
    BY DEF Saw, r
  <2>8. t \in Seq(Byte)
    BY <2>5
  <2> HIDE DEF e, t, d
  <2>9. UnRLE(Append(t, c)) = UnRLEStep[<<e, c>>] /\ e \in Decoder
    BY <2>1, <2>6, <2>8, UnRLEOne
  <2>10. UnRLEStep[<<e, c>>] = [out |-> e.out \o Run(e.ch, c), ch |-> e.ch, n |-> 0]
    BY <2>1, <2>7, <2>9, ZenonT(60) DEF UnRLEStep
  <2>11. (d.out \o r) \o Run(ch, c) = d.out \o Run(ch, len)
    <3> DEFINE q == Run(ch, c)
               o == d.out
    <3>1. Run(ch, 4) \o Run(ch, c) = Run(ch, 4 + c)
      <4>1. \A m, n \in Nat : Run(ch, m) \o Run(ch, n) = Run(ch, m + n)
        BY RunsJoin
      <4>2. 4 \in Nat /\ c \in Nat
        BY <2>1
      <4> QED BY <4>1, <4>2
    <3>3. q \in Seq(Byte) /\ o \in Seq(Byte) /\ r \o q = Run(ch, len)
      BY <1>2, <2>1, <3>1, RunIsSeq DEF r
    <3>4. o \o (r \o q) = (o \o r) \o q
      <4>1. \A x, y, z \in Seq(Byte) : x \o (y \o z) = (x \o y) \o z
        BY ONLY Associative
      <4> HIDE DEF q, o
      <4> QED BY <2>3, <3>3, <4>1
    <3> QED BY <3>3, <3>4
  <2>12. UnRLE(s \o Pair(ch, len)) = [out |-> d.out \o Run(ch, len), ch |-> ch, n |-> 0]
    BY <2>5, <2>7, <2>9, <2>10, <2>11 DEF t
  <2> QED BY <2>1, <2>12 DEF d
<1> QED BY <1>3, <1>4

-----------------------------------------------------------------------------
(* The sections *)

Untrailed(secs) == \A i \in 1..Len(secs) : secs[i].kind # "trailer"

(* One more section, sound in itself, behind sound ones without a trailer. *)
LEMMA AddSection ==
  ASSUME NEW secs \in Seq(SectionType), NEW crcs, Sound(secs, crcs), Untrailed(secs),
         NEW x \in SectionType,
         x.kind = "block" => x.crc = << UnRLE1(x.data) >>, x.kind = "trailer" => x.crc = crcs,
         NEW new, new = IF x.kind = "block" THEN Append(crcs, UnRLE1(x.data)) ELSE crcs
  PROVE  /\ Append(secs, x) \in Seq(SectionType) /\ Sound(Append(secs, x), new)
         /\ x.kind # "trailer" => Untrailed(Append(secs, x))
<1> DEFINE t == Append(secs, x)
           n == Len(secs)
<1>1. t \in Seq(SectionType) /\ Len(t) = n + 1 /\ t[n + 1] = x /\ \A i \in 1..n : t[i] = secs[i]
  BY AppendProperties
<1>2. Decoded(t) = new
  <2>1. Decoded(secs) = crcs
    BY DEF Sound
  <2>2. Decoded(t) = IF x.kind = "block" THEN Append(Decoded(secs), UnRLE1(x.data)) ELSE Decoded(secs)
    BY DecodedOne
  <2> HIDE DEF t
  <2> QED BY <2>1, <2>2
<1> HIDE DEF t
<1>3. n \in Nat /\ \A i \in 1..n + 1 : i \in 1..n \/ i = n + 1
  BY LenProperties
<1>4. ASSUME NEW i \in 1..Len(t)
      PROVE  /\ t[i].kind = "block"   => t[i].crc = << UnRLE1(t[i].data) >>
             /\ t[i].kind = "trailer" => i = Len(t) /\ t[i].crc = new
             /\ x.kind # "trailer" => t[i].kind # "trailer"
  <2>1. CASE i \in 1..n
    <3>1. t[i] = secs[i] /\ secs[i].kind # "trailer"
      BY <1>1, <2>1 DEF Untrailed
    <3>2. secs[i].kind = "block" => secs[i].crc = << UnRLE1(secs[i].data) >>
      BY <2>1 DEF Sound
    <3> QED BY <3>1, <3>2
  <2>2. CASE i = n + 1
    <3>1. t[i] = x /\ i = Len(t)
      BY <1>1, <2>2
    <3> QED BY <3>1
  <2> QED BY <1>1, <1>3, <2>1, <2>2
<1>5. Sound(t, new)
  BY <1>2, <1>4 DEF Sound
<1>6. x.kind # "trailer" => Untrailed(t)
  BY <1>4 DEF Untrailed
<1> QED BY <1>1, <1>5, <1>6 DEF t

(* While there is input to take there is no trailer. *)
LEMMA NoTrailerYet ==
  ASSUME TypeOK, TrailerLast, open, state = "INPUT", Emitted
  PROVE  Untrailed(sections)
<1> SUFFICES ASSUME NEW i \in 1..Len(sections), sections[i].kind = "trailer" PROVE FALSE
  BY DEF Untrailed
<1>1. i = Len(sections) /\ sections # <<>>
  <2>1. i = Len(sections)
    BY DEF Emitted, Sound
  <2>2. sections = <<>> => Len(sections) = 0
    OBVIOUS
  <2>3. Len(sections) \in Nat
    BY LenProperties DEF TypeOK
  <2> QED BY <2>1, <2>2, <2>3
<1>2. TrailerWritten
  BY <1>1 DEF TrailerWritten
<1> QED BY <1>2 DEF TrailerLast

(* BZ2_compressBlock keeps the sections sound, for a block that decodes to *)
(* the bytes behind its CRC.                                               *)
LEMMA CompressBlockSound ==
  ASSUME TypeOK, TrailerLast, open, state = "INPUT", Emitted,
         NEW blk \in Seq(Byte), NEW crc \in Seq(Byte), NEW last \in BOOLEAN,
         CompressBlock(blk, crc, last), UnRLE(blk).out = crc
  PROVE  Sound(sections', combinedCRC')
<1> DEFINE full == blk # <<>>
           comb == IF full THEN Append(combinedCRC, crc) ELSE combinedCRC
           h    == Section("header", <<>>, <<>>, Word)
           b(u) == Section("block", blk, <<crc>>, u)
           t    == Section("trailer", <<>>, comb, TrlUnits)
           hdr  == IF blockNo = 1 THEN <<h>> ELSE <<>>
           bdy(u) == IF full THEN <<b(u)>> ELSE <<>>
           trl  == IF last THEN <<t>> ELSE <<>>
<1>1. PICK u \in BlkUnits : combinedCRC' = comb /\ sections' = sections \o hdr \o bdy(u) \o trl
  BY DEF CompressBlock
<1>2. u \in Nat /\ Word \in Nat /\ TrlUnits \in Nat
  BY UnitAssumption
<1>3. combinedCRC \in Seq(Seq(Byte)) /\ comb \in Seq(Seq(Byte)) /\ <<crc>> \in Seq(Seq(Byte))
  BY AppendProperties DEF TypeOK
<1>4. h \in SectionType /\ b(u) \in SectionType /\ t \in SectionType
  <2> HIDE DEF comb
  <2>1. <<>> \in Seq(Byte) /\ <<>> \in Seq(Seq(Byte))
    OBVIOUS
  <2> QED BY <1>2, <1>3, <2>1 DEF Section, SectionType
<1>5. /\ h.kind = "header" /\ b(u).kind = "block" /\ t.kind = "trailer" /\ t.crc = comb
      /\ b(u).crc = <<UnRLE1(b(u).data)>> /\ UnRLE1(b(u).data) = crc
  <2> HIDE DEF comb
  <2> QED BY DEF Section, UnRLE1
<1> DEFINE s1 == sections \o hdr
           s2 == s1 \o bdy(u)
           s3 == s2 \o trl
<1>6. sections \in Seq(SectionType) /\ Sound(sections, combinedCRC) /\ Untrailed(sections)
  BY NoTrailerYet DEF TypeOK, Emitted
<1> HIDE DEF comb, h, b, t
<1>7. s1 \in Seq(SectionType) /\ Sound(s1, combinedCRC) /\ Untrailed(s1)
  <2>1. CASE blockNo = 1
    <3>1. s1 = Append(sections, h)
      BY <1>4, <1>6, <2>1, AppendIsConcat
    <3> HIDE DEF s1
    <3> QED BY <1>4, <1>5, <1>6, <3>1, AddSection
  <2>2. CASE blockNo # 1
    <3>1. s1 = sections
      BY <1>6, <2>2, ConcatEmptySeq
    <3> QED BY <1>6, <3>1
  <2> QED BY <2>1, <2>2
<1> HIDE DEF s1
<1>8. s2 \in Seq(SectionType) /\ Sound(s2, comb) /\ Untrailed(s2)
  <2>1. CASE full
    <3>1. s2 = Append(s1, b(u))
      BY <1>4, <1>7, <2>1, AppendIsConcat
    <3>2. comb = IF b(u).kind = "block" THEN Append(combinedCRC, UnRLE1(b(u).data)) ELSE combinedCRC
      BY <1>5, <2>1 DEF comb
    <3>3. b(u).kind # "trailer"
      BY <1>5
    <3> HIDE DEF s2
    <3> QED BY <1>4, <1>5, <1>7, <3>1, <3>2, <3>3, AddSection
  <2>2. CASE ~full
    <3>1. s2 = s1 /\ comb = combinedCRC
      BY <1>7, <2>2, ConcatEmptySeq DEF comb
    <3> QED BY <1>7, <3>1
  <2> QED BY <2>1, <2>2
<1> HIDE DEF s2
<1>9. Sound(s3, comb)
  <2>1. CASE last
    <3>1. s3 = Append(s2, t)
      BY <1>4, <1>8, <2>1, AppendIsConcat
    <3>2. comb = IF t.kind = "block" THEN Append(comb, UnRLE1(t.data)) ELSE comb
      BY <1>5
    <3> HIDE DEF s3
    <3> QED BY <1>4, <1>5, <1>8, <3>1, <3>2, AddSection
  <2>2. CASE ~last
    <3>1. s3 = s2
      BY <1>8, <2>2, ConcatEmptySeq
    <3> QED BY <1>8, <3>1
  <2> QED BY <2>1, <2>2
<1> QED BY <1>1, <1>9 DEF s1, s2

-----------------------------------------------------------------------------
(* The block being filled *)

(* What Filling says of a block, its CRC and a pending run. *)
Fills(blk, crc, ch) ==
  /\ UnRLE(blk).out = crc /\ UnRLE(blk).n < 4
  /\ IF ch < NoCh THEN UnRLE(blk).n = 0 \/ UnRLE(blk).ch # ch ELSE blk = <<>>

(* A run that enters the block leaves it ready for another byte, or for    *)
(* the same one if the run was as long as a run can be.                    *)
LEMMA PairFills ==
  ASSUME TypeOK, RunPending, Fills(block, blockCRC, inCh), inCh < NoCh,
         block' = block \o Pair(inCh, inLen), blockCRC' = blockCRC \o Run(inCh, inLen)
  PROVE  /\ UnRLE(block').out = blockCRC' /\ UnRLE(block').n < 4
         /\ \A c \in Bytes : c # inCh \/ inLen = MaxRun => Fills(block', blockCRC', c)
<1>1. inCh \in Byte /\ inLen \in 1..MaxRun /\ block \in Seq(Byte)
  BY MaxRunAssumption, BytesAssumption DEF TypeOK, RunPending, NoCh, Byte
<1>2. UnRLE(block).n < 4 /\ (UnRLE(block).n = 0 \/ UnRLE(block).ch # inCh)
      /\ UnRLE(block).out = blockCRC
  BY DEF Fills
<1>3. /\ UnRLE(block').out = blockCRC' /\ UnRLE(block').ch = inCh
      /\ UnRLE(block').n = IF inLen < 4 THEN inLen ELSE 0
  <2> DEFINE d == UnRLE(block \o Pair(inCh, inLen))
  <2>1. /\ d.out = UnRLE(block).out \o Run(inCh, inLen) /\ d.ch = inCh
        /\ d.n = IF inLen < 4 THEN inLen ELSE 0
    <3> DEFINE s   == block
               ch  == inCh
               len == inLen
    <3>1. /\ s \in Seq(Byte) /\ ch \in Byte /\ len \in 1..MaxRun
          /\ UnRLE(s).n < 4 /\ (UnRLE(s).n = 0 \/ UnRLE(s).ch # ch)
      BY <1>1, <1>2
    <3> HIDE DEF s, ch, len, d
    <3>2. /\ UnRLE(s \o Pair(ch, len)).out = UnRLE(s).out \o Run(ch, len)
          /\ UnRLE(s \o Pair(ch, len)).ch = ch
          /\ UnRLE(s \o Pair(ch, len)).n = IF len < 4 THEN len ELSE 0
      BY ONLY <3>1, PairDecodes
    <3> QED BY <3>2 DEF s, ch, len, d
  <2>2. UnRLE(block') = d
    OBVIOUS
  <2> HIDE DEF d
  <2> QED BY <1>2, <2>1, <2>2
<1>4. UnRLE(block').n < 4
  BY <1>1, <1>3
<1>5. ASSUME NEW c \in Bytes, c # inCh \/ inLen = MaxRun PROVE Fills(block', blockCRC', c)
  <2>1. c < NoCh
    BY BytesAssumption DEF NoCh
  <2>2. inLen = MaxRun => UnRLE(block').n = 0
    BY <1>3, MaxRunAssumption
  <2> QED BY <1>3, <1>4, <1>5, <2>1, <2>2 DEF Fills
<1> QED BY <1>3, <1>4, <1>5

(* A byte absorbed keeps what Filling says. *)
LEMMA AbsorbFills ==
  ASSUME TypeOK, RunPending, Fills(block, blockCRC, inCh), NEW c \in Bytes, ADD_CHAR_TO_BLOCK(c)
  PROVE  Fills(block', blockCRC', inCh')
<1>1. CASE c # inCh /\ inLen = 1
  <2>1. inCh \in Byte /\ inCh < NoCh
    BY <1>1, BytesAssumption DEF TypeOK, RunPending, NoCh, Byte
  <2>2. block' = Append(block, inCh) /\ blockCRC' = Append(blockCRC, inCh) /\ inCh' = c
    BY <1>1 DEF ADD_CHAR_TO_BLOCK
  <2>3. Pair(inCh, inLen) = <<inCh>> /\ Run(inCh, inLen) = <<inCh>>
    <3>1. Run(inCh, 1) = <<inCh>>
      BY <2>1, RunGrows
    <3>2. Pair(inCh, 1) = Run(inCh, 1)
      BY DEF Pair, Run
    <3> QED BY <1>1, <3>1, <3>2
  <2>4. block' = block \o Pair(inCh, inLen) /\ blockCRC' = blockCRC \o Run(inCh, inLen)
    BY <2>1, <2>2, <2>3, AppendIsConcat, ZenonT(60) DEF TypeOK
  <2> QED BY <1>1, <2>1, <2>2, <2>4, PairFills
<1>2. CASE ~(c # inCh /\ inLen = 1) /\ (c # inCh \/ inLen = MaxRun)
  <2>1. inCh' = c
    BY <1>2 DEF ADD_CHAR_TO_BLOCK
  <2>2. CASE inCh < NoCh
    <3>1. block' = block \o Pair(inCh, inLen) /\ blockCRC' = blockCRC \o Run(inCh, inLen)
      BY <1>2, <2>2 DEF ADD_CHAR_TO_BLOCK, add_pair_to_block
    <3> QED BY <1>2, <2>1, <2>2, <3>1, PairFills
  <2>3. CASE ~(inCh < NoCh)
    <3>1. block' = block /\ blockCRC' = blockCRC
      BY <1>2, <2>3 DEF ADD_CHAR_TO_BLOCK
    <3>2. block = <<>> /\ UnRLE(block).out = blockCRC
      BY <2>3 DEF Fills
    <3>3. UnRLE(<<>>).n = 0
      BY UnRLEOne DEF Start, TypeOK
    <3> QED BY <3>1, <3>2, <3>3 DEF Fills
  <2> QED BY <2>2, <2>3
<1>3. CASE c = inCh /\ inLen # MaxRun
  <2>1. block' = block /\ blockCRC' = blockCRC /\ inCh' = inCh
    BY <1>3 DEF ADD_CHAR_TO_BLOCK
  <2> QED BY <2>1
<1> QED BY <1>1, <1>2, <1>3

(* The block that is cut decodes to what its CRC covers. *)
LEMMA CutFills ==
  ASSUME TypeOK, RunPending, Fills(block, blockCRC, inCh), CutRest \/ CutFull
  PROVE  UnRLE(block').out = blockCRC'
<1>1. CASE CutRest /\ inCh < NoCh
  <2>1. block' = block \o Pair(inCh, inLen) /\ blockCRC' = blockCRC \o Run(inCh, inLen)
    BY <1>1 DEF CutRest, add_pair_to_block
  <2> QED BY <1>1, <2>1, PairFills
<1>2. CASE CutFull \/ ~(inCh < NoCh)
  <2>1. block' = block /\ blockCRC' = blockCRC
    BY <1>2 DEF CutRest, CutFull, rle
  <2> QED BY <2>1 DEF Fills
<1> QED BY <1>1, <1>2

-----------------------------------------------------------------------------
(* The steps *)

(* At first there is no stream. *)
LEMMA DataAtFirst == Init => DataInv
BY DEF Init, DataInv, Filling, Emitted, Placed

(* Every step keeps the block, the sections and the bytes read together. *)
LEMMA DataStep == IInv /\ RefInv /\ DataInv /\ [Next]_vars => DataInv'
<1> SUFFICES ASSUME IInv, RefInv, DataInv, [Next]_vars
             PROVE  DataInv'
  OBVIOUS
<1>0. /\ TypeOK /\ RunPending /\ Buffers /\ BlockRoom /\ Numbering /\ TrailerLast
      /\ Covers /\ HoldShort /\ Filling /\ Emitted /\ Placed
      /\ combinedCRC \in Seq(Seq(Byte)) /\ consumed \in Seq(Byte)
  <2>1. consumed \in Seq(Byte)
    <3>1. consumed \in Seq(Bytes)
      BY DEF IInv, TypeOK
    <3>2. Len(consumed) \in Nat /\ consumed \in [1..Len(consumed) -> Byte]
      <4>1. \A i \in 1..Len(consumed) : consumed[i] \in Byte
        BY <3>1, ElementOfSeq, BytesAssumption DEF Byte
      <4> QED BY <3>1, <4>1, LenProperties
    <3> QED BY <3>2, SeqDef
  <2> QED BY <2>1 DEF IInv, RefInv, DataInv, TypeOK
<1>f. Filling = (open /\ state = "INPUT" => Fills(block, blockCRC, inCh))
      /\ Filling' = (open' /\ state' = "INPUT" => Fills(block', blockCRC', inCh'))
  BY DEF Filling, Fills
<1>j. Joined(combinedCRC) \in Seq(Byte) /\ InRun \in Seq(Byte) /\ Inside \in Seq(Byte)
  BY <1>0, JoinedOne, InsideIsSeq
<1>s. ASSUME UNCHANGED <<open, state, block, blockCRC, inCh, inLen, combinedCRC, sections, consumed>>
      PROVE  DataInv'
  <2>1. Inside' = Inside
    BY <1>s DEF Inside, InRun
  <2> QED BY <1>0, <1>s, <2>1 DEF DataInv, Filling, Emitted, Placed
<1>1. CASE CompressInitOK
  <2>1. /\ block' = <<>> /\ blockCRC' = <<>> /\ inCh' = NoCh /\ inLen' = 0 /\ state' = "INPUT"
        /\ combinedCRC' = <<>> /\ sections' = <<>> /\ consumed' = <<>>
    BY <1>1 DEF CompressInitOK, init_RL
  <2>2. UnRLE(<<>>) = Start /\ Decoded(<<>>) = <<>> /\ Joined(<<>>) = <<>>
    BY <1>0, UnRLEOne, DecodedOne, JoinedOne DEF TypeOK
  <2>3. Filling'
    <3>1. Start.out = <<>> /\ Start.n = 0 /\ ~(NoCh < NoCh)
      BY DEF Start, NoCh
    <3> QED BY <2>1, <2>2, <3>1 DEF Filling
  <2>4. Emitted'
    <3>1. Sound(<<>>, <<>>)
      BY <2>2 DEF Sound
    <3> QED BY <2>1, <3>1 DEF Emitted
  <2>5. Placed'
    <3>1. InRun' = <<>>
      BY <2>1 DEF InRun, Run
    <3>2. Inside' = <<>>
      BY <2>1, <3>1 DEF Inside
    <3> QED BY <2>1, <2>2, <3>2 DEF Placed
  <2> QED BY <2>3, <2>4, <2>5 DEF DataInv
<1>2. CASE CompressInitFails
  BY <1>2, <1>s DEF CompressInitFails, rle, coder, hist
<1>3. CASE CompressEnd
  BY <1>3 DEF CompressEnd, DataInv, Filling, Emitted, Placed
<1>4. CASE NoState
  BY <1>4, <1>s DEF NoState, rle, coder, hist
<1>5. CASE \E a \in Actions, n \in 0..MaxIn, m \in 0..MaxOut : Enter(a, n, m)
  BY <1>5, <1>s DEF Enter, rle, coder, hist
<1>6. CASE \E a \in Actions, n \in 0..MaxIn, m \in 0..MaxOut : Refuse(a, n, m)
  BY <1>6, <1>s DEF Refuse, rle, coder, hist
<1>7. CASE AbsorbByte
  <2>1. PICK c \in Bytes : ADD_CHAR_TO_BLOCK(c) /\ consumed' = Append(consumed, c)
    BY <1>7 DEF AbsorbByte
  <2>2. state = "INPUT" /\ UNCHANGED <<open, state, combinedCRC, sections>> /\ c \in Byte
    BY <1>7, BytesAssumption DEF AbsorbByte, coder, Byte
  <2>3. Filling'
    BY <1>0, <1>f, <2>1, <2>2, AbsorbFills
  <2>4. Emitted'
    BY <1>0, <2>2 DEF Emitted
  <2>5. ASSUME open PROVE consumed' = Joined(combinedCRC) \o Inside'
    <3>1. Inside' = Append(Inside, c)
      BY <1>0, <2>1, <2>2, AbsorbAppends
    <3>2. consumed = Joined(combinedCRC) \o Inside
      BY <1>0, <2>5 DEF Placed
    <3> DEFINE j == Joined(combinedCRC)
               r == Inside
    <3>3. j \in Seq(Byte) /\ r \in Seq(Byte) /\ <<c>> \in Seq(Byte)
      BY <1>j, <2>2
    <3> HIDE DEF j, r
    <3>4. j \o (r \o <<c>>) = (j \o r) \o <<c>> /\ j \o r \in Seq(Byte)
      BY <3>3, Associative, ConcatProperties
    <3>5. Append(r, c) = r \o <<c>> /\ Append(j \o r, c) = (j \o r) \o <<c>>
      BY <2>2, <3>3, <3>4, AppendIsConcat
    <3> QED BY <2>1, <3>1, <3>2, <3>4, <3>5 DEF j, r
  <2> QED BY <2>2, <2>3, <2>4, <2>5 DEF DataInv, Placed
<1>8. CASE CutRest \/ CutFull
  <2>1. UNCHANGED <<open, consumed>>
    BY <1>8 DEF CutRest, CutFull
  <2>o. CASE ~open
    BY <2>1, <2>o DEF DataInv, Filling, Emitted, Placed
  <2>p. CASE open
    <3> DEFINE last == CutRest /\ mode = "FINISHING"
    <3>1. /\ state = "INPUT" /\ state' = "OUTPUT" /\ block' \in Seq(Byte) /\ blockCRC' \in Seq(Byte)
          /\ CompressBlock(block', blockCRC', last) /\ Covers'
          /\ CutRest => blockCRC' = Inside /\ InRun' = <<>>
          /\ CutFull => blockCRC' = blockCRC /\ InRun' = InRun
      BY <1>0, <1>8, <2>p, CutCalls
    <3>2. UnRLE(block').out = blockCRC'
      BY <1>0, <1>8, <1>f, <2>p, <3>1, CutFills
    <3>3. last \in BOOLEAN
      OBVIOUS
    <3> HIDE DEF last
    <3>4. Sound(sections', combinedCRC')
      BY <1>0, <2>p, <3>1, <3>2, <3>3, CompressBlockSound
    <3>5. combinedCRC' = IF block' # <<>> THEN Append(combinedCRC, blockCRC') ELSE combinedCRC
      BY <1>0, <2>p, <3>1, <3>3, CompressBlockShown
    <3>6. Inside = blockCRC' \o Inside' /\ Inside' \in Seq(Byte)
      <4>1. Inside = blockCRC \o InRun /\ Inside' = <<>> \o InRun' /\ <<>> \in Seq(Byte)
        BY <3>1 DEF Inside
      <4>2. CASE CutRest
        <5>1. Inside' = <<>> /\ blockCRC' = Inside
          BY <3>1, <4>1, <4>2
        <5> QED BY <1>j, <4>1, <5>1, ConcatEmptySeq
      <4>3. CASE CutFull
        <5>1. Inside' = InRun
          BY <1>j, <3>1, <4>1, <4>3, ConcatEmptySeq
        <5> QED BY <1>j, <3>1, <4>1, <4>3, <5>1
      <4> QED BY <1>8, <4>2, <4>3
    <3>7. consumed' = Joined(combinedCRC') \o Inside'
      <4> DEFINE j == Joined(combinedCRC)
                 k == blockCRC'
                 r == Inside'
      <4>1. consumed' = j \o (k \o r)
        BY <1>0, <2>1, <2>p, <3>6 DEF Placed
      <4>2. j \in Seq(Byte) /\ k \in Seq(Byte) /\ r \in Seq(Byte)
        BY <1>j, <3>1, <3>6
      <4>3. Joined(combinedCRC') = j \o k
        <5>1. CASE block' # <<>>
          BY <1>0, <3>1, <3>5, <5>1, JoinedOne
        <5>2. CASE block' = <<>>
          <6>1. k = <<>> /\ Joined(combinedCRC') = j
            BY <3>1, <3>5, <5>2 DEF Covers
          <6> HIDE DEF j, k
          <6> QED BY <4>2, <6>1, ConcatEmptySeq
        <5> QED BY <5>1, <5>2
      <4> HIDE DEF j, k, r
      <4>4. j \o (k \o r) = (j \o k) \o r
        BY <4>2, Associative
      <4> QED BY <4>1, <4>3, <4>4 DEF r
    <3> QED BY <3>1, <3>4, <3>7 DEF DataInv, Filling, Emitted, Placed
  <2> QED BY <2>o, <2>p
<1>9. CASE Starve
  BY <1>9, <1>s DEF Starve, rle, coder, hist
<1>10. CASE OutputStops
  BY <1>10, <1>s DEF OutputStops, rle
<1>11. CASE OutputNextBlock
  <2>1. /\ UNCHANGED <<open, combinedCRC, sections, consumed, inCh, inLen>> /\ state = "OUTPUT"
        /\ block' = <<>> /\ blockCRC' = <<>>
    BY <1>11 DEF OutputNextBlock, prepare_new_block
  <2>2. Inside' = Inside
    <3>1. Inside = <<>> \o InRun /\ InRun' = InRun
      BY <2>1 DEF Inside, InRun
    <3>2. (IF state' = "INPUT" THEN blockCRC' ELSE <<>>) = <<>>
      BY <2>1
    <3> QED BY <3>1, <3>2 DEF Inside
  <2>3. UnRLE(<<>>) = Start /\ Start.out = <<>> /\ Start.n = 0
    BY <1>0, UnRLEOne DEF TypeOK, Start
  <2>4. Filling'
    BY <2>1, <2>3 DEF Filling
  <2> QED BY <1>0, <2>1, <2>2, <2>4 DEF DataInv, Emitted, Placed
<1>12. CASE Return
  BY <1>12, <1>s DEF Return, rle, coder, hist
<1>13. CASE UNCHANGED vars
  BY <1>13, <1>s DEF vars, rle, coder, hist
<1> QED BY <1>1, <1>2, <1>3, <1>4, <1>5, <1>6, <1>7, <1>8, <1>9, <1>10, <1>11, <1>12, <1>13
     DEF Next, Library, Caller

(* The data invariant, with the two it rests on. *)
LEMMA DataIsKept == Spec => [](IInv /\ DataInv)
<1>1. Spec => []RefInv
  BY InitShort, Invariance, RefInvStep, PTL DEF Spec
<1> QED BY <1>1, Invariance, DataAtFirst, DataStep, PTL DEF Spec

-----------------------------------------------------------------------------
(* The properties *)

(* The blocks that were emitted, the block that is filled and the pending  *)
(* run decode, in this order, to the bytes the library has read: runs that *)
(* cross calls, flushes and full blocks are coded so that they come back.  *)
THEOREM InputIsDecodable == Spec => []NoInputLost
<1>1. IInv /\ DataInv => NoInputLost
  <2> SUFFICES ASSUME IInv, DataInv, open
               PROVE  consumed = InBlocks \o InBlock \o InRun
    BY DEF NoInputLost
  <2>1. TypeOK /\ RunPending /\ Decoded(sections) = combinedCRC
        /\ consumed = Joined(combinedCRC) \o Inside
    BY DEF IInv, DataInv, Emitted, Sound, Placed
  <2> DEFINE b == IF state = "INPUT" THEN blockCRC ELSE <<>>
  <2>2. InBlocks = Joined(combinedCRC) /\ Inside = b \o InRun
    BY <2>1 DEF InBlocks, Inside
  <2>3. InBlock = b
    <3>1. state = "INPUT" => UnRLE(block).out = blockCRC
      BY DEF DataInv, Filling
    <3> QED BY <3>1 DEF InBlock, UnRLE1
  <2>4. InBlocks \in Seq(Byte) /\ b \in Seq(Byte) /\ InRun \in Seq(Byte)
    <3>1. combinedCRC \in Seq(Seq(Byte)) /\ blockCRC \in Seq(Byte) /\ <<>> \in Seq(Byte)
      BY <2>1 DEF TypeOK
    <3>2. Joined(combinedCRC) \in Seq(Byte)
      BY <3>1, JoinedOne
    <3>3. InRun \in Seq(Byte)
      BY <2>1, InsideIsSeq
    <3> QED BY <2>2, <3>1, <3>2, <3>3
  <2> HIDE DEF b
  <2>5. InBlocks \o (b \o InRun) = (InBlocks \o b) \o InRun
    BY <2>4, Associative
  <2> QED BY <2>1, <2>2, <2>3, <2>5
<1> QED BY <1>1, DataIsKept, PTL

(* The CRC of every block is of the bytes the block decodes to, and the    *)
(* trailer combines those of all the blocks in their order.                *)
THEOREM CRCsAreOfTheData == Spec => []CRCsMatch
<1>1. IInv /\ DataInv => CRCsMatch
  BY DEF DataInv, Emitted, Sound, CRCsMatch
<1> QED BY <1>1, DataIsKept, PTL

=============================================================================
