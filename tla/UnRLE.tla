-------------------------------- MODULE UnRLE --------------------------------
(***************************************************************************)
(* From the last column of the sorted rotations to the bytes delivered:    *)
(* the inverse of the block sort in normal and in small mode               *)
(* (decompress.c, 640-720), and the state machine that undoes the runs, in *)
(* its cached, its plain and its derandomising form (bzlib.c, 542-815).    *)
(***************************************************************************)
EXTENDS BlockFormat

CONSTANTS
  RNums,       \* BZ2_rNums, a sequence (512 numbers)
  LowBits      \* bits of an entry of ll16 (16)

ASSUME UnRLEAssumption ==
  /\ RNums \in Seq(Nat \ {0}) /\ RNums # <<>> /\ LowBits \in Nat

----------------------------------------------------------------------------
(* The vectors.  col is the column that was decoded, a sequence; cftab[b]
   is the number of bytes in it below b. *)

Cftab(col) == [b \in 0..(MapWidth * MapWidth) |-> Len(SelectSeq(col, LAMBDA c : c < b))]

\* Where row i of the last column stands in the first: cftab[uc], counted up at each use.
Placed(col, i) ==
  Cftab(col)[col[i + 1]] + Cardinality({j \in 0..(i - 1) : col[j + 1] = col[i + 1]})

\* tt in normal mode: the byte of a row, and above it the row that was placed there.
FastVector(col) ==
  [k \in 0..(Len(col) - 1) |->
     [byte |-> col[k + 1], next |-> CHOOSE i \in 0..(Len(col) - 1) : Placed(col, i) = k]]

\* ll16 and ll4 in small mode; two entries share a byte of ll4, which comes uncleared.
SET_LL(ll, i, n) ==
  LET hi == n \div 2^LowBits
      old == ll.ll4[i \div 2]
  IN  [ll16 |-> [ll.ll16 EXCEPT ![i] = n % 2^LowBits],
       ll4 |-> [ll.ll4 EXCEPT ![i \div 2] = IF i % 2 = 0 THEN 16 * (old \div 16) + hi
                                                         ELSE 16 * hi + (old % 16)]]
GET_LL(ll, i) ==
  ll.ll16[i] + 2^LowBits * (IF i % 2 = 0 THEN ll.ll4[i \div 2] % 16 ELSE ll.ll4[i \div 2] \div 16)

Uncleared(n) == [ll16 |-> [i \in 0..(n - 1) |-> 0], ll4 |-> [i \in 0..((n - 1) \div 2) |-> 255]]

RECURSIVE PlaceRows(_, _, _)
PlaceRows(ll, col, i) ==
  IF i = Len(col) THEN ll ELSE PlaceRows(SET_LL(ll, i, Placed(col, i)), col, i + 1)

\* The cycle of origPtr, reversed in place.
RECURSIVE Reverse_LL(_, _, _, _)
Reverse_LL(ll, i, j, origPtr) ==
  LET reversed == SET_LL(ll, j, i)
  IN  IF j = origPtr THEN reversed ELSE Reverse_LL(reversed, j, GET_LL(ll, j), origPtr)

SmallVector(col, origPtr) ==
  LET ll == PlaceRows(Uncleared(Len(col)), col, 0)
  IN  Reverse_LL(ll, origPtr, GET_LL(ll, origPtr), origPtr)

RECURSIVE Bisect(_, _, _, _)
Bisect(indx, cftab, nb, na) ==
  LET mid == (nb + na) \div 2
      nb1 == IF indx >= cftab[mid] THEN mid ELSE nb
      na1 == IF indx >= cftab[mid] THEN na ELSE mid
  IN  IF na1 - nb1 = 1 THEN nb1 ELSE Bisect(indx, cftab, nb1, na1)
BZ2_indexIntoF(indx, cftab) == Bisect(indx, cftab, 0, MapWidth * MapWidth)

----------------------------------------------------------------------------
(* Output.  v is the block: mode "fast", "small", with randomised, the
   vector, cftab, and n bytes.  u is the state that is kept from call to
   call, with the output of the call: what was written, what of it went
   into the CRC, the room left, and the verdict bad. *)

Masked(b, u) == IF u.toGo # 1 THEN b ELSE IF b % 2 = 0 THEN b + 1 ELSE b - 1

\* BZ_RAND_UPD_MASK
Randomised(u) ==
  LET loaded == IF u.toGo # 0 THEN u
                ELSE [u EXCEPT !.toGo = RNums[u.rTPos + 1], !.rTPos = (u.rTPos + 1) % Len(RNums)]
  IN  [loaded EXCEPT !.toGo = @ - 1]

\* BZ_GET_FAST, BZ_GET_SMALL, with the mask where there is one, into k1.
Get(v, u) ==
  LET byte == IF v.small THEN BZ2_indexIntoF(u.tPos, v.cftab) ELSE v.tt[u.tPos].byte
      next == IF v.small THEN GET_LL(v.ll, u.tPos) ELSE v.tt[u.tPos].next
      r == IF v.randomised THEN Randomised(u) ELSE u
  IN  IF u.bad \/ u.tPos >= nblockMAX THEN [u EXCEPT !.bad = TRUE]
      ELSE [r EXCEPT !.k1 = IF v.randomised THEN Masked(byte, r) ELSE byte,
                     !.tPos = next, !.used = @ + 1]

\* The state a block is delivered from: its first byte is in k0.
OutputStart(v, origPtr) ==
  LET u == Get(v, [tPos |-> IF v.small THEN origPtr ELSE v.tt[origPtr].next, k0 |-> 0, k1 |-> 0,
                   used |-> 0, len |-> 0, ch |-> 0, toGo |-> 0, rTPos |-> 0,
                   out |-> <<>>, crc |-> <<>>, room |-> 0, bad |-> FALSE])
  IN  [u EXCEPT !.k0 = u.k1]

Copies(n, ch) == [k \in 1..n |-> ch]
Write(u, n) ==
  [u EXCEPT !.out = @ \o Copies(n, u.ch), !.crc = @ \o Copies(n, u.ch), !.room = @ - n, !.len = @ - n]
Fewer(a, b) == IF a < b THEN a ELSE b

\* unRLE_obuf_to_output_SMALL, and FAST for a randomised block.
RECURSIVE PlainLoop(_, _), PlainRun(_, _, _)
PlainLoop(v, u) ==
  LET d == Write(u, Fewer(u.len, u.room))
  IN  IF u.bad THEN u
      ELSE IF d.room = 0 \/ d.used = v.n + 1 THEN d
      ELSE IF d.used > v.n + 1 THEN [d EXCEPT !.bad = TRUE]
      ELSE PlainRun(v, [d EXCEPT !.ch = d.k0], 1)

\* n bytes of a run are known; the byte after them is fetched.
PlainRun(v, u, n) ==
  LET g == [Get(v, u) EXCEPT !.len = n]
      count == Get(v, g)
      first == Get(v, count)
  IN  IF g.bad \/ g.used = v.n + 1 THEN PlainLoop(v, g)
      ELSE IF g.k1 # g.k0 THEN PlainLoop(v, [g EXCEPT !.k0 = g.k1])
      ELSE IF n < 3 THEN PlainRun(v, g, n + 1)
      ELSE PlainLoop(v, [first EXCEPT !.len = count.k1 + 4, !.k0 = first.k1])

\* unRLE_obuf_to_output_FAST: a run but its last byte is written at once, the last one by
\* FastOne, which leaves len as it is; at return_notr all of u is saved.
RECURSIVE FastLoop(_, _), FastOne(_, _), FastNext(_, _), FastRun(_, _, _)
FastLoop(v, u) ==
  LET d == Write(u, Fewer(u.len - 1, u.room))
  IN  IF u.bad THEN u
      ELSE IF u.len = 0 THEN FastNext(v, u)
      ELSE IF d.room = 0 THEN d
      ELSE FastOne(v, d)

FastOne(v, u) ==
  IF u.room = 0 THEN [u EXCEPT !.len = 1]
  ELSE FastNext(v, [Write(u, 1) EXCEPT !.len = u.len])

FastNext(v, u) ==
  LET g == Get(v, [u EXCEPT !.ch = u.k0])
  IN  IF u.used > v.n + 1 THEN [u EXCEPT !.bad = TRUE]
      ELSE IF u.used = v.n + 1 THEN [u EXCEPT !.len = 0]
      ELSE IF g.bad THEN g
      ELSE IF g.k1 # g.k0 THEN FastOne(v, [g EXCEPT !.k0 = g.k1])
      ELSE IF g.used = v.n + 1 THEN FastOne(v, g)
      ELSE FastRun(v, g, 2)

FastRun(v, u, n) ==
  LET g == [Get(v, u) EXCEPT !.len = n]
      count == Get(v, g)
      first == Get(v, count)
  IN  IF g.bad \/ g.used = v.n + 1 THEN FastLoop(v, g)
      ELSE IF g.k1 # g.k0 THEN FastLoop(v, [g EXCEPT !.k0 = g.k1])
      ELSE IF n < 3 THEN FastRun(v, g, n + 1)
      ELSE FastLoop(v, [first EXCEPT !.len = count.k1 + 4, !.k0 = first.k1])

\* One call with this much room.  The cached form loses what it wrote when the block is bad.
Deliver(v, u, room) ==
  LET start == [u EXCEPT !.out = <<>>, !.room = room]
      end == IF v.small \/ v.randomised THEN PlainLoop(v, start) ELSE FastLoop(v, start)
  IN  IF end.bad /\ ~(v.small \/ v.randomised) THEN [start EXCEPT !.bad = TRUE] ELSE end
=============================================================================
