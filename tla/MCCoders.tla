------------------------------ MODULE MCCoders ------------------------------
(* Small alphabets with frequencies that make deep trees, all short code
   lengths, and buffers with a single bit, of lengths on both sides of every
   branch: the CRC is linear over GF(2), so those stand for all of that length. *)
EXTENDS Coders

MCFrequencies == [0..4 -> {0, 1, 2, 5, 13}]
MCLimits == {3, 17}
MCLengths == [0..3 -> 1..5]
Lengths4 == {0, 1, 5, 8, 9, 17, 63, 64, 79, 80, 129, 144}
Empty(n) == [k \in 1..n |-> {}]
Probes(n) == {1, 2, 7, 8, 9, 16, 17, 40, 64, 65, n - 1, n} \cap 1..n
MCBuffers ==
  {[crc |-> {b}, buf |-> Empty(n), align |-> a] : b \in {0, 7, 8, 30, 31}, n \in Lengths4, a \in 0..3}
  \cup UNION {{[crc |-> {}, buf |-> [Empty(n) EXCEPT ![k] = {b}], align |-> a] :
                 b \in {0, 3, 7}, k \in Probes(n), a \in {0, 3}} : n \in Lengths4}
MCClassVectors == [0..6 -> 0..2] \cup {[i \in 0..15 |-> (x * i * i + y * i) % m] : x \in 0..3, y \in 0..7, m \in {3, 7, 16, 17}}

\* With Overshoot 7: longer than that, as the main sort asks.  Around a rare byte the
\* same word twice: comparisons that go on past the end of the block, into ranks known.
FromZero(s) == [i \in 0..(Len(s) - 1) |-> s[i + 1]]
Repeats == {FromZero(<<2>> \o x \o <<2, y>> \o p \o <<2, 1 - y>> \o p) :
              p \in [1..4 -> 0..1], y \in 0..1, x \in {<<0>>, <<1, 1, 1>>}}
MCLargeBlocks == {b \in [0..7 -> 0..2] : b[0] = 0 /\ b[1] # 0} \cup {b \in [0..8 -> 0..1] : \E i \in 1..8 : b[i] # b[0]} \cup Repeats
MCWorkFactors == {1, 30}
=============================================================================
