---------------------------- MODULE MCBlockCodec ----------------------------
(* Small blocks over nine bytes: every block of up to three of four bytes, and
   longer ones with runs, with several groups and tables, periodic and random
   ones, and some whose bytes are far from the front of the list when they come. *)
EXTENDS BlockCodec

Block(q) == [k \in 0..(Len(q) - 1) |-> q[k + 1]]
Short == UNION {[0..(n - 1) -> {0, 1, 4, 7}] : n \in 1..3} \cup [0..3 -> {0, 7}] \cup [0..6 -> {2}]
Long == {Block(q) : q \in {<<0,0,0,0,2>>, <<1,1,1,1>>, <<1,1,1,1,0,1>>, <<0,1,0,1,0,1>>,
                           <<3,3,3,3,1,2,2,0>>, <<0,2,1,3,0,2,1,3>>, <<2,0,1,2,3,0,0,1>>,
                           <<3,2,1,0,0,0,0,1>>, <<1,0,1,1,0,1,1,0>>,
                           <<7,6,5,4,3,2,1,0>>, <<4,7,0,6,2,7,0,5,1>>, <<1,7,3,5,6,0,2,4>>}}
MCDamagedBlocks == {Block(q) : q \in {<<0,1>>, <<2,2,2,2,2,2,2>>, <<3,3,3,3,1,2>>, <<2,0,1,2,3,0>>}}
MCEarlierBlocks == {Block(q) : q \in {<<0,7,7,0>>, <<1,1,1,1>>, <<0,1,0,1,0,1>>, <<1,0,1,1,0,1,1,0>>}}
MCFailingBlocks == {Block(q) : q \in {<<2,2,2,2,2,2,2>>, <<0,0,7,0,7,7,0>>}}
MCLeftover == {-1, 0, 8}
MCBlocks == MCFailingBlocks \cup Short \cup Long \cup MCDamagedBlocks
\* For the failed sort: memory that holds -1, at which a first block is stopped, and
\* an earlier block that is longer than the one that follows.
MCNoOrder == {-1}
MCLongerBlock == {Block(<<1,0,1,1,0,1,1,0>>)}
MCFewBlocks == MCLongerBlock \cup MCFailingBlocks
MCThresholds == <<4, 6, 7, 9>>
MCRNums == <<3, 2, 4>>
=============================================================================
