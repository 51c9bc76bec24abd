---------------------------- MODULE Accumulation ----------------------------
(* What step makes of start and the elements of s, one after the other: a   *)
(* function of the prefixes of s, so that it can be reasoned about.         *)
EXTENDS Integers, Sequences

Accumulate(step, start, s) ==
  LET after[i \in 0..Len(s)] == IF i = 0 THEN start ELSE step[<<after[i - 1], s[i]>>]
  IN  after[Len(s)]
=============================================================================
