--------------------------- MODULE CompressStream ---------------------------
(***************************************************************************)
(* What a compression stream promises its caller, without buffers, calls,  *)
(* return codes or a block size: bytes are accepted, cut into blocks in    *)
(* the order they came, and the stream of header, blocks and trailer is    *)
(* delivered piece by piece.  A flush is over when every byte accepted is  *)
(* in a block and all the output but a remainder is delivered; the stream  *)
(* ends when its trailer is delivered too.                                 *)
(***************************************************************************)
EXTENDS Integers, Sequences

CONSTANTS
  Bytes,      \* the bytes a caller may supply
  Remainder   \* what a flush may leave undelivered

VARIABLES
  phase,      \* "closed", "running", "flushing", "finishing", "ended"
  owed,       \* the bytes a flush or a finish has still to accept
  inside,     \* the bytes accepted that are in no block yet
  covered,    \* the data of the blocks, in their order
  stream,     \* the sections produced: their kind, the data their CRCs cover
  left        \* the output that is produced and not delivered

vars == <<phase, owed, inside, covered, stream, left>>

Sealed == stream # <<>> /\ stream[Len(stream)].kind = "trailer"

Fresh == owed = 0 /\ inside = <<>> /\ covered = <<>> /\ stream = <<>> /\ left = 0
Init  == phase = "closed" /\ Fresh

Open  == phase = "closed" /\ phase' = "running" /\ Fresh'
Close == phase # "closed" /\ phase' = "closed" /\ Fresh'

Ask == /\ phase = "running"
       /\ phase' \in {"flushing", "finishing"} /\ owed' \in Nat
       /\ UNCHANGED <<inside, covered, stream, left>>

Accept == /\ \E b \in Bytes : inside' = Append(inside, b)
          /\ \/ phase = "running" /\ UNCHANGED owed
             \/ phase \in {"flushing", "finishing"} /\ owed > 0 /\ owed' = owed - 1
          /\ UNCHANGED <<phase, covered, stream, left>>

(* The first k bytes become a block; the first cut writes the header, the  *)
(* cut that takes the last byte of a finish writes the trailer, which      *)
(* combines the CRCs of all the blocks.                                    *)
Header    == IF stream = <<>> THEN <<[kind |-> "header", crc |-> <<>>]>> ELSE <<>>
Block(d)  == IF d # <<>> THEN <<[kind |-> "block", crc |-> <<d>>]>> ELSE <<>>
Trailer(last, ds) == IF last THEN <<[kind |-> "trailer", crc |-> ds]>> ELSE <<>>

Cut ==
  /\ phase \in {"running", "flushing", "finishing"} /\ ~Sealed
  /\ \E k \in 0..Len(inside) :
       LET data == SubSeq(inside, 1, k)
           last == phase = "finishing" /\ owed = 0 /\ k = Len(inside)
       IN /\ inside'  = SubSeq(inside, k + 1, Len(inside))
          /\ covered' = IF data # <<>> THEN Append(covered, data) ELSE covered
          /\ stream'  = stream \o Header \o Block(data) \o Trailer(last, covered')
  /\ IF stream' = stream THEN left' = left ELSE left' > left
  /\ UNCHANGED <<phase, owed>>

Deliver == /\ left > 0 /\ left' \in 0 .. left - 1
           /\ UNCHANGED <<phase, owed, inside, covered, stream>>

FlushOver == /\ phase = "flushing" /\ owed = 0 /\ inside = <<>> /\ left <= Remainder
             /\ phase' = "running"
             /\ UNCHANGED <<owed, inside, covered, stream, left>>

Finished == /\ phase = "finishing" /\ Sealed /\ left = 0
            /\ phase' = "ended"
            /\ UNCHANGED <<owed, inside, covered, stream, left>>

Next == Open \/ Close \/ Ask \/ Accept \/ Cut \/ Deliver \/ FlushOver \/ Finished

Spec == Init /\ [][Next]_vars
=============================================================================
