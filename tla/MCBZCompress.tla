---------------------------- MODULE MCBZCompress ----------------------------
(***************************************************************************)
(* Small instances of the compression stream.                              *)
(***************************************************************************)
EXTENDS BZCompressData

TwoBytes == {0, 1}
OneSize  == {3}
OneUnit  == {1}
TwoUnits == {1, 2}
TwoSizes == {3, 4}

(* A caller for long inputs: always room for all the output, no failing    *)
(* calls.  Output room and refusals are the subject of the other runs.     *)
DataCaller == CompressInitOK \/ CompressEnd \/ \E a \in Actions, n \in 0..MaxIn : Enter(a, n, MaxOut)
DataSpec   == Init /\ [][Library \/ DataCaller]_vars
=============================================================================
