---------------------------- MODULE MCAlgorithms ----------------------------
(* The pure algorithms and the suffix sort, either of them. *)
EXTENDS MCCoders, MCSuffixSort

Idle == call = [of |-> "none", next |-> "none"] /\ answer = "none"
Unused == input = [api |-> "none"] /\ mem = <<>> /\ frames = <<>> /\ b = <<>> /\ held = 0 /\ code = Running

AlgorithmsInit == (CodersInit /\ Unused) \/ (Idle /\ Init)
AlgorithmsNext ==
  \/ CodersNext /\ input.api = "none" /\ UNCHANGED vars
  \/ input.api # "none" /\ Next /\ UNCHANGED <<call, answer>>
AlgorithmsSpec == AlgorithmsInit /\ [][AlgorithmsNext]_<<vars, call, answer>>
=============================================================================
