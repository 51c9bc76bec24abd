------------------------------ MODULE MCTools ------------------------------
(***************************************************************************)
(* The two programs, either of them.  bzip2recover is given files of one   *)
(* stream or two, whole, with one bit changed or with one bit lost, and    *)
(* marks of six bits that do not overlap, themselves or each other.        *)
(***************************************************************************)
EXTENDS MCBZip2Tool, Recover

MCBlockHeader == <<1, 1, 0, 1, 0, 0>>
MCEndMark == <<1, 1, 1, 0, 0, 0>>
MCStreamHeader == <<1, 0>>
MCExisting == {{}, {2}}

Short == <<0, 1, 1, 0, 0, 1, 0, 1, 1, 0>>
Long == <<1, 0, 1, 1, 1, 1, 0, 0, 1, 0, 1, 1, 1>>
Marked == <<1, 0, 1>> \o MCEndMark \o <<0, 1, 1>>
Layouts ==    \* sequences of streams, which are sequences of blocks
  {<<<<Short, Long>>>>, <<<<Long, Marked, Short>>>>, <<<<Short>>, <<Long>>>>, <<<<>>, <<Long, Short>>>>}

\* A stream after others: its bits, and where its blocks are with the mark on either side.
Padded(bits) == bits \o [i \in 1..((4 - (Len(bits) % 4)) % 4) |-> 0]
AddBlock(f, block) ==
  [bits |-> f.bits \o MCBlockHeader \o block,
   blocks |-> Append(f.blocks, [from |-> Len(f.bits) + 1, to |-> Len(f.bits) + 12 + Len(block), body |-> block])]
AddStream(f, stream) ==
  LET g == FoldLeft(AddBlock, [f EXCEPT !.bits = @ \o MCStreamHeader], stream)
  IN  [g EXCEPT !.bits = Padded(@ \o MCEndMark \o <<0, 1, 0>>)]
WholeFile(layout) == FoldLeft(AddStream, [bits |-> <<>>, blocks |-> <<>>], layout)
Undamaged(f, i) == {k.body : k \in {k \in Range(f.blocks) : i \notin k.from..k.to /\ k.body # Marked}}

MCImages ==
  UNION {LET f == WholeFile(layout)
         IN  {[bits |-> f.bits, blocks |-> Undamaged(f, 0)]}
             \cup {[bits |-> [f.bits EXCEPT ![i] = 1 - @], blocks |-> Undamaged(f, i)] : i \in DOMAIN f.bits}
             \cup {[bits |-> RemoveAt(f.bits, i), blocks |-> Undamaged(f, i)] : i \in DOMAIN f.bits}
         : layout \in Layouts}

RecoverIdle == image = [bits |-> <<>>, blocks |-> {}] /\ taken = {} /\ scan = [pc |-> "idle"] /\ wr = NoFile /\ made = <<>>
ToolIdle ==
  /\ disk = <<>> /\ first = <<>> /\ conf = <<>> /\ owed = {} /\ mishaps = 0 /\ inp = Closed /\ out = Closed
  /\ p = [pc |-> "idle", unchecked |-> FALSE]

ToolsInit == (Init /\ RecoverIdle) \/ (ToolIdle /\ RecoverInit)
ToolsNext ==
  \/ scan.pc = "idle" /\ Next /\ UNCHANGED recvars
  \/ p.pc = "idle" /\ RecoverNext /\ UNCHANGED vars
ToolsSpec == ToolsInit /\ [][ToolsNext]_<<vars, recvars>>
=============================================================================
