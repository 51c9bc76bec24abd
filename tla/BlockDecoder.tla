---------------------------- MODULE BlockDecoder ----------------------------
(***************************************************************************)
(* How bits become a block and its output (decompress.c, 298-725): the     *)
(* mapping table, the selectors, the coding tables, the symbols, the runs, *)
(* the inverse of the block sort and the calls that deliver the bytes.     *)
(*                                                                         *)
(* dstate is the label of the read to be done, one action each.  At a      *)
(* label the input may end: the call returns, its locals are lost but for  *)
(* the save area, and a later call goes on from the label.                 *)
(***************************************************************************)
EXTENDS UnRLE

CONSTANTS
  MaxSelectors,   \* BZ_MAX_SELECTORS (2 + 900000/50)
  RunLimit        \* a run has no digit of this weight (2*1024*1024)

VARIABLES
  dstate,   \* a label, "literal" (a byte is stored, the look-up may be used), or "idle", "EOB",
            \* "output", "done", "error"
  s,        \* DState: origPtr, randomised, small, inUse16, inUse, selectorMtf, selector, len,
            \* tables, fast, mtfa, col (the bytes in tt or ll16)
  l,        \* the locals of BZ2_decompress
  saved,    \* s->save_*
  inCall,   \* a call is running
  input,    \* the bits of the block
  pos,      \* how many of them are taken
  v, u      \* the block to be output and the state of its output

dvars == <<dstate, s, l, saved, inCall, input, pos, v, u>>

Locals == {"i", "j", "t", "alphaSize", "nGroups", "nSelectors", "EOB", "groupNo", "groupPos", "nextSym",
           "nblock", "es", "N", "curr", "zn", "zvec", "gSel", "gMinlen"}
Cleared == [f \in Locals |-> 0]
\* Bug: one local is not saved.
SaveArea_NoEs == [l EXCEPT !.es = saved.es]

SaveArea == l
Labels == {"MAPPING_1", "MAPPING_2", "SELECTOR_1", "SELECTOR_2", "SELECTOR_3", "CODING_1", "CODING_2",
           "CODING_3", "MTF_1", "MTF_2", "MTF_3", "MTF_4", "MTF_5", "MTF_6"}

nInUseOf(st) == Cardinality(st.inUse)
seqToUnseq(st, n) == CHOOSE b \in st.inUse : Cardinality({c \in st.inUse : c < b}) = n

\* What a step leads to: the next label, the new DState and locals.
Goto(label, st, loc) == [at |-> label, s |-> st, l |-> loc]
DataError == Goto("error", s, l)
Becomes(r) == dstate' = r.at /\ s' = r.s /\ l' = r.l

\* The bits that are read at the label.
Width ==
  CASE dstate = "SELECTOR_1" -> 3
    [] dstate = "SELECTOR_2" -> 15
    [] dstate = "CODING_1" -> 5
    [] dstate \in {"MTF_1", "MTF_3", "MTF_5"} -> l.zn
    [] OTHER -> 1

GetBits(label) ==
  /\ inCall /\ dstate = label /\ pos + Width <= Len(input)
  /\ pos' = pos + Width
  /\ UNCHANGED <<saved, inCall, input, v, u>>
Value == ValueOf(SubSeq(input, pos + 1, pos + Width), Width)

----------------------------------------------------------------------------
(* The mapping table *)

\* The next row in use from row i on, or the end of the table.
MapRow(st, loc, i) ==
  LET rows == {r \in i..(MapWidth - 1) : r \in st.inUse16}
  IN  IF rows # {} THEN Goto("MAPPING_2", st, [loc EXCEPT !.i = Min(rows), !.j = 0])
      ELSE IF st.inUse = {} THEN DataError
      ELSE Goto("SELECTOR_1", st, [loc EXCEPT !.i = MapWidth, !.alphaSize = nInUseOf(st) + 2])

GetMapping1 ==
  /\ GetBits("MAPPING_1")
  /\ LET st == IF Value = 1 THEN [s EXCEPT !.inUse16 = @ \cup {l.i}] ELSE s
     IN  Becomes(IF l.i + 1 < MapWidth THEN Goto("MAPPING_1", st, [l EXCEPT !.i = @ + 1])
                 ELSE MapRow(st, l, 0))

GetMapping2 ==
  /\ GetBits("MAPPING_2")
  /\ LET st == IF Value = 1 THEN [s EXCEPT !.inUse = @ \cup {l.i * MapWidth + l.j}] ELSE s
     IN  Becomes(IF l.j + 1 < MapWidth THEN Goto("MAPPING_2", st, [l EXCEPT !.j = @ + 1])
                 ELSE MapRow(st, l, l.i + 1))

----------------------------------------------------------------------------
(* The selectors *)

GetSelector1 ==
  /\ GetBits("SELECTOR_1")
  /\ Becomes(IF Value \in 2..6 THEN Goto("SELECTOR_2", s, [l EXCEPT !.nGroups = Value]) ELSE DataError)

GetSelector2 ==
  /\ GetBits("SELECTOR_2")
  /\ Becomes(IF Value < 1 THEN DataError
             ELSE Goto("SELECTOR_3", s, [l EXCEPT !.nSelectors = Value, !.i = 0, !.j = 0]))

\* The tables that places in a list mean, each moved to the front when it is used.
RECURSIVE Unmoved(_, _)
Unmoved(places, order) ==
  IF places = <<>> THEN <<>>
  ELSE LET moved == ToFront(order, Head(places) + 1)
       IN  <<moved[1]>> \o Unmoved(Tail(places), moved)

\* All selectors are read; those past the last the block can use are dropped.
EndSelectors(st, loc) ==
  Goto("CODING_1",
       [st EXCEPT !.selector = Unmoved(st.selectorMtf, [k \in 1..loc.nGroups |-> k - 1])],
       [loc EXCEPT !.nSelectors = Min({@, MaxSelectors}), !.t = 0])

GetSelector3 ==
  /\ GetBits("SELECTOR_3")
  /\ LET st == IF l.i < MaxSelectors THEN [s EXCEPT !.selectorMtf = Append(@, l.j)] ELSE s
         next == [l EXCEPT !.i = @ + 1, !.j = 0]
     IN  Becomes(IF Value = 1
                 THEN IF l.j + 1 >= l.nGroups THEN DataError
                      ELSE Goto("SELECTOR_3", s, [l EXCEPT !.j = @ + 1])
                 ELSE IF next.i < l.nSelectors THEN Goto("SELECTOR_3", st, next)
                 ELSE EndSelectors(st, next))

----------------------------------------------------------------------------
(* The coding tables *)

CheckLength(st, loc) ==
  IF loc.curr \in 1..MaxCodeLen THEN Goto("CODING_2", st, loc) ELSE DataError

GetCoding1 ==
  /\ GetBits("CODING_1")
  /\ Becomes(CheckLength([s EXCEPT !.len = Append(@, <<>>)], [l EXCEPT !.curr = Value, !.i = 0]))

GetCoding3 ==
  /\ GetBits("CODING_3")
  /\ Becomes(CheckLength(s, [l EXCEPT !.curr = IF Value = 0 THEN @ + 1 ELSE @ - 1]))

\* GET_MTF_VAL as far as its first read, at label.
GetSymbol(label, st, loc) ==
  LET sel == st.selector[loc.groupNo + 2]
      minlen == st.tables[sel].minLen
  IN  IF loc.groupPos > 0
      THEN Goto(label, st, [loc EXCEPT !.groupPos = @ - 1, !.zn = loc.gMinlen])
      ELSE IF loc.groupNo + 1 >= loc.nSelectors THEN DataError
      ELSE Goto(label, st, [loc EXCEPT !.groupNo = @ + 1, !.groupPos = GroupSize - 1, !.gSel = sel,
                                       !.gMinlen = minlen, !.zn = minlen])

\* The tables of all groups are made, and the first symbol is asked for.
BuildTables(st, loc) ==
  LET len == [t \in 0..(loc.nGroups - 1) |-> [n \in Symbols(loc.alphaSize) |-> st.len[t + 1][n + 1]]]
  IN  GetSymbol("MTF_1",
        [st EXCEPT !.tables = [t \in DOMAIN len |-> BZ2_hbCreateDecodeTables(len[t])],
                   !.fast = [t \in DOMAIN len |-> FastTable(len[t])]],
        [loc EXCEPT !.EOB = nInUseOf(st) + 1, !.groupNo = -1, !.groupPos = 0, !.nblock = 0])

GetCoding2 ==
  /\ GetBits("CODING_2")
  /\ LET st == [s EXCEPT !.len[l.t + 1] = Append(@, l.curr)]
     IN  Becomes(IF Value = 1 THEN Goto("CODING_3", s, l)
                 ELSE IF l.i + 1 < l.alphaSize THEN CheckLength(st, [l EXCEPT !.i = @ + 1])
                 ELSE IF l.t + 1 < l.nGroups THEN Goto("CODING_1", st, [l EXCEPT !.i = @ + 1, !.t = @ + 1])
                 ELSE BuildTables(st, [l EXCEPT !.t = @ + 1]))

----------------------------------------------------------------------------
(* The symbols *)

\* A symbol that is no digit: the end of the block, or a byte, moved to the front.
TakeByte(st, loc) ==
  LET byte == seqToUnseq(st, st.mtfa[loc.nextSym])
  IN  IF loc.nextSym = loc.EOB THEN Goto("EOB", st, loc)
      ELSE IF loc.nblock >= nblockMAX THEN DataError
      ELSE Goto("literal", [st EXCEPT !.mtfa = ToFront(@, loc.nextSym), !.col = Append(@, byte)],
                           [loc EXCEPT !.nblock = @ + 1])

\* A digit of a run of the byte at the front.
TakeDigit(st, loc) ==
  IF loc.N >= RunLimit THEN DataError
  ELSE GetSymbol("MTF_3", st, [loc EXCEPT !.es = @ + (loc.nextSym + 1) * loc.N, !.N = 2 * @])

\* Bug: the length of the run is not checked.
EndRun_AnyLength(st, loc) ==
  TakeByte([st EXCEPT !.col = @ \o Copies(loc.es + 1, seqToUnseq(st, st.mtfa[1]))],
           [loc EXCEPT !.es = @ + 1, !.nblock = @ + loc.es + 1])

EndRun(st, loc) ==
  LET es == loc.es + 1
      byte == seqToUnseq(st, st.mtfa[1])
  IN  IF loc.nblock + es > nblockMAX THEN DataError
      ELSE TakeByte([st EXCEPT !.col = @ \o Copies(es, byte)],
                    [loc EXCEPT !.es = es, !.nblock = @ + es])

\* The loop of the symbols, at its head and in a run.
TakeSymbol(st, loc, inRun) ==
  IF loc.nextSym \in {RUNA, RUNB}
  THEN TakeDigit(st, IF inRun THEN loc ELSE [loc EXCEPT !.es = -1, !.N = 1])
  ELSE IF inRun THEN EndRun(st, loc) ELSE TakeByte(st, loc)

\* The code so far against the last code of its length; more is the label of the next bit.
CheckCode(loc, more) ==
  LET t == s.tables[loc.gSel]
      place == loc.zvec - t.base[loc.zn]
  IN  IF loc.zn > MaxCodeLen THEN DataError
      ELSE IF loc.zvec > t.limit[loc.zn] THEN Goto(more, s, [loc EXCEPT !.zn = @ + 1])
      ELSE IF place \notin DOMAIN t.perm THEN DataError
      ELSE TakeSymbol(s, [loc EXCEPT !.nextSym = t.perm[place]], more = "MTF_4")

GetCode(label, more) ==
  /\ GetBits(label)
  /\ Becomes(CheckCode([l EXCEPT !.zvec = Value], more))

GetCodeBit(more) ==
  /\ GetBits(more)
  /\ Becomes(CheckCode([l EXCEPT !.zvec = 2 * @ + Value], more))

\* After a byte: the look-up, with any number of bits in the buffer, or the way bit by bit.
Window == [k \in 1..MaxCodeLen |-> IF pos + k <= Len(input) THEN input[pos + k] ELSE 0]

AfterByte ==
  /\ inCall /\ dstate = "literal"
  /\ \E live \in 0..Min({MaxCodeLen, Len(input) - pos}) :
       LET hit == FastDecode(s.fast[l.gSel], Window, live)
       IN  IF l.groupPos > 0 /\ hit # NoSymbol
           THEN /\ pos' = pos + hit.bits
                /\ Becomes(TakeSymbol(s, [l EXCEPT !.nextSym = hit.sym, !.groupPos = @ - 1], FALSE))
           ELSE pos' = pos /\ Becomes(GetSymbol("MTF_5", s, l))
  /\ UNCHANGED <<saved, inCall, input, v, u>>

----------------------------------------------------------------------------
(* The end of the block, the calls *)

EndBlock ==
  /\ inCall /\ dstate = "EOB"
  /\ IF s.origPtr >= l.nblock THEN dstate' = "error" /\ UNCHANGED <<v, u>>
     ELSE LET block == [small |-> s.small, randomised |-> s.randomised, cftab |-> Cftab(s.col),
                        tt |-> IF s.small THEN <<>> ELSE FastVector(s.col),
                        ll |-> IF s.small THEN SmallVector(s.col, s.origPtr) ELSE <<>>]
          IN  dstate' = "output" /\ v' = block /\ u' = OutputStart(block, s.origPtr)
  /\ saved' = SaveArea /\ inCall' = FALSE /\ l' = Cleared
  /\ UNCHANGED <<s, input, pos>>

\* The input ends at a label.
NeedInput ==
  /\ inCall /\ dstate \in Labels
  /\ saved' = SaveArea /\ l' = Cleared /\ inCall' = FALSE
  /\ UNCHANGED <<dstate, s, input, pos, v, u>>

CallAgain ==
  /\ ~inCall /\ dstate \in Labels
  /\ l' = saved /\ inCall' = TRUE
  /\ UNCHANGED <<dstate, s, saved, input, pos, v, u>>

\* A call with room for output; the block ends with its last byte.
DeliverCall(room) ==
  /\ dstate = "output"
  /\ \E e \in {Deliver([n |-> saved.nblock] @@ v, u, room)} :
         /\ u' = e
         /\ dstate' = IF e.bad THEN "error" ELSE IF e.used = saved.nblock + 1 /\ e.len = 0 THEN "done" ELSE "output"
  /\ UNCHANGED <<s, l, saved, inCall, input, pos, v>>

DecoderInit ==
  /\ dstate = "idle" /\ l = Cleared /\ saved = Cleared /\ inCall = FALSE /\ input = <<>> /\ pos = 0
  /\ s = <<>> /\ v = <<>> /\ u = <<>>

\* The header of a block is read.
StartBlock(bits, origPtr, randomised, small) ==
  /\ dstate = "idle"
  /\ dstate' = "MAPPING_1" /\ inCall' = TRUE /\ input' = bits
  /\ s' = [origPtr |-> origPtr, randomised |-> randomised, small |-> small, inUse16 |-> {}, inUse |-> {},
           selectorMtf |-> <<>>, selector |-> <<>>, len |-> <<>>, tables |-> <<>>, fast |-> <<>>,
           mtfa |-> [k \in 1..(MapWidth * MapWidth) |-> k - 1], col |-> <<>>]
  /\ UNCHANGED <<l, saved, pos, v, u>>

GetSymbolBits ==
  \/ GetCode("MTF_1", "MTF_2") \/ GetCode("MTF_3", "MTF_4") \/ GetCode("MTF_5", "MTF_6")
  \/ GetCodeBit("MTF_2") \/ GetCodeBit("MTF_4") \/ GetCodeBit("MTF_6")

Parse ==
  \/ GetMapping1 \/ GetMapping2 \/ GetSelector1 \/ GetSelector2 \/ GetSelector3
  \/ GetCoding1 \/ GetCoding2 \/ GetCoding3 \/ GetSymbolBits \/ AfterByte \/ EndBlock
=============================================================================
