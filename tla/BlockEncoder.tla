---------------------------- MODULE BlockEncoder ----------------------------
(***************************************************************************)
(* How one block becomes bits (compress.c, 97-575): the block sort, move-  *)
(* to-front with the runs of its front symbol in bijective base two, the   *)
(* choice of coding tables, and the fields that are emitted.               *)
(*                                                                         *)
(* Bytes are 0..MapWidth^2 - 1: the mapping table has MapWidth rows.       *)
(***************************************************************************)
EXTENDS BlockFormat, BlockSort

CONSTANTS
  GroupThresholds,   \* from this many MTF values on, one more table (200, 600, 1200, 2400)
  Iterations,        \* BZ_N_ITERS (4)
  LengthLimit,       \* longest code made (17)
  HalfWord,          \* 2^16, above every MTF value of a block that another follows
  Leftover,          \* what origPtr may hold in memory that malloc has given
  EarlierBlocks,     \* the blocks after which another one may follow
  FailingBlocks      \* those for whose suffix sort there may be no memory

VARIABLES
  estate,    \* "sort", "mtf", "fit", "sent", or "stopped"
  block,     \* s->block, a function on 0..nblock-1
  ptr,       \* s->ptr; outside of its domain the array holds anything
  origPtr,   \* s->origPtr
  mtf,       \* generateMTFValues: i, yy, zPend, mtfv
  coding,    \* sendMTFValues: iter, len (a table of lengths each), selector
  bits,      \* what bsW was given, bit by bit
  sorted     \* history: the sort of this block did not fail

evars == <<estate, block, ptr, origPtr, mtf, coding, bits, sorted>>

InUse == Range(block)
nInUse == Cardinality(InUse)
EOB == nInUse + 1
alphaSize == nInUse + 2
nblock == Size(block)

\* The rank of a byte among those in use.
unseqToSeq(b) == Cardinality({c \in InUse : c < b})

----------------------------------------------------------------------------
(* generateMTFValues *)

RECURSIVE RunDigits(_)
RunDigits(zPend) ==
  <<IF zPend % 2 = 1 THEN RUNB ELSE RUNA>> \o
  (IF zPend < 2 THEN <<>> ELSE RunDigits((zPend - 2) \div 2))
RunSymbols(zPend) == IF zPend = 0 THEN <<>> ELSE RunDigits(zPend - 1)

\* The place of the byte before the i-th rotation.  An order that is not the block's own
\* may lead out of the block, where any byte may be.
PlaceBefore(i) == IF ptr[i] = 0 THEN nblock - 1 ELSE ptr[i] - 1
Astray(i) == ~(i \in DOMAIN ptr /\ PlaceBefore(i) \in DOMAIN block)
LastBytes(i) == IF Astray(i) THEN InUse ELSE {block[PlaceBefore(i)]}

MTFStart == [i |-> 0, yy |-> [k \in 1..nInUse |-> k - 1], zPend |-> 0, mtfv |-> <<>>]

\* Bug: the run that is written stays pending.
MTFStep_KeepsRun(b) ==
  LET ll == unseqToSeq(b)
      j == CHOOSE k \in 1..nInUse : mtf.yy[k] = ll
  IN  IF j = 1 THEN [mtf EXCEPT !.i = @ + 1, !.zPend = @ + 1]
      ELSE [mtf EXCEPT !.i = @ + 1, !.yy = ToFront(@, j), !.mtfv = @ \o RunSymbols(mtf.zPend) \o <<j>>]

MTFStep(b) ==
  LET ll == unseqToSeq(b)
      j == CHOOSE k \in 1..nInUse : mtf.yy[k] = ll
  IN  IF j = 1 THEN [mtf EXCEPT !.i = @ + 1, !.zPend = @ + 1]
      ELSE [i |-> mtf.i + 1, zPend |-> 0,
            yy |-> ToFront(mtf.yy, j),
            mtfv |-> mtf.mtfv \o RunSymbols(mtf.zPend) \o <<j>>]

----------------------------------------------------------------------------
(* sendMTFValues.  Tables are numbered from 0, as the selectors are. *)

nMTF == Len(mtf.mtfv)
nGroups == 2 + Cardinality({k \in DOMAIN GroupThresholds : nMTF >= GroupThresholds[k]})
Tables == 0..(nGroups - 1)
Occurrences(s, v) == Cardinality({k \in DOMAIN s : s[k] = v})
mtfFreq == [v \in Symbols(alphaSize) |-> Occurrences(mtf.mtfv, v)]
SumOf(f, S) == MapThenSumSet(LAMBDA v : f[v], S)

\* The initial tables: nPart parts of the alphabet of nearly equal frequency, from gs on.
PartEnd(freq, gs, tFreq) ==
  Min({alphaSize - 1} \cup {g \in (gs - 1)..(alphaSize - 1) : SumOf(freq, gs..g) >= tFreq})

RECURSIVE Seeded(_, _, _, _)
Seeded(freq, nPart, gs, remF) ==
  LET full == PartEnd(freq, gs, remF \div nPart)
      ge == IF full > gs /\ nPart \notin {nGroups, 1} /\ (nGroups - nPart) % 2 = 1 THEN full - 1 ELSE full
      table == [v \in Symbols(alphaSize) |-> IF v \in gs..ge THEN 0 ELSE 15]
  IN  IF nPart = 0 THEN <<>>
      ELSE Append(Seeded(freq, nPart - 1, ge + 1, remF - SumOf(freq, gs..ge)), table)

\* The MTF values in groups of GroupSize.
Groups ==
  [g \in 1..((nMTF + GroupSize - 1) \div GroupSize) |->
     SubSeq(mtf.mtfv, (g - 1) * GroupSize + 1, Min({g * GroupSize, nMTF}))]

\* The first of the cheapest tables, for each group.
Selectors(len) ==
  [g \in DOMAIN Groups |->
     LET Cost(t) == FoldSeq(LAMBDA v, acc : acc + len[t][v], 0, Groups[g])
     IN  CHOOSE t \in Tables : \A u \in Tables : Cost(t) < Cost(u) \/ (Cost(t) = Cost(u) /\ t <= u)]

\* Tables for the symbols of the groups that chose them.
Refit(selectors) ==
  [t \in Tables |->
     LET chosen == {g \in DOMAIN Groups : selectors[g] = t}
         rfreq == [v \in Symbols(alphaSize) |->
                     SumOf([g \in chosen |-> Occurrences(Groups[g], v)], chosen)]
     IN  BZ2_hbMakeCodeLengths(rfreq, LengthLimit)]

\* Selectors as places in a list of the tables that moves each used one to the front.
RECURSIVE SelectorMtf(_, _)
SelectorMtf(selectors, pos) ==
  IF selectors = <<>> THEN <<>>
  ELSE LET v == Head(selectors)
           j == CHOOSE k \in DOMAIN pos : pos[k] = v
       IN  <<j - 1>> \o SelectorMtf(Tail(selectors), ToFront(pos, j))

----------------------------------------------------------------------------
(* The fields, as bits. *)

bsW(n, v) == [k \in 1..n |-> (v \div 2^(n - k)) % 2]
Flag(b) == <<IF b THEN 1 ELSE 0>>
Concat(S(_), n) == FlattenSeq([k \in 1..n |-> S(k - 1)])

Row(i) == {i * MapWidth + j : j \in 0..(MapWidth - 1)}
MappingTable ==
  Concat(LAMBDA i : Flag(Row(i) \cap InUse # {}), MapWidth) \o
  Concat(LAMBDA i : IF Row(i) \cap InUse = {} THEN <<>>
                    ELSE Concat(LAMBDA j : Flag(i * MapWidth + j \in InUse), MapWidth), MapWidth)

SelectorList(selectors) ==
  LET places == SelectorMtf(selectors, [k \in 1..nGroups |-> k - 1])
  IN  bsW(3, nGroups) \o bsW(15, Len(selectors)) \o
      FlattenSeq([k \in DOMAIN places |-> [n \in 1..places[k] |-> 1] \o <<0>>])

\* Up by one is 10, down by one is 11, and 0 ends a length.
Step(from, to) ==
  FlattenSeq([n \in 1..Max({to - from, from - to}) |-> IF to > from THEN <<1, 0>> ELSE <<1, 1>>]) \o <<0>>
CodingTable(len) ==
  bsW(5, len[0]) \o
  Concat(LAMBDA i : Step(IF i = 0 THEN len[0] ELSE len[i - 1], len[i]), alphaSize)

Symbol(len, v) == bsW(len[v], BZ2_hbAssignCodes(len)[v])

CodedValues(selectors, len) ==
  FlattenSeq([k \in 1..nMTF |-> Symbol(len[selectors[1 + (k - 1) \div GroupSize]], mtf.mtfv[k])])

----------------------------------------------------------------------------
NoMTF == [i |-> 0, yy |-> <<>>, zPend |-> 0, mtfv |-> <<>>]
NoCoding == [iter |-> 0, len |-> <<>>, selector |-> <<>>]

\* The first block of a stream: nothing has been written to ptr and origPtr.
EncoderInit(Blocks) ==
  /\ estate = "sort" /\ block \in Blocks /\ ptr = <<>> /\ origPtr \in Leftover
  /\ mtf = NoMTF /\ coding = NoCoding /\ bits = <<>> /\ sorted = TRUE

\* ptr and mtfv are one array, two values to a word, the first in its low half: what
\* is in ptr when the block has been encoded.
LeftInPtr ==
  [i \in DOMAIN ptr |->
     CASE 2 * i + 1 < nMTF -> mtf.mtfv[2 * i + 1] + HalfWord * mtf.mtfv[2 * i + 2]
       [] 2 * i + 1 = nMTF -> mtf.mtfv[2 * i + 1] + HalfWord * (ptr[i] \div HalfWord)
       [] OTHER -> ptr[i]]

\* The next block is filled; ptr and origPtr are as the last one left them.
NextBlock ==
  /\ estate = "sent" /\ block \in EarlierBlocks
  /\ estate' = "sort" /\ block' \in FailingBlocks /\ ptr' = LeftInPtr
  /\ mtf' = NoMTF /\ coding' = NoCoding /\ bits' = <<>> /\ sorted' = TRUE /\ UNCHANGED origPtr

SortBlock ==
  /\ estate = "sort"
  /\ \E s \in {BZ2_blockSort(block)} :
       ptr' = s.ptr /\ origPtr' = s.origPtr /\ block' = s.block
  /\ mtf' = MTFStart /\ estate' = "mtf" /\ UNCHANGED <<coding, bits, sorted>>

AssertH1003 == origPtr # -1

\* sais_bwt returns without an order when there is no memory for it: ptr and origPtr
\* are what they were, and unless that is -1 the block is encoded with them.
SortFails ==
  /\ estate = "sort" /\ nblock >= SmallBlock /\ block \in FailingBlocks
  /\ sorted' = FALSE
  /\ \/ AssertH1003 /\ estate' = "mtf" /\ mtf' = MTFStart
     \/ ~AssertH1003 /\ estate' = "stopped" /\ UNCHANGED mtf
  /\ UNCHANGED <<block, ptr, origPtr, coding, bits>>

EncodeByte ==
  /\ estate = "mtf" /\ mtf.i < nblock
  /\ \E b \in LastBytes(mtf.i) : mtf' = MTFStep(b)
  /\ UNCHANGED <<estate, block, ptr, origPtr, coding, bits, sorted>>

\* A read far from the block faults, or brings a byte that has no place in the list,
\* with which the search for it does not end in the list; neither is followed further.
GoAstray ==
  /\ estate = "mtf" /\ mtf.i < nblock /\ Astray(mtf.i)
  /\ estate' = "stopped" /\ UNCHANGED <<block, ptr, origPtr, mtf, coding, bits, sorted>>

EndMTF ==
  /\ estate = "mtf" /\ mtf.i = nblock
  /\ mtf' = [mtf EXCEPT !.mtfv = @ \o RunSymbols(mtf.zPend) \o <<EOB>>, !.zPend = 0]
  /\ estate' = "fit" /\ UNCHANGED <<block, ptr, origPtr, coding, bits, sorted>>

SeedTables ==
  /\ estate = "fit" /\ coding.len = <<>>
  /\ LET seed == Seeded(mtfFreq, nGroups, 0, nMTF)
     IN  coding' = [coding EXCEPT !.len = [t \in Tables |-> seed[t + 1]]]
  /\ UNCHANGED <<estate, block, ptr, origPtr, mtf, bits, sorted>>

\* A pass: the groups choose among the tables, the tables are fitted to their groups.
FitTables ==
  /\ estate = "fit" /\ coding.len # <<>> /\ coding.iter < Iterations
  /\ coding' = [iter |-> coding.iter + 1, selector |-> Selectors(coding.len),
                len |-> Refit(Selectors(coding.len))]
  /\ UNCHANGED <<estate, block, ptr, origPtr, mtf, bits, sorted>>

SendMTFValues ==
  /\ estate = "fit" /\ coding.iter = Iterations
  /\ bits' = MappingTable \o SelectorList(coding.selector) \o
             Concat(LAMBDA t : CodingTable(coding.len[t]), nGroups) \o
             CodedValues(coding.selector, coding.len)
  /\ estate' = "sent" /\ UNCHANGED <<block, ptr, origPtr, mtf, coding, sorted>>

EncoderNext ==
  SortBlock \/ SortFails \/ EncodeByte \/ GoAstray \/ EndMTF \/ SeedTables \/ FitTables \/ SendMTFValues
=============================================================================
