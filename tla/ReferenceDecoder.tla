-------------------------- MODULE ReferenceDecoder --------------------------
(***************************************************************************)
(* How the reference implementation reads a block                          *)
(* (reference/bzip2/decompress.c, 266-492), as a function of its bits: one *)
(* bit, and one symbol, after the other, without a look-up.  Its list of   *)
(* bytes, moved to the front, is cut into short lists, kept apart in a     *)
(* larger array, so that a move shifts one short list, and one byte of     *)
(* each of those before it.                                                *)
(*                                                                         *)
(* input is the bits of the block, as in BlockDecoder; d is what has been  *)
(* read of it and where: at is the field that comes next, or "EOB",        *)
(* "error", or "starved" when the input ends.                              *)
(***************************************************************************)
EXTENDS BlockDecoder

CONSTANTS
  MTFL_SIZE,     \* the length of a short list (16)
  MTFA_SIZE      \* the length of the array (4096)

NBytes == MapWidth * MapWidth
ASSUME ListAssumption ==
  /\ MTFL_SIZE \in Nat \ {0} /\ NBytes % MTFL_SIZE = 0
  /\ MTFA_SIZE \in Nat /\ MTFA_SIZE > NBytes

----------------------------------------------------------------------------
(* The lists *)

\* Where the short lists begin when they are at the end of the array.
AtTheEnd == [k \in 0..(NBytes \div MTFL_SIZE - 1) |-> MTFA_SIZE - NBytes + k * MTFL_SIZE]

\* MTF init; the array before the lists is not set.
ListInit ==
  [mtfbase |-> AtTheEnd,
   mtfa |-> [i \in 0..(MTFA_SIZE - 1) |-> IF i < AtTheEnd[0] THEN -1 ELSE i - AtTheEnd[0]]]

FrontOf(list) == list.mtfa[list.mtfbase[0]]

\* The byte at place to is dropped; those from place from on go up by one.
ShiftedUp(mtfa, from, to) == [i \in DOMAIN mtfa |-> IF i \in (from + 1)..to THEN mtfa[i - 1] ELSE mtfa[i]]

\* nn < MTFL_SIZE
MovedNear(list, nn) ==
  LET pp == list.mtfbase[0]
  IN  [list EXCEPT !.mtfa = [ShiftedUp(@, pp, pp + nn) EXCEPT ![pp] = list.mtfa[pp + nn]]]

\* The last byte of the list before goes to the front of list k.
LastOfBefore(list, k) ==
  [mtfbase |-> [list.mtfbase EXCEPT ![k] = @ - 1],
   mtfa |-> [list.mtfa EXCEPT ![list.mtfbase[k] - 1] = list.mtfa[list.mtfbase[k - 1] + MTFL_SIZE - 1]]]

\* The lists go back to the end of the array, in place, the last byte first.
Back(list) ==
  LET Byte(mtfa, k) == [mtfa EXCEPT ![MTFA_SIZE - k] =
                          mtfa[list.mtfbase[(NBytes - k) \div MTFL_SIZE] + ((NBytes - k) % MTFL_SIZE)]]
  IN  [mtfbase |-> AtTheEnd, mtfa |-> FoldLeft(Byte, list.mtfa, [k \in 1..NBytes |-> k])]

MovedFar(list, nn) ==
  LET lno == nn \div MTFL_SIZE
      pp == list.mtfbase[lno] + (nn % MTFL_SIZE)
      taken == [mtfbase |-> [list.mtfbase EXCEPT ![lno] = @ + 1],
                mtfa |-> ShiftedUp(list.mtfa, list.mtfbase[lno], pp)]
      passed == FoldLeft(LastOfBefore, taken, [k \in 1..lno |-> lno + 1 - k])
      front == passed.mtfbase[0] - 1
      moved == [mtfbase |-> [passed.mtfbase EXCEPT ![0] = front],
                mtfa |-> [passed.mtfa EXCEPT ![front] = list.mtfa[pp]]]
  IN  IF front = 0 THEN Back(moved) ELSE moved

\* uc = MTF ( nextSym-1 )
Moved(list, nn) == IF nn < MTFL_SIZE THEN MovedNear(list, nn) ELSE MovedFar(list, nn)

----------------------------------------------------------------------------
(* The fields before the symbols *)

Lacks(d, n) == d.pos + n > Len(input)
BitsAt(d, n) == ValueOf(SubSeq(input, d.pos + 1, d.pos + n), n)
Starved(d) == [d EXCEPT !.at = "starved"]
Wrong(d) == [d EXCEPT !.at = "error"]

\* Bit j of the n-th row that is there.
RefInUse(d, rows) ==
  {i * MapWidth + j : <<i, j>> \in
     {<<i, j>> \in rows \X (0..(MapWidth - 1)) :
        input[d.pos + MapWidth * (1 + Cardinality({r \in rows : r < i})) + j + 1] = 1}}

RefMapping(d) ==
  LET rows == {i \in 0..(MapWidth - 1) : input[d.pos + i + 1] = 1}
      n == MapWidth * (1 + Cardinality(rows))
  IN  IF Lacks(d, MapWidth) \/ Lacks(d, n) THEN Starved(d)
      ELSE IF RefInUse(d, rows) = {} THEN Wrong(d)
      ELSE [d EXCEPT !.at = "groups", !.pos = @ + n, !.inUse = RefInUse(d, rows)]

RefGroups(d) ==
  IF Lacks(d, 3) THEN Starved(d)
  ELSE IF BitsAt(d, 3) \notin 2..6 THEN Wrong(d)
  ELSE IF Lacks(d, 18) THEN Starved(d)
  ELSE IF BitsAt(d, 18) % 2^15 = 0 THEN Wrong(d)
  ELSE [d EXCEPT !.at = "selectors", !.pos = @ + 18, !.nGroups = BitsAt(d, 3), !.left = BitsAt(d, 18) % 2^15]

\* The selectors from their places in a list of the tables.
Undone(places, nGroups) ==
  LET Use(a, place) == [order |-> ToFront(a.order, place + 1), selector |-> Append(a.selector, a.order[place + 1])]
  IN  FoldLeft(Use, [order |-> [k \in 1..nGroups |-> k - 1], selector |-> <<>>], places).selector

\* A selector is a number of ones before a zero; those beyond the last that counts are read all the same.
RefSelector(d) ==
  LET j == Min({d.nGroups} \cup {k \in 0..(d.nGroups - 1) : Lacks(d, k + 1) \/ input[d.pos + k + 1] = 0})
      places == IF Len(d.places) < MaxSelectors THEN Append(d.places, j) ELSE d.places
      read == [d EXCEPT !.pos = @ + j + 1, !.left = @ - 1, !.places = places]
  IN  IF j = d.nGroups THEN Wrong(d)
      ELSE IF Lacks(d, j + 1) THEN Starved(d)
      ELSE IF d.left > 1 THEN read
      ELSE [read EXCEPT !.at = "coding", !.selector = Undone(places, d.nGroups), !.len = <<<<>>>>]

\* One code length, up and down from the one before.
RECURSIVE RefLength(_, _)
RefLength(d, curr) ==
  IF curr \notin 1..MaxCodeLen THEN Wrong(d)
  ELSE IF Lacks(d, 1) THEN Starved(d)
  ELSE IF BitsAt(d, 1) = 0 THEN [d EXCEPT !.pos = @ + 1, !.len[Len(d.len)] = Append(@, curr)]
  ELSE IF Lacks(d, 2) THEN Starved(d)
  ELSE RefLength([d EXCEPT !.pos = @ + 2], IF BitsAt(d, 2) = 2 THEN curr + 1 ELSE curr - 1)

RefTables(d) ==
  [d EXCEPT !.at = "symbols", !.list = ListInit,
            !.tables = [t \in 0..(d.nGroups - 1) |->
                          BZ2_hbCreateDecodeTables([n \in 0..(Len(d.len[t + 1]) - 1) |-> d.len[t + 1][n + 1]])]]

RefCoding(d) ==
  LET table == d.len[Len(d.len)]
      r == IF table = <<>> THEN RefLength([d EXCEPT !.pos = @ + 5], BitsAt(d, 5))
           ELSE RefLength(d, table[Len(table)])
  IN  IF table = <<>> /\ Lacks(d, 5) THEN Starved(d)
      ELSE IF r.at # "coding" \/ Len(table) + 1 < Cardinality(d.inUse) + 2 THEN r
      ELSE IF Len(d.len) < d.nGroups THEN [r EXCEPT !.len = Append(@, <<>>)]
      ELSE RefTables(r)

----------------------------------------------------------------------------
(* The symbols *)

RefByte(d, nextSym) ==
  LET list == Moved(d.list, nextSym - 1)
  IN  IF nextSym = Cardinality(d.inUse) + 1 THEN [d EXCEPT !.at = "EOB"]
      ELSE IF Len(d.col) >= nblockMAX THEN Wrong(d)
      ELSE [d EXCEPT !.list = list, !.col = Append(@, seqToUnseq(d, FrontOf(list))), !.N = 0]

\* The bytes of a run are stored one at a time, until there is no room for the next.
RefRun(d, nextSym) ==
  LET es == d.es + 1
  IN  IF Len(d.col) + es > nblockMAX THEN Wrong(d)
      ELSE RefByte([d EXCEPT !.col = @ \o Copies(es, seqToUnseq(d, FrontOf(d.list)))], nextSym)

\* N is 0 where no run has begun.
RefDigit(d, nextSym) ==
  LET N == IF d.N = 0 THEN 1 ELSE d.N
      es == IF d.N = 0 THEN -1 ELSE d.es
  IN  IF N >= RunLimit THEN Wrong(d) ELSE [d EXCEPT !.es = es + (nextSym + 1) * N, !.N = 2 * N]

TakeRefSymbol(d, nextSym) ==
  IF nextSym \in {RUNA, RUNB} THEN RefDigit(d, nextSym)
  ELSE IF d.N > 0 THEN RefRun(d, nextSym) ELSE RefByte(d, nextSym)

\* GET_MTF_VAL: the table of the group, and bits until they are at most the last code of their length.
RefSymbol(d) ==
  LET g == d.taken \div GroupSize
      t == d.tables[d.selector[g + 1]]
      n == Min({k \in t.minLen..(MaxCodeLen + 1) : k > MaxCodeLen \/ Lacks(d, k) \/ BitsAt(d, k) <= t.limit[k]})
      place == BitsAt(d, n) - t.base[n]
  IN  IF g >= Len(d.selector) THEN Wrong(d)
      ELSE IF Lacks(d, n) THEN Starved(d)
      ELSE IF n > MaxCodeLen \/ place \notin DOMAIN t.perm THEN Wrong(d)
      ELSE TakeRefSymbol([d EXCEPT !.pos = @ + n, !.taken = @ + 1], t.perm[place])

RECURSIVE RefParse(_)
RefParse(d) ==
  CASE d.at = "mapping"   -> RefParse(RefMapping(d))
    [] d.at = "groups"    -> RefParse(RefGroups(d))
    [] d.at = "selectors" -> RefParse(RefSelector(d))
    [] d.at = "coding"    -> RefParse(RefCoding(d))
    [] d.at = "symbols"   -> RefParse(RefSymbol(d))
    [] OTHER -> d

RefStart ==
  [at |-> "mapping", pos |-> 0, inUse |-> {}, nGroups |-> 0, left |-> 0, places |-> <<>>, selector |-> <<>>,
   len |-> <<>>, tables |-> <<>>, taken |-> 0, list |-> ListInit, col |-> <<>>, es |-> 0, N |-> 0]

\* origPtr is checked when the length of the block is known.
RefBlock(origPtr) ==
  LET d == RefParse(RefStart) IN IF d.at = "EOB" /\ origPtr >= Len(d.col) THEN Wrong(d) ELSE d
=============================================================================
