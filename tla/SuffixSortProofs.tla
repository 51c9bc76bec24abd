-------------------------- MODULE SuffixSortProofs --------------------------
(***************************************************************************)
(* Theorems about SuffixSort: who holds a buffer on the heap, and that     *)
(* none is left when the caller has its answer.                            *)
(***************************************************************************)
EXTENDS SuffixSort, TLAPS

(* What an action that moves the last call to p does to the calls.         *)
Moves(p) ==
  /\ Len(frames') = Len(frames) /\ frames' # <<>>
  /\ \A d \in 1..Len(frames) : d < Len(frames) => frames'[d] = frames[d]
  /\ frames'[Len(frames)].variant = fr.variant
  /\ frames'[Len(frames)].bk = fr.bk
  /\ frames'[Len(frames)].pc = p

(* The last call is one of the calls.                                      *)
LEMMA LastCall ==
  ASSUME OthersWait, frames # <<>>
  PROVE  /\ Len(frames) \in Nat \ {0} /\ DOMAIN frames = 1..Len(frames)
         /\ {"variant", "bk", "pc"} \subseteq DOMAIN fr
         /\ fr.variant = "8u" => Len(frames) = 1 /\ fr.bk.in = "heap"
         /\ fr.bk.in = "heap" => fr.variant \in {"8u", "1k"}
         /\ frames[1].variant = "8u" /\ Len(frames) > 1 => frames[1].pc = "back"
<1> DEFINE S == {frames[d] : d \in DOMAIN frames}
<1>1. frames \in Seq(S)
  BY DEF OthersWait
<1> HIDE DEF S
<1>2. Len(frames) \in Nat \ {0} /\ DOMAIN frames = 1..Len(frames)
  BY <1>1
<1>3. Len(frames) \in DOMAIN frames /\ 1 \in DOMAIN frames
  BY <1>2
<1> QED BY <1>2, <1>3 DEF OthersWait, fr

(* A change of the last call's place, and of other fields that say nothing *)
(* of its buckets, keeps the order of the calls.                           *)
LEMMA Changed ==
  ASSUME OthersWait, frames # <<>>, NEW c, Frame(c), code' = Running,
         {"variant", "bk"} \cap DOMAIN c = {}, "pc" \in DOMAIN c
  PROVE  OthersWait' /\ Moves(c.pc)
<1> DEFINE n == Len(frames)
           g == With(fr, c)
           S == {frames[d] : d \in DOMAIN frames}
<1>1. n \in Nat \ {0} /\ DOMAIN frames = 1..n /\ {"variant", "bk", "pc"} \subseteq DOMAIN fr
  BY LastCall
<1>2. frames \in Seq(S)
  BY DEF OthersWait
<1>3. /\ DOMAIN g = DOMAIN c \cup DOMAIN fr
      /\ g["variant"] = fr["variant"] /\ g["bk"] = fr["bk"] /\ g["pc"] = c["pc"]
  BY <1>1 DEF With
<1>4. frames' = [frames EXCEPT ![n] = g]
  BY DEF Frame, fr
<1> HIDE DEF g, S
<1>5. frames' \in [1..n -> S \cup {g}]
  <2>1. frames \in [1..n -> S]
    BY <1>1, <1>2
  <2> QED BY <2>1, <1>4
<1>6. frames' \in Seq(S \cup {g}) /\ Len(frames') = n /\ DOMAIN frames' = 1..n
  BY <1>1, <1>5
<1>7. frames' \in Seq({frames'[d] : d \in DOMAIN frames'})
  <2>1. frames' \in [1..n -> {frames'[d] : d \in DOMAIN frames'}]
    BY <1>5, <1>6
  <2> QED BY <2>1, <1>1
<1>8. /\ \A d \in 1..n : d < n => frames'[d] = frames[d]
      /\ frames'[n] = g
  <2>1. frames \in [1..n -> S]
    BY <1>1, <1>2
  <2> HIDE DEF n
  <2> QED BY <2>1, <1>1, <1>4
<1>9. Moves(c.pc)
  BY <1>1, <1>3, <1>6, <1>8 DEF Moves
<1>10. ASSUME NEW d \in DOMAIN frames'
       PROVE  LET f == frames'[d]
              IN  /\ {"variant", "bk", "pc"} \subseteq DOMAIN f
                  /\ d < Len(frames') => f.pc = "back"
                  /\ f.variant = "8u" => d = 1 /\ f.bk.in = "heap"
                  /\ f.bk.in = "heap" => f.variant \in {"8u", "1k"}
  <2>1. CASE d < n
    BY <2>1, <1>1, <1>6, <1>8 DEF OthersWait
  <2>2. CASE d = n
    <3>1. /\ fr.variant = "8u" => n = 1 /\ fr.bk.in = "heap"
          /\ fr.bk.in = "heap" => fr.variant \in {"8u", "1k"}
      BY LastCall
    <3> QED BY <2>2, <3>1, <1>1, <1>3, <1>6, <1>8
  <2> QED BY <2>1, <2>2, <1>1, <1>6
<1> QED BY <1>7, <1>9, <1>10 DEF OthersWait

(* An action that moves the last call and allocates and releases nothing,  *)
(* within the phases that hold what they held.                             *)
LEMMA KeepsAccount ==
  ASSUME OthersWait, Accounted, frames # <<>>, NEW p, Moves(p), UNCHANGED input, fr.pc # "return",
         held' = held + (IF fr.variant = "1k" /\ fr.bk.in = "heap"
                         THEN Bit(p \in {"induce", "name", "place", "final"})
                              - Bit(fr.pc \in {"induce", "name", "place", "final"})
                         ELSE 0)
                      + (IF fr.variant = "8u" THEN Bit(p # "return") - Bit(fr.pc # "return") ELSE 0)
  PROVE  Accounted'
<1> DEFINE n == Len(frames)
<1>1. /\ n \in Nat \ {0} /\ DOMAIN frames = 1..n
      /\ fr.variant = "8u" => n = 1
      /\ frames[1].variant = "8u" /\ n > 1 => frames[1].pc = "back"
  BY LastCall
<1>2. fr' = frames'[n] /\ frames' # <<>>
  BY DEF Moves, fr
<1>3. Holds1k' <=> fr.variant = "1k" /\ fr.bk.in = "heap" /\ p \in {"induce", "name", "place", "final"}
  BY <1>2 DEF Holds1k, Moves
<1>4. Holds8u' <=> IF n = 1 THEN fr.variant = "8u" /\ p # "return" ELSE frames[1].variant = "8u"
  <2>1. CASE n = 1
    BY <2>1, <1>2 DEF Holds8u, Moves
  <2>2. CASE n > 1
    BY <2>2, <1>1, <1>2 DEF Holds8u, Moves
  <2> QED BY <2>1, <2>2, <1>1
<1>5. Holds8u <=> IF n = 1 THEN fr.variant = "8u" /\ fr.pc # "return" ELSE frames[1].variant = "8u"
  BY <1>1 DEF Holds8u, fr
<1>6. Holds1k <=> fr.variant = "1k" /\ fr.bk.in = "heap" /\ fr.pc \in {"induce", "name", "place", "final"}
  BY DEF Holds1k
<1>7. (Holds8u' => Holds8u) /\ (Holds8u' => input'.api = "libsais")
  BY <1>1, <1>4, <1>5 DEF Accounted
<1>8. held' = Bit(Holds8u') + Bit(Holds1k')
  <2>1. CASE fr.variant = "8u"
    BY <2>1, <1>1, <1>3, <1>4, <1>5, <1>6 DEF Accounted, Bit
  <2>2. CASE fr.variant # "8u"
    <3>1. Bit(Holds8u') = Bit(Holds8u)
      BY <2>2, <1>4, <1>5 DEF Bit
    <3>2. CASE fr.variant = "1k" /\ fr.bk.in = "heap"
      <4>1. held' = held + (Bit(Holds1k') - Bit(Holds1k))
        <5>1. held \in Int
          BY DEF Accounted, Bit
        <5> QED BY <5>1, <2>2, <3>2, <1>3, <1>6 DEF Bit
      <4> QED BY <3>1, <4>1 DEF Accounted, Bit
    <3>3. CASE ~(fr.variant = "1k" /\ fr.bk.in = "heap")
      BY <2>2, <3>1, <3>3, <1>3, <1>6 DEF Accounted, Bit
    <3> QED BY <3>2, <3>3
  <2> QED BY <2>1, <2>2
<1> QED BY <1>7, <1>8 DEF Accounted

-----------------------------------------------------------------------------
(* OthersWait that begin and end *)

(* Only main_8u and the 1k variant begin with buckets on the heap.         *)
LEMMA NewCall ==
  ASSUME NEW v, NEW n, NEW k, NEW fs, NEW t, NEW called \in Frames(v, n, k, fs, t)
  PROVE  /\ {"variant", "bk", "pc"} \subseteq DOMAIN called
         /\ called.variant = v /\ called.pc = "count"
         /\ v = "8u" => called.bk.in = "heap"
         /\ called.bk.in = "heap" => v \in {"8u", "1k"}
<1>1. PICK p \in BucketPlaces(v, n, k, Clamp(n, fs)) :
        called = [variant |-> v, n |-> n, k |-> k, fs |-> Clamp(n, fs), t |-> t, pc |-> "count",
                  m |-> 0, f |-> 0, bk |-> p]
  BY DEF Frames
<1>2. /\ v = "8u" => p.in = "heap"
      /\ p.in = "heap" => v \in {"8u", "1k"}
  BY DEF BucketPlaces
<1> QED BY <1>1, <1>2

(* libsais_main_32s_recursion is never main_8u.                            *)
LEMMA NewCall32 ==
  ASSUME NEW n, NEW k, NEW fs, NEW t, NEW called \in main_32s_recursion(n, k, fs, t)
  PROVE  /\ {"variant", "bk", "pc"} \subseteq DOMAIN called
         /\ called.variant # "8u" /\ called.pc = "count"
         /\ called.bk.in = "heap" => called.variant \in {"8u", "1k"}
<1> DEFINE v == Variant(n, k, Clamp(n, fs))
<1>1. v # "8u"
  BY DEF Variant
<1>2. called \in Frames(v, n, k, fs, t)
  BY DEF main_32s_recursion
<1> HIDE DEF v
<1> QED BY <1>1, <1>2, NewCall

(* One call alone is in order.                                             *)
LEMMA OneCall ==
  ASSUME NEW called, frames = <<called>>, code = Running,
         {"variant", "bk", "pc"} \subseteq DOMAIN called,
         called.variant = "8u" => called.bk.in = "heap",
         called.bk.in = "heap" => called.variant \in {"8u", "1k"}
  PROVE  OthersWait
<1>1. DOMAIN frames = {1} /\ frames[1] = called /\ Len(frames) = 1
  OBVIOUS
<1>2. frames \in Seq({frames[d] : d \in DOMAIN frames})
  <2>1. {frames[d] : d \in DOMAIN frames} = {called}
    BY <1>1
  <2>2. <<called>> \in Seq({called})
    OBVIOUS
  <2> QED BY <2>1, <2>2
<1> QED BY <1>1, <1>2 DEF OthersWait

(* No call is in order, and holds nothing.                                 *)
LEMMA NoCall ==
  ASSUME frames = <<>>
  PROVE  OthersWait /\ (Accounted <=> held = 0)
<1>1. DOMAIN frames = {} /\ frames \in Seq({frames[d] : d \in DOMAIN frames})
  OBVIOUS
<1> QED BY <1>1 DEF OthersWait, Accounted, Holds8u, Holds1k, Bit

(* The first call, if there is one, holds the buckets of main_8u.          *)
LEMMA InitHolds == Init => IInv
<1> SUFFICES ASSUME Init PROVE IInv
  OBVIOUS
<1>1. CASE frames = <<>> /\ held = 0
  BY <1>1, NoCall DEF IInv
<1>2. ASSUME NEW called, input.api = "libsais", frames = <<called>>, held = 1, code = Running,
             NEW n, NEW fs, called \in Frames("8u", n, ALPHABET_SIZE, fs, n + fs)
      PROVE  IInv
  <2>1. /\ {"variant", "bk", "pc"} \subseteq DOMAIN called
        /\ called.variant = "8u" /\ called.pc = "count" /\ called.bk.in = "heap"
    BY <1>2, NewCall
  <2>2. OthersWait
    BY <1>2, <2>1, OneCall
  <2>3. Accounted
    BY <1>2, <2>1 DEF Accounted, Holds8u, Holds1k, Bit, fr
  <2> QED BY <2>2, <2>3 DEF IInv
<1>3. ASSUME NEW called, frames = <<called>>, held = 0, code = Running,
             NEW n, NEW k, NEW fs, NEW t, called \in main_32s_recursion(n, k, fs, t)
      PROVE  IInv
  <2>1. /\ {"variant", "bk", "pc"} \subseteq DOMAIN called
        /\ called.variant # "8u" /\ called.pc = "count"
        /\ called.bk.in = "heap" => called.variant \in {"8u", "1k"}
    BY <1>3, NewCall32
  <2>2. OthersWait
    BY <1>3, <2>1, OneCall
  <2>3. Accounted
    BY <1>3, <2>1 DEF Accounted, Holds8u, Holds1k, Bit, fr
  <2> QED BY <2>2, <2>3 DEF IInv
<1> QED BY <1>1, <1>2, <1>3 DEF Init

(* A call that makes another waits for it, and holds nothing meanwhile but *)
(* the buckets of main_8u.                                                 *)
LEMMA RecurseHolds == IInv /\ Recurse => IInv'
<1> SUFFICES ASSUME IInv, Recurse PROVE IInv'
  OBVIOUS
<1> USE DEF IInv
<1>1. /\ code = Running /\ frames # <<>> /\ fr.pc = "name" /\ UNCHANGED <<b, code, input>>
      /\ held' = held - Bit(fr.variant = "1k" /\ fr.bk.in = "heap")
  BY DEF Recurse, At
<1>2. PICK c, called, n1, k1, fs1, t1 :
        /\ called \in main_32s_recursion(n1, k1, fs1, t1)
        /\ frames' = Append([frames EXCEPT ![Len(frames)] = With(@, [f |-> c, pc |-> "back", own |-> b])], called)
  BY DEF Recurse
<1> DEFINE n == Len(frames)
           g == With(fr, [f |-> c, pc |-> "back", own |-> b])
           S == {frames[d] : d \in DOMAIN frames}
           waiting == [frames EXCEPT ![n] = g]
<1>3. /\ n \in Nat \ {0} /\ DOMAIN frames = 1..n /\ {"variant", "bk", "pc"} \subseteq DOMAIN fr
      /\ fr.variant = "8u" => n = 1 /\ fr.bk.in = "heap"
      /\ fr.bk.in = "heap" => fr.variant \in {"8u", "1k"}
  BY <1>1, LastCall
<1>4. /\ {"variant", "bk", "pc"} \subseteq DOMAIN g
      /\ g["variant"] = fr["variant"] /\ g["bk"] = fr["bk"] /\ g["pc"] = "back"
  BY <1>3 DEF With
<1>5. frames' = Append(waiting, called)
  BY <1>2 DEF fr
<1>6. frames \in [1..n -> S]
  <2>1. frames \in Seq(S)
    BY DEF OthersWait
  <2> QED BY <2>1, <1>3
<1> HIDE DEF n, g, S
<1>7. /\ waiting \in [1..n -> S \cup {g}]
      /\ waiting[n] = g /\ \A d \in 1..n : d < n => waiting[d] = frames[d]
  BY <1>3, <1>6
<1> HIDE DEF waiting
<1>8. frames' \in [1..n + 1 -> S \cup {g, called}] /\ Len(frames') = n + 1
  <2>1. waiting \in Seq(S \cup {g, called}) /\ Len(waiting) = n
    BY <1>3, <1>7
  <2>2. frames' \in Seq(S \cup {g, called}) /\ Len(frames') = n + 1
    BY <2>1, <1>5
  <2> QED BY <2>2
<1>9. /\ \A d \in 1..n : d < n => frames'[d] = frames[d]
      /\ frames'[n] = g /\ frames'[n + 1] = called
  <2>1. waiting \in Seq(S \cup {g}) /\ Len(waiting) = n
    BY <1>3, <1>7
  <2>2. \A d \in 1..n + 1 : frames'[d] = IF d <= n THEN waiting[d] ELSE called
    BY <2>1, <1>3, <1>5
  <2> QED BY <2>2, <1>3, <1>7
<1>10. /\ {"variant", "bk", "pc"} \subseteq DOMAIN called
       /\ called.variant # "8u" /\ called.pc = "count"
       /\ called.bk.in = "heap" => called.variant \in {"8u", "1k"}
  BY <1>2, NewCall32
<1>11. OthersWait'
  <2>1. frames' \in Seq({frames'[d] : d \in DOMAIN frames'})
    <3>1. frames' \in [1..n + 1 -> {frames'[d] : d \in DOMAIN frames'}]
      BY <1>8
    <3> QED BY <3>1, <1>3
  <2>2. ASSUME NEW d \in DOMAIN frames'
        PROVE  LET f == frames'[d]
               IN  /\ {"variant", "bk", "pc"} \subseteq DOMAIN f
                   /\ d < Len(frames') => f.pc = "back"
                   /\ f.variant = "8u" => d = 1 /\ f.bk.in = "heap"
                   /\ f.bk.in = "heap" => f.variant \in {"8u", "1k"}
    <3>1. d \in 1..n + 1
      BY <1>8
    <3>2. CASE d < n
      BY <3>2, <3>1, <1>3, <1>9 DEF OthersWait, n
    <3>3. CASE d = n
      BY <3>3, <1>3, <1>4, <1>9
    <3>4. CASE d = n + 1
      BY <3>4, <1>3, <1>8, <1>9, <1>10
    <3> QED BY <3>1, <3>2, <3>3, <3>4, <1>3
  <2> QED BY <2>1, <2>2, <1>1 DEF OthersWait
<1>12. Accounted'
  <2>1. frames' # <<>> /\ fr' = called
    BY <1>3, <1>8, <1>9 DEF fr
  <2>2. ~Holds1k'
    BY <2>1, <1>10 DEF Holds1k
  <2>3. Holds8u' <=> Holds8u
    <3>1. CASE n = 1
      BY <3>1, <2>1, <1>1, <1>4, <1>9 DEF Holds8u, fr, n
    <3>2. CASE n > 1
      BY <3>2, <2>1, <1>1, <1>3, <1>9 DEF Holds8u
    <3> QED BY <3>1, <3>2, <1>3
  <2>4. Holds1k <=> fr.variant = "1k" /\ fr.bk.in = "heap"
    BY <1>1 DEF Holds1k
  <2>5. Bit(Holds8u') = Bit(Holds8u) /\ Bit(Holds1k') = 0
    BY <2>2, <2>3 DEF Bit
  <2>6. held' = Bit(Holds8u)
    BY <2>4, <1>1 DEF Accounted, Bit
  <2> QED BY <2>3, <2>5, <2>6, <1>1 DEF Accounted
<1> QED BY <1>11, <1>12

(* A call that returns holds nothing, and the one that made it goes on.    *)
LEMMA ReturnHolds == IInv /\ Return => IInv' /\ (code' # Running => held' = 0)
<1> SUFFICES ASSUME IInv, Return PROVE IInv' /\ (code' # Running => held' = 0)
  OBVIOUS
<1> USE DEF IInv
<1> DEFINE n == Len(frames)
           S == {frames[d] : d \in DOMAIN frames}
<1>1. /\ code = Running /\ frames # <<>> /\ fr.pc = "return" /\ UNCHANGED <<held, input>>
      /\ frames' = SubSeq(frames, 1, n - 1)
      /\ code' = IF n = 1 THEN 0 ELSE Running
  BY DEF Return, At, Front
<1>2. /\ n \in Nat \ {0} /\ DOMAIN frames = 1..n
      /\ fr.variant = "8u" => n = 1
      /\ frames[1].variant = "8u" /\ n > 1 => frames[1].pc = "back"
  BY <1>1, LastCall
<1>3. frames \in Seq(S)
  BY DEF OthersWait
<1>4. ~Holds1k
  BY <1>1 DEF Holds1k
<1>5. CASE n = 1
  <2>1. frames' = <<>>
    BY <1>1, <1>3, <1>5
  <2>2. ~Holds8u
    BY <1>1, <1>5 DEF Holds8u, fr
  <2>3. held' = 0
    BY <2>2, <1>1, <1>4 DEF Accounted, Bit
  <2>4. frames' = <<>> => OthersWait' /\ (Accounted' <=> held' = 0)
    BY DEF OthersWait, Accounted, Holds8u, Holds1k, Bit
  <2> QED BY <2>1, <2>3, <2>4
<1>6. CASE n > 1
  <2> HIDE DEF n, S
  <2>1. /\ frames' \in [1..n - 1 -> S] /\ Len(frames') = n - 1
        /\ \A d \in 1..n - 1 : frames'[d] = frames[d]
    <3>1. Len(frames) = n
      BY DEF n
    <3>2. frames' \in Seq(S) /\ Len(frames') = n - 1
      BY <1>1, <1>2, <1>3, <1>6, <3>1
    <3>3. \A d \in 1..n - 1 : frames'[d] = frames[d]
      BY <1>1, <1>2, <1>3, <1>6, <3>1
    <3> QED BY <3>2, <3>3, <1>2
  <2>2. frames' \in Seq({frames'[d] : d \in DOMAIN frames'})
    <3>1. frames' \in [1..n - 1 -> {frames'[d] : d \in DOMAIN frames'}]
      BY <2>1
    <3> QED BY <3>1, <1>2, <1>6
  <2>3. code' = Running
    BY <1>1, <1>6
  <2>4. OthersWait'
    <3>1. ASSUME NEW d \in 1..n - 1
          PROVE  LET f == frames'[d]
                 IN  /\ {"variant", "bk", "pc"} \subseteq DOMAIN f
                     /\ d < n - 1 => f.pc = "back"
                     /\ f.variant = "8u" => d = 1 /\ f.bk.in = "heap"
                     /\ f.bk.in = "heap" => f.variant \in {"8u", "1k"}
      <4>1. d \in DOMAIN frames /\ frames'[d] = frames[d] /\ d < Len(frames)
        BY <2>1, <1>2 DEF n
      <4> QED BY <4>1 DEF OthersWait
    <3>2. DOMAIN frames' = 1..n - 1
      BY <2>1
    <3> QED BY <2>1, <2>2, <2>3, <3>1, <3>2 DEF OthersWait
  <2>5. frames' # <<>> /\ fr' = frames[n - 1] /\ fr'.pc = "back"
    BY <2>1, <1>2, <1>6 DEF fr, OthersWait, n
  <2>6. ~Holds1k'
    BY <2>5 DEF Holds1k
  <2>7. Holds8u' <=> Holds8u
    BY <2>1, <2>5, <1>1, <1>2, <1>6 DEF Holds8u
  <2>8. Bit(Holds8u') = Bit(Holds8u) /\ Bit(Holds1k') = Bit(Holds1k)
    BY <2>6, <2>7, <1>4 DEF Bit
  <2>9. Accounted'
    BY <2>7, <2>8, <1>1 DEF Accounted
  <2> QED BY <2>3, <2>4, <2>9
<1> QED BY <1>2, <1>5, <1>6

-----------------------------------------------------------------------------
(* Every step *)

(* The actions that move the last call from one phase to the next and      *)
(* neither allocate nor release.                                           *)
Phase == \/ Count8u \/ Count6k \/ Count2k4k
         \/ Sort8u \/ Sort6k \/ Sort4k \/ Sort2k
         \/ Induce8u \/ Induce \/ Distinct
         \/ Back8u \/ Back2k4k6k \/ Place

(* Such an action stays where what is held is held.                        *)
LEMMA PhaseIs ==
  ASSUME Phase
  PROVE  /\ frames # <<>> /\ code = Running /\ UNCHANGED <<held, code, input>>
         /\ fr.pc # "return"
         /\ \E c : /\ Frame(c) /\ {"variant", "bk"} \cap DOMAIN c = {} /\ "pc" \in DOMAIN c
                   /\ c.pc # "return"
                   /\ fr.variant = "1k" =>
                        /\ fr.pc \in {"induce", "name", "place", "final"}
                        /\ c.pc \in {"induce", "name", "place", "final"}
<1>1. ASSUME NEW p \in {"induce", "name", "place", "final"}, Go(p), frames # <<>>, code = Running,
             UNCHANGED <<held, code, input>>, fr.pc # "return",
             fr.variant = "1k" => fr.pc \in {"induce", "name", "place", "final"}
      PROVE  /\ frames # <<>> /\ code = Running /\ UNCHANGED <<held, code, input>>
             /\ fr.pc # "return"
             /\ \E c : /\ Frame(c) /\ {"variant", "bk"} \cap DOMAIN c = {} /\ "pc" \in DOMAIN c
                       /\ c.pc # "return"
                       /\ fr.variant = "1k" =>
                            /\ fr.pc \in {"induce", "name", "place", "final"}
                            /\ c.pc \in {"induce", "name", "place", "final"}
  <2> DEFINE c == [pc |-> p]
  <2>1. Frame(c)
    BY <1>1 DEF Go
  <2>2. DOMAIN c = {"pc"} /\ c.pc = p
    OBVIOUS
  <2> HIDE DEF c
  <2> QED BY <1>1, <2>1, <2>2
<1>2. ASSUME NEW m, NEW p \in {"sort", "place", "final"}, Frame([m |-> m, pc |-> p]), frames # <<>>,
             code = Running, UNCHANGED <<held, code, input>>, fr.pc = "count", fr.variant # "1k"
      PROVE  /\ frames # <<>> /\ code = Running /\ UNCHANGED <<held, code, input>>
             /\ fr.pc # "return"
             /\ \E c : /\ Frame(c) /\ {"variant", "bk"} \cap DOMAIN c = {} /\ "pc" \in DOMAIN c
                       /\ c.pc # "return"
                       /\ fr.variant = "1k" =>
                            /\ fr.pc \in {"induce", "name", "place", "final"}
                            /\ c.pc \in {"induce", "name", "place", "final"}
  <2> DEFINE c == [m |-> m, pc |-> p]
  <2>1. DOMAIN c = {"m", "pc"} /\ c.pc = p
    OBVIOUS
  <2>2. Frame(c)
    BY <1>2
  <2> HIDE DEF c
  <2> QED BY <1>2, <2>1, <2>2
<1>3. CASE Count8u
  BY <1>2, <1>3 DEF Count8u, At
<1>4. CASE Count6k
  BY <1>2, <1>4 DEF Count6k, At
<1>5. CASE Count2k4k
  BY <1>2, <1>5 DEF Count2k4k, At
<1>6. CASE Sort8u
  BY <1>1, <1>6 DEF Sort8u, At
<1>7. CASE Sort6k
  BY <1>1, <1>7 DEF Sort6k, At
<1>8. CASE Sort4k
  BY <1>1, <1>8 DEF Sort4k, At
<1>9. CASE Sort2k
  BY <1>1, <1>9 DEF Sort2k, At
<1>10. CASE Induce8u
  BY <1>1, <1>10 DEF Induce8u, At
<1>11. CASE Induce
  BY <1>1, <1>11 DEF Induce, At
<1>12. CASE Distinct
  BY <1>1, <1>12 DEF Distinct, At
<1>13. CASE Back8u
  BY <1>1, <1>13 DEF Back8u, At
<1>14. CASE Back2k4k6k
  BY <1>1, <1>14 DEF Back2k4k6k, At
<1>15. CASE Place
  BY <1>1, <1>15 DEF Place, At
<1> QED BY <1>3, <1>4, <1>5, <1>6, <1>7, <1>8, <1>9, <1>10, <1>11, <1>12, <1>13, <1>14, <1>15 DEF Phase

(* A move of the last call that allocates what its new phase holds and     *)
(* releases what it does not.                                              *)
LEMMA MoveHolds ==
  ASSUME IInv, frames # <<>>, code' = Running, UNCHANGED input, fr.pc # "return",
         NEW c, Frame(c), {"variant", "bk"} \cap DOMAIN c = {}, "pc" \in DOMAIN c,
         held' = held + (IF fr.variant = "1k" /\ fr.bk.in = "heap"
                         THEN Bit(c.pc \in {"induce", "name", "place", "final"})
                              - Bit(fr.pc \in {"induce", "name", "place", "final"})
                         ELSE 0)
                      + (IF fr.variant = "8u" THEN Bit(c.pc # "return") - Bit(fr.pc # "return") ELSE 0)
  PROVE  IInv'
<1>1. OthersWait /\ Accounted
  BY DEF IInv
<1>2. OthersWait' /\ Moves(c.pc)
  BY <1>1, Changed
<1> DEFINE p == c.pc
<1> HIDE DEF p
<1>3. Moves(p) /\ held' = held + (IF fr.variant = "1k" /\ fr.bk.in = "heap"
                         THEN Bit(p \in {"induce", "name", "place", "final"})
                              - Bit(fr.pc \in {"induce", "name", "place", "final"})
                         ELSE 0)
                      + (IF fr.variant = "8u" THEN Bit(p # "return") - Bit(fr.pc # "return") ELSE 0)
  BY <1>2 DEF p
<1>4. Accounted'
  BY <1>1, <1>3, KeepsAccount
<1> QED BY <1>2, <1>4 DEF IInv

(* All calls end: only main_8u may still hold its buckets, which libsais   *)
(* frees.                                                                  *)
LEMMA FailHolds ==
  ASSUME IInv, frames # <<>>, ~Holds1k, Fail
  PROVE  IInv' /\ held' = 0
<1>1. frames' = <<>>
  BY DEF Fail
<1>2. held' = 0
  <2>1. CASE input.api = "libsais"
    BY <2>1 DEF Fail
  <2>2. CASE input.api # "libsais"
    BY <2>2 DEF Fail, IInv, Accounted, Bit
  <2> QED BY <2>1, <2>2
<1>3. OthersWait' /\ Accounted'
  BY <1>1, <1>2 DEF OthersWait, Accounted, Holds8u, Holds1k, Bit
<1> QED BY <1>2, <1>3 DEF IInv

(* held is a number.                                                       *)
LEMMA HeldIs == Accounted => held \in Int
BY DEF Accounted, Bit

(* Every step keeps it. *)
LEMMA StepHolds == IInv /\ BuffersReleased /\ [Next]_vars => IInv' /\ BuffersReleased'
<1> SUFFICES ASSUME IInv, BuffersReleased, [Next]_vars PROVE IInv' /\ BuffersReleased'
  OBVIOUS
<1>0. held \in Int
  BY HeldIs DEF IInv
<1>1. ASSUME Phase PROVE IInv' /\ BuffersReleased'
  <2>1. PICK c : /\ Frame(c) /\ {"variant", "bk"} \cap DOMAIN c = {} /\ "pc" \in DOMAIN c
                 /\ c.pc # "return"
                 /\ fr.variant = "1k" =>
                      /\ fr.pc \in {"induce", "name", "place", "final"}
                      /\ c.pc \in {"induce", "name", "place", "final"}
    BY <1>1, PhaseIs
  <2>2. /\ frames # <<>> /\ code = Running /\ UNCHANGED <<held, code, input>>
        /\ fr.pc # "return"
    BY <1>1, PhaseIs
  <2>3. held' = held + (IF fr.variant = "1k" /\ fr.bk.in = "heap"
                        THEN Bit(c.pc \in {"induce", "name", "place", "final"})
                             - Bit(fr.pc \in {"induce", "name", "place", "final"})
                        ELSE 0)
                     + (IF fr.variant = "8u" THEN Bit(c.pc # "return") - Bit(fr.pc # "return") ELSE 0)
    BY <2>1, <2>2, <1>0 DEF Bit
  <2>4. IInv'
    BY <2>1, <2>2, <2>3, MoveHolds
  <2> QED BY <2>2, <2>4 DEF BuffersReleased
<1>2. CASE Count1k
  <2>1. frames # <<>> /\ code = Running /\ fr.pc = "count" /\ fr.variant = "1k" /\ UNCHANGED input
    BY <1>2 DEF Count1k, At
  <2>2. ASSUME NEW m, NEW p \in {"induce", "final"}, Frame([m |-> m, pc |-> p]),
               held' = held + Bit(fr.bk.in = "heap"), UNCHANGED code
        PROVE  IInv' /\ BuffersReleased'
    <3> DEFINE c == [m |-> m, pc |-> p]
    <3>1. DOMAIN c = {"m", "pc"} /\ c.pc = p /\ Frame(c)
      BY <2>2
    <3> HIDE DEF c
    <3>2. held' = held + (IF fr.variant = "1k" /\ fr.bk.in = "heap"
                          THEN Bit(c.pc \in {"induce", "name", "place", "final"})
                               - Bit(fr.pc \in {"induce", "name", "place", "final"})
                          ELSE 0)
                       + (IF fr.variant = "8u" THEN Bit(c.pc # "return") - Bit(fr.pc # "return") ELSE 0)
      BY <2>1, <2>2, <3>1, <1>0 DEF Bit
    <3>3. IInv'
      BY <2>1, <2>2, <3>1, <3>2, MoveHolds
    <3> QED BY <2>1, <2>2, <3>3 DEF BuffersReleased
  <2>3. ASSUME Fail PROVE IInv' /\ BuffersReleased'
    <3>1. ~Holds1k
      BY <2>1 DEF Holds1k
    <3> QED BY <2>1, <2>3, <3>1, FailHolds DEF BuffersReleased
  <2>4. \/ Fail
        \/ \E m, p : /\ p \in {"induce", "final"} /\ Frame([m |-> m, pc |-> p])
                     /\ held' = held + Bit(fr.bk.in = "heap") /\ UNCHANGED code
    BY <1>2 DEF Count1k
  <2> QED BY <2>2, <2>3, <2>4
<1>3. CASE Back1k
  <2>1. frames # <<>> /\ code = Running /\ fr.pc = "back" /\ fr.variant = "1k" /\ UNCHANGED input
    BY <1>3 DEF Back1k, At
  <2>2. ASSUME held' = held + Bit(fr.bk.in = "heap"), Go("place"), UNCHANGED code
        PROVE  IInv' /\ BuffersReleased'
    <3> DEFINE c == [pc |-> "place"]
    <3>1. DOMAIN c = {"pc"} /\ c.pc = "place" /\ Frame(c)
      BY <2>2 DEF Go
    <3> HIDE DEF c
    <3>2. held' = held + (IF fr.variant = "1k" /\ fr.bk.in = "heap"
                          THEN Bit(c.pc \in {"induce", "name", "place", "final"})
                               - Bit(fr.pc \in {"induce", "name", "place", "final"})
                          ELSE 0)
                       + (IF fr.variant = "8u" THEN Bit(c.pc # "return") - Bit(fr.pc # "return") ELSE 0)
      BY <2>1, <2>2, <3>1, <1>0 DEF Bit
    <3>3. IInv'
      BY <2>1, <2>2, <3>1, <3>2, MoveHolds
    <3> QED BY <2>1, <2>2, <3>3 DEF BuffersReleased
  <2>3. ASSUME Fail PROVE IInv' /\ BuffersReleased'
    <3>1. ~Holds1k
      BY <2>1 DEF Holds1k
    <3> QED BY <2>1, <2>3, <3>1, FailHolds DEF BuffersReleased
  <2> QED BY <2>2, <2>3, <1>3 DEF Back1k
<1>4. CASE Final
  <2>1. /\ frames # <<>> /\ code = Running /\ fr.pc = "final" /\ UNCHANGED <<code, input>>
        /\ Go("return") /\ held' = held - Bit(fr.bk.in = "heap")
    BY <1>4 DEF Final, At
  <2>2. /\ fr.variant = "8u" => fr.bk.in = "heap"
        /\ fr.bk.in = "heap" => fr.variant \in {"8u", "1k"}
    BY <2>1, LastCall DEF IInv
  <2> DEFINE c == [pc |-> "return"]
  <2>3. DOMAIN c = {"pc"} /\ c.pc = "return" /\ Frame(c)
    BY <2>1 DEF Go
  <2> HIDE DEF c
  <2>4. held' = held + (IF fr.variant = "1k" /\ fr.bk.in = "heap"
                        THEN Bit(c.pc \in {"induce", "name", "place", "final"})
                             - Bit(fr.pc \in {"induce", "name", "place", "final"})
                        ELSE 0)
                     + (IF fr.variant = "8u" THEN Bit(c.pc # "return") - Bit(fr.pc # "return") ELSE 0)
    BY <2>1, <2>2, <2>3, <1>0 DEF Bit
  <2>5. IInv'
    BY <2>1, <2>3, <2>4, MoveHolds
  <2> QED BY <2>1, <2>5 DEF BuffersReleased
<1>5. CASE Recurse
  <2>1. IInv' /\ code' = Running
    BY <1>5, RecurseHolds DEF Recurse, At
  <2> QED BY <2>1 DEF BuffersReleased
<1>6. CASE Return
  BY <1>6, ReturnHolds DEF BuffersReleased
<1>7. CASE Trivial
  <2>1. frames = <<>> /\ UNCHANGED <<frames, held, input>>
    BY <1>7 DEF Trivial
  <2>2. held = 0
    BY <2>1 DEF IInv, Accounted, Holds8u, Holds1k, Bit
  <2>3. IInv'
    BY <2>1, <2>2 DEF IInv, OthersWait, Accounted, Holds8u, Holds1k, Bit
  <2> QED BY <2>1, <2>2, <2>3 DEF BuffersReleased
<1>8. CASE UNCHANGED vars
  BY <1>8 DEF vars, IInv, OthersWait, Accounted, Holds8u, Holds1k, Bit, fr, BuffersReleased
<1>9. CASE Answered
  BY <1>8, <1>9 DEF Answered
<1> QED BY <1>1, <1>2, <1>3, <1>4, <1>5, <1>6, <1>7, <1>8, <1>9 DEF Next, Phase

(* libsais.c:6830, 6845, 6856, 6866, 6934: however deep the calls go and   *)
(* whichever allocation fails, who holds a buffer is known, and every      *)
(* buffer is given back by the time the caller has its answer.             *)
THEOREM EveryBufferIsReleased == Spec => [](IInv /\ BuffersReleased)
<1>1. Init => BuffersReleased
  <2> SUFFICES ASSUME Init, code # Running PROVE held = 0
    BY DEF BuffersReleased
  <2> QED BY DEF Init
<1> QED BY <1>1, InitHolds, StepHolds, PTL DEF Spec
=============================================================================
