---------------------------- MODULE MCSuffixSort ----------------------------
(* All short texts of two symbols; longer ones with many repeats, so that
   the names have to be sorted too, over up to five symbols. *)
EXTENDS SuffixSort

Short == UNION {[0..(n - 1) -> 0..1] : n \in 0..7}
\* Nearly periodic texts, and periodic ones.
Wave(n, k, x, y) == [i \in 0..(n - 1) |-> ((x * i * i + y * i) \div 5) % k]
Periodic(n, word) == [i \in 0..(n - 1) |-> word[(i % Len(word)) + 1]]
Words == {<<0, 1>>, <<1, 0, 1>>, <<0, 1, 0, 2>>, <<1, 0, 1, 0, 2>>, <<0, 1, 0, 0, 1>>, <<2, 0, 2, 1>>,
          <<0, 2, 0, 1, 0, 2, 1>>, <<0, 1, 0, 1, 0, 2, 0, 1, 0, 2>>}
Long == {Wave(n, k, x, y) : n \in {12, 21, 30}, k \in {2, 3, 5}, x \in {1, 2}, y \in {0, 3}}
        \cup {Periodic(n, w) : n \in {13, 24, 33}, w \in Words}
        \cup {Periodic(n, w) @@ Periodic(n + 12, u) : n \in {16, 25}, w \in Words, u \in Words}
SymbolsOf(text) == Max({1} \cup {text[i] : i \in DOMAIN text}) + 1

MCInputs ==
  [api : {"libsais"}, text : Short, fs : {0, 5}]
  \cup {[api |-> "libsais_int", text |-> s, k |-> 2, fs |-> fs] : s \in Short, fs \in {0, 4, 9, 14}}
  \cup [api : {"libsais"}, text : Long, fs : {0, 12}]
  \cup {[api |-> "libsais_int", text |-> s, k |-> SymbolsOf(s), fs |-> fs] : s \in Long, fs \in {0, 9, 15, 34}}
MCJunk == {7}
MCAlignments == <<4, 2>>
=============================================================================
