----------------------------- MODULE MCNumbers ------------------------------
(* Numbers for TLC: words of four bits.  Every number of one word; of two  *)
(* and of four words, those made of the words at which a carry, a sign or  *)
(* a mask changes, and a few small ones.                                   *)
EXTENDS Numbers

MCOperands ==
  [1 .. 1 -> Words] \cup [1 .. 2 -> {0, 1, 2, 5, 7, 8, 10, 13, 15}] \cup [1 .. 4 -> {0, 8, 15}]
    \cup {Small(w, 4) : w \in {1, 3, 7}} \cup {Neg(Small(w, 4)) : w \in {1, 3, 7}}

MCBounds ==
  [1 .. 1 -> {0, 1, 3, 6, 7, 8, 9, 13, 15}]
    \cup {<<0, 0>>, <<1, 0>>, <<0, 3>>, <<5, 6>>, <<14, 7>>, <<15, 7>>, <<0, 8>>, <<3, 8>>, <<15, 15>>}
=============================================================================
