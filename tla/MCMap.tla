------------------------------- MODULE MCMap -------------------------------
(* Map for TLC: the keys ka, kb, kc and kz, where kz is the same key as ka, *)
(* like -0.0 and 0.0.                                                       *)
EXTENDS Map

CONSTANTS ka, kb, kc, kz

MCKeys == {ka, kb, kc, kz}
MCCanon == [k \in MCKeys |-> IF k = kz THEN ka ELSE k]
MCFewKeys == {ka, kb, kz}
MCFewCanon == [k \in MCFewKeys |-> MCCanon[k]]

MCSymmetry == Permutations({kb, kc})
=============================================================================
