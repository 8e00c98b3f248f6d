----------------------------- MODULE OrderedMap -----------------------------
(***************************************************************************)
(* What a Grayscale map promises: a list of entries in the order their     *)
(* keys were first inserted, at most one entry per key, where two floating *)
(* point keys are the same key when they are both zero or both NaN.  While *)
(* a for_each runs over the map, entries are neither added nor removed.    *)
(***************************************************************************)
EXTENDS Integers, Sequences, SequencesExt

CONSTANTS
  Keys,    \* the bit patterns a key can have
  Values,
  Canon    \* Canon[k]: the bit pattern that stands for the key k is equal to

VARIABLES
  entries,    \* the entries, oldest first
  iterating,  \* the number of for_each loops that guard the map
  panicked

vars == <<entries, iterating, panicked>>

Same(j, k) == Canon[j] = Canon[k]
Position(k) ==
  LET list == entries
  IN  {i \in DOMAIN list : Same(list[i].key, k)}

Init == entries = <<>> /\ iterating = 0 /\ panicked = "none"

Panic == panicked' = "P0035" /\ UNCHANGED <<entries, iterating>>

\* An update keeps the key as it was first written.
Update(k, v) ==
  /\ UNCHANGED <<iterating, panicked>>
  /\ \E p \in Position(k) : entries' = [entries EXCEPT ![p].value = v]

Insert(k, v) ==
  /\ iterating = 0
  /\ UNCHANGED <<iterating, panicked>>
  /\ Position(k) = {}
  /\ entries' = Append(entries, [key |-> k, value |-> v])

Delete(k) ==
  /\ iterating = 0
  /\ UNCHANGED <<iterating, panicked>>
  /\ \E p \in Position(k) : entries' = RemoveAt(entries, p)

Clear ==
  /\ iterating = 0
  /\ UNCHANGED <<iterating, panicked>>
  /\ entries' = <<>>

\* Insert, remove, clear and assignment all refuse while a loop is running.
Refuse == iterating > 0 /\ Panic

Begin == iterating' = iterating + 1 /\ UNCHANGED <<entries, panicked>>
End == iterating > 0 /\ iterating' = iterating - 1 /\ UNCHANGED <<entries, panicked>>

Next ==
  /\ panicked = "none"
  /\ \/ \E k \in Keys, v \in Values : Update(k, v) \/ Insert(k, v)
     \/ \E k \in Keys : Delete(k)
     \/ Clear
     \/ Refuse
     \/ Begin
     \/ End

Spec == Init /\ [][Next]_vars
=============================================================================
