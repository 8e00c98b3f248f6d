-------------------------------- MODULE Map --------------------------------
(***************************************************************************)
(* grayc/src/runtime/map.c: the runtime's hash map, an open-addressing    *)
(* table with linear probing, tombstones and an append-only insertion      *)
(* order, and the for_each loops codegen.c emits over it.                  *)
(*                                                                         *)
(* The keys are bit patterns: keys_equal and hash_key see them through     *)
(* Canon, which merges the zeros and the NaNs of a floating point key kind *)
(* and is the identity for the other kinds.  FNV-1a with its random seed   *)
(* is some function of the canonical key, chosen once per process.         *)
(***************************************************************************)
EXTENDS Integers, Sequences, FiniteSets, SequencesExt, FiniteSetsExt

CONSTANTS
  Keys,         \* the bit patterns of the keys
  Canon,        \* Canon[k]: the representative of the keys equal to k
  Values,
  Junk,         \* what uninitialized memory holds
  Hashes,       \* the hash values
  Capacities,   \* GRAY_MAP_MIN_CAPACITY doubled again and again, up to 1 << 30
  Hints,        \* the capacities maps are created with
  MaxLoops,     \* bound: nested for_each loops
  LoopKinds     \* what the loops are over: "label", "path"

ASSUME MapAssumption ==
  /\ Canon \in [Keys -> Keys]
  /\ \A k \in Keys : Canon[Canon[k]] = Canon[k]
  /\ Junk \notin Keys \cup Values
  /\ Hashes \subseteq Nat /\ Hints \subseteq Int
  /\ Capacities \subseteq Nat \ {0, 1} /\ \E top \in Capacities : \A c \in Capacities : c <= top
  /\ \A c, d \in Capacities : c < d => c * 2 \in Capacities /\ c * 2 <= d
  /\ MaxLoops \in Nat /\ LoopKinds \subseteq {"label", "path"}

VARIABLES
  seed,      \* the hash of every canonical key in this process
  map,       \* the GrayMap header and the arrays it points to
  rebuild,   \* the call of map_rebuild being executed
  loops,     \* the for_each loops being executed, innermost last
  panicked

vars == <<seed, map, rebuild, loops, panicked>>

\* Bug: a floating point key is hashed by its bytes.
hash_bytes(k) == seed[k]

hash_key(k) == seed[Canon[k]]
keys_equal(j, k) == Canon[j] = Canon[k]

-----------------------------------------------------------------------------
(* Tables.                                                                 *)

MinCapacity == Min(Capacities)
Ceiling == Max(Capacities)

\* Bug: the doubling stops one step early.
RoundShort(c) ==
  IF c < MinCapacity THEN MinCapacity
  ELSE IF c > Ceiling THEN Ceiling
  ELSE Min({p \in Capacities : 2 * p >= c})

gray_map_round_capacity(c) ==
  IF c < MinCapacity THEN MinCapacity
  ELSE IF c > Ceiling THEN Ceiling
  ELSE Min({p \in Capacities : p >= c})

\* states is cleared; keys, values, order and order_position are not.
gray_map_new_kind(initial_capacity) ==
  LET c == gray_map_round_capacity(initial_capacity)
      fill(x) == [s \in 0 .. c - 1 |-> x]
  IN  [keys |-> fill(Junk), values |-> fill(Junk), states |-> fill("empty"),
       order |-> fill(Junk), order_position |-> fill(Junk),
       count |-> 0, capacity |-> c, order_len |-> 0, iterating |-> 0]

Home(m, k) == hash_key(k) % m.capacity
Probe(m, k, i) == (Home(m, k) + i) % m.capacity

\* The probes at which a search for k ends: an empty slot, or k itself.
Stops(m, k) ==
  {i \in 0 .. m.capacity - 1 :
     LET s == Probe(m, k, i)
     IN  \/ m.states[s] = "empty"
         \/ m.states[s] = "occupied" /\ keys_equal(m.keys[s], k)}

find_slot(m, k) ==
  IF Stops(m, k) = {} THEN -1
  ELSE LET s == Probe(m, k, Min(Stops(m, k)))
       IN  IF m.states[s] = "empty" THEN -1 ELSE s

map_insert_at(m, s, k, v) ==
  [keys |-> [m.keys EXCEPT ![s] = k], values |-> [m.values EXCEPT ![s] = v],
   states |-> [m.states EXCEPT ![s] = "occupied"],
   order |-> [m.order EXCEPT ![m.order_len] = s],
   order_position |-> [m.order_position EXCEPT ![s] = m.order_len],
   count |-> m.count + 1, capacity |-> m.capacity, order_len |-> m.order_len + 1,
   iterating |-> m.iterating]

Tombstones(m, k, end) ==
  {i \in 0 .. end - 1 : m.states[Probe(m, k, i)] = "tombstone"}

\* The probe loop of gray_map_set: update the key where it is, else insert it
\* at the first tombstone on the way, else at the empty slot that ended the
\* search.  With neither, nothing is written.
Write(m, k, v) ==
  LET end == IF Stops(m, k) = {} THEN m.capacity ELSE Min(Stops(m, k))
      tombstones == Tombstones(m, k, end)
  IN  IF end < m.capacity /\ m.states[Probe(m, k, end)] = "occupied"
      THEN [m EXCEPT !.values[Probe(m, k, end)] = v]
      ELSE IF tombstones # {}
      THEN map_insert_at(m, Probe(m, k, Min(tombstones)), k, v)
      ELSE IF end < m.capacity
      THEN map_insert_at(m, Probe(m, k, end), k, v)
      ELSE m

\* The entries of order that are no holes, and the slots they name in insertion
\* order, as every reader of order sees them.
Listed(m) ==
  {i \in 0 .. m.order_len - 1 : m.order[i] >= 0 /\ m.states[m.order[i]] = "occupied"}
Rank(P, i) == Cardinality({j \in P : j <= i})
Nth(P, r) == CHOOSE i \in P : Rank(P, i) = r
LiveSlots(m) ==
  LET P == Listed(m)
  IN  [r \in 1 .. Cardinality(P) |-> m.order[Nth(P, r)]]

IsOverloaded(m) == m.count * 4 >= m.capacity * 3
IsOrderFull(m) == m.order_len >= m.capacity

-----------------------------------------------------------------------------
(* The operations of a program.                                            *)

Panic(code) == panicked' = code /\ UNCHANGED <<seed, map, rebuild, loops>>

\* map_rebuild has the old arrays, is at an entry of their order, and will
\* return to the gray_map_set of a key and a value.
NoRebuild == [old |-> gray_map_new_kind(0), next |-> 0, key |-> Junk, value |-> Junk]
Rebuilding == rebuild.key # Junk

Init ==
  /\ seed \in [Keys -> Hashes]
  /\ \E c \in Hints : map = gray_map_new_kind(c)
  /\ rebuild = NoRebuild
  /\ loops = <<>>
  /\ panicked = "none"

map_rebuild(new_capacity, k, v) ==
  /\ map' = gray_map_new_kind(new_capacity)
  /\ rebuild' = [old |-> map, next |-> 0, key |-> k, value |-> v]

\* Bound: a map at the ceiling is not written to.
gray_map_set(k, v) ==
  /\ map.capacity < Ceiling
  /\ LET existing == find_slot(map, k)
     IN  \/ map.iterating > 0 /\ existing < 0 /\ Panic("P0035")
         \/ /\ map.iterating > 0 /\ existing >= 0
            /\ map' = [map EXCEPT !.values[existing] = v]
            /\ UNCHANGED <<seed, rebuild, loops, panicked>>
         \/ /\ map.iterating = 0
            /\ IF IsOverloaded(map) THEN map_rebuild(map.capacity * 2, k, v)
               ELSE IF IsOrderFull(map) THEN map_rebuild(map.capacity, k, v)
               ELSE map' = Write(map, k, v) /\ UNCHANGED rebuild
            /\ UNCHANGED <<seed, loops, panicked>>

\* Bug: the entries are taken in the order of their slots.
SlotOfNumber == rebuild.next

OldSlot == rebuild.old.order[rebuild.next]

\* An entry of the old order goes into the new table.  The gray_map_set that
\* puts it there starts with the two tests that led here: RebuildMakesRoom says
\* that they fail.
Reinsert ==
  /\ rebuild.next < rebuild.old.order_len
  /\ map' = IF OldSlot >= 0 /\ rebuild.old.states[OldSlot] = "occupied"
            THEN Write(map, rebuild.old.keys[OldSlot], rebuild.old.values[OldSlot])
            ELSE map
  /\ rebuild' = [old |-> rebuild.old, next |-> rebuild.next + 1,
                 key |-> rebuild.key, value |-> rebuild.value]
  /\ UNCHANGED <<seed, loops, panicked>>

\* Back in gray_map_set, where order cannot be full, as RebuildMakesRoom says.
EndRebuild ==
  /\ rebuild.next = rebuild.old.order_len
  /\ map' = Write(map, rebuild.key, rebuild.value)
  /\ rebuild' = NoRebuild
  /\ UNCHANGED <<seed, loops, panicked>>

\* Bugs: remove does not look at iterating; the entry of order stays.
RemoveUnguarded(k) ==
  LET s == find_slot(map, k)
  IN  /\ map' = IF s < 0 THEN map
                ELSE [map EXCEPT !.states[s] = "tombstone", !.count = @ - 1,
                                 !.order[map.order_position[s]] = -1]
      /\ UNCHANGED <<seed, rebuild, loops, panicked>>

RemoveKeepsOrder(k) ==
  LET s == find_slot(map, k)
  IN  \/ map.iterating > 0 /\ Panic("P0035")
      \/ /\ map.iterating = 0
         /\ map' = IF s < 0 THEN map
                   ELSE [map EXCEPT !.states[s] = "tombstone", !.count = @ - 1]
         /\ UNCHANGED <<seed, rebuild, loops, panicked>>

\* The code leaves the old bytes in the cells of a slot it takes out of order:
\* nothing it does afterwards reads them, and the model has one value for them.
Without(m, s) ==
  LET position == m.order_position[s]
      is_listed == position \in 0 .. m.order_len - 1 /\ m.order[position] = s
  IN  [keys |-> [m.keys EXCEPT ![s] = Junk], values |-> [m.values EXCEPT ![s] = Junk],
       states |-> [m.states EXCEPT ![s] = "tombstone"],
       order |-> IF is_listed THEN [m.order EXCEPT ![position] = -1] ELSE m.order,
       order_position |-> [m.order_position EXCEPT ![s] = Junk],
       count |-> m.count - 1, capacity |-> m.capacity, order_len |-> m.order_len,
       iterating |-> m.iterating]

gray_map_remove(k) ==
  LET s == find_slot(map, k)
  IN  \/ map.iterating > 0 /\ Panic("P0035")
      \/ /\ map.iterating = 0
         /\ map' = IF s < 0 THEN map ELSE Without(map, s)
         /\ UNCHANGED <<seed, rebuild, loops, panicked>>

\* memset clears states; the rest of the arrays is forgotten, as above.
gray_map_clear ==
  \/ map.iterating > 0 /\ Panic("P0035")
  \/ /\ map.iterating = 0
     /\ map' = gray_map_new_kind(map.capacity)
     /\ UNCHANGED <<seed, rebuild, loops, panicked>>

\* The arrays byte for byte, in memory of their own, and no loop on them.
gray_map_copy(m) ==
  [keys |-> m.keys, values |-> m.values, states |-> m.states, order |-> m.order,
   order_position |-> m.order_position, count |-> m.count, capacity |-> m.capacity,
   order_len |-> m.order_len, iterating |-> 0]

\* m = {}, for a literal made with room for c entries.
Assign(c) ==
  \/ map.iterating > 0 /\ Panic("P0035")
  \/ /\ map.iterating = 0
     /\ map' = gray_map_copy(gray_map_new_kind(c))
     /\ UNCHANGED <<seed, rebuild, loops, panicked>>

-----------------------------------------------------------------------------
(* for_each k in m.  A map variable (a "label") is guarded and read in     *)
(* place.  Any other expression (s.m, ms[0], p^.m: a "path") is copied to  *)
(* a temporary header, and the counter of the temporary is incremented:    *)
(* what such a loop reads is not followed here.                            *)

KeysIn(m) ==
  LET slots == LiveSlots(m)
  IN  [i \in DOMAIN slots |-> m.keys[slots[i]]]

\* start and visited are the keys of the map when the loop began, and those
\* the loop variable has had.
ForEach(over) ==
  /\ Len(loops) < MaxLoops
  /\ loops' = Append(loops, [over |-> over, index |-> 0,
                             start |-> KeysIn(map), visited |-> <<>>])
  /\ map' = IF over = "label" THEN [map EXCEPT !.iterating = @ + 1] ELSE map
  /\ UNCHANGED <<seed, rebuild, panicked>>

\* The head of the innermost loop: skip a hole, or bind the next key.
Visit ==
  LET n == Len(loops)
      s == map.order[loops[n].index]
  IN  /\ n > 0
      /\ loops[n].over = "label"
      /\ loops[n].index < map.order_len
      /\ loops' = [loops EXCEPT ![n] =
                     [over |-> @.over, index |-> @.index + 1, start |-> @.start,
                      visited |-> IF s < 0 THEN @.visited ELSE Append(@.visited, map.keys[s])]]
      /\ UNCHANGED <<seed, map, rebuild, panicked>>

\* The end of the loop, a break or a return: each of them takes back the
\* increment of the loops it leaves.
EndForEach ==
  LET n == Len(loops)
  IN  /\ n > 0
      /\ loops' = SubSeq(loops, 1, n - 1)
      /\ map' = IF loops[n].over = "label" THEN [map EXCEPT !.iterating = @ - 1]
                ELSE map
      /\ UNCHANGED <<seed, rebuild, panicked>>

Next ==
  /\ panicked = "none"
  /\ \/ Rebuilding /\ (Reinsert \/ EndRebuild)
     \/ /\ ~Rebuilding
        /\ \/ \E k \in Keys, v \in Values : gray_map_set(k, v)
           \/ \E k \in Keys : gray_map_remove(k)
           \/ gray_map_clear
           \/ \E c \in Hints : Assign(c)
           \/ \E over \in LoopKinds : ForEach(over)
           \/ Visit
           \/ EndForEach

Spec == Init /\ [][Next]_vars

-----------------------------------------------------------------------------
(* Properties.                                                             *)

Slots(m) == 0 .. m.capacity - 1
Occupied(m) == {s \in Slots(m) : m.states[s] = "occupied"}
Used(m) == {s \in Slots(m) : m.states[s] # "empty"}

Tables(c) ==
  [keys : [0 .. c - 1 -> Keys \cup {Junk}],
   values : [0 .. c - 1 -> Values \cup {Junk}],
   states : [0 .. c - 1 -> {"empty", "occupied", "tombstone"}],
   order : [0 .. c - 1 -> -1 .. c - 1 \cup {Junk}],
   order_position : [0 .. c - 1 -> 0 .. c - 1 \cup {Junk}],
   count : 0 .. c, capacity : {c}, order_len : 0 .. c, iterating : 0 .. MaxLoops]

\* Every variable has its type: the arrays have the length capacity says, and
\* what order and order_position hold are indices of each other.
TypeOK ==
  /\ seed \in [Keys -> Hashes]
  /\ map \in Tables(map.capacity)
  /\ rebuild.old \in Tables(rebuild.old.capacity)
  /\ rebuild.next \in 0 .. rebuild.old.order_len
  /\ rebuild = NoRebuild \/ (rebuild.key \in Keys /\ rebuild.value \in Values)
  /\ \A i \in DOMAIN loops :
       /\ loops[i].over \in LoopKinds
       /\ loops[i].index \in 0 .. map.order_len
       /\ loops[i].visited \in Seq(Keys)
  /\ panicked \in {"none", "P0035"}

\* order lists every occupied slot once, with holes for the slots that were
\* removed.
OrderConsistent(m) ==
  /\ \A s \in Occupied(m) : /\ m.order_position[s] < m.order_len
                            /\ m.order[m.order_position[s]] = s
  /\ \A i \in 0 .. m.order_len - 1 :
       m.order[i] # -1 => /\ m.order[i] \in Occupied(m)
                          /\ m.order_position[m.order[i]] = i

\* With that, the arrays tell one story, while they are refilled as well: order
\* lists the occupied slots, count is their number, and a slot that is
\* not empty has used up an entry of order.  So when gray_map_set looks for a
\* slot (262-296), after the rebuild that order_len = capacity forces, some
\* slot is empty and the search ends there.
TableConsistent ==
  /\ TypeOK
  /\ OrderConsistent(map)
  /\ map.count = Cardinality(Occupied(map))
  /\ Cardinality(Used(map)) <= map.order_len

\* Every entry is found and no other: whatever was removed, overwritten and
\* moved since, the probe sequence of a key leads to its one slot before it
\* meets an empty one (182-194), for every spelling of the key.
FindsEveryKey ==
  \A k \in Keys :
    LET slots == {s \in Occupied(map) : keys_equal(map.keys[s], k)}
    IN  slots = (IF find_slot(map, k) < 0 THEN {} ELSE {find_slot(map, k)})

\* While a table is being refilled it is under both limits.  So no gray_map_set
\* of the reinsertion (219-228) starts a rebuild of its own, and
\* the key for which the room was made finds an empty slot.
RebuildMakesRoom == Rebuilding => ~IsOverloaded(map) /\ ~IsOrderFull(map)

\* What the program sees of the map is an ordered map, through collisions,
\* tombstones and rebuilds, and entries are added and removed only when no
\* loop guards it.  During a rebuild it is what the old arrays hold.
Whole == IF Rebuilding THEN rebuild.old ELSE map
EntriesIn(m) ==
  LET slots == LiveSlots(m)
  IN  [i \in DOMAIN slots |-> [key |-> m.keys[slots[i]], value |-> m.values[slots[i]]]]
Ordered == INSTANCE OrderedMap WITH entries <- EntriesIn(Whole), iterating <- map.iterating
ImplementsOrderedMap == Ordered!Spec

\* A for_each over a map variable visits each key the map had when the loop
\* began, once and in insertion order, although its body and the loops nested
\* in it may update values and end early: while it runs no key comes or goes.
LabelLoopsStable ==
  \A i \in DOMAIN loops : loops[i].over = "label" =>
    /\ KeysIn(Whole) = loops[i].start
    /\ IsPrefix(loops[i].visited, loops[i].start)
    /\ loops[i].index = map.order_len => loops[i].visited = loops[i].start

\* STANDARD.md 1752: "Modifying a map during `for_each` (inserting or deleting
\* keys) is not allowed and will panic at runtime."
LoopedKeysFixed == \A i \in DOMAIN loops : KeysIn(Whole) = loops[i].start
=============================================================================
