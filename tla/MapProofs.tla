----------------------------- MODULE MapProofs -----------------------------
(***************************************************************************)
(* Proofs about the hash map for every set of keys and values, every hash  *)
(* function and seed, and every ladder of capacities.                      *)
(***************************************************************************)
EXTENDS Map, FiniteSetTheorems, SequenceTheorems, WellFoundedInduction, TLAPS

-----------------------------------------------------------------------------
(* What a table satisfies, whether it is in use, being filled or taken     *)
(* apart.                                                                  *)

Typed(m) == m.capacity \in Capacities /\ m \in Tables(m.capacity)

\* An occupied slot holds an entry.
Filled(m) ==
  \A s \in Occupied(m) :
    m.keys[s] \in Keys /\ m.values[s] \in Values /\ m.order_position[s] \in 0 .. m.order_len - 1

Counted(m) == m.count = Cardinality(Occupied(m)) /\ Cardinality(Used(m)) <= m.order_len

\* The probes of a key lead to its slot and meet no empty one before.
ReachedAt(m, s, i) ==
  /\ i \in Slots(m) /\ Probe(m, m.keys[s], i) = s
  /\ \A j \in 0 .. i - 1 : m.states[Probe(m, m.keys[s], j)] # "empty"
Reached(m) == \A s \in Occupied(m) : \E i \in Nat : ReachedAt(m, s, i)

\* No key is there twice, however it is spelled.
Distinct(m) == \A s, t \in Occupied(m) : keys_equal(m.keys[s], m.keys[t]) => s = t

Sound(m) ==
  Typed(m) /\ Filled(m) /\ OrderConsistent(m) /\ Counted(m) /\ Reached(m) /\ Distinct(m)

-----------------------------------------------------------------------------
(* Least elements and remainders.                                          *)

\* A set of natural numbers has a least element.
LEMMA MinFacts ==
  ASSUME NEW T \in SUBSET Nat, T # {}
  PROVE  Min(T) \in T /\ \A y \in T : Min(T) <= y
  <1> DEFINE R == OpToRel(<, Nat)
  <1>1. IsWellFoundedOn(R, Nat)
    BY NatLessThanWellFounded
  <1>2. \A x, y \in Nat : y < x => <<y, x>> \in R
    BY DEF OpToRel
  <1> HIDE DEF R
  <1>3. PICK x \in T : \A y \in T : ~(<<y, x>> \in R)
    BY <1>1, WFMin, Zenon
  <1>4. x \in T /\ \A y \in T : x <= y
    <2> SUFFICES ASSUME NEW y \in T PROVE x <= y
      OBVIOUS
    <2>1. x \in Nat /\ y \in Nat
      OBVIOUS
    <2>2. ~(y < x)
      BY <1>2, <1>3, <2>1, Zenon
    <2>3. QED
      BY <2>1, <2>2
  <1>5. QED
    BY <1>4 DEF Min

\* The capacities have a least and a greatest one.
LEMMA CapacityEnds ==
  /\ MinCapacity \in Capacities /\ \A c \in Capacities : MinCapacity <= c
  /\ Ceiling \in Capacities /\ \A c \in Capacities : c <= Ceiling
  <1>1. Capacities \in SUBSET Nat /\ Capacities # {}
    BY MapAssumption
  <1>2. MinCapacity \in Capacities /\ \A c \in Capacities : MinCapacity <= c
    BY <1>1, MinFacts DEF MinCapacity
  <1>3. \E top \in Capacities : \A c \in Capacities : top >= c
    BY <1>1, MapAssumption
  <1>4. Ceiling \in Capacities /\ \A c \in Capacities : Ceiling >= c
    BY <1>3 DEF Ceiling, Max
  <1>5. QED
    BY <1>1, <1>2, <1>4

\* A capacity is rounded to one that is no smaller, up to the ceiling.
LEMMA RoundFacts ==
  ASSUME NEW c \in Int
  PROVE  /\ gray_map_round_capacity(c) \in Capacities /\ gray_map_round_capacity(c) \in Nat
         /\ c <= Ceiling => gray_map_round_capacity(c) >= c
  <1> DEFINE above == {p \in Capacities : p >= c}
  <1>1. Capacities \subseteq Nat
    BY MapAssumption
  <1>2. CASE c < MinCapacity
    BY <1>1, <1>2, CapacityEnds DEF gray_map_round_capacity
  <1>3. CASE c > Ceiling /\ ~(c < MinCapacity)
    BY <1>1, <1>3, CapacityEnds DEF gray_map_round_capacity
  <1>4. CASE ~(c > Ceiling) /\ ~(c < MinCapacity)
    <2>1. Ceiling \in Nat /\ Ceiling \in Capacities
      BY <1>1, CapacityEnds
    <2>2. Ceiling >= c
      BY <1>4, <2>1
    <2>3. above # {} /\ above \in SUBSET Nat
      BY <1>1, <2>1, <2>2
    <2>4. Min(above) \in above
      BY <2>3, MinFacts
    <2>5. gray_map_round_capacity(c) = Min(above)
      BY <1>4 DEF gray_map_round_capacity
    <2>6. QED
      BY <1>1, <2>4, <2>5
  <1>5. QED
    BY <1>2, <1>3, <1>4

\* A sum of two indices wraps at most once.
LEMMA ModFacts ==
  ASSUME NEW c \in Nat \ {0}, NEW h \in 0 .. c - 1, NEW i \in 0 .. c - 1
  PROVE  (h + i) % c = IF h + i < c THEN h + i ELSE h + i - c
  <1>1. CASE h + i < c
    <2>1. h + i \in 0 .. c - 1
      BY <1>1
    <2>2. \A n \in 0 .. c - 1 : n % c = n
      OBVIOUS
    <2>3. QED
      BY <1>1, <2>1, <2>2
  <1>2. CASE ~(h + i < c)
    <2>1. h + i \in c .. 2 * c - 1
      BY <1>2
    <2>2. \A n \in c .. 2 * c - 1 : n % c = n - c
      OBVIOUS
    <2>3. QED
      BY <1>2, <2>1, <2>2
  <1>3. QED
    BY <1>1, <1>2

\* The probes of a key pass every slot once.
LEMMA ProbeFacts ==
  ASSUME seed \in [Keys -> Hashes], NEW m, Typed(m), NEW k \in Keys
  PROVE  /\ m.capacity \in Nat \ {0}
         /\ \A i \in Slots(m) : Probe(m, k, i) \in Slots(m)
         /\ \A i, j \in Slots(m) : Probe(m, k, i) = Probe(m, k, j) => i = j
         /\ \A s \in Slots(m) : \E i \in Slots(m) : Probe(m, k, i) = s
  <1> DEFINE c == m.capacity
             h == Home(m, k)
  <1>1. c \in Nat \ {0}
    BY MapAssumption DEF Typed
  <1>2. h \in 0 .. c - 1
    <2>1. hash_key(k) \in Nat
      BY MapAssumption DEF hash_key
    <2>2. QED
      BY <1>1, <2>1 DEF Home
  <1>3. \A i \in 0 .. c - 1 : Probe(m, k, i) = (h + i) % c
    BY DEF Probe
  <1>4. Slots(m) = 0 .. c - 1
    BY DEF Slots
  <1> HIDE DEF c, h
  <1>5. \A i \in 0 .. c - 1 : Probe(m, k, i) = IF h + i < c THEN h + i ELSE h + i - c
    BY <1>1, <1>2, <1>3, ModFacts
  <1>6. ASSUME NEW s \in 0 .. c - 1
        PROVE  \E i \in 0 .. c - 1 : Probe(m, k, i) = s
    <2> DEFINE i == IF h <= s THEN s - h ELSE s - h + c
    <2>1. i \in 0 .. c - 1 /\ (IF h + i < c THEN h + i ELSE h + i - c) = s
      BY <1>1, <1>2
    <2>2. QED
      BY <1>5, <2>1
  <1>7. ASSUME NEW i \in 0 .. c - 1, NEW j \in 0 .. c - 1, Probe(m, k, i) = Probe(m, k, j)
        PROVE  i = j
    BY <1>1, <1>2, <1>5, <1>7
  <1>8. \A i \in 0 .. c - 1 : Probe(m, k, i) \in 0 .. c - 1
    BY <1>1, <1>2, <1>5
  <1>9. c = m.capacity
    BY DEF c
  <1>10. QED
    BY <1>1, <1>4, <1>6, <1>7, <1>8, <1>9

-----------------------------------------------------------------------------
(* Searching.                                                              *)

\* The fields of a table.
LEMMA TableFacts ==
  ASSUME NEW m, Typed(m)
  PROVE  /\ m.capacity \in Nat \ {0, 1} /\ Slots(m) = 0 .. m.capacity - 1
         /\ m.keys \in [Slots(m) -> Keys \cup {Junk}] /\ m.values \in [Slots(m) -> Values \cup {Junk}]
         /\ m.states \in [Slots(m) -> {"empty", "occupied", "tombstone"}]
         /\ m.order \in [Slots(m) -> -1 .. m.capacity - 1 \cup {Junk}]
         /\ m.order_position \in [Slots(m) -> Slots(m) \cup {Junk}]
         /\ m.count \in 0 .. m.capacity /\ m.order_len \in 0 .. m.capacity
         /\ m.iterating \in 0 .. MaxLoops
  BY MapAssumption DEF Typed, Tables, Slots

\* The slots are finitely many, and so are those in a state.
LEMMA SlotSets ==
  ASSUME NEW m, Typed(m)
  PROVE  /\ IsFiniteSet(Slots(m)) /\ Cardinality(Slots(m)) = m.capacity
         /\ IsFiniteSet(Occupied(m)) /\ Cardinality(Occupied(m)) \in Nat
         /\ IsFiniteSet(Used(m)) /\ Cardinality(Used(m)) \in Nat
         /\ Occupied(m) \subseteq Slots(m) /\ Used(m) \subseteq Slots(m)
         /\ Cardinality(Occupied(m)) <= m.capacity
  <1>1. m.capacity \in Nat \ {0, 1} /\ Slots(m) = 0 .. m.capacity - 1
    BY TableFacts
  <1>2. IsFiniteSet(Slots(m)) /\ Cardinality(Slots(m)) = m.capacity
    BY <1>1, FS_Interval
  <1>3. Occupied(m) \in SUBSET Slots(m) /\ Used(m) \in SUBSET Slots(m)
    BY DEF Occupied, Used
  <1>4. QED
    BY <1>1, <1>2, <1>3, FS_Subset, FS_CardinalityType

\* Equal keys have the same probes.
LEMMA SameProbes ==
  ASSUME NEW m, NEW j, NEW k, keys_equal(j, k)
  PROVE  \A i : Probe(m, j, i) = Probe(m, k, i)
  BY DEF keys_equal, Probe, Home, hash_key

\* A search for a key that is there ends at its slot.
LEMMA SearchEnds ==
  ASSUME seed \in [Keys -> Hashes], NEW m, Sound(m), NEW k \in Keys,
         NEW s \in Occupied(m), keys_equal(m.keys[s], k)
  PROVE  Stops(m, k) # {} /\ Probe(m, k, Min(Stops(m, k))) = s
  <1> DEFINE T == Stops(m, k)
             e == Min(T)
  <1>1. PICK i \in Nat : ReachedAt(m, s, i)
    BY DEF Sound, Reached
  <1>2. \A j : Probe(m, m.keys[s], j) = Probe(m, k, j)
    BY SameProbes
  <1>3. /\ i \in Slots(m) /\ Probe(m, k, i) = s
        /\ \A j \in 0 .. i - 1 : m.states[Probe(m, k, j)] # "empty"
    BY <1>1, <1>2 DEF ReachedAt
  <1>4. m.states[s] = "occupied" /\ m.capacity \in Nat /\ Slots(m) = 0 .. m.capacity - 1
    BY TableFacts DEF Sound, Occupied
  <1>5. i \in T /\ T \in SUBSET Nat
    BY <1>3, <1>4 DEF Stops
  <1>6. e \in T /\ e <= i
    BY <1>5, MinFacts
  <1>7. /\ e \in 0 .. m.capacity - 1
        /\ \/ m.states[Probe(m, k, e)] = "empty"
           \/ m.states[Probe(m, k, e)] = "occupied" /\ keys_equal(m.keys[Probe(m, k, e)], k)
    BY <1>6 DEF Stops
  <1> HIDE DEF e, T
  <1>8. m.states[Probe(m, k, e)] # "empty"
    <2>1. CASE e = i
      BY <1>3, <1>4, <2>1
    <2>2. CASE e # i
      <3>1. e \in 0 .. i - 1
        BY <1>3, <1>4, <1>6, <1>7, <2>2
      <3>2. QED
        BY <1>3, <3>1
    <2>3. QED
      BY <2>1, <2>2
  <1>9. Probe(m, k, e) \in Occupied(m) /\ keys_equal(m.keys[Probe(m, k, e)], m.keys[s])
    <2>1. Probe(m, k, e) \in Slots(m)
      BY <1>4, <1>7, ProbeFacts DEF Sound
    <2>2. QED
      BY <1>7, <1>8, <2>1 DEF Occupied, keys_equal
  <1>10. QED
    BY <1>5, <1>9 DEF Sound, Distinct, e, T

\* find_slot finds the key, or there is none.
LEMMA FindFacts ==
  ASSUME seed \in [Keys -> Hashes], NEW m, Sound(m), NEW k \in Keys
  PROVE  \/ /\ find_slot(m, k) = -1
            /\ \A s \in Occupied(m) : ~keys_equal(m.keys[s], k)
         \/ /\ find_slot(m, k) \in Occupied(m) /\ find_slot(m, k) >= 0
            /\ keys_equal(m.keys[find_slot(m, k)], k)
  <1> DEFINE T == Stops(m, k)
             p == Probe(m, k, Min(T))
  <1>1. m.capacity \in Nat /\ Slots(m) = 0 .. m.capacity - 1
    BY TableFacts DEF Sound
  <1>2. CASE \E s \in Occupied(m) : keys_equal(m.keys[s], k)
    <2>1. PICK s \in Occupied(m) : keys_equal(m.keys[s], k)
      BY <1>2
    <2>2. T # {} /\ p = s
      BY <2>1, SearchEnds
    <2>3. m.states[s] # "empty" /\ s >= 0
      BY <1>1 DEF Occupied
    <2>4. find_slot(m, k) = s
      BY <2>2, <2>3 DEF find_slot
    <2>5. QED
      BY <2>1, <2>3, <2>4
  <1>3. CASE \A s \in Occupied(m) : ~keys_equal(m.keys[s], k)
    <2>1. CASE T = {}
      BY <1>3, <2>1 DEF find_slot
    <2>2. CASE T # {}
      <3>1. T \in SUBSET Nat
        BY <1>1 DEF Stops
      <3>2. Min(T) \in T
        BY <2>2, <3>1, MinFacts
      <3>3. /\ Min(T) \in 0 .. m.capacity - 1
            /\ \/ m.states[p] = "empty"
               \/ m.states[p] = "occupied" /\ keys_equal(m.keys[p], k)
        BY <3>2 DEF Stops
      <3>4. p \in Slots(m)
        BY <1>1, <3>3, ProbeFacts DEF Sound
      <3>5. m.states[p] = "empty"
        BY <1>3, <3>3, <3>4 DEF Occupied
      <3>6. QED
        BY <1>3, <2>2, <3>5 DEF find_slot
    <2>3. QED
      BY <2>1, <2>2
  <1>4. QED
    BY <1>2, <1>3

-----------------------------------------------------------------------------
(* Changing a table.                                                       *)

\* Values and the number of loops may change.
LEMMA SameSound ==
  ASSUME NEW m, Sound(m), NEW n, Typed(n), n.capacity = m.capacity, n.states = m.states,
         n.keys = m.keys, n.order = m.order, n.order_position = m.order_position,
         n.count = m.count, n.order_len = m.order_len,
         \A s \in Occupied(m) : n.values[s] \in Values
  PROVE  Sound(n)
  <1>1. Slots(n) = Slots(m) /\ Occupied(n) = Occupied(m) /\ Used(n) = Used(m)
    BY DEF Slots, Occupied, Used
  <1>2. \A k, i : Probe(n, k, i) = Probe(m, k, i)
    BY DEF Probe, Home
  <1>3. Filled(n)
    BY <1>1 DEF Sound, Filled
  <1>4. OrderConsistent(n)
    BY <1>1 DEF Sound, OrderConsistent
  <1>5. Counted(n)
    BY <1>1 DEF Sound, Counted
  <1>6. Reached(n)
    <2>1. \A s, i : ReachedAt(n, s, i) <=> ReachedAt(m, s, i)
      BY <1>1, <1>2 DEF ReachedAt
    <2>2. QED
      BY <1>1, <2>1 DEF Sound, Reached
  <1>7. Distinct(n)
    BY <1>1 DEF Sound, Distinct
  <1>8. QED
    BY <1>3, <1>4, <1>5, <1>6, <1>7 DEF Sound

\* The value of an entry is overwritten.
LEMMA UpdateSound ==
  ASSUME NEW m, Sound(m), NEW p \in Occupied(m), NEW v \in Values, NEW n, n = [m EXCEPT !.values[p] = v]
  PROVE  /\ Sound(n) /\ n.capacity = m.capacity /\ n.iterating = m.iterating
         /\ n.count = m.count /\ n.order_len = m.order_len
  <1>1. /\ Slots(m) = 0 .. m.capacity - 1 /\ p \in Slots(m)
        /\ m.values \in [Slots(m) -> Values \cup {Junk}] /\ Typed(m)
    BY TableFacts DEF Sound, Occupied
  <1>2. n = [keys |-> m.keys, values |-> [m.values EXCEPT ![p] = v], states |-> m.states,
             order |-> m.order, order_position |-> m.order_position, count |-> m.count,
             capacity |-> m.capacity, order_len |-> m.order_len, iterating |-> m.iterating]
    BY <1>1 DEF Typed, Tables
  <1>3. [m.values EXCEPT ![p] = v] \in [0 .. m.capacity - 1 -> Values \cup {Junk}]
    BY <1>1
  <1>4. n \in Tables(m.capacity)
    BY <1>1, <1>2, <1>3 DEF Typed, Tables
  <1>5. /\ n.values = [m.values EXCEPT ![p] = v] /\ n.keys = m.keys /\ n.states = m.states
        /\ n.order = m.order /\ n.order_position = m.order_position /\ n.count = m.count
        /\ n.capacity = m.capacity /\ n.order_len = m.order_len /\ n.iterating = m.iterating
    BY <1>2
  <1>6. Typed(n)
    BY <1>1, <1>4, <1>5 DEF Typed
  <1>7. \A s \in Occupied(m) : n.values[s] \in Values
    <2>1. \A s \in Occupied(m) : s \in Slots(m) /\ m.values[s] \in Values
      BY DEF Sound, Filled, Occupied
    <2>2. \A s \in Slots(m) : n.values[s] = IF s = p THEN v ELSE m.values[s]
      BY <1>1, <1>5, ZenonT(30)
    <2>3. QED
      BY <2>1, <2>2
  <1>8. QED
    BY <1>5, <1>6, <1>7, SameSound

\* A new table is empty.
LEMMA NewSound ==
  ASSUME NEW c \in Int, NEW n, n = gray_map_new_kind(c)
  PROVE  /\ Sound(n) /\ n.capacity = gray_map_round_capacity(c)
         /\ n.count = 0 /\ n.order_len = 0 /\ n.iterating = 0
  <1>1. /\ n.capacity = gray_map_round_capacity(c) /\ n.count = 0 /\ n.order_len = 0 /\ n.iterating = 0
        /\ n.states = [s \in 0 .. n.capacity - 1 |-> "empty"]
    BY DEF gray_map_new_kind
  <1>2. n.capacity \in Capacities
    BY <1>1, RoundFacts
  <1>3. n.capacity \in Nat \ {0, 1} /\ MaxLoops \in Nat
    BY <1>2, MapAssumption
  <1>4. Typed(n)
    <2> DEFINE d == gray_map_round_capacity(c)
    <2>1. d \in Nat \ {0, 1}
      BY <1>1, <1>3
    <2>2. n = [keys |-> [s \in 0 .. d - 1 |-> Junk], values |-> [s \in 0 .. d - 1 |-> Junk],
               states |-> [s \in 0 .. d - 1 |-> "empty"],
               order |-> [s \in 0 .. d - 1 |-> Junk], order_position |-> [s \in 0 .. d - 1 |-> Junk],
               count |-> 0, capacity |-> d, order_len |-> 0, iterating |-> 0]
      BY DEF gray_map_new_kind
    <2> HIDE DEF d
    <2>3. n \in Tables(d)
      BY <1>3, <2>1, <2>2 DEF Tables
    <2>4. QED
      BY <1>2, <2>2, <2>3 DEF Typed
  <1>5. Occupied(n) = {} /\ Used(n) = {}
    BY <1>1 DEF Occupied, Used, Slots
  <1>6. Counted(n)
    BY <1>1, <1>5, FS_EmptySet DEF Counted
  <1>7. OrderConsistent(n)
    BY <1>1, <1>5 DEF OrderConsistent
  <1>8. QED
    BY <1>1, <1>4, <1>5, <1>6, <1>7 DEF Sound, Filled, Reached, Distinct

\* A new entry at a slot that the probes of its key lead to.
LEMMA InsertSound ==
  ASSUME seed \in [Keys -> Hashes], NEW m, Sound(m), NEW k \in Keys, NEW v \in Values,
         m.order_len < m.capacity, \A s \in Occupied(m) : ~keys_equal(m.keys[s], k),
         NEW i \in Slots(m), m.states[Probe(m, k, i)] # "occupied",
         \A j \in 0 .. i - 1 : m.states[Probe(m, k, j)] # "empty",
         NEW n, n = map_insert_at(m, Probe(m, k, i), k, v)
  PROVE  /\ Sound(n) /\ n.capacity = m.capacity /\ n.iterating = m.iterating
         /\ n.count = m.count + 1 /\ n.order_len = m.order_len + 1
  <1> DEFINE p == Probe(m, k, i)
             C == m.capacity
             L == m.order_len
  <1>1. /\ C \in Nat \ {0, 1} /\ Slots(m) = 0 .. C - 1
        /\ m.keys \in [Slots(m) -> Keys \cup {Junk}] /\ m.values \in [Slots(m) -> Values \cup {Junk}]
        /\ m.states \in [Slots(m) -> {"empty", "occupied", "tombstone"}]
        /\ m.order \in [Slots(m) -> -1 .. C - 1 \cup {Junk}]
        /\ m.order_position \in [Slots(m) -> Slots(m) \cup {Junk}]
        /\ m.count \in 0 .. C /\ L \in 0 .. C - 1
        /\ m.iterating \in 0 .. MaxLoops
    BY TableFacts DEF Sound
  <1>2. p \in Slots(m)
    BY ProbeFacts DEF Sound
  <1>3. /\ n.keys = [m.keys EXCEPT ![p] = k] /\ n.values = [m.values EXCEPT ![p] = v]
        /\ n.states = [m.states EXCEPT ![p] = "occupied"]
        /\ n.order = [m.order EXCEPT ![L] = p]
        /\ n.order_position = [m.order_position EXCEPT ![p] = L]
        /\ n.count = m.count + 1 /\ n.capacity = C /\ n.order_len = L + 1
        /\ n.iterating = m.iterating
    BY DEF map_insert_at
  <1>4. \A s \in Slots(m) : s # p =>
          /\ n.keys[s] = m.keys[s] /\ n.values[s] = m.values[s] /\ n.states[s] = m.states[s]
          /\ n.order_position[s] = m.order_position[s]
    BY <1>1, <1>2, <1>3
  <1>5. /\ n.keys[p] = k /\ n.values[p] = v /\ n.states[p] = "occupied" /\ n.order_position[p] = L
        /\ n.order[L] = p /\ \A j \in Slots(m) : j # L => n.order[j] = m.order[j]
    BY <1>1, <1>2, <1>3
  <1>6. Slots(n) = Slots(m)
    BY <1>3 DEF Slots
  <1>7. Occupied(n) = Occupied(m) \cup {p} /\ p \notin Occupied(m)
    BY <1>2, <1>4, <1>5, <1>6 DEF Occupied
  <1>8. m.count < C
    <2>1. Occupied(m) \in SUBSET (Slots(m) \ {p})
      BY <1>7, SlotSets DEF Sound
    <2>2. Cardinality(Slots(m) \ {p}) = C - 1 /\ IsFiniteSet(Slots(m) \ {p})
      BY <1>2, SlotSets, FS_RemoveElement DEF Sound
    <2>3. Cardinality(Occupied(m)) <= C - 1
      BY <2>1, <2>2, FS_Subset
    <2>4. QED
      BY <1>1, <2>3 DEF Sound, Counted
  <1>9. Typed(n)
    <2>1. n = [keys |-> n.keys, values |-> n.values, states |-> n.states, order |-> n.order,
               order_position |-> n.order_position, count |-> n.count, capacity |-> n.capacity,
               order_len |-> n.order_len, iterating |-> n.iterating]
      BY DEF map_insert_at
    <2>2. /\ n.keys \in [0 .. C - 1 -> Keys \cup {Junk}] /\ n.values \in [0 .. C - 1 -> Values \cup {Junk}]
          /\ n.states \in [0 .. C - 1 -> {"empty", "occupied", "tombstone"}]
          /\ n.order \in [0 .. C - 1 -> -1 .. C - 1 \cup {Junk}]
          /\ n.order_position \in [0 .. C - 1 -> 0 .. C - 1 \cup {Junk}]
      <3>1. n.keys \in [0 .. C - 1 -> Keys \cup {Junk}]
        BY <1>1, <1>2, <1>3
      <3>2. n.values \in [0 .. C - 1 -> Values \cup {Junk}]
        BY <1>1, <1>2, <1>3
      <3>3. n.states \in [0 .. C - 1 -> {"empty", "occupied", "tombstone"}]
        BY <1>1, <1>2, <1>3
      <3>4. n.order \in [0 .. C - 1 -> -1 .. C - 1 \cup {Junk}]
        BY <1>1, <1>2, <1>3
      <3>5. n.order_position \in [0 .. C - 1 -> 0 .. C - 1 \cup {Junk}]
        BY <1>1, <1>2, <1>3
      <3>6. QED
        BY <3>1, <3>2, <3>3, <3>4, <3>5
    <2>3. n.count \in 0 .. C /\ n.order_len \in 0 .. C
      BY <1>1, <1>3, <1>8
    <2>4. n \in Tables(C)
      BY <1>1, <1>3, <2>1, <2>2, <2>3 DEF Tables
    <2>5. QED
      BY <1>3, <2>4 DEF Typed, Sound
  <1> HIDE DEF p, C, L
  <1>10. Filled(n)
    <2>1. \A s \in Occupied(m) :
            m.keys[s] \in Keys /\ m.values[s] \in Values /\ m.order_position[s] \in 0 .. L - 1
      BY DEF Sound, Filled, L
    <2>2. \A s \in Occupied(m) : s \in Slots(m) /\ s # p
      BY <1>7 DEF Occupied
    <2>3. QED
      BY <1>1, <1>3, <1>4, <1>5, <1>7, <2>1, <2>2 DEF Filled
  <1>11. OrderConsistent(n)
    <2>1. /\ \A s \in Occupied(m) : m.order_position[s] \in 0 .. L - 1 /\ m.order[m.order_position[s]] = s
          /\ \A j \in 0 .. L - 1 : m.order[j] # -1 =>
               m.order[j] \in Occupied(m) /\ m.order_position[m.order[j]] = j
      BY DEF Sound, Filled, OrderConsistent, L
    <2>2. \A s \in Occupied(m) : s \in Slots(m) /\ s # p
      BY <1>7 DEF Occupied
    <2>3. ASSUME NEW s \in Occupied(n)
          PROVE  n.order_position[s] < n.order_len /\ n.order[n.order_position[s]] = s
      <3>1. CASE s = p
        BY <1>1, <1>3, <1>5, <3>1
      <3>2. CASE s # p
        <4>1. s \in Occupied(m) /\ n.order_position[s] = m.order_position[s]
          BY <1>4, <1>7, <2>2, <2>3, <3>2
        <4>2. n.order[m.order_position[s]] = m.order[m.order_position[s]]
          BY <1>1, <1>5, <2>1, <4>1
        <4>3. QED
          BY <1>1, <1>3, <2>1, <4>1, <4>2
      <3>3. QED
        BY <3>1, <3>2
    <2>4. ASSUME NEW j \in 0 .. L, n.order[j] # -1
          PROVE  n.order[j] \in Occupied(n) /\ n.order_position[n.order[j]] = j
      <3>1. CASE j = L
        BY <1>5, <1>7, <3>1
      <3>2. CASE j # L
        <4>1. j \in 0 .. L - 1 /\ j \in 0 .. C - 1
          BY <1>1, <3>2
        <4>2. n.order[j] = m.order[j]
          BY <1>1, <1>5, <3>2, <4>1
        <4>3. QED
          BY <1>4, <1>7, <2>1, <2>2, <2>4, <4>1, <4>2
      <3>3. QED
        BY <3>1, <3>2
    <2>5. n.order_len - 1 = L
      BY <1>1, <1>3
    <2>6. QED
      BY <2>3, <2>4, <2>5 DEF OrderConsistent
  <1>12. Counted(n)
    <2>1. /\ m.count = Cardinality(Occupied(m)) /\ Cardinality(Used(m)) <= L
          /\ IsFiniteSet(Occupied(m)) /\ IsFiniteSet(Used(m)) /\ Cardinality(Used(m)) \in Nat
      BY SlotSets DEF Sound, Counted, L
    <2>2. Cardinality(Occupied(n)) = m.count + 1
      BY <1>7, <2>1, FS_AddElement, ZenonT(30)
    <2>3. Used(n) = Used(m) \cup {p}
      BY <1>2, <1>4, <1>5, <1>6 DEF Used
    <2>4. Cardinality(Used(n)) <= Cardinality(Used(m)) + 1
      <3>1. Cardinality(Used(n)) = IF p \in Used(m) THEN Cardinality(Used(m)) ELSE Cardinality(Used(m)) + 1
        BY <2>1, <2>3, FS_AddElement, ZenonT(30)
      <3>2. QED
        BY <2>1, <3>1
    <2>5. QED
      BY <1>1, <1>3, <2>1, <2>2, <2>4, SlotSets, <1>9 DEF Counted
  <1>13. \A x, j : Probe(n, x, j) = Probe(m, x, j)
    BY <1>3 DEF Probe, Home, C
  <1>14. Reached(n)
    <2> SUFFICES ASSUME NEW s \in Occupied(n)
                 PROVE  \E j \in Nat : ReachedAt(n, s, j)
      BY DEF Reached
    <2>1. \A t \in Slots(m) : m.states[t] # "empty" => n.states[t] # "empty"
      BY <1>4, <1>5
    <2>2. CASE s = p
      <3>1. i \in Nat /\ \A j \in 0 .. i - 1 : j \in Slots(m)
        BY <1>1
      <3>2. \A j \in 0 .. i - 1 : Probe(m, k, j) \in Slots(m) /\ m.states[Probe(m, k, j)] # "empty"
        BY <3>1, ProbeFacts DEF Sound
      <3>3. \A j \in 0 .. i - 1 : n.states[Probe(n, k, j)] # "empty"
        BY <1>13, <2>1, <3>2
      <3>4. Probe(n, k, i) = p
        BY <1>13 DEF p
      <3>5. ReachedAt(n, s, i)
        BY <1>5, <1>6, <2>2, <3>3, <3>4 DEF ReachedAt
      <3>6. QED
        BY <3>1, <3>5
    <2>3. CASE s # p
      <3>1. s \in Occupied(m) /\ s \in Slots(m) /\ n.keys[s] = m.keys[s] /\ m.keys[s] \in Keys
        BY <1>4, <1>7, <2>3 DEF Occupied, Sound, Filled
      <3>2. PICK j \in Nat : ReachedAt(m, s, j)
        BY <3>1 DEF Sound, Reached
      <3>3. \A q \in 0 .. j - 1 : q \in Slots(m)
        BY <1>1, <3>2 DEF ReachedAt
      <3>4. \A q \in 0 .. j - 1 : Probe(m, m.keys[s], q) \in Slots(m)
        BY <3>1, <3>3, ProbeFacts DEF Sound
      <3>5. /\ j \in Slots(m) /\ Probe(m, m.keys[s], j) = s
            /\ \A q \in 0 .. j - 1 : m.states[Probe(m, m.keys[s], q)] # "empty"
        BY <3>2 DEF ReachedAt
      <3>6. j \in Slots(n) /\ Probe(n, n.keys[s], j) = s
        BY <1>6, <1>13, <3>1, <3>5
      <3>7. \A q \in 0 .. j - 1 : n.states[Probe(m, m.keys[s], q)] # "empty"
        BY <2>1, <3>4, <3>5
      <3>8. \A q \in 0 .. j - 1 : n.states[Probe(n, n.keys[s], q)] # "empty"
        BY <1>13, <3>1, <3>7
      <3>9. QED
        BY <3>6, <3>8 DEF ReachedAt
    <2>4. QED
      BY <2>2, <2>3
  <1>15. Distinct(n)
    <2>1. \A s \in Occupied(m) : s \in Slots(m) /\ s # p /\ n.keys[s] = m.keys[s]
      BY <1>4, <1>7 DEF Occupied
    <2>2. \A s, t \in Occupied(m) : keys_equal(m.keys[s], m.keys[t]) => s = t
      BY DEF Sound, Distinct
    <2>3. \A s \in Occupied(m) : ~keys_equal(m.keys[s], k) /\ ~keys_equal(k, m.keys[s])
      BY DEF keys_equal
    <2>4. QED
      BY <1>5, <1>7, <2>1, <2>2, <2>3 DEF Distinct
  <1>16. QED
    BY <1>3, <1>9, <1>10, <1>11, <1>12, <1>14, <1>15 DEF Sound, C, L

\* The key goes to slot p, by the probe of number i.
GoesTo(m, k, p, i) ==
  /\ i \in Slots(m) /\ p = Probe(m, k, i) /\ m.states[p] # "occupied"
  /\ \A j \in 0 .. i - 1 : m.states[Probe(m, k, j)] # "empty"

\* The probe loop of gray_map_set, where order has room, finds the key or, when
\* there is none, a free slot.
LEMMA WriteCases ==
  ASSUME seed \in [Keys -> Hashes], NEW m, Sound(m), NEW k \in Keys, NEW v \in Values,
         m.order_len < m.capacity, NEW n, n = Write(m, k, v)
  PROVE  \/ \E p \in Occupied(m) : keys_equal(m.keys[p], k) /\ n = [m EXCEPT !.values[p] = v]
         \/ /\ \A s \in Occupied(m) : ~keys_equal(m.keys[s], k)
            /\ \E p \in Slots(m), i \in Nat : GoesTo(m, k, p, i) /\ n = map_insert_at(m, p, k, v)
  <1> DEFINE T == Stops(m, k)
             end == Min(T)
             p == Probe(m, k, end)
             tombs == Tombstones(m, k, end)
  <1>1. /\ m.capacity \in Nat \ {0, 1} /\ Slots(m) = 0 .. m.capacity - 1
        /\ m.values \in [Slots(m) -> Values \cup {Junk}] /\ Typed(m) /\ m.order_len \in Nat
    BY TableFacts DEF Sound
  <1>2. \E s \in Slots(m) : m.states[s] = "empty"
    <2>1. Cardinality(Used(m)) # Cardinality(Slots(m))
      BY <1>1, SlotSets DEF Sound, Counted
    <2>2. Used(m) # Slots(m) /\ Used(m) \subseteq Slots(m)
      BY <1>1, <2>1, SlotSets
    <2>3. QED
      BY <2>2 DEF Used
  <1>3. T # {} /\ T \in SUBSET Nat
    <2>1. PICK s \in Slots(m) : m.states[s] = "empty"
      BY <1>2
    <2>2. PICK i \in Slots(m) : Probe(m, k, i) = s
      BY <1>1, ProbeFacts
    <2>3. i \in T
      BY <1>1, <2>1, <2>2 DEF Stops
    <2>4. QED
      BY <1>1, <2>3 DEF Stops
  <1>4. end \in T /\ \A i \in T : end <= i
    BY <1>3, MinFacts
  <1>5. /\ end \in 0 .. m.capacity - 1
        /\ m.states[p] = "empty" \/ (m.states[p] = "occupied" /\ keys_equal(m.keys[p], k))
    BY <1>4 DEF Stops
  <1>6. p \in Slots(m) /\ end < m.capacity
    BY <1>1, <1>5, ProbeFacts
  <1>7. ASSUME NEW j \in 0 .. end - 1 PROVE j \in Slots(m) /\ m.states[Probe(m, k, j)] # "empty"
    <2>1. j \in 0 .. m.capacity - 1 /\ ~(end <= j)
      BY <1>1, <1>5
    <2>2. j \notin T
      BY <1>4, <2>1
    <2>3. QED
      BY <1>1, <2>1, <2>2 DEF Stops
  <1>8. n = IF m.states[p] = "occupied" THEN [m EXCEPT !.values[p] = v]
            ELSE IF tombs # {} THEN map_insert_at(m, Probe(m, k, Min(tombs)), k, v)
            ELSE map_insert_at(m, p, k, v)
    BY <1>3, <1>6 DEF Write
  <1> HIDE DEF T, end
  <1>9. CASE m.states[p] = "occupied"
    <2>1. n = [m EXCEPT !.values[p] = v]
      BY <1>8, <1>9
    <2>2. p \in Occupied(m) /\ keys_equal(m.keys[p], k)
      BY <1>5, <1>6, <1>9 DEF Occupied
    <2>3. QED
      BY <2>1, <2>2
  <1>10. CASE m.states[p] # "occupied"
    <2>1. \A s \in Occupied(m) : ~keys_equal(m.keys[s], k)
      <3>1. ASSUME NEW s \in Occupied(m), keys_equal(m.keys[s], k) PROVE FALSE
        <4>1. p = s
          BY <3>1, SearchEnds DEF end, T
        <4>2. QED
          BY <1>10, <4>1 DEF Occupied
      <3>2. QED
        BY <3>1
    <2>2. CASE tombs # {}
      <3> DEFINE t == Min(tombs)
      <3>1. tombs \in SUBSET Nat
        BY <1>5 DEF Tombstones
      <3>2. t \in tombs
        BY <2>2, <3>1, MinFacts
      <3>3. t \in 0 .. end - 1 /\ m.states[Probe(m, k, t)] = "tombstone"
        BY <3>2 DEF Tombstones
      <3>4. t \in Slots(m) /\ \A j \in 0 .. t - 1 : j \in 0 .. end - 1
        BY <1>5, <1>7, <3>3
      <3>5. \A j \in 0 .. t - 1 : m.states[Probe(m, k, j)] # "empty"
        BY <1>7, <3>4
      <3>6. n = map_insert_at(m, Probe(m, k, t), k, v)
        BY <1>8, <1>10, <2>2
      <3>7. m.states[Probe(m, k, t)] # "occupied"
        BY <3>3
      <3> HIDE DEF t, tombs
      <3>8. t \in Nat /\ Probe(m, k, t) \in Slots(m)
        <4>1. \A i \in Slots(m) : Probe(m, k, i) \in Slots(m)
          BY <1>1, ProbeFacts
        <4>2. QED
          BY <1>1, <3>4, <4>1
      <3>9. GoesTo(m, k, Probe(m, k, t), t)
        BY <3>4, <3>5, <3>7 DEF GoesTo
      <3>10. QED
        BY <2>1, <3>6, <3>8, <3>9
    <2>3. CASE tombs = {}
      <3>1. n = map_insert_at(m, Probe(m, k, end), k, v)
        BY <1>8, <1>10, <2>3
      <3>2. end \in Slots(m) /\ \A j \in 0 .. end - 1 : m.states[Probe(m, k, j)] # "empty"
        BY <1>1, <1>5, <1>7
      <3>3. GoesTo(m, k, p, end) /\ end \in Nat
        BY <1>5, <1>10, <3>2 DEF GoesTo
      <3>4. QED
        BY <1>6, <2>1, <3>1, <3>3
    <2>4. QED
      BY <2>2, <2>3
  <1>11. QED
    BY <1>9, <1>10

\* So the table stays sound, and gains at most the one entry.
LEMMA WriteSound ==
  ASSUME seed \in [Keys -> Hashes], NEW m, Sound(m), NEW k \in Keys, NEW v \in Values,
         m.order_len < m.capacity, NEW n, n = Write(m, k, v)
  PROVE  /\ Sound(n) /\ n.capacity = m.capacity /\ n.iterating = m.iterating
         /\ \/ n.count = m.count /\ n.order_len = m.order_len
            \/ n.count = m.count + 1 /\ n.order_len = m.order_len + 1
  <1>1. CASE \E p \in Occupied(m) : n = [m EXCEPT !.values[p] = v]
    BY <1>1, UpdateSound
  <1>2. CASE /\ \A s \in Occupied(m) : ~keys_equal(m.keys[s], k)
             /\ \E p \in Slots(m), i \in Nat : GoesTo(m, k, p, i) /\ n = map_insert_at(m, p, k, v)
    <2>1. PICK p \in Slots(m), i \in Nat : GoesTo(m, k, p, i) /\ n = map_insert_at(m, p, k, v)
      BY <1>2
    <2>2. /\ i \in Slots(m) /\ n = map_insert_at(m, Probe(m, k, i), k, v)
          /\ m.states[Probe(m, k, i)] # "occupied"
          /\ \A j \in 0 .. i - 1 : m.states[Probe(m, k, j)] # "empty"
      BY <2>1 DEF GoesTo
    <2>3. QED
      BY <1>2, <2>2, InsertSound
  <1>3. QED
    BY <1>1, <1>2, WriteCases

\* A slot that is taken out leaves a tombstone and a hole in the order.
LEMMA RemoveSound ==
  ASSUME seed \in [Keys -> Hashes], NEW m, Sound(m), NEW s \in Occupied(m), NEW n, n = Without(m, s)
  PROVE  Sound(n) /\ n.iterating = m.iterating /\ n.order_len = m.order_len
  <1> DEFINE q == m.order_position[s]
             C == m.capacity
             L == m.order_len
  <1>1. /\ C \in Nat \ {0, 1} /\ Slots(m) = 0 .. C - 1
        /\ m.keys \in [Slots(m) -> Keys \cup {Junk}] /\ m.values \in [Slots(m) -> Values \cup {Junk}]
        /\ m.states \in [Slots(m) -> {"empty", "occupied", "tombstone"}]
        /\ m.order \in [Slots(m) -> -1 .. C - 1 \cup {Junk}]
        /\ m.order_position \in [Slots(m) -> Slots(m) \cup {Junk}]
        /\ m.count \in 0 .. C /\ L \in 0 .. C /\ m.iterating \in 0 .. MaxLoops
    BY TableFacts DEF Sound
  <1>2. /\ s \in Slots(m) /\ m.states[s] = "occupied" /\ q \in 0 .. L - 1 /\ m.order[q] = s
    BY DEF Occupied, Sound, Filled, OrderConsistent
  <1>3. /\ n = [keys |-> n.keys, values |-> n.values, states |-> n.states, order |-> n.order,
                order_position |-> n.order_position, count |-> n.count, capacity |-> n.capacity,
                order_len |-> n.order_len, iterating |-> n.iterating]
        /\ n.keys = [m.keys EXCEPT ![s] = Junk] /\ n.values = [m.values EXCEPT ![s] = Junk]
        /\ n.states = [m.states EXCEPT ![s] = "tombstone"] /\ n.order = [m.order EXCEPT ![q] = -1]
        /\ n.order_position = [m.order_position EXCEPT ![s] = Junk]
        /\ n.count = m.count - 1 /\ n.capacity = C /\ n.order_len = L /\ n.iterating = m.iterating
    BY <1>2 DEF Without
  <1>4. Typed(n)
    <2>1. m.count # 0
      <3>1. Occupied(m) # {}
        OBVIOUS
      <3>2. QED
        BY <3>1, SlotSets, FS_EmptySet DEF Sound, Counted
    <2>2. n.keys \in [0 .. C - 1 -> Keys \cup {Junk}] /\ n.values \in [0 .. C - 1 -> Values \cup {Junk}]
      BY <1>1, <1>2, <1>3
    <2>3. n.states \in [0 .. C - 1 -> {"empty", "occupied", "tombstone"}]
      BY <1>1, <1>2, <1>3
    <2>4. -1 \in -1 .. C - 1 /\ n.order \in [0 .. C - 1 -> -1 .. C - 1 \cup {Junk}]
      BY <1>1, <1>2, <1>3
    <2>5. n.order_position \in [0 .. C - 1 -> 0 .. C - 1 \cup {Junk}]
      BY <1>1, <1>2, <1>3
    <2>6. n.count \in 0 .. C
      BY <1>1, <1>3, <2>1
    <2>7. n \in Tables(C)
      BY <1>1, <1>3, <2>2, <2>3, <2>4, <2>5, <2>6 DEF Tables
    <2>8. QED
      BY <1>3, <2>7 DEF Typed, Sound
  <1>5. /\ \A t \in Slots(m) : t # s =>
             /\ n.keys[t] = m.keys[t] /\ n.values[t] = m.values[t] /\ n.states[t] = m.states[t]
             /\ n.order_position[t] = m.order_position[t]
        /\ n.states[s] = "tombstone" /\ n.order[q] = -1
        /\ \A j \in Slots(m) : j # q => n.order[j] = m.order[j]
        /\ Slots(n) = Slots(m)
    BY <1>1, <1>2, <1>3, SMTT(30) DEF Slots
  <1>6. Occupied(n) = Occupied(m) \ {s}
    <2>1. \A t \in Slots(m) : n.states[t] = "occupied" <=> m.states[t] = "occupied" /\ t # s
      BY <1>2, <1>5
    <2>2. Slots(n) = Slots(m)
      BY <1>5
    <2>3. QED
      BY <2>1, <2>2 DEF Occupied
  <1>7. Used(n) = Used(m)
    <2>1. \A t \in Slots(m) : n.states[t] # "empty" <=> m.states[t] # "empty"
      BY <1>2, <1>5
    <2>2. Slots(n) = Slots(m)
      BY <1>5
    <2>3. QED
      BY <2>1, <2>2 DEF Used
  <1>8. \A t \in Occupied(n) : t \in Slots(m) /\ t # s /\ t \in Occupied(m)
    BY <1>6 DEF Occupied
  <1> HIDE DEF q, C, L
  <1>9. Filled(n)
    <2>1. \A t \in Occupied(m) :
            m.keys[t] \in Keys /\ m.values[t] \in Values /\ m.order_position[t] \in 0 .. L - 1
      BY DEF Sound, Filled, L
    <2>2. QED
      BY <1>3, <1>5, <1>8, <2>1 DEF Filled
  <1>10. OrderConsistent(n)
    <2>1. /\ \A t \in Occupied(m) : m.order_position[t] \in 0 .. L - 1 /\ m.order[m.order_position[t]] = t
          /\ \A j \in 0 .. L - 1 : m.order[j] # -1 =>
               m.order[j] \in Occupied(m) /\ m.order_position[m.order[j]] = j
      BY DEF Sound, Filled, OrderConsistent, L
    <2>2. ASSUME NEW t \in Occupied(n)
          PROVE  n.order_position[t] < n.order_len /\ n.order[n.order_position[t]] = t
      <3>1. n.order_position[t] = m.order_position[t] /\ m.order_position[t] \in 0 .. L - 1
        BY <1>3, <1>5, <1>8, <2>1, <2>2
      <3>2. m.order_position[t] # q /\ m.order_position[t] \in Slots(m)
        BY <1>1, <1>2, <1>8, <2>1, <2>2, <3>1
      <3>3. QED
        BY <1>1, <1>3, <1>5, <1>8, <2>1, <2>2, <3>1, <3>2
    <2>3. ASSUME NEW j \in 0 .. L - 1, n.order[j] # -1
          PROVE  n.order[j] \in Occupied(n) /\ n.order_position[n.order[j]] = j
      <3>1. j # q /\ j \in Slots(m)
        BY <1>1, <1>3, <1>5, <2>3
      <3>2. n.order[j] = m.order[j] /\ m.order[j] \in Occupied(m) /\ m.order_position[m.order[j]] = j
        BY <1>3, <1>5, <2>1, <2>3, <3>1
      <3>3. m.order[j] # s
        BY <3>1, <3>2 DEF q
      <3>4. QED
        BY <1>3, <1>5, <1>6, <1>8, <3>2, <3>3
    <2>4. QED
      BY <1>3, <1>5, <2>2, <2>3 DEF OrderConsistent
  <1>11. Counted(n)
    <2>1. /\ m.count = Cardinality(Occupied(m)) /\ Cardinality(Used(m)) <= L
          /\ IsFiniteSet(Occupied(m))
      BY SlotSets DEF Sound, Counted, L
    <2>2. Cardinality(Occupied(n)) = m.count - 1
      BY <1>6, <2>1, FS_RemoveElement
    <2>3. QED
      BY <1>3, <1>5, <1>7, <2>1, <2>2 DEF Counted
  <1>12. \A x, j : Probe(n, x, j) = Probe(m, x, j)
    BY <1>3, <1>5 DEF Probe, Home, C
  <1>13. Reached(n)
    <2> SUFFICES ASSUME NEW t \in Occupied(n)
                 PROVE  \E j \in Nat : ReachedAt(n, t, j)
      BY DEF Reached
    <2>1. \A u \in Slots(m) : m.states[u] # "empty" => n.states[u] # "empty"
      BY <1>3, <1>5
    <2>2. t \in Occupied(m) /\ n.keys[t] = m.keys[t] /\ m.keys[t] \in Keys
      BY <1>3, <1>5, <1>8 DEF Sound, Filled
    <2>3. PICK j \in Nat : ReachedAt(m, t, j)
      BY <2>2 DEF Sound, Reached
    <2>4. \A i \in 0 .. j - 1 : i \in Slots(m)
      BY <1>1, <2>3 DEF ReachedAt
    <2>5. \A i \in 0 .. j - 1 : Probe(m, m.keys[t], i) \in Slots(m)
      BY <2>2, <2>4, ProbeFacts DEF Sound
    <2>6. ReachedAt(n, t, j)
      BY <1>3, <1>5, <1>12, <2>1, <2>2, <2>3, <2>5 DEF ReachedAt
    <2>7. QED
      BY <2>6
  <1>14. Distinct(n)
    BY <1>3, <1>5, <1>8 DEF Sound, Distinct
  <1>15. QED
    BY <1>3, <1>4, <1>9, <1>10, <1>11, <1>13, <1>14 DEF Sound, L

-----------------------------------------------------------------------------
(* The inductive invariant.                                                *)

IsSeq(s) == s \in Seq(Range(s))
Labels == {i \in DOMAIN loops : loops[i].over = "label"}

\* The map knows how many loops guard it; a loop over a path does not advance.
LoopInv ==
  /\ IsSeq(loops) /\ Len(loops) <= MaxLoops
  /\ map.iterating = Cardinality(Labels)
  /\ \A i \in DOMAIN loops :
       /\ loops[i].over \in LoopKinds /\ loops[i].visited \in Seq(Keys)
       /\ loops[i].index \in 0 .. map.order_len
       /\ loops[i].over = "path" => loops[i].index = 0

\* The entries of the old table that the rebuild has passed.
TakenOver == {s \in Occupied(rebuild.old) : rebuild.old.order_position[s] < rebuild.next}

\* The new table has no holes, and no more entries than it was given.
RebuildInv ==
  /\ Sound(rebuild.old) /\ rebuild.next \in 0 .. rebuild.old.order_len
  /\ \/ rebuild = NoRebuild
     \/ /\ rebuild.key \in Keys /\ rebuild.value \in Values
        /\ map.iterating = 0 /\ map.order_len = map.count
        /\ map.count <= Cardinality(TakenOver)
        /\ rebuild.old.count * 4 < map.capacity * 3

MapInv ==
  /\ seed \in [Keys -> Hashes] /\ panicked \in {"none", "P0035"}
  /\ Sound(map) /\ LoopInv /\ RebuildInv

-----------------------------------------------------------------------------
(* Steps.                                                                  *)

\* What holds of a table holds of the map when it becomes that table.
LEMMA SoundNext ==
  ASSUME NEW n, Sound(n), map' = n, seed' = seed
  PROVE  Sound(map)'
  BY SMTT(30)
     DEF Sound, Typed, Tables, Filled, OrderConsistent, Counted, Reached, ReachedAt, Distinct,
         keys_equal, Occupied, Used, Slots, Probe, Home, hash_key

\* The same for the old table.
LEMMA OldSoundNext ==
  ASSUME NEW n, Sound(n), rebuild'.old = n, seed' = seed
  PROVE  Sound(rebuild.old)'
  BY SMTT(30)
     DEF Sound, Typed, Tables, Filled, OrderConsistent, Counted, Reached, ReachedAt, Distinct,
         keys_equal, Occupied, Used, Slots, Probe, Home, hash_key

\* The indices of a sequence.
LEMMA LoopFacts ==
  ASSUME LoopInv
  PROVE  /\ Len(loops) \in Nat /\ DOMAIN loops = 1 .. Len(loops)
         /\ IsFiniteSet(Labels) /\ Cardinality(Labels) \in Nat
         /\ map.iterating = 0 => Labels = {}
         /\ Cardinality(Labels) <= Len(loops)
  <1>1. Len(loops) \in Nat /\ DOMAIN loops = 1 .. Len(loops)
    BY DEF LoopInv, IsSeq
  <1>2. IsFiniteSet(1 .. Len(loops)) /\ Cardinality(1 .. Len(loops)) = Len(loops)
    <2>1. 1 \in Int /\ Len(loops) \in Int
      BY <1>1
    <2>2. /\ IsFiniteSet(1 .. Len(loops))
          /\ Cardinality(1 .. Len(loops)) = IF 1 > Len(loops) THEN 0 ELSE Len(loops) - 1 + 1
      BY <2>1, FS_Interval
    <2>3. QED
      BY <1>1, <2>2
  <1>3. Labels \in SUBSET (1 .. Len(loops))
    BY <1>1 DEF Labels
  <1>4. IsFiniteSet(Labels) /\ Cardinality(Labels) \in Nat /\ Cardinality(Labels) <= Len(loops)
    BY <1>2, <1>3, FS_Subset, FS_CardinalityType
  <1>5. QED
    BY <1>1, <1>4, FS_EmptySet DEF LoopInv

\* The loops stay the same, and either the order does or nothing guards it.
LEMMA LoopsKept ==
  ASSUME LoopInv, loops' = loops, map'.iterating = map.iterating, map'.order_len \in Nat,
         map.iterating = 0 \/ map'.order_len = map.order_len
  PROVE  LoopInv'
  <1>1. Labels' = Labels
    BY DEF Labels
  <1>2. \A i \in DOMAIN loops : loops[i].index \in 0 .. map'.order_len
    <2>1. CASE map'.order_len = map.order_len
      BY <2>1 DEF LoopInv
    <2>2. CASE map.iterating = 0
      <3>1. Labels = {}
        BY <2>2, LoopFacts
      <3>2. \A i \in DOMAIN loops : loops[i].over = "path"
        BY <3>1, MapAssumption DEF LoopInv, Labels
      <3>3. QED
        BY <3>2 DEF LoopInv
    <2>3. QED
      BY <2>1, <2>2
  <1>3. QED
    BY <1>1, <1>2 DEF LoopInv

\* Without a rebuild, before and after.
LEMMA NotRebuilding ==
  ASSUME MapInv, ~Rebuilding
  PROVE  rebuild = NoRebuild
  BY MapAssumption DEF MapInv, RebuildInv, Rebuilding

\* And a rebuild has a key and a value.
LEMMA IsRebuilding ==
  ASSUME MapInv, Rebuilding
  PROVE  /\ rebuild.key \in Keys /\ rebuild.value \in Values
         /\ map.iterating = 0 /\ map.order_len = map.count
         /\ map.count <= Cardinality(TakenOver)
         /\ rebuild.old.count * 4 < map.capacity * 3
  BY DEF MapInv, RebuildInv, Rebuilding, NoRebuild

\* No rebuild is begun.
LEMMA RebuildKept ==
  ASSUME MapInv, rebuild = NoRebuild, UNCHANGED <<seed, rebuild>>
  PROVE  RebuildInv'
  <1>1. Sound(rebuild.old) /\ rebuild.next \in 0 .. rebuild.old.order_len
    BY DEF MapInv, RebuildInv
  <1>2. PICK n : n = rebuild.old
    OBVIOUS
  <1>3. Sound(rebuild.old)'
    BY <1>1, <1>2, OldSoundNext
  <1>4. NoRebuild' = NoRebuild
    BY DEF NoRebuild, gray_map_new_kind, gray_map_round_capacity, MinCapacity, Ceiling
  <1>5. QED
    BY <1>1, <1>3, <1>4 DEF RebuildInv

\* The map becomes another table that is sound, when there is no rebuild.
LEMMA TableStep ==
  ASSUME MapInv, rebuild = NoRebuild, NEW n, Sound(n), map' = n, n.iterating = map.iterating,
         map.iterating = 0 \/ n.order_len = map.order_len,
         UNCHANGED <<seed, rebuild, loops, panicked>>
  PROVE  MapInv'
  <1>1. Sound(map)'
    BY SoundNext
  <1>2. RebuildInv'
    BY RebuildKept
  <1>3. map'.order_len \in Nat
    BY TableFacts DEF Sound
  <1>4. LoopInv'
    BY <1>3, LoopsKept DEF MapInv
  <1>5. QED
    BY <1>1, <1>2, <1>4 DEF MapInv

\* A panic or a stuttering step.
LEMMA NothingStep ==
  ASSUME MapInv, UNCHANGED <<seed, map, rebuild, loops>>, panicked' \in {"none", "P0035"}
  PROVE  MapInv'
  <1>1. PICK n : n = map
    OBVIOUS
  <1>2. PICK o : o = rebuild.old
    OBVIOUS
  <1>3. Sound(map)'
    BY <1>1, SoundNext DEF MapInv
  <1>4. Sound(rebuild.old)'
    BY <1>2, OldSoundNext DEF MapInv, RebuildInv
  <1>5. LoopInv'
    BY DEF MapInv, LoopInv, Labels
  <1>6. TakenOver' = TakenOver /\ NoRebuild' = NoRebuild
    BY DEF TakenOver, Occupied, Slots, NoRebuild
  <1>7. RebuildInv'
    BY <1>4, <1>6 DEF MapInv, RebuildInv
  <1>8. QED
    BY <1>3, <1>5, <1>7 DEF MapInv

\* map_rebuild is entered, with few enough entries for the new capacity.
LEMMA BeginStep ==
  ASSUME MapInv, rebuild = NoRebuild, NEW c \in Int, NEW k \in Keys, NEW v \in Values,
         map_rebuild(c, k, v), map.iterating = 0,
         map.count * 4 < gray_map_round_capacity(c) * 3,
         UNCHANGED <<seed, loops, panicked>>
  PROVE  MapInv'
  <1>1. PICK n : n = gray_map_new_kind(c)
    OBVIOUS
  <1>2. PICK o : o = map
    OBVIOUS
  <1>3. /\ map' = n /\ rebuild'.old = o /\ rebuild'.next = 0 /\ rebuild'.key = k /\ rebuild'.value = v
    BY <1>1, <1>2 DEF map_rebuild
  <1>4. /\ Sound(n) /\ n.capacity = gray_map_round_capacity(c)
        /\ n.count = 0 /\ n.order_len = 0 /\ n.iterating = 0
    BY <1>1, NewSound
  <1>5. Sound(map)'
    BY <1>3, <1>4, SoundNext
  <1>6. Sound(rebuild.old)' /\ o.order_len \in Nat
    <2>1. Sound(o)
      BY <1>2 DEF MapInv
    <2>2. QED
      BY <1>3, <2>1, OldSoundNext, TableFacts DEF Sound
  <1>7. LoopInv'
    BY <1>3, <1>4, LoopsKept DEF MapInv
  <1>8. Cardinality(TakenOver)' \in Nat
    <2>1. TakenOver' \in SUBSET Occupied(rebuild.old)'
      BY DEF TakenOver
    <2>2. IsFiniteSet(Occupied(o))
      BY <1>2, SlotSets DEF MapInv, Sound
    <2>3. Occupied(rebuild.old)' = Occupied(o)
      BY <1>3 DEF Occupied, Slots
    <2>4. QED
      BY <2>1, <2>2, <2>3, FS_Subset, FS_CardinalityType
  <1>9. RebuildInv'
    <2>1. rebuild'.next \in 0 .. rebuild'.old.order_len
      BY <1>3, <1>6
    <2>2. map'.count <= Cardinality(TakenOver)'
      BY <1>3, <1>4, <1>8
    <2>3. rebuild'.old.count * 4 < map'.capacity * 3
      BY <1>2, <1>3, <1>4
    <2>4. QED
      BY <1>3, <1>4, <1>6, <2>1, <2>2, <2>3 DEF RebuildInv
  <1>10. QED
    BY <1>5, <1>7, <1>9 DEF MapInv

\* gray_map_set, whether it writes, overwrites, panics or rebuilds.
LEMMA SetStep ==
  ASSUME MapInv, rebuild = NoRebuild, NEW k \in Keys, NEW v \in Values, gray_map_set(k, v),
         panicked = "none"
  PROVE  MapInv'
  <1> DEFINE e == find_slot(map, k)
  <1>1. /\ seed \in [Keys -> Hashes] /\ Sound(map) /\ map.capacity \in Nat \ {0, 1}
        /\ map.count \in 0 .. map.capacity /\ map.order_len \in 0 .. map.capacity
        /\ map.capacity \in Capacities
    BY TableFacts DEF MapInv, Sound, Typed
  <1>2. CASE Panic("P0035")
    BY <1>2, NothingStep DEF Panic
  <1>3. CASE /\ e >= 0 /\ map' = [map EXCEPT !.values[e] = v]
             /\ UNCHANGED <<seed, rebuild, loops, panicked>>
    <2>1. e \in Occupied(map)
      BY <1>1, <1>3, FindFacts
    <2>2. PICK n : n = [map EXCEPT !.values[e] = v]
      OBVIOUS
    <2>3. Sound(n) /\ n.iterating = map.iterating /\ n.order_len = map.order_len
      BY <1>1, <2>1, <2>2, UpdateSound
    <2>4. QED
      BY <1>3, <2>2, <2>3, TableStep
  <1>4. CASE /\ map.iterating = 0 /\ IsOverloaded(map) /\ map_rebuild(map.capacity * 2, k, v)
             /\ UNCHANGED <<seed, loops, panicked>>
    <2>1. map.capacity * 2 \in Capacities /\ map.capacity * 2 <= Ceiling
      <3>1. map.capacity < Ceiling /\ Ceiling \in Capacities
        BY CapacityEnds DEF gray_map_set
      <3>2. QED
        BY <1>1, <3>1, MapAssumption
    <2>2. PICK c \in Nat : c = map.capacity * 2
      BY <1>1
    <2>3. /\ gray_map_round_capacity(c) \in Nat /\ gray_map_round_capacity(c) >= c
      BY <2>1, <2>2, RoundFacts
    <2>4. map.count * 4 < gray_map_round_capacity(c) * 3
      BY <1>1, <2>2, <2>3
    <2>5. map_rebuild(c, k, v)
      BY <1>4, <2>2
    <2>6. QED
      BY <1>4, <2>2, <2>4, <2>5, BeginStep
  <1>5. CASE /\ map.iterating = 0 /\ ~IsOverloaded(map) /\ map_rebuild(map.capacity, k, v)
             /\ UNCHANGED <<seed, loops, panicked>>
    <2>1. PICK c \in Nat : c = map.capacity
      BY <1>1
    <2>2. c <= Ceiling
      BY <1>1, <2>1, CapacityEnds
    <2>3. gray_map_round_capacity(c) \in Nat /\ gray_map_round_capacity(c) >= c
      BY <2>1, <2>2, RoundFacts
    <2>4. map.count * 4 < gray_map_round_capacity(c) * 3
      BY <1>1, <1>5, <2>1, <2>3 DEF IsOverloaded
    <2>5. map_rebuild(c, k, v)
      BY <1>5, <2>1
    <2>6. QED
      BY <1>5, <2>1, <2>4, <2>5, BeginStep
  <1>6. CASE /\ map.iterating = 0 /\ ~IsOrderFull(map) /\ map' = Write(map, k, v)
             /\ UNCHANGED <<seed, rebuild, loops, panicked>>
    <2>1. PICK n : n = Write(map, k, v)
      OBVIOUS
    <2>2. map.order_len < map.capacity
      BY <1>1, <1>6 DEF IsOrderFull
    <2>3. Sound(n) /\ n.iterating = map.iterating
      BY <1>1, <2>1, <2>2, WriteSound
    <2>4. QED
      BY <1>6, <2>1, <2>3, TableStep
  <1>7. QED
    BY <1>2, <1>3, <1>4, <1>5, <1>6 DEF gray_map_set

\* gray_map_remove.
LEMMA RemoveStep ==
  ASSUME MapInv, rebuild = NoRebuild, NEW k \in Keys, gray_map_remove(k)
  PROVE  MapInv'
  <1> DEFINE s == find_slot(map, k)
  <1>1. seed \in [Keys -> Hashes] /\ Sound(map)
    BY DEF MapInv
  <1>2. CASE Panic("P0035")
    BY <1>2, NothingStep DEF Panic
  <1>3. CASE /\ map.iterating = 0 /\ map' = IF s < 0 THEN map ELSE Without(map, s)
             /\ UNCHANGED <<seed, rebuild, loops, panicked>>
    <2>1. CASE s < 0
      <3>1. panicked' \in {"none", "P0035"} /\ map' = map
        BY <1>3, <2>1 DEF MapInv
      <3>2. QED
        BY <1>3, <3>1, NothingStep
    <2>2. CASE ~(s < 0)
      <3>1. s \in Occupied(map)
        BY <1>1, <2>2, FindFacts
      <3>2. PICK n : n = Without(map, s)
        OBVIOUS
      <3>3. Sound(n) /\ n.iterating = map.iterating /\ n.order_len = map.order_len
        BY <1>1, <3>1, <3>2, RemoveSound
      <3>4. map' = n
        BY <1>3, <2>2, <3>2
      <3>5. QED
        BY <1>3, <3>3, <3>4, TableStep
    <2>3. QED
      BY <2>1, <2>2
  <1>4. QED
    BY <1>2, <1>3 DEF gray_map_remove

\* A table is replaced by a new one: gray_map_clear and an assignment.
LEMMA RenewStep ==
  ASSUME MapInv, rebuild = NoRebuild, NEW c \in Int, map.iterating = 0, map' = gray_map_new_kind(c),
         UNCHANGED <<seed, rebuild, loops, panicked>>
  PROVE  MapInv'
  <1>1. PICK n : n = gray_map_new_kind(c)
    OBVIOUS
  <1>2. Sound(n) /\ n.iterating = 0
    BY <1>1, NewSound
  <1>3. QED
    BY <1>1, <1>2, TableStep

\* gray_map_clear.
LEMMA ClearStep ==
  ASSUME MapInv, rebuild = NoRebuild, gray_map_clear
  PROVE  MapInv'
  <1>1. CASE Panic("P0035")
    BY <1>1, NothingStep DEF Panic
  <1>2. CASE map.iterating = 0 /\ map' = gray_map_new_kind(map.capacity)
               /\ UNCHANGED <<seed, rebuild, loops, panicked>>
    <2>1. map.capacity \in Nat
      BY TableFacts DEF MapInv, Sound
    <2>2. PICK c \in Int : c = map.capacity
      BY <2>1
    <2>3. map' = gray_map_new_kind(c)
      BY <1>2, <2>2
    <2>4. QED
      BY <1>2, <2>3, RenewStep
  <1>3. QED
    BY <1>1, <1>2 DEF gray_map_clear

\* m = {}.
LEMMA AssignStep ==
  ASSUME MapInv, rebuild = NoRebuild, NEW c \in Int, Assign(c)
  PROVE  MapInv'
  <1>1. CASE Panic("P0035")
    BY <1>1, NothingStep DEF Panic
  <1>2. CASE map.iterating = 0 /\ map' = gray_map_copy(gray_map_new_kind(c))
               /\ UNCHANGED <<seed, rebuild, loops, panicked>>
    <2>1. gray_map_copy(gray_map_new_kind(c)) = gray_map_new_kind(c)
      BY DEF gray_map_copy, gray_map_new_kind
    <2>2. QED
      BY <1>2, <2>1, RenewStep
  <1>3. QED
    BY <1>1, <1>2 DEF Assign

\* A new table in the middle of a rebuild is far from full.
LEMMA RoomLeft ==
  ASSUME MapInv, Rebuilding
  PROVE  map.order_len < map.capacity /\ ~IsOverloaded(map) /\ ~IsOrderFull(map)
  <1>1. /\ map.order_len = map.count /\ map.count <= Cardinality(TakenOver)
        /\ rebuild.old.count * 4 < map.capacity * 3
    BY IsRebuilding
  <1>2. /\ Sound(rebuild.old) /\ map.capacity \in Nat \ {0, 1} /\ map.count \in Nat
    BY TableFacts DEF MapInv, RebuildInv, Sound
  <1>3. Cardinality(TakenOver) <= rebuild.old.count /\ Cardinality(TakenOver) \in Nat
    <2>1. TakenOver \in SUBSET Occupied(rebuild.old)
      BY DEF TakenOver
    <2>2. /\ IsFiniteSet(Occupied(rebuild.old))
          /\ rebuild.old.count = Cardinality(Occupied(rebuild.old))
      BY <1>2, SlotSets DEF Sound, Counted
    <2>3. QED
      BY <2>1, <2>2, FS_Subset, FS_CardinalityType
  <1>4. rebuild.old.count \in Nat
    BY <1>2, TableFacts DEF Sound
  <1>5. map.count * 4 < map.capacity * 3 /\ map.count < map.capacity
    BY <1>1, <1>2, <1>3, <1>4
  <1>6. QED
    BY <1>1, <1>2, <1>5 DEF IsOverloaded, IsOrderFull

\* The end of a rebuild: the key is written for which it was begun.
LEMMA EndStep ==
  ASSUME MapInv, Rebuilding, EndRebuild
  PROVE  MapInv'
  <1>1. rebuild.key \in Keys /\ rebuild.value \in Values /\ map.iterating = 0
    BY IsRebuilding
  <1>2. PICK n : n = Write(map, rebuild.key, rebuild.value)
    OBVIOUS
  <1>3. Sound(n) /\ n.iterating = 0
    BY <1>1, <1>2, RoomLeft, WriteSound DEF MapInv
  <1>4. map' = n /\ rebuild' = NoRebuild /\ UNCHANGED <<seed, loops, panicked>>
    BY <1>2 DEF EndRebuild
  <1>5. Sound(map)'
    BY <1>3, <1>4, SoundNext
  <1>6. map'.order_len \in Nat
    BY <1>3, <1>4, TableFacts DEF Sound
  <1>7. LoopInv'
    BY <1>1, <1>3, <1>4, <1>6, LoopsKept DEF MapInv
  <1>8. RebuildInv'
    <2>1. PICK o : o = gray_map_new_kind(0)
      OBVIOUS
    <2>2. Sound(o) /\ o.order_len = 0
      BY <2>1, NewSound
    <2>3. rebuild'.old = o /\ rebuild'.next = 0
      BY <1>4, <2>1 DEF NoRebuild
    <2>4. Sound(rebuild.old)'
      BY <1>4, <2>2, <2>3, OldSoundNext
    <2>5. NoRebuild' = NoRebuild
      BY DEF NoRebuild
    <2>6. QED
      BY <1>4, <2>2, <2>3, <2>4, <2>5 DEF RebuildInv
  <1>9. QED
    BY <1>4, <1>5, <1>7, <1>8 DEF MapInv

\* One more entry of the old order is passed: a hole, or an entry that is written
\* to the new table.
LEMMA ReinsertStep ==
  ASSUME MapInv, Rebuilding, Reinsert
  PROVE  MapInv'
  <1> DEFINE Passed(o, x) == {s \in Occupied(o) : o.order_position[s] < x}
  <1>1. PICK o : o = rebuild.old
    OBVIOUS
  <1>2. /\ Sound(o) /\ Typed(o) /\ o.order_len \in Nat
        /\ rebuild.next \in 0 .. o.order_len /\ rebuild.next < o.order_len
    BY <1>1, TableFacts DEF MapInv, RebuildInv, Reinsert, Sound
  <1>3. PICK x \in 0 .. o.order_len - 1 : x = rebuild.next
    BY <1>2
  <1>4. PICK t : t = o.order[x]
    OBVIOUS
  <1>5. /\ rebuild'.old = o /\ rebuild'.next = x + 1 /\ UNCHANGED <<seed, loops, panicked>>
        /\ rebuild'.key = rebuild.key /\ rebuild'.value = rebuild.value
    BY <1>1, <1>3 DEF Reinsert
  <1>6. map' = IF t >= 0 /\ o.states[t] = "occupied" THEN Write(map, o.keys[t], o.values[t]) ELSE map
    BY <1>1, <1>3, <1>4 DEF Reinsert, OldSlot
  <1>7. TakenOver = Passed(o, x) /\ TakenOver' = Passed(o, x + 1)
    BY <1>1, <1>3, <1>5 DEF TakenOver, Occupied, Slots
  <1>8. /\ IsFiniteSet(Occupied(o)) /\ o.order_len \in Nat
        /\ \A s \in Occupied(o) : o.order_position[s] \in Nat
    BY <1>2, SlotSets DEF Sound, Filled
  <1>9. /\ IsFiniteSet(Passed(o, x)) /\ IsFiniteSet(Passed(o, x + 1))
        /\ Cardinality(Passed(o, x)) \in Nat /\ Cardinality(Passed(o, x + 1)) \in Nat
        /\ Passed(o, x) \subseteq Passed(o, x + 1)
    <2>1. Passed(o, x) \in SUBSET Occupied(o) /\ Passed(o, x + 1) \in SUBSET Occupied(o)
      OBVIOUS
    <2>2. Passed(o, x) \subseteq Passed(o, x + 1)
      BY <1>3, <1>8
    <2> HIDE DEF Passed
    <2>3. QED
      BY <1>8, <2>1, <2>2, FS_Subset, FS_CardinalityType
  <1>10. /\ rebuild.key \in Keys /\ rebuild.value \in Values /\ map.iterating = 0
         /\ map.order_len = map.count /\ map.count <= Cardinality(Passed(o, x))
         /\ o.count * 4 < map.capacity * 3
    BY <1>1, <1>7, IsRebuilding
  <1>11. map.count \in Nat /\ map.capacity \in Nat /\ Sound(map) /\ seed \in [Keys -> Hashes]
    BY TableFacts DEF MapInv, Sound
  <1> HIDE DEF Passed
  <1>12. ASSUME NEW n, Sound(n), map' = n, n.iterating = 0, n.order_len = n.count,
                n.capacity = map.capacity, n.count <= Cardinality(Passed(o, x + 1))
         PROVE  MapInv'
    <2>1. Sound(map)' /\ Sound(rebuild.old)'
      BY <1>2, <1>5, <1>12, SoundNext, OldSoundNext
    <2>2. map'.order_len \in Nat
      BY <1>12, TableFacts DEF Sound
    <2>3. LoopInv'
      BY <1>5, <1>10, <1>12, <2>2, LoopsKept DEF MapInv
    <2>4. rebuild'.next \in 0 .. rebuild'.old.order_len
      BY <1>2, <1>5
    <2>5. RebuildInv'
      BY <1>5, <1>7, <1>10, <1>12, <2>1, <2>4 DEF RebuildInv
    <2>6. QED
      BY <1>5, <2>1, <2>3, <2>5 DEF MapInv
  <1>13. CASE t = -1
    <2>1. PICK n : n = map
      OBVIOUS
    <2>2. map' = n
      BY <1>6, <1>13, <2>1
    <2>3. Cardinality(Passed(o, x)) <= Cardinality(Passed(o, x + 1))
      BY <1>9, FS_Subset
    <2>4. n.count <= Cardinality(Passed(o, x + 1))
      BY <1>9, <1>10, <1>11, <2>1, <2>3
    <2>5. QED
      BY <1>10, <1>11, <1>12, <2>1, <2>2, <2>4
  <1>14. CASE t # -1
    <2>1. t \in Occupied(o) /\ o.order_position[t] = x
      BY <1>2, <1>4, <1>14 DEF Sound, OrderConsistent
    <2>2. t >= 0 /\ o.states[t] = "occupied" /\ o.keys[t] \in Keys /\ o.values[t] \in Values
      BY <1>2, <2>1, TableFacts DEF Occupied, Sound, Filled
    <2>3. PICK n : n = Write(map, o.keys[t], o.values[t])
      OBVIOUS
    <2>4. map' = n
      BY <1>6, <2>2, <2>3
    <2>5. map.order_len < map.capacity
      BY RoomLeft
    <2>6. /\ Sound(n) /\ n.capacity = map.capacity /\ n.iterating = map.iterating
          /\ \/ n.count = map.count /\ n.order_len = map.order_len
             \/ n.count = map.count + 1 /\ n.order_len = map.order_len + 1
      BY <1>11, <2>2, <2>3, <2>5, WriteSound
    <2>7. t \notin Passed(o, x) /\ Passed(o, x + 1) = Passed(o, x) \cup {t}
      <3>1. \A s \in Occupied(o) : o.order_position[s] = x => s = t
        BY <1>2, <1>4 DEF Sound, OrderConsistent
      <3>2. \A s \in Occupied(o) : o.order_position[s] < x + 1 <=> o.order_position[s] < x \/ s = t
        BY <1>3, <1>8, <2>1, <3>1
      <3>3. QED
        BY <1>3, <2>1, <3>2 DEF Passed
    <2>8. Cardinality(Passed(o, x + 1)) = Cardinality(Passed(o, x)) + 1
      BY <1>9, <2>7, FS_AddElement
    <2>9. n.order_len = n.count /\ n.count <= Cardinality(Passed(o, x + 1))
      BY <1>9, <1>10, <1>11, <2>6, <2>8
    <2>10. QED
      BY <1>10, <1>12, <2>4, <2>6, <2>9
  <1>15. QED
    BY <1>13, <1>14

\* The number of loops on a table changes.
LEMMA GuardSound ==
  ASSUME NEW m, Sound(m), NEW i \in 0 .. MaxLoops, NEW n, n = [m EXCEPT !.iterating = i]
  PROVE  Sound(n) /\ n.iterating = i /\ n.order_len = m.order_len
  <1>1. Typed(m)
    BY DEF Sound
  <1>2. n = [keys |-> m.keys, values |-> m.values, states |-> m.states,
             order |-> m.order, order_position |-> m.order_position, count |-> m.count,
             capacity |-> m.capacity, order_len |-> m.order_len, iterating |-> i]
    BY <1>1 DEF Typed, Tables
  <1>3. n \in Tables(m.capacity)
    BY <1>1, <1>2 DEF Typed, Tables
  <1>4. /\ n.values = m.values /\ n.keys = m.keys /\ n.states = m.states
        /\ n.order = m.order /\ n.order_position = m.order_position /\ n.count = m.count
        /\ n.capacity = m.capacity /\ n.order_len = m.order_len /\ n.iterating = i
    BY <1>2
  <1>5. Typed(n)
    BY <1>1, <1>3, <1>4 DEF Typed
  <1>6. \A s \in Occupied(m) : n.values[s] \in Values
    BY <1>4 DEF Sound, Filled
  <1>7. QED
    BY <1>4, <1>5, <1>6, SameSound

\* A sequence is one of its own elements.
LEMMA SeqFacts ==
  ASSUME NEW S, NEW s \in Seq(S)
  PROVE  IsSeq(s)
  <1>1. Len(s) \in Nat /\ DOMAIN s = 1 .. Len(s) /\ \A i \in 1 .. Len(s) : s[i] \in Range(s)
    BY DEF Range
  <1>2. s = [i \in 1 .. Len(s) |-> s[i]]
    BY <1>1
  <1>3. [i \in 1 .. Len(s) |-> s[i]] \in Seq(Range(s))
    BY <1>1
  <1>4. QED
    BY <1>2, <1>3 DEF IsSeq

\* The loops change, and with them at most how many guard the map.
LEMMA LoopStep ==
  ASSUME MapInv, rebuild = NoRebuild, NEW n, Sound(n), map' = n, LoopInv',
         UNCHANGED <<seed, rebuild, panicked>>
  PROVE  MapInv'
  <1>1. Sound(map)'
    BY SoundNext
  <1>2. RebuildInv'
    BY RebuildKept
  <1>3. QED
    BY <1>1, <1>2 DEF MapInv

\* A loop begins.
LEMMA ForEachStep ==
  ASSUME MapInv, rebuild = NoRebuild, NEW over \in LoopKinds, ForEach(over)
  PROVE  MapInv'
  <1>1. PICK N \in Nat : N = Len(loops)
    BY LoopFacts DEF MapInv
  <1>2. PICK r : r = [over |-> over, index |-> 0, start |-> KeysIn(map), visited |-> <<>>]
    OBVIOUS
  <1>3. /\ N < MaxLoops /\ loops' = Append(loops, r) /\ UNCHANGED <<seed, rebuild, panicked>>
        /\ map' = IF over = "label" THEN [map EXCEPT !.iterating = @ + 1] ELSE map
        /\ r.over = over /\ r.index = 0 /\ r.visited = <<>>
    BY <1>1, <1>2 DEF ForEach
  <1>4. /\ Sound(map) /\ LoopInv /\ IsSeq(loops) /\ map.order_len \in Nat /\ MaxLoops \in Nat
        /\ map.iterating \in Nat /\ map.iterating <= N /\ DOMAIN loops = 1 .. N
        /\ map.iterating = Cardinality(Labels) /\ IsFiniteSet(Labels)
    BY <1>1, LoopFacts, TableFacts, MapAssumption DEF MapInv, LoopInv, Sound
  <1>5. /\ IsSeq(loops') /\ Len(loops') = N + 1 /\ DOMAIN loops' = 1 .. N + 1
        /\ \A i \in 1 .. N : loops'[i] = loops[i]
        /\ loops'[N + 1] = r
    <2> DEFINE S == Range(loops) \cup {r}
    <2>1. loops \in Seq(S) /\ r \in S
      BY <1>4 DEF IsSeq
    <2>2. Append(loops, r) \in Seq(S)
      BY <2>1
    <2>3. IsSeq(loops')
      BY <1>3, <2>2, SeqFacts
    <2>4. QED
      BY <1>1, <1>3, <2>1, <2>2, <2>3
  <1>6. \A i \in DOMAIN loops' : i \in 1 .. N \/ i = N + 1
    BY <1>1, <1>5
  <1>7. Labels' = IF over = "label" THEN Labels \cup {N + 1} ELSE Labels
    BY <1>1, <1>3, <1>4, <1>5 DEF Labels
  <1>8. /\ N + 1 \notin Labels /\ Labels \subseteq 1 .. N
    BY <1>1, <1>4 DEF Labels
  <1>9. Len(loops') <= MaxLoops
    BY <1>1, <1>3, <1>4, <1>5
  <1>10. \A i \in 1 .. N :
           /\ loops[i].over \in LoopKinds /\ loops[i].visited \in Seq(Keys)
           /\ loops[i].index \in 0 .. map.order_len
           /\ loops[i].over = "path" => loops[i].index = 0
    BY <1>4 DEF LoopInv
  <1>11. <<>> \in Seq(Keys) /\ 0 \in 0 .. map.order_len
    BY <1>4
  <1>12. \A i \in DOMAIN loops' :
           /\ loops'[i].over \in LoopKinds /\ loops'[i].visited \in Seq(Keys)
           /\ loops'[i].index \in 0 .. map.order_len
           /\ loops'[i].over = "path" => loops'[i].index = 0
    BY <1>3, <1>5, <1>6, <1>10, <1>11
  <1>13. CASE over = "label"
    <2>1. PICK j \in 0 .. MaxLoops : j = map.iterating + 1
      BY <1>1, <1>3, <1>4
    <2>2. PICK n : n = [map EXCEPT !.iterating = j]
      OBVIOUS
    <2>3. map' = n
      BY <1>3, <1>13, <2>1, <2>2
    <2>4. Sound(n) /\ n.iterating = j /\ n.order_len = map.order_len
      BY <1>4, <2>2, GuardSound
    <2>5. map'.iterating = Cardinality(Labels)' /\ map'.order_len = map.order_len
      <3>1. Labels' = Labels \cup {N + 1}
        BY <1>7, <1>13
      <3>2. Cardinality(Labels \cup {N + 1}) = Cardinality(Labels) + 1
        BY <1>4, <1>8, FS_AddElement
      <3>3. QED
        BY <1>4, <2>1, <2>3, <2>4, <3>1, <3>2
    <2>6. LoopInv'
      BY <1>5, <1>9, <1>12, <2>5 DEF LoopInv
    <2>7. QED
      BY <1>3, <2>3, <2>4, <2>6, LoopStep
  <1>14. CASE over # "label"
    <2>1. PICK n : n = map
      OBVIOUS
    <2>2. map' = n
      BY <1>3, <1>14, <2>1
    <2>3. map'.iterating = Cardinality(Labels)' /\ map'.order_len = map.order_len
      BY <1>4, <1>7, <1>14, <2>1, <2>2
    <2>4. LoopInv'
      BY <1>5, <1>9, <1>12, <2>3 DEF LoopInv
    <2>5. QED
      BY <1>3, <1>4, <2>1, <2>2, <2>4, LoopStep
  <1>15. QED
    BY <1>13, <1>14

\* A loop ends.
LEMMA EndForEachStep ==
  ASSUME MapInv, rebuild = NoRebuild, EndForEach
  PROVE  MapInv'
  <1>1. PICK N \in Nat : N = Len(loops)
    BY LoopFacts DEF MapInv
  <1>2. /\ N > 0 /\ loops' = SubSeq(loops, 1, N - 1) /\ UNCHANGED <<seed, rebuild, panicked>>
        /\ map' = IF loops[N].over = "label" THEN [map EXCEPT !.iterating = @ - 1] ELSE map
    BY <1>1 DEF EndForEach
  <1>3. /\ Sound(map) /\ LoopInv /\ IsSeq(loops) /\ map.order_len \in Nat /\ MaxLoops \in Nat
        /\ map.iterating \in 0 .. MaxLoops /\ DOMAIN loops = 1 .. N /\ N <= MaxLoops
        /\ map.iterating = Cardinality(Labels) /\ IsFiniteSet(Labels)
    BY <1>1, LoopFacts, TableFacts, MapAssumption DEF MapInv, LoopInv, Sound
  <1>4. /\ IsSeq(loops') /\ Len(loops') = N - 1 /\ DOMAIN loops' = 1 .. N - 1
        /\ \A i \in 1 .. N - 1 : loops'[i] = loops[i]
    <2>1. loops \in Seq(Range(loops))
      BY <1>3 DEF IsSeq
    <2>2. SubSeq(loops, 1, N - 1) \in Seq(Range(loops))
      BY <1>1, <1>2, <2>1
    <2>3. IsSeq(loops')
      BY <1>2, <2>2, SeqFacts
    <2>4. QED
      BY <1>1, <1>2, <2>1, <2>2, <2>3
  <1>5. \A i \in DOMAIN loops' : i \in 1 .. N /\ i # N /\ loops'[i] = loops[i]
    BY <1>1, <1>2, <1>4
  <1>6. Labels' = Labels \ {N}
    <2>1. \A i \in 1 .. N : i = N \/ i \in DOMAIN loops'
      BY <1>1, <1>2, <1>4
    <2>2. QED
      BY <1>3, <1>5, <2>1 DEF Labels
  <1>7. \A i \in DOMAIN loops' :
          /\ loops'[i].over \in LoopKinds /\ loops'[i].visited \in Seq(Keys)
          /\ loops'[i].index \in 0 .. map.order_len
          /\ loops'[i].over = "path" => loops'[i].index = 0
    BY <1>3, <1>5 DEF LoopInv
  <1>8. Len(loops') <= MaxLoops
    BY <1>1, <1>3, <1>4
  <1>9. CASE loops[N].over = "label"
    <2>1. N \in Labels
      BY <1>1, <1>2, <1>3, <1>9 DEF Labels
    <2>2. Cardinality(Labels \ {N}) = Cardinality(Labels) - 1
      BY <1>3, <2>1, FS_RemoveElement
    <2>3. Cardinality(Labels) # 0
      BY <1>3, <2>1, FS_EmptySet
    <2>4. PICK j \in 0 .. MaxLoops : j = map.iterating - 1
      BY <1>3, <2>3
    <2>5. PICK n : n = [map EXCEPT !.iterating = j]
      OBVIOUS
    <2>6. map' = n
      BY <1>2, <1>9, <2>4, <2>5
    <2>7. Sound(n) /\ n.iterating = j /\ n.order_len = map.order_len
      BY <1>3, <2>5, GuardSound
    <2>8. map'.iterating = Cardinality(Labels)' /\ map'.order_len = map.order_len
      BY <1>3, <1>6, <2>2, <2>4, <2>6, <2>7
    <2>9. LoopInv'
      BY <1>4, <1>7, <1>8, <2>8 DEF LoopInv
    <2>10. QED
      BY <1>2, <2>6, <2>7, <2>9, LoopStep
  <1>10. CASE loops[N].over # "label"
    <2>1. PICK n : n = map
      OBVIOUS
    <2>2. map' = n
      BY <1>2, <1>10, <2>1
    <2>3. Labels' = Labels
      BY <1>6, <1>10 DEF Labels
    <2>4. map'.iterating = Cardinality(Labels)' /\ map'.order_len = map.order_len
      BY <1>3, <2>1, <2>2, <2>3
    <2>5. LoopInv'
      BY <1>4, <1>7, <1>8, <2>4 DEF LoopInv
    <2>6. QED
      BY <1>2, <1>3, <2>1, <2>2, <2>5, LoopStep
  <1>11. QED
    BY <1>9, <1>10

\* The innermost loop moves on: over a hole, or to the key of an entry.
LEMMA VisitStep ==
  ASSUME MapInv, rebuild = NoRebuild, Visit
  PROVE  MapInv'
  <1>1. PICK N \in Nat : N = Len(loops)
    BY LoopFacts DEF MapInv
  <1>2. PICK l : l = loops[N]
    OBVIOUS
  <1>3. PICK s : s = map.order[l.index]
    OBVIOUS
  <1>4. PICK r : r = [over |-> l.over, index |-> l.index + 1, start |-> l.start,
                      visited |-> IF s < 0 THEN l.visited ELSE Append(l.visited, map.keys[s])]
    OBVIOUS
  <1>5. /\ N > 0 /\ l.over = "label" /\ l.index < map.order_len
        /\ loops' = [loops EXCEPT ![N] = r] /\ UNCHANGED <<seed, map, rebuild, panicked>>
    BY <1>1, <1>2, <1>3, <1>4 DEF Visit
  <1>6. /\ r.over = l.over /\ r.index = l.index + 1
        /\ r.visited = IF s < 0 THEN l.visited ELSE Append(l.visited, map.keys[s])
    BY <1>4
  <1>7. /\ Sound(map) /\ LoopInv /\ IsSeq(loops) /\ map.order_len \in 0 .. map.capacity
        /\ map.capacity \in Nat /\ DOMAIN loops = 1 .. N /\ N \in 1 .. N
        /\ map.iterating = Cardinality(Labels)
    BY <1>1, <1>5, LoopFacts, TableFacts DEF MapInv, LoopInv, Sound
  <1>8. /\ l.over \in LoopKinds /\ l.visited \in Seq(Keys) /\ l.index \in 0 .. map.order_len - 1
    BY <1>2, <1>5, <1>7 DEF LoopInv
  <1>9. r.visited \in Seq(Keys)
    <2>1. CASE s < 0
      BY <1>6, <1>8, <2>1
    <2>2. CASE ~(s < 0)
      <3>1. s # -1
        BY <2>2
      <3>2. s \in Occupied(map)
        BY <1>3, <1>7, <1>8, <3>1 DEF Sound, OrderConsistent
      <3>3. map.keys[s] \in Keys
        BY <1>7, <3>2 DEF Sound, Filled
      <3>4. QED
        BY <1>6, <1>8, <2>2, <3>3
    <2>3. QED
      BY <2>1, <2>2
  <1>10. /\ DOMAIN loops' = 1 .. N /\ loops'[N] = r
         /\ \A i \in 1 .. N : i # N => loops'[i] = loops[i]
    BY <1>5, <1>7
  <1>11. IsSeq(loops') /\ Len(loops') = N
    <2> DEFINE S == Range(loops) \cup {r}
    <2>1. loops \in Seq(S) /\ r \in S
      BY <1>7 DEF IsSeq
    <2>2. [loops EXCEPT ![N] = r] \in Seq(S)
      BY <1>1, <1>7, <2>1
    <2>3. IsSeq(loops')
      BY <1>5, <2>2, SeqFacts
    <2>4. Len(loops') = N
      BY <1>1, <1>5, <2>1
    <2>5. QED
      BY <2>3, <2>4
  <1>12. Labels' = Labels
    <2>1. \A i \in 1 .. N : loops'[i].over = loops[i].over
      BY <1>2, <1>6, <1>10
    <2>2. QED
      BY <1>7, <1>10, <2>1 DEF Labels
  <1>13. \A i \in DOMAIN loops' :
           /\ loops'[i].over \in LoopKinds /\ loops'[i].visited \in Seq(Keys)
           /\ loops'[i].index \in 0 .. map.order_len
           /\ loops'[i].over = "path" => loops'[i].index = 0
    <2>1. /\ r.over \in LoopKinds /\ r.over # "path" /\ r.index \in 0 .. map.order_len
      BY <1>5, <1>6, <1>7, <1>8
    <2>2. \A i \in 1 .. N :
            /\ loops[i].over \in LoopKinds /\ loops[i].visited \in Seq(Keys)
            /\ loops[i].index \in 0 .. map.order_len
            /\ loops[i].over = "path" => loops[i].index = 0
      BY <1>7 DEF LoopInv
    <2>3. QED
      BY <1>9, <1>10, <2>1, <2>2
  <1>14. LoopInv'
    BY <1>1, <1>5, <1>7, <1>11, <1>12, <1>13 DEF LoopInv
  <1>15. PICK n : n = map
    OBVIOUS
  <1>16. QED
    BY <1>5, <1>7, <1>14, <1>15, LoopStep

-----------------------------------------------------------------------------
(* Theorems.                                                               *)

\* A program starts with a new map, no rebuild and no loop.
LEMMA MapInit ==
  ASSUME Init
  PROVE  MapInv
  <1>1. PICK c \in Int : map = gray_map_new_kind(c)
    BY MapAssumption DEF Init
  <1>2. Sound(map) /\ map.iterating = 0 /\ map.order_len = 0
    BY <1>1, NewSound
  <1>3. loops = <<>> /\ seed \in [Keys -> Hashes] /\ panicked = "none" /\ rebuild = NoRebuild
    BY DEF Init
  <1>4. IsSeq(loops) /\ Len(loops) = 0 /\ DOMAIN loops = {}
    BY <1>3 DEF IsSeq
  <1>5. LoopInv
    <2>1. Labels = {}
      BY <1>4 DEF Labels
    <2>2. Cardinality(Labels) = 0
      BY <2>1, FS_EmptySet
    <2>3. QED
      BY <1>2, <1>4, <2>2, MapAssumption DEF LoopInv
  <1>6. PICK o : o = gray_map_new_kind(0)
    OBVIOUS
  <1>7. Sound(o) /\ o.order_len = 0
    BY <1>6, NewSound
  <1>8. rebuild.old = o /\ rebuild.next = 0
    BY <1>3, <1>6 DEF NoRebuild
  <1>9. RebuildInv
    BY <1>3, <1>7, <1>8 DEF RebuildInv
  <1>10. QED
    BY <1>2, <1>3, <1>5, <1>9 DEF MapInv

\* Every step of a program preserves the invariant.
LEMMA MapStep ==
  ASSUME MapInv, [Next]_vars
  PROVE  MapInv'
  <1>1. CASE UNCHANGED vars
    <2>1. UNCHANGED <<seed, map, rebuild, loops>> /\ panicked' \in {"none", "P0035"}
      BY <1>1 DEF vars, MapInv
    <2>2. QED
      BY <2>1, NothingStep
  <1>2. CASE Rebuilding /\ (Reinsert \/ EndRebuild)
    BY <1>2, ReinsertStep, EndStep
  <1>3. CASE /\ ~Rebuilding /\ panicked = "none"
             /\ \/ \E k \in Keys, v \in Values : gray_map_set(k, v)
                \/ \E k \in Keys : gray_map_remove(k)
                \/ gray_map_clear
                \/ \E c \in Hints : Assign(c)
                \/ \E over \in LoopKinds : ForEach(over)
                \/ Visit
                \/ EndForEach
    <2>1. rebuild = NoRebuild
      BY <1>3, NotRebuilding
    <2>2. ASSUME NEW k \in Keys, NEW v \in Values, gray_map_set(k, v) PROVE MapInv'
      BY <1>3, <2>1, <2>2, SetStep
    <2>3. ASSUME NEW k \in Keys, gray_map_remove(k) PROVE MapInv'
      BY <2>1, <2>3, RemoveStep
    <2>4. ASSUME NEW c \in Hints, Assign(c) PROVE MapInv'
      <3>1. c \in Int
        BY MapAssumption
      <3>2. QED
        BY <2>1, <2>4, <3>1, AssignStep
    <2>5. ASSUME NEW over \in LoopKinds, ForEach(over) PROVE MapInv'
      BY <2>1, <2>5, ForEachStep
    <2>6. QED
      BY <1>3, <2>1, <2>2, <2>3, <2>4, <2>5, ClearStep, VisitStep, EndForEachStep
  <1>4. QED
    BY <1>1, <1>2, <1>3 DEF Next

\* The inductive invariant holds throughout.
LEMMA MapInductive == Spec => []MapInv
  <1>1. Init => MapInv
    BY MapInit
  <1>2. MapInv /\ [Next]_vars => MapInv'
    BY MapStep
  <1>3. QED
    BY <1>1, <1>2, PTL DEF Spec

\* Whatever is set, removed, cleared and rebuilt, count, states, order and
\* order_position describe the same entries, and the loops stay within order.
THEOREM TablesConsistent == Spec => []TableConsistent
  <1>1. MapInv => TableConsistent
    <2> SUFFICES ASSUME MapInv PROVE TableConsistent
      OBVIOUS
    <2>1. map \in Tables(map.capacity) /\ rebuild.old \in Tables(rebuild.old.capacity)
      BY DEF MapInv, RebuildInv, Sound, Typed
    <2>2. rebuild = NoRebuild \/ (rebuild.key \in Keys /\ rebuild.value \in Values)
      BY DEF MapInv, RebuildInv
    <2>3. TypeOK
      BY <2>1, <2>2 DEF TypeOK, MapInv, RebuildInv, LoopInv
    <2>4. QED
      BY <2>3 DEF TableConsistent, MapInv, Sound, Counted
  <1>2. QED
    BY <1>1, MapInductive, PTL

\* find_slot finds the slot of every key that is there, under every spelling of
\* it, and no slot for a key that is not: no removal and no insertion
\* cuts a probe sequence or puts a key in twice.
THEOREM EveryKeyFound == Spec => []FindsEveryKey
  <1>1. MapInv => FindsEveryKey
    <2> SUFFICES ASSUME MapInv, NEW k \in Keys
                 PROVE  {s \in Occupied(map) : keys_equal(map.keys[s], k)}
                          = IF find_slot(map, k) < 0 THEN {} ELSE {find_slot(map, k)}
      BY DEF FindsEveryKey
    <2>1. seed \in [Keys -> Hashes] /\ Sound(map)
      BY DEF MapInv
    <2>2. \/ /\ find_slot(map, k) = -1
             /\ \A s \in Occupied(map) : ~keys_equal(map.keys[s], k)
          \/ /\ find_slot(map, k) \in Occupied(map) /\ find_slot(map, k) >= 0
             /\ keys_equal(map.keys[find_slot(map, k)], k)
      BY <2>1, FindFacts
    <2>3. \A s, t \in Occupied(map) :
            keys_equal(map.keys[s], k) /\ keys_equal(map.keys[t], k) => s = t
      BY <2>1 DEF Sound, Distinct, keys_equal
    <2>4. \A s \in Occupied(map) : s \in Nat
      BY <2>1, TableFacts DEF Sound, Occupied
    <2>5. QED
      BY <2>2, <2>3, <2>4
  <1>2. QED
    BY <1>1, MapInductive, PTL

\* The table map_rebuild fills stays under both limits of gray_map_set, at
\* every doubling and every rebuild in place: rebuilds never nest, and the write
\* that follows finds a free slot.
THEOREM RebuildsMakeRoom == Spec => []RebuildMakesRoom
  <1>1. MapInv => RebuildMakesRoom
    BY RoomLeft DEF RebuildMakesRoom
  <1>2. QED
    BY <1>1, MapInductive, PTL

-----------------------------------------------------------------------------
(* The insertion order: the hash map implements OrderedMap, and a loop over *)
(* a map variable visits the keys it began with.  First, the elements of a *)
(* finite set of numbers in their order.                                   *)

Below(P, i) == {j \in P : j <= i}

\* The elements up to a number are finitely many.
LEMMA BelowFinite ==
  ASSUME NEW P \in SUBSET Nat, IsFiniteSet(P), NEW i
  PROVE  /\ IsFiniteSet(Below(P, i)) /\ Rank(P, i) = Cardinality(Below(P, i))
         /\ Rank(P, i) \in Nat /\ Rank(P, i) <= Cardinality(P) /\ Cardinality(P) \in Nat
  <1>1. Below(P, i) \in SUBSET P
    BY DEF Below
  <1>2. Rank(P, i) = Cardinality(Below(P, i))
    BY DEF Rank, Below
  <1>3. QED
    BY <1>1, <1>2, FS_Subset, FS_CardinalityType

\* Of two elements the smaller one has the smaller rank.
LEMMA RankGrows ==
  ASSUME NEW P \in SUBSET Nat, IsFiniteSet(P), NEW i \in P, NEW j \in P, i < j
  PROVE  Rank(P, i) < Rank(P, j)
  <1>1. Below(P, i) \cup {j} \subseteq Below(P, j) /\ j \notin Below(P, i)
    <2>1. i \in Nat /\ j \in Nat /\ j <= j /\ ~(j <= i)
      OBVIOUS
    <2>2. \A q \in P : q <= i => q <= j
      BY <2>1
    <2>3. QED
      BY <2>1, <2>2 DEF Below
  <1>2. IsFiniteSet(Below(P, i)) /\ IsFiniteSet(Below(P, j))
    BY BelowFinite
  <1>3. Cardinality(Below(P, i) \cup {j}) = Cardinality(Below(P, i)) + 1
    BY <1>1, <1>2, FS_AddElement
  <1>4. Cardinality(Below(P, i) \cup {j}) <= Cardinality(Below(P, j))
    BY <1>1, <1>2, FS_Subset
  <1>5. QED
    BY <1>3, <1>4, BelowFinite

\* The next element has the next rank.
LEMMA RankNext ==
  ASSUME NEW P \in SUBSET Nat, IsFiniteSet(P), NEW Q \in SUBSET P, NEW j \in P, j \notin Q,
         \A i \in P : i <= j <=> i \in Q \/ i = j
  PROVE  Rank(P, j) = Cardinality(Q) + 1
  <1>1. Below(P, j) = Q \cup {j} /\ IsFiniteSet(Q)
    BY FS_Subset DEF Below
  <1>2. QED
    BY <1>1, FS_AddElement, BelowFinite

\* Every number up to the size of the set is a rank.
LEMMA RankOnto ==
  ASSUME NEW P \in SUBSET Nat, IsFiniteSet(P), NEW r \in 1 .. Cardinality(P)
  PROVE  \E i \in P : Rank(P, i) = r
  <1> DEFINE Bad == {q \in 1 .. Cardinality(P) : ~ \E i \in P : Rank(P, i) = q}
  <1>1. Cardinality(P) \in Nat
    BY FS_CardinalityType
  <1> SUFFICES ASSUME r \in Bad PROVE FALSE
    OBVIOUS
  <1>2. Bad \in SUBSET Nat /\ Bad # {}
    BY <1>1
  <1>3. PICK b \in Bad : \A q \in Bad : b <= q
    BY <1>2, MinFacts, ZenonT(30)
  <1>4. b \in 1 .. Cardinality(P) /\ \A i \in P : Rank(P, i) # b
    BY <1>3
  <1>5. CASE b = 1
    <2>1. P # {}
      BY <1>4, <1>1, FS_EmptySet
    <2>2. PICK j \in P : \A i \in P : j <= i
      BY <2>1, MinFacts
    <2>3. \A i \in P : i <= j <=> i \in {} \/ i = j
      BY <2>2
    <2>4. Cardinality({}) = 0 /\ {} \in SUBSET P
      BY FS_EmptySet
    <2>5. Rank(P, j) = Cardinality({}) + 1
      BY <2>3, <2>4, RankNext
    <2>6. QED
      BY <1>4, <1>5, <2>4, <2>5
  <1>6. CASE b # 1
    <2>1. b - 1 \in 1 .. Cardinality(P) /\ ~(b <= b - 1)
      BY <1>1, <1>4, <1>6
    <2>2. b - 1 \notin Bad
      BY <1>3, <2>1
    <2>3. PICK i \in P : Rank(P, i) = b - 1
      BY <2>1, <2>2
    <2> DEFINE Above == {j \in P : j > i}
    <2>4. Above # {}
      <3>1. ASSUME Above = {} PROVE FALSE
        <4>1. \A q \in P : q <= i
          BY <3>1
        <4>2. Below(P, i) = P
          BY <4>1 DEF Below
        <4>3. Rank(P, i) = Cardinality(P)
          BY <4>2, BelowFinite
        <4>4. QED
          BY <1>1, <1>4, <2>3, <4>3
      <3>2. QED
        BY <3>1
    <2>5. PICK j \in Above : \A q \in Above : j <= q
      BY <2>4, MinFacts
    <2>6. j \in P /\ j > i /\ j \in Nat /\ i \in Nat
      BY <2>5
    <2>7. \A q \in P : q <= j <=> q \in Below(P, i) \/ q = j
      BY <2>5, <2>6 DEF Below
    <2>8. j \notin Below(P, i) /\ Below(P, i) \in SUBSET P
      BY <2>6 DEF Below
    <2>9. Rank(P, j) = Cardinality(Below(P, i)) + 1
      BY <2>6, <2>7, <2>8, RankNext
    <2>10. Rank(P, j) = b
      BY <1>1, <1>4, <2>3, <2>9, BelowFinite
    <2>11. QED
      BY <1>4, <2>6, <2>10
  <1>7. QED
    BY <1>5, <1>6

\* Ranks and elements correspond to each other.
LEMMA NthFacts ==
  ASSUME NEW P \in SUBSET Nat, IsFiniteSet(P)
  PROVE  /\ Cardinality(P) \in Nat
         /\ \A r \in 1 .. Cardinality(P) : Nth(P, r) \in P /\ Rank(P, Nth(P, r)) = r
         /\ \A i \in P : Rank(P, i) \in 1 .. Cardinality(P) /\ Nth(P, Rank(P, i)) = i
  <1>1. Cardinality(P) \in Nat
    BY FS_CardinalityType
  <1>2. \A r \in 1 .. Cardinality(P) : Nth(P, r) \in P /\ Rank(P, Nth(P, r)) = r
    BY RankOnto DEF Nth
  <1>3. ASSUME NEW i \in P
        PROVE  Rank(P, i) \in 1 .. Cardinality(P) /\ Nth(P, Rank(P, i)) = i
    <2>1. Rank(P, i) # 0
      <3>1. i \in Below(P, i) /\ i \in Nat
        BY DEF Below
      <3>2. QED
        BY <3>1, BelowFinite, FS_EmptySet
    <2>2. Rank(P, i) \in 1 .. Cardinality(P)
      BY <1>1, <2>1, BelowFinite
    <2>3. PICK j : j = Nth(P, Rank(P, i))
      OBVIOUS
    <2>4. j \in P /\ Rank(P, j) = Rank(P, i) /\ j \in Nat /\ i \in Nat
      BY <1>2, <2>2, <2>3
    <2>5. ~(i < j) /\ ~(j < i)
      BY <2>4, BelowFinite, RankGrows
    <2>6. QED
      BY <2>2, <2>3, <2>4, <2>5
  <1>4. QED
    BY <1>1, <1>2, <1>3

\* The element of a rank is the only one that has it.
LEMMA NthUnique ==
  ASSUME NEW P \in SUBSET Nat, IsFiniteSet(P), NEW i \in P, NEW r, Rank(P, i) = r
  PROVE  Nth(P, r) = i
  BY NthFacts

Adds(P, n, Q) ==
  P \in SUBSET Nat /\ IsFiniteSet(P) /\ n \in Nat /\ (\A i \in P : i < n) /\ Q = P \cup {n}
Drops(P, n, Q) ==
  P \in SUBSET Nat /\ IsFiniteSet(P) /\ n \in P /\ Q = P \ {n}

\* A greater element is added.
LEMMA NthAdd ==
  ASSUME NEW P, NEW n, NEW Q, Adds(P, n, Q)
  PROVE  /\ IsFiniteSet(Q) /\ Q \in SUBSET Nat /\ Cardinality(Q) = Cardinality(P) + 1
         /\ \A r \in 1 .. Cardinality(P) : Nth(Q, r) = Nth(P, r)
         /\ Nth(Q, Cardinality(P) + 1) = n
  <1> USE DEF Adds
  <1>1. n \notin P
    OBVIOUS
  <1>2. IsFiniteSet(Q) /\ Cardinality(Q) = Cardinality(P) + 1 /\ Q \in SUBSET Nat
    BY <1>1, FS_AddElement
  <1>3. Cardinality(P) \in Nat
    BY FS_CardinalityType
  <1>4. ASSUME NEW i \in P PROVE Rank(Q, i) = Rank(P, i)
    <2>1. i \in Nat /\ ~(n <= i)
      OBVIOUS
    <2>2. {j \in Q : j <= i} = {j \in P : j <= i}
      BY <2>1
    <2>3. QED
      BY <2>2 DEF Rank
  <1>5. ASSUME NEW r \in 1 .. Cardinality(P) PROVE Nth(Q, r) = Nth(P, r)
    <2>1. PICK i : i = Nth(P, r)
      OBVIOUS
    <2>2. i \in P /\ Rank(P, i) = r
      BY <2>1, NthFacts
    <2>3. i \in Q /\ Rank(Q, i) = r
      BY <1>4, <2>2
    <2>4. QED
      BY <1>2, <2>1, <2>3, NthUnique
  <1>6. Rank(Q, n) = Cardinality(P) + 1
    <2>1. \A i \in Q : i <= n
      OBVIOUS
    <2>2. {j \in Q : j <= n} = Q
      BY <2>1
    <2>3. QED
      BY <1>2, <2>2 DEF Rank
  <1>7. QED
    BY <1>2, <1>5, <1>6, NthUnique

\* An element is taken out.
LEMMA NthRemove ==
  ASSUME NEW P, NEW q, NEW Q, Drops(P, q, Q)
  PROVE  /\ IsFiniteSet(Q) /\ Q \in SUBSET Nat /\ Cardinality(Q) = Cardinality(P) - 1
         /\ \A r \in 1 .. Cardinality(P) - 1 :
              Nth(Q, r) = IF r < Rank(P, q) THEN Nth(P, r) ELSE Nth(P, r + 1)
  <1> USE DEF Drops
  <1>1. IsFiniteSet(Q) /\ Cardinality(Q) = Cardinality(P) - 1 /\ Q \in SUBSET Nat
    BY FS_RemoveElement
  <1>2. Cardinality(P) \in Nat /\ Rank(P, q) \in 1 .. Cardinality(P) /\ q \in Nat
    BY NthFacts
  <1>3. ASSUME NEW i \in P, i < q PROVE i \in Q /\ Rank(Q, i) = Rank(P, i)
    <2>1. i \in Nat /\ ~(q <= i) /\ i # q
      BY <1>2, <1>3
    <2>2. {j \in Q : j <= i} = {j \in P : j <= i}
      BY <2>1
    <2>3. QED
      BY <2>1, <2>2 DEF Rank
  <1>4. ASSUME NEW i \in P, q < i PROVE i \in Q /\ Rank(Q, i) = Rank(P, i) - 1
    <2>1. i \in Nat /\ q <= i /\ i # q
      BY <1>2, <1>4
    <2>2. {j \in Q : j <= i} = Below(P, i) \ {q} /\ q \in Below(P, i)
      BY <2>1 DEF Below
    <2>3. Cardinality(Below(P, i) \ {q}) = Cardinality(Below(P, i)) - 1
      BY <2>2, BelowFinite, FS_RemoveElement
    <2>4. QED
      BY <2>1, <2>2, <2>3, BelowFinite DEF Rank
  <1>5. ASSUME NEW r \in 1 .. Cardinality(P) - 1
        PROVE  Nth(Q, r) = IF r < Rank(P, q) THEN Nth(P, r) ELSE Nth(P, r + 1)
    <2>1. CASE r < Rank(P, q)
      <3>1. PICK i : i = Nth(P, r)
        OBVIOUS
      <3>2. r \in 1 .. Cardinality(P)
        BY <1>2
      <3>3. i \in P /\ Rank(P, i) = r /\ i \in Nat
        BY <3>1, <3>2, NthFacts
      <3>4. i # q /\ ~(q < i)
        BY <1>2, <2>1, <3>3, RankGrows
      <3>5. i < q
        BY <1>2, <3>3, <3>4
      <3>6. QED
        BY <1>1, <1>3, <2>1, <3>1, <3>3, <3>5, NthUnique
    <2>2. CASE ~(r < Rank(P, q))
      <3>1. PICK i : i = Nth(P, r + 1)
        OBVIOUS
      <3>2. r + 1 \in 1 .. Cardinality(P)
        BY <1>2
      <3>3. i \in P /\ Rank(P, i) = r + 1 /\ i \in Nat
        BY <3>1, <3>2, NthFacts
      <3>4. i # q /\ ~(i < q)
        BY <1>2, <2>2, <3>3, RankGrows
      <3>5. q < i
        BY <1>2, <3>3, <3>4
      <3>6. Rank(Q, i) = r /\ i \in Q
        BY <1>4, <3>3, <3>5
      <3>7. QED
        BY <1>1, <2>2, <3>1, <3>6, NthUnique
    <2>3. QED
      BY <2>1, <2>2
  <1>6. QED
    BY <1>1, <1>5

-----------------------------------------------------------------------------
(* The entries of a table.                                                 *)

\* The slot and the entry of rank r.
SlotAt(m, r) == m.order[Nth(Listed(m), r)]
Size(m) == Cardinality(Listed(m))

\* Where a slot comes in the order.
Place(m, s) == Rank(Listed(m), m.order_position[s])

\* What is listed is what is no hole.
LEMMA ListedFacts ==
  ASSUME NEW m, Sound(m)
  PROVE  /\ Listed(m) = {i \in 0 .. m.order_len - 1 : m.order[i] # -1}
         /\ Listed(m) \in SUBSET Nat /\ IsFiniteSet(Listed(m)) /\ Size(m) \in Nat
         /\ \A i \in Listed(m) : m.order[i] \in Occupied(m) /\ m.order_position[m.order[i]] = i
         /\ \A s \in Occupied(m) : m.order_position[s] \in Listed(m) /\ m.order[m.order_position[s]] = s
  <1>1. m.order_len \in Nat /\ Slots(m) = 0 .. m.capacity - 1 /\ m.capacity \in Nat
    BY TableFacts DEF Sound
  <1>2. \A i \in 0 .. m.order_len - 1 :
          m.order[i] # -1 => m.order[i] \in Occupied(m) /\ m.order_position[m.order[i]] = i
    BY DEF Sound, OrderConsistent
  <1>3. \A s \in Occupied(m) : s >= 0 /\ m.states[s] = "occupied" /\ s # -1
    BY <1>1 DEF Occupied
  <1>4. \A s \in Occupied(m) : /\ m.order_position[s] \in 0 .. m.order_len - 1
                               /\ m.order[m.order_position[s]] = s
    BY DEF Sound, Filled, OrderConsistent
  <1>5. Listed(m) = {i \in 0 .. m.order_len - 1 : m.order[i] # -1}
    <2>1. \A i \in 0 .. m.order_len - 1 :
            (m.order[i] >= 0 /\ m.states[m.order[i]] = "occupied") <=> m.order[i] # -1
      BY <1>2, <1>3
    <2>2. QED
      BY <2>1 DEF Listed
  <1>6. Listed(m) \in SUBSET (0 .. m.order_len - 1)
    BY <1>5
  <1>7. IsFiniteSet(0 .. m.order_len - 1)
    BY <1>1, FS_Interval, SMTT(30)
  <1>8. IsFiniteSet(Listed(m)) /\ Size(m) \in Nat
    BY <1>6, <1>7, FS_Subset, FS_CardinalityType DEF Size
  <1>9. \A s \in Occupied(m) : m.order_position[s] \in Listed(m)
    BY <1>3, <1>4, <1>5
  <1>10. \A i \in Listed(m) : m.order[i] \in Occupied(m) /\ m.order_position[m.order[i]] = i
    BY <1>2, <1>5
  <1>11. Listed(m) \in SUBSET Nat
    BY <1>1, <1>6
  <1>12. QED
    BY <1>4, <1>5, <1>8, <1>9, <1>10, <1>11

\* Slots and ranks correspond to each other.
LEMMA PlaceFacts ==
  ASSUME NEW m, Sound(m)
  PROVE  /\ Size(m) \in Nat
         /\ \A r \in 1 .. Size(m) : SlotAt(m, r) \in Occupied(m) /\ Place(m, SlotAt(m, r)) = r
         /\ \A s \in Occupied(m) : Place(m, s) \in 1 .. Size(m) /\ SlotAt(m, Place(m, s)) = s
  <1> DEFINE P == Listed(m)
  <1>1. /\ P \in SUBSET Nat /\ IsFiniteSet(P) /\ Size(m) \in Nat
        /\ \A i \in P : m.order[i] \in Occupied(m) /\ m.order_position[m.order[i]] = i
        /\ \A s \in Occupied(m) : m.order_position[s] \in P /\ m.order[m.order_position[s]] = s
    BY ListedFacts
  <1>2. /\ \A r \in 1 .. Size(m) : Nth(P, r) \in P /\ Rank(P, Nth(P, r)) = r
        /\ \A i \in P : Rank(P, i) \in 1 .. Size(m) /\ Nth(P, Rank(P, i)) = i
    BY <1>1, NthFacts DEF Size
  <1>3. QED
    BY <1>1, <1>2 DEF SlotAt, Place

Entry(m, s) == [key |-> m.keys[s], value |-> m.values[s]]

\* The lists a reader of the map makes.
LEMMA EntriesFacts ==
  ASSUME NEW m, Sound(m)
  PROVE  /\ EntriesIn(m) \in Seq([key : Keys, value : Values]) /\ Len(EntriesIn(m)) = Size(m)
         /\ \A r \in 1 .. Size(m) : EntriesIn(m)[r] = Entry(m, SlotAt(m, r))
         /\ KeysIn(m) \in Seq(Keys) /\ Len(KeysIn(m)) = Size(m)
         /\ \A r \in 1 .. Size(m) : KeysIn(m)[r] = m.keys[SlotAt(m, r)]
  <1>1. LiveSlots(m) = [r \in 1 .. Size(m) |-> SlotAt(m, r)]
    BY DEF LiveSlots, Size, SlotAt
  <1>2. /\ EntriesIn(m) = [r \in 1 .. Size(m) |-> Entry(m, SlotAt(m, r))]
        /\ KeysIn(m) = [r \in 1 .. Size(m) |-> m.keys[SlotAt(m, r)]]
    BY <1>1 DEF EntriesIn, KeysIn, Entry
  <1>3. Size(m) \in Nat /\ \A r \in 1 .. Size(m) : SlotAt(m, r) \in Occupied(m)
    BY PlaceFacts
  <1>4. \A s \in Occupied(m) : m.keys[s] \in Keys /\ m.values[s] \in Values
    BY DEF Sound, Filled
  <1>5. \A r \in 1 .. Size(m) : /\ m.keys[SlotAt(m, r)] \in Keys
                                /\ Entry(m, SlotAt(m, r)) \in [key : Keys, value : Values]
    BY <1>3, <1>4 DEF Entry
  <1>6. /\ EntriesIn(m) \in Seq([key : Keys, value : Values]) /\ Len(EntriesIn(m)) = Size(m)
        /\ \A r \in 1 .. Size(m) : EntriesIn(m)[r] = Entry(m, SlotAt(m, r))
    <2>1. PICK S : S = [key : Keys, value : Values]
      OBVIOUS
    <2>2. \A r \in 1 .. Size(m) : Entry(m, SlotAt(m, r)) \in S
      BY <1>5, <2>1
    <2>3. EntriesIn(m) \in Seq(S) /\ Len(EntriesIn(m)) = Size(m)
      BY <1>2, <1>3, <2>2
    <2>4. QED
      BY <1>2, <2>1, <2>3
  <1>7. /\ KeysIn(m) \in Seq(Keys) /\ Len(KeysIn(m)) = Size(m)
        /\ \A r \in 1 .. Size(m) : KeysIn(m)[r] = m.keys[SlotAt(m, r)]
    BY <1>2, <1>3, <1>5
  <1>8. QED
    BY <1>6, <1>7

\* Tables that differ in their values and loops only.
LEMMA SameOrder ==
  ASSUME NEW m, Sound(m), NEW n, Sound(n), n.states = m.states, n.keys = m.keys,
         n.order = m.order, n.order_len = m.order_len
  PROVE  /\ Listed(n) = Listed(m) /\ Size(n) = Size(m) /\ \A r : SlotAt(n, r) = SlotAt(m, r)
         /\ KeysIn(n) = KeysIn(m)
         /\ n.values = m.values => EntriesIn(n) = EntriesIn(m)
  <1>1. Listed(n) = Listed(m)
    BY DEF Listed
  <1>2. Size(n) = Size(m) /\ \A r : SlotAt(n, r) = SlotAt(m, r)
    BY <1>1 DEF Size, SlotAt
  <1>3. LiveSlots(n) = LiveSlots(m)
    BY <1>1 DEF LiveSlots
  <1>4. QED
    BY <1>1, <1>2, <1>3 DEF KeysIn, EntriesIn

\* A value is overwritten in its place.
LEMMA UpdateEntries ==
  ASSUME NEW m, Sound(m), NEW p \in Occupied(m), NEW v \in Values, NEW n, n = [m EXCEPT !.values[p] = v]
  PROVE  /\ EntriesIn(n) = [EntriesIn(m) EXCEPT ![Place(m, p)].value = v]
         /\ KeysIn(n) = KeysIn(m) /\ Listed(n) = Listed(m)
  <1>1. Sound(n)
    BY UpdateSound
  <1>2. /\ m.values \in [Slots(m) -> Values \cup {Junk}] /\ Typed(m)
        /\ \A s \in Occupied(m) : s \in Slots(m)
    BY TableFacts DEF Sound, Occupied
  <1>3. n = [keys |-> m.keys, values |-> [m.values EXCEPT ![p] = v], states |-> m.states,
             order |-> m.order, order_position |-> m.order_position, count |-> m.count,
             capacity |-> m.capacity, order_len |-> m.order_len, iterating |-> m.iterating]
    BY <1>2 DEF Typed, Tables
  <1>4. /\ n.values = [m.values EXCEPT ![p] = v] /\ n.keys = m.keys /\ n.states = m.states
        /\ n.order = m.order /\ n.order_len = m.order_len
    BY <1>3
  <1>5. /\ Listed(n) = Listed(m) /\ Size(n) = Size(m) /\ \A r : SlotAt(n, r) = SlotAt(m, r)
        /\ KeysIn(n) = KeysIn(m)
    BY <1>1, <1>4, SameOrder, ZenonT(30)
  <1>6. PICK E, F : E = EntriesIn(m) /\ F = EntriesIn(n)
    OBVIOUS
  <1>7. ASSUME NEW r \in 1 .. Size(m)
        PROVE  F[r] = IF r = Place(m, p) THEN [E[r] EXCEPT !.value = v] ELSE E[r]
    <2>1. SlotAt(m, r) \in Slots(m) /\ (r = Place(m, p) <=> SlotAt(m, r) = p)
      BY <1>2, PlaceFacts
    <2>2. n.values[SlotAt(m, r)] = IF SlotAt(m, r) = p THEN v ELSE m.values[SlotAt(m, r)]
      BY <1>2, <1>4, <2>1
    <2>3. /\ E[r] = [key |-> m.keys[SlotAt(m, r)], value |-> m.values[SlotAt(m, r)]]
          /\ F[r] = [key |-> m.keys[SlotAt(m, r)], value |-> n.values[SlotAt(m, r)]]
      <3>1. E[r] = Entry(m, SlotAt(m, r))
        BY <1>6, EntriesFacts
      <3>2. F[r] = Entry(n, SlotAt(n, r))
        <4>1. \A q \in 1 .. Size(n) : EntriesIn(n)[q] = Entry(n, SlotAt(n, q))
          BY <1>1, EntriesFacts
        <4>2. QED
          BY <1>5, <1>6, <4>1
      <3>3. QED
        BY <1>4, <1>5, <3>1, <3>2 DEF Entry
    <2>4. QED
      BY <2>1, <2>2, <2>3
  <1>8. F = [E EXCEPT ![Place(m, p)].value = v]
    <2>1. PICK S : S = [key : Keys, value : Values]
      OBVIOUS
    <2>2. E \in Seq(S) /\ F \in Seq(S) /\ Len(E) = Size(m) /\ Len(F) = Size(m) /\ Size(m) \in Nat
      BY <1>1, <1>5, <1>6, <2>1, EntriesFacts, PlaceFacts
    <2>3. Place(m, p) \in 1 .. Size(m)
      BY PlaceFacts
    <2>4. PICK G : G = [E EXCEPT ![Place(m, p)].value = v]
      OBVIOUS
    <2>5. /\ G = [r \in 1 .. Size(m) |-> G[r]] /\ F = [r \in 1 .. Size(m) |-> F[r]]
          /\ \A r \in 1 .. Size(m) : G[r] = IF r = Place(m, p) THEN [E[r] EXCEPT !.value = v] ELSE E[r]
      <3>1. E = [r \in 1 .. Size(m) |-> E[r]] /\ F = [r \in 1 .. Size(m) |-> F[r]]
        BY <2>2
      <3>2. \A x \in 1 .. Size(m) : \A e : [E EXCEPT ![x] = e]
              = [r \in 1 .. Size(m) |-> IF r = x THEN e ELSE E[r]]
        BY <3>1
      <3>3. G = [E EXCEPT ![Place(m, p)] = [E[Place(m, p)] EXCEPT !.value = v]]
        BY <2>4
      <3>4. G = [r \in 1 .. Size(m) |-> IF r = Place(m, p) THEN [E[Place(m, p)] EXCEPT !.value = v] ELSE E[r]]
        BY <2>3, <3>2, <3>3
      <3>5. QED
        BY <3>1, <3>4
    <2>6. \A r \in 1 .. Size(m) : F[r] = G[r]
      BY <1>7, <2>5
    <2>7. F = G
      BY <2>5, <2>6
    <2>8. QED
      BY <2>4, <2>7
  <1>9. QED
    BY <1>5, <1>6, <1>8

\* A new entry comes last.
LEMMA InsertEntries ==
  ASSUME NEW m, Sound(m), NEW k \in Keys, NEW v \in Values, m.order_len < m.capacity,
         NEW p \in Slots(m), m.states[p] # "occupied", NEW n, n = map_insert_at(m, p, k, v), Sound(n)
  PROVE  /\ EntriesIn(n) = Append(EntriesIn(m), [key |-> k, value |-> v])
         /\ Listed(n) = Listed(m) \cup {m.order_len}
         /\ n.order_len = m.order_len + 1 /\ n.order[m.order_len] = p
         /\ n.keys[p] = k /\ n.values[p] = v
         /\ \A i \in 0 .. m.order_len - 1 : n.order[i] = m.order[i]
         /\ \A s \in Occupied(m) : n.keys[s] = m.keys[s] /\ n.values[s] = m.values[s]
  <1> DEFINE L == m.order_len
  <1>1. /\ m.capacity \in Nat /\ Slots(m) = 0 .. m.capacity - 1 /\ L \in Nat
        /\ m.keys \in [Slots(m) -> Keys \cup {Junk}] /\ m.values \in [Slots(m) -> Values \cup {Junk}]
        /\ m.order \in [Slots(m) -> -1 .. m.capacity - 1 \cup {Junk}]
    BY TableFacts DEF Sound
  <1>2. /\ n.keys = [m.keys EXCEPT ![p] = k] /\ n.values = [m.values EXCEPT ![p] = v]
        /\ n.order = [m.order EXCEPT ![L] = p] /\ n.order_len = L + 1
    BY DEF map_insert_at
  <1>3. \A s \in Occupied(m) : s \in Slots(m) /\ s # p
    BY DEF Occupied
  <1>4. /\ n.order[L] = p /\ n.keys[p] = k /\ n.values[p] = v
        /\ \A i \in 0 .. L - 1 : n.order[i] = m.order[i]
        /\ \A s \in Occupied(m) : n.keys[s] = m.keys[s] /\ n.values[s] = m.values[s]
    BY <1>1, <1>2, <1>3
  <1>5. Listed(n) = Listed(m) \cup {L}
    <2>1. Listed(m) = {i \in 0 .. L - 1 : m.order[i] # -1}
      BY ListedFacts
    <2>2. Listed(n) = {i \in 0 .. L : n.order[i] # -1}
      <3>1. Listed(n) = {i \in 0 .. n.order_len - 1 : n.order[i] # -1}
        BY ListedFacts
      <3>2. 0 .. n.order_len - 1 = 0 .. L
        BY <1>1, <1>2
      <3>3. QED
        BY <3>1, <3>2
    <2>3. p # -1 /\ L \in 0 .. L /\ \A i \in 0 .. L : i = L \/ i \in 0 .. L - 1
      BY <1>1
    <2>4. \A i \in 0 .. L - 1 : i \in 0 .. L /\ i # L
      BY <1>1
    <2>5. QED
      BY <1>4, <2>1, <2>2, <2>3, <2>4
  <1>6. /\ Size(n) = Size(m) + 1 /\ Nth(Listed(n), Size(m) + 1) = L
        /\ \A r \in 1 .. Size(m) : Nth(Listed(n), r) = Nth(Listed(m), r)
    <2>1. \A i \in Listed(m) : i < L
      BY <1>1, ListedFacts
    <2>2. Listed(m) \in SUBSET Nat /\ IsFiniteSet(Listed(m))
      BY ListedFacts
    <2>3. PICK P, Q : P = Listed(m) /\ Q = Listed(n)
      OBVIOUS
    <2>4. Adds(P, L, Q)
      BY <1>1, <1>5, <2>1, <2>2, <2>3 DEF Adds
    <2> HIDE DEF L
    <2>5. /\ Cardinality(Q) = Cardinality(P) + 1 /\ Nth(Q, Cardinality(P) + 1) = L
          /\ \A r \in 1 .. Cardinality(P) : Nth(Q, r) = Nth(P, r)
      BY <2>4, NthAdd
    <2>6. QED
      BY <2>3, <2>5 DEF Size
  <1>7. \A r \in 1 .. Size(m) : Nth(Listed(m), r) \in 0 .. L - 1
    <2>1. \A r \in 1 .. Size(m) : Nth(Listed(m), r) \in Listed(m)
      BY ListedFacts, NthFacts DEF Size
    <2>2. QED
      BY <2>1, ListedFacts
  <1>8. \A r \in 1 .. Size(m) : SlotAt(n, r) = SlotAt(m, r) /\ SlotAt(m, r) \in Occupied(m)
    BY <1>4, <1>6, <1>7, PlaceFacts DEF SlotAt
  <1>9. SlotAt(n, Size(m) + 1) = p
    BY <1>4, <1>6 DEF SlotAt
  <1>10. /\ \A r \in 1 .. Size(m) : Entry(n, SlotAt(n, r)) = Entry(m, SlotAt(m, r))
         /\ Entry(n, SlotAt(n, Size(m) + 1)) = [key |-> k, value |-> v]
    BY <1>4, <1>8, <1>9 DEF Entry
  <1>11. EntriesIn(n) = Append(EntriesIn(m), [key |-> k, value |-> v])
    <2>1. PICK S, e, E, F, N : /\ S = [key : Keys, value : Values] /\ e = [key |-> k, value |-> v]
                               /\ E = EntriesIn(m) /\ F = EntriesIn(n) /\ N = Size(m)
      OBVIOUS
    <2>2. /\ E \in Seq(S) /\ F \in Seq(S) /\ Len(E) = N /\ Len(F) = N + 1 /\ N \in Nat
      BY <1>6, <2>1, EntriesFacts, PlaceFacts
    <2>3. e \in S
      BY <2>1
    <2>4. F[N + 1] = e /\ \A r \in 1 .. N : F[r] = E[r]
      <3>1. \A r \in 1 .. N + 1 : F[r] = Entry(n, SlotAt(n, r))
        BY <1>6, <2>1, EntriesFacts
      <3>2. \A r \in 1 .. N : E[r] = Entry(m, SlotAt(m, r)) /\ r \in 1 .. N + 1
        BY <2>1, <2>2, EntriesFacts
      <3>3. N + 1 \in 1 .. N + 1
        BY <2>2
      <3>4. QED
        BY <1>10, <2>1, <3>1, <3>2, <3>3
    <2>5. F = Append(E, e)
      BY <2>2, <2>3, <2>4
    <2>6. QED
      BY <2>1, <2>5
  <1>12. QED
    BY <1>2, <1>4, <1>5, <1>11

\* A sequence without one of its elements.
LEMMA RemoveAtFacts ==
  ASSUME NEW S, NEW E \in Seq(S), NEW p \in 1 .. Len(E)
  PROVE  /\ RemoveAt(E, p) \in Seq(S) /\ Len(RemoveAt(E, p)) = Len(E) - 1
         /\ \A r \in 1 .. Len(E) - 1 : RemoveAt(E, p)[r] = IF r < p THEN E[r] ELSE E[r + 1]
  <1>1. PICK A, B : A = SubSeq(E, 1, p - 1) /\ B = SubSeq(E, p + 1, Len(E))
    OBVIOUS
  <1>2. /\ A \in Seq(S) /\ Len(A) = p - 1 /\ \A r \in 1 .. p - 1 : A[r] = E[r]
    BY <1>1
  <1>3. /\ B \in Seq(S) /\ Len(B) = Len(E) - p /\ \A r \in 1 .. Len(E) - p : B[r] = E[p + r]
    <2>1. PICK a \in 2 .. Len(E) + 1 : a = p + 1
      OBVIOUS
    <2>2. PICK z \in Nat : z = Len(E)
      OBVIOUS
    <2>3. \A i \in a .. z : E[i] \in S
      BY <2>1, <2>2
    <2>4. B = SubSeq(E, a, z)
      BY <1>1, <2>1, <2>2
    <2>5. /\ B \in Seq(S) /\ Len(B) = IF a <= z THEN z - a + 1 ELSE 0
          /\ \A r \in 1 .. z - a + 1 : B[r] = E[a + r - 1]
      BY <2>1, <2>2, <2>3, <2>4, SubSeqProperties
    <2>6. Len(B) = Len(E) - p /\ z - a + 1 = Len(E) - p
      BY <2>1, <2>2, <2>5
    <2>7. \A r \in 1 .. Len(E) - p : a + r - 1 = p + r
      BY <2>1
    <2>8. QED
      BY <2>5, <2>6, <2>7
  <1>4. RemoveAt(E, p) = A \o B
    BY <1>1 DEF RemoveAt
  <1>5. A \o B \in Seq(S) /\ Len(A \o B) = Len(E) - 1
    <2>1. A \o B \in Seq(S) /\ Len(A \o B) = Len(A) + Len(B)
      BY <1>2, <1>3, ConcatProperties
    <2>2. Len(E) \in Nat
      OBVIOUS
    <2>3. QED
      BY <1>2, <1>3, <2>1, <2>2
  <1>6. ASSUME NEW r \in 1 .. Len(E) - 1
        PROVE  (A \o B)[r] = IF r < p THEN E[r] ELSE E[r + 1]
    <2>1. CASE r < p
      <3>1. r \in 1 .. Len(A)
        BY <1>2, <2>1
      <3>2. (A \o B)[r] = A[r]
        BY <1>2, <1>3, <3>1
      <3>3. QED
        BY <1>2, <2>1, <3>1, <3>2
    <2>2. CASE ~(r < p)
      <3>1. r - Len(A) \in 1 .. Len(B) /\ r \in Len(A) + 1 .. Len(A) + Len(B)
        BY <1>2, <1>3, <2>2
      <3>2. (A \o B)[r] = B[r - Len(A)]
        BY <1>2, <1>3, <3>1
      <3>3. p + (r - Len(A)) = r + 1
        BY <1>2
      <3>4. QED
        BY <1>3, <2>2, <3>1, <3>2, <3>3
    <2>3. QED
      BY <2>1, <2>2
  <1>7. QED
    BY <1>4, <1>5, <1>6

\* A removed entry leaves the list, and the others keep their order.
LEMMA RemoveEntries ==
  ASSUME NEW m, Sound(m), NEW s \in Occupied(m), NEW n, n = Without(m, s), Sound(n)
  PROVE  EntriesIn(n) = RemoveAt(EntriesIn(m), Place(m, s))
  <1> DEFINE q == m.order_position[s]
             P == Listed(m)
             Q == Listed(n)
  <1>1. /\ m.capacity \in Nat /\ Slots(m) = 0 .. m.capacity - 1 /\ m.order_len \in 0 .. m.capacity
        /\ m.keys \in [Slots(m) -> Keys \cup {Junk}] /\ m.values \in [Slots(m) -> Values \cup {Junk}]
        /\ m.order \in [Slots(m) -> -1 .. m.capacity - 1 \cup {Junk}]
    BY TableFacts DEF Sound
  <1>2. /\ s \in Slots(m) /\ q \in 0 .. m.order_len - 1 /\ m.order[q] = s /\ q \in P
    BY ListedFacts DEF Occupied, Sound, Filled
  <1>3. /\ n.keys = [m.keys EXCEPT ![s] = Junk] /\ n.values = [m.values EXCEPT ![s] = Junk]
        /\ n.order = [m.order EXCEPT ![q] = -1] /\ n.order_len = m.order_len
    BY <1>2 DEF Without
  <1>4. /\ n.order[q] = -1 /\ \A i \in 0 .. m.order_len - 1 : i # q => n.order[i] = m.order[i]
        /\ \A t \in Slots(m) : t # s => n.keys[t] = m.keys[t] /\ n.values[t] = m.values[t]
    BY <1>1, <1>2, <1>3, SMTT(30)
  <1>5. Drops(P, q, Q)
    <2>1. /\ P = {i \in 0 .. m.order_len - 1 : m.order[i] # -1} /\ P \in SUBSET Nat /\ IsFiniteSet(P)
      BY ListedFacts
    <2>2. Q = {i \in 0 .. n.order_len - 1 : n.order[i] # -1}
      BY ListedFacts
    <2>3. Q = P \ {q}
      BY <1>3, <1>4, <2>1, <2>2
    <2>4. QED
      BY <1>2, <2>1, <2>3 DEF Drops
  <1>6. \A i \in P : i \in 0 .. m.order_len - 1
    BY ListedFacts
  <1>7. Size(m) = Cardinality(P) /\ Size(n) = Cardinality(Q) /\ Place(m, s) = Rank(P, q)
    BY DEF Size, Place
  <1>8. \A r \in 1 .. Size(m) : SlotAt(m, r) = m.order[Nth(P, r)]
    BY DEF SlotAt
  <1>9. \A r \in 1 .. Size(n) : SlotAt(n, r) = n.order[Nth(Q, r)]
    BY DEF SlotAt
  <1> HIDE DEF P, Q, q
  <1>10. /\ Size(m) \in Nat /\ Size(n) = Size(m) - 1 /\ Place(m, s) \in 1 .. Size(m)
         /\ \A r \in 1 .. Size(n) :
              Nth(Q, r) = IF r < Place(m, s) THEN Nth(P, r) ELSE Nth(P, r + 1)
    BY <1>5, <1>7, NthRemove, PlaceFacts
  <1>11. /\ P \in SUBSET Nat /\ IsFiniteSet(P) /\ Q \in SUBSET Nat /\ IsFiniteSet(Q)
         /\ \A i \in Q : i \in P /\ i # q
    BY <1>5, NthRemove DEF Drops
  <1>12. ASSUME NEW r \in 1 .. Size(n)
         PROVE  EntriesIn(n)[r] = EntriesIn(m)[IF r < Place(m, s) THEN r ELSE r + 1]
    <2>1. PICK u : u = IF r < Place(m, s) THEN r ELSE r + 1
      OBVIOUS
    <2>2. u \in 1 .. Size(m) /\ Nth(Q, r) = Nth(P, u)
      BY <1>10, <2>1
    <2>3. Nth(Q, r) \in Q
      BY <1>7, <1>11, NthFacts
    <2>4. SlotAt(n, r) = SlotAt(m, u)
      BY <1>4, <1>6, <1>8, <1>9, <1>11, <2>2, <2>3
    <2>5. SlotAt(m, u) \in Slots(m) /\ SlotAt(m, u) # s
      <3>1. SlotAt(m, u) \in Occupied(m)
        BY <2>2, PlaceFacts
      <3>2. m.order_position[SlotAt(m, u)] = Nth(Q, r)
        <4>1. \A i \in P : m.order_position[m.order[i]] = i
          BY ListedFacts DEF P
        <4>2. Nth(P, u) \in P /\ SlotAt(m, u) = m.order[Nth(P, u)]
          BY <1>8, <1>11, <2>2, <2>3
        <4>3. QED
          BY <2>2, <4>1, <4>2
      <3>3. Nth(Q, r) # m.order_position[s]
        BY <1>11, <2>3 DEF q
      <3>4. SlotAt(m, u) # s
        BY <3>2, <3>3
      <3>5. QED
        BY <3>1, <3>4 DEF Occupied
    <2>6. Entry(n, SlotAt(n, r)) = Entry(m, SlotAt(m, u))
      BY <1>4, <2>4, <2>5 DEF Entry
    <2>7. EntriesIn(n)[r] = Entry(n, SlotAt(n, r))
      BY EntriesFacts
    <2>8. EntriesIn(m)[u] = Entry(m, SlotAt(m, u))
      BY <2>2, EntriesFacts
    <2>9. QED
      BY <2>1, <2>6, <2>7, <2>8
  <1>13. PICK S, E, F, G : /\ S = [key : Keys, value : Values] /\ E = EntriesIn(m) /\ F = EntriesIn(n)
                           /\ G = RemoveAt(E, Place(m, s))
    OBVIOUS
  <1>14. E \in Seq(S) /\ Len(E) = Size(m)
    BY <1>13, EntriesFacts
  <1>15. F \in Seq(S) /\ Len(F) = Size(n)
    BY <1>13, EntriesFacts
  <1>16. /\ G \in Seq(S) /\ Len(G) = Size(m) - 1
         /\ \A r \in 1 .. Size(m) - 1 : G[r] = IF r < Place(m, s) THEN E[r] ELSE E[r + 1]
    BY <1>10, <1>13, <1>14, RemoveAtFacts, ZenonT(30)
  <1>17. \A r \in 1 .. Size(n) : F[r] = G[r]
    BY <1>10, <1>12, <1>13, <1>16
  <1>18. F = G
    BY <1>10, <1>15, <1>16, <1>17, SeqEqual
  <1>19. QED
    BY <1>13, <1>18

\* A new table has none.
LEMMA NewEntries ==
  ASSUME NEW c \in Int, NEW n, n = gray_map_new_kind(c)
  PROVE  EntriesIn(n) = <<>> /\ Listed(n) = {}
  <1>1. Sound(n) /\ n.order_len = 0
    BY NewSound
  <1>2. Listed(n) = {}
    BY <1>1 DEF Listed
  <1>3. Size(n) = 0
    BY <1>2, FS_EmptySet DEF Size
  <1>4. EntriesIn(n) \in Seq([key : Keys, value : Values]) /\ Len(EntriesIn(n)) = 0
    BY <1>1, <1>3, EntriesFacts
  <1>5. PICK S, E : S = [key : Keys, value : Values] /\ E = EntriesIn(n)
    OBVIOUS
  <1>6. E = <<>>
    BY <1>4, <1>5
  <1>7. QED
    BY <1>2, <1>5, <1>6

-----------------------------------------------------------------------------
(* Rebuilds and loops in terms of the entries.                             *)

\* The entries of order before x.
Before(o, x) == {j \in Listed(o) : j < x}

\* The table n holds what the table o lists before x.
Refills(n, o, x) ==
  /\ Size(n) = Cardinality(Before(o, x))
  /\ \A r \in 1 .. Size(n) : EntriesIn(n)[r] = EntriesIn(o)[r]

Refilled == Rebuilding => Refills(map, rebuild.old, rebuild.next)

\* A loop has visited the first keys of those it began with.
Follows(m, l) ==
  /\ KeysIn(m) = l.start
  /\ Len(l.visited) = Cardinality(Before(m, l.index))
  /\ \A r \in 1 .. Len(l.visited) : l.visited[r] = l.start[r]

LoopsFollow == \A i \in DOMAIN loops : loops[i].over = "label" => Follows(map, loops[i])

\* What comes before the ends, and before the next entry of order.
LEMMA BeforeFacts ==
  ASSUME NEW o, Sound(o)
  PROVE  /\ Before(o, 0) = {} /\ Before(o, o.order_len) = Listed(o)
         /\ \A x \in Nat : Cardinality(Before(o, x)) \in Nat /\ Cardinality(Before(o, x)) <= Size(o)
         /\ \A x \in Listed(o) : /\ Rank(Listed(o), x) = Cardinality(Before(o, x)) + 1
                                 /\ Cardinality(Before(o, x + 1)) = Cardinality(Before(o, x)) + 1
         /\ \A x \in Nat : x \notin Listed(o) => Before(o, x + 1) = Before(o, x)
  <1> DEFINE P == Listed(o)
  <1>1. /\ P \in SUBSET Nat /\ IsFiniteSet(P) /\ o.order_len \in Nat
        /\ \A i \in P : i \in Nat /\ i < o.order_len
    BY ListedFacts, TableFacts DEF Sound
  <1>2. \A x : Before(o, x) = {j \in P : j < x}
    BY DEF Before
  <1>3. Size(o) = Cardinality(P)
    BY DEF Size
  <1> HIDE DEF P
  <1>4. Before(o, 0) = {} /\ Before(o, o.order_len) = P
    <2>1. \A i \in P : ~(i < 0) /\ i < o.order_len
      BY <1>1
    <2>2. Before(o, 0) = {j \in P : j < 0} /\ Before(o, o.order_len) = {j \in P : j < o.order_len}
      BY <1>2
    <2>3. QED
      BY <2>1, <2>2
  <1>5. ASSUME NEW x \in Nat
        PROVE  /\ IsFiniteSet(Before(o, x)) /\ Before(o, x) \in SUBSET P
               /\ Cardinality(Before(o, x)) \in Nat /\ Cardinality(Before(o, x)) <= Size(o)
    <2>1. Before(o, x) \in SUBSET P
      BY <1>2
    <2>2. QED
      BY <1>1, <1>3, <2>1, FS_Subset, FS_CardinalityType
  <1>6. ASSUME NEW x \in P
        PROVE  /\ Rank(P, x) = Cardinality(Before(o, x)) + 1
               /\ Cardinality(Before(o, x + 1)) = Cardinality(Before(o, x)) + 1
    <2>1. x \in Nat /\ x \notin Before(o, x) /\ \A i \in P : i <= x <=> i \in Before(o, x) \/ i = x
      BY <1>1, <1>2
    <2>2. Before(o, x) \in SUBSET P /\ IsFiniteSet(Before(o, x))
      BY <1>5, <2>1
    <2>3. Rank(P, x) = Cardinality(Before(o, x)) + 1
      BY <1>1, <2>1, <2>2, RankNext
    <2>4. Before(o, x + 1) = Before(o, x) \cup {x}
      <3>1. \A i \in P : i < x + 1 <=> i < x \/ i = x
        BY <1>1, <2>1
      <3>2. Before(o, x) = {j \in P : j < x} /\ Before(o, x + 1) = {j \in P : j < x + 1}
        BY <1>2
      <3>3. QED
        BY <3>1, <3>2
    <2>5. Cardinality(Before(o, x + 1)) = Cardinality(Before(o, x)) + 1
      BY <2>1, <2>2, <2>4, FS_AddElement
    <2>6. QED
      BY <2>3, <2>5
  <1>7. ASSUME NEW x \in Nat, x \notin P PROVE Before(o, x + 1) = Before(o, x)
    <2>1. \A i \in P : i < x + 1 <=> i < x
      BY <1>1, <1>7
    <2>2. Before(o, x) = {j \in P : j < x} /\ Before(o, x + 1) = {j \in P : j < x + 1}
      BY <1>2
    <2>3. QED
      BY <2>1, <2>2
  <1>8. QED
    BY <1>4, <1>5, <1>6, <1>7 DEF P

\* An entry is updated where it is or added at the end.
Puts(E, F, k, v) ==
  \/ \E p \in DOMAIN E : keys_equal(E[p].key, k) /\ F = [E EXCEPT ![p].value = v]
  \/ /\ \A r \in DOMAIN E : ~keys_equal(E[r].key, k)
     /\ F = Append(E, [key |-> k, value |-> v])

\* A key of the list is a key of an occupied slot.
LEMMA ListedKey ==
  ASSUME NEW m, Sound(m)
  PROVE  /\ DOMAIN EntriesIn(m) = 1 .. Size(m)
         /\ \A s \in Occupied(m) : /\ Place(m, s) \in DOMAIN EntriesIn(m)
                                   /\ EntriesIn(m)[Place(m, s)].key = m.keys[s]
         /\ \A r \in DOMAIN EntriesIn(m) : /\ SlotAt(m, r) \in Occupied(m)
                                           /\ EntriesIn(m)[r].key = m.keys[SlotAt(m, r)]
  <1>1. /\ DOMAIN EntriesIn(m) = 1 .. Size(m)
        /\ \A r \in 1 .. Size(m) : EntriesIn(m)[r].key = m.keys[SlotAt(m, r)]
    <2>1. /\ DOMAIN EntriesIn(m) = 1 .. Size(m)
          /\ \A r \in 1 .. Size(m) : EntriesIn(m)[r] = Entry(m, SlotAt(m, r))
      BY EntriesFacts
    <2>2. QED
      BY <2>1 DEF Entry
  <1>2. QED
    BY <1>1, PlaceFacts

\* The probe loop of gray_map_set, seen from the list.
LEMMA WriteEntries ==
  ASSUME seed \in [Keys -> Hashes], NEW m, Sound(m), NEW k \in Keys, NEW v \in Values,
         m.order_len < m.capacity, NEW n, n = Write(m, k, v)
  PROVE  /\ Puts(EntriesIn(m), EntriesIn(n), k, v)
         /\ (\A s \in Occupied(m) : ~keys_equal(m.keys[s], k)) =>
              EntriesIn(n) = Append(EntriesIn(m), [key |-> k, value |-> v])
  <1>1. Sound(n)
    BY WriteSound
  <1>2. CASE \E p \in Occupied(m) : keys_equal(m.keys[p], k) /\ n = [m EXCEPT !.values[p] = v]
    <2>1. PICK p \in Occupied(m) : keys_equal(m.keys[p], k) /\ n = [m EXCEPT !.values[p] = v]
      BY <1>2
    <2>2. EntriesIn(n) = [EntriesIn(m) EXCEPT ![Place(m, p)].value = v]
      BY <2>1, UpdateEntries
    <2>3. Place(m, p) \in DOMAIN EntriesIn(m) /\ keys_equal(EntriesIn(m)[Place(m, p)].key, k)
      BY <2>1, ListedKey
    <2>4. QED
      BY <2>1, <2>2, <2>3 DEF Puts
  <1>3. CASE /\ \A s \in Occupied(m) : ~keys_equal(m.keys[s], k)
             /\ \E p \in Slots(m), i \in Nat : GoesTo(m, k, p, i) /\ n = map_insert_at(m, p, k, v)
    <2>1. PICK p \in Slots(m), i \in Nat : GoesTo(m, k, p, i) /\ n = map_insert_at(m, p, k, v)
      BY <1>3
    <2>2. EntriesIn(n) = Append(EntriesIn(m), [key |-> k, value |-> v])
      <3>1. m.states[p] # "occupied" /\ n = map_insert_at(m, p, k, v)
        BY <2>1 DEF GoesTo
      <3>2. QED
        BY <1>1, <3>1, InsertEntries
    <2>3. \A r \in DOMAIN EntriesIn(m) : ~keys_equal(EntriesIn(m)[r].key, k)
      BY <1>3, ListedKey
    <2>4. QED
      BY <2>2, <2>3 DEF Puts
  <1>4. QED
    BY <1>2, <1>3, WriteCases

\* One more entry is taken over.
LEMMA RefillEntry ==
  ASSUME seed \in [Keys -> Hashes], NEW m, Sound(m), m.order_len < m.capacity,
         NEW o, Sound(o), NEW x \in Listed(o), Refills(m, o, x),
         NEW n, n = Write(m, o.keys[o.order[x]], o.values[o.order[x]])
  PROVE  Refills(n, o, x + 1)
  <1>1. PICK t : t = o.order[x]
    OBVIOUS
  <1>2. /\ t \in Occupied(o) /\ o.order_position[t] = x
        /\ o.keys[t] \in Keys /\ o.values[t] \in Values
    BY <1>1, ListedFacts DEF Sound, Filled
  <1>3. /\ Place(o, t) = Size(m) + 1 /\ Size(m) + 1 = Cardinality(Before(o, x + 1))
        /\ Place(o, t) \in 1 .. Size(o) /\ SlotAt(o, Place(o, t)) = t
        /\ Size(m) \in Nat /\ Size(o) \in Nat
    <2>1. Place(o, t) = Rank(Listed(o), x)
      BY <1>2 DEF Place
    <2>2. Size(m) = Cardinality(Before(o, x))
      BY DEF Refills
    <2>3. QED
      BY <1>2, <2>1, <2>2, BeforeFacts, PlaceFacts
  <1>4. \A r \in 1 .. Size(m) : r \in 1 .. Size(o) /\ EntriesIn(m)[r] = EntriesIn(o)[r]
    BY <1>3 DEF Refills
  <1>5. \A s \in Occupied(m) : ~keys_equal(m.keys[s], o.keys[t])
    <2> SUFFICES ASSUME NEW s \in Occupied(m), keys_equal(m.keys[s], o.keys[t]) PROVE FALSE
      OBVIOUS
    <2>1. PICK r : r = Place(m, s)
      OBVIOUS
    <2>2. r \in 1 .. Size(m) /\ EntriesIn(m)[r].key = m.keys[s]
      BY <2>1, ListedKey
    <2>3. SlotAt(o, r) \in Occupied(o) /\ m.keys[s] = o.keys[SlotAt(o, r)]
      <3>1. r \in DOMAIN EntriesIn(o)
        BY <1>4, <2>2, ListedKey
      <3>2. /\ SlotAt(o, r) \in Occupied(o)
            /\ EntriesIn(o)[r].key = o.keys[SlotAt(o, r)]
        BY <3>1, ListedKey
      <3>3. QED
        BY <1>4, <2>2, <3>2
    <2>4. SlotAt(o, r) = t
      BY <1>2, <2>3 DEF Sound, Distinct
    <2>5. Place(o, SlotAt(o, r)) = r
      BY <1>4, <2>2, PlaceFacts
    <2>6. QED
      BY <1>3, <2>2, <2>4, <2>5
  <1>6. PICK e : e = [key |-> o.keys[t], value |-> o.values[t]]
    OBVIOUS
  <1>7. EntriesIn(n) = Append(EntriesIn(m), e) /\ Sound(n)
    BY <1>1, <1>2, <1>5, <1>6, WriteEntries, WriteSound
  <1>8. EntriesIn(o)[Size(m) + 1] = e
    BY <1>3, <1>6, EntriesFacts DEF Entry
  <1>9. PICK S, E, F : /\ S = [key : Keys, value : Values] /\ E = EntriesIn(m) /\ F = EntriesIn(n)
    OBVIOUS
  <1>10. /\ E \in Seq(S) /\ Len(E) = Size(m)
    BY <1>9, EntriesFacts
  <1>11. /\ Len(F) = Size(n)
    BY <1>7, <1>9, EntriesFacts
  <1>12. e \in S
    BY <1>2, <1>6, <1>9
  <1>13. /\ Len(F) = Size(m) + 1 /\ F[Size(m) + 1] = e /\ \A r \in 1 .. Size(m) : F[r] = E[r]
    BY <1>3, <1>7, <1>9, <1>10, <1>12
  <1>14. \A r \in 1 .. Size(m) + 1 : EntriesIn(n)[r] = EntriesIn(o)[r]
    <2>1. \A r \in 1 .. Size(m) + 1 : r = Size(m) + 1 \/ r \in 1 .. Size(m)
      BY <1>3
    <2>2. QED
      BY <1>4, <1>8, <1>9, <1>13, <2>1
  <1>15. QED
    BY <1>3, <1>11, <1>13, <1>14 DEF Refills

\* When all has been taken over, the tables hold the same list.
LEMMA RefillEnds ==
  ASSUME NEW m, Sound(m), NEW o, Sound(o), Refills(m, o, o.order_len)
  PROVE  EntriesIn(m) = EntriesIn(o)
  <1>1. Size(m) = Size(o)
    BY BeforeFacts DEF Refills, Size
  <1>2. PICK S, E, F : /\ S = [key : Keys, value : Values] /\ E = EntriesIn(m) /\ F = EntriesIn(o)
    OBVIOUS
  <1>3. E \in Seq(S) /\ Len(E) = Size(m)
    BY <1>2, EntriesFacts
  <1>4. F \in Seq(S) /\ Len(F) = Size(m)
    BY <1>1, <1>2, EntriesFacts
  <1>5. \A r \in 1 .. Size(m) : E[r] = F[r]
    BY <1>2 DEF Refills
  <1>6. E = F
    BY <1>3, <1>4, <1>5, SeqEqual
  <1>7. QED
    BY <1>2, <1>6

-----------------------------------------------------------------------------
(* Steps of the map as steps of OrderedMap.                                *)

OrderInv == MapInv /\ Refilled /\ LoopsFollow

Simulates == Ordered!Next \/ UNCHANGED Ordered!vars

\* A step of which an observer of the list sees nothing.
LEMMA UnseenStep ==
  ASSUME EntriesIn(Whole') = EntriesIn(Whole), map'.iterating = map.iterating, panicked' = panicked
  PROVE  Simulates
  BY DEF Simulates, Ordered!vars

\* A refusal.
LEMMA RefuseStep ==
  ASSUME panicked = "none", map.iterating > 0, Panic("P0035")
  PROVE  Simulates
  <1>1. EntriesIn(Whole') = EntriesIn(Whole)
    BY DEF Panic, Whole, Rebuilding
  <1>2. Ordered!Refuse
    BY <1>1 DEF Panic, Ordered!Refuse, Ordered!Panic
  <1>3. QED
    BY <1>2 DEF Simulates, Ordered!Next

\* The list is put to.
LEMMA PutStep ==
  ASSUME panicked = "none", panicked' = panicked, map'.iterating = map.iterating,
         NEW k \in Keys, NEW v \in Values, NEW E, NEW F, E = EntriesIn(Whole), F = EntriesIn(Whole'),
         Puts(E, F, k, v),
         map.iterating = 0 \/ \E p \in DOMAIN E : keys_equal(E[p].key, k)
  PROVE  Simulates
  <1>1. Ordered!Position(k) = {i \in DOMAIN E : keys_equal(E[i].key, k)}
    BY DEF Ordered!Position, Ordered!Same, keys_equal
  <1>2. CASE \E p \in DOMAIN E : keys_equal(E[p].key, k) /\ F = [E EXCEPT ![p].value = v]
    <2>1. Ordered!Update(k, v)
      BY <1>1, <1>2 DEF Ordered!Update
    <2>2. QED
      BY <2>1 DEF Simulates, Ordered!Next
  <1>3. CASE /\ \A r \in DOMAIN E : ~keys_equal(E[r].key, k)
             /\ F = Append(E, [key |-> k, value |-> v])
    <2>1. Ordered!Insert(k, v)
      BY <1>1, <1>3 DEF Ordered!Insert
    <2>2. QED
      BY <2>1 DEF Simulates, Ordered!Next
  <1>4. QED
    BY <1>2, <1>3 DEF Puts

\* An entry is deleted.
LEMMA DeleteStep ==
  ASSUME panicked = "none", panicked' = panicked, map'.iterating = map.iterating, map.iterating = 0,
         NEW k \in Keys, NEW E, NEW F, E = EntriesIn(Whole), F = EntriesIn(Whole'),
         NEW p \in DOMAIN E, keys_equal(E[p].key, k), F = RemoveAt(E, p)
  PROVE  Simulates
  <1>1. p \in Ordered!Position(k)
    BY DEF Ordered!Position, Ordered!Same, keys_equal
  <1>2. Ordered!Delete(k)
    BY <1>1 DEF Ordered!Delete, Ordered!RemoveAt, RemoveAt
  <1>3. QED
    BY <1>2 DEF Simulates, Ordered!Next

\* All entries are.
LEMMA EmptyStep ==
  ASSUME panicked = "none", panicked' = panicked, map'.iterating = map.iterating, map.iterating = 0,
         EntriesIn(Whole') = <<>>
  PROVE  Simulates
  <1>1. Ordered!Clear
    BY DEF Ordered!Clear
  <1>2. QED
    BY <1>1 DEF Simulates, Ordered!Next

\* Which table the list is read from.
LEMMA WholeFacts ==
  /\ rebuild = NoRebuild => Whole = map /\ ~Rebuilding
  /\ rebuild' = NoRebuild => Whole' = map' /\ ~Rebuilding'
  /\ Rebuilding => Whole = rebuild.old
  /\ Rebuilding' => Whole' = rebuild'.old
  BY DEF Whole, Rebuilding, NoRebuild

\* The loops go on as before, where the order does or nothing guards it.
LEMMA FollowKept ==
  ASSUME MapInv, LoopsFollow, loops' = loops, NEW n, map' = n,
         map.iterating = 0 \/ (KeysIn(n) = KeysIn(map) /\ Listed(n) = Listed(map))
  PROVE  LoopsFollow'
  <1>1. CASE map.iterating = 0
    <2>1. Labels = {}
      BY <1>1, LoopFacts DEF MapInv
    <2>2. QED
      BY <2>1 DEF Labels, LoopsFollow
  <1>2. CASE KeysIn(n) = KeysIn(map) /\ Listed(n) = Listed(map)
    <2>1. \A l : Follows(map, l) => Follows(n, l)
      BY <1>2 DEF Follows, Before
    <2>2. QED
      BY <2>1 DEF LoopsFollow
  <1>3. QED
    BY <1>1, <1>2

Preserved == Refilled' /\ LoopsFollow' /\ Simulates

\* A panic.
LEMMA OrderPanic ==
  ASSUME OrderInv, panicked = "none", map.iterating > 0, Panic("P0035")
  PROVE  Preserved
  <1>1. UNCHANGED <<seed, map, rebuild, loops>>
    BY DEF Panic
  <1>2. Refilled' /\ LoopsFollow'
    BY <1>1 DEF OrderInv, Refilled, Rebuilding, LoopsFollow
  <1>3. QED
    BY <1>2, RefuseStep DEF Preserved

\* gray_map_set without a rebuild, where order has room, and the update it makes
\* while a loop runs.
LEMMA OrderSet ==
  ASSUME OrderInv, rebuild = NoRebuild, panicked = "none", NEW k \in Keys, NEW v \in Values,
         gray_map_set(k, v)
  PROVE  Preserved
  <1>1. /\ seed \in [Keys -> Hashes] /\ Sound(map) /\ map.iterating \in Nat
        /\ map.order_len \in Nat /\ map.capacity \in Nat
    BY TableFacts DEF OrderInv, MapInv, Sound
  <1>2. CASE map.iterating > 0 /\ Panic("P0035")
    BY <1>2, OrderPanic
  <1>3. CASE /\ map.iterating > 0 /\ find_slot(map, k) >= 0
             /\ map' = [map EXCEPT !.values[find_slot(map, k)] = v]
             /\ UNCHANGED <<seed, rebuild, loops, panicked>>
    <2>1. PICK e : e = find_slot(map, k)
      OBVIOUS
    <2>2. e \in Occupied(map) /\ keys_equal(map.keys[e], k)
      BY <1>1, <1>3, <2>1, FindFacts
    <2>3. PICK m : m = map
      OBVIOUS
    <2>4. PICK n : n = [m EXCEPT !.values[e] = v]
      OBVIOUS
    <2>5. map' = n /\ rebuild' = NoRebuild /\ panicked' = panicked /\ loops' = loops
      BY <1>3, <2>1, <2>3, <2>4
    <2>6. /\ EntriesIn(n) = [EntriesIn(m) EXCEPT ![Place(m, e)].value = v]
          /\ KeysIn(n) = KeysIn(m) /\ Listed(n) = Listed(m)
      BY <1>1, <2>2, <2>3, <2>4, UpdateEntries
    <2>7. n.iterating = m.iterating
      BY <1>1, <2>2, <2>3, <2>4, UpdateSound
    <2>8. PICK E, F : E = EntriesIn(m) /\ F = EntriesIn(n)
      OBVIOUS
    <2>9. E = EntriesIn(Whole) /\ F = EntriesIn(Whole')
      BY <2>3, <2>5, <2>8, WholeFacts
    <2>10. /\ Place(m, e) \in DOMAIN E /\ keys_equal(E[Place(m, e)].key, k)
           /\ F = [E EXCEPT ![Place(m, e)].value = v]
      BY <1>1, <2>2, <2>3, <2>6, <2>8, ListedKey
    <2>11. Puts(E, F, k, v) /\ \E p \in DOMAIN E : keys_equal(E[p].key, k)
      BY <2>10 DEF Puts
    <2>12. Simulates
      BY <2>3, <2>5, <2>7, <2>9, <2>11, PutStep
    <2>13. Refilled' /\ LoopsFollow'
      BY <2>3, <2>5, <2>6, WholeFacts, FollowKept DEF OrderInv, Refilled
    <2>14. QED
      BY <2>12, <2>13 DEF Preserved
  <1>4. ASSUME NEW c, map.iterating = 0, map_rebuild(c, k, v), c \in Nat,
               UNCHANGED <<seed, loops, panicked>>
        PROVE  Preserved
    <2>1. PICK m : m = map
      OBVIOUS
    <2>2. PICK n : n = gray_map_new_kind(c)
      OBVIOUS
    <2>3. /\ map' = n /\ rebuild'.old = m /\ rebuild'.next = 0 /\ rebuild'.key = k
      BY <1>4, <2>1, <2>2 DEF map_rebuild
    <2>4. Rebuilding' /\ Whole' = m /\ Whole = m
      BY <2>1, <2>3, WholeFacts, MapAssumption DEF Rebuilding
    <2>5. Listed(n) = {} /\ n.iterating = 0
      BY <1>4, <2>2, NewEntries, NewSound
    <2>6. Refills(n, m, 0)
      <3>1. Size(n) = 0
        BY <2>5, FS_EmptySet DEF Size
      <3>2. Cardinality(Before(m, 0)) = 0
        BY <1>1, <2>1, BeforeFacts, FS_EmptySet
      <3>3. QED
        BY <3>1, <3>2 DEF Refills
    <2>7. Refilled'
      BY <2>3, <2>6 DEF Refilled
    <2>8. LoopsFollow'
      BY <1>4, <2>3, FollowKept DEF OrderInv
    <2>9. Simulates
      BY <1>4, <2>3, <2>4, <2>5, UnseenStep
    <2>10. QED
      BY <2>7, <2>8, <2>9 DEF Preserved
  <1>5. CASE /\ map.iterating = 0 /\ ~IsOrderFull(map) /\ map' = Write(map, k, v)
             /\ UNCHANGED <<seed, rebuild, loops, panicked>>
    <2>1. PICK m : m = map
      OBVIOUS
    <2>2. PICK n : n = Write(m, k, v)
      OBVIOUS
    <2>3. map' = n /\ rebuild' = NoRebuild /\ panicked' = panicked /\ loops' = loops
      BY <1>5, <2>1, <2>2
    <2>4. m.order_len < m.capacity
      BY <1>1, <1>5, <2>1 DEF IsOrderFull
    <2>5. n.iterating = m.iterating
      BY <1>1, <2>1, <2>2, <2>4, WriteSound
    <2>6. PICK E, F : E = EntriesIn(m) /\ F = EntriesIn(n)
      OBVIOUS
    <2>7. Puts(E, F, k, v)
      BY <1>1, <2>1, <2>2, <2>4, <2>6, WriteEntries
    <2>8. E = EntriesIn(Whole) /\ F = EntriesIn(Whole')
      BY <2>1, <2>3, <2>6, WholeFacts
    <2>9. Simulates
      BY <1>5, <2>1, <2>3, <2>5, <2>7, <2>8, PutStep
    <2>10. Refilled' /\ LoopsFollow'
      BY <1>5, <2>3, WholeFacts, FollowKept DEF OrderInv, Refilled
    <2>11. QED
      BY <2>9, <2>10 DEF Preserved
  <1>6. map.capacity * 2 \in Nat
    BY <1>1
  <1>7. QED
    BY <1>1, <1>2, <1>3, <1>4, <1>5, <1>6 DEF gray_map_set

\* gray_map_remove.
LEMMA OrderRemove ==
  ASSUME OrderInv, rebuild = NoRebuild, panicked = "none", NEW k \in Keys, gray_map_remove(k)
  PROVE  Preserved
  <1>1. seed \in [Keys -> Hashes] /\ Sound(map)
    BY DEF OrderInv, MapInv
  <1>2. CASE map.iterating > 0 /\ Panic("P0035")
    BY <1>2, OrderPanic
  <1>3. CASE /\ map.iterating = 0
             /\ map' = IF find_slot(map, k) < 0 THEN map ELSE Without(map, find_slot(map, k))
             /\ UNCHANGED <<seed, rebuild, loops, panicked>>
    <2>1. PICK m, s : m = map /\ s = find_slot(map, k)
      OBVIOUS
    <2>2. PICK n : n = IF s < 0 THEN m ELSE Without(m, s)
      OBVIOUS
    <2>3. map' = n /\ rebuild' = NoRebuild /\ panicked' = panicked /\ loops' = loops
      BY <1>3, <2>1, <2>2
    <2>4. Refilled' /\ LoopsFollow'
      BY <1>3, <2>3, WholeFacts, FollowKept DEF OrderInv, Refilled
    <2>5. Whole = m /\ Whole' = n
      BY <2>1, <2>3, WholeFacts
    <2>6. CASE s < 0
      <3>1. n = m
        BY <2>2, <2>6
      <3>2. Simulates
        BY <2>1, <2>3, <2>5, <3>1, UnseenStep
      <3>3. QED
        BY <2>4, <3>2 DEF Preserved
    <2>7. CASE ~(s < 0)
      <3>1. s \in Occupied(m) /\ keys_equal(m.keys[s], k)
        BY <1>1, <2>1, <2>7, FindFacts
      <3>2. n = Without(m, s)
        BY <2>2, <2>7
      <3>3. Sound(n) /\ n.iterating = m.iterating
        BY <1>1, <2>1, <3>1, <3>2, RemoveSound
      <3>4. PICK E, F : E = EntriesIn(m) /\ F = EntriesIn(n)
        OBVIOUS
      <3>5. F = RemoveAt(E, Place(m, s))
        BY <1>1, <2>1, <3>1, <3>2, <3>3, <3>4, RemoveEntries
      <3>6. Place(m, s) \in DOMAIN E /\ keys_equal(E[Place(m, s)].key, k)
        BY <1>1, <2>1, <3>1, <3>4, ListedKey
      <3>7. PICK p : p = Place(m, s)
        OBVIOUS
      <3>8. Simulates
        BY <1>3, <2>1, <2>3, <2>5, <3>3, <3>4, <3>5, <3>6, <3>7, DeleteStep
      <3>9. QED
        BY <2>4, <3>8 DEF Preserved
    <2>8. QED
      BY <2>6, <2>7
  <1>4. QED
    BY <1>2, <1>3 DEF gray_map_remove

\* The map becomes a new one.
LEMMA OrderRenew ==
  ASSUME OrderInv, rebuild = NoRebuild, panicked = "none", map.iterating = 0,
         NEW c \in Int, map' = gray_map_new_kind(c), UNCHANGED <<seed, rebuild, loops, panicked>>
  PROVE  Preserved
  <1>1. PICK n : n = gray_map_new_kind(c)
    OBVIOUS
  <1>2. map' = n /\ rebuild' = NoRebuild
    BY <1>1
  <1>3. EntriesIn(n) = <<>> /\ n.iterating = 0
    BY <1>1, NewEntries, NewSound
  <1>4. Simulates
    BY <1>2, <1>3, WholeFacts, EmptyStep
  <1>5. Refilled' /\ LoopsFollow'
    BY <1>2, WholeFacts, FollowKept DEF OrderInv, Refilled
  <1>6. QED
    BY <1>4, <1>5 DEF Preserved

\* gray_map_clear and an assignment.
LEMMA OrderClear ==
  ASSUME OrderInv, rebuild = NoRebuild, panicked = "none",
         gray_map_clear \/ \E c \in Hints : Assign(c)
  PROVE  Preserved
  <1>1. CASE map.iterating > 0 /\ Panic("P0035")
    BY <1>1, OrderPanic
  <1>2. CASE /\ map.iterating = 0 /\ map' = gray_map_new_kind(map.capacity)
             /\ UNCHANGED <<seed, rebuild, loops, panicked>>
    <2>1. map.capacity \in Int
      BY TableFacts DEF OrderInv, MapInv, Sound
    <2>2. PICK c \in Int : c = map.capacity
      BY <2>1
    <2>3. map' = gray_map_new_kind(c)
      BY <1>2, <2>2
    <2>4. QED
      BY <1>2, <2>3, OrderRenew
  <1>3. ASSUME NEW c \in Hints, map.iterating = 0, map' = gray_map_copy(gray_map_new_kind(c)),
               UNCHANGED <<seed, rebuild, loops, panicked>>
        PROVE  Preserved
    <2>1. gray_map_copy(gray_map_new_kind(c)) = gray_map_new_kind(c)
      BY DEF gray_map_copy, gray_map_new_kind
    <2>2. c \in Int
      BY MapAssumption
    <2>3. QED
      BY <1>3, <2>1, <2>2, OrderRenew
  <1>4. QED
    BY <1>1, <1>2, <1>3 DEF gray_map_clear, Assign

\* A round of map_rebuild.
LEMMA OrderReinsert ==
  ASSUME OrderInv, panicked = "none", Rebuilding, Reinsert
  PROVE  Preserved
  <1>1. PICK m, o : m = map /\ o = rebuild.old
    OBVIOUS
  <1>2. /\ seed \in [Keys -> Hashes] /\ Sound(m) /\ Sound(o) /\ o.order_len \in Nat
        /\ m.order_len < m.capacity /\ m.iterating = 0
        /\ rebuild.next \in 0 .. o.order_len /\ rebuild.next < o.order_len
    BY <1>1, RoomLeft, IsRebuilding, TableFacts DEF OrderInv, MapInv, RebuildInv, Reinsert, Sound
  <1>3. PICK x \in 0 .. o.order_len - 1 : x = rebuild.next
    BY <1>2
  <1>4. PICK t : t = o.order[x]
    OBVIOUS
  <1>5. PICK n : n = IF t >= 0 /\ o.states[t] = "occupied" THEN Write(m, o.keys[t], o.values[t]) ELSE m
    OBVIOUS
  <1>6. /\ rebuild'.old = o /\ rebuild'.next = x + 1 /\ rebuild'.key = rebuild.key
        /\ map' = n /\ UNCHANGED <<seed, loops, panicked>>
    BY <1>1, <1>3, <1>4, <1>5 DEF Reinsert, OldSlot
  <1>7. Refills(m, o, x)
    BY <1>1, <1>3 DEF OrderInv, Refilled
  <1>8. Refills(n, o, x + 1) /\ n.iterating = 0
    <2>1. CASE x \in Listed(o)
      <3>1. t \in Occupied(o) /\ o.keys[t] \in Keys /\ o.values[t] \in Values
        BY <1>2, <1>4, <2>1, ListedFacts DEF Sound, Filled
      <3>2. t >= 0 /\ o.states[t] = "occupied"
        BY <1>2, <3>1, TableFacts DEF Sound, Occupied
      <3>3. n = Write(m, o.keys[t], o.values[t])
        BY <1>5, <3>2
      <3>4. Refills(n, o, x + 1)
        BY <1>2, <1>4, <1>7, <2>1, <3>3, RefillEntry
      <3>5. n.iterating = m.iterating
        BY <1>2, <3>1, <3>3, WriteSound
      <3>6. QED
        BY <1>2, <3>4, <3>5
    <2>2. CASE x \notin Listed(o)
      <3>1. ~(t >= 0 /\ o.states[t] = "occupied")
        BY <1>4, <2>2 DEF Listed
      <3>2. n = m
        BY <1>5, <3>1
      <3>3. Before(o, x + 1) = Before(o, x)
        BY <1>2, <1>3, <2>2, BeforeFacts
      <3>4. QED
        BY <1>2, <1>7, <3>2, <3>3 DEF Refills
    <2>3. QED
      BY <2>1, <2>2
  <1>9. Refilled'
    BY <1>6, <1>8 DEF Refilled
  <1>10. LoopsFollow'
    BY <1>1, <1>2, <1>6, FollowKept DEF OrderInv
  <1>11. Whole = o /\ Whole' = o
    BY <1>1, <1>6, WholeFacts DEF Rebuilding
  <1>12. Simulates
    BY <1>1, <1>2, <1>6, <1>8, <1>11, UnseenStep
  <1>13. QED
    BY <1>9, <1>10, <1>12 DEF Preserved

\* The end of a rebuild.
LEMMA OrderEndRebuild ==
  ASSUME OrderInv, panicked = "none", Rebuilding, EndRebuild
  PROVE  Preserved
  <1>1. PICK m, o, k, v : m = map /\ o = rebuild.old /\ k = rebuild.key /\ v = rebuild.value
    OBVIOUS
  <1>2. /\ seed \in [Keys -> Hashes] /\ Sound(m) /\ Sound(o)
        /\ m.order_len < m.capacity /\ m.iterating = 0 /\ k \in Keys /\ v \in Values
    BY <1>1, RoomLeft, IsRebuilding DEF OrderInv, MapInv, RebuildInv
  <1>3. PICK n : n = Write(m, k, v)
    OBVIOUS
  <1>4. /\ map' = n /\ rebuild' = NoRebuild /\ UNCHANGED <<seed, loops, panicked>>
        /\ rebuild.next = o.order_len
    BY <1>1, <1>3 DEF EndRebuild
  <1>5. Refills(m, o, o.order_len)
    BY <1>1, <1>4 DEF OrderInv, Refilled
  <1>6. PICK E, F : E = EntriesIn(m) /\ F = EntriesIn(n)
    OBVIOUS
  <1>7. E = EntriesIn(o)
    BY <1>2, <1>5, <1>6, RefillEnds
  <1>8. Puts(E, F, k, v) /\ n.iterating = m.iterating
    <2>1. Puts(EntriesIn(m), EntriesIn(n), k, v)
      BY <1>2, <1>3, WriteEntries
    <2>2. n.iterating = m.iterating
      BY <1>2, <1>3, WriteSound
    <2>3. QED
      BY <1>6, <2>1, <2>2
  <1>9. E = EntriesIn(Whole) /\ F = EntriesIn(Whole')
    BY <1>1, <1>4, <1>6, <1>7, WholeFacts
  <1>10. Simulates
    BY <1>1, <1>2, <1>4, <1>8, <1>9, PutStep
  <1>11. Refilled' /\ LoopsFollow'
    BY <1>1, <1>2, <1>4, WholeFacts, FollowKept DEF OrderInv, Refilled
  <1>12. QED
    BY <1>10, <1>11 DEF Preserved

\* The number of loops on a table is nothing to its entries.
LEMMA GuardEntries ==
  ASSUME NEW m, Sound(m), NEW i \in 0 .. MaxLoops, NEW n, n = [m EXCEPT !.iterating = i]
  PROVE  /\ EntriesIn(n) = EntriesIn(m) /\ KeysIn(n) = KeysIn(m) /\ Listed(n) = Listed(m)
         /\ n.iterating = i
  <1>1. Typed(m)
    BY DEF Sound
  <1>2. n = [keys |-> m.keys, values |-> m.values, states |-> m.states,
             order |-> m.order, order_position |-> m.order_position, count |-> m.count,
             capacity |-> m.capacity, order_len |-> m.order_len, iterating |-> i]
    BY <1>1 DEF Typed, Tables
  <1>3. /\ n.values = m.values /\ n.keys = m.keys /\ n.states = m.states
        /\ n.order = m.order /\ n.order_len = m.order_len /\ n.iterating = i
    BY <1>2
  <1>4. Sound(n)
    BY GuardSound
  <1>5. QED
    BY <1>3, <1>4, SameOrder

\* A loop begins: it has visited none of the keys there are.
LEMMA OrderForEach ==
  ASSUME OrderInv, rebuild = NoRebuild, panicked = "none", NEW over \in LoopKinds, ForEach(over)
  PROVE  Preserved
  <1>1. /\ Sound(map) /\ LoopInv /\ IsSeq(loops) /\ map.iterating \in Nat /\ MaxLoops \in Nat
        /\ map.iterating <= Len(loops) /\ Len(loops) \in Nat /\ DOMAIN loops = 1 .. Len(loops)
    BY LoopFacts, TableFacts, MapAssumption DEF OrderInv, MapInv, LoopInv, Sound
  <1>2. PICK N \in Nat : N = Len(loops)
    BY <1>1
  <1>3. PICK m : m = map
    OBVIOUS
  <1>4. PICK r : r = [over |-> over, index |-> 0, start |-> KeysIn(m), visited |-> <<>>]
    OBVIOUS
  <1>5. PICK n : n = IF over = "label" THEN [m EXCEPT !.iterating = m.iterating + 1] ELSE m
    OBVIOUS
  <1>6. /\ N < MaxLoops /\ loops' = Append(loops, r) /\ UNCHANGED <<seed, rebuild, panicked>>
        /\ map' = n
    BY <1>2, <1>3, <1>4, <1>5 DEF ForEach
  <1>7. /\ DOMAIN loops' = 1 .. N + 1 /\ loops'[N + 1] = r /\ \A i \in 1 .. N : loops'[i] = loops[i]
    <2>1. loops \in Seq(Range(loops) \cup {r})
      BY <1>1 DEF IsSeq
    <2>2. QED
      BY <1>2, <1>6, <2>1
  <1>8. /\ EntriesIn(n) = EntriesIn(m) /\ KeysIn(n) = KeysIn(m) /\ Listed(n) = Listed(m)
        /\ over = "label" => n.iterating = m.iterating + 1
        /\ over # "label" => n = m
    <2>1. CASE over = "label"
      <3>1. PICK j \in 0 .. MaxLoops : j = m.iterating + 1
        BY <1>1, <1>2, <1>3, <1>6
      <3>2. n = [m EXCEPT !.iterating = j]
        BY <1>5, <2>1, <3>1
      <3>3. QED
        BY <1>1, <1>3, <2>1, <3>1, <3>2, GuardEntries
    <2>2. CASE over # "label"
      BY <1>5, <2>2
    <2>3. QED
      BY <2>1, <2>2
  <1>9. Follows(n, r)
    <2>1. r.start = KeysIn(m) /\ r.visited = <<>> /\ r.index = 0
      BY <1>4
    <2>2. Before(n, 0) = {}
      BY <1>1, <1>3, <1>8, BeforeFacts DEF Before
    <2>3. Cardinality(Before(n, 0)) = 0 /\ Len(r.visited) = 0
      BY <2>1, <2>2, FS_EmptySet
    <2>4. QED
      BY <1>8, <2>1, <2>3 DEF Follows
  <1>10. LoopsFollow'
    <2>1. \A l : Follows(m, l) => Follows(n, l)
      BY <1>8 DEF Follows, Before
    <2>2. \A i \in 1 .. N : loops[i].over = "label" => Follows(n, loops[i])
      BY <1>1, <1>2, <1>3, <2>1 DEF OrderInv, LoopsFollow
    <2>3. \A i \in 1 .. N + 1 : i = N + 1 \/ i \in 1 .. N
      BY <1>2
    <2>4. \A i \in DOMAIN loops' : loops'[i].over = "label" => Follows(n, loops'[i])
      BY <1>7, <1>9, <2>2, <2>3
    <2>5. QED
      BY <1>6, <2>4 DEF LoopsFollow
  <1>11. Refilled' /\ Whole = m /\ Whole' = n
    BY <1>3, <1>6, WholeFacts DEF Refilled
  <1>12. Simulates
    <2>1. CASE over = "label"
      <3>1. Ordered!Begin
        BY <1>3, <1>6, <1>8, <1>11, <2>1 DEF Ordered!Begin
      <3>2. QED
        BY <3>1 DEF Simulates, Ordered!Next
    <2>2. CASE over # "label"
      BY <1>3, <1>6, <1>8, <1>11, <2>2, UnseenStep
    <2>3. QED
      BY <2>1, <2>2
  <1>13. QED
    BY <1>10, <1>11, <1>12 DEF Preserved

\* A loop ends, or is left.
LEMMA OrderEndForEach ==
  ASSUME OrderInv, rebuild = NoRebuild, panicked = "none", EndForEach
  PROVE  Preserved
  <1>1. /\ Sound(map) /\ LoopInv /\ IsSeq(loops) /\ map.iterating \in 0 .. MaxLoops
        /\ MaxLoops \in Nat /\ Len(loops) \in Nat /\ DOMAIN loops = 1 .. Len(loops)
        /\ map.iterating = 0 => Labels = {}
    BY LoopFacts, TableFacts, MapAssumption DEF OrderInv, MapInv, LoopInv, Sound
  <1>2. PICK N \in Nat : N = Len(loops)
    BY <1>1
  <1>3. PICK m : m = map
    OBVIOUS
  <1>4. PICK n : n = IF loops[N].over = "label" THEN [m EXCEPT !.iterating = m.iterating - 1] ELSE m
    OBVIOUS
  <1>5. /\ N > 0 /\ loops' = SubSeq(loops, 1, N - 1) /\ UNCHANGED <<seed, rebuild, panicked>>
        /\ map' = n
    BY <1>2, <1>3, <1>4 DEF EndForEach
  <1>6. \A i \in DOMAIN loops' : i \in 1 .. N /\ loops'[i] = loops[i]
    <2>1. loops \in Seq(Range(loops))
      BY <1>1 DEF IsSeq
    <2>2. QED
      BY <1>2, <1>5, <2>1
  <1>7. /\ EntriesIn(n) = EntriesIn(m) /\ KeysIn(n) = KeysIn(m) /\ Listed(n) = Listed(m)
        /\ loops[N].over = "label" => n.iterating = m.iterating - 1 /\ m.iterating > 0
        /\ loops[N].over # "label" => n = m
    <2>1. CASE loops[N].over = "label"
      <3>1. m.iterating # 0
        BY <1>1, <1>2, <1>3, <1>5, <2>1 DEF Labels
      <3>2. PICK j \in 0 .. MaxLoops : j = m.iterating - 1
        BY <1>1, <1>3, <3>1
      <3>3. n = [m EXCEPT !.iterating = j]
        BY <1>4, <2>1, <3>2
      <3>4. m.iterating > 0
        BY <1>1, <1>3, <3>1
      <3>5. QED
        BY <1>1, <1>3, <2>1, <3>2, <3>3, <3>4, GuardEntries
    <2>2. CASE loops[N].over # "label"
      BY <1>4, <2>2
    <2>3. QED
      BY <2>1, <2>2
  <1>8. LoopsFollow'
    <2>1. \A l : Follows(m, l) => Follows(n, l)
      BY <1>7 DEF Follows, Before
    <2>2. \A i \in 1 .. N : loops[i].over = "label" => Follows(n, loops[i])
      BY <1>1, <1>2, <1>3, <2>1 DEF OrderInv, LoopsFollow
    <2>3. \A i \in DOMAIN loops' : loops'[i].over = "label" => Follows(n, loops'[i])
      BY <1>6, <2>2
    <2>4. QED
      BY <1>5, <2>3 DEF LoopsFollow
  <1>9. Refilled' /\ Whole = m /\ Whole' = n
    BY <1>3, <1>5, WholeFacts DEF Refilled
  <1>10. Simulates
    <2>1. CASE loops[N].over = "label"
      <3>1. Ordered!End
        BY <1>3, <1>5, <1>7, <1>9, <2>1 DEF Ordered!End
      <3>2. QED
        BY <3>1 DEF Simulates, Ordered!Next
    <2>2. CASE loops[N].over # "label"
      BY <1>3, <1>5, <1>7, <1>9, <2>2, UnseenStep
    <2>3. QED
      BY <2>1, <2>2
  <1>11. QED
    BY <1>8, <1>9, <1>10 DEF Preserved

\* The loop variable gets the next key.
LEMMA OrderVisit ==
  ASSUME OrderInv, rebuild = NoRebuild, panicked = "none", Visit
  PROVE  Preserved
  <1>1. /\ Sound(map) /\ LoopInv /\ IsSeq(loops) /\ map.order_len \in Nat
        /\ Len(loops) \in Nat /\ DOMAIN loops = 1 .. Len(loops)
    BY LoopFacts, TableFacts DEF OrderInv, MapInv, LoopInv, Sound
  <1>2. PICK N \in Nat : N = Len(loops)
    BY <1>1
  <1>3. PICK m, l : m = map /\ l = loops[N]
    OBVIOUS
  <1>4. PICK x, s : x = l.index /\ s = m.order[x]
    OBVIOUS
  <1>5. PICK w : w = IF s < 0 THEN l.visited ELSE Append(l.visited, m.keys[s])
    OBVIOUS
  <1>6. PICK r : r = [over |-> l.over, index |-> x + 1, start |-> l.start, visited |-> w]
    OBVIOUS
  <1>7. /\ N > 0 /\ l.over = "label" /\ x < m.order_len
        /\ loops' = [loops EXCEPT ![N] = r] /\ UNCHANGED <<seed, map, rebuild, panicked>>
    BY <1>2, <1>3, <1>4, <1>5, <1>6 DEF Visit
  <1>8. /\ N \in DOMAIN loops /\ l.visited \in Seq(Keys) /\ x \in 0 .. m.order_len - 1
        /\ Follows(m, l)
    <2>1. N \in DOMAIN loops
      BY <1>1, <1>2, <1>7
    <2>2. l.visited \in Seq(Keys) /\ l.index \in 0 .. m.order_len
      BY <1>1, <1>3, <2>1 DEF LoopInv
    <2>3. Follows(m, l)
      BY <1>3, <1>7, <2>1 DEF OrderInv, LoopsFollow
    <2>4. QED
      BY <1>1, <1>3, <1>4, <1>7, <2>1, <2>2, <2>3
  <1>9. /\ DOMAIN loops' = DOMAIN loops /\ loops'[N] = r
        /\ \A i \in DOMAIN loops : i # N => loops'[i] = loops[i]
    BY <1>7, <1>8
  <1>10. /\ KeysIn(m) = l.start /\ Len(l.visited) = Cardinality(Before(m, x))
         /\ \A q \in 1 .. Len(l.visited) : l.visited[q] = l.start[q]
    BY <1>4, <1>8 DEF Follows
  <1>11. Len(w) = Cardinality(Before(m, x + 1)) /\ \A q \in 1 .. Len(w) : w[q] = l.start[q]
    <2>1. CASE x \in Listed(m)
      <3>1. s \in Occupied(m) /\ m.order_position[s] = x /\ m.keys[s] \in Keys
        BY <1>1, <1>3, <1>4, <2>1, ListedFacts DEF Sound, Filled
      <3>2. ~(s < 0)
        BY <1>1, <1>3, <3>1, TableFacts DEF Sound, Occupied
      <3>3. w = Append(l.visited, m.keys[s])
        BY <1>5, <3>2
      <3>4. PICK L \in Nat : L = Len(l.visited)
        BY <1>8
      <3>5. Place(m, s) = L + 1 /\ Cardinality(Before(m, x + 1)) = L + 1
        <4>1. /\ Rank(Listed(m), x) = Cardinality(Before(m, x)) + 1
              /\ Cardinality(Before(m, x + 1)) = Cardinality(Before(m, x)) + 1
          BY <1>1, <1>3, <2>1, BeforeFacts
        <4>2. Place(m, s) = Rank(Listed(m), x)
          BY <3>1 DEF Place
        <4>3. QED
          BY <1>10, <3>4, <4>1, <4>2
      <3>6. l.start[L + 1] = m.keys[s]
        <4>1. Place(m, s) \in 1 .. Size(m) /\ SlotAt(m, Place(m, s)) = s
          BY <1>1, <1>3, <3>1, PlaceFacts
        <4>2. KeysIn(m)[Place(m, s)] = m.keys[SlotAt(m, Place(m, s))]
          BY <1>1, <1>3, <4>1, EntriesFacts
        <4>3. QED
          BY <1>10, <3>5, <4>1, <4>2
      <3>7. /\ Len(w) = L + 1 /\ w[L + 1] = m.keys[s] /\ \A q \in 1 .. L : w[q] = l.visited[q]
        BY <1>8, <3>1, <3>3, <3>4
      <3>8. \A q \in 1 .. L + 1 : q = L + 1 \/ q \in 1 .. L
        BY <3>4
      <3>9. QED
        BY <1>10, <3>4, <3>5, <3>6, <3>7, <3>8
    <2>2. CASE x \notin Listed(m)
      <3>1. s < 0
        <4>1. s = -1
          BY <1>1, <1>3, <1>4, <1>8, <2>2, ListedFacts
        <4>2. QED
          BY <4>1
      <3>2. w = l.visited
        BY <1>5, <3>1
      <3>3. Before(m, x + 1) = Before(m, x)
        BY <1>1, <1>3, <1>8, <2>2, BeforeFacts
      <3>4. QED
        BY <1>10, <3>2, <3>3
    <2>3. QED
      BY <2>1, <2>2
  <1>12. Follows(m, r)
    <2>1. r.start = l.start /\ r.visited = w /\ r.index = x + 1
      BY <1>6
    <2>2. QED
      BY <1>10, <1>11, <2>1 DEF Follows
  <1>13. LoopsFollow'
    <2>1. \A i \in DOMAIN loops : loops[i].over = "label" => Follows(m, loops[i])
      BY <1>3 DEF OrderInv, LoopsFollow
    <2>2. \A i \in DOMAIN loops' : loops'[i].over = "label" => Follows(m, loops'[i])
      BY <1>9, <1>12, <2>1
    <2>3. map' = m
      BY <1>3, <1>7
    <2>4. QED
      BY <2>2, <2>3 DEF LoopsFollow
  <1>14. Refilled' /\ Whole = m /\ Whole' = m
    BY <1>3, <1>7, WholeFacts DEF Refilled
  <1>15. Simulates
    BY <1>3, <1>7, <1>14, UnseenStep
  <1>16. QED
    BY <1>13, <1>14, <1>15 DEF Preserved

-----------------------------------------------------------------------------
(* Theorems.                                                               *)

\* A program starts with an empty list, no rebuild and no loop.
LEMMA OrderInit ==
  ASSUME Init
  PROVE  OrderInv /\ Ordered!Init
  <1>1. PICK c \in Int : map = gray_map_new_kind(c)
    BY MapAssumption DEF Init
  <1>2. PICK n : n = map
    OBVIOUS
  <1>3. EntriesIn(n) = <<>> /\ n.iterating = 0
    BY <1>1, <1>2, NewEntries, NewSound
  <1>4. rebuild = NoRebuild /\ loops = <<>> /\ panicked = "none"
    BY DEF Init
  <1>5. Whole = n /\ ~Rebuilding
    BY <1>2, <1>4, WholeFacts
  <1>6. Refilled /\ LoopsFollow
    BY <1>4, <1>5 DEF Refilled, LoopsFollow
  <1>7. QED
    BY <1>2, <1>3, <1>4, <1>5, <1>6, MapInit DEF OrderInv, Ordered!Init

\* Every step of a program preserves the invariant, and is a step of the list or
\* none.
LEMMA OrderStep ==
  ASSUME OrderInv, [Next]_vars
  PROVE  OrderInv' /\ Simulates
  <1>1. MapInv'
    BY MapStep DEF OrderInv
  <1>2. CASE UNCHANGED vars
    <2>1. UNCHANGED <<seed, map, rebuild, loops, panicked>>
      BY <1>2 DEF vars
    <2>2. Refilled' /\ LoopsFollow'
      BY <2>1 DEF OrderInv, Refilled, Rebuilding, LoopsFollow
    <2>3. Whole' = Whole
      BY <2>1 DEF Whole, Rebuilding
    <2>4. Simulates
      BY <2>1, <2>3, UnseenStep
    <2>5. QED
      BY <1>1, <2>2, <2>4 DEF OrderInv
  <1>3. CASE panicked = "none" /\ Rebuilding /\ (Reinsert \/ EndRebuild)
    BY <1>1, <1>3, OrderReinsert, OrderEndRebuild DEF Preserved, OrderInv
  <1>4. CASE /\ ~Rebuilding /\ panicked = "none"
             /\ \/ \E k \in Keys, v \in Values : gray_map_set(k, v)
                \/ \E k \in Keys : gray_map_remove(k)
                \/ gray_map_clear
                \/ \E c \in Hints : Assign(c)
                \/ \E over \in LoopKinds : ForEach(over)
                \/ Visit
                \/ EndForEach
    <2>1. rebuild = NoRebuild
      BY <1>4, NotRebuilding DEF OrderInv
    <2>2. ASSUME NEW k \in Keys, NEW v \in Values, gray_map_set(k, v) PROVE Preserved
      BY <1>4, <2>1, <2>2, OrderSet
    <2>3. ASSUME NEW k \in Keys, gray_map_remove(k) PROVE Preserved
      BY <1>4, <2>1, <2>3, OrderRemove
    <2>4. ASSUME NEW over \in LoopKinds, ForEach(over) PROVE Preserved
      BY <1>4, <2>1, <2>4, OrderForEach
    <2>5. Preserved
      BY <1>4, <2>1, <2>2, <2>3, <2>4, OrderClear, OrderVisit, OrderEndForEach
    <2>6. QED
      BY <1>1, <2>5 DEF Preserved, OrderInv
  <1>5. QED
    BY <1>2, <1>3, <1>4 DEF Next

\* The strengthened invariant holds throughout.
LEMMA OrderInductive == Spec => []OrderInv
  <1>1. Init => OrderInv
    BY OrderInit
  <1>2. OrderInv /\ [Next]_vars => OrderInv'
    BY OrderStep
  <1>3. QED
    BY <1>1, <1>2, PTL DEF Spec

\* A loop that follows the list is as LabelLoopsStable says.
LEMMA FollowsStable ==
  ASSUME NEW m, Sound(m), NEW x \in 0 .. m.order_len, NEW t, NEW u \in Seq(Keys),
         KeysIn(m) = t, Len(u) = Cardinality(Before(m, x)), \A r \in 1 .. Len(u) : u[r] = t[r]
  PROVE  IsPrefix(u, t) /\ (x = m.order_len => u = t)
  <1>1. /\ t \in Seq(Keys) /\ Len(t) = Size(m) /\ Size(m) \in Nat
    BY EntriesFacts, PlaceFacts
  <1>2. m.order_len \in Nat
    BY TableFacts DEF Sound
  <1>3. Len(u) <= Size(m)
    BY <1>2, BeforeFacts
  <1>4. IsPrefix(u, t)
    BY <1>1, <1>3 DEF IsPrefix
  <1>5. ASSUME x = m.order_len PROVE u = t
    <2>1. Len(u) = Size(m)
      BY <1>5, BeforeFacts DEF Size
    <2>2. QED
      BY <1>1, <2>1, SeqEqual
  <1>6. QED
    BY <1>4, <1>5

\* A for_each over a map variable binds the keys the map had when it began, each
\* of them once and in insertion order: the guard iterating keeps rebuilds,
\* insertions and removals out until the last such loop has ended, and the
\* updates it lets through touch no key.
THEOREM LoopsStable == Spec => []LabelLoopsStable
  <1>1. OrderInv => LabelLoopsStable
    <2> SUFFICES ASSUME OrderInv, NEW i \in DOMAIN loops, loops[i].over = "label"
                 PROVE  /\ KeysIn(Whole) = loops[i].start
                        /\ IsPrefix(loops[i].visited, loops[i].start)
                        /\ loops[i].index = map.order_len => loops[i].visited = loops[i].start
      BY DEF LabelLoopsStable
    <2>1. Sound(map) /\ LoopInv /\ MapInv
      BY DEF OrderInv, MapInv
    <2>2. Labels # {}
      BY DEF Labels
    <2>3. ~Rebuilding
      BY <2>1, <2>2, LoopFacts, IsRebuilding
    <2>4. Whole = map
      BY <2>3 DEF Whole
    <2>5. Follows(map, loops[i])
      BY DEF OrderInv, LoopsFollow
    <2>6. loops[i].index \in 0 .. map.order_len /\ loops[i].visited \in Seq(Keys)
      BY <2>1 DEF LoopInv
    <2>7. PICK m, x, t, u : m = map /\ x = loops[i].index /\ t = loops[i].start /\ u = loops[i].visited
      OBVIOUS
    <2>8. KeysIn(m) = t /\ Len(u) = Cardinality(Before(m, x)) /\ \A r \in 1 .. Len(u) : u[r] = t[r]
      BY <2>5, <2>7 DEF Follows
    <2>9. IsPrefix(u, t) /\ (x = m.order_len => u = t)
      BY <2>1, <2>6, <2>7, <2>8, FollowsStable
    <2>10. QED
      BY <2>4, <2>7, <2>8, <2>9
  <1>2. QED
    BY <1>1, OrderInductive, PTL

\* The runtime's map is an ordered map: behind hashing, tombstones, holes and a
\* rebuild that moves one entry at a time, every call of gray_map_set,
\* gray_map_remove and gray_map_clear, every assignment and every loop does to the
\* list of entries what OrderedMap says, or nothing.
THEOREM MapIsOrdered == Spec => ImplementsOrderedMap
  <1>1. Init => Ordered!Init
    BY OrderInit
  <1>2. OrderInv /\ [Next]_vars => [Ordered!Next]_(Ordered!vars)
    BY OrderStep DEF Simulates
  <1>3. QED
    BY <1>1, <1>2, OrderInductive, PTL DEF Spec, ImplementsOrderedMap, Ordered!Spec
=============================================================================
