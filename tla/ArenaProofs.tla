---------------------------- MODULE ArenaProofs ----------------------------
(***************************************************************************)
(* Proofs about the arena allocator for every size, limit and number of    *)
(* allocations, scopes, resets and handles.                                *)
(***************************************************************************)
EXTENDS Arena, SequenceTheorems, WellFoundedInduction, TLAPS

-----------------------------------------------------------------------------
(* The inductive invariant.                                                *)

Allocations == [block : Nat, at : Nat, bytes : Nat]
Marks == [position : Nat, block : Nat, used : Nat, live : Nat]
Pointers == [block : Nat, at : Nat, epoch : Nat, number : Nat]

\* The types, with those of what the program holds.
Types ==
  /\ TypeOK
  /\ live \in Seq(Allocations) /\ marks \in Seq(Marks) /\ pointers \subseteq Pointers

\* What there is depends on the kind of arena: only a managed one has marks,
\* only one of mem.arena has checked pointers.
KindFits ==
  /\ kind = "none" => live = <<>> /\ ~is_destroyed
  /\ current = 0 => chain = <<>> /\ live = <<>>
  /\ marks # <<>> => kind = "managed" /\ ~is_destroyed
  /\ pointers # {} => kind = "user"

\* No block is twice in the chain, and none is filled above its size.
ChainFits ==
  /\ \A p, q \in DOMAIN chain : chain[p] = chain[q] => p = q
  /\ \A b \in Blocks : used[b] <= size[b]

\* A mark that was taken later lies no lower than an earlier one.
MarksNested ==
  \A j, k \in DOMAIN marks : j < k =>
    /\ marks[j].position <= marks[k].position
    /\ marks[j].position = marks[k].position => marks[j].used <= marks[k].used
    /\ marks[j].live <= marks[k].live

\* A pointer is from this epoch or an earlier one.
Epochs == \A p \in pointers : p.epoch <= reset_count

ArenaInv ==
  /\ Types /\ KindFits /\ ChainFits
  /\ MemorySafe /\ MarksHold /\ MarksNested
  /\ CheckedPointersLive /\ Epochs

\* The arena has not been created.
LEMMA Initially ==
  ASSUME Init
  PROVE  ArenaInv
  <1>1. Types
    <2>1. \A S : <<>> \in Seq(S)
      OBVIOUS
    <2>2. MaxMarks \in Nat
      BY ArenaAssumption
    <2>3. handle \in [Handles -> BOOLEAN]
      BY DEF Init
    <2>4. TypeOK
      <3>1. /\ size \in Seq(Nat) /\ used \in Seq(Nat) /\ Len(used) = Len(size)
            /\ chain \in Seq(heap) /\ current \in 0 .. Len(chain) /\ Len(marks) <= MaxMarks
        BY <2>1, <2>2 DEF Init
      <3>2. {default_block_size, maximum_bytes, total_allocated, alloc_count, reset_count} \subseteq Nat
        BY DEF Init
      <3>3. is_destroyed \in BOOLEAN /\ (current = 0 <=> (kind = "none" \/ is_destroyed))
        BY DEF Init
      <3>4. kind \in {"none", "user", "managed"} /\ heap \subseteq Blocks
        BY DEF Init
      <3>5. DOMAIN live = {}
        BY DEF Init
      <3>6. QED
        BY <2>3, <3>1, <3>2, <3>3, <3>4, <3>5 DEF TypeOK
    <2>5. QED
      BY <2>1, <2>4 DEF Init, Types
  <1>2. KindFits /\ ChainFits /\ MemorySafe /\ MarksHold /\ MarksNested /\ CheckedPointersLive /\ Epochs
    BY DEF Init, KindFits, ChainFits, MemorySafe, MarksHold, MarksNested, CheckedPointersLive,
       Epochs, Blocks
  <1>3. QED
    BY <1>1, <1>2 DEF ArenaInv

\* A panic touches nothing the invariant is about.
LEMMA PanicKeeps ==
  ASSUME ArenaInv,
         UNCHANGED <<kind, memory, default_block_size, maximum_bytes, is_destroyed,
                     reset_count, program>>
  PROVE  ArenaInv'
  <1> USE DEF memory, program
  <1>1. Types' /\ KindFits'
    BY DEF ArenaInv, Types, TypeOK, KindFits, Blocks
  <1>2. ChainFits' /\ MemorySafe' /\ MarksHold' /\ MarksNested'
    BY DEF ArenaInv, ChainFits, MemorySafe, MarksHold, MarksNested, Blocks
  <1>3. CheckedPointersLive' /\ Epochs'
    BY DEF ArenaInv, CheckedPointersLive, Epochs, EpochCheckPasses
  <1>4. QED
    BY <1>1, <1>2, <1>3 DEF ArenaInv

\* A new arena is one empty block.
LEMMA CreateKeeps ==
  ASSUME ArenaInv, NEW k \in {"user", "managed"}, NEW initial_size \in Nat, NEW limit \in Nat,
         gray_arena_create(k, initial_size, limit)
  PROVE  ArenaInv'
  <1>1. CASE OutOfMemory
    BY <1>1, PanicKeeps DEF OutOfMemory, Panic
  <1>2. CASE ~OutOfMemory
    <2>1. /\ kind = "none" /\ kind' = k /\ heap' = {1} /\ size' = <<initial_size>> /\ used' = <<0>>
          /\ chain' = <<1>> /\ current' = 1 /\ default_block_size' = initial_size
          /\ maximum_bytes' = limit /\ total_allocated' = initial_size /\ alloc_count' = 0
          /\ handle' = [h \in Handles |-> TRUE]
          /\ UNCHANGED <<is_destroyed, reset_count, marks, live, pointers>>
      BY <1>2 DEF gray_arena_create
    <2>2. live = <<>> /\ marks = <<>> /\ pointers = {}
      BY <2>1 DEF ArenaInv, KindFits
    <2>3. Types'
      <3>1. /\ size' \in Seq(Nat) /\ used' \in Seq(Nat) /\ chain' \in Seq(heap')
            /\ Len(size') = 1 /\ Len(used') = 1 /\ Len(chain') = 1
        BY <2>1
      <3>2. ~is_destroyed
        BY <2>1 DEF ArenaInv, KindFits
      <3>3. QED
        BY <2>1, <2>2, <3>1, <3>2 DEF ArenaInv, Types, TypeOK, Blocks
    <2>4. KindFits' /\ ChainFits' /\ MemorySafe' /\ MarksHold' /\ MarksNested'
          /\ CheckedPointersLive' /\ Epochs'
      BY <2>1, <2>2 DEF KindFits, ChainFits, MemorySafe, MarksHold, MarksNested,
         CheckedPointersLive, Epochs, Blocks
    <2>5. QED
      BY <2>3, <2>4 DEF ArenaInv
  <1>3. QED
    BY <1>1, <1>2

-----------------------------------------------------------------------------
(* Reset and destruction.                                                  *)

\* The types after a step, from their parts.
LEMMA TypesFrom ==
  ASSUME kind' \in {"none", "user", "managed"},
         size' \in Seq(Nat), used' \in Seq(Nat), Len(used') = Len(size'),
         heap' \subseteq Blocks', chain' \in Seq(heap'), current' \in 0 .. Len(chain'),
         current' = 0 <=> (kind' = "none" \/ is_destroyed'),
         {default_block_size', maximum_bytes', total_allocated', alloc_count', reset_count'} \subseteq Nat,
         is_destroyed' \in BOOLEAN, handle' \in [Handles -> BOOLEAN],
         \A i \in DOMAIN live' : live'[i].block \in Blocks',
         Len(marks') <= MaxMarks,
         live' \in Seq(Allocations), marks' \in Seq(Marks), pointers' \subseteq Pointers
  PROVE  Types'
  BY Zenon DEF Types, TypeOK

\* A function on 1 .. n is a sequence.
LEMMA FunctionIsSeq ==
  ASSUME NEW S, NEW n \in Nat, NEW f \in [1 .. n -> S]
  PROVE  f \in Seq(S) /\ Len(f) = n
  OBVIOUS

\* What the types say of a block.
LEMMA BlockFacts ==
  ASSUME Types
  PROVE  /\ \A b \in Blocks : b \in Nat /\ size[b] \in Nat /\ used[b] \in Nat
         /\ DOMAIN chain = 1 .. Len(chain) /\ Len(chain) \in Nat
         /\ \A p \in 1 .. Len(chain) : chain[p] \in Blocks /\ chain[p] \in heap
         /\ DOMAIN used = Blocks /\ DOMAIN size = Blocks /\ Len(size) \in Nat
  <1>1. /\ size \in Seq(Nat) /\ used \in Seq(Nat) /\ Len(used) = Len(size)
        /\ heap \subseteq Blocks /\ chain \in Seq(heap)
    BY DEF Types, TypeOK
  <1>2. Len(size) \in Nat /\ DOMAIN size = Blocks /\ DOMAIN used = Blocks
    BY <1>1 DEF Blocks
  <1>3. \A b \in Blocks : b \in Nat
    BY <1>2 DEF Blocks
  <1>4. \A b \in Blocks : size[b] \in Nat /\ used[b] \in Nat
    BY <1>1, <1>2
  <1>5. DOMAIN chain = 1 .. Len(chain) /\ Len(chain) \in Nat
    BY <1>1
  <1>6. \A p \in 1 .. Len(chain) : chain[p] \in heap
    BY <1>1, <1>5
  <1>7. QED
    BY <1>1, <1>2, <1>3, <1>4, <1>5, <1>6

\* used, after some of the blocks have got another value, not above the old one.
LEMMA UsedLowered ==
  ASSUME used \in Seq(Nat), Len(used) = Len(size),
         DOMAIN used' = DOMAIN used, used' = [b \in DOMAIN used' |-> used'[b]],
         \A b \in DOMAIN used : used'[b] \in Nat /\ used'[b] <= used[b]
  PROVE  used' \in Seq(Nat) /\ Len(used') = Len(used)
  <1>1. DOMAIN used = 1 .. Len(used) /\ Len(used) \in Nat
    OBVIOUS
  <1>2. used' \in [1 .. Len(used) -> Nat]
    BY <1>1
  <1>3. QED
    BY <1>1, <1>2, FunctionIsSeq

\* A reset empties every block that is reached, and ends an epoch.
LEMMA ResetKeeps ==
  ASSUME ArenaInv, gray_arena_reset, marks' = <<>>
  PROVE  ArenaInv'
  <1> USE DEF ArenaInv
  <1>1. /\ live' = <<>> /\ reset_count' = reset_count + 1
        /\ UNCHANGED <<kind, heap, size, chain, alloc_count, default_block_size, maximum_bytes,
                       is_destroyed, handle, pointers>>
        /\ current' = IF chain = <<>> THEN 0 ELSE 1
        /\ total_allocated' = IF chain = <<>> THEN 0 ELSE size[chain[1]]
    BY DEF gray_arena_reset
  <1>2. /\ size \in Seq(Nat) /\ used \in Seq(Nat) /\ Len(used) = Len(size) /\ heap \subseteq Blocks
        /\ chain \in Seq(heap) /\ current \in 0 .. Len(chain) /\ reset_count \in Nat
    BY DEF Types, TypeOK
  <1>3. /\ used' \in Seq(Nat) /\ Len(used') = Len(used)
        /\ \A b \in Blocks : used'[b] <= used[b] /\ used'[b] \in Nat /\ used[b] \in Nat
    <2>1. used' = [b \in DOMAIN used |->
                     IF b \in {chain[i] : i \in DOMAIN chain} THEN 0 ELSE used[b]]
      BY DEF gray_arena_reset
    <2>2. \A b \in DOMAIN used : used'[b] \in Nat /\ used'[b] <= used[b] /\ used[b] \in Nat
      BY <1>2, <2>1
    <2>3. used' \in Seq(Nat) /\ Len(used') = Len(used)
      BY <1>2, <2>1, <2>2, UsedLowered
    <2>4. QED
      BY <1>2, <2>2, <2>3 DEF Blocks
  <1>4. (chain = <<>> <=> current = 0) /\ current' \in 0 .. Len(chain) /\ (current' = 0 <=> current = 0)
    BY <1>1, <1>2 DEF KindFits
  <1>5. total_allocated' \in Nat
    <2>1. chain # <<>> => size[chain[1]] \in Nat
      BY <1>2, BlockFacts
    <2>2. QED
      BY <1>1, <2>1
  <1>6. Types'
    <2>1. DOMAIN live' = {} /\ Len(marks') = 0 /\ MaxMarks \in Nat
      BY <1>1, ArenaAssumption
    <2>2. kind' \in {"none", "user", "managed"} /\ is_destroyed' \in BOOLEAN
          /\ handle' \in [Handles -> BOOLEAN] /\ pointers' \subseteq Pointers
      BY <1>1, Zenon DEF Types, TypeOK
    <2>3. {default_block_size', maximum_bytes', total_allocated', alloc_count', reset_count'} \subseteq Nat
      BY <1>1, <1>5 DEF Types, TypeOK
    <2>4. current' = 0 <=> (kind' = "none" \/ is_destroyed')
      <3>1. current = 0 <=> (kind = "none" \/ is_destroyed)
        BY Zenon DEF Types, TypeOK
      <3>2. QED
        BY <1>1, <1>4, <3>1, Zenon
    <2>5. Blocks' = Blocks
      BY <1>1 DEF Blocks
    <2>6. chain' \in Seq(heap') /\ size' \in Seq(Nat) /\ current' \in 0 .. Len(chain') /\ heap' \subseteq Blocks'
      BY <1>1, <1>2, <1>4, <2>5
    <2>7. Len(marks') <= MaxMarks /\ live' \in Seq(Allocations) /\ marks' \in Seq(Marks)
      BY <1>1, <2>1
    <2>8. QED
      BY <1>1, <1>2, <1>3, <2>1, <2>2, <2>3, <2>4, <2>6, <2>7, TypesFrom
  <1>7. KindFits' /\ MemorySafe' /\ MarksHold' /\ MarksNested'
    BY <1>1, <1>4 DEF KindFits, MemorySafe, MarksHold, MarksNested
  <1>8. ChainFits'
    <2>1. \A b \in Blocks : used'[b] <= size[b]
      BY <1>3, BlockFacts DEF ChainFits
    <2>2. QED
      BY <1>1, <2>1 DEF ChainFits, Blocks
  <1>9. CheckedPointersLive' /\ Epochs'
    <2>1. \A p \in pointers : p.epoch <= reset_count /\ p.epoch \in Nat
      BY DEF Epochs, Types, Pointers
    <2>2. QED
      BY <1>1, <1>2, <2>1 DEF CheckedPointersLive, Epochs, EpochCheckPasses
  <1>10. QED
    BY <1>6, <1>7, <1>8, <1>9

\* After a destroy nothing is checked to be live.
LEMMA DestroyKeeps ==
  ASSUME ArenaInv, gray_arena_destroy, kind # "none", handle' \in [Handles -> BOOLEAN], marks' = <<>>
  PROVE  ArenaInv'
  <1> USE DEF ArenaInv
  <1>1. /\ heap' = heap \ {chain[i] : i \in DOMAIN chain} /\ chain' = <<>> /\ current' = 0
        /\ is_destroyed' = TRUE /\ live' = <<>>
        /\ UNCHANGED <<kind, size, used, alloc_count, default_block_size, maximum_bytes,
                       total_allocated, reset_count, pointers>>
    BY DEF gray_arena_destroy
  <1>2. chain' \in Seq(heap') /\ Len(chain') = 0 /\ Len(marks') = 0
    BY <1>1
  <1>3. MaxMarks \in Nat
    BY ArenaAssumption
  <1>4. Types'
    <2>1. is_destroyed' \in BOOLEAN /\ (current' = 0 <=> (kind' = "none" \/ is_destroyed'))
      BY <1>1
    <2>2. DOMAIN live' = {} /\ heap' \subseteq heap
      BY <1>1
    <2>3. kind' \in {"none", "user", "managed"} /\ pointers' \subseteq Pointers
      BY <1>1, Zenon DEF Types, TypeOK
    <2>4. {default_block_size', maximum_bytes', total_allocated', alloc_count', reset_count'} \subseteq Nat
      BY <1>1 DEF Types, TypeOK
    <2>5. Blocks' = Blocks
      BY <1>1 DEF Blocks
    <2>6. /\ size' \in Seq(Nat) /\ used' \in Seq(Nat) /\ Len(used') = Len(size')
          /\ heap' \subseteq Blocks' /\ current' \in 0 .. Len(chain')
      BY <1>1, <1>2, <2>2, <2>5 DEF Types, TypeOK
    <2>7. Len(marks') <= MaxMarks /\ live' \in Seq(Allocations) /\ marks' \in Seq(Marks)
      BY <1>1, <1>2, <1>3
    <2>8. QED
      BY <1>2, <2>1, <2>2, <2>3, <2>4, <2>6, <2>7, TypesFrom
  <1>5. KindFits' /\ MemorySafe' /\ MarksHold' /\ MarksNested' /\ ChainFits'
    BY <1>1 DEF KindFits, MemorySafe, MarksHold, MarksNested, ChainFits, Blocks
  <1>6. CheckedPointersLive' /\ Epochs'
    BY <1>1 DEF CheckedPointersLive, Epochs, EpochCheckPasses
  <1>7. QED
    BY <1>4, <1>5, <1>6

-----------------------------------------------------------------------------
(* Allocation.                                                             *)

\* The bytes asked for, aligned.
LEMMA AlignedIsNat ==
  ASSUME NEW s \in Nat
  PROVE  AlignUp(s) \in Nat
  BY DEF AlignUp

\* What the invariant says of an arena that has a current block.
LEMMA CurrentFacts ==
  ASSUME ArenaInv, kind # "none", ~is_destroyed
  PROVE  /\ current \in 1 .. Len(chain) /\ Current \in Blocks /\ Current \in Nat /\ Current \in heap
         /\ Len(chain) \in Nat /\ current \in Nat
  <1>1. current \in 0 .. Len(chain) /\ chain \in Seq(heap) /\ Len(chain) \in Nat
    BY DEF ArenaInv, Types, TypeOK
  <1>2. current # 0
    BY Zenon DEF ArenaInv, Types, TypeOK
  <1>3. current \in 1 .. Len(chain) /\ current \in Nat
    BY <1>1, <1>2
  <1>4. QED
    BY <1>1, <1>3, BlockFacts DEF ArenaInv, Current

\* What the invariant says of every allocation.
LEMMA LiveFacts ==
  ASSUME ArenaInv
  PROVE  /\ Len(live) \in Nat /\ DOMAIN live = 1 .. Len(live)
         /\ \A i \in 1 .. Len(live) :
              /\ live[i].block \in Blocks /\ live[i].at \in Nat /\ live[i].bytes \in Nat
              /\ live[i].at + live[i].bytes <= used[live[i].block]
              /\ \E p \in 1 .. current : chain[p] = live[i].block
         /\ \A i, j \in 1 .. Len(live) : i < j /\ live[i].block = live[j].block =>
              live[i].at + live[i].bytes <= live[j].at
  <1>1. live \in Seq(Allocations)
    BY DEF ArenaInv, Types
  <1>2. Len(live) \in Nat /\ DOMAIN live = 1 .. Len(live)
    BY <1>1
  <1>3. \A i \in 1 .. Len(live) : live[i].at \in Nat /\ live[i].bytes \in Nat
    <2>1. \A i \in 1 .. Len(live) : live[i] \in Allocations
      BY <1>1, <1>2
    <2>2. QED
      BY <2>1 DEF Allocations
  <1>4. \A i \in DOMAIN live : live[i].block \in Blocks
    BY Zenon DEF ArenaInv, Types, TypeOK
  <1>5. /\ \A i \in DOMAIN live : live[i].at + live[i].bytes <= used[live[i].block]
        /\ \A i \in DOMAIN live : \E p \in 1 .. current : chain[p] = live[i].block
        /\ \A i, j \in DOMAIN live : i < j /\ live[i].block = live[j].block =>
             live[i].at + live[i].bytes <= live[j].at
    BY Zenon DEF ArenaInv, MemorySafe
  <1>6. QED
    BY <1>2, <1>3, <1>4, <1>5, Zenon

\* What the invariant says of every mark.
LEMMA MarkFacts ==
  ASSUME ArenaInv
  PROVE  /\ Len(marks) \in Nat /\ DOMAIN marks = 1 .. Len(marks)
         /\ \A k \in 1 .. Len(marks) :
              /\ marks[k].position \in Nat /\ marks[k].block \in Nat
              /\ marks[k].used \in Nat /\ marks[k].live \in Nat
              /\ marks[k].position \in 1 .. current
              /\ chain[marks[k].position] = marks[k].block
              /\ marks[k].used <= used[marks[k].block]
              /\ marks[k].live <= Len(live)
              /\ \A i \in 1 .. marks[k].live :
                   \E p \in 1 .. marks[k].position :
                     /\ chain[p] = live[i].block
                     /\ p = marks[k].position => live[i].at + live[i].bytes <= marks[k].used
  <1>1. marks \in Seq(Marks)
    BY DEF ArenaInv, Types
  <1>2. Len(marks) \in Nat /\ DOMAIN marks = 1 .. Len(marks)
    BY <1>1
  <1>3. \A k \in 1 .. Len(marks) :
          /\ marks[k].position \in Nat /\ marks[k].block \in Nat
          /\ marks[k].used \in Nat /\ marks[k].live \in Nat
    <2>1. \A k \in 1 .. Len(marks) : marks[k] \in Marks
      BY <1>1, <1>2
    <2>2. QED
      BY <2>1 DEF Marks
  <1>4. QED
    BY <1>2, <1>3, Zenon DEF ArenaInv, MarksHold

\* What was there stays where it was, and the n bytes at offset at of block b
\* lie in the used part of the current block, above all that was handed out of it.
Grown(b, at, n) ==
  /\ size' \in Seq(Nat) /\ used' \in Seq(Nat) /\ Len(used') = Len(size')
  /\ heap' \subseteq Blocks' /\ chain' \in Seq(heap') /\ total_allocated' \in Nat
  /\ current' \in 1 .. Len(chain') /\ current <= current'
  /\ Blocks \subseteq Blocks' /\ b \in Blocks' /\ chain'[current'] = b
  /\ \A p \in 1 .. current : chain'[p] = chain[p]
  /\ \A p, q \in DOMAIN chain' : chain'[p] = chain'[q] => p = q
  /\ \A c \in Blocks : used[c] <= used'[c]
  /\ \A c \in Blocks' : used'[c] <= size'[c]
  /\ at + n <= used'[b]
  /\ \A i \in 1 .. Len(live) : live[i].block = b => live[i].at + live[i].bytes <= at

\* An allocation in such a place keeps the invariant.
LEMMA HandOutKeeps ==
  ASSUME ArenaInv, kind # "none", ~is_destroyed,
         NEW b \in Nat, NEW at \in Nat, NEW n \in Nat, HandOut(b, at, n), Grown(b, at, n)
  PROVE  ArenaInv'
  <1> DEFINE a == [block |-> b, at |-> at, bytes |-> n]
             N == Len(live)
  <1>1. /\ live' = Append(live, a) /\ alloc_count' = alloc_count + 1
        /\ UNCHANGED <<kind, default_block_size, maximum_bytes, is_destroyed, reset_count, handle, marks>>
    BY DEF HandOut
  <1>2. /\ N \in Nat /\ Len(live') = N + 1 /\ DOMAIN live' = 1 .. N + 1
        /\ live' \in Seq(Allocations) /\ live'[N + 1] = a
        /\ \A i \in 1 .. N : live'[i] = live[i]
    <2>1. live \in Seq(Allocations) /\ a \in Allocations
      BY DEF ArenaInv, Types, Allocations
    <2> HIDE DEF a
    <2>2. QED
      BY <1>1, <2>1
  <1>3. a.block = b /\ a.at = at /\ a.bytes = n
    OBVIOUS
  <1> HIDE DEF a
  <1>4. /\ current \in Nat /\ current' \in Nat /\ 1 <= current /\ current <= Len(chain) /\ Len(chain) \in Nat
        /\ \A c \in Blocks : used[c] \in Nat /\ used'[c] \in Nat
    <2>1. current \in 1 .. Len(chain) /\ Len(chain) \in Nat
      BY CurrentFacts
    <2>2. Len(chain') \in Nat /\ DOMAIN used' = Blocks' /\ used' \in Seq(Nat)
      BY DEF Blocks, Grown
    <2>3. \A c \in Blocks : used[c] \in Nat
      BY BlockFacts DEF ArenaInv
    <2>4. \A c \in Blocks : used'[c] \in Nat
      <3>1. \A c \in Blocks' : used'[c] \in Nat
        BY <2>2
      <3>2. QED
        BY <3>1 DEF Grown
    <2>5. current' \in Nat
      <3>1. current' \in 1 .. Len(chain')
        BY DEF Grown
      <3>2. QED
        BY <2>2, <3>1
    <2>6. QED
      BY <2>1, <2>3, <2>4, <2>5
  <1>5. \A i \in 1 .. N + 1 : i = N + 1 \/ (i \in 1 .. N /\ live'[i] = live[i])
    BY <1>2
  <1>a. /\ Blocks \subseteq Blocks' /\ b \in Blocks' /\ chain'[current'] = b /\ at + n <= used'[b]
        /\ current <= current' /\ current' \in 1 .. Len(chain') /\ total_allocated' \in Nat
        /\ \A p \in 1 .. current : chain'[p] = chain[p]
        /\ \A c \in Blocks : used[c] <= used'[c]
        /\ \A c \in Blocks' : used'[c] <= size'[c]
        /\ \A i \in 1 .. Len(live) : live[i].block = b => live[i].at + live[i].bytes <= at
    BY DEF Grown
  <1>6. Types'
    <2>1. pointers' \subseteq Pointers
      <3>1. pointers \subseteq Pointers /\ reset_count \in Nat
        BY DEF ArenaInv, Types, TypeOK
      <3>2. [block |-> b, at |-> at, epoch |-> reset_count, number |-> N + 1] \in Pointers
        BY <1>2, <3>1 DEF Pointers
      <3>3. QED
        BY <3>1, <3>2 DEF HandOut
    <2>2. \A i \in DOMAIN live' : live'[i].block \in Blocks'
      BY <1>2, <1>3, <1>5, <1>a, LiveFacts
    <2>3. {default_block_size', maximum_bytes', total_allocated', alloc_count', reset_count'} \subseteq Nat
      <3>1. {default_block_size, maximum_bytes, alloc_count, reset_count} \subseteq Nat
        BY DEF ArenaInv, Types, TypeOK
      <3>2. total_allocated' \in Nat
        BY <1>a
      <3>3. QED
        BY <1>1, <3>1, <3>2
    <2>4. current' # 0 /\ current' \in 0 .. Len(chain')
      BY <1>4, <1>a
    <2>5. current' = 0 <=> (kind' = "none" \/ is_destroyed')
      BY <1>1, <2>4, Zenon
    <2>6. /\ kind' \in {"none", "user", "managed"} /\ is_destroyed' \in BOOLEAN
          /\ handle' \in [Handles -> BOOLEAN] /\ marks' \in Seq(Marks) /\ Len(marks') <= MaxMarks
      BY <1>1, Zenon DEF ArenaInv, Types, TypeOK
    <2>7. QED
      BY <1>2, <2>1, <2>2, <2>3, <2>4, <2>5, <2>6, TypesFrom DEF Grown
  <1>7. KindFits'
    <2>1. current' # 0
      BY <1>4, <1>a
    <2>2. pointers' # {} => kind' = "user"
      BY <1>1 DEF ArenaInv, KindFits, HandOut
    <2>3. marks' # <<>> => kind' = "managed" /\ ~is_destroyed'
      BY <1>1, Zenon DEF ArenaInv, KindFits
    <2>4. QED
      BY <1>1, <2>1, <2>2, <2>3, Zenon DEF KindFits
  <1>8. ChainFits'
    BY DEF ChainFits, Grown
  <1>9. MemorySafe'
    <2>1. \A i \in 1 .. N :
            /\ live[i].at + live[i].bytes <= used'[live[i].block]
            /\ \E p \in 1 .. current' : chain'[p] = live[i].block
      <3> TAKE i \in 1 .. N
      <3>1. PICK p \in 1 .. current : chain[p] = live[i].block
        BY LiveFacts
      <3>2. /\ live[i].at \in Nat /\ live[i].bytes \in Nat /\ live[i].block \in Blocks
            /\ live[i].at + live[i].bytes <= used[live[i].block]
        BY LiveFacts
      <3>3. live[i].at + live[i].bytes <= used'[live[i].block]
        <4>1. /\ used[live[i].block] \in Nat /\ used'[live[i].block] \in Nat
              /\ used[live[i].block] <= used'[live[i].block]
          BY <1>4, <1>a, <3>2
        <4>2. QED
          BY <3>2, <4>1
      <3>4. p \in 1 .. current' /\ chain'[p] = live[i].block
        BY <1>a, <1>4, <3>1
      <3>5. QED
        BY <3>3, <3>4
    <2>2. \A i \in DOMAIN live' :
            /\ live'[i].at + live'[i].bytes <= used'[live'[i].block]
            /\ \E p \in 1 .. current' : chain'[p] = live'[i].block
      <3>1. current' \in 1 .. current' /\ chain'[current'] = b
        BY <1>4, <1>a
      <3>2. QED
        BY <1>2, <1>3, <1>5, <1>a, <2>1, <3>1
    <2>3. \A i \in DOMAIN live' : live'[i].block \in Blocks'
      BY <1>2, <1>3, <1>5, <1>a, LiveFacts
    <2>4. \A i, j \in DOMAIN live' : i < j /\ live'[i].block = live'[j].block =>
            live'[i].at + live'[i].bytes <= live'[j].at
      <3> SUFFICES ASSUME NEW i \in DOMAIN live', NEW j \in DOMAIN live', i < j,
                          live'[i].block = live'[j].block
                   PROVE  live'[i].at + live'[i].bytes <= live'[j].at
        OBVIOUS
      <3>1. i \in 1 .. N /\ live'[i] = live[i]
        BY <1>2
      <3>2. CASE j = N + 1
        BY <1>a, <1>2, <1>3, <3>1, <3>2
      <3>3. CASE j \in 1 .. N
        BY <1>2, <3>1, <3>3, LiveFacts
      <3>4. QED
        BY <1>2, <1>5, <3>2, <3>3
    <2>5. QED
      BY <1>a, <2>2, <2>3, <2>4 DEF MemorySafe
  <1>10. MarksHold'
    <2> SUFFICES ASSUME NEW k \in DOMAIN marks'
                 PROVE  /\ marks[k].position \in 1 .. current'
                        /\ chain'[marks[k].position] = marks[k].block
                        /\ marks[k].used <= used'[marks[k].block]
                        /\ marks[k].live <= Len(live')
                        /\ \A i \in 1 .. marks[k].live :
                             \E p \in 1 .. marks[k].position :
                               /\ chain'[p] = live'[i].block
                               /\ p = marks[k].position => live'[i].at + live'[i].bytes <= marks[k].used
      <3>1. marks' = marks
        BY <1>1
      <3>2. QED
        BY <3>1 DEF MarksHold
    <2>1. k \in 1 .. Len(marks)
      BY <1>1, MarkFacts
    <2>2. /\ marks[k].position \in Nat /\ marks[k].live \in Nat /\ marks[k].used \in Nat
          /\ marks[k].position \in 1 .. current /\ chain[marks[k].position] = marks[k].block
          /\ marks[k].used <= used[marks[k].block] /\ marks[k].live <= N
      BY <2>1, MarkFacts
    <2>3. marks[k].block \in Blocks
      BY <1>4, <2>2, BlockFacts, SMTT(30) DEF ArenaInv
    <2>4. marks[k].position \in 1 .. current' /\ chain'[marks[k].position] = marks[k].block
      BY <1>a, <1>4, <2>2, SMTT(30)
    <2>5. marks[k].used <= used'[marks[k].block] /\ marks[k].live <= Len(live')
      <3>1. /\ used[marks[k].block] \in Nat /\ used'[marks[k].block] \in Nat
            /\ used[marks[k].block] <= used'[marks[k].block]
        BY <1>4, <1>a, <2>3
      <3>2. QED
        BY <1>2, <2>2, <3>1, SMTT(30)
    <2>6. ASSUME NEW i \in 1 .. marks[k].live
          PROVE  \E p \in 1 .. marks[k].position :
                   /\ chain'[p] = live'[i].block
                   /\ p = marks[k].position => live'[i].at + live'[i].bytes <= marks[k].used
      <3>1. PICK p \in 1 .. marks[k].position :
              /\ chain[p] = live[i].block
              /\ p = marks[k].position => live[i].at + live[i].bytes <= marks[k].used
        BY <2>1, MarkFacts
      <3>2. i \in 1 .. N /\ live'[i] = live[i]
        BY <1>2, <2>2
      <3>3. p \in 1 .. current
        BY <1>a, <1>4, <2>2
      <3>4. chain'[p] = chain[p]
        BY <1>a, <3>3
      <3>5. QED
        BY <3>1, <3>2, <3>4
    <2>7. QED
      BY <2>4, <2>5, <2>6
  <1>11. MarksNested'
    BY <1>1 DEF ArenaInv, MarksNested
  <1>12. CheckedPointersLive' /\ Epochs'
    <2> SUFFICES ASSUME NEW p \in pointers'
                 PROVE  /\ p.epoch <= reset_count
                        /\ p.epoch = reset_count =>
                             /\ p.number \in DOMAIN live'
                             /\ live'[p.number].block = p.block /\ live'[p.number].at = p.at
      BY <1>1 DEF CheckedPointersLive, Epochs, EpochCheckPasses
    <2>1. CASE p \in pointers
      <3>1. p.epoch <= reset_count
        BY <2>1 DEF ArenaInv, Epochs
      <3>2. p.epoch = reset_count =>
              /\ p.number \in DOMAIN live
              /\ live[p.number].block = p.block /\ live[p.number].at = p.at
        BY <2>1, Zenon DEF ArenaInv, CheckedPointersLive, EpochCheckPasses
      <3>3. DOMAIN live = 1 .. N
        BY LiveFacts
      <3>4. QED
        BY <1>2, <3>1, <3>2, <3>3
    <2>2. CASE p = [block |-> b, at |-> at, epoch |-> reset_count, number |-> N + 1]
      <3>1. p.block = b /\ p.at = at /\ p.epoch = reset_count /\ p.number = N + 1
        BY <2>2
      <3>2. reset_count \in Nat
        BY DEF ArenaInv, Types, TypeOK
      <3>3. QED
        BY <1>a, <1>2, <1>3, <3>1, <3>2
    <2>3. QED
      BY <2>1, <2>2 DEF HandOut
  <1>13. QED
    BY <1>6, <1>7, <1>8, <1>9, <1>10, <1>11, <1>12 DEF ArenaInv

\* The current block has room.
LEMMA InBlockKeeps ==
  ASSUME ArenaInv, kind # "none", ~is_destroyed, NEW n \in Nat, Fits(n), AllocInBlock(n)
  PROVE  ArenaInv'
  <1> DEFINE c == Current
  <1>1. /\ c \in Blocks /\ c \in Nat /\ current \in 1 .. Len(chain) /\ current \in Nat /\ Len(chain) \in Nat
    BY CurrentFacts
  <1>2. chain[current] = c
    BY DEF Current
  <1>3. /\ size \in Seq(Nat) /\ used \in Seq(Nat) /\ Len(used) = Len(size) /\ heap \subseteq Blocks
        /\ chain \in Seq(heap) /\ total_allocated \in Nat
    BY DEF ArenaInv, Types, TypeOK
  <1>4. /\ used' = [used EXCEPT ![c] = used[c] + n] /\ n <= size[c] - used[c] /\ HandOut(c, used[c], n)
        /\ heap' = heap /\ size' = size /\ chain' = chain /\ current' = current
        /\ total_allocated' = total_allocated
    BY DEF AllocInBlock, Fits
  <1> HIDE DEF c
  <1>5. Blocks' = Blocks /\ DOMAIN used = Blocks /\ (\A b \in Blocks : used[b] \in Nat /\ size[b] \in Nat)
    BY <1>4, BlockFacts DEF ArenaInv, Blocks
  <1>6. /\ used'[c] = used[c] + n /\ used[c] \in Nat
        /\ \A b \in Blocks : b # c => used'[b] = used[b]
    BY <1>1, <1>4, <1>5
  <1>7. used' \in Seq(Nat) /\ Len(used') = Len(used)
    <2>1. DOMAIN used = 1 .. Len(used) /\ Len(used) \in Nat
      BY <1>3
    <2>2. used' \in [1 .. Len(used) -> Nat]
      <3>1. used \in [1 .. Len(used) -> Nat] /\ used[c] + n \in Nat
        BY <1>3, <1>6, <2>1
      <3>2. QED
        BY <1>4, <3>1
    <2>3. QED
      BY <2>1, <2>2, FunctionIsSeq
  <1>8. \A b \in Blocks : used[b] <= used'[b] /\ used'[b] <= size[b]
    <2>1. \A b \in Blocks : used[b] <= size[b]
      BY DEF ArenaInv, ChainFits
    <2>2. QED
      BY <1>4, <1>5, <1>6, <2>1
  <1>9. \A p, q \in DOMAIN chain : chain[p] = chain[q] => p = q
    BY DEF ArenaInv, ChainFits
  <1>10. \A i \in 1 .. Len(live) : live[i].block = c => live[i].at + live[i].bytes <= used[c]
    BY LiveFacts
  <1>11. Grown(c, used[c], n)
    <2>1. used[c] + n <= used'[c] /\ current <= current' /\ current' \in 1 .. Len(chain')
      BY <1>1, <1>4, <1>6
    <2>2. /\ size' \in Seq(Nat) /\ Len(used') = Len(size') /\ heap' \subseteq Blocks'
          /\ chain' \in Seq(heap') /\ total_allocated' \in Nat
      BY <1>3, <1>4, <1>5, <1>7
    <2>3. Blocks \subseteq Blocks' /\ c \in Blocks' /\ chain'[current'] = c
      BY <1>1, <1>2, <1>4, <1>5
    <2>4. /\ \A p \in 1 .. current : chain'[p] = chain[p]
          /\ \A p, q \in DOMAIN chain' : chain'[p] = chain'[q] => p = q
      BY <1>4, <1>9
    <2>5. /\ \A b \in Blocks : used[b] <= used'[b]
          /\ \A b \in Blocks' : used'[b] <= size'[b]
      BY <1>4, <1>5, <1>8
    <2>6. QED
      BY <1>7, <1>10, <2>1, <2>2, <2>3, <2>4, <2>5, Zenon DEF Grown
  <1>12. QED
    BY <1>1, <1>4, <1>6, <1>11, HandOutKeeps

\* A new block replaces all that followed the current one.
LEMMA NewBlockKeeps ==
  ASSUME ArenaInv, kind # "none", ~is_destroyed, NEW n \in Nat, AllocNewBlock(n)
  PROVE  ArenaInv'
  <1> DEFINE b == Len(size) + 1
             kept == SubSeq(chain, 1, current)
             room == NewBlockSize(n)
  <1>1. CASE Panic("P0104") \/ OutOfMemory
    BY <1>1, PanicKeeps DEF OutOfMemory, Panic
  <1>2. CASE ~(Panic("P0104") \/ OutOfMemory)
    <2>1. /\ heap' = heap \cup {b} /\ size' = Append(size, room) /\ used' = Append(used, n)
          /\ chain' = Append(kept, b) /\ current' = current + 1
          /\ total_allocated' = total_allocated + room /\ HandOut(b, 0, n)
      BY <1>2 DEF AllocNewBlock
    <2>2. /\ size \in Seq(Nat) /\ used \in Seq(Nat) /\ Len(used) = Len(size) /\ heap \subseteq Blocks
          /\ chain \in Seq(heap) /\ total_allocated \in Nat /\ default_block_size \in Nat
      BY DEF ArenaInv, Types, TypeOK
    <2>3. room \in Nat /\ n <= room
      BY <2>2 DEF NewBlockSize
    <2>4. current \in 1 .. Len(chain) /\ current \in Nat /\ Len(chain) \in Nat
      BY CurrentFacts
    <2>5. b \in Nat /\ Len(size) \in Nat /\ b \notin Blocks /\ b \notin heap
      BY <2>2 DEF Blocks
    <2>6. kept \in Seq(heap) /\ Len(kept) = current /\ \A p \in 1 .. current : kept[p] = chain[p]
      BY <2>2, <2>4
    <2> HIDE DEF kept, room
    <2>7. /\ size' \in Seq(Nat) /\ Len(size') = b /\ size'[b] = room
          /\ \A d \in 1 .. Len(size) : size'[d] = size[d]
      BY <2>1, <2>2, <2>3
    <2>8. /\ used' \in Seq(Nat) /\ Len(used') = b /\ used'[b] = n
          /\ \A d \in 1 .. Len(size) : used'[d] = used[d]
      BY <2>1, <2>2
    <2>9. /\ chain' \in Seq(heap') /\ Len(chain') = current + 1 /\ chain'[current + 1] = b
          /\ \A p \in 1 .. current : chain'[p] = chain[p]
      <3>1. kept \in Seq(heap') /\ b \in heap'
        BY <2>1, <2>6
      <3>2. QED
        BY <2>1, <2>4, <2>6, <3>1
    <2>10. Blocks' = Blocks \cup {b} /\ (\A d \in Blocks : d \in 1 .. Len(size))
      BY <2>5, <2>7 DEF Blocks
    <2> HIDE DEF b
    <2>11. \A d \in Blocks : used[d] \in Nat /\ size[d] \in Nat /\ used[d] <= size[d]
      BY BlockFacts DEF ArenaInv, ChainFits
    <2>12. \A p, q \in DOMAIN chain' : chain'[p] = chain'[q] => p = q
      <3>1. \A p, q \in 1 .. current : chain[p] = chain[q] => p = q
        <4>1. \A p, q \in 1 .. Len(chain) : chain[p] = chain[q] => p = q
          BY BlockFacts DEF ArenaInv, ChainFits
        <4>2. \A p \in 1 .. current : p \in 1 .. Len(chain)
          BY <2>4
        <4>3. QED
          BY <4>1, <4>2
      <3>2. \A p \in 1 .. current : chain[p] # b
        <4>1. \A p \in 1 .. Len(chain) : chain[p] \in heap
          BY BlockFacts DEF ArenaInv
        <4>2. \A p \in 1 .. current : p \in 1 .. Len(chain)
          BY <2>4
        <4>3. QED
          BY <2>5, <4>1, <4>2
      <3>3. \A p \in DOMAIN chain' : p \in 1 .. current \/ p = current + 1
        BY <2>4, <2>9
      <3>4. QED
        BY <2>9, <3>1, <3>2, <3>3
    <2>13. \A i \in 1 .. Len(live) : live[i].block # b
      BY <2>5, LiveFacts
    <2>14. Grown(b, 0, n)
      <3>1. /\ heap' \subseteq Blocks' /\ total_allocated' \in Nat /\ Len(used') = Len(size')
        BY <2>1, <2>2, <2>3, <2>7, <2>8, <2>10
      <3>2. current' \in 1 .. Len(chain') /\ current <= current' /\ 0 + n <= used'[b]
        BY <2>1, <2>4, <2>8, <2>9
      <3>3. Blocks \subseteq Blocks' /\ b \in Blocks' /\ chain'[current'] = b
        BY <2>1, <2>9, <2>10
      <3>4. /\ \A d \in Blocks : used[d] <= used'[d]
            /\ \A d \in Blocks' : used'[d] <= size'[d]
        <4>1. \A d \in Blocks : used'[d] = used[d] /\ size'[d] = size[d]
          BY <2>7, <2>8, <2>10
        <4>2. used'[b] <= size'[b]
          BY <2>3, <2>7, <2>8
        <4>3. QED
          BY <2>10, <2>11, <4>1, <4>2
      <3>5. QED
        BY <2>7, <2>8, <2>9, <2>12, <2>13, <3>1, <3>2, <3>3, <3>4, Zenon DEF Grown
    <2>15. QED
      BY <2>1, <2>5, <2>14, HandOutKeeps
  <1>3. QED
    BY <1>1, <1>2

\* The allocation of any number of bytes.
LEMMA AllocKeeps ==
  ASSUME ArenaInv, kind # "none", NEW s \in Nat, gray_arena_alloc(s)
  PROVE  ArenaInv'
  <1>1. AlignUp(s) \in Nat
    BY AlignedIsNat
  <1>2. CASE is_destroyed /\ Panic("P0001")
    BY <1>2, PanicKeeps DEF Panic
  <1>3. CASE ~is_destroyed /\ Fits(AlignUp(s)) /\ AllocInBlock(AlignUp(s))
    BY <1>1, <1>3, InBlockKeeps
  <1>4. CASE ~is_destroyed /\ ~Fits(AlignUp(s)) /\ AllocNewBlock(AlignUp(s))
    BY <1>1, <1>4, NewBlockKeeps
  <1>5. QED
    BY <1>2, <1>3, <1>4, Zenon DEF gray_arena_alloc

-----------------------------------------------------------------------------
(* Scopes.                                                                 *)

\* A new mark lies above all the allocations and the marks before it.
LEMMA SaveKeeps ==
  ASSUME ArenaInv, gray_scope_save
  PROVE  ArenaInv'
  <1> DEFINE m == [position |-> current, block |-> Current, used |-> used[Current], live |-> Len(live)]
             N == Len(marks)
  <1>1. /\ kind = "managed" /\ ~is_destroyed /\ marks' = Append(marks, m) /\ N < MaxMarks
        /\ UNCHANGED <<kind, heap, size, used, chain, current, total_allocated, alloc_count,
                       default_block_size, maximum_bytes, is_destroyed, reset_count, handle, live, pointers>>
    BY DEF gray_scope_save, memory
  <1>2. /\ current \in 1 .. Len(chain) /\ Current \in Blocks /\ Current \in Nat /\ current \in Nat
        /\ chain[current] = Current /\ used[Current] \in Nat
    BY <1>1, CurrentFacts, BlockFacts DEF ArenaInv, Current
  <1>3. m.position = current /\ m.block = Current /\ m.used = used[Current] /\ m.live = Len(live) /\ m \in Marks
    BY <1>2, LiveFacts DEF Marks
  <1> HIDE DEF m
  <1>4. /\ N \in Nat /\ marks' \in Seq(Marks) /\ Len(marks') = N + 1 /\ DOMAIN marks' = 1 .. N + 1
        /\ marks'[N + 1] = m /\ \A k \in 1 .. N : marks'[k] = marks[k]
    <2>1. marks \in Seq(Marks)
      BY DEF ArenaInv, Types
    <2>2. QED
      BY <1>1, <1>3, <2>1
  <1>5. \A k \in 1 .. N + 1 : k = N + 1 \/ (k \in 1 .. N /\ marks'[k] = marks[k])
    BY <1>4
  <1>6. Types'
    <2>1. Len(marks') <= MaxMarks
      BY <1>1, <1>4, ArenaAssumption
    <2>2. Blocks' = Blocks
      BY <1>1 DEF Blocks
    <2>3. /\ kind' \in {"none", "user", "managed"}
          /\ size' \in Seq(Nat) /\ used' \in Seq(Nat) /\ Len(used') = Len(size')
          /\ heap' \subseteq Blocks' /\ chain' \in Seq(heap') /\ current' \in 0 .. Len(chain')
          /\ (current' = 0 <=> (kind' = "none" \/ is_destroyed'))
          /\ is_destroyed' \in BOOLEAN /\ handle' \in [Handles -> BOOLEAN]
          /\ \A i \in DOMAIN live' : live'[i].block \in Blocks'
          /\ live' \in Seq(Allocations) /\ pointers' \subseteq Pointers
      BY <1>1, <2>2, Zenon DEF ArenaInv, Types, TypeOK
    <2>4. {default_block_size', maximum_bytes', total_allocated', alloc_count', reset_count'} \subseteq Nat
      BY <1>1, Zenon DEF ArenaInv, Types, TypeOK
    <2>5. QED
      BY <1>4, <2>1, <2>3, <2>4, TypesFrom
  <1>7. KindFits' /\ ChainFits' /\ MemorySafe'
    <2>1. KindFits'
      BY <1>1, Zenon DEF ArenaInv, KindFits
    <2>2. Blocks' = Blocks
      BY <1>1 DEF Blocks
    <2>3. QED
      BY <1>1, <2>1, <2>2, Zenon DEF ArenaInv, ChainFits, MemorySafe
  <1>8. CheckedPointersLive' /\ Epochs'
    BY <1>1, Zenon DEF ArenaInv, CheckedPointersLive, Epochs, EpochCheckPasses
  <1>9. MarksHold'
    <2> SUFFICES ASSUME NEW k \in 1 .. N + 1
                 PROVE  /\ marks'[k].position \in 1 .. current
                        /\ chain[marks'[k].position] = marks'[k].block
                        /\ marks'[k].used <= used[marks'[k].block]
                        /\ marks'[k].live <= Len(live)
                        /\ \A i \in 1 .. marks'[k].live :
                             \E p \in 1 .. marks'[k].position :
                               /\ chain[p] = live[i].block
                               /\ p = marks'[k].position => live[i].at + live[i].bytes <= marks'[k].used
      <3>1. chain' = chain /\ used' = used /\ live' = live /\ current' = current
        BY <1>1
      <3>2. QED
        BY <1>4, <3>1, Zenon DEF MarksHold
    <2>1. CASE k \in 1 .. N /\ marks'[k] = marks[k]
      <3>1. /\ marks[k].position \in 1 .. current
            /\ chain[marks[k].position] = marks[k].block
            /\ marks[k].used <= used[marks[k].block]
            /\ marks[k].live <= Len(live)
            /\ \A i \in 1 .. marks[k].live :
                 \E p \in 1 .. marks[k].position :
                   /\ chain[p] = live[i].block
                   /\ p = marks[k].position => live[i].at + live[i].bytes <= marks[k].used
        BY <2>1, MarkFacts
      <3>2. QED
        BY <2>1, <3>1
    <2>2. CASE k = N + 1
      <3>1. marks'[k].position = current /\ marks'[k].block = Current /\ marks'[k].used = used[Current]
            /\ marks'[k].live = Len(live)
        BY <1>3, <1>4, <2>2
      <3>2. ASSUME NEW i \in 1 .. Len(live)
            PROVE  \E p \in 1 .. current :
                     /\ chain[p] = live[i].block
                     /\ p = current => live[i].at + live[i].bytes <= used[Current]
        <4>1. PICK p \in 1 .. current : chain[p] = live[i].block
          BY LiveFacts
        <4>2. live[i].at + live[i].bytes <= used[live[i].block]
          BY LiveFacts
        <4>3. QED
          BY <1>2, <4>1, <4>2, Zenon
      <3>3. current \in 1 .. current /\ used[Current] <= used[Current] /\ Len(live) <= Len(live)
        BY <1>2, LiveFacts
      <3>4. QED
        BY <1>2, <3>1, <3>2, <3>3, Zenon
    <2>3. QED
      BY <1>5, <2>1, <2>2
  <1>10. MarksNested'
    <2> SUFFICES ASSUME NEW j \in 1 .. N + 1, NEW k \in 1 .. N + 1, j < k
                 PROVE  /\ marks'[j].position <= marks'[k].position
                        /\ marks'[j].position = marks'[k].position => marks'[j].used <= marks'[k].used
                        /\ marks'[j].live <= marks'[k].live
      BY <1>4, Zenon DEF MarksNested
    <2>1. j \in 1 .. N /\ marks'[j] = marks[j]
      BY <1>4
    <2>2. CASE k \in 1 .. N /\ marks'[k] = marks[k]
      <3>1. DOMAIN marks = 1 .. N
        BY MarkFacts
      <3>2. QED
        BY <2>1, <2>2, <3>1, Zenon DEF ArenaInv, MarksNested
    <2>3. CASE k = N + 1
      <3>1. marks'[k].position = current /\ marks'[k].used = used[Current] /\ marks'[k].live = Len(live)
        BY <1>3, <1>4, <2>3
      <3>2. /\ marks[j].position \in 1 .. current /\ chain[marks[j].position] = marks[j].block
            /\ marks[j].used <= used[marks[j].block] /\ marks[j].live <= Len(live)
        BY <2>1, MarkFacts
      <3>3. marks[j].position <= current
        BY <1>2, <3>2
      <3>4. QED
        BY <1>2, <2>1, <3>1, <3>2, <3>3, Zenon
    <2>4. QED
      BY <1>5, <2>2, <2>3
  <1>11. QED
    BY <1>6, <1>7, <1>8, <1>9, <1>10 DEF ArenaInv

\* A restore brings back what there was when the mark was taken: the blocks
\* below it have not changed, and the marks inside it are gone.
LEMMA RestoreKeeps ==
  ASSUME ArenaInv, NEW k, gray_scope_restore(k)
  PROVE  ArenaInv'
  <1> DEFINE P == marks[k].position
             B == marks[k].block
             U == marks[k].used
             L == marks[k].live
             later == {chain[i] : i \in P + 1 .. Len(chain)}
  <1>1. /\ kind = "managed" /\ ~is_destroyed /\ k \in DOMAIN marks /\ current' = P
        /\ used' = [b \in DOMAIN used |-> IF b = B THEN U ELSE IF b \in later THEN 0 ELSE used[b]]
        /\ live' = SubSeq(live, 1, L) /\ marks' = SubSeq(marks, 1, k - 1)
        /\ UNCHANGED <<kind, heap, size, chain, total_allocated, alloc_count, default_block_size,
                       maximum_bytes, is_destroyed, reset_count, handle, pointers>>
    BY DEF gray_scope_restore
  <1>2. /\ k \in 1 .. Len(marks) /\ Len(marks) \in Nat /\ k \in Nat
        /\ P \in Nat /\ B \in Nat /\ U \in Nat /\ L \in Nat /\ P \in 1 .. current /\ chain[P] = B
        /\ U <= used[B] /\ L <= Len(live)
        /\ \A i \in 1 .. L : \E p \in 1 .. P :
             /\ chain[p] = live[i].block
             /\ p = P => live[i].at + live[i].bytes <= U
    <2>1. k \in 1 .. Len(marks)
      BY <1>1, MarkFacts
    <2>2. Len(marks) \in Nat /\ k \in Nat
      BY <2>1, MarkFacts
    <2>3. QED
      BY <2>1, <2>2, MarkFacts, Zenon
  <1>3. current \in 1 .. Len(chain) /\ current \in Nat /\ Len(chain) \in Nat
    BY <1>1, CurrentFacts
  <1>4. /\ DOMAIN used = Blocks /\ B \in Blocks
        /\ \A b \in Blocks : used[b] \in Nat /\ size[b] \in Nat /\ used[b] <= size[b]
        /\ \A p \in 1 .. Len(chain) : chain[p] \in Blocks
        /\ \A p, q \in 1 .. Len(chain) : chain[p] = chain[q] => p = q
    <2>1. DOMAIN used = Blocks /\ DOMAIN chain = 1 .. Len(chain)
      BY BlockFacts DEF ArenaInv
    <2>2. \A p \in 1 .. Len(chain) : chain[p] \in Blocks
      BY BlockFacts DEF ArenaInv
    <2>3. B \in Blocks
      BY <1>2, <1>3, <2>2
    <2>4. \A b \in Blocks : used[b] \in Nat /\ size[b] \in Nat
      BY BlockFacts DEF ArenaInv
    <2>5. QED
      BY <2>1, <2>2, <2>3, <2>4, Zenon DEF ArenaInv, ChainFits
  <1>5. \A p \in 1 .. P : p \in 1 .. Len(chain) /\ p \in Nat
    BY <1>2, <1>3
  \* What becomes of the blocks.
  <1>6. used'[B] = U /\ (\A b \in Blocks : used'[b] \in Nat /\ used'[b] <= used[b])
    BY <1>1, <1>2, <1>4
  <1>7. \A p \in 1 .. P : p # P => used'[chain[p]] = used[chain[p]]
    <2> SUFFICES ASSUME NEW p \in 1 .. P, p # P
                 PROVE  used'[chain[p]] = used[chain[p]]
      OBVIOUS
    <2>1. p \in 1 .. Len(chain) /\ P \in 1 .. Len(chain) /\ chain[p] # B
      BY <1>2, <1>3, <1>4, <1>5
    <2>2. \A i \in P + 1 .. Len(chain) : i \in 1 .. Len(chain) /\ i # p
      BY <1>2, <1>3
    <2>3. chain[p] \notin later
      BY <1>4, <2>1, <2>2
    <2>4. chain[p] \in DOMAIN used
      BY <1>4, <2>1
    <2> HIDE DEF later, B
    <2>5. QED
      BY <1>1, <2>1, <2>3, <2>4
  <1> HIDE DEF P, B, U, L, later
  <1>8. used' \in Seq(Nat) /\ Len(used') = Len(used)
    <2>1. used \in Seq(Nat) /\ Len(used) = Len(size)
      BY DEF ArenaInv, Types, TypeOK
    <2>2. DOMAIN used' = DOMAIN used /\ used' = [b \in DOMAIN used' |-> used'[b]]
      BY <1>1
    <2>3. QED
      BY <1>4, <1>6, <2>1, <2>2, UsedLowered
  \* What becomes of the allocations and of the marks.
  <1>9. /\ live' \in Seq(Allocations) /\ Len(live') = L /\ DOMAIN live' = 1 .. L
        /\ \A i \in 1 .. L : live'[i] = live[i] /\ i \in 1 .. Len(live)
    <2>1. live \in Seq(Allocations) /\ Len(live) \in Nat
      BY DEF ArenaInv, Types
    <2>2. L \in 0 .. Len(live)
      BY <1>2, <2>1
    <2>3. QED
      BY <1>1, <1>2, <2>1, <2>2, SMTT(30)
  <1>10. /\ marks' \in Seq(Marks) /\ Len(marks') = k - 1 /\ DOMAIN marks' = 1 .. k - 1
         /\ \A j \in 1 .. k - 1 : marks'[j] = marks[j] /\ j \in 1 .. Len(marks) /\ j < k
    <2>1. marks \in Seq(Marks)
      BY DEF ArenaInv, Types
    <2>2. QED
      BY <1>1, <1>2, <2>1
  <1>11. Blocks' = Blocks
    BY <1>1 DEF Blocks
  <1>12. Types'
    <2>1. /\ kind' \in {"none", "user", "managed"} /\ is_destroyed' \in BOOLEAN
          /\ handle' \in [Handles -> BOOLEAN] /\ pointers' \subseteq Pointers
          /\ size' \in Seq(Nat) /\ heap' \subseteq Blocks' /\ chain' \in Seq(heap')
      BY <1>1, <1>11, Zenon DEF ArenaInv, Types, TypeOK
    <2>2. {default_block_size', maximum_bytes', total_allocated', alloc_count', reset_count'} \subseteq Nat
      BY <1>1, Zenon DEF ArenaInv, Types, TypeOK
    <2>3. current' \in 0 .. Len(chain') /\ current' # 0
      BY <1>1, <1>2, <1>3
    <2>4. current' = 0 <=> (kind' = "none" \/ is_destroyed')
      <3>1. kind' # "none"
        BY <1>1
      <3>2. QED
        BY <1>1, <2>3, <3>1, Zenon
    <2>5. \A i \in DOMAIN live' : live'[i].block \in Blocks'
      BY <1>9, <1>11, LiveFacts, Zenon
    <2>6. Len(marks') <= MaxMarks
      <3>1. Len(marks) <= MaxMarks /\ MaxMarks \in Nat
        BY ArenaAssumption DEF ArenaInv, Types, TypeOK
      <3>2. QED
        BY <1>2, <1>10, <3>1
    <2>7. Len(used') = Len(size')
      BY <1>1, <1>8 DEF ArenaInv, Types, TypeOK
    <2>8. QED
      BY <1>8, <1>9, <1>10, <2>1, <2>2, <2>3, <2>4, <2>5, <2>6, <2>7, TypesFrom
  <1>13. KindFits' /\ CheckedPointersLive' /\ Epochs'
    <2>1. kind' = "managed" /\ kind # "user" /\ kind' # "none" /\ ~is_destroyed'
      BY <1>1
    <2>2. pointers' = {}
      BY <1>1, <2>1, Zenon DEF ArenaInv, KindFits
    <2>3. current' # 0
      BY <1>1, <1>2
    <2>4. QED
      BY <2>1, <2>2, <2>3, Zenon DEF KindFits, CheckedPointersLive, Epochs
  <1>14. ChainFits'
    <2>1. \A b \in Blocks : used'[b] <= size[b]
      BY <1>4, <1>6
    <2>2. QED
      BY <1>1, <1>11, <2>1, Zenon DEF ArenaInv, ChainFits
  <1>15. MemorySafe'
    <2>1. ASSUME NEW i \in 1 .. L
          PROVE  /\ live[i].block \in Blocks
                 /\ live[i].at + live[i].bytes <= used'[live[i].block]
                 /\ \E p \in 1 .. P : chain[p] = live[i].block
      <3>1. PICK p \in 1 .. P : chain[p] = live[i].block /\ (p = P => live[i].at + live[i].bytes <= U)
        BY <1>2
      <3>2. live[i].block \in Blocks /\ live[i].at + live[i].bytes <= used[live[i].block]
        BY <1>9, LiveFacts
      <3>3. live[i].at + live[i].bytes <= used'[live[i].block]
        BY <1>2, <1>6, <1>7, <3>1, <3>2, Zenon
      <3>4. QED
        BY <3>1, <3>2, <3>3
    <2>2. \A i, j \in 1 .. L : i < j /\ live[i].block = live[j].block => live[i].at + live[i].bytes <= live[j].at
      BY <1>9, LiveFacts, Zenon
    <2>3. \A b \in Blocks : used'[b] <= size'[b]
      BY <1>11, <1>14, Zenon DEF ChainFits
    <2>4. chain' = chain /\ current' = P
      BY <1>1
    <2>5. QED
      BY <1>9, <2>1, <2>2, <2>3, <2>4, Zenon DEF MemorySafe
  <1>16. \A j \in 1 .. k - 1 :
           /\ marks[j].position <= P /\ (marks[j].position = P => marks[j].used <= U) /\ marks[j].live <= L
    <2>1. DOMAIN marks = 1 .. Len(marks)
      BY MarkFacts
    <2>2. QED
      BY <1>2, <1>10, <2>1, Zenon DEF ArenaInv, MarksNested, P, U, L
  <1>17. MarksHold'
    <2> SUFFICES ASSUME NEW j \in 1 .. k - 1
                 PROVE  /\ marks[j].position \in 1 .. P
                        /\ chain[marks[j].position] = marks[j].block
                        /\ marks[j].used <= used'[marks[j].block]
                        /\ marks[j].live <= L
                        /\ \A i \in 1 .. marks[j].live :
                             \E p \in 1 .. marks[j].position :
                               /\ chain[p] = live'[i].block
                               /\ p = marks[j].position => live'[i].at + live'[i].bytes <= marks[j].used
      <3>1. chain' = chain /\ current' = P
        BY <1>1
      <3>2. QED
        <4>1. Len(live') = L /\ DOMAIN marks' = 1 .. k - 1 /\ \A i \in 1 .. k - 1 : marks'[i] = marks[i]
          BY <1>9, <1>10
        <4>2. QED
          <5> SUFFICES ASSUME NEW i \in 1 .. k - 1
                       PROVE  /\ marks'[i].position \in 1 .. P
                              /\ chain[marks'[i].position] = marks'[i].block
                              /\ marks'[i].used <= used'[marks'[i].block]
                              /\ marks'[i].live <= L
                              /\ \A x \in 1 .. marks'[i].live :
                                   \E p \in 1 .. marks'[i].position :
                                     /\ chain[p] = live'[x].block
                                     /\ p = marks'[i].position =>
                                          live'[x].at + live'[x].bytes <= marks'[i].used
            BY <3>1, <4>1, Zenon DEF MarksHold
          <5>1. marks'[i] = marks[i]
            BY <4>1
          <5>2. QED
            BY <5>1
    <2>1. /\ marks[j].position \in Nat /\ marks[j].live \in Nat /\ marks[j].position \in 1 .. current
          /\ chain[marks[j].position] = marks[j].block
          /\ marks[j].used <= used[marks[j].block]
          /\ \A i \in 1 .. marks[j].live :
               \E p \in 1 .. marks[j].position :
                 /\ chain[p] = live[i].block
                 /\ p = marks[j].position => live[i].at + live[i].bytes <= marks[j].used
      BY <1>10, MarkFacts, Zenon
    <2>2. marks[j].position \in 1 .. P
      BY <1>2, <1>3, <1>16, <2>1
    <2>3. marks[j].used <= used'[marks[j].block]
      BY <1>2, <1>6, <1>7, <1>16, <2>1, <2>2, Zenon
    <2>4. \A i \in 1 .. marks[j].live : i \in 1 .. L
      BY <1>2, <1>16, <2>1
    <2>5. QED
      BY <1>9, <1>16, <2>1, <2>2, <2>3, <2>4, Zenon
  <1>18. MarksNested'
    <2>1. DOMAIN marks = 1 .. Len(marks)
      BY MarkFacts
    <2>2. QED
      BY <1>10, <2>1, Zenon DEF ArenaInv, MarksNested
  <1>19. QED
    BY <1>12, <1>13, <1>14, <1>15, <1>17, <1>18 DEF ArenaInv

-----------------------------------------------------------------------------
(* Every step.                                                             *)

\* The step of any operation of the arena keeps the invariant.
LEMMA ArenaStep ==
  ASSUME ArenaInv, [Next]_vars
  PROVE  ArenaInv'
  <1>1. CASE UNCHANGED vars
    BY <1>1, PanicKeeps DEF vars
  <1>2. ASSUME NEW s \in UserSizes, gray_mem_arena(s)
        PROVE  ArenaInv'
    <2> DEFINE asked == IF s <= 0 THEN MinSize ELSE s
    <2>1. asked \in Nat
      BY ArenaAssumption
    <2>2. CASE asked > MaxSize
      BY <1>2, <2>2, PanicKeeps DEF gray_mem_arena, Panic
    <2>3. CASE ~(asked > MaxSize)
      <3>1. gray_arena_create("user", asked, 0)
        BY <1>2, <2>3, Zenon DEF gray_mem_arena
      <3> HIDE DEF asked
      <3>2. QED
        BY <2>1, <3>1, CreateKeeps
    <2>4. QED
      BY <2>2, <2>3
  <1>3. CASE gray_capped_arena_create
    <2>1. ManagedSize \in Nat /\ Cap \in Nat
      BY ArenaAssumption
    <2>2. QED
      BY <1>3, <2>1, CreateKeeps DEF gray_capped_arena_create
  <1>4. ASSUME NEW s \in Sizes, Alloc(s)
        PROVE  ArenaInv'
    <2>1. s \in Nat
      BY ArenaAssumption
    <2>2. CASE kind = "managed" /\ gray_arena_alloc(s)
      BY <2>1, <2>2, AllocKeeps
    <2>3. CASE kind = "user" /\ gray_arena_alloc(s)
      BY <2>1, <2>3, AllocKeeps
    <2>4. CASE Panic("P0171")
      BY <2>4, PanicKeeps DEF Panic
    <2>5. QED
      BY <1>4, <2>2, <2>3, <2>4, Zenon DEF Alloc, ThroughHandle
  <1>5. CASE Reset
    <2>1. CASE gray_arena_reset /\ marks' = <<>>
      BY <2>1, ResetKeeps
    <2>2. CASE kind = "user" /\ gray_arena_reset /\ UNCHANGED marks
      <3>1. marks = <<>>
        BY <2>2 DEF ArenaInv, KindFits
      <3>2. QED
        BY <2>2, <3>1, ResetKeeps
    <2>3. CASE Panic("P0171")
      BY <2>3, PanicKeeps DEF Panic
    <2>4. QED
      BY <1>5, <2>1, <2>2, <2>3, Zenon DEF Reset, ThroughHandle
  <1>6. CASE Destroy
    <2>1. handle \in [Handles -> BOOLEAN]
      BY Zenon DEF ArenaInv, Types, TypeOK
    <2>2. CASE kind = "managed" /\ gray_arena_destroy /\ UNCHANGED handle /\ marks' = <<>>
      BY <2>1, <2>2, DestroyKeeps
    <2>3. ASSUME NEW h \in Handles, kind = "user", gray_arena_destroy,
                 handle' = [handle EXCEPT ![h] = FALSE], UNCHANGED marks
          PROVE  ArenaInv'
      <3>1. marks = <<>>
        BY <2>3 DEF ArenaInv, KindFits
      <3>2. handle' \in [Handles -> BOOLEAN]
        BY <2>1, <2>3
      <3>3. QED
        BY <2>3, <3>1, <3>2, DestroyKeeps
    <2>4. CASE Panic("P0171") \/ Panic("P0002")
      BY <2>4, PanicKeeps DEF Panic
    <2>5. QED
      BY <1>6, <2>2, <2>3, <2>4, Zenon DEF Destroy, ThroughHandle
  <1>7. CASE gray_scope_save
    BY <1>7, SaveKeeps
  <1>8. ASSUME NEW k \in 1 .. MaxMarks, gray_scope_restore(k)
        PROVE  ArenaInv'
    BY <1>8, RestoreKeeps
  <1>9. QED
    BY <1>1, <1>2, <1>3, <1>4, <1>5, <1>6, <1>7, <1>8, Zenon DEF Next

-----------------------------------------------------------------------------
(* What the arena promises.                                                *)

\* The invariant holds in every behaviour.
LEMMA ArenaAlways == Spec => []ArenaInv
  <1>1. Init => ArenaInv
    BY Initially
  <1>2. ArenaInv /\ [Next]_vars => ArenaInv'
    BY ArenaStep
  <1>3. QED
    BY <1>1, <1>2, PTL DEF Spec

\* The chain is made of blocks that have not been freed, and the arena has a
\* current block from its creation (gray_arena_create) to its destruction
\* (gray_arena_destroy).
THEOREM ArenaTypes == Spec => []TypeOK
  <1>1. ArenaInv => TypeOK
    BY Zenon DEF ArenaInv, Types
  <1>2. QED
    BY <1>1, ArenaAlways, PTL

\* gray_arena_alloc hands out disjoint bytes of blocks that are reached and
\* have not been freed, for every size, limit and order of allocations, scope
\* restores and resets.
THEOREM AllocationsDisjoint == Spec => []MemorySafe
  <1>1. ArenaInv => MemorySafe
    BY Zenon DEF ArenaInv
  <1>2. QED
    BY <1>1, ArenaAlways, PTL

\* The watermark of gray_scope_save still marks the same place when
\* gray_scope_restore goes back to it, however deep the scopes nest.
THEOREM MarksAlwaysHold == Spec => []MarksHold
  <1>1. ArenaInv => MarksHold
    BY Zenon DEF ArenaInv
  <1>2. QED
    BY <1>1, ArenaAlways, PTL

\* gray_mem_check_live_epoch lets through no pointer to what mem.reset or
\* mem.destroy has released, through whatever copy of the handle.
THEOREM EpochCheckSound == Spec => []CheckedPointersLive
  <1>1. ArenaInv => CheckedPointersLive
    BY Zenon DEF ArenaInv
  <1>2. QED
    BY <1>1, ArenaAlways, PTL

-----------------------------------------------------------------------------
(* Sums along a sequence.                                                  *)

\* A set of natural numbers has a least element.
LEMMA LeastOf ==
  ASSUME NEW T \in SUBSET Nat, T # {}
  PROVE  \E x \in T : \A y \in Nat : y < x => y \notin T
  <1> DEFINE R == OpToRel(<, Nat)
  <1>1. IsWellFoundedOn(R, Nat)
    BY NatLessThanWellFounded
  <1>2. \A x, y \in Nat : y < x => <<y, x>> \in R
    BY DEF OpToRel
  <1> HIDE DEF R
  <1>3. PICK x \in T : \A y \in T : ~(<<y, x>> \in R)
    BY <1>1, WFMin, Zenon
  <1>4. QED
    BY <1>2, <1>3

\* f has the sums of the first elements of s, up to n of them.
Sums(s, n, f) ==
  /\ DOMAIN f = 0 .. n /\ f[0] = 0
  /\ \A p \in 1 .. n : f[p] = f[p - 1] + s[p]

\* There is such a function, for any number of elements.
LEMMA SumsExist ==
  ASSUME NEW s, NEW n \in Nat
  PROVE  \E f : f = [p \in 0 .. n |-> IF p = 0 THEN 0 ELSE f[p - 1] + s[p]]
  <1> DEFINE Exists(m) == \E f : f = [p \in 0 .. m |-> IF p = 0 THEN 0 ELSE f[p - 1] + s[p]]
             None == {m \in Nat : ~Exists(m)}
  <1> SUFFICES ASSUME None # {} PROVE FALSE
    OBVIOUS
  <1>1. None \in SUBSET Nat
    OBVIOUS
  <1>2. PICK m \in None : \A k \in Nat : k < m => k \notin None
    <2> HIDE DEF None
    <2>1. QED
      BY <1>1, LeastOf
  <1>3. m \in Nat /\ ~Exists(m)
    OBVIOUS
  <1>4. CASE m = 0
    <2> DEFINE f == [p \in 0 .. 0 |-> 0]
    <2>1. f = [p \in 0 .. m |-> IF p = 0 THEN 0 ELSE f[p - 1] + s[p]]
      BY <1>4
    <2>2. QED
      BY <1>3, <2>1
  <1>5. CASE m # 0
    <2>1. m - 1 \in Nat /\ m - 1 < m
      BY <1>3, <1>5
    <2>2. Exists(m - 1)
      BY <1>2, <2>1
    <2>3. PICK g : g = [p \in 0 .. m - 1 |-> IF p = 0 THEN 0 ELSE g[p - 1] + s[p]]
      BY <2>2
    <2> DEFINE f == [p \in 0 .. m |-> IF p = 0 THEN 0 ELSE g[p - 1] + s[p]]
    <2>4. \A p \in 0 .. m : p # 0 => p - 1 \in 0 .. m - 1 /\ p - 1 \in 0 .. m
      BY <1>3
    <2>5. \A p \in 0 .. m - 1 : p \in 0 .. m /\ f[p] = g[p]
      BY <1>3, <2>3
    <2>6. f = [p \in 0 .. m |-> IF p = 0 THEN 0 ELSE f[p - 1] + s[p]]
      BY <2>4, <2>5
    <2>7. QED
      BY <1>3, <2>6
  <1>6. QED
    BY <1>4, <1>5

\* PrefixSum takes the last of them.
LEMMA PrefixSumIs ==
  ASSUME NEW s, NEW n \in Nat
  PROVE  \E f : Sums(s, n, f) /\ PrefixSum(s, n) = f[n]
  <1> DEFINE f == CHOOSE f : f = [p \in 0 .. n |-> IF p = 0 THEN 0 ELSE f[p - 1] + s[p]]
  <1>1. f = [p \in 0 .. n |-> IF p = 0 THEN 0 ELSE f[p - 1] + s[p]]
    BY SumsExist
  <1>2. PrefixSum(s, n) = f[n]
    BY DEF PrefixSum
  <1> HIDE DEF f
  <1>3. DOMAIN f = 0 .. n
    BY <1>1
  <1>4. \A p \in 0 .. n : f[p] = IF p = 0 THEN 0 ELSE f[p - 1] + s[p]
    BY <1>1
  <1>5. 0 \in 0 .. n /\ \A p \in 1 .. n : p \in 0 .. n /\ p # 0
    OBVIOUS
  <1>6. Sums(s, n, f)
    BY <1>3, <1>4, <1>5 DEF Sums
  <1>7. QED
    BY <1>2, <1>6

\* The sums of the same elements are the same.
LEMMA SumsAgree ==
  ASSUME NEW s, NEW t, NEW n \in Nat, NEW m \in Nat, NEW f, NEW g, Sums(s, n, f), Sums(t, m, g),
         NEW k \in Nat, k <= n, k <= m, \A p \in 1 .. k : s[p] = t[p]
  PROVE  f[k] = g[k]
  <1> DEFINE T == {p \in 0 .. k : f[p] # g[p]}
  <1> SUFFICES ASSUME T # {} PROVE FALSE
    OBVIOUS
  <1>1. T \in SUBSET Nat
    OBVIOUS
  <1>2. PICK p \in T : \A q \in Nat : q < p => q \notin T
    <2> HIDE DEF T
    <2>1. QED
      BY <1>1, LeastOf
  <1>3. p \in 0 .. k /\ f[p] # g[p]
    OBVIOUS
  <1>4. p # 0
    BY <1>3 DEF Sums
  <1>5. p \in 1 .. k /\ p \in 1 .. n /\ p \in 1 .. m /\ p - 1 \in 0 .. k /\ p - 1 \in Nat /\ p - 1 < p
    BY <1>3, <1>4
  <1>6. f[p - 1] = g[p - 1]
    BY <1>2, <1>5
  <1>7. QED
    BY <1>3, <1>5, <1>6 DEF Sums

\* One element more.
LEMMA PrefixSumNext ==
  ASSUME NEW s, NEW n \in Nat
  PROVE  PrefixSum(s, 0) = 0 /\ PrefixSum(s, n + 1) = PrefixSum(s, n) + s[n + 1]
  <1>1. PICK e : Sums(s, 0, e) /\ PrefixSum(s, 0) = e[0]
    BY PrefixSumIs
  <1>2. PICK f : Sums(s, n, f) /\ PrefixSum(s, n) = f[n]
    BY PrefixSumIs
  <1>3. n + 1 \in Nat
    OBVIOUS
  <1>4. PICK g : Sums(s, n + 1, g) /\ PrefixSum(s, n + 1) = g[n + 1]
    BY <1>3, PrefixSumIs
  <1>5. f[n] = g[n]
    BY <1>2, <1>3, <1>4, SumsAgree
  <1>6. g[n + 1] = g[n] + s[n + 1]
    BY <1>4 DEF Sums
  <1>7. QED
    BY <1>1, <1>2, <1>4, <1>5, <1>6 DEF Sums

\* The sum depends on the elements it is of.
LEMMA PrefixSumSame ==
  ASSUME NEW s, NEW t, NEW n \in Nat, \A p \in 1 .. n : s[p] = t[p]
  PROVE  PrefixSum(s, n) = PrefixSum(t, n)
  <1>1. PICK f : Sums(s, n, f) /\ PrefixSum(s, n) = f[n]
    BY PrefixSumIs
  <1>2. PICK g : Sums(t, n, g) /\ PrefixSum(t, n) = g[n]
    BY PrefixSumIs
  <1>3. QED
    BY <1>1, <1>2, SumsAgree

\* The sum of natural numbers is one, and not less than that of fewer of them.
LEMMA PrefixSumGrows ==
  ASSUME NEW s, NEW n \in Nat, \A p \in 1 .. n : s[p] \in Nat, NEW k \in 0 .. n
  PROVE  PrefixSum(s, n) \in Nat /\ PrefixSum(s, k) \in Nat /\ PrefixSum(s, k) <= PrefixSum(s, n)
  <1>1. PICK f : Sums(s, n, f) /\ PrefixSum(s, n) = f[n]
    BY PrefixSumIs
  <1>2. PICK g : Sums(s, k, g) /\ PrefixSum(s, k) = g[k]
    BY PrefixSumIs
  <1>3. f[k] = g[k]
    BY <1>1, <1>2, SumsAgree
  <1> DEFINE T == {p \in 0 .. n : f[p] \notin Nat}
             U == {p \in k .. n : ~(f[p] >= f[k])}
  <1>4. ASSUME T # {} PROVE FALSE
    <2>1. T \in SUBSET Nat
      OBVIOUS
    <2>2. PICK p \in T : \A q \in Nat : q < p => q \notin T
      <3> HIDE DEF T
      <3>1. QED
        BY <1>4, <2>1, LeastOf
    <2>3. p \in 0 .. n /\ f[p] \notin Nat
      OBVIOUS
    <2>4. p # 0
      BY <1>1, <2>3 DEF Sums
    <2>5. p \in 1 .. n /\ p - 1 \in 0 .. n /\ p - 1 \in Nat /\ p - 1 < p
      BY <2>3, <2>4
    <2>6. f[p - 1] \in Nat
      BY <2>2, <2>5
    <2>7. f[p] = f[p - 1] + s[p] /\ s[p] \in Nat
      BY <1>1, <2>5 DEF Sums
    <2>8. QED
      BY <2>3, <2>6, <2>7
  <1>5. \A p \in 0 .. n : f[p] \in Nat
    BY <1>4
  <1>6. ASSUME U # {} PROVE FALSE
    <2>1. U \in SUBSET Nat
      OBVIOUS
    <2>2. PICK p \in U : \A q \in Nat : q < p => q \notin U
      <3> HIDE DEF U
      <3>1. QED
        BY <1>6, <2>1, LeastOf
    <2>3. p \in k .. n /\ ~(f[p] >= f[k])
      OBVIOUS
    <2>4. p # k
      BY <1>5, <2>3
    <2>5. p \in 1 .. n /\ p - 1 \in k .. n /\ p - 1 \in Nat /\ p - 1 < p
      BY <2>3, <2>4
    <2>6. f[p - 1] >= f[k] /\ f[p - 1] \in Nat /\ f[k] \in Nat
      BY <1>5, <2>2, <2>5
    <2>7. f[p] = f[p - 1] + s[p] /\ s[p] \in Nat
      BY <1>1, <2>5 DEF Sums
    <2>8. QED
      BY <2>3, <2>6, <2>7
  <1>7. f[n] \in Nat /\ f[n] >= f[k] /\ f[k] \in Nat
    BY <1>5, <1>6
  <1>8. QED
    BY <1>1, <1>2, <1>3, <1>7

-----------------------------------------------------------------------------
(* The limit.                                                              *)

\* The bytes of the blocks up to the current one are among those the arena
\* counts, and it counts no more than its limit, or than its first block.
TotalFits ==
  /\ ChainBytes(current) <= total_allocated
  /\ kind = "none" => maximum_bytes = 0
  /\ maximum_bytes > 0 =>
       total_allocated <= (IF maximum_bytes > default_block_size THEN maximum_bytes
                                                                 ELSE default_block_size)

\* The bytes of the first blocks are a number, that grows with the blocks.
LEMMA BytesGrow ==
  ASSUME Types, NEW n \in 0 .. Len(chain), NEW k \in 0 .. n
  PROVE  /\ ChainBytes(n) \in Nat /\ ChainBytes(k) \in Nat /\ ChainBytes(k) <= ChainBytes(n)
         /\ ChainBytes(0) = 0
         /\ n < Len(chain) => ChainBytes(n + 1) = ChainBytes(n) + size[chain[n + 1]]
  <1> DEFINE s == [p \in DOMAIN chain |-> size[chain[p]]]
  <1>1. /\ DOMAIN chain = 1 .. Len(chain) /\ Len(chain) \in Nat
        /\ \A p \in 1 .. Len(chain) : size[chain[p]] \in Nat
    BY BlockFacts
  <1>2. n \in Nat /\ \A p \in 1 .. n : s[p] \in Nat
    BY <1>1
  <1>3. n < Len(chain) => s[n + 1] = size[chain[n + 1]]
    BY <1>1
  <1>4. \A m : ChainBytes(m) = PrefixSum(s, m)
    BY DEF ChainBytes
  <1> HIDE DEF s
  <1>5. PrefixSum(s, n) \in Nat /\ PrefixSum(s, k) \in Nat /\ PrefixSum(s, k) <= PrefixSum(s, n)
    BY <1>2, PrefixSumGrows
  <1>6. PrefixSum(s, 0) = 0 /\ PrefixSum(s, n + 1) = PrefixSum(s, n) + s[n + 1]
    BY <1>2, PrefixSumNext
  <1>7. QED
    BY <1>3, <1>4, <1>5, <1>6

\* What the types say of the account.
LEMMA AccountFacts ==
  ASSUME Types
  PROVE  /\ current \in 0 .. Len(chain) /\ Len(chain) \in Nat /\ current \in Nat
         /\ total_allocated \in Nat /\ maximum_bytes \in Nat /\ default_block_size \in Nat
         /\ ChainBytes(current) \in Nat
  <1>1. /\ current \in 0 .. Len(chain) /\ Len(chain) \in Nat
        /\ total_allocated \in Nat /\ maximum_bytes \in Nat /\ default_block_size \in Nat
    BY BlockFacts DEF Types, TypeOK
  <1>2. QED
    BY <1>1, BytesGrow

\* A step that leaves the blocks and the account, and goes back in the chain.
LEMMA TotalLeft ==
  ASSUME Types, TotalFits, current' \in Nat,
         UNCHANGED <<kind, size, chain, total_allocated, maximum_bytes, default_block_size>>,
         current' <= current
  PROVE  TotalFits'
  <1>1. current \in 0 .. Len(chain) /\ current' \in 0 .. Len(chain) /\ total_allocated \in Nat
    BY AccountFacts
  <1>2. \A n : ChainBytes(n)' = ChainBytes(n)
    BY DEF ChainBytes
  <1>3. ChainBytes(current') <= ChainBytes(current) /\ ChainBytes(current) \in Nat /\ ChainBytes(current') \in Nat
    BY <1>1, BytesGrow
  <1>4. PICK c : c = current'
    OBVIOUS
  <1>5. ChainBytes(current)' = ChainBytes(c)
    BY <1>4 DEF ChainBytes
  <1>6. QED
    BY <1>1, <1>3, <1>4, <1>5 DEF TotalFits

\* A panic, and a step that only saves a mark, leave them all.
LEMMA PanicTotal ==
  ASSUME Types, TotalFits,
         UNCHANGED <<kind, memory, maximum_bytes, default_block_size>>
  PROVE  TotalFits'
  <1>1. UNCHANGED <<kind, size, chain, current, total_allocated, maximum_bytes, default_block_size>>
    BY DEF memory
  <1>2. current \in Nat
    BY AccountFacts
  <1>3. current' \in Nat /\ current' <= current
    BY <1>1, <1>2
  <1>4. QED
    BY <1>1, <1>3, TotalLeft

\* A new arena has its first block.
LEMMA CreateTotal ==
  ASSUME Types, TotalFits, NEW k, NEW initial_size \in Nat, NEW limit \in Nat,
         gray_arena_create(k, initial_size, limit), k # "none"
  PROVE  TotalFits'
  <1>1. CASE OutOfMemory
    BY <1>1, PanicTotal DEF OutOfMemory, Panic
  <1>2. CASE ~OutOfMemory
    <2>1. /\ kind' = k /\ size' = <<initial_size>> /\ chain' = <<1>> /\ current' = 1
          /\ default_block_size' = initial_size /\ maximum_bytes' = limit
          /\ total_allocated' = initial_size
      BY <1>2 DEF gray_arena_create
    <2>2. PICK t : t = [p \in DOMAIN chain' |-> size'[chain'[p]]]
      OBVIOUS
    <2>3. t[0 + 1] = initial_size
      BY <2>1, <2>2
    <2>4. ChainBytes(current)' = PrefixSum(t, 0 + 1)
      BY <2>1, <2>2 DEF ChainBytes
    <2>5. PrefixSum(t, 0) = 0 /\ PrefixSum(t, 0 + 1) = PrefixSum(t, 0) + t[0 + 1]
      BY PrefixSumNext
    <2>6. ChainBytes(current)' = initial_size
      BY <2>3, <2>4, <2>5
    <2>7. QED
      BY <2>1, <2>6 DEF TotalFits
  <1>3. QED
    BY <1>1, <1>2

\* A new block is looked at before it is added.
LEMMA NewBlockTotal ==
  ASSUME Types, TotalFits, kind # "none", ~is_destroyed, NEW n \in Nat, AllocNewBlock(n)
  PROVE  TotalFits'
  <1> DEFINE b == Len(size) + 1
             room == NewBlockSize(n)
  <1>1. CASE Panic("P0104") \/ OutOfMemory
    BY <1>1, PanicTotal DEF OutOfMemory, Panic
  <1>2. CASE ~(Panic("P0104") \/ OutOfMemory)
    <2>1. /\ size' = Append(size, room) /\ chain' = Append(SubSeq(chain, 1, current), b)
          /\ current' = current + 1 /\ total_allocated' = total_allocated + room
          /\ ~(maximum_bytes > 0 /\ total_allocated + room > maximum_bytes)
          /\ UNCHANGED <<kind, maximum_bytes, default_block_size>>
      BY <1>2 DEF AllocNewBlock, HandOut
    <2>2. /\ current \in 0 .. Len(chain) /\ Len(chain) \in Nat /\ current \in Nat
          /\ total_allocated \in Nat /\ maximum_bytes \in Nat /\ default_block_size \in Nat
          /\ ChainBytes(current) \in Nat
      BY AccountFacts
    <2>3. room \in Nat
      BY <2>2 DEF NewBlockSize
    <2>4. /\ size \in Seq(Nat) /\ chain \in Seq(heap) /\ heap \subseteq Blocks
      BY DEF Types, TypeOK
    <2> HIDE DEF room
    <2>5. /\ DOMAIN chain' = 1 .. current + 1 /\ chain'[current + 1] = b
          /\ \A p \in 1 .. current : chain'[p] = chain[p]
      <3>1. PICK kept : kept = SubSeq(chain, 1, current)
        OBVIOUS
      <3>2. kept \in Seq(heap) /\ Len(kept) = current /\ \A p \in 1 .. current : kept[p] = chain[p]
        BY <2>2, <2>4, <3>1
      <3>3. chain' = Append(kept, b) /\ kept \in Seq(heap \cup {b}) /\ b \in heap \cup {b}
        BY <2>1, <3>1, <3>2
      <3>4. QED
        BY <2>2, <3>2, <3>3
    <2>6. /\ size'[b] = room /\ \A d \in Blocks : size'[d] = size[d]
      BY <2>1, <2>3, <2>4 DEF Blocks
    <2>7. \A p \in 1 .. current : chain[p] \in Blocks
      BY <2>2, BlockFacts
    <2>8. ChainBytes(current)' = ChainBytes(current) + room
      <3>1. PICK c, s, t : /\ c = current /\ s = [p \in DOMAIN chain |-> size[chain[p]]]
                           /\ t = [p \in DOMAIN chain' |-> size'[chain'[p]]]
        OBVIOUS
      <3>2. /\ DOMAIN chain = 1 .. Len(chain) /\ DOMAIN chain' = 1 .. c + 1
            /\ c \in Nat /\ \A p \in 1 .. c : p \in 1 .. Len(chain) /\ p \in 1 .. c + 1
        BY <2>2, <2>4, <2>5, <3>1
      <3>3. \A p \in 1 .. c : t[p] = s[p]
        BY <2>5, <2>6, <2>7, <3>1, <3>2
      <3>4. t[c + 1] = room
        BY <2>5, <2>6, <3>1, <3>2
      <3>5. PrefixSum(t, c) = PrefixSum(s, c) /\ PrefixSum(t, c + 1) = PrefixSum(t, c) + t[c + 1]
        BY <3>2, <3>3, PrefixSumSame, PrefixSumNext
      <3>6. ChainBytes(current) = PrefixSum(s, c) /\ ChainBytes(current)' = PrefixSum(t, c + 1)
        BY <2>1, <3>1 DEF ChainBytes
      <3>7. QED
        BY <3>4, <3>5, <3>6
    <2>9. QED
      BY <2>1, <2>2, <2>3, <2>8 DEF TotalFits
  <1>3. QED
    BY <1>1, <1>2

\* An allocation adds a block to the account or none.
LEMMA AllocTotal ==
  ASSUME Types, TotalFits, kind # "none", NEW s \in Nat, gray_arena_alloc(s)
  PROVE  TotalFits'
  <1>1. AlignUp(s) \in Nat
    BY AlignedIsNat
  <1>2. CASE is_destroyed /\ Panic("P0001")
    BY <1>2, PanicTotal DEF Panic
  <1>3. CASE ~is_destroyed /\ Fits(AlignUp(s)) /\ AllocInBlock(AlignUp(s))
    <2>1. UNCHANGED <<kind, size, chain, current, total_allocated, maximum_bytes, default_block_size>>
      BY <1>3 DEF AllocInBlock, HandOut
    <2>2. current \in Nat
      BY AccountFacts
    <2>3. current' \in Nat /\ current' <= current
      BY <2>1, <2>2
    <2>4. QED
      BY <2>1, <2>3, TotalLeft
  <1>4. CASE ~is_destroyed /\ ~Fits(AlignUp(s)) /\ AllocNewBlock(AlignUp(s))
    BY <1>1, <1>4, NewBlockTotal
  <1>5. QED
    BY <1>2, <1>3, <1>4, Zenon DEF gray_arena_alloc

\* A reset counts the first block again, and nothing else.
LEMMA ResetTotal ==
  ASSUME Types, KindFits, TotalFits, kind # "none", gray_arena_reset
  PROVE  TotalFits'
  <1>1. /\ current' = IF chain = <<>> THEN 0 ELSE 1
        /\ total_allocated' = IF chain = <<>> THEN 0 ELSE size[chain[1]]
        /\ UNCHANGED <<kind, size, chain, maximum_bytes, default_block_size>>
    BY DEF gray_arena_reset
  <1>2. /\ current \in 0 .. Len(chain) /\ Len(chain) \in Nat /\ current \in Nat
        /\ total_allocated \in Nat /\ maximum_bytes \in Nat /\ default_block_size \in Nat
        /\ ChainBytes(current) \in Nat
    BY AccountFacts
  <1>3. ChainBytes(current)' = ChainBytes(current')
    <2>1. PICK c : c = current'
      OBVIOUS
    <2>2. QED
      BY <1>1, <2>1 DEF ChainBytes
  <1>4. CASE chain = <<>>
    <2>1. ChainBytes(0) = 0
      BY <1>2, BytesGrow
    <2>2. QED
      BY <1>1, <1>2, <1>3, <1>4, <2>1 DEF TotalFits
  <1>5. CASE chain # <<>>
    <2>1. current # 0
      BY <1>5 DEF KindFits
    <2>2. 1 \in 0 .. current /\ 0 \in 0 .. Len(chain) /\ 0 < Len(chain) /\ 0 \in 0 .. 0
      BY <1>2, <2>1
    <2>3. ChainBytes(1) \in Nat /\ ChainBytes(1) <= ChainBytes(current)
      BY <1>2, <2>2, BytesGrow
    <2>4. ChainBytes(0) = 0 /\ ChainBytes(0 + 1) = ChainBytes(0) + size[chain[0 + 1]]
      BY <2>2, BytesGrow
    <2>5. size[chain[1]] = ChainBytes(1)
      <3>1. size[chain[1]] \in Nat
        BY <1>2, <2>2, BlockFacts
      <3>2. QED
        BY <2>4, <3>1
    <2>6. QED
      BY <1>1, <1>2, <1>3, <1>5, <2>3, <2>5 DEF TotalFits
  <1>6. QED
    BY <1>4, <1>5

\* A destroyed arena has no current block.
LEMMA DestroyTotal ==
  ASSUME Types, TotalFits, kind # "none", gray_arena_destroy
  PROVE  TotalFits'
  <1>1. /\ chain' = <<>> /\ current' = 0
        /\ UNCHANGED <<kind, size, total_allocated, maximum_bytes, default_block_size>>
    BY DEF gray_arena_destroy
  <1>2. total_allocated \in Nat
    BY AccountFacts
  <1>3. PICK t : t = [p \in DOMAIN chain' |-> size'[chain'[p]]]
    OBVIOUS
  <1>4. ChainBytes(current)' = PrefixSum(t, 0)
    BY <1>1, <1>3 DEF ChainBytes
  <1>5. PrefixSum(t, 0) = 0
    BY PrefixSumNext
  <1>6. QED
    BY <1>1, <1>2, <1>4, <1>5 DEF TotalFits

\* A restore goes back to a block of the chain, and counts them all.
LEMMA RestoreTotal ==
  ASSUME ArenaInv, TotalFits, NEW k, gray_scope_restore(k)
  PROVE  TotalFits'
  <1>1. /\ k \in DOMAIN marks /\ current' = marks[k].position
        /\ UNCHANGED <<kind, size, chain, total_allocated, maximum_bytes, default_block_size>>
    BY DEF gray_scope_restore
  <1>2. Types /\ current \in Nat
    BY AccountFacts, Zenon DEF ArenaInv
  <1>3. marks[k].position \in 1 .. current
    BY <1>1, MarkFacts
  <1>4. current' \in Nat /\ current' <= current
    BY <1>1, <1>2, <1>3
  <1>5. QED
    BY <1>1, <1>2, <1>4, TotalLeft

\* The account is right after the step of any operation.
LEMMA TotalStep ==
  ASSUME ArenaInv, TotalFits, [Next]_vars
  PROVE  TotalFits'
  <1> Types /\ KindFits
    BY Zenon DEF ArenaInv
  <1>1. CASE UNCHANGED vars
    BY <1>1, PanicTotal DEF vars
  <1>2. ASSUME NEW s \in UserSizes, gray_mem_arena(s)
        PROVE  TotalFits'
    <2> DEFINE asked == IF s <= 0 THEN MinSize ELSE s
    <2>1. asked \in Nat
      BY ArenaAssumption
    <2>2. CASE asked > MaxSize
      BY <1>2, <2>2, PanicTotal DEF gray_mem_arena, Panic
    <2>3. CASE ~(asked > MaxSize)
      <3>1. gray_arena_create("user", asked, 0)
        BY <1>2, <2>3, Zenon DEF gray_mem_arena
      <3> HIDE DEF asked
      <3>2. QED
        BY <2>1, <3>1, CreateTotal
    <2>4. QED
      BY <2>2, <2>3
  <1>3. CASE gray_capped_arena_create
    <2>1. ManagedSize \in Nat /\ Cap \in Nat
      BY ArenaAssumption
    <2>2. QED
      BY <1>3, <2>1, CreateTotal DEF gray_capped_arena_create
  <1>4. ASSUME NEW s \in Sizes, Alloc(s)
        PROVE  TotalFits'
    <2>1. s \in Nat
      BY ArenaAssumption
    <2>2. CASE kind # "none" /\ gray_arena_alloc(s)
      BY <2>1, <2>2, AllocTotal
    <2>3. CASE Panic("P0171")
      BY <2>3, PanicTotal DEF Panic
    <2>4. (kind \in {"managed", "user"} /\ gray_arena_alloc(s)) \/ Panic("P0171")
      BY <1>4, Zenon DEF Alloc, ThroughHandle
    <2>5. QED
      BY <2>2, <2>3, <2>4
  <1>5. CASE Reset
    <2>1. CASE kind # "none" /\ gray_arena_reset
      BY <2>1, ResetTotal
    <2>2. CASE Panic("P0171")
      BY <2>2, PanicTotal DEF Panic
    <2>3. (kind \in {"managed", "user"} /\ gray_arena_reset) \/ Panic("P0171")
      BY <1>5, Zenon DEF Reset, ThroughHandle
    <2>4. QED
      BY <2>1, <2>2, <2>3
  <1>6. CASE Destroy
    <2>1. CASE kind # "none" /\ gray_arena_destroy
      BY <2>1, DestroyTotal
    <2>2. CASE Panic("P0171") \/ Panic("P0002")
      BY <2>2, PanicTotal DEF Panic
    <2>3. (kind \in {"managed", "user"} /\ gray_arena_destroy) \/ Panic("P0171") \/ Panic("P0002")
      BY <1>6, Zenon DEF Destroy, ThroughHandle
    <2>4. QED
      BY <2>1, <2>2, <2>3
  <1>7. CASE gray_scope_save
    BY <1>7, PanicTotal DEF gray_scope_save
  <1>8. ASSUME NEW k \in 1 .. MaxMarks, gray_scope_restore(k)
        PROVE  TotalFits'
    BY <1>8, RestoreTotal
  <1>9. QED
    BY <1>1, <1>2, <1>3, <1>4, <1>5, <1>6, <1>7, <1>8, Zenon DEF Next

\* gray_arena_alloc keeps a managed arena under --arena-limit: the blocks that
\* its live allocations can be in never hold more bytes than the limit, or
\* than the first block, which is not looked at, through any order of
\* allocations, scope restores and resets.
THEOREM LimitHolds == Spec => []LiveWithinLimit
  <1>1. Init => ArenaInv /\ TotalFits
    <2>1. ASSUME Init
          PROVE  TotalFits
      <3>1. current = 0 /\ total_allocated = 0 /\ maximum_bytes = 0
        BY <2>1 DEF Init
      <3>2. ArenaInv /\ Types
        BY <2>1, Initially, Zenon DEF ArenaInv
      <3>3. ChainBytes(current) = 0
        BY <3>1, <3>2, AccountFacts, BytesGrow
      <3>4. QED
        BY <3>1, <3>3 DEF TotalFits
    <2>2. QED
      BY <2>1, Initially
  <1>2. (ArenaInv /\ TotalFits) /\ [Next]_vars => (ArenaInv /\ TotalFits)'
    BY ArenaStep, TotalStep
  <1>3. ArenaInv /\ TotalFits => LiveWithinLimit
    <2>1. ASSUME ArenaInv, TotalFits
          PROVE  LiveWithinLimit
      <3>1. Types
        BY <2>1, Zenon DEF ArenaInv
      <3>2. /\ total_allocated \in Nat /\ maximum_bytes \in Nat /\ default_block_size \in Nat
            /\ ChainBytes(current) \in Nat
        BY <3>1, AccountFacts
      <3>3. QED
        BY <2>1, <3>2 DEF TotalFits, LiveWithinLimit
    <2>2. QED
      BY <2>1
  <1>4. QED
    BY <1>1, <1>2, <1>3, PTL DEF Spec
=============================================================================
