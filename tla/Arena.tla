------------------------------- MODULE Arena -------------------------------
(***************************************************************************)
(* The arena allocator of grayc/src/runtime/runtime.c, with the watermarks *)
(* of scopes and the @mem functions of grayc/src/stdlib/mem.c: one arena,  *)
(* from its creation to its destruction.                                   *)
(*                                                                         *)
(* The blocks malloc returned are numbers.  The linked list of blocks is   *)
(* the sequence "chain"; current is the position of the block the next     *)
(* allocation goes to, and "current->next = block" cuts the chain behind   *)
(* it.  live, pointers and marks are what the program holds: the code has  *)
(* no record of them.                                                      *)
(***************************************************************************)
EXTENDS Integers, Sequences, FiniteSets

CONSTANTS
  Sizes,        \* the byte counts asked for
  UserSizes,    \* the arguments given to mem.arena
  ManagedSize,  \* FUNCTION_ARENA_SIZE and the like: the first block of a scope
  MinSize,      \* GRAY_MIN_ARENA_SIZE
  MaxSize,      \* GRAY_MAX_ARENA_SIZE
  Cap,          \* gray_arena_cap, the --arena-limit
  Handles,      \* the copies of the Arena handle a program has made
  MaxAllocs,    \* bound: allocations in one behaviour
  MaxMarks,     \* bound: nested scopes
  MaxResets     \* bound: resets in one behaviour

ASSUME ArenaAssumption ==
  /\ Sizes \subseteq Nat /\ UserSizes \subseteq Int
  /\ {ManagedSize, MinSize, MaxSize, Cap} \subseteq Nat
  /\ {MaxAllocs, MaxMarks, MaxResets} \subseteq Nat
  /\ IsFiniteSet(Handles)

VARIABLES
  kind,          \* "none", "user" (mem.arena) or "managed" (a scope's arena)
  heap,          \* the blocks that malloc returned and free has not taken back
  size, used,    \* of every block made so far
  chain,         \* the blocks reachable from first, in order
  current,       \* the position in chain of arena->current, 0 when it is NULL
  default_block_size, maximum_bytes, total_allocated, alloc_count,
  is_destroyed, reset_count,
  handle,        \* handle[h]: this copy of the handle is not NULL
  marks,         \* the GrayScopeMarks taken and not given back, innermost last
  live,          \* the allocations nobody has released, oldest first
  pointers,      \* every pointer mem.alloc handed out, with its epoch
  panicked       \* the code of the panic that ended the process, or "none"

memory == <<heap, size, used, chain, current, total_allocated, alloc_count>>
program == <<handle, marks, live, pointers>>
vars == <<kind, memory, default_block_size, maximum_bytes, is_destroyed,
          reset_count, program, panicked>>

\* ALIGN_UP(x, 8)
AlignUp(x) == ((x + 7) \div 8) * 8

Init ==
  /\ kind = "none"
  /\ heap = {} /\ size = <<>> /\ used = <<>> /\ chain = <<>> /\ current = 0
  /\ default_block_size = 0 /\ maximum_bytes = 0 /\ total_allocated = 0
  /\ alloc_count = 0
  /\ is_destroyed = FALSE /\ reset_count = 0
  /\ handle = [h \in Handles |-> FALSE]
  /\ marks = <<>> /\ live = <<>> /\ pointers = {}
  /\ panicked = "none"

Panic(code) ==
  /\ panicked' = code
  /\ UNCHANGED <<kind, memory, default_block_size, maximum_bytes, is_destroyed,
                 reset_count, program>>

-----------------------------------------------------------------------------
(* Creation.                                                               *)

\* malloc failed in gray_arena_create or gray_arena_block_create: exit(1).
OutOfMemory == Panic("out of memory")

gray_arena_create(k, initial_size, limit) ==
  /\ kind = "none"
  /\ \/ OutOfMemory
     \/ /\ kind' = k
        /\ heap' = {1} /\ size' = <<initial_size>> /\ used' = <<0>>
        /\ chain' = <<1>> /\ current' = 1
        /\ default_block_size' = initial_size
        /\ maximum_bytes' = limit
        /\ total_allocated' = initial_size /\ alloc_count' = 0
        /\ handle' = [h \in Handles |-> TRUE]
        /\ UNCHANGED <<is_destroyed, reset_count, marks, live, pointers, panicked>>

\* mem.arena(s): no limit on its growth.
gray_mem_arena(s) ==
  LET asked == IF s <= 0 THEN MinSize ELSE s
  IN  IF asked > MaxSize THEN kind = "none" /\ Panic("P0061")
      ELSE gray_arena_create("user", asked, 0)

\* The arena of a function body, an if block, a loop iteration or a thread.
gray_capped_arena_create == gray_arena_create("managed", ManagedSize, Cap)

-----------------------------------------------------------------------------
(* Allocation.                                                             *)

Current == chain[current]
Fits(n) == n <= size[Current] - used[Current]
NewBlockSize(n) == IF n > default_block_size THEN n ELSE default_block_size

\* The program gets n bytes at offset at of block b.
HandOut(b, at, n) ==
  /\ alloc_count' = alloc_count + 1
  /\ live' = Append(live, [block |-> b, at |-> at, bytes |-> n])
  /\ pointers' = IF kind # "user" THEN pointers
                 ELSE pointers \cup {[block |-> b, at |-> at, epoch |-> reset_count,
                                      number |-> Len(live) + 1]}
  /\ UNCHANGED <<kind, default_block_size, maximum_bytes, is_destroyed,
                 reset_count, handle, marks, panicked>>

AllocInBlock(n) ==
  /\ used' = [used EXCEPT ![Current] = @ + n]
  /\ HandOut(Current, used[Current], n)
  /\ UNCHANGED <<heap, size, chain, current, total_allocated>>

\* Bug: the limit is not looked at.
AllocNewBlockNoLimit(n) ==
  LET b == Len(size) + 1
  IN  /\ heap' = heap \cup {b}
      /\ size' = Append(size, NewBlockSize(n))
      /\ used' = Append(used, n)
      /\ chain' = Append(SubSeq(chain, 1, current), b)
      /\ current' = current + 1
      /\ total_allocated' = total_allocated + NewBlockSize(n)
      /\ HandOut(b, 0, n)

\* arena->current->next = block: what followed current leaves the chain.
AllocNewBlock(n) ==
  LET b == Len(size) + 1
      is_over == /\ maximum_bytes > 0
                 /\ total_allocated + NewBlockSize(n) > maximum_bytes
  IN  \/ is_over /\ Panic("P0104")
      \/ ~is_over /\ OutOfMemory
      \/ /\ ~is_over
         /\ heap' = heap \cup {b}
         /\ size' = Append(size, NewBlockSize(n))
         /\ used' = Append(used, n)
         /\ chain' = Append(SubSeq(chain, 1, current), b)
         /\ current' = current + 1
         /\ total_allocated' = total_allocated + NewBlockSize(n)
         /\ HandOut(b, 0, n)

gray_arena_alloc(s) ==
  LET n == AlignUp(s)
  IN  /\ alloc_count < MaxAllocs
      /\ \/ is_destroyed /\ Panic("P0001")
         \/ ~is_destroyed /\ Fits(n) /\ AllocInBlock(n)
         \/ ~is_destroyed /\ ~Fits(n) /\ AllocNewBlock(n)

\* gray_mem_live: a mem function called through a NULL handle panics.
ThroughHandle(h, A) ==
  /\ kind = "user"
  /\ \/ ~handle[h] /\ Panic("P0171")
     \/ handle[h] /\ A

\* Generated code allocates in a managed arena directly.
Alloc(s) ==
  \/ kind = "managed" /\ ~is_destroyed /\ gray_arena_alloc(s)
  \/ \E h \in Handles : ThroughHandle(h, gray_arena_alloc(s))

-----------------------------------------------------------------------------
(* Reset and destruction.                                                  *)

\* Bug: reset forgets to bump reset_count.
ResetKeepsEpoch ==
  /\ reset_count < MaxResets
  /\ used' = [b \in DOMAIN used |->
                IF b \in {chain[i] : i \in DOMAIN chain} THEN 0 ELSE used[b]]
  /\ current' = IF chain = <<>> THEN 0 ELSE 1
  /\ total_allocated' = IF chain = <<>> THEN 0 ELSE size[chain[1]]
  /\ live' = <<>>
  /\ UNCHANGED <<kind, heap, size, chain, alloc_count, default_block_size, maximum_bytes,
                 is_destroyed, reset_count, handle, pointers, panicked>>

\* A reset through a stale copy of the handle of a destroyed arena finds
\* first = NULL and resets nothing.
gray_arena_reset ==
  /\ reset_count < MaxResets
  /\ used' = [b \in DOMAIN used |->
                IF b \in {chain[i] : i \in DOMAIN chain} THEN 0 ELSE used[b]]
  /\ current' = IF chain = <<>> THEN 0 ELSE 1
  /\ total_allocated' = IF chain = <<>> THEN 0 ELSE size[chain[1]]
  /\ reset_count' = reset_count + 1
  /\ live' = <<>>
  /\ UNCHANGED <<kind, heap, size, chain, alloc_count, default_block_size, maximum_bytes,
                 is_destroyed, handle, pointers, panicked>>

\* Bug: current still points to a block that has been freed.
DestroyKeepsCurrent ==
  /\ heap' = heap \ {chain[i] : i \in DOMAIN chain}
  /\ chain' = <<>> /\ current' = current
  /\ is_destroyed' = TRUE
  /\ live' = <<>>
  /\ UNCHANGED <<kind, size, used, alloc_count, default_block_size, maximum_bytes,
                 total_allocated, reset_count, pointers, panicked>>

gray_arena_destroy ==
  /\ heap' = heap \ {chain[i] : i \in DOMAIN chain}
  /\ chain' = <<>> /\ current' = 0
  /\ is_destroyed' = TRUE
  /\ live' = <<>>
  /\ UNCHANGED <<kind, size, used, alloc_count, default_block_size, maximum_bytes,
                 total_allocated, reset_count, pointers, panicked>>

\* Bug: the marks taken in the last iteration are used in the next.
ResetKeepsMarks ==
  \/ kind = "managed" /\ ~is_destroyed /\ gray_arena_reset /\ UNCHANGED marks
  \/ \E h \in Handles : ThroughHandle(h, gray_arena_reset /\ UNCHANGED marks)

\* mem.reset, or the top of a loop iteration: a continue in the last one may
\* have left an if without restoring its mark, which is dead now.
Reset ==
  \/ kind = "managed" /\ ~is_destroyed /\ gray_arena_reset /\ marks' = <<>>
  \/ \E h \in Handles : ThroughHandle(h, gray_arena_reset /\ UNCHANGED marks)

\* The end of the scope the arena belongs to, with the marks a return or a
\* break has left; mem.destroy sets the one handle it is given to NULL.
Destroy ==
  \/ /\ kind = "managed" /\ ~is_destroyed
     /\ gray_arena_destroy /\ UNCHANGED handle /\ marks' = <<>>
  \/ \E h \in Handles :
       ThroughHandle(h, \/ is_destroyed /\ Panic("P0002")
                        \/ /\ ~is_destroyed
                           /\ gray_arena_destroy
                           /\ handle' = [handle EXCEPT ![h] = FALSE]
                           /\ UNCHANGED marks)

-----------------------------------------------------------------------------
(* Scopes: generated code saves a watermark when it enters a void function *)
(* or a nested if, and restores it at the end.  A return restores the mark *)
(* of the function without the marks of the blocks inside it.              *)

gray_scope_save ==
  /\ kind = "managed" /\ ~is_destroyed
  /\ Len(marks) < MaxMarks
  /\ marks' = Append(marks, [position |-> current, block |-> Current,
                             used |-> used[Current], live |-> Len(live)])
  /\ UNCHANGED <<kind, memory, default_block_size, maximum_bytes, is_destroyed,
                 reset_count, handle, live, pointers, panicked>>

\* Bug: the marked block is emptied.
RestoreToStart(k) ==
  /\ kind = "managed" /\ ~is_destroyed
  /\ k \in DOMAIN marks
  /\ LET mark == marks[k]
         later == {chain[i] : i \in mark.position .. Len(chain)}
     IN  /\ used' = [b \in DOMAIN used |-> IF b \in later THEN 0 ELSE used[b]]
         /\ current' = mark.position
         /\ live' = SubSeq(live, 1, mark.live)
  /\ marks' = SubSeq(marks, 1, k - 1)
  /\ UNCHANGED <<kind, heap, size, chain, total_allocated, alloc_count,
                 default_block_size, maximum_bytes, is_destroyed, reset_count, handle, pointers,
                 panicked>>

gray_scope_restore(k) ==
  /\ kind = "managed" /\ ~is_destroyed
  /\ k \in DOMAIN marks
  /\ LET mark == marks[k]
         later == {chain[i] : i \in mark.position + 1 .. Len(chain)}
     IN  /\ used' = [b \in DOMAIN used |->
                       IF b = mark.block THEN mark.used
                       ELSE IF b \in later THEN 0 ELSE used[b]]
         /\ current' = mark.position
         /\ live' = SubSeq(live, 1, mark.live)
  /\ marks' = SubSeq(marks, 1, k - 1)
  /\ UNCHANGED <<kind, heap, size, chain, total_allocated, alloc_count,
                 default_block_size, maximum_bytes, is_destroyed, reset_count, handle, pointers,
                 panicked>>

-----------------------------------------------------------------------------
Next ==
  /\ panicked = "none"
  /\ \/ \E s \in UserSizes : gray_mem_arena(s)
     \/ gray_capped_arena_create
     \/ \E s \in Sizes : Alloc(s)
     \/ Reset
     \/ Destroy
     \/ gray_scope_save
     \/ \E k \in 1 .. MaxMarks : gray_scope_restore(k)

Spec == Init /\ [][Next]_vars

-----------------------------------------------------------------------------
(* Properties.                                                             *)

Blocks == 1 .. Len(size)

\* Every variable has its type: the blocks of the chain are blocks that have
\* not been freed, and current is one of them until the arena is destroyed.
TypeOK ==
  /\ kind \in {"none", "user", "managed"}
  /\ size \in Seq(Nat) /\ used \in Seq(Nat) /\ Len(used) = Len(size)
  /\ heap \subseteq Blocks
  /\ chain \in Seq(heap)
  /\ current \in 0 .. Len(chain)
  /\ current = 0 <=> (kind = "none" \/ is_destroyed)
  /\ {default_block_size, maximum_bytes, total_allocated, alloc_count,
      reset_count} \subseteq Nat
  /\ is_destroyed \in BOOLEAN
  /\ handle \in [Handles -> BOOLEAN]
  /\ \A i \in DOMAIN live : live[i].block \in Blocks
  /\ Len(marks) <= MaxMarks

\* What the allocator owes the program: the allocations nobody has released
\* are disjoint, each lies in the used part of a block that has not been
\* freed, and the block is one reset and destroy will reach.
MemorySafe ==
  /\ \A i, j \in DOMAIN live : i < j /\ live[i].block = live[j].block =>
       live[i].at + live[i].bytes <= live[j].at
  /\ \A i \in DOMAIN live :
       /\ live[i].at + live[i].bytes <= used[live[i].block]
       /\ used[live[i].block] <= size[live[i].block]
       /\ \E p \in 1 .. current : chain[p] = live[i].block

\* A watermark stays what it was when it was taken: its block is still where
\* it was in the chain, and nothing older than it lies above it.
MarksHold ==
  \A k \in DOMAIN marks :
    /\ marks[k].position \in 1 .. current
    /\ chain[marks[k].position] = marks[k].block
    /\ marks[k].used <= used[marks[k].block]
    /\ marks[k].live <= Len(live)
    /\ \A i \in 1 .. marks[k].live :
         \E p \in 1 .. marks[k].position :
           /\ chain[p] = live[i].block
           /\ p = marks[k].position => live[i].at + live[i].bytes <= marks[k].used

\* The sum of the first n elements of s.
PrefixSum(s, n) ==
  LET sum[p \in 0 .. n] == IF p = 0 THEN 0 ELSE sum[p - 1] + s[p]
  IN  sum[n]

\* The bytes in the first n blocks of the chain.
ChainBytes(n) == PrefixSum([p \in DOMAIN chain |-> size[chain[p]]], n)

\* The blocks a live allocation can be in fit under the limit, as long as the
\* first block alone does.
LiveWithinLimit ==
  maximum_bytes > 0 =>
    ChainBytes(current) <=
      (IF maximum_bytes > default_block_size THEN maximum_bytes
                                             ELSE default_block_size)

\* The two checks codegen emits before a dereference of the variable that
\* p = mem.alloc(h, x) assigned.  A local variable declared with that value has
\* kept the arena and its reset_count (gray_mem_check_live_epoch).  A global,
\* or a variable declared before, is checked through the expression h
\* (gray_mem_check_live), which is not looked at when it has become NULL.
EpochCheckPasses(p) == ~is_destroyed /\ p.epoch = reset_count
HandleCheckPasses(h) == handle[h] => ~is_destroyed

\* A pointer into a mem.arena that passes the epoch check still points to the
\* allocation it was handed out for, whatever resets and destroys happened
\* through whatever copy of the handle.
CheckedPointersLive ==
  \A p \in pointers : EpochCheckPasses(p) =>
    /\ p.number \in DOMAIN live
    /\ live[p.number].block = p.block /\ live[p.number].at = p.at

\* STANDARD.md 5227, on dereferencing after destroy(): "Runtime panic whenever
\* the variable holding the pointer was itself directly assigned from
\* `mem.init()`/`mem.alloc()`", "however the arena is reached".  A pointer got
\* through any copy of the handle: all of them are live until the destroy.
DestroyedPointersCaught ==
  is_destroyed /\ pointers # {} =>
    /\ \A p \in pointers : ~EpochCheckPasses(p)
    /\ \A h \in Handles : ~HandleCheckPasses(h)

\* mem.h 36: "Destroy an arena and free all its memory."
DestroyFreesAll == is_destroyed => heap = {}
=============================================================================
