# Grayscale: formal models

Grayscale is a programming language. Its compiler `grayc` (C) translates a
program to C and links it with a runtime and a standard library, both in C; the
command line tool `gray` is itself written in Grayscale. This directory holds
TLA+ models of the parts of that system whose correctness is hard to test: what
threads and peers do to one another, what a long sequence of legal calls does to
a data structure, what a stop between two file operations leaves behind, and
what arithmetic does at the ends of its range. TLC checks them on small
instances, TLAPS proves the most important results for every instance.

All paths below are relative to the repository; `runtime.c` and the like are
under `grayc/src/runtime`, `channels.c`, `mem.c` and the like under
`grayc/src/stdlib`, `codegen.c` under `grayc/src/codegen`.

## 1. The system

| Part | State it keeps | Operations | Interacts with |
|---|---|---|---|
| channels (`channels.c`) | ring buffer, count/head/tail, closed, one mutex, two condition variables | open, send, receive, try_send, try_receive, close, len | any thread of the program; reads the limit of the default arena |
| arena allocator (`runtime.c`) | list of blocks, current block, limit and total, destroyed flag, reset counter | create, capped create, alloc, reset, destroy, scope save/restore | every other part allocates here; generated code opens and closes scopes |
| mem module (`mem.c`) | the program's handles (pointers to an arena) | arena, init/alloc, reset, destroy | arena allocator; checks that `codegen.c` puts before a dereference |
| hash map (`map.c`) | keys, values, states, insertion order and its inverse, count, `iterating` | new, get, has, set, remove, clear, copy, rebuild | arenas; `for_each` loops of generated code; the maps module, JSON, HTTP |
| code generation (`codegen.c`) | (compile time) which scopes, marks, epochs and guards are open | emits the protocols above | the runtime functions |
| threads, sync (`threads.c`, `sync.c`) | alive/released flags, live count, arenas of the thread; mutex and destroyed flag | spawn, join, detach, is_alive, count; lock, unlock, try_lock, destroy | arenas, panics |
| server (`server.c`) | active connection counter, router, two arenas per connection | listen, receive with a deadline, route, respond, cleanup | sockets, threads, maps |
| test runner (`test.c`) | active flag, jump buffer, counters | begin, run, fail, end | panics (`runtime.c`), arenas, call depth |
| big integers and ranges (`bigint.h`, overflow tests of `runtime.h`) | none; a range value | wide arithmetic, checked arithmetic, casts, digits; contains, len, loop | panics; `range()` loops of generated code |
| arrays (`array.c`) | length/capacity/`iterating` | push, insert, remove, copy | arenas, `for_each` |
| `gray watch` (`cli/watch.gray`) | the last snapshot of the watched files | poll, debounce, run | the file system |
| `gray update` (`cli/update.gray`) | executable and backup on disk | download, verify, replace, roll back | the file system, network |
| imports (`parser/imports.c`, `typechecker/module_table.c`) | queue of imports, cache of files, names bound, module of each file, aliases | resolve, parse, merge; resolve an alias | the parser, the type checker, the order of initialisation |
| lexer, parser, type checker, formatter, driver | the program being compiled | one pass each | one another |

What is hard in it, and what would make each part correct:

* **Channels.** Several threads block on two condition variables, every
  operation signals one of them, and a woken thread can lose its value to one
  that did not have to wait. Correct means: calls look atomic and FIFO; no
  thread sleeps beside work that is there for it; close releases everybody and
  loses nothing.
* **Arenas.** A bump allocator with three ways of giving memory back (reset,
  watermark, destroy), nested and left early by `return`, `break` and
  `continue`. Correct means: two live allocations never overlap, a watermark is
  valid when it is used, the limit holds, everything is freed at the end, and a
  pointer into memory that was given back is recognised.
* **Maps.** Tombstones, an append-only order with holes, two kinds of rebuild
  and float keys that are equal without being the same bytes. Correct means: a
  map is an insertion-ordered dictionary, and a loop over it sees a fixed set
  of keys.
* **Threads and mutexes.** Handles are copied freely, and `join`, `detach` and
  `destroy` clear only the variable they are given; flags and a counter are
  updated one after the other around the life of the thread. Correct means: one
  join or detach per thread whoever races, a count and an `is_alive` that never
  miss a thread that runs, what a thread allocated with `new()` outlives it, and
  a destroyed mutex is refused.
* **Tests.** A panic in a test is a `longjmp` to the runner, whose target belongs
  to the process: out of another thread it is undefined.
* **Server.** Several listeners share a counter with four ways out; a request
  comes in pieces, late, cut short or not at all; routes are tried one after the
  other and write into the same parameters. Correct means: the limit holds,
  every slot and descriptor is given back once, nobody holds a slot for ever by
  sending slowly, and a handler gets its own parameters and a whole body.
* **`gray update`.** Every file operation can fail and the process can stop
  between any two. Correct means: a `gray` that works is in its place or in
  `.backup`.
* **Imports.** Files import one another in circles, through several paths, singly
  and by directory, under names that clash; modules are named by whoever imports
  them first. Correct means: a file is merged once and nothing is missing, a name
  means what the file that writes it imported, and the variables of a file are
  initialised before those of the file that brought it in.
* **`gray watch`.** Files are saved while they are listed, stamped and run. Correct
  means: a change to a watched file is never lost, and one save runs the program
  once.
* **Big integers and ranges.** Carries, signs and masks over words; overflow is
  found from a result that has wrapped. Correct means: results agree with
  integer arithmetic, a panic happens exactly where they cannot, and loop, `in`
  and `len` of a range agree and end.

## 2. The modules

| Module | Models | Extends |
|---|---|---|
| `FifoChannel` | abstract: a bounded FIFO queue on which calls take effect atomically | |
| `Channel` | `channels.c` | |
| `ChannelProofs` | theorems about `Channel` | `Channel`, TLAPS |
| `Arena` | arenas of `runtime.c`, `mem.c`, and the scopes and checks of `codegen.c` | |
| `ArenaProofs` | theorems about `Arena` | `Arena`, TLAPS |
| `OrderedMap` | abstract: a list of entries with unique keys, fixed while loops run | |
| `Map` | `map.c` and the `for_each` loops of `codegen.c` over maps | |
| `MapProofs` | theorems about the tables of `Map` and the order of its entries | `Map`, TLAPS |
| `Process` | the threads of a process, panics (`runtime.c`), the test runner (`test.c`) | |
| `Threads` | `threads.c` | `Process` |
| `Sync` | `sync.c`, and the composition of the three | `Threads` |
| `SyncProofs` | theorems about `Threads` and `Sync` | `Sync`, TLAPS |
| `Routing` | the routes of `server.c`, as operators | |
| `Server` | the listeners and connections of `server.c` | `Routing` |
| `ServerProofs` | theorems about `Server` | `Server`, TLAPS |
| `BigInt` | `bigint.h`, as operators on sequences of words | |
| `Numbers` | a program that computes with them, range values, range loops of `codegen.c` | `BigInt` |
| `BigIntProofs` | lemmas about the operators of `BigInt` and what words stand for | `Numbers`, TLAPS |
| `NumbersProofs` | theorems about `Numbers` | `BigIntProofs`, TLAPS |
| `Watch` | `cli/watch.gray` | |
| `Update` | `cli/update.gray` and the file operations of `io.c` it uses | |
| `Cli` | `cli/main.gray`: the choice between the two | `Watch`, `Update` |
| `Imports` | `imports.c` and the files and aliases of `module_table.c` | |
| `ToolchainProofs` | theorems about `Watch`, `Update` and `Imports` | `Cli`, `Imports`, TLAPS |
| `MCChannel`, `MCArena`, `MCMap`, `MCSync`, `MCServer`, `MCNumbers`, `MCImports` | the constants of the TLC runs, and the bounds of `MCSync` on the programs | the module each is named after |

Definitions have the names of the C functions where those are legal TLA+; the
"map" in `PROJECT.json` gives the source lines of each. Definitions introduced
by a comment "Bug:" (or "A bug:") are wrong variants of the definition that follows; they are
used by no specification, only to see that a property notices the mistake.

### Channel

The variables are the fields of `GrayChannelInternal` and, per thread, the call
it is in (`op`, `arg`), where in that call it is (`stage`) and what it returned
(`result`). The code holds the mutex from `pthread_mutex_lock` to the unlock or
the `pthread_cond_wait`, so that stretch is one action. `stage` is `lock` (wants
the mutex for the first time), `waiting` (in `cond_wait`, not signalled) or
`woken` (signalled, or woken spuriously, and wants the mutex again). A signal
picks any one waiter; a broadcast takes all. Threads in `lock` and `woken`
compete freely, which is what makes a woken thread find the buffer empty again.

`open` fails in the order of the code: capacity below 1 (P0173), buffer size
over `SIZE_MAX` (P0159), over the arena limit (P0104), then `malloc` (P0160). A
panic ends the process; the model stops at once, while in the program other
threads may still run until `exit(1)` is done. Slots start as `Junk`, since the
buffer is not cleared.

### Arena

One arena, either created by the program (`mem.arena`, no limit) or by
generated code for a function, block, loop or thread (`managed`, with the limit
of `--arena-limit`). Blocks are numbers, `heap` the blocks `malloc` has given
out, `chain` the linked list starting at `first`. The assignment
`arena->current->next = block` becomes `Append(SubSeq(chain, 1, current), b)`:
it cuts off what came after `current`.

`live`, `marks` and `pointers` are the program's view, which the C code does
not store: the allocations nobody has given back, the `GrayScopeMark`s on the C
stack, and the pointers of `mem.alloc` with the reset count recorded beside
them. `gray_scope_restore(k)` with `k` below the top is a `return` that leaves
inner blocks without restoring their marks. `Reset` of a managed arena is the
top of a loop iteration, where a `continue` may have left marks behind that
nobody will use. `handle[h]` are copies of the handle: `mem.destroy` clears the
one it is given, the others keep pointing at the arena structure, which is
never freed.

Left out: `peak_bytes` and the global allocation counter (statistics), the
zeroing of memory, `size_t` overflow of a block size. Out of memory ends the
process, in `gray_arena_create` and in the growth of an arena.

### Map

`map` is the `GrayMap` structure with the arrays it points to. Keys are bit
patterns; `Canon` says which of them are the same key (the two zeros and the
NaNs of a float), and `seed` assigns a hash to every canonical key, any
assignment, since the hash is seeded at random. The probe loops are written as
the set of probe numbers at which they stop.

`map_rebuild` installs the new, empty arrays and keeps the old ones in `rebuild`,
with the entry of the old order it is at and the key and value for which room is
being made. `Reinsert` is one round of its loop, `EndRebuild` the return into
`gray_map_set` and the rest of it; no operation of the program runs in between.
The recursive call of `gray_map_set` in a round, and the second test of
`gray_map_set` after a rebuild, are represented by the write alone, which is
right as long as a refilled table never needs another rebuild: that is the
invariant `RebuildMakesRoom`.

What a reader of the map sees (`KeysIn`, `EntriesIn`) are the slots of the entries
of `order` that are no holes, by their rank among these.

The order of the entries is the one that `map.c` keeps (219: "Re-insert in original
insertion order to preserve it"). STANDARD.md 1745-1747 calls it undefined for the
programmer: the refinement to `OrderedMap` shows what the code does, and promises more than
a program may rely on.

`loops` is the stack of `for_each` loops in execution. A loop over a variable
("label") guards the map itself; a loop over any other expression ("path")
guards a copy of its header, and what it reads is not followed. A loop that is left, by
its end, a `break` or a `return`, takes its own increment back, as `codegen.c` 12566-12568
and 14310-14325 emit it; that the code generator counts the loops right is an assumption of
the model. The constant
`LoopKinds` says which of the two the program has. `start` and `visited` are recorded for the properties.

The bytes left behind in dead slots are replaced by `Junk`, since no code reads
them. Allocation (and its panics) belongs to `Arena`. `Capacities` is the minimum
capacity doubled again and again up to the ceiling; it is a constant so that TLC
can use 4 and 8 instead of 8 to 2^30. A map at the capacity ceiling is
not written to, so the behaviour around 2^30 slots is outside of the model.

### Watch

`disk` holds the files with their length, modification time (whole seconds, as
`io.stat` gives it) and what they import, for two readers: `imports` is what grayc
follows in a run, `scanned` what `scan_imports` finds in the lines of the file, which can
be less (a comment after an import hides it) or more (a line of a comment that begins
with `import`). `directory` is the set of the source files that lie, or will lie, under
the watched directory, or empty when a file is watched; imports may lead out of the
directory. `Save`, `Delete` and `Tick` are the world
around the process. A snapshot first lists the files (the walk over the scanned imports
one file per step, or what is in the directory at once) and then stamps them one per step;
a run reads the main file and its imports one per step. `used` and `blurred`
are history: whether an edit took a file back to a stamp it had before, absence
included, which no comparison of snapshots can see. While that has not happened, a stamp
tells one save of a file from another, so the contents need no other name. The files of a list are
visited in any order, where the code has one order. Sleeping has no effect
on the state and is not a step.

### Process, Threads and Sync

`call[t]` is the library call thread `t` is inside of, or `Code`; `handle[t]` is
its one variable, which holds a thread, a mutex or nothing, and `Copy`
takes it from one thread to another. `stage[t]` follows `thread_entry` from
`none` to `ended`; the decrement of the live count, the clearing of `alive` and
the end of the thread are steps of their own. `heap_usage[t]` is whether anything was
allocated from the heap arena of `t` (`New`); the arena survives the thread by that test
(`threads.c` 53), whatever the history variable `published` says of pointers left with
others. `Release` is the exchange on `released` that join and detach begin with. A join then waits in
`pthread_join` (`JoinBegins`, `JoinReturns`), or comes back with EDEADLK, which `join`
ignores (137): at once for a join of the caller itself, and possibly for a join of a
thread that is itself waiting in a join of the caller; there POSIX lets the C library
choose (glibc and the one of macOS detect this circle of two), and the model has both. Longer circles wait for ever. `spawn` sets the flags and
the counter, then `pthread_create` succeeds or fails, then the handle is returned,
which may be after the new thread has ended. `Panic(t)` is `gray_panic_code`: the
process exits, or the main thread jumps back to the test runner, or, from another
thread during a test, the status is `undefined` and nothing more is claimed.

`lock`, `unlock` and `try_lock` have two steps each, the check of `destroyed`
(`live_mutex`) and the call of pthreads, and a mutex may be destroyed between the two.
`pthread_mutex_destroy` of a mutex that is held, or that a thread has passed the check for,
is undefined in POSIX, and so in the model (status `undefined`); the standard leaves that to
the programmer, and `DestroyedStaysShut` speaks of the other executions. That the race
itself is possible (`sync.c` 46-59) is a hazard without a property.

### Routing and Server

`match_route` is a recursive function over the positions in pattern and path. It
returns the parameters it has set whether the route matches or not, as the code
sets them in the request on the way; `Dispatch` lets those of the failed routes
show through. `Server` follows the loop of `gray_server_listen_host` per listener
(accept, count and compare, refuse or start the thread) and `handle_connection`
per connection. `receive_request` is modelled in lengths: the header block, the
length declared, what really arrives, in pieces of any size. A declared length may be
any `int64_t`, as `strtoll` saturates it; the sum with the length of the header
(`server.c` 373) may then be no `int64_t`, and since signed overflow is undefined,
`NeededAt` has two outcomes for it: the sum wraps, which is negative, or it is compared
as the number it is. Time passes in
`Tick`, which cannot pass the deadline of a `recv` that is waiting; `TimesOut`,
`PeerCloses` and `RecvFails` are the three ways it ends early. A handler may store
a pointer from `new()` in a global (`published`) and may panic, which ends the
process.

Left out: header fields and their maximum number, the query, the text of the
response, TLS (there is none), the middleware's content.

### BigInt and Numbers

A number is a sequence of one, two or four words, least significant first.
Operators are named after the functions; where the 128 and the 256 bit version
are the same algorithm, there is one operator for both, and two where the code
differs (sums, products, division). Loops over words or bits are recursive
functions. A function that panics returns `Panic`. The width of a word is the
constant `WordBits`, 64 in the code.

`Numbers` is the program around them: `Load` and `Compute` take operands and apply one
operation of the type the operands have; `ForRange`, `Advance` and `EndLoop` are
the loop `emit_for_statement` emits for `for i in range(...)`, with its checked sum.
The loops differ: with a wide type or a step in a variable, a zero step panics and the direction is read at
run time; for `i64` with a step written `-n` (`minus`), the condition is `>` whatever the
number is, and nothing is checked (13465-13468, 13495-13526). `in` and `len` are helpers that always read the sign.
A stored range and `range(end)` are among the first kind. The `when` branch `is range(..., -n)`, which has its
direction fixed in the same way (14431-14475), is left out.

Left out: bitwise operations (one machine operation per word), conversions to and
from floats, parsing.

### Update and Cli

`file` holds the executable, its backup and the downloaded binary: a version
number, nothing, or what a broken copy leaves, and the execute bit. `io` is the
file operation that is going on: `rename`, or, when that fails, open, write and
unlink. Each can fail; `Crash`, the end of the process, can come at any step and loses
everything but `file`. A stop of the machine is not modelled: neither `io.c` nor
`update.gray` syncs, so what it leaves of the files is up to the file system (a hazard
without a property). After a permission error the command may be run again under `sudo`.
A `read` that fails in the middle of a copy looks like the end of the file to
`gray_io_copy_file`; `misread` records it, and the properties except it.

`Cli` runs one of the two commands; their files are different ones, so their
steps do not mix.

### Imports

The file system is constant: `Files` by canonical path, directories, and who
cannot be parsed. A program says what each file imports. Imports are items of one
queue: the code queues statements and takes their items in order, which is the
same order. Each item is rejected, bound to a module that is there, or bound to a
new one, whose files are then parsed (one step each) and merged. `seen`,
`import_hash`, `module_files` and so on are the arrays of `imports_resolve`; of the
merged program only the order of the files' variables is kept, since declarations
of other kinds may be used before they are declared. A name that gets a suffix to
be distinct (`u__2`) is the pair of the two. The import of a sibling, in a file of
a directory, becomes an alias and its item is queued without a path (`Dropped`),
which `SkipDropped` takes. `import` is the import whose files are being parsed,
`NoImport` between two. `ResolveAlias` and `FilesIn` are
what the type checker finds when `main.c` has handed the arrays over.

Left out: C headers, an import that names two files by leaving out the extension
(an error at once, like the others of `Unresolvable`), hidden files of a directory
(the scan passes over them, so they are not among its files), `using`,
visibility.

## 3. The runs

| Run | Instance | Result |
|---|---|---|
| `channel` | 3 threads, fair, values 1 and 2, capacities 0 to 4, of which the checks refuse 0, 3 and 4 and accept 1 and 2 | `TypeOK`, `RingConsistent`, `NoLostWakeup`, `ClosedNobodySleeps`, refinement `ImplementsFifo`, `CloseReleases`, `NobodyStranded` hold |
| `arena` | sizes 0, 5, 8, 24; blocks from 8 bytes; limit 48; 5 allocations, 2 marks, 2 resets, 2 handles | `TypeOK`, `MemorySafe`, `MarksHold`, `LiveWithinLimit`, `CheckedPointersLive` hold |
| `arena_leak` | the same | **violated**: `DestroyFreesAll` |
| `arena_deref` | the same | **violated**: `DestroyedPointersCaught` |
| `map` | 4 keys of which 2 are equal, 2 hash values, capacities 4 and 8, 2 nested loops over a variable | `TableConsistent` (with `TypeOK`), `FindsEveryKey`, `RebuildMakesRoom`, `LabelLoopsStable`, refinement `ImplementsOrderedMap` hold |
| `map_for_each` | one loop, of either kind | **violated**: `LoopedKeysFixed` |
| `threads` | main and 2 more threads, with and without one test, fair; or one mutex, with neither tests nor joins | `ReleasedOnce`, `Observed`, `JoinedIsOver`, `DestroyedStaysShut`, `JoinEnds` hold |
| `server` | 2 listeners, 3 connections for 2 slots, a buffer of 3 bytes, `INT64_MAX` as 5, a timeout of 2, 5 routes, fair | `ConnectionLimit`, `SlotsAccounted`, `ReceiveBounded`, `BodyComplete`, `HandlerFitsPath`, `ConnectionsEnd` hold |
| `server_heap` | the same | **violated**: `NewLivesOn` |
| `numbers` | words of 4 bits: all pairs of one word, of 9 values per word of two, of 3 values per word of four; loops over 18 bounds, fair | `ArithmeticExact`, `CheckedArithmetic`, `ConversionsKeepNumber`, `RangesAgree`, `LoopEnds` hold |
| `cli` | watch: 2 files, one length, 3 edits, 2 seconds, a file, or a directory with one or both; update: started 3 times; fair | `RunsPerEdit`, `RerunsCatchUp`, `Recoverable`, `UpdateReturnsWorking` hold |
| `imports` | 5 files, 4 directories; up to 2 imports of 9 in the main file and of 6 in one file of a directory, up to 1 in two others: 58,695 programs | `MergedOnceInOrder`, `ImportsMerged`, `NamesBind` hold |

Why the bounds are enough. *Channel*: three threads give two waiters of one kind
and one that signals, or one waiter, one that signals and one that steals; for
more threads the safety properties are proved (section 4). Capacity 1
and 2 give a ring that wraps and one where full and empty have `head = tail`.
*Arena*: 24 bytes do not fit the default block, 5 rounds to 8, 0 takes no room;
5 allocations give three blocks, a reset and growth after it; two marks give a
nested scope and a return out of it. *Map*: hashes 3 and 7 are the same slot in a
table of 4 and different ones in a table of 8, and the probe sequence wraps; three
distinct keys fill the table of 4 to its load limit and force the growth, and the
repeated removal of one key fills `order` with holes until it is compacted.
*Threads*: two threads can race to join or detach a third, join each other, and race to
destroy and use one mutex; one that was spawned can spawn, and outlive its parent. A program that makes
a mutex has no tests, joins, detaches or `new()` in the run (`Apart` in `MCSync`): a mutex holds
nobody up in a join, and a thread's arenas have no part in a lock. The theorems have no such bound.
*Server*: with three connections one is refused or waits for a slot of the two;
two listeners can be between counting and comparing at once; 3 bytes hold a
complete request, and one that is cut short, one byte too long, or never
complete, in every way to split it; 5, the largest declared length, makes a sum that
is out of range, and the others do not. The routes try one with another method, one
that sets the parameter of the path and then fails, and both kinds of match at a
slash. *Numbers*: 4-bit words have a sign bit, halves that multiply without
overflow, and every carry, borrow and sign change between words; no
function treats a bit position or a word value specially that is not among them.
*Watch*: one edit to be noticed, one to happen in the run or the snapshots that
follow, and one more during the recovery from that; two files can import each
other, and the second can lie outside of the directory or be hidden from the scan. *Update*: the second start meets what the first left behind, and the third
what the recovery from that left. *Imports*: two files of one name in different
directories, one name of a standard module, a directory inside of an imported
one; with two imports in the main file and in `lib/s` there are circles, diamonds, and a
file imported singly before, after and without its directory.

`CHECK_DEADLOCK FALSE` is set where the system may stop: a program may end,
panic, or have every thread asleep in a receive or a lock that nobody will
answer.

**Fairness.** In `channel`, weak fairness of `Step(t)` for every thread:
a thread inside a call, and not asleep, eventually gets the processor and the
mutex. That is what the operating system's scheduler and mutex give a program
whose critical sections are all short. There is no fairness for calling a
function, for opening, or for spurious wakeups. In `threads`, some thread inside
the library that is not blocked (a call of pthreads that can return, returns) goes on; nothing is assumed about the program's
own code, so a thread may run for ever, and `JoinEnds` speaks of a thread that
has returned. In `server`, threads are scheduled and time passes, handlers
return, and a peer takes its response or goes away (`send` has no timeout, which
is a hazard without a property); nothing makes a peer send. In `numbers`, a loop
that can go on does. In `cli`, weak fairness of the process `gray watch` as a
whole: it is scheduled, its sleeps end, and so does each program it runs. Nothing
makes anybody edit a file.

### What the violated runs show

* `arena_leak`. Allocate until a second block is linked, reset, allocate more
  than fits the first block: the new block replaces the second in the list.
  Destroy then frees two blocks of three. `mem.h` says "Destroy an arena and
  free all its memory." Loop arenas are reset at every iteration and marks are
  restored at every call, so a program that runs long can lose blocks steadily.
* `arena_deref`. `p = mem.alloc(h, x)` for a `p` that was declared before (or is
  global) keeps no epoch; the check before `p^` evaluates `h` again, and after
  `mem.destroy(h)` that is NULL, which the check lets pass. Standard 11.7 promises
  a panic. (The "Not checked" table there says the check only inspects the
  destroyed flag; for a pointer with an epoch the code also compares the reset
  count, and `CheckedPointersLive` shows that this is complete.)
* `map_for_each`. `for_each k in s.m { ... }` increments the counter of a
  temporary copy of the header; an insertion into `s.m` inside of the loop finds
  the counter of the map at 0 and goes ahead. The standard promises a panic.
* `server_heap`. A handler stores a pointer from `new()` in a global. The thread
  of the connection destroys its heap arena on the way out, whatever is in it, and
  the pointer dangles. A thread of `threads.spawn` keeps an arena that is not
  empty (`JoinedIsOver` shows that this is enough); the standard says that a
  pointer of `new()` is valid until the program exits.

Other deviations from the standard and from comments are stated as exceptions in
properties that hold, so that the runs and the proofs show that there are no more of them:

* `CheckedArithmetic`. The least `i128` or `i256` times -1 is itself: the product
  is tested by a division that wraps in the same way. STANDARD.md 452 says that
  overflow of wide integers panics; the property shows that these are the only
  operands for which it does not. (Division of the two gives the least number as
  well.)
* `JoinedIsOver`. Two threads join each other. The one that comes second may get
  EDEADLK, which `join` does not look at (`threads.c` 137), and goes on while the other
  runs; so does a thread that joins itself. STANDARD.md 4524 says that join waits for the
  thread to finish. The property is about the threads that were joined otherwise.
* `BodyComplete`. A request declares a length so close to the largest `int64_t` that the
  sum with the header (`server.c` 373) is none; wrapped, `needed` is negative, which elsewhere
  means that the header has not come, and the test that refuses a body that is cut short
  (378) is passed over: a handler gets what came, against the comment in 349-351. The
  property is about the bodies whose length, with the header, is an `int64_t`.
* `RangesAgree`, `LoopEnds`. In `range(a, b, -n)` over `i64` the minus is taken for the
  sign of the step (`codegen.c` 13465-13468). With n = -2 the loop from 0 to 10 has no
  iterations, while `in` and `len` count five; from 10 to 0 it climbs to the last `i64`.
  STANDARD.md 1587-1589 goes by the sign. With n = 0 the loop from 10 to 0 never ends, where
  1594-1595 promises a panic. (The type checker rejects only bounds that are literals.)
  `RangesAgree` leaves out the steps `-n` that are not negative, `LoopEnds` those that are zero.
* `RerunsCatchUp`. The program imports a file that the scan of the lines does not find
  or, in directory mode, one outside of the directory. It is run, but it is not among
  the watched files, and when it changes nothing happens. STANDARD.md 5541 says that
  `gray watch` "automatically discovers and watches imported files". The property is
  about programs that are watched as a whole.
* `NamesBind`. `lib/s.gray` imports its sibling `./u`, which makes `u` an alias of
  module `lib`, seen by every file. `main.gray` imports its own `./u`: a name that
  is that of its module is not entered in the table, so the alias wins, and
  `u.f()` in `main.gray` is looked up in `lib`. STANDARD.md 3105 says that a name
  is scoped to the file that writes it; the property shows that names no sibling
  has are safe.
* `ImportsMerged`. A file of an imported directory that imports `./internal`, a
  subdirectory, is taken to import a sibling, because both have the same parent.
  The import is dropped without an error. STANDARD.md 3056 calls subdirectories
  modules to be imported independently; the property shows that no other import
  is lost.

Two hazards that the models contain and no property excludes: the first snapshot
of `gray watch` is taken after the first run, so what is saved while the program
runs for the first time is not noticed (`RerunsCatchUp` shows that later runs do
not have the gap, as long as the whole program is watched); and a panic in another thread during a test is undefined.

## 4. What is proved

Each theorem holds for every value of the constants that the named assumption
of its module allows; the assumptions are evaluated by TLC in every run. The
inductive invariants that are new in a proof module were checked by TLC on the
instance of the run before they were proved.

**`ChannelProofs`**, for any finite set of threads, any set of integer values,
any capacities and limits (`ChannelAssumption`):

* `TypeCorrect`: `Spec => []TypeOK`. `TypeOK` is inductive: it includes that
  `head` and `tail` are below the capacity of an open channel, and which stages
  belong to which calls.
* `RingCorrect`: `Spec => []RingConsistent`, that is
  `tail = (head + count) % capacity` and every slot of the window holds a sent
  value. The work is in lemmas on `%` for a step of the head and of the tail.
* `NoWakeupIsLost`: `Spec => []NoLostWakeup`. The invariant is not inductive
  by itself: a receive that finds the channel empty and closed returns and
  takes one woken receiver away, which would break the count if another one
  still slept. `WakeupInv` adds `TypeOK` and `ClosedNobodySleeps`, which rules
  that out. The cardinality lemmas say what a signal adds to the woken threads
  and what a returning thread takes away.
* `CloseWakesAll`: `Spec => []ClosedNobodySleeps`, from the same `WakeupInv`.
* `Linearizable`: `Spec => ImplementsFifo`. The mapping takes the ring to the
  sequence of its window (`Contents`), and every step of the code is a step of
  `FifoChannel` or leaves its variables alone (going to sleep, waking up). The
  core is two lemmas: a put appends to `Contents`, a take removes its head.

**`ArenaProofs`**, for any sizes, limits, handles and any number of allocations,
marks and resets (`ArenaAssumption`): `ArenaTypes` (`TypeOK`),
`AllocationsDisjoint` (`MemorySafe`), `MarksAlwaysHold` (`MarksHold`),
`EpochCheckSound` (`CheckedPointersLive`) and `LimitHolds` (`LiveWithinLimit`). The
first four come from one invariant, `ArenaInv`, since none stands alone. A new allocation is disjoint from the old
ones because those lie below `current` and `used` (`MemorySafe`), a restore leaves
that true because a mark is a position at which it was true and what was allocated
later lies above it (`MarksHold`), and a return that leaves inner marks behind is
safe because marks are nested (`MarksNested`, which no run checks by itself).
`ChainFits` says that no block is twice in the chain or filled above its size;
`Epochs`, that no pointer is from a reset that has not happened, so that a new
reset invalidates all the old ones. `LimitHolds` adds `TotalFits`: `total_allocated`
is never less than the bytes of the blocks up to `current` (a scope restore goes
back in the chain and leaves the total, so that it may be more), and never more
than the limit or the first block. The bytes of a part of the chain are a sum,
`PrefixSum`, a recursive function; see "Recursive functions" below.

**`SyncProofs`**, for any finite set of threads and mutexes and any number of
tests (`ProcessAssumption`, `SyncAssumption`): `ThreadReleasedOnce`,
`ThreadCountObserved`, `JoinedThreadIsOver` and `DestroyedMutexShut`. All rest on
`StageInv`: in which stage of its life the thread is that a call of another works
on, and that a handle is given out only after the thread began. `CountInv` ties
`alive` and the live count to the stage (the counter is the number of threads
between the increment and the decrement), `ReleaseInv` says that a thread whose
flag is clear has not been released. `JoinedThreadIsOver` is about the threads that
somebody has waited for (`Awaited`): a join that came back from the caller itself, or from
a thread that was in a join of the caller, may have been EDEADLK and is left out.
`EndInv` says that every join that came back is one of these or found its target at its end;
it is inductive because a thread that was in a join of the caller is in it until
it comes back, so that it can be told later that the join was in a circle
(`JoinCalled`). `HeapInv` says that an arena in which something was allocated is never
freed and that what is published was allocated: the test of the code is about usage, the
property about what is published. `MutexInv`:
nobody owns, or is inside of a call with, a mutex that is destroyed, as long as the
process runs. The assumption `Mutexes \cap Threads = {}` says that a handle is
of one kind, which the types of the program guarantee.

**`ServerProofs`**, for any number of listeners and connections, any requests,
limits and timeouts (`ServerAssumption`): `SlotsAlwaysAccounted`,
`ConnectionLimitKept`, `ReceiveAlwaysBounded`, `BodyAlwaysComplete` and
`HandlersFit` (`HandlerFitsPath`). The limit is
not inductive: it speaks of the connections that are served, and a connection is
admitted one step before. `SlotInv` bounds all that hold a slot (`Holding`), which
follows at admission from the counter, which `SlotsAccounted` makes the number of
counted connections. `ConnInv` relates `total`, `needed`, `age` and `deadline` of a
connection by its stage. `BodyAlwaysComplete` holds of every request whose header has come
and whose length is an `int64_t`, on its own: it does not presume that `needed` was
computed. Of the sums that overflow `ConnInv` says only that they are one of the two
outcomes. `HandlersFit` is about what `match_route` computes, for
any router and any path (`RouterAssumption`: patterns and paths are sequences).
Its core is `Finds`: when the loop stands at a place of the pattern and of the path,
and the pattern filled in up to there is the path up to there, then, if the loop
goes on to match, the whole pattern filled in is the path. `FindsEnd` shows it at the
end of the pattern, where the slash may be missing, `FindsStep` from each place
for the one before. `ParamsLast` says that the parameters of the route tried last
win over those that other routes have left. The theorem has a hypothesis,
`RoutesNamedOnce`: the code accepts a pattern like `/:a/:a`, and leaves its
last value in the map, which then does not give back the first.

**Recursive functions.** The provers cannot instantiate the library's induction
rules, whose parameter is an operator. `LimitHolds`, `HandlersFit` and the theorems
of `NumbersProofs`, whose models compute with recursive functions, use the least
counterexample instead: `LeastOf` (a set of numbers has a least element, from the
well-founded order of the library) is applied to the set of numbers at which a
statement fails. The same argument shows first that the recursive function exists
(`SumsExist`, `LoopExists`, `Recursion`), so that its value is what its equation says.

**`ToolchainProofs`**, in its first part, for any number of files, edits, seconds and installations
(`WatchAssumption`, `UpdateAssumption`), and whatever the imports and the scan of a file are: `UpdateRecoverable` (`Recoverable`),
`UpdateReturns` (`UpdateReturnsWorking`) and `WatchRunsPerEdit` (`RunsPerEdit`).
`UpdateInv` says for each step of the update and each phase of a rename or copy
which of the two files is good: `LastGood` for what can be lost, `NextGood` for what
the step is about to rely on. `WatchInv` is an account: a run is paid for by an
edit; when all edits are spent, the known snapshot is that of the disk, so no
comparison can find a difference.

**`ToolchainProofs`**, in its second part, for any set of files, directories and programs
(`ImportsAssumption`: directories are no files, a directory lists exactly the
files that lie in it, an import has a path): `FilesMergedOnce`
(`MergedOnceInOrder`), `ImportsFollowed` (`ImportsMerged`) and `NamesResolve`
(`NamesBind`).
`OrderInv` adds to the first: what is being parsed is disjoint from what is merged
(`FilesOnce`), an import that is carried out was written in a merged file
(`Origins`), and the file that brought another in stands behind it (`InOrder`);
prepending the parsed files keeps the positions of the others in order. `MergeInv`
adds to that, as long as there are no errors, where each import of a known file
went (`Accounted`): it waits in the queue, its target is bound, or it was dropped
because it leads to a sibling; and that the files of a target that is bound are
known or are next to be parsed (`Followed`). When the queue is empty, the first and the last of these are
over, and a sibling is a file of a directory that is bound (`Directories`).
`NameInv` adds what names mean. `NamesDistinct`: a name is that of a stdlib module
for all files or for none, and one file gives it to one target; that is what
`Collides` is for. `ModulesDistinct`: each target has one module, which is the
module of no other target and of no stdlib name; that some number is free for a new
one is a pigeonhole argument (`DistinctFree`: `Len(seen) + 1` numbers are tried).
`FilesClaimed`: a module has files of its target only, and all of them, or they
are next to be parsed; a file that another module met first is one of them through
`includes`, which is why the owner of a file that was met must be known.
`NamesEntered`: without errors, each import of a known file waits or its name was
entered, as a stdlib name, as that of a target, or as that of a sibling. At the
end a name has one entry in its file, and the module of that entry has the files
of its target (`TargetFiles`).

**`MapProofs`**, for any keys and values, any equality of keys, any hash function
and seed, any ladder of capacities in which each is twice the one before, and any
nesting of loops (`MapAssumption`): `TablesConsistent` (`TableConsistent`),
`EveryKeyFound` (`FindsEveryKey`) and `RebuildsMakeRoom` (`RebuildMakesRoom`). The
invariant `MapInv` says of the map, and of the old arrays during a rebuild, that
they are `Sound`: consistent as in `TableConsistent`; every entry is `Reached`,
that is some probe of its key is its slot and no probe before is empty; and no
two entries have equal keys (`Distinct`). `Reached` is why a removal leaves a
tombstone; `Distinct` holds because a write goes past the tombstones to the end of
the search before it takes the first of them; that the search ends follows from
`Cardinality(Used) <= order_len < capacity`. The lemmas `InsertSound`,
`UpdateSound`, `WriteSound`, `RemoveSound` and `NewSound` are about one table each
and are used for the program's operations and for the rounds of a rebuild alike.
`RebuildInv` bounds the new table by the entries taken over so far (`TakenOver`),
which are at most `old.count`, less than three quarters of the new capacity
whichever test caused the rebuild. `LoopInv` says that `iterating` is the number of
loops over the variable, so that `order` changes only when no loop is inside it.

The second part of the module proves, from the same assumption, `MapIsOrdered`
(`ImplementsOrderedMap`) and `LoopsStable` (`LabelLoopsStable`). It begins with one table. Its list of entries is given by ranks: the r-th
entry is at the index of `order` that has r listed indices up to and including
itself. `NthAdd` and `NthRemove` say how the ranks change when an index is
added at the end or taken out, and give, with `Sound`, that a write updates one
entry of the list in place or appends one (`WriteEntries`), and that a removal is
`RemoveAt` (`RemoveEntries`). `OrderInv` adds two invariants to `MapInv`.
`Refilled`: during a rebuild the new table lists, in order, what the old one lists
before the entry the rebuild is at; so at its end the two lists are equal, and no
step in between is seen. `LoopsFollow`: a loop over the variable has visited as many
keys of its starting list as there are listed indices before its own; no step
disturbs that, since while `iterating` is not 0 neither the keys nor the listed
indices change. With these, every step is one of `OrderedMap` or leaves the list,
the guard and the panic as they were.

**`BigIntProofs`** and **`NumbersProofs`**, for words of any even number of bits (`WordBitsAssumption`) and any
operands of one, two and four words (`NumbersAssumption`): `ArithmeticIsExact`
(`ArithmeticExact`), `ChecksAreExact` (`CheckedArithmetic`), `ConversionsAreExact`
(`ConversionsKeepNumber`), from words of at least 4 bits (`BasesAssumption`: the
base 10 is a word), and `LoopsAgree` (`RangesAgree`). For the first three the state says little,
`Executed`: what has been computed is the operation applied to its operands.
The work is in the lemmas about the operators, in `BigIntProofs`. What the words of a sum, a row of a
product or a shift stand for follows from one lemma, `ChainSum`: where each
word and its carry satisfy an equation (`Chained`), so do the numbers and the
carry out of the last word. `AddWord`, `SubWord`, `HighWordExact`, `ProductWord`, `ShiftedWord` and
`RightShiftedWord` are those equations, for the carry that is tested by comparing words and for the
product of halves. `Near` says of words that they are a number except for a multiple of their
size, and is all that is known of a result that wraps; `SignedUnique` and
`UnsignedUnique` make an equation of it where the number fits. `LongDivisionExact` keeps, bit by
bit, dividend = quotient * divisor + remainder for the bits that have been
taken in. The checks of an addition are about signs and need the range of the sum;
the check of a product needs that a result that wrapped, divided by a factor, is never the
other factor (`SignedMulOutcome`, `UnsignedMulOutcome`), except for the least number times -1.
A cast is an extension with the sign or with zeros, which keeps the number, and a look at the
words it drops, which are all zeros or all signs just when the number fits. The digits are those
of a division repeated until nothing is left: what has been written, times the power of the base
it stands at, and what is still to be divided make up the number. Reading back is right up to a
multiple of the size, and so exactly, since the number fits.

`LoopsAgree` (`RangesAgree`) is about loops, `in` and `len`. The inductive invariant
`LoopsCount` says of a loop with c iterations that its value is start + c * step, or
that it is the stop and that number is not before the stop (`Visited`), and that the
iteration before was: a loop whose next number leaves the type jumps to the stop, and
`Overshoots` shows that the number it could not represent lies beyond it. `in` follows from
`Between` (the value lies between start and stop, and so does its distance from start), and
`len` from `CountedIs`: the last value before the stop is c - 1 steps from the start, which is
the quotient `len` takes (`StepsToLast`). `CountAssumption` says that `MaxCount`, the bound of
the counter, is not less than the size of a type, so that every iteration is counted
(`CountBelow`). As in the run, signed wide ranges whose distance from start to stop does not fit
are left to the loop alone: `in` and `len` are not right for them (see the hazards). Loops over `i64`
whose step is written `-n` are part of the theorem while that is negative (`Directed`);
then the fixed condition is the one that the range has (`LoopContinuesIs`). Of those that
are not, `LoopsCount` says only that they keep their step: a negated variable that is not
negative makes `in` and `len` disagree with the loop (section 3).

**Only model-checked**:

* the liveness properties (`CloseReleases`, `NobodyStranded`, `JoinEnds`,
  `ConnectionsEnd`, `LoopEnds`, `RerunsCatchUp`): the prover does not do fairness.

## 5. What is not modelled

Most of the source lines are in the compiler: lexer, parser, type checker, code
generator and formatter are sequential passes over one program, whose correctness
is a relation between two texts. A model of them that could be wrong where they
can be wrong would be a second implementation; they are covered by the
integration tests. The exception is the resolution of imports, a worklist over a
graph, which `Imports` models. What the code generator makes the emitted program do at run
time (scope marks, epochs, guards, map assignment, range loops) is in `Arena`,
`Map` and `Numbers`; the rest of it is the translation of expressions and
declarations. The driver and the utilities handle options, files and messages.

The text, data and time modules are pure functions on strings and bytes; the
operating system modules, sockets and the HTTP client are wrappers around system
calls (the file operations of `gray update` are in `Update`). SQLite is vendored.

Within the modelled parts: bitwise operations, parsing and float conversions of
big integers; arrays, whose growth and guards are those of maps without keys; what
a `longjmp` out of a test leaves in arenas and in a mutex that was held; timeouts
of `send`, which the code does not have. Data races of user programs on maps and
arrays are left to the programmer by the standard, and the models of `Arena` and
`Map` have one thread, as each arena belongs to one thread.

## 6. Plan

Every safety property that a passing run checks is proved, but for those listed
under "Only model-checked". What is left to model is the scopes of generated code:
which arena a value is copied to when it leaves a scope, several arenas at once,
composed with `Arena`; and arrays with their guards.
