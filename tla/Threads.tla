------------------------------ MODULE Threads ------------------------------
(***************************************************************************)
(* stdlib/threads.c: spawn, join, detach, is_alive and thread_count.       *)
(*                                                                         *)
(* Handles are copied from the variable of one thread to that of another;  *)
(* join and detach clear only the variable they are given.  A              *)
(* GrayThreadInternal is named after the thread it belongs to.             *)
(***************************************************************************)
EXTENDS Process

VARIABLES
  stage,          \* stage[t]: how far t has come, from spawn to its end
  alive, released,
  gray_threads_live_count,
  heap_arena,     \* heap_arena[t]: "none", "live" or "freed"
  heap_usage,     \* heap_usage[t]: gray_arena_usage of its heap arena, 0 or 1 for any more
  published,      \* threads that left a pointer into their heap arena where others read it
  releases,       \* history: pthread_join and pthread_detach calls per thread
  joined          \* history: <<t, u>> when a join of u has returned in t

flags == <<alive, released, gray_threads_live_count>>
heaps == <<heap_arena, heap_usage, published>>
history == <<releases, joined>>
threads == <<stage, flags, heaps, history>>

Spawned == Threads \ {Main}

ThreadsInit ==
  /\ stage = [t \in Threads |-> IF t = Main THEN "body" ELSE "none"]
  /\ alive = [t \in Threads |-> FALSE]
  /\ released = [t \in Threads |-> FALSE]
  /\ gray_threads_live_count = 0
  /\ heap_arena = [t \in Threads |-> IF t = Main THEN "live" ELSE "none"]
  /\ heap_usage = [t \in Threads |-> 0]
  /\ published = {}
  /\ releases = [t \in Threads |-> 0]
  /\ joined = {}

\* t executes code of the program, outside of any library call.
Runs(t) == status = "running" /\ stage[t] = "body" /\ call[t] = Code /\ InProgram(t)

In(t, op) == status = "running" /\ call[t].op = op

Enter(t, c) == call' = [call EXCEPT ![t] = c]
Leave(t) == Enter(t, Code)

Goes(u, from, to) ==
  /\ status = "running"
  /\ stage[u] = from
  /\ stage' = [stage EXCEPT ![u] = to]

-----------------------------------------------------------------------------
(* spawn and spawn_arg.                                                    *)

\* The threads to come; they are all alike, so which one is next is no matter.
Fresh == {u \in Spawned : stage[u] = "none"}

\* Bug: alive is left to the new thread to set.
SpawnNotAlive(t) ==
  /\ Runs(t)
  /\ Fresh # {}
  /\ LET u == CHOOSE x \in Fresh : TRUE IN
       /\ Goes(u, "none", "allocated")
       /\ released' = [released EXCEPT ![u] = FALSE]
       /\ gray_threads_live_count' = gray_threads_live_count + 1
       /\ Enter(t, [op |-> "spawn", thread |-> u])
  /\ UNCHANGED <<process, handle, alive, heaps, history>>

\* The flags and the count are set before there is a thread.
Spawn(t) ==
  /\ Runs(t)
  /\ Fresh # {}
  /\ LET u == CHOOSE x \in Fresh : TRUE IN
       /\ Goes(u, "none", "allocated")
       /\ alive' = [alive EXCEPT ![u] = TRUE]
       /\ released' = [released EXCEPT ![u] = FALSE]
       /\ gray_threads_live_count' = gray_threads_live_count + 1
       /\ Enter(t, [op |-> "spawn", thread |-> u])
  /\ UNCHANGED <<process, handle, heaps, history>>

\* pthread_create.  The new thread runs, with arenas of its own, before the
\* handle is returned.
CreateSucceeds(t) ==
  LET u == call[t].thread IN
  /\ In(t, "spawn")
  /\ Goes(u, "allocated", "body")
  /\ heap_arena' = [heap_arena EXCEPT ![u] = "live"]
  /\ Enter(t, [op |-> "spawned", thread |-> u])
  /\ UNCHANGED <<process, handle, flags, heap_usage, published, history>>

\* Bug: the live count is not taken back.
CreateFailsCounted(t) ==
  /\ In(t, "spawn")
  /\ Goes(call[t].thread, "allocated", "none")
  /\ alive' = [alive EXCEPT ![call[t].thread] = FALSE]
  /\ Panic(t)
  /\ UNCHANGED <<handle, released, gray_threads_live_count, heaps, history>>

\* EAGAIN: everything is taken back, the state is freed, and P0108.
CreateFails(t) ==
  /\ In(t, "spawn")
  /\ Goes(call[t].thread, "allocated", "none")
  /\ alive' = [alive EXCEPT ![call[t].thread] = FALSE]
  /\ gray_threads_live_count' = gray_threads_live_count - 1
  /\ Panic(t)
  /\ UNCHANGED <<handle, released, heaps, history>>

SpawnReturns(t) ==
  /\ In(t, "spawned")
  /\ handle' = [handle EXCEPT ![t] = call[t].thread]
  /\ Leave(t)
  /\ UNCHANGED <<process, threads>>

-----------------------------------------------------------------------------
(* thread_entry.                                                           *)

\* Code of u allocates from its heap arena: new(), or a string or container of
\* a global.  What is allocated has a size, so the arena's blocks are used from
\* here on; a pointer to it may be left where other threads read it.
New(u) ==
  /\ Runs(u) /\ u # Main
  /\ heap_usage' = [heap_usage EXCEPT ![u] = 1]
  /\ published' \in {published, published \cup {u}}
  /\ UNCHANGED <<process, call, handle, stage, flags, heap_arena, history>>

\* Bug: the heap arena goes with the thread, as the default arena does.
BodyReturnsAll(u) ==
  /\ Runs(u) /\ u # Main
  /\ Goes(u, "body", "swept")
  /\ heap_arena' = [heap_arena EXCEPT ![u] = "freed"]
  /\ UNCHANGED <<process, call, handle, flags, heap_usage, published, history>>

\* The entry function has returned.  The thread's default arena is destroyed,
\* and its heap arena if nothing was allocated from it.
BodyReturns(u) ==
  /\ Runs(u) /\ u # Main
  /\ Goes(u, "body", "swept")
  /\ heap_arena' = [heap_arena EXCEPT ![u] = IF heap_usage[u] = 0 THEN "freed" ELSE @]
  /\ UNCHANGED <<process, call, handle, flags, heap_usage, published, history>>

Uncount(u) ==
  /\ Goes(u, "swept", "uncounted")
  /\ gray_threads_live_count' = gray_threads_live_count - 1
  /\ UNCHANGED <<process, call, handle, alive, released, heaps, history>>

ClearAlive(u) ==
  /\ Goes(u, "uncounted", "flagged")
  /\ alive' = [alive EXCEPT ![u] = FALSE]
  /\ UNCHANGED <<process, call, handle, released, gray_threads_live_count, heaps, history>>

\* free(thread_argument), and the system ends the thread.
Ends(u) ==
  /\ Goes(u, "flagged", "ended")
  /\ UNCHANGED <<process, call, handle, flags, heaps, history>>

-----------------------------------------------------------------------------
(* The handle.                                                             *)

\* A handle that live_thread accepts.
IsLive(h) == h \in Spawned /\ ~released[h]

\* The variable of t is one of type Thread.
IsThread(t) == handle[t] \in Spawned \cup {NULL}

\* Bug: released is only read.
ReleaseUnset(t, op) ==
  LET u == handle[t] IN
  /\ Runs(t) /\ IsThread(t)
  /\ IF ~IsLive(u)
     THEN Panic(t) /\ UNCHANGED <<handle, releases>>
     ELSE /\ handle' = [handle EXCEPT ![t] = NULL]
          /\ releases' = [releases EXCEPT ![u] = @ + 1]
          /\ Enter(t, IF op = "join" THEN [op |-> op, thread |-> u] ELSE Code)
          /\ UNCHANGED process
  /\ UNCHANGED <<stage, flags, heaps, joined>>

\* release_thread on the variable of t: the first to exchange released goes
\* on, the others panic with P0170.  pthread_detach does not wait.
Release(t, op) ==
  LET u == handle[t] IN
  /\ Runs(t) /\ IsThread(t)
  /\ IF ~IsLive(u)
     THEN Panic(t) /\ UNCHANGED <<released, handle, releases>>
     ELSE /\ released' = [released EXCEPT ![u] = TRUE]
          /\ handle' = [handle EXCEPT ![t] = NULL]
          /\ releases' = [releases EXCEPT ![u] = @ + 1]
          /\ Enter(t, IF op = "join" THEN [op |-> op, thread |-> u] ELSE Code)
          /\ UNCHANGED process
  /\ UNCHANGED <<stage, alive, gray_threads_live_count, heaps, joined>>

\* t is in pthread_join of u, which has found nothing against waiting.
Waits(t, u) == call[t].op = "joining" /\ call[t].thread = u

\* Bug: a thread that joins itself waits for its own end.
JoinBeginsBySelf(t) ==
  /\ In(t, "join")
  /\ Enter(t, [op |-> "joining", thread |-> call[t].thread])
  /\ UNCHANGED <<process, handle, threads>>

\* pthread_join by t of another thread begins to wait.
JoinBegins(t) ==
  /\ In(t, "join")
  /\ call[t].thread # t
  /\ Enter(t, [op |-> "joining", thread |-> call[t].thread])
  /\ UNCHANGED <<process, handle, threads>>

\* pthread_join fails at once with EDEADLK when the thread is t itself, and may
\* do so (the C library decides) when the thread waits in a join of t; join
\* does not look at the result.
JoinRefused(t) ==
  LET u == call[t].thread IN
  /\ In(t, "join")
  /\ u = t \/ Waits(u, t)
  /\ joined' = joined \cup {<<t, u>>}
  /\ Leave(t)
  /\ UNCHANGED <<process, handle, stage, flags, heaps, releases>>

\* Bug: join waits for alive to be cleared.
JoinPolls(t) ==
  /\ In(t, "joining")
  /\ ~alive[call[t].thread]
  /\ joined' = joined \cup {<<t, call[t].thread>>}
  /\ Leave(t)
  /\ UNCHANGED <<process, handle, stage, flags, heaps, releases>>

\* The thread has ended, and pthread_join returns.
JoinReturns(t) ==
  /\ In(t, "joining")
  /\ stage[call[t].thread] = "ended"
  /\ joined' = joined \cup {<<t, call[t].thread>>}
  /\ Leave(t)
  /\ UNCHANGED <<process, handle, stage, flags, heaps, releases>>

\* is_alive of a handle that is not live panics; of one that is, it changes
\* nothing.
IsAlivePanics(t) ==
  /\ Runs(t) /\ IsThread(t)
  /\ ~IsLive(handle[t])
  /\ Panic(t)
  /\ UNCHANGED <<handle, threads>>

\* t assigns the Thread, or Mutex, that u holds to its own variable.
Copy(t, u) ==
  /\ Runs(t)
  /\ handle[u] # NULL /\ handle[t] # handle[u]
  /\ handle' = [handle EXCEPT ![t] = handle[u]]
  /\ UNCHANGED <<process, call, threads>>

-----------------------------------------------------------------------------
\* The steps that the program's own code has no part in.
Library(t) ==
  \/ CreateSucceeds(t) \/ SpawnReturns(t)
  \/ Uncount(t) \/ ClearAlive(t) \/ Ends(t)
  \/ JoinBegins(t) \/ JoinRefused(t) \/ JoinReturns(t)

ThreadsStep(t) ==
  \/ Spawn(t) \/ CreateFails(t)
  \/ New(t) \/ BodyReturns(t)
  \/ \E op \in {"join", "detach"} : Release(t, op)
  \/ IsAlivePanics(t)
  \/ \E u \in Threads : Copy(t, u)
  \/ Library(t)

-----------------------------------------------------------------------------
(* Properties.                                                             *)

\* A thread is given to pthread_join or pthread_detach once, however many
\* copies of its handle race to join and detach it (threads.c 128-143): a
\* second call would be undefined behaviour.
ReleasedOnce == \A u \in Threads : releases[u] <= 1

\* What thread_count and is_alive tell a program is true of the moment they
\* are called (58-59, 67-80): every thread whose body has not returned is
\* alive and counted, from before its spawn returns; and no more are counted
\* than are alive, also when pthread_create has failed.
Observed ==
  LET unfinished == {u \in Spawned : stage[u] = "body"} IN
  /\ \A u \in unfinished : alive[u]
  /\ Cardinality(unfinished) <= gray_threads_live_count
  /\ gray_threads_live_count <= Cardinality({u \in Spawned : alive[u]})

\* u is itself in a join of t, or has come back from one.
JoinCalled(u, t) == Waits(u, t) \/ <<u, t>> \in joined

\* The threads that somebody has waited for in a join, which was not a join of
\* the caller itself or of one that was waiting for the caller.
Awaited == {u \in Spawned : \E t \in Threads \ {u} : <<t, u>> \in joined /\ ~JoinCalled(u, t)}

\* After a join has returned nothing of the thread runs any more and it is
\* neither counted nor alive (50-56, 135-138), whatever was joined in a circle
\* meanwhile; only a join in a circle of one or two may come back, with the
\* EDEADLK that 137 does not look at, without the wait of STANDARD.md 4524.  And
\* what any thread published from its heap arena can still be read, by the
\* usage test at its end.
JoinedIsOver ==
  /\ \A u \in Awaited : stage[u] = "ended" /\ ~alive[u]
  /\ Awaited = Spawned => gray_threads_live_count = 0
  /\ \A u \in published : heap_arena[u] = "live"

\* t is in join of a thread whose body has returned, or of itself.
JoinsReturned(t) ==
  /\ call[t].op \in {"join", "joining"}
  /\ call[t].thread = t \/ stage[call[t].thread] # "body"

\* A join returns once the body of the thread it waits for has (36-62,
\* 135-138), whichever other joins go on.
JoinEnds == \A t \in Threads : JoinsReturned(t) ~> status # "running" \/ ~JoinsReturned(t)
=============================================================================
