---------------------------- MODULE SyncProofs -----------------------------
(***************************************************************************)
(* Proofs about threads.c and sync.c, in a process that may also be a test *)
(* runner: for every number of threads, mutexes and tests.                 *)
(***************************************************************************)
EXTENDS Sync, FiniteSetTheorems, TLAPS

-----------------------------------------------------------------------------
(* What a thread is inside of, and what its variable holds.                *)

Stages == {"none", "allocated", "body", "swept", "uncounted", "flagged", "ended"}

\* The thread u has been created.
Begun(u) == u \in Spawned /\ stage[u] \notin {"none", "allocated"}

Calls(t) ==
  \/ call[t] = Code
  \/ \E u \in Spawned : call[t] = [op |-> "spawn", thread |-> u]
  \/ \E u \in Spawned : call[t] = [op |-> "spawned", thread |-> u] /\ Begun(u)
  \/ \E u \in Spawned : call[t] = [op |-> "join", thread |-> u]
  \/ \E u \in Spawned : call[t] = [op |-> "joining", thread |-> u]
  \/ \E op \in MutexCalls, m \in Mutexes : call[t] = [op |-> op, mutex |-> m]

\* A handle of a thread is given out once the thread has been created.
Holds(t) == handle[t] \in Mutexes \cup {NULL} \/ Begun(handle[t])

StageInv ==
  /\ stage \in [Threads -> Stages] /\ stage[Main] = "body"
  /\ DOMAIN call = Threads /\ call = [t \in Threads |-> call[t]]
  /\ DOMAIN handle = Threads /\ handle = [t \in Threads |-> handle[t]]
  /\ \A t \in Threads : Calls(t) /\ Holds(t)

-----------------------------------------------------------------------------
(* The flags, the count and the history, by the stage of the thread.       *)

Counted == {u \in Spawned : stage[u] \in {"allocated", "body", "swept"}}

CountInv ==
  /\ alive \in [Threads -> BOOLEAN]
  /\ \A u \in Spawned : alive[u] <=> stage[u] \in {"allocated", "body", "swept", "uncounted"}
  /\ gray_threads_live_count = Cardinality(Counted)

ReleaseInv ==
  /\ released \in [Threads -> BOOLEAN] /\ releases \in [Threads -> 0 .. 1]
  /\ \A u \in Spawned : stage[u] \in {"none", "allocated"} \/ ~released[u] => releases[u] = 0

EndInv ==
  /\ joined \subseteq Threads \X Spawned
  /\ \A t \in Threads, u \in Spawned :
       <<t, u>> \in joined => t = u \/ stage[u] = "ended" \/ JoinCalled(u, t)

HeapInv ==
  /\ heap_arena \in [Threads -> {"none", "live", "freed"}] /\ heap_usage \in [Threads -> 0 .. 1]
  /\ \A u \in Threads : stage[u] = "body" => heap_arena[u] = "live"
  /\ published \subseteq {u \in Threads : heap_arena[u] = "live" /\ heap_usage[u] # 0}

MutexInv ==
  /\ destroyed \in [Mutexes -> BOOLEAN]
  /\ owner \in [Mutexes -> Threads \cup {NULL}]
  /\ gone = [m \in Mutexes |-> IF destroyed[m] THEN 1 ELSE 0]
  /\ status = "running" => \A m \in Mutexes : destroyed[m] => owner[m] = NULL /\ Pending(m) = {}

\* A step of the life of u, which no other thread's stage depends on.
LEMMA GoesFacts ==
  ASSUME StageInv, NEW u \in Spawned, NEW from, NEW to \in Stages, Goes(u, from, to),
         from \in {"none", "allocated"} \/ to \notin {"none", "allocated"}
  PROVE  /\ stage' \in [Threads -> Stages] /\ stage'[Main] = "body"
         /\ stage[u] = from /\ stage'[u] = to
         /\ \A v \in Threads : v # u => stage'[v] = stage[v]
         /\ \A v : Begun(v) => Begun(v)'
  <1>1. /\ stage' \in [Threads -> Stages] /\ stage'[Main] = "body"
        /\ stage[u] = from /\ stage'[u] = to
        /\ \A v \in Threads : v # u => stage'[v] = stage[v]
    BY ProcessAssumption DEF StageInv, Goes, Spawned
  <1>2. QED
    BY <1>1 DEF Begun, Spawned

\* A call, or a handle, that stays as it is stays in order.
LEMMA CallsKept ==
  ASSUME NEW t, Calls(t), call'[t] = call[t], \A v : Begun(v) => Begun(v)'
  PROVE  Calls(t)'
  BY DEF Calls, Code

\* A handle goes on naming a thread that has begun.
LEMMA HoldsKept ==
  ASSUME NEW t, Holds(t), handle'[t] = handle[t], \A v : Begun(v) => Begun(v)'
  PROVE  Holds(t)'
  BY DEF Holds

\* t enters c, or returns to its own code.
LEMMA EnterFacts ==
  ASSUME StageInv, NEW t \in Threads, NEW c, Enter(t, c)
  PROVE  /\ DOMAIN call' = Threads /\ call' = [s \in Threads |-> call'[s]]
         /\ call'[t] = c /\ \A s \in Threads : s # t => call'[s] = call[s]
  BY DEF StageInv, Enter

\* A panic ends the call of the main thread, or nothing.
LEMMA PanicFacts ==
  ASSUME StageInv, NEW t \in Threads, Panic(t)
  PROVE  /\ DOMAIN call' = Threads /\ call' = [s \in Threads |-> call'[s]]
         /\ \A s \in Threads : call'[s] = call[s] \/ call'[s] = Code
         /\ status' = "running" => status = "running"
  BY DEF StageInv, Panic

\* What keeps StageInv: the calls and the handles that changed are in order.
LEMMA StageKept ==
  ASSUME StageInv,
         stage' \in [Threads -> Stages], stage'[Main] = "body",
         \A v : Begun(v) => Begun(v)',
         DOMAIN call' = Threads, call' = [t \in Threads |-> call'[t]],
         DOMAIN handle' = Threads, handle' = [t \in Threads |-> handle'[t]],
         \A t \in Threads : call'[t] = call[t] \/ Calls(t)',
         \A t \in Threads : handle'[t] = handle[t] \/ Holds(t)'
  PROVE  StageInv'
  <1>1. \A t \in Threads : Calls(t)' /\ Holds(t)'
    BY CallsKept, HoldsKept DEF StageInv
  <1>2. QED
    BY <1>1 DEF StageInv

\* The thread that spawn allocates is one that has not been used.
LEMMA FreshFacts ==
  ASSUME Fresh # {}
  PROVE  (CHOOSE x \in Fresh : TRUE) \in Fresh
  OBVIOUS

\* The thread in a call of spawn or join is one that spawn made; the mutex in
\* a call of lock, unlock or try_lock is a mutex.
LEMMA CallFacts ==
  ASSUME StageInv, NEW t \in Threads
  PROVE  /\ call[t].op \in {"spawn", "spawned", "join", "joining"} => call[t].thread \in Spawned
         /\ call[t].op = "spawned" => Begun(call[t].thread)
         /\ call[t].op \in MutexCalls => call[t].mutex \in Mutexes
  BY DEF StageInv, Calls, Code, MutexCalls

\* The steps of gray_thread_spawn keep the stages.
LEMMA SpawnStages ==
  ASSUME StageInv, NEW t \in Threads, Spawn(t) \/ CreateSucceeds(t) \/ CreateFails(t) \/ SpawnReturns(t)
  PROVE  StageInv'
  <1>1. CASE Spawn(t)
    <2>1. PICK u \in Fresh : Goes(u, "none", "allocated") /\ Enter(t, [op |-> "spawn", thread |-> u])
      BY <1>1, FreshFacts DEF Spawn
    <2>2. u \in Spawned /\ handle' = handle
      BY <1>1, <2>1 DEF Spawn, Fresh
    <2>3. Calls(t)'
      BY <2>1, <2>2, EnterFacts DEF Calls
    <2>4. QED
      BY <2>1, <2>2, <2>3, GoesFacts, EnterFacts, StageKept DEF Stages, StageInv
  <1>2. CASE CreateSucceeds(t)
    <2>1. PICK u : u = call[t].thread /\ Goes(u, "allocated", "body") /\ handle' = handle
                   /\ Enter(t, [op |-> "spawned", thread |-> u])
      BY <1>2 DEF CreateSucceeds
    <2>2. u \in Spawned
      BY <1>2, <2>1, CallFacts DEF CreateSucceeds, In
    <2>3. /\ stage' \in [Threads -> Stages] /\ stage'[Main] = "body" /\ stage'[u] = "body"
          /\ \A v : Begun(v) => Begun(v)'
      BY <2>1, <2>2, GoesFacts DEF Stages
    <2>4. Begun(u)'
      BY <2>2, <2>3 DEF Begun
    <2>5. Calls(t)'
      BY <2>1, <2>2, <2>4, EnterFacts DEF Calls
    <2>6. QED
      BY <2>1, <2>3, <2>5, EnterFacts, StageKept DEF StageInv
  <1>3. CASE CreateFails(t)
    <2>1. Goes(call[t].thread, "allocated", "none") /\ Panic(t) /\ handle' = handle
      BY <1>3 DEF CreateFails
    <2>2. call[t].thread \in Spawned
      BY <1>3, CallFacts DEF CreateFails, In
    <2>3. \A s \in Threads : call'[s] = call[s] \/ Calls(s)'
      BY <2>1, PanicFacts DEF Calls, Code
    <2>4. QED
      BY <2>1, <2>2, <2>3, GoesFacts, PanicFacts, StageKept DEF Stages, StageInv
  <1>4. CASE SpawnReturns(t)
    <2>1. /\ handle' = [handle EXCEPT ![t] = call[t].thread] /\ Enter(t, Code) /\ stage' = stage
          /\ Begun(call[t].thread)
      BY <1>4, CallFacts DEF SpawnReturns, Leave, In, threads
    <2>2. \A v : Begun(v) => Begun(v)'
      BY <2>1 DEF Begun
    <2>3. Calls(t)'
      BY <2>1, EnterFacts DEF Calls, Code
    <2>4. /\ DOMAIN handle' = Threads /\ handle' = [s \in Threads |-> handle'[s]]
          /\ handle'[t] = call[t].thread /\ \A s \in Threads : s # t => handle'[s] = handle[s]
      BY <2>1 DEF StageInv
    <2>5. Holds(t)'
      BY <2>1, <2>2, <2>4 DEF Holds
    <2>6. QED
      BY <2>1, <2>2, <2>3, <2>4, <2>5, EnterFacts, StageKept DEF StageInv
  <1>5. QED
    BY <1>1, <1>2, <1>3, <1>4

\* A thread on its way to its end.
LEMMA EndStages ==
  ASSUME StageInv, NEW u \in Threads, BodyReturns(u) \/ Uncount(u) \/ ClearAlive(u) \/ Ends(u)
  PROVE  StageInv' /\ u \in Spawned
  <1>1. u \in Spawned
    BY DEF BodyReturns, Uncount, ClearAlive, Ends, Goes, StageInv, Spawned
  <1>2. PICK from \in Stages, to \in {"swept", "uncounted", "flagged", "ended"} : Goes(u, from, to)
    BY DEF BodyReturns, Uncount, ClearAlive, Ends, Stages
  <1>3. UNCHANGED <<call, handle>>
    BY DEF BodyReturns, Uncount, ClearAlive, Ends
  <1>4. QED
    BY <1>1, <1>2, <1>3, GoesFacts, StageKept DEF Stages, StageInv

\* The calls that leave every thread at its stage.
LEMMA QuietStages ==
  ASSUME StageInv, NEW t \in Threads, stage' = stage,
         DOMAIN call' = Threads, call' = [s \in Threads |-> call'[s]],
         \A s \in Threads : call'[s] = call[s] \/ Calls(s)',
         \/ handle' = handle
         \/ \E h : handle' = [handle EXCEPT ![t] = h]
                   /\ (h \in Mutexes \cup {NULL} \/ \E s \in Threads : h = handle[s])
  PROVE  StageInv'
  <1>1. \A v : Begun(v) => Begun(v)'
    BY DEF Begun
  <1>2. CASE handle' = handle
    BY <1>1, <1>2, StageKept DEF StageInv
  <1>3. CASE handle' # handle
    <2>1. PICK h : handle' = [handle EXCEPT ![t] = h]
                   /\ (h \in Mutexes \cup {NULL} \/ \E s \in Threads : h = handle[s])
      BY <1>3
    <2>2. /\ DOMAIN handle' = Threads /\ handle' = [s \in Threads |-> handle'[s]]
          /\ handle'[t] = h /\ \A s \in Threads : s # t => handle'[s] = handle[s]
      BY <2>1 DEF StageInv
    <2>3. Holds(t)'
      BY <1>1, <2>1, <2>2 DEF Holds, StageInv
    <2>4. QED
      BY <1>1, <2>2, <2>3, StageKept DEF StageInv
  <1>4. QED
    BY <1>2, <1>3

\* join, detach, is_alive, the copying of a handle, and allocation.
LEMMA HandleStages ==
  ASSUME StageInv, NEW t \in Threads,
         \/ \E op \in {"join", "detach"} : Release(t, op)
         \/ JoinBegins(t) \/ JoinRefused(t) \/ JoinReturns(t)
         \/ IsAlivePanics(t) \/ New(t) \/ \E u \in Threads : Copy(t, u)
  PROVE  StageInv' /\ stage' = stage
  <1>1. stage' = stage
    BY DEF Release, JoinBegins, JoinRefused, JoinReturns, IsAlivePanics, New, Copy, threads
  <1>2. ASSUME Panic(t), handle' = handle PROVE StageInv'
    <2>1. \A s \in Threads : call'[s] = call[s] \/ Calls(s)'
      BY <1>2, PanicFacts DEF Calls, Code
    <2>2. QED
      BY <1>1, <1>2, <2>1, PanicFacts, QuietStages
  <1>3. CASE \E op \in {"join", "detach"} : Release(t, op)
    <2>1. PICK op \in {"join", "detach"} : Release(t, op)
      BY <1>3
    <2>2. CASE ~IsLive(handle[t])
      BY <1>2, <2>1, <2>2 DEF Release
    <2>3. CASE IsLive(handle[t])
      <3>1. /\ handle' = [handle EXCEPT ![t] = NULL] /\ handle[t] \in Spawned
            /\ Enter(t, IF op = "join" THEN [op |-> op, thread |-> handle[t]] ELSE Code)
        BY <2>1, <2>3 DEF Release, IsLive
      <3>2. Calls(t)'
        <4>1. CASE op = "join"
          BY <3>1, <4>1, EnterFacts DEF Calls
        <4>2. CASE op # "join"
          BY <3>1, <4>2, EnterFacts DEF Calls, Code
        <4>3. QED
          BY <4>1, <4>2
      <3>3. \A s \in Threads : call'[s] = call[s] \/ Calls(s)'
        BY <3>1, <3>2, EnterFacts
      <3>4. QED
        BY <1>1, <3>1, <3>3, EnterFacts, QuietStages
    <2>4. QED
      BY <2>2, <2>3
  <1>4. CASE JoinBegins(t) \/ JoinRefused(t) \/ JoinReturns(t)
    <2>1. PICK c : Enter(t, c) /\ (c = Code \/ \E u \in Spawned : c = [op |-> "joining", thread |-> u])
      BY <1>4, CallFacts DEF JoinBegins, JoinRefused, JoinReturns, Leave, In
    <2>2. handle' = handle
      BY <1>4 DEF JoinBegins, JoinRefused, JoinReturns
    <2>3. \A s \in Threads : call'[s] = call[s] \/ Calls(s)'
      BY <2>1, EnterFacts DEF Calls, Code
    <2>4. QED
      BY <1>1, <2>1, <2>2, <2>3, EnterFacts, QuietStages
  <1>5. CASE IsAlivePanics(t)
    BY <1>1, <1>2, <1>5 DEF IsAlivePanics
  <1>6. CASE \E u \in Threads : Copy(t, u)
    <2>1. PICK u \in Threads : handle' = [handle EXCEPT ![t] = handle[u]] /\ call' = call
      BY <1>6 DEF Copy
    <2>2. QED
      BY <1>1, <2>1, QuietStages DEF StageInv
  <1>7. CASE New(t)
    BY <1>1, <1>7, QuietStages DEF New, StageInv
  <1>8. QED
    BY <1>1, <1>3, <1>4, <1>5, <1>6, <1>7

\* The calls of sync.c.
LEMMA MutexStages ==
  ASSUME StageInv, NEW t \in Threads, SyncStep(t)
  PROVE  StageInv' /\ UNCHANGED threads
  <1>1. UNCHANGED threads /\ stage' = stage
    BY DEF SyncStep, gray_sync_mutex, live_mutex, gray_sync_lock, gray_sync_unlock,
       gray_sync_try_lock, gray_sync_destroy, threads
  <1>2. ASSUME Panic(t), handle' = handle PROVE StageInv'
    <2>1. \A s \in Threads : call'[s] = call[s] \/ Calls(s)'
      BY <1>2, PanicFacts DEF Calls, Code
    <2>2. QED
      BY <1>1, <1>2, <2>1, PanicFacts, QuietStages
  <1>3. CASE gray_sync_mutex(t)
    <2>1. PICK m \in Mutexes : handle' = [handle EXCEPT ![t] = m] /\ call' = call
      BY <1>3 DEF gray_sync_mutex
    <2>2. QED
      BY <1>1, <2>1, QuietStages DEF StageInv
  <1>4. CASE \E op \in MutexCalls : live_mutex(t, op)
    <2>1. CASE Unusable(handle[t])
      BY <1>2, <1>4, <2>1 DEF live_mutex
    <2>2. CASE ~Unusable(handle[t])
      <3>1. PICK op \in MutexCalls : Enter(t, [op |-> op, mutex |-> handle[t]])
        BY <1>4, <2>2 DEF live_mutex
      <3>2. handle' = handle /\ handle[t] \in Mutexes
        BY <1>4, <2>2 DEF live_mutex, IsMutex, Unusable
      <3>3. \A s \in Threads : call'[s] = call[s] \/ Calls(s)'
        BY <3>1, <3>2, EnterFacts DEF Calls
      <3>4. QED
        BY <1>1, <3>1, <3>2, <3>3, EnterFacts, QuietStages
    <2>3. QED
      BY <2>1, <2>2
  <1>5. CASE gray_sync_lock(t) \/ gray_sync_unlock(t) \/ gray_sync_try_lock(t)
    <2>1. Enter(t, Code) /\ handle' = handle
      BY <1>5 DEF gray_sync_lock, gray_sync_unlock, gray_sync_try_lock, Leave
    <2>2. \A s \in Threads : call'[s] = call[s] \/ Calls(s)'
      BY <2>1, EnterFacts DEF Calls, Code
    <2>3. QED
      BY <1>1, <2>1, <2>2, EnterFacts, QuietStages
  <1>7. CASE gray_sync_destroy(t)
    <2>1. CASE Unusable(handle[t])
      BY <1>2, <1>7, <2>1 DEF gray_sync_destroy
    <2>2. CASE ~Unusable(handle[t])
      <3>1. handle' = [handle EXCEPT ![t] = NULL] /\ call' = call
        BY <1>7, <2>2 DEF gray_sync_destroy
      <3>2. QED
        BY <1>1, <3>1, QuietStages DEF StageInv
    <2>3. QED
      BY <2>1, <2>2
  <1>8. QED
    BY <1>1, <1>3, <1>4, <1>5, <1>7 DEF SyncStep

\* What is left: the test runner, the end of the process, and no step at all.
Outside == (TestBegins \/ TestPasses \/ MainReturns \/ UNCHANGED process)
           /\ UNCHANGED <<call, handle, threads, sync>>

\* So do the steps outside the library.
LEMMA OutsideStages ==
  ASSUME StageInv, Outside
  PROVE  StageInv'
  <1>1. UNCHANGED <<stage, call, handle>>
    BY DEF Outside, threads
  <1>2. QED
    BY <1>1, QuietStages, ProcessAssumption DEF StageInv

\* The steps of the process, by what they change.
LEMMA Kinds ==
  ASSUME [Next]_vars
  PROVE  \/ \E t \in Threads : /\ Spawn(t) \/ CreateSucceeds(t) \/ CreateFails(t) \/ SpawnReturns(t)
                               /\ UNCHANGED sync
         \/ \E t \in Threads : /\ BodyReturns(t) \/ Uncount(t) \/ ClearAlive(t) \/ Ends(t)
                               /\ UNCHANGED sync
         \/ \E t \in Threads : /\ \/ \E op \in {"join", "detach"} : Release(t, op)
                                  \/ JoinBegins(t) \/ JoinRefused(t) \/ JoinReturns(t)
                                  \/ IsAlivePanics(t) \/ New(t) \/ \E u \in Threads : Copy(t, u)
                               /\ UNCHANGED sync
         \/ \E t \in Threads : SyncStep(t)
         \/ Outside
  <1>1. TestBegins \/ TestPasses \/ MainReturns => UNCHANGED call
    BY DEF TestBegins, TestPasses, MainReturns
  <1>2. QED
    BY <1>1 DEF Next, vars, Outside, ThreadsStep, Library

\* Every step keeps the stages.
LEMMA StageStep ==
  ASSUME StageInv, [Next]_vars
  PROVE  StageInv'
  BY Kinds, SpawnStages, EndStages, HandleStages, MutexStages, OutsideStages

\* The process starts with the main thread alone.
LEMMA Initially ==
  ASSUME Init
  PROVE  StageInv /\ CountInv /\ ReleaseInv /\ EndInv /\ HeapInv /\ MutexInv
  <1>1. StageInv
    BY ProcessAssumption
       DEF Init, ProcessInit, ThreadsInit, StageInv, Stages, Calls, Holds
  <1>2. Counted = {}
    BY DEF Init, ThreadsInit, Counted, Spawned
  <1>3. CountInv
    BY <1>2, FS_EmptySet DEF Init, ThreadsInit, CountInv, Spawned
  <1>4. ReleaseInv /\ EndInv /\ HeapInv
    BY DEF Init, ThreadsInit, ReleaseInv, EndInv, HeapInv, Spawned
  <1>5. MutexInv
    BY DEF Init, SyncInit, MutexInv
  <1>6. QED
    BY <1>1, <1>3, <1>4, <1>5

-----------------------------------------------------------------------------
(* The live count.                                                         *)

\* A thread that comes to be counted, or no longer is, changes the count by one.
LEMMA CountedFacts ==
  /\ IsFiniteSet(Spawned) /\ IsFiniteSet(Counted) /\ Cardinality(Counted) \in Nat
  /\ \A u : /\ u \notin Counted => Cardinality(Counted \cup {u}) = Cardinality(Counted) + 1
            /\ u \in Counted => Cardinality(Counted \ {u}) = Cardinality(Counted) - 1
  <1>1. IsFiniteSet(Spawned) /\ IsFiniteSet(Counted)
    BY ProcessAssumption, FS_Subset DEF Spawned, Counted
  <1>2. QED
    BY <1>1, FS_CardinalityType, FS_AddElement, FS_RemoveElement

\* Every step keeps the counters equal to the threads they count.
LEMMA CountStep ==
  ASSUME StageInv, CountInv, [Next]_vars
  PROVE  CountInv'
  <1> USE DEF CountInv
  <1>0. StageInv => stage \in [Threads -> Stages] /\ Spawned \subseteq Threads
    BY DEF StageInv, Spawned
  <1>1. ASSUME NEW t \in Threads, Spawn(t) PROVE CountInv'
    <2>1. PICK u \in Fresh : /\ Goes(u, "none", "allocated") /\ alive' = [alive EXCEPT ![u] = TRUE]
                             /\ gray_threads_live_count' = gray_threads_live_count + 1
      BY <1>1, FreshFacts DEF Spawn
    <2>2. u \in Spawned
      BY DEF Fresh
    <2>3. /\ stage[u] = "none" /\ stage'[u] = "allocated"
          /\ \A v \in Threads : v # u => stage'[v] = stage[v]
      BY <2>1, <2>2, GoesFacts DEF Stages
    <2>4. Counted' = Counted \cup {u} /\ u \notin Counted
      BY <1>0, <2>2, <2>3 DEF Counted
    <2>5. QED
      BY <1>0, <2>1, <2>2, <2>3, <2>4, CountedFacts
  <1>2. ASSUME NEW t \in Threads, CreateSucceeds(t) PROVE CountInv'
    <2>1. PICK u : u = call[t].thread /\ Goes(u, "allocated", "body") /\ UNCHANGED flags
      BY <1>2 DEF CreateSucceeds
    <2>2. u \in Spawned
      BY <1>2, <2>1, CallFacts DEF CreateSucceeds, In
    <2>3. /\ stage[u] = "allocated" /\ stage'[u] = "body"
          /\ \A v \in Threads : v # u => stage'[v] = stage[v]
      BY <2>1, <2>2, GoesFacts DEF Stages
    <2>4. Counted' = Counted
      BY <1>0, <2>2, <2>3 DEF Counted
    <2>5. QED
      BY <1>0, <2>1, <2>2, <2>3, <2>4 DEF flags
  <1>3. ASSUME NEW t \in Threads, CreateFails(t) PROVE CountInv'
    <2>1. PICK u : /\ u = call[t].thread /\ Goes(u, "allocated", "none")
                   /\ alive' = [alive EXCEPT ![u] = FALSE]
                   /\ gray_threads_live_count' = gray_threads_live_count - 1
      BY <1>3 DEF CreateFails
    <2>2. u \in Spawned
      BY <1>3, <2>1, CallFacts DEF CreateFails, In
    <2>3. /\ stage[u] = "allocated" /\ stage'[u] = "none"
          /\ \A v \in Threads : v # u => stage'[v] = stage[v]
      BY <2>1, <2>2, GoesFacts DEF Stages
    <2>4. Counted' = Counted \ {u} /\ u \in Counted
      BY <1>0, <2>2, <2>3 DEF Counted
    <2>5. QED
      BY <1>0, <2>1, <2>2, <2>3, <2>4, CountedFacts
  <1>4. ASSUME NEW u \in Threads, BodyReturns(u) \/ Ends(u) PROVE CountInv'
    <2>1. PICK from \in Stages, to \in Stages :
            /\ <<from, to>> \in {<<"body", "swept">>, <<"flagged", "ended">>}
            /\ u \in Spawned /\ UNCHANGED flags /\ Goes(u, from, to)
      BY <1>4, EndStages DEF BodyReturns, Ends, Stages
    <2>2. /\ stage[u] = from /\ stage'[u] = to
          /\ \A v \in Threads : v # u => stage'[v] = stage[v]
      BY <2>1, GoesFacts
    <2>3. Counted' = Counted
      BY <1>0, <2>1, <2>2 DEF Counted
    <2>4. QED
      BY <1>0, <2>1, <2>2, <2>3 DEF flags
  <1>5. ASSUME NEW u \in Threads, Uncount(u) PROVE CountInv'
    <2>1. u \in Spawned /\ Goes(u, "swept", "uncounted") /\ alive' = alive
          /\ gray_threads_live_count' = gray_threads_live_count - 1
      BY <1>5, EndStages DEF Uncount
    <2>2. /\ stage[u] = "swept" /\ stage'[u] = "uncounted"
          /\ \A v \in Threads : v # u => stage'[v] = stage[v]
      BY <2>1, GoesFacts DEF Stages
    <2>3. Counted' = Counted \ {u} /\ u \in Counted
      BY <1>0, <2>1, <2>2 DEF Counted
    <2>4. QED
      BY <1>0, <2>1, <2>2, <2>3, CountedFacts
  <1>6. ASSUME NEW u \in Threads, ClearAlive(u) PROVE CountInv'
    <2>1. u \in Spawned /\ Goes(u, "uncounted", "flagged") /\ alive' = [alive EXCEPT ![u] = FALSE]
          /\ gray_threads_live_count' = gray_threads_live_count
      BY <1>6, EndStages DEF ClearAlive
    <2>2. /\ stage[u] = "uncounted" /\ stage'[u] = "flagged"
          /\ \A v \in Threads : v # u => stage'[v] = stage[v]
      BY <2>1, GoesFacts DEF Stages
    <2>3. Counted' = Counted
      BY <1>0, <2>1, <2>2 DEF Counted
    <2>4. QED
      BY <1>0, <2>1, <2>2, <2>3
  <1>7. ASSUME UNCHANGED <<stage, alive, gray_threads_live_count>> PROVE CountInv'
    BY <1>7 DEF Counted
  <1>8. ASSUME NEW t \in Threads,
               \/ \E op \in {"join", "detach"} : Release(t, op)
               \/ JoinBegins(t) \/ JoinRefused(t) \/ JoinReturns(t)
               \/ IsAlivePanics(t) \/ New(t) \/ SpawnReturns(t)
               \/ \E u \in Threads : Copy(t, u)
        PROVE  UNCHANGED <<stage, alive, gray_threads_live_count>>
    BY <1>8 DEF Release, JoinBegins, JoinRefused, JoinReturns, IsAlivePanics, New, SpawnReturns, Copy,
       threads, flags
  <1>9. ASSUME UNCHANGED threads PROVE UNCHANGED <<stage, alive, gray_threads_live_count>>
    BY <1>9 DEF threads, flags
  <1>10. QED
    BY <1>1, <1>2, <1>3, <1>4, <1>5, <1>6, <1>7, <1>8, <1>9, Kinds, MutexStages DEF Outside

-----------------------------------------------------------------------------
(* join and detach.                                                        *)

\* Every step keeps the handles that are to be released apart.
LEMMA ReleaseStep ==
  ASSUME StageInv, ReleaseInv, [Next]_vars
  PROVE  ReleaseInv'
  <1> USE DEF ReleaseInv
  <1>0. stage \in [Threads -> Stages] /\ Spawned \subseteq Threads
    BY DEF StageInv, Spawned
  <1>1. ASSUME NEW t \in Threads, Spawn(t) PROVE ReleaseInv'
    <2>1. PICK u \in Fresh : /\ Goes(u, "none", "allocated") /\ releases' = releases
                             /\ released' = [released EXCEPT ![u] = FALSE]
      BY <1>1, FreshFacts DEF Spawn, history
    <2>2. u \in Spawned
      BY DEF Fresh
    <2>3. /\ stage[u] = "none" /\ stage'[u] = "allocated"
          /\ \A v \in Threads : v # u => stage'[v] = stage[v]
      BY <2>1, <2>2, GoesFacts DEF Stages
    <2>4. QED
      BY <1>0, <2>1, <2>2, <2>3
  <1>2. ASSUME NEW u \in Spawned, NEW from, NEW to \in Stages, Goes(u, from, to),
               from = "allocated" \/ to \notin {"none", "allocated"},
               UNCHANGED <<released, releases>>
        PROVE  ReleaseInv'
    <2>1. /\ stage[u] = from /\ stage'[u] = to
          /\ \A v \in Threads : v # u => stage'[v] = stage[v]
      BY <1>2, GoesFacts
    <2>2. QED
      BY <1>0, <1>2, <2>1
  <1>3. ASSUME NEW t \in Threads, CreateSucceeds(t) \/ CreateFails(t) PROVE ReleaseInv'
    <2>1. call[t].thread \in Spawned
      BY <1>3, CallFacts DEF CreateSucceeds, CreateFails, In
    <2>2. PICK to \in {"body", "none"} : Goes(call[t].thread, "allocated", to)
      BY <1>3 DEF CreateSucceeds, CreateFails
    <2>3. UNCHANGED <<released, releases>>
      BY <1>3 DEF CreateSucceeds, CreateFails, flags, history
    <2>4. QED
      BY <1>2, <2>1, <2>2, <2>3 DEF Stages
  <1>4. ASSUME NEW u \in Threads, BodyReturns(u) \/ Uncount(u) \/ ClearAlive(u) \/ Ends(u)
        PROVE  ReleaseInv'
    <2>1. PICK from \in Stages, to \in {"swept", "uncounted", "flagged", "ended"} : Goes(u, from, to)
      BY <1>4 DEF BodyReturns, Uncount, ClearAlive, Ends, Stages
    <2>2. UNCHANGED <<released, releases>>
      BY <1>4 DEF BodyReturns, Uncount, ClearAlive, Ends, flags, history
    <2>3. QED
      BY <1>2, <1>4, <2>1, <2>2, EndStages DEF Stages
  <1>5. ASSUME NEW t \in Threads, NEW op, Release(t, op) PROVE ReleaseInv'
    <2>1. CASE ~IsLive(handle[t])
      BY <1>5, <2>1 DEF Release
    <2>2. CASE IsLive(handle[t])
      <3>1. PICK u : /\ u = handle[t] /\ released' = [released EXCEPT ![u] = TRUE]
                     /\ releases' = [releases EXCEPT ![u] = @ + 1] /\ stage' = stage
        BY <1>5, <2>2 DEF Release
      <3>2. u \in Spawned /\ ~released[u]
        BY <2>2, <3>1 DEF IsLive
      <3>3. u \notin Mutexes \cup {NULL}
        BY <3>2, ProcessAssumption, SyncAssumption DEF Spawned
      <3>4. stage[u] \notin {"none", "allocated"}
        BY <3>1, <3>3 DEF StageInv, Holds, Begun
      <3>5. releases[u] = 0
        BY <3>2
      <3>6. QED
        BY <1>0, <3>1, <3>2, <3>4, <3>5
    <2>3. QED
      BY <2>1, <2>2
  <1>6. ASSUME UNCHANGED <<stage, released, releases>> PROVE ReleaseInv'
    BY <1>6
  <1>7. ASSUME NEW t \in Threads,
               \/ JoinBegins(t) \/ JoinRefused(t) \/ JoinReturns(t)
               \/ IsAlivePanics(t) \/ New(t) \/ SpawnReturns(t)
               \/ \E u \in Threads : Copy(t, u)
        PROVE  UNCHANGED <<stage, released, releases>>
    BY <1>7 DEF JoinBegins, JoinRefused, JoinReturns, IsAlivePanics, New, SpawnReturns, Copy,
       threads, flags, history
  <1>8. ASSUME UNCHANGED threads PROVE UNCHANGED <<stage, released, releases>>
    BY <1>8 DEF threads, flags, history
  <1>9. QED
    BY <1>1, <1>3, <1>4, <1>5, <1>6, <1>7, <1>8, Kinds, MutexStages DEF Outside

\* A thread that has ended (threads.c 60-61) stays so.
LEMMA EndedKept ==
  ASSUME StageInv, [Next]_vars
  PROVE  \A u \in Spawned : stage[u] = "ended" => stage'[u] = "ended"
  <1>1. ASSUME NEW v \in Spawned, NEW from, NEW to \in Stages, Goes(v, from, to), from # "ended",
               from \in {"none", "allocated"} \/ to \notin {"none", "allocated"}
        PROVE  \A u \in Spawned : stage[u] = "ended" => stage'[u] = "ended"
    BY <1>1, GoesFacts DEF Spawned
  <1>2. ASSUME NEW t \in Threads,
               Spawn(t) \/ CreateSucceeds(t) \/ CreateFails(t) \/ SpawnReturns(t)
        PROVE  \A u \in Spawned : stage[u] = "ended" => stage'[u] = "ended"
    <2>1. CASE Spawn(t)
      <3>1. PICK v \in Fresh : Goes(v, "none", "allocated")
        BY <2>1, FreshFacts DEF Spawn
      <3>2. QED
        BY <1>1, <3>1 DEF Fresh, Stages
    <2>2. CASE CreateSucceeds(t) \/ CreateFails(t)
      <3>1. PICK to \in {"body", "none"} : Goes(call[t].thread, "allocated", to)
        BY <2>2 DEF CreateSucceeds, CreateFails
      <3>2. call[t].thread \in Spawned
        BY <2>2, CallFacts DEF CreateSucceeds, CreateFails, In
      <3>3. QED
        BY <1>1, <3>1, <3>2 DEF Stages
    <2>3. CASE SpawnReturns(t)
      BY <2>3 DEF SpawnReturns, threads
    <2>4. QED
      BY <1>2, <2>1, <2>2, <2>3
  <1>3. ASSUME NEW v \in Threads, BodyReturns(v) \/ Uncount(v) \/ ClearAlive(v) \/ Ends(v)
        PROVE  \A u \in Spawned : stage[u] = "ended" => stage'[u] = "ended"
    <2>1. PICK from \in Stages \ {"ended"}, to \in {"swept", "uncounted", "flagged", "ended"} :
            Goes(v, from, to)
      BY <1>3 DEF BodyReturns, Uncount, ClearAlive, Ends, Stages
    <2>2. QED
      BY <1>1, <1>3, <2>1, EndStages DEF Stages
  <1>4. stage' = stage => \A u \in Spawned : stage[u] = "ended" => stage'[u] = "ended"
    OBVIOUS
  <1>5. QED
    BY <1>2, <1>3, <1>4, Kinds, HandleStages, MutexStages DEF Outside, threads

\* A thread that waits in pthread_join (threads.c 137) leaves it by the end of
\* the thread it waits for.
LEMMA WaitsLeft ==
  ASSUME StageInv, [Next]_vars, NEW x \in Threads, call[x].op = "joining", ~JoinReturns(x)
  PROVE  call'[x] = call[x]
  <1>1. ASSUME NEW t \in Threads, NEW c, Enter(t, c), t # x PROVE call'[x] = call[x]
    BY <1>1, EnterFacts
  <1>2. ASSUME NEW t \in Threads, Panic(t), t # x PROVE call'[x] = call[x]
    BY <1>2 DEF Panic, StageInv
  <1>3. ASSUME NEW t \in Threads,
               Spawn(t) \/ CreateSucceeds(t) \/ CreateFails(t) \/ SpawnReturns(t)
        PROVE  call'[x] = call[x]
    <2>1. t # x
      BY <1>3 DEF Spawn, CreateSucceeds, CreateFails, SpawnReturns, Runs, In, Code
    <2>2. Panic(t) \/ \E c : Enter(t, c)
      BY <1>3 DEF Spawn, CreateSucceeds, CreateFails, SpawnReturns, Leave
    <2>3. QED
      BY <1>1, <1>2, <2>1, <2>2
  <1>4. ASSUME NEW t \in Threads,
               BodyReturns(t) \/ Uncount(t) \/ ClearAlive(t) \/ Ends(t) \/ New(t)
               \/ \E u \in Threads : Copy(t, u)
        PROVE  call'[x] = call[x]
    BY <1>4 DEF BodyReturns, Uncount, ClearAlive, Ends, New, Copy
  <1>5. ASSUME NEW t \in Threads,
               \/ \E op \in {"join", "detach"} : Release(t, op)
               \/ JoinBegins(t) \/ JoinRefused(t) \/ JoinReturns(t) \/ IsAlivePanics(t)
        PROVE  call'[x] = call[x]
    <2>1. t # x
      BY <1>5 DEF Release, JoinBegins, JoinRefused, IsAlivePanics, Runs, In, Code
    <2>2. Panic(t) \/ \E c : Enter(t, c)
      <3>1. CASE \E op \in {"join", "detach"} : Release(t, op)
        <4>1. PICK op \in {"join", "detach"} : Release(t, op)
          BY <3>1
        <4>2. QED
          BY <4>1 DEF Release
      <3>2. QED
        BY <1>5, <3>1 DEF JoinBegins, JoinRefused, JoinReturns, IsAlivePanics, Leave
    <2>3. QED
      BY <1>1, <1>2, <2>1, <2>2
  <1>6. ASSUME NEW t \in Threads, SyncStep(t) PROVE call'[x] = call[x]
    <2>1. CASE gray_sync_mutex(t)
      BY <2>1 DEF gray_sync_mutex
    <2>2. CASE \E op \in MutexCalls : live_mutex(t, op)
      <3>1. PICK op \in MutexCalls : live_mutex(t, op)
        BY <2>2
      <3>2. t # x /\ (Panic(t) \/ Enter(t, [op |-> op, mutex |-> handle[t]]))
        BY <3>1 DEF live_mutex, Runs, Code
      <3>3. QED
        BY <1>1, <1>2, <3>2
    <2>3. CASE gray_sync_lock(t) \/ gray_sync_unlock(t) \/ gray_sync_try_lock(t)
      <3>1. t # x /\ Enter(t, Code)
        BY <2>3 DEF gray_sync_lock, gray_sync_unlock, gray_sync_try_lock, In, Leave
      <3>2. QED
        BY <1>1, <3>1
    <2>4. CASE gray_sync_destroy(t)
      <3>1. t # x /\ (Panic(t) \/ call' = call)
        BY <2>4 DEF gray_sync_destroy, Runs, Code
      <3>2. QED
        BY <1>2, <3>1
    <2>5. QED
      BY <1>6, <2>1, <2>2, <2>3, <2>4 DEF SyncStep
  <1>7. QED
    BY <1>3, <1>4, <1>5, <1>6, Kinds DEF Outside

\* The step of a join in t that returns, and what it returns from.
LEMMA JoinedStep ==
  ASSUME StageInv, [Next]_vars
  PROVE  \/ joined' = joined /\ \A t \in Threads : ~JoinReturns(t)
         \/ \E t \in Threads, u \in Spawned :
              /\ joined' = joined \cup {<<t, u>>}
              /\ \/ JoinReturns(t) /\ stage[u] = "ended" /\ call[t].thread = u
                 \/ call[t].op = "join" /\ (u = t \/ Waits(u, t))
              /\ \A x \in Threads \ {t} : call'[x] = call[x]
  <1> DEFINE Returned(t, u) ==
        /\ joined' = joined \cup {<<t, u>>}
        /\ \/ JoinReturns(t) /\ stage[u] = "ended" /\ call[t].thread = u
           \/ call[t].op = "join" /\ (u = t \/ Waits(u, t))
        /\ \A x \in Threads \ {t} : call'[x] = call[x]
  <1>1. ASSUME NEW t \in Threads, JoinReturns(t) \/ JoinRefused(t)
        PROVE  \E u \in Spawned : Returned(t, u)
    <2>1. PICK u : u = call[t].thread
      OBVIOUS
    <2>2. u \in Spawned /\ Enter(t, Code) /\ joined' = joined \cup {<<t, u>>}
      BY <1>1, <2>1, CallFacts DEF JoinReturns, JoinRefused, In, Leave
    <2>3. \/ JoinReturns(t) /\ stage[u] = "ended"
          \/ call[t].op = "join" /\ (u = t \/ Waits(u, t))
      BY <1>1, <2>1 DEF JoinReturns, JoinRefused, In
    <2>4. QED
      BY <2>1, <2>2, <2>3, EnterFacts
  <1>2. ASSUME \A t \in Threads : ~JoinReturns(t) /\ ~JoinRefused(t)
        PROVE  joined' = joined
    <2>1. ASSUME NEW t \in Threads,
                 \/ Spawn(t) \/ CreateSucceeds(t) \/ CreateFails(t) \/ SpawnReturns(t)
                 \/ BodyReturns(t) \/ Uncount(t) \/ ClearAlive(t) \/ Ends(t)
          PROVE  joined' = joined
      BY <2>1 DEF Spawn, CreateSucceeds, CreateFails, SpawnReturns, BodyReturns, Uncount,
         ClearAlive, Ends, history, threads
    <2>2. ASSUME NEW t \in Threads,
                 \/ \E op \in {"join", "detach"} : Release(t, op)
                 \/ JoinBegins(t) \/ IsAlivePanics(t) \/ New(t) \/ \E u \in Threads : Copy(t, u)
          PROVE  joined' = joined
      BY <2>2 DEF Release, JoinBegins, IsAlivePanics, New, Copy, history, threads
    <2>3. UNCHANGED threads => joined' = joined
      BY DEF threads, history
    <2>4. QED
      BY <1>2, <2>1, <2>2, <2>3, Kinds, MutexStages DEF Outside
  <1>3. CASE \E t \in Threads : JoinReturns(t) \/ JoinRefused(t)
    BY <1>1, <1>3
  <1>4. QED
    BY <1>2, <1>3

\* Every step keeps joined threads over, or waiting for their joiner.
LEMMA EndStep ==
  ASSUME StageInv, EndInv, [Next]_vars
  PROVE  EndInv'
  <1>1. CASE joined' = joined /\ \A t \in Threads : ~JoinReturns(t)
    <2>1. ASSUME NEW t \in Threads, NEW u \in Spawned, JoinCalled(u, t) PROVE JoinCalled(u, t)'
      BY <1>1, <2>1, WaitsLeft DEF JoinCalled, Waits, Spawned
    <2>2. QED
      BY <1>1, <2>1, EndedKept DEF EndInv
  <1>2. ASSUME NEW t \in Threads, NEW u \in Spawned, joined' = joined \cup {<<t, u>>},
               \/ JoinReturns(t) /\ stage[u] = "ended" /\ call[t].thread = u
               \/ call[t].op = "join" /\ (u = t \/ Waits(u, t)),
               \A x \in Threads \ {t} : call'[x] = call[x]
        PROVE  EndInv'
    <2>1. ASSUME NEW s \in Threads, NEW v \in Spawned, JoinCalled(v, s) PROVE JoinCalled(v, s)'
      <3>1. CASE <<v, s>> \in joined
        BY <1>2, <3>1 DEF JoinCalled
      <3>2. CASE Waits(v, s) /\ v # t
        BY <1>2, <3>2 DEF JoinCalled, Waits, Spawned
      <3>3. CASE Waits(v, s) /\ v = t
        BY <1>2, <3>3 DEF JoinCalled, Waits
      <3>4. QED
        BY <2>1, <3>1, <3>2, <3>3 DEF JoinCalled
    <2>2. t = u \/ stage'[u] = "ended" \/ JoinCalled(u, t)'
      BY <1>2, EndedKept DEF JoinCalled, Waits, Spawned
    <2>3. joined' \subseteq Threads \X Spawned
      BY <1>2 DEF EndInv
    <2>4. ASSUME NEW s \in Threads, NEW v \in Spawned, <<s, v>> \in joined'
          PROVE  s = v \/ stage'[v] = "ended" \/ JoinCalled(v, s)'
      <3>1. CASE <<s, v>> \in joined
        BY <2>1, <3>1, EndedKept DEF EndInv
      <3>2. CASE s = t /\ v = u
        BY <2>2, <3>2
      <3>3. QED
        BY <1>2, <2>4, <3>1, <3>2
    <2>5. QED
      BY <2>3, <2>4 DEF EndInv
  <1>3. QED
    BY <1>1, <1>2, JoinedStep

-----------------------------------------------------------------------------
(* Heap arenas.                                                            *)

\* Every step keeps the heap arenas that somebody may still read.
LEMMA HeapStep ==
  ASSUME StageInv, HeapInv, [Next]_vars
  PROVE  HeapInv'
  <1> USE DEF HeapInv
  <1>0. stage \in [Threads -> Stages] /\ Spawned \subseteq Threads
    BY DEF StageInv, Spawned
  <1>1. ASSUME NEW u \in Spawned, NEW from, NEW to \in Stages \ {"body"}, Goes(u, from, to),
               from \in {"none", "allocated"} \/ to \notin {"none", "allocated"},
               UNCHANGED heaps
        PROVE  HeapInv'
    BY <1>0, <1>1, GoesFacts DEF heaps
  <1>2. ASSUME NEW t \in Threads, Spawn(t) PROVE HeapInv'
    <2>1. PICK u \in Fresh : Goes(u, "none", "allocated") /\ UNCHANGED heaps
      BY <1>2, FreshFacts DEF Spawn
    <2>2. QED
      BY <1>1, <2>1 DEF Fresh, Stages
  <1>3. ASSUME NEW t \in Threads, CreateSucceeds(t) PROVE HeapInv'
    <2>1. PICK u : /\ u = call[t].thread /\ Goes(u, "allocated", "body")
                   /\ heap_arena' = [heap_arena EXCEPT ![u] = "live"]
                   /\ UNCHANGED <<heap_usage, published>>
      BY <1>3 DEF CreateSucceeds
    <2>2. u \in Spawned
      BY <1>3, <2>1, CallFacts DEF CreateSucceeds, In
    <2>3. \A v \in Threads : v # u => stage'[v] = stage[v]
      BY <2>1, <2>2, GoesFacts DEF Stages
    <2>4. QED
      BY <1>0, <2>1, <2>2, <2>3
  <1>4. ASSUME NEW t \in Threads, CreateFails(t) PROVE HeapInv'
    <2>1. call[t].thread \in Spawned
      BY <1>4, CallFacts DEF CreateFails, In
    <2>2. QED
      BY <1>1, <1>4, <2>1 DEF CreateFails, Stages
  <1>5. ASSUME NEW u \in Threads, New(u) PROVE HeapInv'
    <2>1. stage[u] = "body" /\ stage' = stage /\ heap_arena' = heap_arena
      BY <1>5 DEF New, Runs
    <2>2. QED
      BY <1>5, <2>1 DEF New
  <1>6. ASSUME NEW u \in Threads, BodyReturns(u) PROVE HeapInv'
    <2>1. /\ u \in Spawned /\ Goes(u, "body", "swept")
          /\ heap_arena' = [heap_arena EXCEPT ![u] = IF heap_usage[u] = 0 THEN "freed" ELSE @]
          /\ UNCHANGED <<heap_usage, published>>
      BY <1>6, EndStages DEF BodyReturns
    <2>2. stage'[u] = "swept" /\ \A v \in Threads : v # u => stage'[v] = stage[v]
      BY <2>1, GoesFacts DEF Stages
    <2>3. QED
      BY <1>0, <2>1, <2>2
  <1>7. ASSUME NEW u \in Threads, Uncount(u) \/ ClearAlive(u) \/ Ends(u) PROVE HeapInv'
    <2>1. PICK from \in Stages, to \in {"uncounted", "flagged", "ended"} : Goes(u, from, to)
      BY <1>7 DEF Uncount, ClearAlive, Ends, Stages
    <2>2. u \in Spawned /\ UNCHANGED heaps
      BY <1>7, EndStages DEF Uncount, ClearAlive, Ends
    <2>3. QED
      BY <1>1, <2>1, <2>2 DEF Stages
  <1>8. ASSUME UNCHANGED <<stage, heaps>> PROVE HeapInv'
    BY <1>8 DEF heaps
  <1>9. ASSUME NEW t \in Threads,
               \/ \E op \in {"join", "detach"} : Release(t, op)
               \/ JoinBegins(t) \/ JoinRefused(t) \/ JoinReturns(t)
               \/ IsAlivePanics(t) \/ SpawnReturns(t) \/ \E u \in Threads : Copy(t, u)
        PROVE  UNCHANGED <<stage, heaps>>
    BY <1>9 DEF Release, JoinBegins, JoinRefused, JoinReturns, IsAlivePanics, SpawnReturns, Copy, threads
  <1>10. ASSUME UNCHANGED threads PROVE UNCHANGED <<stage, heaps>>
    BY <1>10 DEF threads
  <1>11. QED
    BY <1>2, <1>3, <1>4, <1>5, <1>6, <1>7, <1>8, <1>9, <1>10, Kinds, MutexStages DEF Outside

-----------------------------------------------------------------------------
(* Mutexes.                                                                *)

\* A call that ends makes nobody about to use a mutex.
LEMMA PendingShrinks ==
  ASSUME StageInv, NEW m, \A s \in Threads : call'[s] = call[s] \/ call'[s].op \notin MutexCalls
  PROVE  Pending(m)' \subseteq Pending(m)
  BY DEF Pending

\* Every step keeps destroyed mutexes shut.
LEMMA MutexStep ==
  ASSUME StageInv, MutexInv, [Next]_vars
  PROVE  MutexInv'
  <1> USE DEF MutexInv, MutexCalls
  <1>1. ASSUME UNCHANGED <<destroyed, owner, gone>>, status' = "running" => status = "running",
               \A s \in Threads : call'[s] = call[s] \/ call'[s].op \notin MutexCalls
        PROVE  MutexInv'
    BY <1>1, PendingShrinks
  <1>2. ASSUME NEW t \in Threads, Panic(t), UNCHANGED <<destroyed, owner, gone>> PROVE MutexInv'
    BY <1>1, <1>2, PanicFacts DEF Code
  <1>3. ASSUME NEW t \in Threads, UNCHANGED <<destroyed, owner, gone, status>>,
               NEW c, Enter(t, c), c.op \notin MutexCalls
        PROVE  MutexInv'
    BY <1>1, <1>3, EnterFacts
  <1>4. ASSUME UNCHANGED <<destroyed, owner, gone, call, status>> PROVE MutexInv'
    BY <1>1, <1>4
  <1>5. ASSUME NEW t \in Threads, Spawn(t) \/ CreateSucceeds(t) \/ CreateFails(t) \/ SpawnReturns(t),
               UNCHANGED sync
        PROVE  MutexInv'
    <2>1. UNCHANGED <<destroyed, owner, gone>>
      BY <1>5 DEF sync
    <2>2. CASE CreateFails(t)
      BY <1>2, <2>1, <2>2 DEF CreateFails
    <2>3. CASE ~CreateFails(t)
      <3>1. PICK c : Enter(t, c) /\ c.op \notin MutexCalls
        BY <1>5, <2>3 DEF Spawn, CreateSucceeds, SpawnReturns, Leave, Code
      <3>2. status' = status
        BY <1>5, <2>3 DEF Spawn, CreateSucceeds, SpawnReturns, process
      <3>3. QED
        BY <1>3, <2>1, <3>1, <3>2
    <2>4. QED
      BY <2>2, <2>3
  <1>6. ASSUME NEW t \in Threads, BodyReturns(t) \/ Uncount(t) \/ ClearAlive(t) \/ Ends(t),
               UNCHANGED sync
        PROVE  MutexInv'
    BY <1>4, <1>6 DEF BodyReturns, Uncount, ClearAlive, Ends, process, sync
  <1>7. ASSUME NEW t \in Threads, UNCHANGED sync,
               \/ \E op \in {"join", "detach"} : Release(t, op)
               \/ JoinBegins(t) \/ JoinRefused(t) \/ JoinReturns(t)
               \/ IsAlivePanics(t) \/ New(t) \/ \E u \in Threads : Copy(t, u)
        PROVE  MutexInv'
    <2>1. UNCHANGED <<destroyed, owner, gone>>
      BY <1>7 DEF sync
    <2>2. CASE \E op \in {"join", "detach"} : Release(t, op)
      <3>1. PICK op \in {"join", "detach"} : Release(t, op)
        BY <2>2
      <3>2. CASE IsLive(handle[t])
        <4>1. PICK c : Enter(t, c) /\ c.op \notin MutexCalls /\ UNCHANGED process
          BY <3>1, <3>2 DEF Release, Code
        <4>2. QED
          BY <1>3, <2>1, <4>1 DEF process
      <3>3. QED
        BY <1>2, <2>1, <3>1, <3>2 DEF Release
    <2>3. CASE JoinBegins(t) \/ JoinRefused(t) \/ JoinReturns(t)
      <3>1. PICK c : Enter(t, c) /\ c.op \notin MutexCalls
        BY <2>3 DEF JoinBegins, JoinRefused, JoinReturns, Leave, Code, MutexCalls
      <3>2. status' = status
        BY <2>3 DEF JoinBegins, JoinRefused, JoinReturns, process
      <3>3. QED
        BY <1>3, <2>1, <3>1, <3>2
    <2>4. CASE IsAlivePanics(t)
      BY <1>2, <2>1, <2>4 DEF IsAlivePanics
    <2>5. CASE \E u \in Threads : Copy(t, u)
      BY <1>4, <2>1, <2>5 DEF Copy, process
    <2>6. CASE New(t)
      BY <1>4, <2>1, <2>6 DEF New, process
    <2>7. QED
      BY <1>7, <2>2, <2>3, <2>4, <2>5, <2>6
  <1>8. ASSUME NEW t \in Threads, SyncStep(t) PROVE MutexInv'
    <2>1. CASE gray_sync_mutex(t)
      BY <1>4, <2>1 DEF gray_sync_mutex, process
    <2>2. CASE Unusable(handle[t]) /\ (gray_sync_destroy(t) \/ \E op \in MutexCalls : live_mutex(t, op))
      BY <1>2, <2>2 DEF live_mutex, gray_sync_destroy, sync
    <2>3. CASE (\E op \in MutexCalls : live_mutex(t, op)) /\ ~Unusable(handle[t])
      <3>1. PICK op \in MutexCalls : live_mutex(t, op)
        BY <2>3
      <3>2. PICK m \in Mutexes : ~destroyed[m] /\ Enter(t, [op |-> op, mutex |-> m])
        BY <2>3, <3>1 DEF live_mutex, IsMutex, Unusable
      <3>3. UNCHANGED <<destroyed, owner, gone, status>>
        BY <2>3, <3>1 DEF live_mutex, sync, process
      <3>4. \A n \in Mutexes : n # m => Pending(n)' \subseteq Pending(n)
        BY <3>2, EnterFacts DEF Pending
      <3>5. QED
        BY <3>2, <3>3, <3>4
    <2>4. CASE gray_sync_lock(t) \/ gray_sync_unlock(t) \/ gray_sync_try_lock(t)
      <3>1. PICK m : m = call[t].mutex
        OBVIOUS
      <3>2. m \in Mutexes /\ status = "running" /\ call[t].op \in MutexCalls
        BY <2>4, <3>1, CallFacts DEF gray_sync_lock, gray_sync_unlock, gray_sync_try_lock, In, MutexCalls
      <3>3. \E x \in Threads \cup {NULL} : owner' = [owner EXCEPT ![m] = x]
        BY <2>4, <3>1, <3>2 DEF gray_sync_lock, gray_sync_unlock, gray_sync_try_lock
      <3>4. Enter(t, Code) /\ UNCHANGED <<destroyed, gone, status>>
        BY <2>4 DEF gray_sync_lock, gray_sync_unlock, gray_sync_try_lock, Leave, process
      <3>5. t \in Pending(m) /\ ~destroyed[m]
        BY <3>1, <3>2 DEF Pending
      <3>6. \A n \in Mutexes : Pending(n)' \subseteq Pending(n)
        BY <3>4, EnterFacts, PendingShrinks DEF Code, MutexCalls
      <3>7. QED
        BY <3>2, <3>3, <3>4, <3>5, <3>6
    <2>6. CASE gray_sync_destroy(t) /\ ~Unusable(handle[t])
      <3>1. PICK m \in Mutexes : /\ m = handle[t] /\ ~destroyed[m]
        BY <2>6 DEF gray_sync_destroy, IsMutex, Unusable
      <3>2. /\ destroyed' = [destroyed EXCEPT ![m] = TRUE] /\ PthreadDestroy(m)
            /\ UNCHANGED <<call, owner>>
        BY <2>6, <3>1 DEF gray_sync_destroy
      <3>3. \A n \in Mutexes : Pending(n)' = Pending(n)
        BY <3>2 DEF Pending
      <3>4. QED
        BY <3>1, <3>2, <3>3 DEF PthreadDestroy
    <2>7. QED
      BY <1>8, <2>1, <2>2, <2>3, <2>4, <2>6 DEF SyncStep
  <1>9. ASSUME Outside PROVE MutexInv'
    <2>1. UNCHANGED <<destroyed, owner, gone, call>>
      BY <1>9 DEF Outside, sync
    <2>2. status' = "running" => status = "running"
      BY <1>9 DEF Outside, TestBegins, TestPasses, MainReturns, process
    <2>3. QED
      BY <1>1, <2>1, <2>2
  <1>10. QED
    BY <1>5, <1>6, <1>7, <1>8, <1>9, Kinds

-----------------------------------------------------------------------------
(* The theorems.                                                           *)

\* The parts together: StageInv is what the others are inductive relative to.
LEMMA Always == Spec => [](StageInv /\ CountInv /\ ReleaseInv /\ EndInv /\ HeapInv /\ MutexInv)
  <1>1. /\ StageInv /\ CountInv /\ ReleaseInv /\ EndInv /\ HeapInv /\ MutexInv
        /\ [Next]_vars
        => (StageInv /\ CountInv /\ ReleaseInv /\ EndInv /\ HeapInv /\ MutexInv)'
    BY StageStep, CountStep, ReleaseStep, EndStep, HeapStep, MutexStep
  <1>2. QED
    BY <1>1, Initially, PTL DEF Spec

\* However many copies of a handle race to join and detach a thread, it is
\* given to pthread_join or pthread_detach once (threads.c 128-143).
THEOREM ThreadReleasedOnce == Spec => []ReleasedOnce
  <1>1. StageInv /\ ReleaseInv => ReleasedOnce
    BY DEF ReleaseInv, ReleasedOnce
  <1>2. QED
    BY <1>1, Always, PTL

\* is_alive and thread_count tell the truth at every moment (threads.c 36-80):
\* between the set of threads whose body runs and the set of those alive.
THEOREM ThreadCountObserved == Spec => []Observed
  <1>1. StageInv /\ CountInv => Observed
    <2> SUFFICES ASSUME StageInv, CountInv PROVE Observed
      OBVIOUS
    <2> DEFINE unfinished == {u \in Spawned : stage[u] = "body"}
               living == {u \in Spawned : alive[u]}
    <2>1. \A u \in unfinished : alive[u]
      BY DEF CountInv
    <2>2. Cardinality(unfinished) <= Cardinality(Counted)
      BY CountedFacts, FS_Subset DEF Counted
    <2>3. Cardinality(Counted) <= Cardinality(living)
      <3>1. Counted \subseteq living /\ living \subseteq Spawned
        BY DEF Counted, CountInv
      <3>2. QED
        BY <3>1, CountedFacts, FS_Subset
    <2>4. QED
      BY <2>1, <2>2, <2>3 DEF Observed, CountInv
  <1>2. QED
    BY <1>1, Always, PTL

\* What ended a join that the thread itself could not end is over: nothing of
\* it runs, it is neither counted nor alive, and what a thread published from
\* its heap arena can still be read (threads.c 50-56, 135-138).  By EndInv a
\* thread that was joined has ended or is, or was, in a join of its joiner; by
\* HeapInv a heap arena somebody has a pointer into has a use that the test at
\* the end of its thread finds.
THEOREM JoinedThreadIsOver == Spec => []JoinedIsOver
  <1>1. StageInv /\ CountInv /\ EndInv /\ HeapInv => JoinedIsOver
    <2> SUFFICES ASSUME StageInv, CountInv, EndInv, HeapInv PROVE JoinedIsOver
      OBVIOUS
    <2>1. \A u \in Awaited : stage[u] = "ended" /\ ~alive[u]
      BY DEF Awaited, EndInv, CountInv, Spawned
    <2>2. Awaited = Spawned => Counted = {}
      BY <2>1 DEF Counted
    <2>3. QED
      BY <2>1, <2>2, FS_EmptySet DEF JoinedIsOver, HeapInv, CountInv
  <1>2. QED
    BY <1>1, Always, PTL

\* However many copies of a mutex race, it is destroyed once, and one that was
\* not in use then is never locked again (sync.c 40-62).
THEOREM DestroyedMutexShut == Spec => []DestroyedStaysShut
  <1>1. MutexInv => DestroyedStaysShut
    BY DEF MutexInv, DestroyedStaysShut
  <1>2. QED
    BY <1>1, Always, PTL
=============================================================================
