-------------------------------- MODULE Sync --------------------------------
(***************************************************************************)
(* stdlib/sync.c: mutexes.  lock, unlock and try_lock first look whether    *)
(* the mutex is live and then call pthreads; destroy may come in between.  *)
(***************************************************************************)
EXTENDS Threads

CONSTANT Mutexes   \* the mutexes there can be

ASSUME SyncAssumption ==
  IsFiniteSet(Mutexes) /\ NULL \notin Mutexes /\ Mutexes \cap Threads = {}

VARIABLES
  created,       \* the mutexes that sync.mutex() has made
  destroyed,     \* destroyed[m]
  owner,         \* owner[m]: the thread that holds m, or NULL
  gone           \* history: pthread_mutex_destroy calls per mutex

sync == <<created, destroyed, owner, gone>>

SyncInit ==
  /\ created = {}
  /\ destroyed = [m \in Mutexes |-> FALSE]
  /\ owner = [m \in Mutexes |-> NULL]
  /\ gone = [m \in Mutexes |-> 0]

gray_sync_mutex(t) ==
  /\ Runs(t)
  /\ \E m \in Mutexes \ created :
       /\ created' = created \cup {m}
       /\ handle' = [handle EXCEPT ![t] = m]
  /\ UNCHANGED <<process, call, threads, destroyed, owner, gone>>

\* The variable of t is one of type Mutex.
IsMutex(t) == handle[t] \in Mutexes \cup {NULL}

Unusable(m) == m = NULL \/ destroyed[m]

\* lock, unlock and try_lock, up to the call of pthreads: the mutex is live, or
\* P0168.
live_mutex(t, op) ==
  /\ Runs(t) /\ IsMutex(t)
  /\ IF Unusable(handle[t]) THEN Panic(t)
     ELSE Enter(t, [op |-> op, mutex |-> handle[t]]) /\ UNCHANGED process
  /\ UNCHANGED <<handle, threads, sync>>

\* pthread_mutex_lock: waits, for ever if t holds the mutex itself.
gray_sync_lock(t) ==
  /\ In(t, "lock")
  /\ owner[call[t].mutex] = NULL
  /\ owner' = [owner EXCEPT ![call[t].mutex] = t]
  /\ Leave(t)
  /\ UNCHANGED <<process, handle, threads, created, destroyed, gone>>

\* pthread_mutex_unlock, which for a default mutex does not look who holds it.
gray_sync_unlock(t) ==
  /\ In(t, "unlock")
  /\ owner' = [owner EXCEPT ![call[t].mutex] = NULL]
  /\ Leave(t)
  /\ UNCHANGED <<process, handle, threads, created, destroyed, gone>>

\* pthread_mutex_trylock.
gray_sync_try_lock(t) ==
  /\ In(t, "try_lock")
  /\ owner' = [owner EXCEPT ![call[t].mutex] = IF @ = NULL THEN t ELSE @]
  /\ Leave(t)
  /\ UNCHANGED <<process, handle, threads, created, destroyed, gone>>

MutexCalls == {"lock", "unlock", "try_lock"}

\* The calls that have passed live_mutex and are in pthreads, or about to be.
Pending(m) == {t \in Threads : call[t].op \in MutexCalls /\ call[t].mutex = m}

\* pthread_mutex_destroy, which is undefined for a mutex that is held or that
\* somebody is about to use.
PthreadDestroy(m) ==
  /\ gone' = [gone EXCEPT ![m] = @ + 1]
  /\ status' = IF owner[m] = NULL /\ Pending(m) = {} THEN status ELSE "undefined"
  /\ UNCHANGED <<testing, gray_test_active, tests>>

\* Bug: destroyed is read but left to be set after pthread_mutex_destroy.
DestroyUnset(t) ==
  LET m == handle[t] IN
  /\ Runs(t) /\ IsMutex(t)
  /\ IF Unusable(m) THEN Panic(t) /\ UNCHANGED <<handle, gone>>
     ELSE PthreadDestroy(m) /\ handle' = [handle EXCEPT ![t] = NULL] /\ UNCHANGED call
  /\ UNCHANGED <<threads, created, destroyed, owner>>

\* The exchange on destroyed lets one through to pthread_mutex_destroy; the
\* others panic with P0168.  The variable of t is cleared.
gray_sync_destroy(t) ==
  LET m == handle[t] IN
  /\ Runs(t) /\ IsMutex(t)
  /\ IF Unusable(m) THEN Panic(t) /\ UNCHANGED <<handle, destroyed, gone>>
     ELSE /\ destroyed' = [destroyed EXCEPT ![m] = TRUE]
          /\ PthreadDestroy(m)
          /\ handle' = [handle EXCEPT ![t] = NULL]
          /\ UNCHANGED call
  /\ UNCHANGED <<threads, created, owner>>

SyncStep(t) ==
  \/ gray_sync_mutex(t)
  \/ \E op \in MutexCalls : live_mutex(t, op)
  \/ gray_sync_lock(t) \/ gray_sync_unlock(t) \/ gray_sync_try_lock(t)
  \/ gray_sync_destroy(t)

-----------------------------------------------------------------------------
(* The process: threads, mutexes, and the test runner.                     *)

Init == ProcessInit /\ ThreadsInit /\ SyncInit

Next ==
  \/ \E t \in Threads : ThreadsStep(t) /\ UNCHANGED sync
  \/ \E t \in Threads : SyncStep(t)
  \/ (TestBegins \/ TestPasses \/ MainReturns) /\ UNCHANGED <<handle, threads, sync>>

vars == <<process, call, handle, threads, sync>>

Spec == Init /\ [][Next]_vars

\* Some thread that is inside the library and not blocked goes on; what the
\* program's own code does, or whether it ends, is not assumed.
FairSpec == Spec /\ WF_vars(\E t \in Threads : Library(t) /\ UNCHANGED sync)

-----------------------------------------------------------------------------
(* Properties.                                                             *)

\* A mutex is destroyed once, however many copies of it race (sync.c 58-62),
\* and one that nobody was using when it was destroyed is never used again:
\* every later call, through whatever copy of the handle, panics instead of
\* entering a lock that excludes nobody (39-55).
DestroyedStaysShut ==
  \A m \in Mutexes :
    /\ gone[m] <= 1
    /\ gone[m] > 0 /\ status = "running" => owner[m] = NULL /\ Pending(m) = {}
=============================================================================
