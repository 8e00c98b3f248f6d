------------------------------ MODULE Process ------------------------------
(***************************************************************************)
(* The process of a compiled program: the threads that run in it, what a   *)
(* panic does to it (runtime/runtime.c) and the test runner that catches   *)
(* panics (runtime/test.c).                                                *)
(*                                                                         *)
(* The runtime's panic hook and its jump target belong to the process, not *)
(* to a thread.                                                            *)
(***************************************************************************)
EXTENDS Naturals, FiniteSets

CONSTANTS
  Threads,   \* the threads there can be
  Main,      \* the one that runs main()
  NULL,      \* no thread and no mutex
  MaxTests   \* bound: the #test functions of the program

ASSUME ProcessAssumption ==
  IsFiniteSet(Threads) /\ Main \in Threads /\ NULL \notin Threads /\ MaxTests \in Nat

VARIABLES
  status,            \* "running", "exited", or "undefined" after a jump into a foreign stack
  testing,           \* the program was built by gray test
  gray_test_active,
  tests,             \* tests still to be run
  call,              \* call[t]: the library call that t is inside of
  handle             \* handle[t]: the variable of t that holds a Thread or a Mutex

process == <<status, testing, gray_test_active, tests>>

\* A thread that executes code of the program.
Code == [op |-> "code"]

ProcessInit ==
  /\ status = "running"
  /\ testing \in BOOLEAN
  /\ gray_test_active = FALSE
  /\ tests = IF testing THEN MaxTests ELSE 0
  /\ call = [t \in Threads |-> Code]
  /\ handle = [t \in Threads |-> NULL]

\* gray_panic_code in thread t.  While a test runs it is a jump to the runner,
\* which is in the main thread: nothing of the frames that are jumped over is
\* undone, and from another thread the jump is undefined.
Panic(t) ==
  IF gray_test_active /\ t = Main
  THEN /\ gray_test_active' = FALSE
       /\ tests' = tests - 1
       /\ call' = [call EXCEPT ![t] = Code]
       /\ UNCHANGED <<status, testing>>
  ELSE /\ status' = IF gray_test_active THEN "undefined" ELSE "exited"
       /\ UNCHANGED <<testing, gray_test_active, tests, call>>

\* The main thread is in main() or in a #test function, not in the runner.
InProgram(t) == t # Main \/ ~testing \/ gray_test_active

\* gray_test_run, up to the call of the test.
TestBegins ==
  /\ status = "running"
  /\ testing /\ ~gray_test_active /\ tests > 0
  /\ gray_test_active' = TRUE
  /\ UNCHANGED <<status, testing, tests, call, handle>>

\* The test has returned.
TestPasses ==
  /\ status = "running"
  /\ gray_test_active /\ call[Main] = Code
  /\ gray_test_active' = FALSE
  /\ tests' = tests - 1
  /\ UNCHANGED <<status, testing, call, handle>>

\* main() returns, or gray_test_end after the last test: the process exits,
\* whatever its other threads are doing.
MainReturns ==
  /\ status = "running"
  /\ call[Main] = Code
  /\ ~gray_test_active /\ tests = 0
  /\ status' = "exited"
  /\ UNCHANGED <<testing, gray_test_active, tests, call, handle>>
=============================================================================
