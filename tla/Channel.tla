------------------------------ MODULE Channel ------------------------------
(***************************************************************************)
(* grayc/src/stdlib/channels.c: a channel as a ring buffer guarded by one  *)
(* mutex, with the condition variables not_full and not_empty.             *)
(*                                                                         *)
(* Everything a call does between pthread_mutex_lock and the unlock or the *)
(* pthread_cond_wait that ends it is one step.  A thread in cond_wait is   *)
(* "waiting" and leaves that state only when it is signalled (or wakes up  *)
(* spuriously, which POSIX allows); it is then "woken" and competes for    *)
(* the mutex with the threads that have just called in ("lock"), any of    *)
(* which may run before it and change what its while loop tests.           *)
(***************************************************************************)
EXTENDS Integers, Sequences, FiniteSets

CONSTANTS
  Threads,     \* the threads of the program
  Values,      \* the int values that are sent
  Junk,        \* what malloc leaves in a slot nobody has written
  Capacities,  \* the arguments given to channels.open
  WordLimit,   \* SIZE_MAX / sizeof(int64_t)
  ArenaLimit   \* maximum_bytes of the default arena in words, 0 if unlimited

ASSUME ChannelAssumption ==
  /\ IsFiniteSet(Threads)
  /\ Values \subseteq Int
  /\ Junk \in Int \ Values
  /\ Capacities \subseteq Int
  /\ WordLimit \in Nat
  /\ ArenaLimit \in Nat

VARIABLES
  buffer,    \* buffer[i]: the slot i of the ring, for i in 0 .. capacity - 1
  capacity, count, head, tail,
  closed,
  opened,    \* gray_channels_open returned a handle
  op,        \* op[t]: the function thread t is inside of, or "none"
  arg,       \* arg[t]: the value of that call
  stage,     \* stage[t]: where in that function the thread is
  result,    \* result[t]: what the last call of t returned
  panicked   \* the code of the panic that ended the process, or "none"

ring == <<buffer, count, head, tail>>
vars == <<ring, capacity, closed, opened, op, arg, stage, result, panicked>>

Ops == {"send", "receive", "try_send", "try_receive", "close", "len"}
Stages == {"idle", "lock", "waiting", "woken"}
Codes == {"none", "P0104", "P0159", "P0160", "P0169", "P0172", "P0173"}

\* The bool and the int a call returns.  receive returns no bool in C: the
\* one recorded for it tells a received 0 from the 0 of a drained channel.
Answer(ok, value) == [ok |-> ok, value |-> value]
NoAnswer == Answer(FALSE, 0)

Init ==
  /\ capacity = 0 /\ count = 0 /\ head = 0 /\ tail = 0
  /\ buffer = [i \in 0 .. capacity - 1 |-> Junk]
  /\ closed = FALSE
  /\ opened = FALSE
  /\ op = [t \in Threads |-> "none"]
  /\ arg = [t \in Threads |-> 0]
  /\ stage = [t \in Threads |-> "idle"]
  /\ result = [t \in Threads |-> NoAnswer]
  /\ panicked = "none"

-----------------------------------------------------------------------------
(* A panic outside of a test calls exit(1): no thread takes another step.  *)
Panic(code) ==
  /\ panicked' = code
  /\ UNCHANGED <<ring, capacity, closed, opened, op, arg, stage, result>>

Refusal(c) ==
  IF c < 1 THEN "P0173"
  ELSE IF c > WordLimit THEN "P0159"
  ELSE IF ArenaLimit > 0 /\ c > ArenaLimit THEN "P0104"
  ELSE "none"

\* Either malloc may fail (P0160); a buffer that malloc returns is not cleared.
Open(c) ==
  /\ ~opened
  /\ \/ Refusal(c) # "none" /\ Panic(Refusal(c))
     \/ Refusal(c) = "none" /\ Panic("P0160")
     \/ /\ Refusal(c) = "none"
        /\ opened' = TRUE
        /\ capacity' = c
        /\ buffer' = [i \in 0 .. c - 1 |-> Junk]
        /\ count' = 0 /\ head' = 0 /\ tail' = 0
        /\ closed' = FALSE
        /\ UNCHANGED <<op, arg, stage, result, panicked>>

Args(o) == IF o \in {"send", "try_send"} THEN Values ELSE {0}

\* live_channel, then the attempt to lock the mutex.
Call(t) ==
  /\ stage[t] = "idle"
  /\ \/ ~opened /\ Panic("P0169")
     \/ /\ opened
        /\ \E o \in Ops : \E v \in Args(o) :
             /\ op' = [op EXCEPT ![t] = o]
             /\ arg' = [arg EXCEPT ![t] = v]
        /\ stage' = [stage EXCEPT ![t] = "lock"]
        /\ result' = [result EXCEPT ![t] = NoAnswer]
        /\ UNCHANGED <<ring, capacity, closed, opened, panicked>>

-----------------------------------------------------------------------------
\* Thread t can take the mutex: no other thread is inside a critical section.
Ready(t, o) == op[t] = o /\ stage[t] \in {"lock", "woken"}

\* The waiters of a condition variable: not_full is waited on by senders,
\* not_empty by receivers.
Waiting(o) == {t \in Threads : op[t] = o /\ stage[t] = "waiting"}
Woken(o) == {t \in Threads : op[t] = o /\ stage[t] = "woken"}
not_full == Waiting("send")
not_empty == Waiting("receive")

Wait(t) ==
  /\ stage' = [stage EXCEPT ![t] = "waiting"]
  /\ UNCHANGED <<ring, capacity, closed, opened, op, arg, result, panicked>>

\* Unlock and return to the caller, after the pthread_cond_signal or broadcast
\* that woke the threads of W.
Return(t, answer, W) ==
  /\ stage' = [u \in Threads |-> IF u = t THEN "idle"
                                 ELSE IF u \in W THEN "woken" ELSE stage[u]]
  /\ op' = [op EXCEPT ![t] = "none"]
  /\ arg' = [arg EXCEPT ![t] = 0]
  /\ result' = [result EXCEPT ![t] = answer]
  /\ UNCHANGED <<capacity, opened, panicked>>

\* What pthread_cond_signal may wake: one waiter, if there is any.
Signalled(W) == IF W = {} THEN {{}} ELSE {{w} : w \in W}

\* Bugs: a tail that does not wrap, a send that does not signal.
PutNoWrap(t) ==
  /\ buffer' = [buffer EXCEPT ![tail] = arg[t]]
  /\ tail' = tail + 1
  /\ count' = count + 1
  /\ UNCHANGED <<head, closed>>
  /\ \E W \in Signalled(not_empty) : Return(t, Answer(TRUE, 0), W)

PutNoSignal(t) ==
  /\ buffer' = [buffer EXCEPT ![tail] = arg[t]]
  /\ tail' = (tail + 1) % capacity
  /\ count' = count + 1
  /\ UNCHANGED <<head, closed>>
  /\ Return(t, Answer(TRUE, 0), {})

\* The ring with a value added at the tail, and one waiting receiver woken.
Put(t) ==
  /\ buffer' = [buffer EXCEPT ![tail] = arg[t]]
  /\ tail' = (tail + 1) % capacity
  /\ count' = count + 1
  /\ UNCHANGED <<head, closed>>
  /\ \E W \in Signalled(not_empty) : Return(t, Answer(TRUE, 0), W)

\* Bugs: the head stays behind, the freed slot is not signalled.
TakeKeepsHead(t) ==
  /\ head' = head
  /\ count' = count - 1
  /\ UNCHANGED <<buffer, tail, closed>>
  /\ \E W \in Signalled(not_full) : Return(t, Answer(TRUE, buffer[head]), W)

TakeNoSignal(t) ==
  /\ head' = (head + 1) % capacity
  /\ count' = count - 1
  /\ UNCHANGED <<buffer, tail, closed>>
  /\ Return(t, Answer(TRUE, buffer[head]), {})

\* The ring without the value at the head, and one waiting sender woken.
Take(t) ==
  /\ head' = (head + 1) % capacity
  /\ count' = count - 1
  /\ UNCHANGED <<buffer, tail, closed>>
  /\ \E W \in Signalled(not_full) : Return(t, Answer(TRUE, buffer[head]), W)

Refuse(t) == Return(t, NoAnswer, {}) /\ UNCHANGED <<ring, closed>>

Send(t) ==
  /\ Ready(t, "send")
  /\ \/ count = capacity /\ ~closed /\ Wait(t)
     \/ closed /\ Panic("P0172")
     \/ count # capacity /\ ~closed /\ Put(t)

\* A bug: a closed channel answers 0 although values are still buffered.
ReceiveClosedFirst(t) ==
  /\ Ready(t, "receive")
  /\ \/ count = 0 /\ ~closed /\ Wait(t)
     \/ closed /\ Refuse(t)
     \/ count # 0 /\ ~closed /\ Take(t)

Receive(t) ==
  /\ Ready(t, "receive")
  /\ \/ count = 0 /\ ~closed /\ Wait(t)
     \/ count = 0 /\ closed /\ Refuse(t)
     \/ count # 0 /\ Take(t)

TrySend(t) ==
  /\ Ready(t, "try_send")
  /\ \/ (count = capacity \/ closed) /\ Refuse(t)
     \/ count # capacity /\ ~closed /\ Put(t)

TryReceive(t) ==
  /\ Ready(t, "try_receive")
  /\ \/ count = 0 /\ Refuse(t)
     \/ count # 0 /\ Take(t)

\* A bug: pthread_cond_signal where close needs a broadcast.
CloseSignalsOne(t) ==
  /\ Ready(t, "close")
  /\ closed' = TRUE
  /\ UNCHANGED ring
  /\ \E W \in Signalled(not_full \cup not_empty) : Return(t, NoAnswer, W)

Close(t) ==
  /\ Ready(t, "close")
  /\ closed' = TRUE
  /\ UNCHANGED ring
  /\ Return(t, NoAnswer, not_full \cup not_empty)

Length(t) ==
  /\ Ready(t, "len")
  /\ Return(t, Answer(TRUE, count), {})
  /\ UNCHANGED <<ring, closed>>

\* POSIX: pthread_cond_wait may return although nobody signalled.
SpuriousWakeup(t) ==
  /\ stage[t] = "waiting"
  /\ stage' = [stage EXCEPT ![t] = "woken"]
  /\ UNCHANGED <<ring, capacity, closed, opened, op, arg, result, panicked>>

\* The rest of a call that has been made: what the thread does by itself.
Step(t) ==
  /\ panicked = "none"
  /\ \/ Send(t) \/ Receive(t) \/ TrySend(t) \/ TryReceive(t)
     \/ Close(t) \/ Length(t)

Next ==
  \/ panicked = "none" /\ \E c \in Capacities : Open(c)
  \/ panicked = "none" /\ \E t \in Threads : Call(t)
  \/ panicked = "none" /\ \E t \in Threads : SpuriousWakeup(t)
  \/ \E t \in Threads : Step(t)

Spec == Init /\ [][Next]_vars

\* The scheduler runs every thread that can run, and a mutex that is free
\* again and again is eventually given to each thread that asks for it.
\* Nothing makes a thread call a function or wake up spuriously.
Fairness == \A t \in Threads : WF_vars(Step(t))

FairSpec == Spec /\ Fairness

-----------------------------------------------------------------------------
(* Properties.                                                             *)

RingTypes ==
  /\ capacity \in Nat
  /\ buffer \in [0 .. capacity - 1 -> Values \cup {Junk}]
  /\ count \in 0 .. capacity
  /\ head \in Nat /\ tail \in Nat
  /\ closed \in BOOLEAN /\ opened \in BOOLEAN
  /\ opened => capacity > 0 /\ head < capacity /\ tail < capacity
  /\ ~opened => capacity = 0 /\ head = 0 /\ ~closed

CallTypes ==
  /\ op \in [Threads -> Ops \cup {"none"}]
  /\ arg \in [Threads -> Values \cup {0}]
  /\ stage \in [Threads -> Stages]
  /\ result \in [Threads -> [ok : BOOLEAN, value : Int]]
  /\ \A t \in Threads :
       /\ stage[t] = "idle" <=> op[t] = "none"
       /\ stage[t] # "idle" => opened
       /\ stage[t] \in {"waiting", "woken"} => op[t] \in {"send", "receive"}
       /\ op[t] \in {"send", "try_send"} => arg[t] \in Values

\* Every variable has its type, the ring indices stay inside the buffer, and a
\* thread has a stage of the call it is in (only send and receive block).
TypeOK == RingTypes /\ CallTypes /\ panicked \in Codes

\* The slot of the i-th oldest value.
Slot(i) == (head + i - 1) % capacity

\* The queue the ring stands for, oldest value first.
Contents == [i \in 1 .. count |-> buffer[Slot(i)]]

\* The three indices describe one window of the ring, every slot of which
\* holds a value somebody sent: send (72-74) and receive (90-92) never let
\* it drift, whatever mixture of calls ran, full and empty included.
RingConsistent ==
  opened => /\ tail = (head + count) % capacity
            /\ \A i \in 1 .. count : buffer[Slot(i)] \in Values

\* No wakeup is lost: while a receiver still sleeps on not_empty, each value
\* in the buffer has a receiver already on its way to it, and while a sender
\* sleeps on not_full, each free slot has a sender on its way.  One signal
\* per send (75, 109) and per receive (93, 127) is just enough, although the
\* woken thread may find the value taken and go back to sleep.
NoLostWakeup ==
  /\ not_empty # {} => count <= Cardinality(Woken("receive"))
  /\ not_full # {} => capacity - count <= Cardinality(Woken("send"))

\* Nobody sleeps on a closed channel: close wakes every waiter (137-138) and
\* no call goes to sleep afterwards.
ClosedNobodySleeps == closed => not_empty = {} /\ not_full = {}

\* The calls, seen from outside, are those of an atomic FIFO queue.
Fifo == INSTANCE FifoChannel WITH queue <- Contents
ImplementsFifo == Fifo!Spec

\* A thread inside receive or send leaves it once the channel is closed: the
\* receive returns, the send panics (and takes the process with it).
CloseReleases ==
  \A t \in Threads :
    (closed /\ op[t] \in {"send", "receive"}) ~>
      (op[t] = "none" \/ panicked # "none")

\* A value and a sleeping receiver, or a free slot and a sleeping sender, do
\* not stay together for ever.
NobodyStranded ==
  /\ (count > 0 /\ not_empty # {}) ~>
       (count = 0 \/ not_empty = {} \/ panicked # "none")
  /\ (count < capacity /\ not_full # {}) ~>
       (count = capacity \/ not_full = {} \/ panicked # "none")
=============================================================================
