---------------------------- MODULE FifoChannel ----------------------------
(***************************************************************************)
(* What a channel of the channels module promises its callers: one bounded *)
(* FIFO queue shared by all threads, on which every call takes effect at   *)
(* one instant between the moment it is made and the moment it returns.    *)
(*                                                                         *)
(* There is no ring buffer, no mutex and no condition variable here: a     *)
(* blocked call is simply one whose effect is not enabled yet.  Module     *)
(* Channel is the code, and is shown to implement this specification.      *)
(***************************************************************************)
EXTENDS Integers, Sequences

CONSTANTS
  Threads,     \* the threads of the program
  Values,      \* the int values that are sent
  Capacities,  \* the arguments given to channels.open
  WordLimit,   \* SIZE_MAX / sizeof(int64_t)
  ArenaLimit   \* maximum_bytes of the default arena in words, 0 if unlimited

VARIABLES
  queue,     \* the values accepted and not delivered yet, oldest first
  capacity,  \* the capacity the channel was opened with
  opened,    \* channels.open returned
  closed,    \* channels.close was called
  op,        \* op[t]: the call thread t is inside of, "none" outside of one
  arg,       \* arg[t]: the value of that call
  result,    \* result[t]: what the last call of t returned
  panicked   \* the code of the panic that ended the process, or "none"

vars == <<queue, capacity, opened, closed, op, arg, result, panicked>>

Ops == {"send", "receive", "try_send", "try_receive", "close", "len"}

\* What a call leaves for its caller: the bool and the int it returns.
Answer(ok, value) == [ok |-> ok, value |-> value]

NoAnswer == Answer(FALSE, 0)

Init ==
  /\ queue = <<>>
  /\ capacity = 0
  /\ opened = FALSE
  /\ closed = FALSE
  /\ op = [t \in Threads |-> "none"]
  /\ arg = [t \in Threads |-> 0]
  /\ result = [t \in Threads |-> NoAnswer]
  /\ panicked = "none"

Panic(code) ==
  /\ panicked' = code
  /\ UNCHANGED <<queue, capacity, opened, closed, op, arg, result>>

Return(t, answer) ==
  /\ op' = [op EXCEPT ![t] = "none"]
  /\ arg' = [arg EXCEPT ![t] = 0]
  /\ result' = [result EXCEPT ![t] = answer]
  /\ UNCHANGED <<capacity, opened, panicked>>

\* The panic a capacity is refused with, "none" if it is accepted.
Refusal(c) ==
  IF c < 1 THEN "P0173"
  ELSE IF c > WordLimit THEN "P0159"
  ELSE IF ArenaLimit > 0 /\ c > ArenaLimit THEN "P0104"
  ELSE "none"

\* P0160 is malloc failing, which may happen to any accepted capacity.
Open(c) ==
  /\ ~opened
  /\ \/ Refusal(c) # "none" /\ Panic(Refusal(c))
     \/ Refusal(c) = "none" /\ Panic("P0160")
     \/ /\ Refusal(c) = "none"
        /\ opened' = TRUE
        /\ capacity' = c
        /\ UNCHANGED <<queue, closed, op, arg, result, panicked>>

Args(o) == IF o \in {"send", "try_send"} THEN Values ELSE {0}

Call(t) ==
  /\ op[t] = "none"
  /\ \/ ~opened /\ Panic("P0169")
     \/ /\ opened
        /\ \E o \in Ops : \E v \in Args(o) :
             /\ op' = [op EXCEPT ![t] = o]
             /\ arg' = [arg EXCEPT ![t] = v]
        /\ result' = [result EXCEPT ![t] = NoAnswer]
        /\ UNCHANGED <<queue, capacity, opened, closed, panicked>>

\* A send never overtakes: its value goes behind everything accepted before.
Accept(t) ==
  /\ op[t] \in {"send", "try_send"}
  /\ ~closed
  /\ Len(queue) < capacity
  /\ queue' = Append(queue, arg[t])
  /\ Return(t, Answer(TRUE, 0))
  /\ UNCHANGED closed

SendToClosed(t) ==
  /\ op[t] = "send"
  /\ closed
  /\ Panic("P0172")

RejectSend(t) ==
  /\ op[t] = "try_send"
  /\ closed \/ Len(queue) = capacity
  /\ Return(t, NoAnswer)
  /\ UNCHANGED <<queue, closed>>

\* A receive takes the oldest value, closed or not: closing loses nothing.
Deliver(t) ==
  /\ op[t] \in {"receive", "try_receive"}
  /\ queue # <<>>
  /\ queue' = Tail(queue)
  /\ Return(t, Answer(TRUE, Head(queue)))
  /\ UNCHANGED closed

\* 0 comes back from receive only once the channel is closed and drained.
Drained(t) ==
  /\ queue = <<>>
  /\ \/ op[t] = "try_receive"
     \/ op[t] = "receive" /\ closed
  /\ Return(t, NoAnswer)
  /\ UNCHANGED <<queue, closed>>

Close(t) ==
  /\ op[t] = "close"
  /\ closed' = TRUE
  /\ Return(t, NoAnswer)
  /\ UNCHANGED queue

Length(t) ==
  /\ op[t] = "len"
  /\ Return(t, Answer(TRUE, Len(queue)))
  /\ UNCHANGED <<queue, closed>>

Next ==
  /\ panicked = "none"
  /\ \/ \E c \in Capacities : Open(c)
     \/ \E t \in Threads :
          \/ Call(t) \/ Accept(t) \/ SendToClosed(t) \/ RejectSend(t)
          \/ Deliver(t) \/ Drained(t) \/ Close(t) \/ Length(t)

Spec == Init /\ [][Next]_vars
=============================================================================
