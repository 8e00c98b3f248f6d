--------------------------- MODULE ChannelProofs ---------------------------
(***************************************************************************)
(* Proofs about channels.c for every number of threads, every capacity and *)
(* every set of values.                                                    *)
(***************************************************************************)
EXTENDS Channel, FiniteSetTheorems, TLAPS

-----------------------------------------------------------------------------
(* Arithmetic of the ring indices.                                         *)

\* An index inside the ring is its own remainder.
LEMMA ModSmall ==
  ASSUME NEW c \in Nat \ {0}, NEW i \in 0 .. c - 1
  PROVE  i % c = i
  OBVIOUS

\* An index at most one lap ahead wraps once.
LEMMA ModOnce ==
  ASSUME NEW c \in Nat \ {0}, NEW i \in c .. 2 * c - 1
  PROVE  i % c = i - c
  OBVIOUS

\* (i + 1) % capacity, the way channels.c advances head and tail.
LEMMA ModNext ==
  ASSUME NEW c \in Nat \ {0}, NEW i \in 0 .. c - 1
  PROVE  (i + 1) % c = IF i + 1 = c THEN 0 ELSE i + 1
  <1>1. CASE i + 1 = c
    BY <1>1, ModOnce
  <1>2. CASE i + 1 # c
    BY <1>2, ModSmall
  <1>3. QED BY <1>1, <1>2

-----------------------------------------------------------------------------
(* What the building blocks of the critical sections do to the call state. *)

\* A signal or broadcast wakes waiters only.
LEMMA SignalledWaiters ==
  ASSUME NEW S, NEW W \in Signalled(S)
  PROVE  W \subseteq S
  BY DEF Signalled

\* What result[t] can be.
Answers == [ok : BOOLEAN, value : Int]

\* The answer of a call that returns nothing is an answer.
LEMMA AnswerTypes ==
  NoAnswer \in Answers
  BY DEF Answer, NoAnswer, Answers

\* A thread that returns leaves the other calls as they were, but for waking
\* some that sleep.
LEMMA ReturnTypes ==
  ASSUME CallTypes, NEW t \in Threads, opened,
         NEW answer \in Answers,
         NEW W, W \subseteq not_full \cup not_empty,
         Return(t, answer, W)
  PROVE  CallTypes'
  BY DEF CallTypes, Return, not_full, not_empty, Waiting, Stages, Ops, Answers

\* send and try_send keep every variable in its type: the slot they write
\* to and the tail they leave are inside the buffer.
LEMMA PutTypes ==
  ASSUME TypeOK, NEW t \in Threads, opened, count # capacity,
         op[t] \in {"send", "try_send"}, Put(t)
  PROVE  TypeOK'
  <1>1. PICK W \in Signalled(not_empty) : Return(t, Answer(TRUE, 0), W)
    BY DEF Put
  <1>2. CallTypes'
    <2>1. W \subseteq not_full \cup not_empty
      BY SignalledWaiters
    <2>2. Answer(TRUE, 0) \in Answers
      BY DEF Answer, Answers
    <2>3. QED BY <1>1, <2>1, <2>2, ReturnTypes, Zenon DEF TypeOK
  <1>3. RingTypes'
    <2>1. tail' \in 0 .. capacity - 1
      BY ModNext DEF Put, TypeOK, RingTypes
    <2>2. buffer' \in [0 .. capacity - 1 -> Values \cup {Junk}]
      BY DEF Put, TypeOK, RingTypes, CallTypes
    <2>3. QED BY <1>1, <2>1, <2>2 DEF Put, Return, TypeOK, RingTypes
  <1>4. QED BY <1>1, <1>2, <1>3 DEF TypeOK, Return

\* receive and try_receive do so too, and answer with an int.
LEMMA TakeTypes ==
  ASSUME TypeOK, NEW t \in Threads, opened, count # 0, Take(t)
  PROVE  TypeOK'
  <1>1. PICK W \in Signalled(not_full) : Return(t, Answer(TRUE, buffer[head]), W)
    BY DEF Take
  <1>2. Answer(TRUE, buffer[head]) \in Answers
    <2>1. buffer[head] \in Int
      <3>1. head \in 0 .. capacity - 1
        BY DEF TypeOK, RingTypes
      <3>2. QED BY <3>1, ChannelAssumption DEF TypeOK, RingTypes
    <2>2. QED BY <2>1 DEF Answer, Answers
  <1>3. CallTypes'
    <2>1. W \subseteq not_full \cup not_empty
      BY SignalledWaiters
    <2>2. QED BY <1>1, <1>2, <2>1, ReturnTypes, Zenon DEF TypeOK
  <1>4. RingTypes'
    <2>1. head' \in 0 .. capacity - 1
      BY ModNext DEF Take, TypeOK, RingTypes
    <2>2. QED BY <1>1, <2>1 DEF Take, Return, TypeOK, RingTypes
  <1>5. QED BY <1>1, <1>3, <1>4 DEF TypeOK, Return

\* A call that is refused returns and touches nothing else.
LEMMA RefuseTypes ==
  ASSUME TypeOK, NEW t \in Threads, opened, Refuse(t)
  PROVE  TypeOK'
  <1>1. CallTypes'
    <2>1. NoAnswer \in Answers
      BY AnswerTypes
    <2>2. QED BY <2>1, ReturnTypes, Zenon DEF TypeOK, Refuse
  <1>2. QED BY <1>1 DEF TypeOK, Refuse, Return, RingTypes, ring

\* Only send and receive go to sleep.
LEMMA WaitTypes ==
  ASSUME TypeOK, NEW t \in Threads, Wait(t), opened, op[t] \in {"send", "receive"}
  PROVE  TypeOK'
  BY DEF TypeOK, Wait, RingTypes, CallTypes, ring, Stages

\* A panic changes nothing but the code it ends with.
LEMMA PanicTypes ==
  ASSUME TypeOK, NEW code \in Codes, Panic(code)
  PROVE  TypeOK'
  BY DEF TypeOK, Panic, RingTypes, CallTypes, ring

-----------------------------------------------------------------------------
(* Type correctness.                                                       *)

\* Every step of the code keeps every variable in its type.
LEMMA TypeStep ==
  ASSUME TypeOK, [Next]_vars
  PROVE  TypeOK'
  <1>1. ASSUME NEW c \in Capacities, Open(c)
        PROVE  TypeOK'
    <2>1. CASE Panic(Refusal(c)) \/ Panic("P0160")
      <3>1. Refusal(c) \in Codes
        BY DEF Refusal, Codes
      <3>2. QED BY <2>1, <3>1, PanicTypes DEF Codes
    <2>2. CASE ~(Panic(Refusal(c)) \/ Panic("P0160"))
      <3>1. c \in Nat \ {0}
        BY <1>1, <2>2, ChannelAssumption DEF Open, Refusal
      <3>2. RingTypes'
        BY <1>1, <2>2, <3>1 DEF Open, RingTypes, TypeOK
      <3>3. CallTypes'
        BY <1>1, <2>2 DEF Open, CallTypes, TypeOK
      <3>4. QED BY <1>1, <2>2, <3>2, <3>3 DEF Open, TypeOK
    <2>3. QED BY <2>1, <2>2
  <1>2. ASSUME NEW t \in Threads, Call(t)
        PROVE  TypeOK'
    <2>1. CASE Panic("P0169")
      BY <2>1, PanicTypes DEF Codes
    <2>2. CASE ~Panic("P0169")
      <3>1. PICK o \in Ops : \E v \in Args(o) :
              /\ op' = [op EXCEPT ![t] = o]
              /\ arg' = [arg EXCEPT ![t] = v]
        BY <1>2, <2>2 DEF Call
      <3>2. PICK v \in Args(o) : arg' = [arg EXCEPT ![t] = v]
        BY <3>1
      <3>3. v \in Values \cup {0} /\ (o \in {"send", "try_send"} => v \in Values)
        BY DEF Args
      <3>4. result' \in [Threads -> Answers]
        BY <1>2, <2>2, AnswerTypes DEF Call, TypeOK, CallTypes, Answers
      <3>5. CallTypes'
        BY <1>2, <2>2, <3>1, <3>2, <3>3, <3>4
           DEF Call, TypeOK, CallTypes, Ops, Stages, Answers
      <3>6. QED BY <1>2, <2>2, <3>5 DEF Call, TypeOK, RingTypes, ring
    <2>3. QED BY <2>1, <2>2
  <1>3. ASSUME NEW t \in Threads, SpuriousWakeup(t)
        PROVE  TypeOK'
    BY <1>3 DEF SpuriousWakeup, TypeOK, RingTypes, CallTypes, ring, Stages
  <1>4. ASSUME NEW t \in Threads, Send(t)
        PROVE  TypeOK'
    <2>1. opened /\ op[t] = "send"
      BY <1>4 DEF Send, Ready, TypeOK, CallTypes
    <2>2. QED BY <1>4, <2>1, WaitTypes, PanicTypes, PutTypes DEF Send, Codes
  <1>5. ASSUME NEW t \in Threads, Receive(t)
        PROVE  TypeOK'
    <2>1. opened /\ op[t] = "receive"
      BY <1>5 DEF Receive, Ready, TypeOK, CallTypes
    <2>2. QED BY <1>5, <2>1, WaitTypes, RefuseTypes, TakeTypes DEF Receive
  <1>6. ASSUME NEW t \in Threads, TrySend(t)
        PROVE  TypeOK'
    <2>1. opened /\ op[t] = "try_send"
      BY <1>6 DEF TrySend, Ready, TypeOK, CallTypes
    <2>2. QED BY <1>6, <2>1, RefuseTypes, PutTypes DEF TrySend
  <1>7. ASSUME NEW t \in Threads, TryReceive(t)
        PROVE  TypeOK'
    <2>1. opened
      BY <1>7 DEF TryReceive, Ready, TypeOK, CallTypes
    <2>2. QED BY <1>7, <2>1, RefuseTypes, TakeTypes DEF TryReceive
  <1>8. ASSUME NEW t \in Threads, Close(t)
        PROVE  TypeOK'
    <2>1. opened
      BY <1>8 DEF Close, Ready, TypeOK, CallTypes
    <2>2. CallTypes'
      <3>1. NoAnswer \in Answers
        BY AnswerTypes
      <3>2. QED BY <1>8, <2>1, <3>1, ReturnTypes, Zenon DEF Close, TypeOK
    <2>3. QED BY <1>8, <2>1, <2>2 DEF Close, Return, TypeOK, RingTypes, ring
  <1>9. ASSUME NEW t \in Threads, Length(t)
        PROVE  TypeOK'
    <2>1. opened
      BY <1>9 DEF Length, Ready, TypeOK, CallTypes
    <2>2. CallTypes'
      <3>1. Answer(TRUE, count) \in Answers
        BY DEF TypeOK, RingTypes, Answer, Answers
      <3>2. Return(t, Answer(TRUE, count), {}) /\ {} \subseteq not_full \cup not_empty
        BY <1>9 DEF Length
      <3>3. CallTypes
        BY DEF TypeOK
      <3>4. PICK answer \in Answers : answer = Answer(TRUE, count)
        BY <3>1
      <3>5. Return(t, answer, {})
        BY <3>2, <3>4
      <3>6. QED BY <2>1, <3>2, <3>3, <3>5, ReturnTypes
    <2>3. QED BY <1>9, <2>1, <2>2 DEF Length, Return, TypeOK, RingTypes, ring
  <1>10. CASE UNCHANGED vars
    BY <1>10 DEF vars, ring, TypeOK, RingTypes, CallTypes
  <1>11. QED
    BY <1>1, <1>2, <1>3, <1>4, <1>5, <1>6, <1>7, <1>8, <1>9, <1>10
       DEF Next, Step

\* The variables of channels.c keep their types in every reachable state.
THEOREM TypeCorrect == Spec => []TypeOK
  <1>1. Init => TypeOK
    <2> SUFFICES ASSUME Init PROVE TypeOK
      OBVIOUS
    <2>1. RingTypes
      <3>1. closed \in BOOLEAN /\ opened \in BOOLEAN /\ ~opened /\ ~closed
        BY DEF Init
      <3>2. buffer \in [0 .. capacity - 1 -> Values \cup {Junk}]
        BY DEF Init
      <3>3. QED BY <3>1, <3>2 DEF Init, RingTypes
    <2>2. CallTypes
      <3>1. result \in [Threads -> Answers]
        BY AnswerTypes DEF Init
      <3>2. QED BY <3>1 DEF Init, CallTypes, Ops, Stages, Answers
    <2>3. QED BY <2>1, <2>2 DEF Init, TypeOK, Codes
  <1>2. TypeOK /\ [Next]_vars => TypeOK'
    BY TypeStep
  <1>3. QED BY <1>1, <1>2, PTL DEF Spec

-----------------------------------------------------------------------------
(* The ring is a queue.                                                    *)

\* Where the i-th oldest value is, without the remainder.
LEMMA SlotIs ==
  ASSUME TypeOK, opened, NEW i \in 1 .. capacity
  PROVE  /\ Slot(i) = IF head + i - 1 < capacity THEN head + i - 1
                                                 ELSE head + i - 1 - capacity
         /\ Slot(i) \in 0 .. capacity - 1
  <1> DEFINE k == head + i - 1
  <1>1. /\ k \in 0 .. 2 * capacity - 1 /\ capacity \in Nat \ {0}
        /\ head \in 0 .. capacity - 1 /\ i \in 1 .. capacity
    BY DEF TypeOK, RingTypes
  <1>2. CASE k < capacity
    <2>1. k % capacity = k
      BY <1>1, <1>2, ModSmall
    <2>2. QED BY <1>1, <1>2, <2>1 DEF Slot
  <1>3. CASE ~(k < capacity)
    <2>1. k % capacity = k - capacity
      BY <1>1, <1>3, ModOnce
    <2>2. Slot(i) = k - capacity
      BY <2>1 DEF Slot
    <2>3. QED BY <1>1, <1>3, <2>2
  <1>4. QED BY <1>2, <1>3

\* Where the window ends, without the remainder.
LEMMA WindowEnd ==
  ASSUME NEW c \in Nat \ {0}, NEW h \in 0 .. c - 1, NEW n \in 0 .. c
  PROVE  (h + n) % c = IF h + n < c THEN h + n ELSE h + n - c
  <1>1. CASE h + n < c
    BY <1>1, ModSmall
  <1>2. CASE ~(h + n < c)
    BY <1>2, ModOnce
  <1>3. QED BY <1>1, <1>2

\* Contents is a queue of sent values, as long as count says.
LEMMA ContentsType ==
  ASSUME TypeOK, RingConsistent
  PROVE  Contents \in Seq(Values) /\ Len(Contents) = count
  <1>1. count \in Nat
    BY DEF TypeOK, RingTypes
  <1>2. CASE opened
    <2>1. \A i \in 1 .. count : buffer[Slot(i)] \in Values
      BY <1>2 DEF RingConsistent
    <2>2. QED BY <1>1, <2>1 DEF Contents
  <1>3. CASE ~opened
    <2>1. count = 0
      BY <1>3 DEF TypeOK, RingTypes
    <2>2. QED BY <2>1 DEF Contents
  <1>4. QED BY <1>2, <1>3

\* A send writes the one slot outside of the window and widens it by one.
LEMMA PutContents ==
  ASSUME TypeOK, RingConsistent, NEW t \in Threads, opened,
         count # capacity, op[t] \in {"send", "try_send"}, Put(t)
  PROVE  RingConsistent' /\ Contents' = Append(Contents, arg[t])
  <1>1. /\ capacity' = capacity /\ opened' = opened
        /\ head' = head /\ count' = count + 1
        /\ buffer' = [buffer EXCEPT ![tail] = arg[t]]
        /\ tail' = (tail + 1) % capacity
    BY DEF Put, Return
  <1>2. /\ capacity \in Nat \ {0} /\ head \in 0 .. capacity - 1
        /\ tail \in 0 .. capacity - 1 /\ count \in 0 .. capacity - 1
        /\ buffer \in [0 .. capacity - 1 -> Values \cup {Junk}]
        /\ arg[t] \in Values
    BY DEF TypeOK, RingTypes, CallTypes
  <1>3. tail = IF head + count < capacity THEN head + count
                                          ELSE head + count - capacity
    <2>1. tail = (head + count) % capacity
      BY DEF RingConsistent
    <2>2. count \in 0 .. capacity
      BY <1>2
    <2>3. QED BY <1>2, <2>1, <2>2, WindowEnd
  <1>4. tail' = (head' + count') % capacity'
    <2>1. (head + (count + 1)) % capacity
            = IF head + (count + 1) < capacity THEN head + (count + 1)
                                               ELSE head + (count + 1) - capacity
      <3>1. count + 1 \in 0 .. capacity
        BY <1>2
      <3>2. QED BY <1>2, <3>1, WindowEnd
    <2>2. (tail + 1) % capacity = IF tail + 1 = capacity THEN 0 ELSE tail + 1
      BY <1>2, ModNext
    <2>3. QED BY <1>1, <1>2, <1>3, <2>1, <2>2
  <1>5. \A i \in 1 .. count + 1 : Slot(i)' = Slot(i)
    BY <1>1 DEF Slot
  <1>6. \A i \in 1 .. count :
          Slot(i) \in 0 .. capacity - 1 /\ Slot(i) # tail
    BY <1>2, <1>3, SlotIs
  <1>7. Slot(count + 1) = tail
    BY <1>2, <1>3, SlotIs
  <1>8. \A i \in 1 .. count + 1 :
          buffer'[Slot(i)'] = IF i = count + 1 THEN arg[t] ELSE buffer[Slot(i)]
    BY <1>1, <1>2, <1>5, <1>6, <1>7
  <1>9. RingConsistent'
    <2>1. \A i \in 1 .. count' : buffer'[Slot(i)'] \in Values
      BY <1>1, <1>2, <1>8, SMTT(30) DEF RingConsistent
    <2>2. QED BY <1>4, <2>1 DEF RingConsistent
  <1>10. Contents' = [i \in 1 .. count + 1 |-> buffer'[Slot(i)']]
    BY <1>1 DEF Contents
  <1>11. Append(Contents, arg[t])
           = [i \in 1 .. count + 1 |-> IF i = count + 1 THEN arg[t]
                                                       ELSE Contents[i]]
    BY <1>2, ContentsType
  <1>12. \A i \in 1 .. count : Contents[i] = buffer[Slot(i)]
    BY DEF Contents
  <1>13. QED
    BY <1>2, <1>8, <1>9, <1>10, <1>11, <1>12

\* A receive returns the oldest value and narrows the window by one.
LEMMA TakeContents ==
  ASSUME TypeOK, RingConsistent, NEW t \in Threads, opened,
         count # 0, Take(t)
  PROVE  /\ RingConsistent'
         /\ Contents # <<>>
         /\ Contents' = Tail(Contents)
         /\ buffer[head] = Head(Contents)
  <1>1. /\ capacity' = capacity /\ opened' = opened
        /\ head' = (head + 1) % capacity /\ count' = count - 1
        /\ buffer' = buffer /\ tail' = tail
    BY DEF Take, Return
  <1>2. /\ capacity \in Nat \ {0} /\ head \in 0 .. capacity - 1
        /\ tail \in 0 .. capacity - 1 /\ count \in 1 .. capacity
    BY DEF TypeOK, RingTypes
  <1>3. head' = IF head + 1 = capacity THEN 0 ELSE head + 1
    BY <1>1, <1>2, ModNext
  <1>4. tail' = (head' + count') % capacity'
    <2>1. tail = IF head + count < capacity THEN head + count
                                            ELSE head + count - capacity
      BY <1>2, WindowEnd DEF RingConsistent
    <2>2. head' \in 0 .. capacity - 1 /\ count - 1 \in 0 .. capacity
      BY <1>2, <1>3
    <2>3. (head' + (count - 1)) % capacity
            = IF head' + (count - 1) < capacity THEN head' + (count - 1)
                                      ELSE head' + (count - 1) - capacity
      BY <1>2, <2>2, WindowEnd
    <2>4. QED BY <1>1, <1>2, <1>3, <2>1, <2>3
  <1>5. \A i \in 1 .. count - 1 : Slot(i)' = Slot(i + 1)
    <2> SUFFICES ASSUME NEW i \in 1 .. count - 1 PROVE Slot(i)' = Slot(i + 1)
      OBVIOUS
    <2>1. Slot(i + 1) = IF head + (i + 1) - 1 < capacity THEN head + (i + 1) - 1
                                             ELSE head + (i + 1) - 1 - capacity
      BY <1>2, SlotIs
    <2>2. head' \in 0 .. capacity - 1 /\ i - 1 \in 0 .. capacity
      BY <1>2, <1>3
    <2>3. (head' + (i - 1)) % capacity
            = IF head' + (i - 1) < capacity THEN head' + (i - 1)
                                            ELSE head' + (i - 1) - capacity
      BY <1>2, <2>2, WindowEnd
    <2>4. Slot(i)' = (head' + (i - 1)) % capacity
      BY <1>1, <1>2, <1>3 DEF Slot
    <2>5. QED BY <1>2, <1>3, <2>1, <2>3, <2>4
  <1>6. RingConsistent'
    <2>1. \A i \in 1 .. count' : buffer'[Slot(i)'] \in Values
      BY <1>1, <1>2, <1>5 DEF RingConsistent
    <2>2. QED BY <1>4, <2>1 DEF RingConsistent
  <1>7. Contents \in Seq(Values) /\ Len(Contents) = count
    BY ContentsType
  <1>8. Contents' = Tail(Contents)
    <2>1. Contents' = [i \in 1 .. count - 1 |-> buffer[Slot(i + 1)]]
      BY <1>1, <1>5 DEF Contents
    <2>2. \A i \in 1 .. count - 1 : Contents[i + 1] = buffer[Slot(i + 1)]
      BY <1>2 DEF Contents
    <2>3. /\ Contents' \in Seq(Values) /\ Len(Contents') = count - 1
          /\ \A i \in 1 .. count - 1 : Contents'[i] = Contents[i + 1]
      <3>1. \A i \in 1 .. count - 1 : buffer[Slot(i + 1)] \in Values
        BY <1>2 DEF RingConsistent
      <3>2. QED BY <1>2, <2>1, <2>2, <3>1
    <2>4. QED BY <1>2, <1>7, <2>3
  <1>9. buffer[head] = Head(Contents)
    <2>1. Slot(1) = head
      BY <1>2, SlotIs
    <2>2. QED BY <1>2, <1>7, <2>1 DEF Contents
  <1>10. QED BY <1>2, <1>6, <1>7, <1>8, <1>9

-----------------------------------------------------------------------------
(* The ring invariant.                                                     *)

\* A step that leaves the ring alone leaves the queue alone.
LEMMA RingUnchanged ==
  ASSUME RingConsistent, UNCHANGED <<ring, capacity, opened>>
  PROVE  RingConsistent' /\ Contents' = Contents
  BY DEF RingConsistent, Contents, Slot, ring

\* Every step keeps tail one window ahead of head, with only sent values in
\* the window.
LEMMA RingStep ==
  ASSUME TypeOK, RingConsistent, [Next]_vars
  PROVE  RingConsistent'
  <1>1. ASSUME NEW c \in Capacities, Open(c)
        PROVE  RingConsistent'
    <2>1. CASE Panic(Refusal(c)) \/ Panic("P0160")
      BY <2>1, RingUnchanged DEF Panic
    <2>2. CASE ~(Panic(Refusal(c)) \/ Panic("P0160"))
      <3>1. c \in Nat \ {0}
        BY <1>1, <2>2, ChannelAssumption DEF Open, Refusal
      <3>2. 0 % c = 0
        BY <3>1, ModSmall
      <3>3. capacity' = c /\ count' = 0 /\ head' = 0 /\ tail' = 0
        BY <1>1, <2>2 DEF Open
      <3>4. tail' = (head' + count') % capacity'
        BY <3>2, <3>3
      <3>5. QED BY <3>3, <3>4 DEF RingConsistent
    <2>3. QED BY <2>1, <2>2
  <1>2. ASSUME NEW t \in Threads, Call(t)
        PROVE  RingConsistent'
    BY <1>2, RingUnchanged DEF Call, Panic
  <1>3. ASSUME NEW t \in Threads, SpuriousWakeup(t)
        PROVE  RingConsistent'
    BY <1>3, RingUnchanged DEF SpuriousWakeup
  <1>4. ASSUME NEW t \in Threads, Send(t)
        PROVE  RingConsistent'
    <2>1. opened /\ op[t] = "send"
      BY <1>4 DEF Send, Ready, TypeOK, CallTypes
    <2>2. CASE Wait(t)
      BY <2>2, RingUnchanged DEF Wait
    <2>3. CASE Panic("P0172")
      BY <2>3, RingUnchanged DEF Panic
    <2>4. CASE count # capacity /\ Put(t)
      BY <2>1, <2>4, PutContents
    <2>5. QED BY <1>4, <2>2, <2>3, <2>4 DEF Send
  <1>5. ASSUME NEW t \in Threads, Receive(t)
        PROVE  RingConsistent'
    <2>1. opened
      BY <1>5 DEF Receive, Ready, TypeOK, CallTypes
    <2>2. CASE Wait(t)
      BY <2>2, RingUnchanged DEF Wait
    <2>3. CASE Refuse(t)
      BY <2>3, RingUnchanged DEF Refuse, Return
    <2>4. CASE count # 0 /\ Take(t)
      BY <2>1, <2>4, TakeContents
    <2>5. QED BY <1>5, <2>2, <2>3, <2>4 DEF Receive
  <1>6. ASSUME NEW t \in Threads, TrySend(t)
        PROVE  RingConsistent'
    <2>1. opened /\ op[t] = "try_send"
      BY <1>6 DEF TrySend, Ready, TypeOK, CallTypes
    <2>2. CASE Refuse(t)
      BY <2>2, RingUnchanged DEF Refuse, Return
    <2>3. CASE count # capacity /\ Put(t)
      BY <2>1, <2>3, PutContents
    <2>4. QED BY <1>6, <2>2, <2>3 DEF TrySend
  <1>7. ASSUME NEW t \in Threads, TryReceive(t)
        PROVE  RingConsistent'
    <2>1. opened
      BY <1>7 DEF TryReceive, Ready, TypeOK, CallTypes
    <2>2. CASE Refuse(t)
      BY <2>2, RingUnchanged DEF Refuse, Return
    <2>3. CASE count # 0 /\ Take(t)
      BY <2>1, <2>3, TakeContents
    <2>4. QED BY <1>7, <2>2, <2>3 DEF TryReceive
  <1>8. ASSUME NEW t \in Threads, Close(t) \/ Length(t)
        PROVE  RingConsistent'
    BY <1>8, RingUnchanged DEF Close, Length, Return
  <1>9. CASE UNCHANGED vars
    BY <1>9, RingUnchanged DEF vars
  <1>10. QED
    BY <1>1, <1>2, <1>3, <1>4, <1>5, <1>6, <1>7, <1>8, <1>9 DEF Next, Step

\* head, tail and count describe one window of sent values for ever: the
\* ring arithmetic of send and receive never drifts.
THEOREM RingCorrect == Spec => []RingConsistent
  <1>1. Init => RingConsistent
    BY DEF Init, RingConsistent
  <1>2. TypeOK /\ RingConsistent /\ [Next]_vars => RingConsistent'
    BY RingStep
  <1>3. QED BY <1>1, <1>2, TypeCorrect, PTL DEF Spec

-----------------------------------------------------------------------------
(* No wakeup is lost.                                                      *)

\* The sets of sleeping and woken threads are finite.
LEMMA ThreadSets ==
  ASSUME NEW S, S \subseteq Threads
  PROVE  IsFiniteSet(S) /\ Cardinality(S) \in Nat
  BY FS_Subset, FS_CardinalityType, ChannelAssumption

\* What a return does to the wait sets.
Leaves(t, W) ==
  /\ stage' = [u \in Threads |-> IF u = t THEN "idle"
                                 ELSE IF u \in W THEN "woken" ELSE stage[u]]
  /\ op' = [op EXCEPT ![t] = "none"]

\* One pthread_cond_signal: nobody sleeps there, or one more is on its way.
LEMMA SignalWakes ==
  ASSUME TypeOK, NEW t \in Threads, NEW o \in {"send", "receive"}, op[t] # o,
         NEW W \in Signalled(Waiting(o)), Leaves(t, W)
  PROVE  /\ Waiting(o) = {} => Waiting(o)' = {}
         /\ Waiting(o) # {} =>
              Cardinality(Woken(o)') = Cardinality(Woken(o)) + 1
  <1>1. CASE Waiting(o) = {}
    <2>1. W = {}
      BY <1>1 DEF Signalled
    <2>2. QED BY <1>1, <2>1 DEF Leaves, Waiting, TypeOK, CallTypes
  <1>2. CASE Waiting(o) # {}
    <2>1. PICK w \in Waiting(o) : W = {w}
      BY <1>2 DEF Signalled
    <2>2. w \notin Woken(o) /\ w # t
      BY DEF Woken, Waiting
    <2>3. Woken(o)' = Woken(o) \cup {w}
      BY <2>1, <2>2 DEF Leaves, Woken, Waiting, TypeOK, CallTypes
    <2>4. IsFiniteSet(Woken(o))
      BY ThreadSets DEF Woken
    <2>5. QED BY <1>2, <2>2, <2>3, <2>4, FS_AddElement
  <1>3. QED BY <1>1, <1>2

\* A return wakes nobody on the other condition variable, and takes at most
\* the returning thread from those that are on their way.
LEMMA ReturnWoken ==
  ASSUME TypeOK, NEW t \in Threads, NEW o \in {"send", "receive"},
         NEW W, W \cap Waiting(o) = {}, W \subseteq not_full \cup not_empty,
         Leaves(t, W)
  PROVE  /\ Waiting(o)' \subseteq Waiting(o)
         /\ Cardinality(Woken(o)) <= Cardinality(Woken(o)') + 1
         /\ op[t] # o => Cardinality(Woken(o)) <= Cardinality(Woken(o)')
  <1>1. Waiting(o)' \subseteq Waiting(o)
    BY DEF Leaves, Waiting, TypeOK, CallTypes
  <1>2. Woken(o) \ {t} \subseteq Woken(o)'
    BY DEF Leaves, Woken, Waiting, not_full, not_empty, TypeOK, CallTypes
  <1>3. /\ IsFiniteSet(Woken(o)) /\ Cardinality(Woken(o)) \in Nat
        /\ IsFiniteSet(Woken(o)') /\ Cardinality(Woken(o)') \in Nat
    BY ThreadSets DEF Woken
  <1>4. Cardinality(Woken(o) \ {t}) <= Cardinality(Woken(o)')
    BY <1>2, <1>3, FS_Subset
  <1>5. CASE t \in Woken(o)
    <2>1. Cardinality(Woken(o) \ {t}) = Cardinality(Woken(o)) - 1
      BY <1>3, <1>5, FS_RemoveElement
    <2>2. op[t] = o
      BY <1>5 DEF Woken
    <2>3. QED BY <1>1, <1>3, <1>4, <2>1, <2>2
  <1>6. CASE t \notin Woken(o)
    <2>1. Woken(o) \ {t} = Woken(o)
      BY <1>6
    <2>2. QED BY <1>1, <1>3, <1>4, <2>1
  <1>7. QED BY <1>5, <1>6

\* The inductive invariant: a closed channel has no sleepers is what makes
\* the receive that gives up on a closed channel harmless.
WakeupInv == TypeOK /\ NoLostWakeup /\ ClosedNobodySleeps

\* A value added by send or try_send comes with a receiver that is woken for
\* it, if one sleeps (75, 109).
LEMMA PutWakeups ==
  ASSUME WakeupInv, NEW t \in Threads, op[t] \in {"send", "try_send"},
         ~closed, Put(t)
  PROVE  NoLostWakeup' /\ ClosedNobodySleeps'
  <1>1. PICK W \in Signalled(not_empty) : Leaves(t, W)
    BY DEF Put, Return, Leaves
  <1>2. /\ capacity' = capacity /\ count' = count + 1 /\ closed' = closed
        /\ capacity \in Nat /\ count \in Nat
    BY DEF Put, Return, WakeupInv, TypeOK, RingTypes
  <1>3. W \subseteq not_empty
    BY SignalledWaiters
  <1>4. /\ not_empty = {} => not_empty' = {}
        /\ not_empty # {} =>
             Cardinality(Woken("receive")') = Cardinality(Woken("receive")) + 1
    BY <1>1, SignalWakes DEF WakeupInv, not_empty
  <1>5. /\ not_full' \subseteq not_full
        /\ Cardinality(Woken("send")) <= Cardinality(Woken("send")') + 1
    <2>1. W \cap Waiting("send") = {} /\ W \subseteq not_full \cup not_empty
      BY <1>3 DEF not_empty, Waiting
    <2>2. QED BY <1>1, <2>1, ReturnWoken DEF WakeupInv, not_full
  <1>6. /\ Cardinality(Woken("send")) \in Nat
        /\ Cardinality(Woken("send")') \in Nat
        /\ Cardinality(Woken("receive")) \in Nat
    BY ThreadSets DEF Woken
  <1>7. QED BY <1>2, <1>4, <1>5, <1>6 DEF WakeupInv, NoLostWakeup, ClosedNobodySleeps

\* A slot freed by receive or try_receive comes with a sender that is woken
\* for it, if one sleeps (93, 127).
LEMMA TakeWakeups ==
  ASSUME WakeupInv, NEW t \in Threads, op[t] \in {"receive", "try_receive"},
         Take(t)
  PROVE  NoLostWakeup' /\ ClosedNobodySleeps'
  <1>1. PICK W \in Signalled(not_full) : Leaves(t, W)
    BY DEF Take, Return, Leaves
  <1>2. /\ capacity' = capacity /\ count' = count - 1 /\ closed' = closed
        /\ capacity \in Nat /\ count \in Nat
    BY DEF Take, Return, WakeupInv, TypeOK, RingTypes
  <1>3. W \subseteq not_full
    BY SignalledWaiters
  <1>4. /\ not_full = {} => not_full' = {}
        /\ not_full # {} =>
             Cardinality(Woken("send")') = Cardinality(Woken("send")) + 1
    BY <1>1, SignalWakes DEF WakeupInv, not_full
  <1>5. /\ not_empty' \subseteq not_empty
        /\ Cardinality(Woken("receive")) <= Cardinality(Woken("receive")') + 1
    <2>1. W \cap Waiting("receive") = {} /\ W \subseteq not_full \cup not_empty
      BY <1>3 DEF not_full, Waiting
    <2>2. QED BY <1>1, <2>1, ReturnWoken DEF WakeupInv, not_empty
  <1>6. /\ Cardinality(Woken("receive")) \in Nat
        /\ Cardinality(Woken("receive")') \in Nat
        /\ Cardinality(Woken("send")) \in Nat
    BY ThreadSets DEF Woken
  <1>7. QED BY <1>2, <1>4, <1>5, <1>6 DEF WakeupInv, NoLostWakeup, ClosedNobodySleeps

\* A return without a signal, by a thread that was not on its way to what the
\* sleepers wait for, or on a channel nobody sleeps on.
LEMMA QuietWakeups ==
  ASSUME WakeupInv, NEW t \in Threads, Leaves(t, {}),
         UNCHANGED <<count, capacity, closed>>,
         closed \/ op[t] \notin {"send", "receive"}
  PROVE  NoLostWakeup' /\ ClosedNobodySleeps'
  <1>1. \A o \in {"send", "receive"} :
          /\ Waiting(o)' \subseteq Waiting(o)
          /\ op[t] # o => Cardinality(Woken(o)) <= Cardinality(Woken(o)')
    <2>1. {} \subseteq not_full \cup not_empty
      OBVIOUS
    <2>2. QED BY <2>1, ReturnWoken DEF WakeupInv
  <1>2. /\ Cardinality(Woken("receive")) \in Nat
        /\ Cardinality(Woken("receive")') \in Nat
        /\ Cardinality(Woken("send")) \in Nat
        /\ Cardinality(Woken("send")') \in Nat
    BY ThreadSets DEF Woken
  <1>3. capacity \in Nat /\ count \in Nat
    BY DEF WakeupInv, TypeOK, RingTypes
  <1>4. QED BY <1>1, <1>2, <1>3
            DEF WakeupInv, NoLostWakeup, ClosedNobodySleeps, not_full, not_empty

\* Going to sleep: receive only with count = 0, send only with no free slot.
LEMMA WaitWakeups ==
  ASSUME WakeupInv, NEW t \in Threads, Wait(t), ~closed,
         \/ op[t] = "receive" /\ count = 0
         \/ op[t] = "send" /\ count = capacity
  PROVE  NoLostWakeup' /\ ClosedNobodySleeps'
  <1>1. \A o \in {"send", "receive"} : op[t] # o =>
          Waiting(o)' = Waiting(o) /\ Woken(o)' = Woken(o)
    BY DEF Wait, Waiting, Woken, WakeupInv, TypeOK, CallTypes
  <1>2. UNCHANGED <<count, capacity, closed>> /\ capacity \in Nat /\ count \in Nat
    BY DEF Wait, ring, WakeupInv, TypeOK, RingTypes
  <1>3. /\ Cardinality(Woken("receive")') \in Nat
        /\ Cardinality(Woken("send")') \in Nat
    BY ThreadSets DEF Woken
  <1>4. QED BY <1>1, <1>2, <1>3
            DEF WakeupInv, NoLostWakeup, ClosedNobodySleeps, not_full, not_empty

\* A step that moves nobody into or out of a wait set and leaves the counts.
LEMMA SameWakeups ==
  ASSUME WakeupInv, UNCHANGED <<count, capacity, closed>>,
         \A o \in {"send", "receive"} :
           Waiting(o)' = Waiting(o) /\ Woken(o)' = Woken(o)
  PROVE  NoLostWakeup' /\ ClosedNobodySleeps'
  BY DEF WakeupInv, NoLostWakeup, ClosedNobodySleeps, not_full, not_empty

\* Every step keeps enough threads awake, and none asleep on a closed channel.
LEMMA WakeupStep ==
  ASSUME WakeupInv, [Next]_vars
  PROVE  NoLostWakeup' /\ ClosedNobodySleeps'
  <1>1. ASSUME NEW code, Panic(code)
        PROVE  NoLostWakeup' /\ ClosedNobodySleeps'
    BY <1>1, SameWakeups DEF Panic, ring, Waiting, Woken
  <1>2. ASSUME NEW c \in Capacities, Open(c)
        PROVE  NoLostWakeup' /\ ClosedNobodySleeps'
    <2>1. CASE Panic(Refusal(c)) \/ Panic("P0160")
      BY <1>1, <2>1
    <2>2. CASE ~(Panic(Refusal(c)) \/ Panic("P0160"))
      <3>1. not_full = {} /\ not_empty = {}
        BY <1>2 DEF Open, WakeupInv, TypeOK, CallTypes, not_full, not_empty, Waiting
      <3>2. not_full' = {} /\ not_empty' = {}
        BY <1>2, <2>2, <3>1 DEF Open, not_full, not_empty, Waiting
      <3>3. QED BY <3>2 DEF NoLostWakeup, ClosedNobodySleeps
    <2>3. QED BY <2>1, <2>2
  <1>3. ASSUME NEW t \in Threads, Call(t)
        PROVE  NoLostWakeup' /\ ClosedNobodySleeps'
    <2>1. CASE Panic("P0169")
      BY <1>1, <2>1
    <2>2. CASE ~Panic("P0169")
      <3>1. \A o \in {"send", "receive"} :
              Waiting(o)' = Waiting(o) /\ Woken(o)' = Woken(o)
        BY <1>3, <2>2 DEF Call, Waiting, Woken, WakeupInv, TypeOK, CallTypes
      <3>2. QED BY <1>3, <2>2, <3>1, SameWakeups DEF Call, ring
    <2>3. QED BY <2>1, <2>2
  <1>4. ASSUME NEW t \in Threads, SpuriousWakeup(t)
        PROVE  NoLostWakeup' /\ ClosedNobodySleeps'
    <2>1. \A o \in {"send", "receive"} :
            Waiting(o)' \subseteq Waiting(o) /\ Woken(o) \subseteq Woken(o)'
      BY <1>4 DEF SpuriousWakeup, Waiting, Woken, WakeupInv, TypeOK, CallTypes
    <2>2. \A o \in {"send", "receive"} :
            /\ Cardinality(Woken(o)) <= Cardinality(Woken(o)')
            /\ Cardinality(Woken(o)) \in Nat /\ Cardinality(Woken(o)') \in Nat
      <3>1. \A o \in {"send", "receive"} :
              Woken(o) \subseteq Threads /\ Woken(o)' \subseteq Threads
        BY DEF Woken
      <3>2. QED BY <2>1, <3>1, ThreadSets, FS_Subset
    <2>3. /\ UNCHANGED <<count, capacity, closed>>
          /\ capacity \in Nat /\ count \in Nat
      BY <1>4 DEF SpuriousWakeup, ring, WakeupInv, TypeOK, RingTypes
    <2>4. QED BY <2>1, <2>2, <2>3
              DEF WakeupInv, NoLostWakeup, ClosedNobodySleeps, not_full, not_empty
  <1>5. ASSUME NEW t \in Threads, Send(t)
        PROVE  NoLostWakeup' /\ ClosedNobodySleeps'
    BY <1>1, <1>5, WaitWakeups, PutWakeups DEF Send, Ready
  <1>6. ASSUME NEW t \in Threads, Refuse(t),
               closed \/ op[t] \notin {"send", "receive"}
        PROVE  NoLostWakeup' /\ ClosedNobodySleeps'
    <2>1. Leaves(t, {}) /\ UNCHANGED <<count, capacity, closed>>
      BY <1>6 DEF Refuse, Return, Leaves, ring
    <2>2. QED BY <1>6, <2>1, QuietWakeups
  <1>7. ASSUME NEW t \in Threads, Receive(t)
        PROVE  NoLostWakeup' /\ ClosedNobodySleeps'
    BY <1>6, <1>7, WaitWakeups, TakeWakeups DEF Receive, Ready
  <1>8. ASSUME NEW t \in Threads, TrySend(t)
        PROVE  NoLostWakeup' /\ ClosedNobodySleeps'
    BY <1>6, <1>8, PutWakeups DEF TrySend, Ready
  <1>9. ASSUME NEW t \in Threads, TryReceive(t)
        PROVE  NoLostWakeup' /\ ClosedNobodySleeps'
    BY <1>6, <1>9, TakeWakeups DEF TryReceive, Ready
  <1>10. ASSUME NEW t \in Threads, Close(t)
         PROVE  NoLostWakeup' /\ ClosedNobodySleeps'
    <2>1. not_full' = {} /\ not_empty' = {}
      BY <1>10 DEF Close, Return, not_full, not_empty, Waiting,
                   WakeupInv, TypeOK, CallTypes
    <2>2. QED BY <2>1 DEF NoLostWakeup, ClosedNobodySleeps
  <1>11. ASSUME NEW t \in Threads, Length(t)
         PROVE  NoLostWakeup' /\ ClosedNobodySleeps'
    <2>1. /\ Leaves(t, {}) /\ UNCHANGED <<count, capacity, closed>>
          /\ op[t] \notin {"send", "receive"}
      BY <1>11 DEF Length, Ready, Return, Leaves, ring
    <2>2. QED BY <2>1, QuietWakeups
  <1>12. CASE UNCHANGED vars
    BY <1>12, SameWakeups DEF vars, ring, Waiting, Woken
  <1>13. QED
    BY <1>2, <1>3, <1>4, <1>5, <1>7, <1>8, <1>9, <1>10, <1>11, <1>12
       DEF Next, Step

\* The inductive invariant behind the two theorems that follow.
LEMMA WakeupInvariant == Spec => []WakeupInv
  <1>1. Init => NoLostWakeup /\ ClosedNobodySleeps
    BY DEF Init, NoLostWakeup, ClosedNobodySleeps, not_full, not_empty, Waiting
  <1>2. WakeupInv /\ [Next]_vars => NoLostWakeup' /\ ClosedNobodySleeps'
    BY WakeupStep
  <1>3. QED BY <1>1, <1>2, TypeCorrect, PTL DEF Spec, WakeupInv

\* One signal per send and per receive is enough, with any number of threads,
\* spurious wakeups and values stolen from a woken thread included.
THEOREM NoWakeupIsLost == Spec => []NoLostWakeup
  BY WakeupInvariant, PTL DEF WakeupInv

\* After close nobody sleeps in the channel, and nobody goes to sleep again.
THEOREM CloseWakesAll == Spec => []ClosedNobodySleeps
  BY WakeupInvariant, PTL DEF WakeupInv

-----------------------------------------------------------------------------
(* The code implements the atomic FIFO queue.                              *)

\* Adding at the tail is Accept of the abstract channel.
LEMMA PutAccepts ==
  ASSUME TypeOK, RingConsistent, NEW t \in Threads, opened, ~closed,
         count # capacity, op[t] \in {"send", "try_send"}, Put(t)
  PROVE  Fifo!Accept(t)
  <1>1. Contents' = Append(Contents, arg[t])
    BY PutContents
  <1>2. Len(Contents) < capacity
    BY ContentsType DEF TypeOK, RingTypes
  <1>3. Fifo!Return(t, Fifo!Answer(TRUE, 0)) /\ closed' = closed
    BY DEF Put, Return, Answer, Fifo!Return, Fifo!Answer
  <1>4. QED BY <1>1, <1>2, <1>3 DEF Fifo!Accept

\* Taking at the head is Deliver of the abstract channel.
LEMMA TakeDelivers ==
  ASSUME TypeOK, RingConsistent, NEW t \in Threads, opened,
         count # 0, op[t] \in {"receive", "try_receive"}, Take(t)
  PROVE  Fifo!Deliver(t)
  <1>1. Contents # <<>> /\ Contents' = Tail(Contents) /\ buffer[head] = Head(Contents)
    BY TakeContents
  <1>2. Fifo!Return(t, Fifo!Answer(TRUE, buffer[head])) /\ closed' = closed
    BY DEF Take, Return, Answer, Fifo!Return, Fifo!Answer
  <1>3. QED BY <1>1, <1>2 DEF Fifo!Deliver

\* A refused call is a call of the abstract channel that returns nothing.
LEMMA RefuseReturns ==
  ASSUME RingConsistent, NEW t \in Threads, Refuse(t)
  PROVE  /\ Fifo!Return(t, Fifo!NoAnswer)
         /\ Contents' = Contents /\ closed' = closed
  BY RingUnchanged DEF Refuse, Return, NoAnswer, Answer, ring,
                       Fifo!Return, Fifo!NoAnswer, Fifo!Answer

\* A panic of the ring is a panic of the abstract channel.
LEMMA PanicPanics ==
  ASSUME RingConsistent, NEW code, Panic(code)
  PROVE  Fifo!Panic(code)
  BY RingUnchanged DEF Panic, Fifo!Panic

\* Going to sleep and waking up spuriously are invisible to the callers.
LEMMA SleepStutters ==
  ASSUME RingConsistent, NEW t \in Threads, Wait(t) \/ SpuriousWakeup(t)
  PROVE  UNCHANGED Fifo!vars
  BY RingUnchanged DEF Wait, SpuriousWakeup, Fifo!vars

\* The ring of a channel that has just been opened stands for the empty queue.
LEMMA EmptyContents ==
  ASSUME TypeOK, RingConsistent, count = 0
  PROVE  Contents = <<>>
  BY ContentsType

\* Every step of the ring buffer is a step of the FIFO queue or a stutter.
LEMMA FifoStep ==
  ASSUME TypeOK, RingConsistent, TypeOK', [Next]_vars
  PROVE  [Fifo!Next]_(Fifo!vars)
  <1> USE DEF Fifo!Next
  <1>1. ASSUME panicked = "none", NEW c \in Capacities, Open(c)
        PROVE  Fifo!Next
    <2>1. Refusal(c) = Fifo!Refusal(c)
      BY DEF Refusal, Fifo!Refusal
    <2>2. CASE Panic(Refusal(c)) /\ Refusal(c) # "none"
      BY <1>1, <2>1, <2>2, PanicPanics DEF Fifo!Open, Open
    <2>3. CASE Panic("P0160") /\ Refusal(c) = "none"
      BY <1>1, <2>1, <2>3, PanicPanics DEF Fifo!Open, Open
    <2>4. CASE Refusal(c) = "none" /\ ~Panic("P0160")
      <3>1. Contents = <<>>
        <4>1. count = 0
          BY <1>1 DEF Open, TypeOK, RingTypes
        <4>2. QED BY <4>1, EmptyContents
      <3>2. count' = 0
        BY <1>1, <2>4 DEF Open
      <3>3. Contents' = <<>>
        BY <3>2 DEF Contents
      <3>4. /\ ~opened /\ opened' = TRUE /\ capacity' = c /\ closed = FALSE
            /\ closed' = FALSE /\ UNCHANGED <<op, arg, result, panicked>>
        BY <1>1, <2>4, Zenon DEF Open, TypeOK, RingTypes
      <3>5. UNCHANGED <<Contents, closed, op, arg, result, panicked>>
        BY <3>1, <3>3, <3>4
      <3>6. Fifo!Open(c)
        BY <2>1, <2>4, <3>4, <3>5, Zenon DEF Fifo!Open
      <3>7. QED BY <1>1, <3>6
    <2>5. QED BY <1>1, <2>2, <2>3, <2>4 DEF Open
  <1>2. ASSUME panicked = "none", NEW t \in Threads, Call(t)
        PROVE  Fifo!Next
    <2>1. op[t] = "none"
      BY <1>2 DEF Call, TypeOK, CallTypes
    <2>2. CASE ~opened
      BY <1>2, <2>1, <2>2, PanicPanics DEF Call, Fifo!Call
    <2>3. CASE opened
      <3>1. Contents' = Contents
        BY <1>2, <2>3, RingUnchanged DEF Call
      <3>2. Fifo!Ops = Ops /\ Fifo!NoAnswer = NoAnswer
        BY DEF Fifo!Ops, Ops, Fifo!NoAnswer, NoAnswer, Fifo!Answer, Answer
      <3>3. \A o \in Ops : Fifo!Args(o) = Args(o)
        BY DEF Fifo!Args, Args
      <3>4. PICK o \in Ops : \E v \in Args(o) :
              /\ op' = [op EXCEPT ![t] = o]
              /\ arg' = [arg EXCEPT ![t] = v]
        BY <1>2, <2>3 DEF Call
      <3>5. \E k \in Fifo!Ops : \E v \in Fifo!Args(k) :
              /\ op' = [op EXCEPT ![t] = k]
              /\ arg' = [arg EXCEPT ![t] = v]
        BY <3>2, <3>3, <3>4, Zenon
      <3>6. Fifo!Call(t)
        BY <1>2, <2>1, <2>3, <3>1, <3>2, <3>5 DEF Call, Fifo!Call
      <3>7. QED BY <1>2, <3>6
    <2>4. QED BY <2>2, <2>3 DEF TypeOK, RingTypes
  <1>3. ASSUME panicked = "none", NEW t \in Threads, Send(t)
        PROVE  Fifo!Next \/ UNCHANGED Fifo!vars
    <2>1. opened /\ op[t] = "send"
      BY <1>3 DEF Send, Ready, TypeOK, CallTypes
    <2>2. CASE Wait(t)
      BY <2>2, SleepStutters
    <2>3. CASE closed /\ Panic("P0172")
      <3>1. Fifo!SendToClosed(t)
        BY <2>1, <2>3, PanicPanics DEF Fifo!SendToClosed
      <3>2. QED BY <1>3, <3>1
    <2>4. CASE count # capacity /\ ~closed /\ Put(t)
      <3>1. Fifo!Accept(t)
        BY <2>1, <2>4, PutAccepts
      <3>2. QED BY <1>3, <3>1
    <2>5. QED BY <1>3, <2>2, <2>3, <2>4 DEF Send
  <1>4. ASSUME panicked = "none", NEW t \in Threads, Receive(t)
        PROVE  Fifo!Next \/ UNCHANGED Fifo!vars
    <2>1. opened /\ op[t] = "receive"
      BY <1>4 DEF Receive, Ready, TypeOK, CallTypes
    <2>2. CASE Wait(t)
      BY <2>2, SleepStutters
    <2>3. CASE count = 0 /\ closed /\ Refuse(t)
      <3>1. Fifo!Drained(t)
        BY <2>1, <2>3, RefuseReturns, EmptyContents DEF Fifo!Drained
      <3>2. QED BY <1>4, <3>1
    <2>4. CASE count # 0 /\ Take(t)
      <3>1. Fifo!Deliver(t)
        BY <2>1, <2>4, TakeDelivers
      <3>2. QED BY <1>4, <3>1
    <2>5. QED BY <1>4, <2>2, <2>3, <2>4 DEF Receive
  <1>5. ASSUME panicked = "none", NEW t \in Threads, TrySend(t)
        PROVE  Fifo!Next
    <2>1. opened /\ op[t] = "try_send"
      BY <1>5 DEF TrySend, Ready, TypeOK, CallTypes
    <2>2. CASE (count = capacity \/ closed) /\ Refuse(t)
      <3>1. Fifo!RejectSend(t)
        BY <2>1, <2>2, RefuseReturns, ContentsType DEF Fifo!RejectSend
      <3>2. QED BY <1>5, <3>1
    <2>3. CASE count # capacity /\ ~closed /\ Put(t)
      <3>1. Fifo!Accept(t)
        BY <2>1, <2>3, PutAccepts
      <3>2. QED BY <1>5, <3>1
    <2>4. QED BY <1>5, <2>2, <2>3 DEF TrySend
  <1>6. ASSUME panicked = "none", NEW t \in Threads, TryReceive(t)
        PROVE  Fifo!Next
    <2>1. opened /\ op[t] = "try_receive"
      BY <1>6 DEF TryReceive, Ready, TypeOK, CallTypes
    <2>2. CASE count = 0 /\ Refuse(t)
      <3>1. Fifo!Drained(t)
        BY <2>1, <2>2, RefuseReturns, EmptyContents DEF Fifo!Drained
      <3>2. QED BY <1>6, <3>1
    <2>3. CASE count # 0 /\ Take(t)
      <3>1. Fifo!Deliver(t)
        BY <2>1, <2>3, TakeDelivers
      <3>2. QED BY <1>6, <3>1
    <2>4. QED BY <1>6, <2>2, <2>3 DEF TryReceive
  <1>7. ASSUME panicked = "none", NEW t \in Threads, Close(t)
        PROVE  Fifo!Next
    <2>1. Contents' = Contents
      BY <1>7, RingUnchanged DEF Close, Return
    <2>2. Fifo!Close(t)
      BY <1>7, <2>1 DEF Close, Ready, Return, NoAnswer, Answer, Fifo!Close,
                        Fifo!Return, Fifo!NoAnswer, Fifo!Answer
    <2>3. QED BY <1>7, <2>2
  <1>8. ASSUME panicked = "none", NEW t \in Threads, Length(t)
        PROVE  Fifo!Next
    <2>1. Contents' = Contents /\ Len(Contents) = count
      BY <1>8, RingUnchanged, ContentsType DEF Length, Return
    <2>2. Fifo!Length(t)
      BY <1>8, <2>1 DEF Length, Ready, Return, Answer, Fifo!Length,
                        Fifo!Return, Fifo!Answer
    <2>3. QED BY <1>8, <2>2
  <1>9. ASSUME NEW t \in Threads, SpuriousWakeup(t)
        PROVE  UNCHANGED Fifo!vars
    BY <1>9, SleepStutters
  <1>10. CASE UNCHANGED vars
    BY <1>10, RingUnchanged DEF vars, Fifo!vars
  <1> HIDE DEF Fifo!Next
  <1>11. QED
    BY <1>1, <1>2, <1>3, <1>4, <1>5, <1>6, <1>7, <1>8, <1>9, <1>10
       DEF Next, Step

\* Seen by its callers, a channel of channels.c is an atomic bounded FIFO
\* queue: nothing is lost, duplicated, reordered or made up, a receive answers
\* 0 only after close and when the queue is empty, and a send to a closed
\* channel is never accepted.
THEOREM Linearizable == Spec => ImplementsFifo
  <1>1. Init => Fifo!Init
    <2> SUFFICES ASSUME Init PROVE Fifo!Init
      OBVIOUS
    <2>1. Contents = <<>>
      BY DEF Init, Contents
    <2>2. QED BY <2>1 DEF Init, NoAnswer, Answer, Fifo!Init, Fifo!NoAnswer, Fifo!Answer
  <1>2. TypeOK /\ RingConsistent /\ TypeOK' /\ [Next]_vars => [Fifo!Next]_(Fifo!vars)
    BY FifoStep
  <1>3. QED BY <1>1, <1>2, TypeCorrect, RingCorrect, PTL
            DEF Spec, ImplementsFifo, Fifo!Spec
=============================================================================
