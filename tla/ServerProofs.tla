--------------------------- MODULE ServerProofs ----------------------------
(***************************************************************************)
(* Proofs about server.c for every number of connections and listeners,    *)
(* every limit, buffer and timeout, every router and every request.        *)
(***************************************************************************)
EXTENDS Server, FiniteSetTheorems, WellFoundedInduction, TLAPS

-----------------------------------------------------------------------------
(* The inductive invariant.                                                *)

\* Before receive_request is entered, and after its frame is gone.
Outside == {"none", "accepted", "refused", "admitted", "uncount", "closed"}
Stages == Outside \cup Working

\* The length of c's request is an int64_t.
Representable(c) == Whole(c) <= Int64Max

\* What a connection knows of its request, by its stage: once the header block
\* has come needed is the length of the whole request, where that is an
\* int64_t, and what goes on to be dispatched is that long.
ConnInv(c) ==
  /\ stage[c] \in Outside => total[c] = 0 /\ needed[c] = -1 /\ age[c] = 0
  /\ stage[c] = "receiving" => deadline[c] = ReadTimeout
  /\ stage[c] \in Working => request[c] \in Requests[c]
  /\ stage[c] \in Working /\ Representable(c) /\ (needed[c] >= 0 \/ HeaderWithin(c, total[c]))
       => needed[c] = Whole(c)
  /\ /\ stage[c] \in {"received", "handler", "middleware"}
     /\ Representable(c) /\ HeaderWithin(c, total[c])
     => total[c] >= Whole(c)

ReceiveInv ==
  /\ stage \in [Connections -> Stages]
  /\ total \in [Connections -> 0 .. Capacity] /\ needed \in [Connections -> Int]
  /\ age \in [Connections -> 0 .. ReadTimeout] /\ deadline \in [Connections -> Nat]
  /\ DOMAIN request = Connections
  /\ \A c \in Connections : ConnInv(c)

\* The connections that were let in hold a slot until they are uncounted.
Holding == Working \cup {"admitted", "uncount"}

SlotInv ==
  /\ closes \in [Connections -> Nat]
  /\ SlotsAccounted
  /\ Cardinality({c \in Connections : stage[c] \in Holding}) <= MaxConnections

-----------------------------------------------------------------------------
(* Counting connections by their stages.                                   *)

With(P) == {c \in Connections : stage[c] \in P}

\* The number of connections whose stage is in P, when one goes on to another.
LEMMA CountAfter ==
  ASSUME DOMAIN stage = Connections, NEW c \in Connections, NEW to, stage' = Set(stage, c, to), NEW P
  PROVE  /\ Cardinality(With(P)) \in Nat
         /\ Cardinality(With(P)') =
              CASE stage[c] \in P /\ to \notin P -> Cardinality(With(P)) - 1
                [] stage[c] \notin P /\ to \in P -> Cardinality(With(P)) + 1
                [] OTHER -> Cardinality(With(P))
  <1>1. IsFiniteSet(With(P)) /\ Cardinality(With(P)) \in Nat
    BY ServerAssumption, FS_Subset, FS_CardinalityType DEF With
  <1>2. stage'[c] = to /\ \A d \in Connections : d # c => stage'[d] = stage[d]
    BY DEF Set
  <1>3. CASE stage[c] \in P /\ to \notin P
    <2>1. With(P)' = With(P) \ {c} /\ c \in With(P)
      BY <1>2, <1>3 DEF With
    <2>2. QED
      BY <1>1, <1>3, <2>1, FS_RemoveElement
  <1>4. CASE stage[c] \notin P /\ to \in P
    <2>1. With(P)' = With(P) \cup {c} /\ c \notin With(P)
      BY <1>2, <1>4 DEF With
    <2>2. QED
      BY <1>1, <1>4, <2>1, FS_AddElement
  <1>5. CASE stage[c] \in P <=> to \in P
    <2>1. With(P)' = With(P)
      BY <1>2, <1>5 DEF With
    <2>2. QED
      BY <1>1, <1>5, <2>1
  <1>6. QED
    BY <1>3, <1>4, <1>5

-----------------------------------------------------------------------------
(* The slots.                                                              *)

Slots == <<active_connections, closes>>

\* What a step that takes c from one stage to another does to the counter and
\* to the descriptor.
SlotStep(c, to) ==
  /\ stage' = Set(stage, c, to)
  /\ \/ stage[c] = "none" /\ to = "accepted" /\ UNCHANGED Slots
     \/ /\ stage[c] = "accepted" /\ to \in {"refused", "admitted"}
        /\ to = "admitted" => ~(active_connections >= MaxConnections)
        /\ active_connections' = active_connections + 1 /\ UNCHANGED closes
     \/ /\ stage[c] \in {"refused", "admitted"} /\ to = "closed"
        /\ active_connections' = active_connections - 1 /\ closes' = Set(closes, c, closes[c] + 1)
     \/ stage[c] \in Working \cup {"admitted"} /\ to \in Working /\ UNCHANGED Slots
     \/ /\ stage[c] = "cleanup" /\ to = "uncount"
        /\ UNCHANGED active_connections /\ closes' = Set(closes, c, closes[c] + 1)
     \/ /\ stage[c] = "uncount" /\ to = "closed"
        /\ active_connections' = active_connections - 1 /\ UNCHANGED closes

\* Every step of the server is of this kind, or leaves the stages alone.
LEMMA SlotSteps ==
  ASSUME [Next]_vars
  PROVE  \/ \E c \in Connections, to \in Stages : SlotStep(c, to)
         \/ UNCHANGED <<stage, Slots>>
  <1> USE DEF SlotStep, Slots, Goes, Working, Outside, Stages
  <1>1. ASSUME NEW c \in Connections, peer(c) PROVE \E to \in Stages : SlotStep(c, to)
    <2>1. CASE \E n \in 1 .. Capacity : Receive(c, n)
      BY <2>1 DEF Receive
    <2>2. CASE PeerCloses(c) \/ RecvFails(c)
      BY <2>2 DEF PeerCloses, RecvFails
    <2>3. QED
      BY <1>1, <2>1, <2>2 DEF peer
  <1>2. ASSUME NEW c \in Connections, handle_connection(c) PROVE \E to \in Stages : SlotStep(c, to)
    <2>1. CASE TimesOut(c) \/ Reject(c) \/ HandlerReturns(c) \/ MiddlewareReturns(c)
      BY <2>1 DEF TimesOut, Reject, HandlerReturns, MiddlewareReturns
    <2>2. CASE Dispatch(c)
      BY <2>2 DEF Dispatch
    <2>3. CASE Respond(c) \/ Cleanup(c) \/ Uncount(c)
      BY <2>3 DEF Respond, Cleanup, Uncount
    <2>4. QED
      BY <1>2, <2>1, <2>2, <2>3 DEF handle_connection
  <1>3. ASSUME NEW c \in Connections, NEW l \in Listeners, Accept(l, c) \/ listen(l, c)
        PROVE  \E to \in Stages : SlotStep(c, to)
    BY <1>3 DEF Accept, listen, Count, GiveUp, StartThread
  <1>4. ASSUME (\E c \in Connections : Panics(c)) \/ Tick \/ UNCHANGED vars
        PROVE  UNCHANGED <<stage, Slots>>
    BY <1>4 DEF Panics, Tick, vars
  <1>5. QED
    BY <1>1, <1>2, <1>3, <1>4 DEF Next

\* Every step keeps the accounting of slots and descriptors.
LEMMA SlotKept ==
  ASSUME stage \in [Connections -> Stages], SlotInv, [Next]_vars
  PROVE  SlotInv'
  <1> DEFINE counted == Cardinality(With(Counted))
             held == Cardinality(With(Holding))
  <1>1. /\ closes \in [Connections -> Nat] /\ active_connections = counted /\ held <= MaxConnections
        /\ \A c \in Connections : closes[c] = IF stage[c] \in {"uncount", "closed"} THEN 1 ELSE 0
    BY DEF SlotInv, SlotsAccounted, With
  <1>2. SUFFICES
          /\ closes' \in [Connections -> Nat] /\ active_connections' = counted' /\ held' <= MaxConnections
          /\ \A c \in Connections : closes'[c] = IF stage'[c] \in {"uncount", "closed"} THEN 1 ELSE 0
    BY DEF SlotInv, SlotsAccounted, With
  <1>3. CASE UNCHANGED <<stage, Slots>>
    BY <1>1, <1>3 DEF Slots, With
  <1>4. ASSUME NEW c \in Connections, NEW to \in Stages, SlotStep(c, to)
        PROVE  /\ closes' \in [Connections -> Nat] /\ active_connections' = counted' /\ held' <= MaxConnections
               /\ \A d \in Connections : closes'[d] = IF stage'[d] \in {"uncount", "closed"} THEN 1 ELSE 0
    <2>1. stage' = Set(stage, c, to) /\ DOMAIN stage = Connections
      BY <1>4 DEF SlotStep
    <2>2. stage'[c] = to /\ \A d \in Connections : d # c => stage'[d] = stage[d]
      BY <2>1 DEF Set
    <2>3. /\ counted \in Nat
          /\ counted' = CASE stage[c] \in Counted /\ to \notin Counted -> counted - 1
                          [] stage[c] \notin Counted /\ to \in Counted -> counted + 1
                          [] OTHER -> counted
      BY <2>1, CountAfter
    <2>4. /\ held \in Nat
          /\ held' = CASE stage[c] \in Holding /\ to \notin Holding -> held - 1
                       [] stage[c] \notin Holding /\ to \in Holding -> held + 1
                       [] OTHER -> held
      BY <2>1, CountAfter
    <2>5. held <= counted
      <3>1. With(Holding) \subseteq With(Counted) /\ IsFiniteSet(With(Counted))
        BY ServerAssumption, FS_Subset DEF With, Holding, Counted
      <3>2. QED
        BY <3>1, FS_Subset
    <2>6. active_connections' = counted' /\ held' <= MaxConnections
      <3> HIDE DEF counted, held
      <3>1. QED
        BY <1>1, <1>4, <2>3, <2>4, <2>5, ServerAssumption
           DEF SlotStep, Slots, Counted, Holding, Working
    <2>7. closes' \in [Connections -> Nat]
      BY <1>1, <1>4 DEF SlotStep, Slots, Set
    <2>8. \A d \in Connections : closes'[d] = IF stage'[d] \in {"uncount", "closed"} THEN 1 ELSE 0
      BY <1>1, <1>4, <2>2 DEF SlotStep, Slots, Set, Working
    <2>9. QED
      BY <2>6, <2>7, <2>8
  <1>5. QED
    BY <1>3, <1>4, SlotSteps

-----------------------------------------------------------------------------
(* The request.                                                            *)

\* What a connection knows is nobody else's business.
LEMMA OthersKept ==
  ASSUME NEW d, ConnInv(d),
         stage'[d] = stage[d], total'[d] = total[d], needed'[d] = needed[d], age'[d] = age[d],
         deadline'[d] = deadline[d], request'[d] = request[d]
  PROVE  ConnInv(d)'
  BY DEF ConnInv, Representable, Whole, HeaderWithin

\* A step that takes c to another stage and changes nothing of its request.
LEMMA StageOnly ==
  ASSUME ReceiveInv, NEW c \in Connections, NEW to \in Stages, stage' = Set(stage, c, to),
         UNCHANGED <<request, receiving>>,
         \/ stage[c] \in Outside /\ to \in Outside
         \/ stage[c] \in Working /\ to \in Working \ {"received", "handler", "middleware", "receiving"}
         \/ stage[c] \in {"received", "handler"} /\ to \in {"handler", "middleware"}
         \/ stage[c] = "receiving" /\ to = "received" /\ (needed[c] >= 0 => total[c] >= needed[c])
            /\ request[c].header \in Nat /\ request[c].declared \in Nat
  PROVE  ReceiveInv'
  <1>1. stage'[c] = to /\ \A d \in Connections : d # c => stage'[d] = stage[d]
    BY DEF ReceiveInv, Set
  <1>2. ConnInv(c)'
    BY <1>1 DEF ReceiveInv, ConnInv, receiving, Outside, Working, Representable, Whole, HeaderWithin
  <1>3. \A d \in Connections : d # c => ConnInv(d)'
    BY <1>1, OthersKept DEF ReceiveInv, receiving
  <1>4. stage' \in [Connections -> Stages]
    BY DEF ReceiveInv, Set
  <1>5. QED
    BY <1>2, <1>3, <1>4 DEF ReceiveInv, receiving

\* The header is found in what has come, or needed stays as it is.
LEMMA Requested ==
  ASSUME ReceiveInv, NEW c \in Connections, stage[c] \in Working
  PROVE  /\ request[c] \in Requests[c] /\ request[c].header \in Nat \ {0} /\ request[c].declared \in Nat
         /\ \A n \in Nat : \A need \in NeededAt(c, n) :
              /\ need \in Int
              /\ Representable(c) /\ (need >= 0 \/ HeaderWithin(c, n)) => need = Whole(c)
  <1>1. request[c] \in Requests[c] /\ needed[c] \in Int
        /\ (Representable(c) /\ needed[c] >= 0 => needed[c] = Whole(c))
    BY DEF ReceiveInv, ConnInv
  <1>2. request[c].header \in Nat \ {0} /\ request[c].declared \in Nat /\ Int64Max \in Nat
    BY <1>1, ServerAssumption
  <1>3. ASSUME NEW n \in Nat, NEW need \in NeededAt(c, n)
        PROVE  /\ need \in Int
               /\ Representable(c) /\ (need >= 0 \/ HeaderWithin(c, n)) => need = Whole(c)
    <2>1. CASE needed[c] >= 0 \/ ~HeaderWithin(c, n)
      BY <1>1, <1>3, <2>1 DEF NeededAt
    <2>2. CASE ~(needed[c] >= 0 \/ ~HeaderWithin(c, n))
      BY <1>2, <1>3, <2>2 DEF NeededAt, Representable, Whole
    <2>3. QED
      BY <2>1, <2>2
  <1>4. QED
    BY <1>1, <1>2, <1>3

\* A piece of a request is counted, and ends the receiving when it completes it.
LEMMA ReceivePiece ==
  ASSUME ReceiveInv, NEW c \in Connections, NEW n \in 1 .. Capacity, Receive(c, n)
  PROVE  ReceiveInv'
  <1> DEFINE sum == total[c] + n
  <1>0. PICK need \in NeededAt(c, sum) :
          /\ Goes(c, "receiving",
               IF need > Capacity THEN "too_large"
               ELSE IF (HeaderWithin(c, sum) /\ sum >= need) \/ sum = Capacity THEN "received"
               ELSE "receiving")
          /\ needed' = Set(needed, c, need)
    BY DEF Receive
  <1> DEFINE to == IF need > Capacity THEN "too_large"
                   ELSE IF (HeaderWithin(c, sum) /\ sum >= need) \/ sum = Capacity THEN "received"
                   ELSE "receiving"
  <1>1. /\ stage[c] = "receiving" /\ sum <= Capacity /\ stage' = Set(stage, c, to)
        /\ total' = Set(total, c, sum) /\ needed' = Set(needed, c, need)
        /\ UNCHANGED <<request, age, deadline>>
    BY <1>0 DEF Receive, Goes, Fits
  <1>2. Capacity \in Nat /\ sum \in 0 .. Capacity /\ to \in Stages
    BY <1>1, ServerAssumption DEF ReceiveInv, Stages, Working
  <1>3. /\ need \in Int /\ request[c] \in Requests[c] /\ Whole(c) \in Nat
        /\ Representable(c) /\ (need >= 0 \/ HeaderWithin(c, sum)) => need = Whole(c)
    BY <1>0, <1>1, <1>2, Requested DEF Working, Whole
  <1>4. /\ to = "received" /\ Representable(c) /\ HeaderWithin(c, sum) => sum >= Whole(c)
        /\ to \in {"too_large", "received", "receiving"}
    BY <1>2, <1>3
  <1> HIDE DEF to, sum
  <1>5. /\ stage'[c] = to /\ total'[c] = sum /\ needed'[c] = need
        /\ \A d \in Connections : d # c => /\ stage'[d] = stage[d] /\ total'[d] = total[d]
                                           /\ needed'[d] = needed[d]
    BY <1>1 DEF ReceiveInv, Set
  <1>6. Whole(c)' = Whole(c) /\ Representable(c)' = Representable(c)
        /\ HeaderWithin(c, total[c])' = HeaderWithin(c, sum)
    BY <1>1, <1>5 DEF Whole, Representable, HeaderWithin
  <1>7. ConnInv(c)'
    BY <1>1, <1>2, <1>3, <1>4, <1>5, <1>6 DEF ReceiveInv, ConnInv, Outside, Working
  <1>8. \A d \in Connections : d # c => ConnInv(d)'
    BY <1>1, <1>5, OthersKept DEF ReceiveInv
  <1>9. /\ stage' \in [Connections -> Stages] /\ total' \in [Connections -> 0 .. Capacity]
        /\ needed' \in [Connections -> Int]
    BY <1>1, <1>2, <1>3 DEF ReceiveInv, Set
  <1>10. QED
    BY <1>1, <1>7, <1>8, <1>9 DEF ReceiveInv

\* Every step keeps what is known of the bytes received.
LEMMA ReceiveKept ==
  ASSUME ReceiveInv, [Next]_vars
  PROVE  ReceiveInv'
  <1>1. ASSUME NEW c \in Connections, peer(c) PROVE ReceiveInv'
    <2>1. CASE PeerCloses(c)
      <3>1. PICK to \in {"incomplete", "dropped", "received"} :
              /\ stage[c] = "receiving" /\ stage' = Set(stage, c, to)
              /\ to = "received" => ~(needed[c] >= 0 /\ total[c] < needed[c])
        BY <2>1 DEF PeerCloses, Goes
      <3>2. /\ total[c] \in Int /\ needed[c] \in Int
            /\ request[c].header \in Nat /\ request[c].declared \in Nat
        BY <3>1, Requested, ServerAssumption DEF ReceiveInv, Working
      <3>3. QED
        BY <2>1, <3>1, <3>2, StageOnly DEF PeerCloses, Stages, Working
    <2>2. CASE RecvFails(c)
      BY <2>2, StageOnly DEF RecvFails, Goes, Stages, Working
    <2>3. QED
      BY <1>1, <2>1, <2>2, ReceivePiece DEF peer
  <1>2. ASSUME NEW c \in Connections, handle_connection(c) PROVE ReceiveInv'
    <2>1. CASE TimesOut(c) \/ Reject(c) \/ MiddlewareReturns(c) \/ Respond(c)
      <3>1. PICK to \in {"dropped", "cleanup", "respond"} :
              stage[c] \in Working /\ stage' = Set(stage, c, to)
        BY <2>1 DEF TimesOut, Reject, MiddlewareReturns, Respond, Goes, Working
      <3>2. UNCHANGED <<request, receiving>>
        BY <2>1 DEF TimesOut, Reject, MiddlewareReturns, Respond
      <3>3. QED
        BY <3>1, <3>2, StageOnly DEF Stages, Working
    <2>2. CASE HandlerReturns(c)
      BY <2>2, StageOnly DEF HandlerReturns, Goes, Stages, Working
    <2>3. CASE Dispatch(c)
      <3>1. PICK to \in {"respond", "cleanup", "middleware", "handler"} :
              stage[c] = "received" /\ stage' = Set(stage, c, to)
        BY <2>3 DEF Dispatch
      <3>2. QED
        BY <2>3, <3>1, StageOnly DEF Dispatch, Stages, Working
    <2>4. CASE Uncount(c)
      BY <2>4, StageOnly DEF Uncount, Goes, Stages, Outside
    <2>5. CASE Cleanup(c)
      <3>1. /\ stage' = Set(stage, c, "uncount") /\ request' = Set(request, c, NULL)
            /\ total' = Set(total, c, 0) /\ needed' = Set(needed, c, -1)
            /\ age' = Set(age, c, 0) /\ deadline' = Set(deadline, c, 0)
        BY <2>5 DEF Cleanup, Goes, Forget
      <3>2. ConnInv(c)'
        BY <3>1 DEF ReceiveInv, Set, ConnInv, Outside, Working
      <3>3. \A d \in Connections : d # c => ConnInv(d)'
        BY <3>1, OthersKept DEF ReceiveInv, Set
      <3>4. /\ stage' \in [Connections -> Stages] /\ total' \in [Connections -> 0 .. Capacity]
            /\ needed' \in [Connections -> Int] /\ age' \in [Connections -> 0 .. ReadTimeout]
            /\ deadline' \in [Connections -> Nat] /\ DOMAIN request' = Connections
        BY <3>1, ServerAssumption DEF ReceiveInv, Set, Stages, Outside
      <3>5. QED
        BY <3>2, <3>3, <3>4 DEF ReceiveInv
    <2>6. QED
      BY <1>2, <2>1, <2>2, <2>3, <2>4, <2>5 DEF handle_connection
  <1>3. ASSUME NEW c \in Connections, NEW l \in Listeners, Accept(l, c) \/ Count(l, c) \/ GiveUp(l, c)
        PROVE  ReceiveInv'
    <2>1. PICK to \in Outside : stage[c] \in Outside /\ stage' = Set(stage, c, to)
      BY <1>3 DEF Accept, Count, GiveUp, Goes, Outside
    <2>2. UNCHANGED <<request, receiving>>
      BY <1>3 DEF Accept, Count, GiveUp
    <2>3. QED
      BY <2>1, <2>2, StageOnly DEF Stages
  <1>4. ASSUME NEW c \in Connections, NEW l \in Listeners, StartThread(l, c) PROVE ReceiveInv'
    <2>1. PICK r \in Requests[c] :
            /\ stage[c] = "admitted" /\ stage' = Set(stage, c, "receiving")
            /\ request' = Set(request, c, r) /\ deadline' = Set(deadline, c, ReadTimeout)
            /\ UNCHANGED <<total, needed, age>>
      BY <1>4 DEF StartThread, Goes
    <2>2. ConnInv(c)'
      <3>1. total[c] = 0 /\ needed[c] = -1 /\ r.header \in Nat /\ RequestLine <= r.header
            /\ RequestLine \in Nat \ {0}
        BY <2>1, ServerAssumption DEF ReceiveInv, ConnInv, Outside
      <3>2. /\ stage'[c] = "receiving" /\ request'[c] = r /\ deadline'[c] = ReadTimeout
            /\ total'[c] = 0 /\ needed'[c] = -1
        BY <2>1, <3>1 DEF ReceiveInv, Set
      <3>3. ~HeaderWithin(c, total[c])' /\ ~(needed'[c] >= 0)
        BY <3>1, <3>2 DEF HeaderWithin
      <3>4. QED
        BY <3>2, <3>3 DEF ConnInv, Outside, Working
    <2>3. \A d \in Connections : d # c => ConnInv(d)'
      BY <2>1, OthersKept DEF ReceiveInv, Set
    <2>4. /\ stage' \in [Connections -> Stages] /\ deadline' \in [Connections -> Nat]
          /\ DOMAIN request' = Connections
      BY <2>1, ServerAssumption DEF ReceiveInv, Set, Stages, Working
    <2>5. QED
      BY <2>1, <2>2, <2>3, <2>4 DEF ReceiveInv
  <1>5. CASE Tick
    <2>1. /\ age' = [c \in Connections |-> IF stage[c] = "receiving" THEN age[c] + 1 ELSE age[c]]
          /\ UNCHANGED <<stage, request, total, needed, deadline>>
          /\ \A c \in Connections : ~Overdue(c)
      BY <1>5 DEF Tick
    <2>2. \A c \in Connections : stage[c] = "receiving" => age[c] + 1 <= ReadTimeout
      BY <2>1, ServerAssumption DEF ReceiveInv, ConnInv, Overdue
    <2>3. age' \in [Connections -> 0 .. ReadTimeout]
      BY <2>1, <2>2, ServerAssumption DEF ReceiveInv
    <2>4. \A c \in Connections : ConnInv(c)'
      BY <2>1 DEF ReceiveInv, ConnInv, Outside, Representable, Whole, HeaderWithin
    <2>5. QED
      BY <2>1, <2>3, <2>4 DEF ReceiveInv
  <1>6. CASE (\E c \in Connections : Panics(c)) \/ UNCHANGED vars
    <2>1. UNCHANGED <<stage, request, total, needed, age, deadline>>
      BY <1>6 DEF Panics, vars, receiving
    <2>2. QED
      BY <2>1, OthersKept DEF ReceiveInv
  <1>7. QED
    BY <1>1, <1>2, <1>3, <1>4, <1>5, <1>6 DEF Next, listen

-----------------------------------------------------------------------------
(* Routing.                                                                *)

\* A set of natural numbers has a least element.
LEMMA LeastOf ==
  ASSUME NEW T \in SUBSET Nat, T # {}
  PROVE  \E x \in T : \A y \in Nat : y < x => y \notin T
  <1> DEFINE R == OpToRel(<, Nat)
  <1>1. IsWellFoundedOn(R, Nat)
    BY NatLessThanWellFounded
  <1>2. \A x, y \in Nat : y < x => <<y, x>> \in R
    BY DEF OpToRel
  <1> HIDE DEF R
  <1>3. PICK x \in T : \A y \in T : ~(<<y, x>> \in R)
    BY <1>1, WFMin, Zenon
  <1>4. QED
    BY <1>2, <1>3

\* A segment ends at a slash or at the end of the path.
LEMMA SegmentEnds ==
  ASSUME NEW path \in Paths, NEW q \in 1 .. Len(path)
  PROVE  SegmentEnd(path, q) \in q .. Len(path) + 1
  <1> DEFINE M == Len(path)
             T == {j \in q .. M + 1 : j = M + 1 \/ path[j] = "/"}
  <1>1. M \in Nat /\ q \in Nat /\ q <= M
    BY DEF Paths
  <1>2. M + 1 \in T /\ T \in SUBSET Nat
    BY <1>1
  <1>3. PICK e \in T : \A y \in Nat : y < e => y \notin T
    <2> HIDE DEF T
    <2>1. QED
      BY <1>2, LeastOf
  <1>4. e \in q .. M + 1 /\ (e = M + 1 \/ path[e] = "/")
    OBVIOUS
  <1>5. \A k \in q .. e - 1 : path[k] # "/"
    <2>1. SUFFICES ASSUME NEW k \in q .. e - 1, path[k] = "/" PROVE FALSE
      OBVIOUS
    <2>2. k \in q .. M + 1 /\ k \in Nat /\ k < e
      BY <1>1, <1>4
    <2>3. QED
      BY <1>3, <2>1, <2>2
  <1>6. \E j \in q .. Len(path) + 1 :
          /\ j = Len(path) + 1 \/ path[j] = "/"
          /\ \A k \in q .. j - 1 : path[k] # "/"
    BY <1>4, <1>5
  <1>7. QED
    BY <1>6 DEF SegmentEnd

\* from is the loop of match_route, from each place in the pattern on.
Loop(pattern, path, from) ==
  /\ from[Len(pattern) + 1] =
       [q \in 1 .. Len(path) + 1 |-> AtEnd(pattern, Len(pattern) + 1, path, q)]
  /\ \A p \in 1 .. Len(pattern) : from[p] = LoopFrom(pattern, p, path, from[p + 1])

\* There is such a function, for any number of steps to the end of the pattern.
LEMMA LoopExists ==
  ASSUME NEW pattern \in Patterns, NEW path
  PROVE  \E from : from = [p \in 1 .. Len(pattern) + 1 |->
             IF p > Len(pattern) THEN [q \in 1 .. Len(path) + 1 |-> AtEnd(pattern, p, path, q)]
             ELSE LoopFrom(pattern, p, path, from[p + 1])]
  <1> DEFINE L == Len(pattern)
             End(p) == [q \in 1 .. Len(path) + 1 |-> AtEnd(pattern, p, path, q)]
             Step(p, rest) == LoopFrom(pattern, p, path, rest)
             Exists(b) == \E f : f = [p \in b .. L + 1 |->
                                       IF p > L THEN End(p) ELSE Step(p, f[p + 1])]
             None == {m \in 0 .. L : ~Exists(L + 1 - m)}
  <1>1. L \in Nat
    BY DEF Patterns
  <1> HIDE DEF L, End, Step
  <1>2. None = {}
    <2> SUFFICES ASSUME None # {} PROVE FALSE
      OBVIOUS
    <2>1. None \in SUBSET Nat
      OBVIOUS
    <2>2. PICK m \in None : \A k \in Nat : k < m => k \notin None
      <3> HIDE DEF None
      <3>1. QED
        BY <2>1, LeastOf
    <2>3. m \in 0 .. L /\ ~Exists(L + 1 - m)
      OBVIOUS
    <2> DEFINE b == L + 1 - m
    <2>4. CASE m = 0
      <3> DEFINE f == [p \in L + 1 .. L + 1 |-> End(p)]
      <3>1. b = L + 1 /\ \A p \in L + 1 .. L + 1 : p > L
        BY <1>1, <2>4
      <3>2. f = [p \in b .. L + 1 |-> IF p > L THEN End(p) ELSE Step(p, f[p + 1])]
        BY <3>1
      <3>3. QED
        BY <2>3, <3>2
    <2>5. CASE m # 0
      <3>1. m - 1 \in Nat /\ m - 1 < m /\ m - 1 \in 0 .. L /\ L + 1 - (m - 1) = b + 1
            /\ b \in 1 .. L
        BY <1>1, <2>3, <2>5
      <3>2. Exists(b + 1)
        BY <2>2, <3>1
      <3>3. PICK g : g = [p \in b + 1 .. L + 1 |-> IF p > L THEN End(p) ELSE Step(p, g[p + 1])]
        BY <3>2
      <3> HIDE DEF b
      <3> DEFINE f == [p \in b .. L + 1 |-> IF p > L THEN End(p) ELSE Step(p, g[p + 1])]
      <3>4. \A p \in b .. L + 1 : ~(p > L) => p + 1 \in b + 1 .. L + 1 /\ p + 1 \in b .. L + 1
        BY <1>1, <3>1
      <3>5. \A p \in b + 1 .. L + 1 : p \in b .. L + 1 /\ f[p] = g[p]
        BY <1>1, <3>1, <3>3
      <3>6. f = [p \in b .. L + 1 |-> IF p > L THEN End(p) ELSE Step(p, f[p + 1])]
        BY <3>4, <3>5
      <3>7. QED
        BY <2>3, <3>6 DEF b
    <2>6. QED
      BY <2>4, <2>5
  <1>3. L \in 0 .. L /\ L + 1 - L = 1
    BY <1>1
  <1>4. Exists(1)
    BY <1>2, <1>3
  <1>5. QED
    BY <1>4 DEF L, End, Step

\* match_route is the loop from the start of both.
LEMMA MatchIs ==
  ASSUME NEW pattern \in Patterns, NEW path
  PROVE  \E from : Loop(pattern, path, from) /\ match_route(pattern, path) = from[1][1]
  <1> DEFINE F(from) == from = [p \in 1 .. Len(pattern) + 1 |->
             IF p > Len(pattern) THEN [q \in 1 .. Len(path) + 1 |-> AtEnd(pattern, p, path, q)]
             ELSE LoopFrom(pattern, p, path, from[p + 1])]
             from == CHOOSE from : F(from)
  <1>1. F(from)
    <2>1. \E f : F(f)
      BY LoopExists, Zenon
    <2> HIDE DEF F
    <2>2. QED
      BY <2>1, Zenon
  <1>2. match_route(pattern, path) = from[1][1]
    BY Zenon DEF match_route
  <1> HIDE DEF from
  <1>3. Len(pattern) \in Nat
    BY DEF Patterns
  <1>4. Len(pattern) + 1 \in 1 .. Len(pattern) + 1 /\ Len(pattern) + 1 > Len(pattern)
        /\ \A p \in 1 .. Len(pattern) : p \in 1 .. Len(pattern) + 1 /\ ~(p > Len(pattern))
    BY <1>3
  <1>5. Loop(pattern, path, from)
    BY <1>1, <1>4 DEF Loop
  <1>6. QED
    BY <1>2, <1>5

\* What an iteration of the loop makes of the rest of it.
Iteration(pattern, path, from, p, q) ==
  /\ q > Len(path) => from[p][q] = AtEnd(pattern, p, path, q)
  /\ q <= Len(path) /\ pattern[p].param =>
       /\ from[p][q].matched = from[p + 1][SegmentEnd(path, q)].matched
       /\ from[p][q].params =
            Override([n \in {pattern[p].text} |-> SubSeq(path, q, SegmentEnd(path, q) - 1)],
                     from[p + 1][SegmentEnd(path, q)].params)
  /\ q <= Len(path) /\ ~pattern[p].param /\ pattern[p].text = path[q] =>
       from[p][q] = from[p + 1][q + 1]
  /\ q <= Len(path) /\ ~pattern[p].param /\ pattern[p].text # path[q] =>
       from[p][q] = [matched |-> FALSE, params |-> NoParams]

\* Each iteration of match_route is one.
LEMMA LoopStep ==
  ASSUME NEW pattern \in Patterns, NEW path \in Paths, NEW from, Loop(pattern, path, from),
         NEW p \in 1 .. Len(pattern), NEW q \in 1 .. Len(path) + 1
  PROVE  Iteration(pattern, path, from, p, q)
  <1>1. from[p] = LoopFrom(pattern, p, path, from[p + 1])
    BY DEF Loop
  <1>2. Len(path) \in Nat
    BY DEF Paths
  <1>3. PICK rest : rest = from[p + 1]
    OBVIOUS
  <1>4. PICK here : here = from[p][q]
    OBVIOUS
  <1>5. here = (IF q > Len(path) THEN AtEnd(pattern, p, path, q)
         ELSE IF pattern[p].param
         THEN [matched |-> rest[SegmentEnd(path, q)].matched,
               params |-> Override([n \in {pattern[p].text} |->
                                      SubSeq(path, q, SegmentEnd(path, q) - 1)],
                                   rest[SegmentEnd(path, q)].params)]
         ELSE IF pattern[p].text = path[q] THEN rest[q + 1]
         ELSE [matched |-> FALSE, params |-> NoParams])
    BY <1>1, <1>3, <1>4 DEF LoopFrom
  <1>6. q \in Nat /\ (q > Len(path) <=> ~(q <= Len(path)))
    BY <1>2
  <1>7. CASE q > Len(path)
    BY <1>4, <1>5, <1>6, <1>7 DEF Iteration
  <1>8. CASE q <= Len(path)
    <2>1. ~(q > Len(path))
      BY <1>6, <1>8
    <2>2. CASE pattern[p].param
      <3>1. here = [matched |-> rest[SegmentEnd(path, q)].matched,
                    params |-> Override([n \in {pattern[p].text} |->
                                           SubSeq(path, q, SegmentEnd(path, q) - 1)],
                                        rest[SegmentEnd(path, q)].params)]
        BY <1>5, <2>1, <2>2, Zenon
      <3>2. QED
        BY <1>3, <1>4, <2>1, <2>2, <3>1 DEF Iteration
    <2>3. CASE ~pattern[p].param
      <3>1. here = (IF pattern[p].text = path[q] THEN rest[q + 1]
                    ELSE [matched |-> FALSE, params |-> NoParams])
        BY <1>5, <2>1, <2>3, Zenon
      <3>2. QED
        BY <1>3, <1>4, <2>1, <2>3, <3>1 DEF Iteration
    <2>4. QED
      BY <2>2, <2>3
  <1>9. QED
    BY <1>6, <1>7, <1>8

\* The end of the loop.
LEMMA LoopEnd ==
  ASSUME NEW pattern \in Patterns, NEW path \in Paths, NEW from, Loop(pattern, path, from),
         NEW q \in 1 .. Len(path) + 1
  PROVE  from[Len(pattern) + 1][q] = AtEnd(pattern, Len(pattern) + 1, path, q)
  BY DEF Loop

\* The parameters set from a place on are those that the pattern names there.
LEMMA NamesAhead ==
  ASSUME NEW pattern \in Patterns, NEW path \in Paths, NEW from, Loop(pattern, path, from)
  PROVE  \A p \in 1 .. Len(pattern) + 1 : \A q \in 1 .. Len(path) + 1 :
           \A n \in DOMAIN from[p][q].params :
             \E j \in p .. Len(pattern) : pattern[j].param /\ pattern[j].text = n
  <1> DEFINE L == Len(pattern)
             Ahead(p) == \A q \in 1 .. Len(path) + 1 : \A n \in DOMAIN from[p][q].params :
                           \E j \in p .. L : pattern[j].param /\ pattern[j].text = n
             Bad == {m \in 0 .. L : ~Ahead(L + 1 - m)}
  <1>1. L \in Nat /\ Len(path) \in Nat
    BY DEF Patterns, Paths
  <1>2. \A p, q : AtEnd(pattern, p, path, q).params = NoParams
    BY DEF AtEnd
  <1>3. DOMAIN NoParams = {}
    BY DEF NoParams
  <1>4. Ahead(L + 1)
    BY <1>2, <1>3, LoopEnd
  <1>5. ASSUME NEW p \in 1 .. L, Ahead(p + 1)
        PROVE  Ahead(p)
    <2> SUFFICES ASSUME NEW q \in 1 .. Len(path) + 1, NEW n \in DOMAIN from[p][q].params
                 PROVE  \E j \in p .. L : pattern[j].param /\ pattern[j].text = n
      OBVIOUS
    <2>1. \A j \in p + 1 .. L : j \in p .. L
      BY <1>1
    <2>2. p \in p .. L
      BY <1>1
    <2>3. Iteration(pattern, path, from, p, q)
      BY LoopStep
    <2>4. CASE q > Len(path)
      BY <1>2, <1>3, <2>4, <2>3 DEF Iteration
    <2>5. CASE q <= Len(path) /\ pattern[p].param
      <3>1. q \in 1 .. Len(path)
        BY <1>1, <2>5
      <3>2. PICK e : e = SegmentEnd(path, q) /\ e \in 1 .. Len(path) + 1
        BY <1>1, <3>1, SegmentEnds
      <3>3. PICK r, s : r = from[p + 1][e].params /\ s = SubSeq(path, q, e - 1)
        OBVIOUS
      <3>4. from[p][q].params = Override([x \in {pattern[p].text} |-> s], r)
        BY <2>5, <2>3, <3>2, <3>3 DEF Iteration
      <3>5. n = pattern[p].text \/ n \in DOMAIN r
        BY <3>4 DEF Override
      <3>6. QED
        BY <1>5, <2>1, <2>2, <2>5, <3>2, <3>3, <3>5
    <2>6. CASE q <= Len(path) /\ ~pattern[p].param /\ pattern[p].text = path[q]
      <3>1. q + 1 \in 1 .. Len(path) + 1
        BY <1>1, <2>6
      <3>2. from[p][q] = from[p + 1][q + 1]
        BY <2>6, <2>3 DEF Iteration
      <3>3. QED
        BY <1>5, <2>1, <3>1, <3>2
    <2>7. CASE q <= Len(path) /\ ~pattern[p].param /\ pattern[p].text # path[q]
      <3>1. from[p][q] = [matched |-> FALSE, params |-> NoParams]
        BY <2>7, <2>3 DEF Iteration
      <3>2. QED
        BY <1>3, <3>1
    <2>8. QED
      BY <1>1, <2>4, <2>5, <2>6, <2>7
  <1> HIDE DEF Ahead, L
  <1>6. Bad = {}
    <2> SUFFICES ASSUME Bad # {} PROVE FALSE
      OBVIOUS
    <2>1. Bad \in SUBSET Nat
      OBVIOUS
    <2>2. PICK m \in Bad : \A k \in Nat : k < m => k \notin Bad
      <3> HIDE DEF Bad
      <3>1. QED
        BY <2>1, LeastOf
    <2>3. m \in 0 .. L /\ ~Ahead(L + 1 - m)
      OBVIOUS
    <2>4. m # 0
      BY <1>1, <1>4, <2>3
    <2>5. m - 1 \in Nat /\ m - 1 < m /\ m - 1 \in 0 .. L
      BY <1>1, <2>3, <2>4
    <2>6. Ahead(L + 1 - (m - 1))
      BY <2>2, <2>5
    <2>7. L + 1 - (m - 1) = (L + 1 - m) + 1 /\ L + 1 - m \in 1 .. L
      BY <1>1, <2>3, <2>4
    <2>8. Ahead((L + 1 - m) + 1)
      BY <2>6, <2>7
    <2>9. QED
      BY <1>5, <2>3, <2>7, <2>8
  <1>7. \A p \in 1 .. L + 1 : Ahead(p)
    <2> SUFFICES ASSUME NEW p \in 1 .. L + 1 PROVE Ahead(p)
      OBVIOUS
    <2>1. L + 1 - p \in 0 .. L /\ L + 1 - (L + 1 - p) = p
      BY <1>1
    <2>2. QED
      BY <1>6, <2>1
  <1>8. QED
    BY <1>7 DEF Ahead, L

\* filled is the pattern up to each place, with its parameters filled in.
Filling(pattern, values, filled) ==
  /\ filled[0] = <<>>
  /\ \A n \in 1 .. Len(pattern) :
       filled[n] = filled[n - 1] \o (IF pattern[n].param THEN values[pattern[n].text]
                                     ELSE <<pattern[n].text>>)

\* There is such a function, for any part of the pattern.
LEMMA FilledIs ==
  ASSUME NEW pattern \in Patterns, NEW values
  PROVE  \E filled : /\ Filling(pattern, values, filled)
                     /\ Filled(pattern, values) = filled[Len(pattern)]
  <1> DEFINE L == Len(pattern)
             Piece(n) == IF pattern[n].param THEN values[pattern[n].text] ELSE <<pattern[n].text>>
             Is(b, f) == f = [n \in 0 .. b |-> IF n = 0 THEN <<>> ELSE f[n - 1] \o Piece(n)]
             None == {b \in Nat : ~(\E f : Is(b, f))}
  <1>1. L \in Nat
    BY DEF Patterns
  <1>2. None = {}
    <2> HIDE DEF Piece
    <2> SUFFICES ASSUME None # {} PROVE FALSE
      OBVIOUS
    <2>1. None \in SUBSET Nat
      OBVIOUS
    <2>2. PICK m \in None : \A k \in Nat : k < m => k \notin None
      <3> HIDE DEF None
      <3>1. QED
        BY <2>1, LeastOf
    <2>3. m \in Nat /\ ~(\E f : Is(m, f))
      OBVIOUS
    <2>4. CASE m = 0
      <3> DEFINE f == [n \in 0 .. 0 |-> <<>>]
      <3>1. f = [n \in 0 .. m |-> IF n = 0 THEN <<>> ELSE f[n - 1] \o Piece(n)]
        BY <2>4
      <3>2. QED
        BY <2>3, <3>1
    <2>5. CASE m # 0
      <3>1. m - 1 \in Nat /\ m - 1 < m
        BY <2>3, <2>5
      <3>2. PICK g : g = [n \in 0 .. m - 1 |-> IF n = 0 THEN <<>> ELSE g[n - 1] \o Piece(n)]
        BY <2>2, <3>1
      <3> DEFINE f == [n \in 0 .. m |-> IF n = 0 THEN <<>> ELSE g[n - 1] \o Piece(n)]
      <3>3. \A n \in 0 .. m : n # 0 => n - 1 \in 0 .. m - 1 /\ n - 1 \in 0 .. m
        BY <2>3
      <3>4. \A n \in 0 .. m - 1 : n \in 0 .. m /\ f[n] = g[n]
        <4>1. \A n \in 0 .. m - 1 : n \in 0 .. m
          BY <2>3
        <4>2. \A n \in 0 .. m - 1 : g[n] = IF n = 0 THEN <<>> ELSE g[n - 1] \o Piece(n)
          BY <3>2
        <4>3. \A n \in 0 .. m : f[n] = IF n = 0 THEN <<>> ELSE g[n - 1] \o Piece(n)
          OBVIOUS
        <4> HIDE DEF f
        <4>4. QED
          BY <4>1, <4>2, <4>3
      <3>5. f = [n \in 0 .. m |-> IF n = 0 THEN <<>> ELSE f[n - 1] \o Piece(n)]
        BY <3>3, <3>4
      <3>6. QED
        BY <2>3, <3>5
    <2>6. QED
      BY <2>4, <2>5
  <1> DEFINE filled == CHOOSE f : Is(L, f)
  <1>3. Is(L, filled)
    <2>1. \E f : Is(L, f)
      BY <1>1, <1>2
    <2> HIDE DEF Is
    <2>2. QED
      BY <2>1, Zenon
  <1>4. Filled(pattern, values) = filled[L]
    BY Zenon DEF Filled
  <1> HIDE DEF filled
  <1>5. Filling(pattern, values, filled)
    <2>1. 0 \in 0 .. L /\ \A n \in 1 .. L : n \in 0 .. L /\ n # 0
      BY <1>1
    <2> HIDE DEF Piece
    <2>2. \A n \in 0 .. L : filled[n] = IF n = 0 THEN <<>> ELSE filled[n - 1] \o Piece(n)
      BY <1>3
    <2>3. filled[0] = <<>> /\ \A n \in 1 .. L : filled[n] = filled[n - 1] \o Piece(n)
      BY <2>1, <2>2
    <2>4. QED
      BY <2>3 DEF Piece, Filling
  <1>6. QED
    BY <1>4, <1>5

\* A part of a path, and what follows it up to a place.
LEMMA PartsJoin ==
  ASSUME NEW path \in Paths, NEW q \in 1 .. Len(path), NEW e \in q .. Len(path) + 1
  PROVE  SubSeq(path, 1, q - 1) \o SubSeq(path, q, e - 1) = SubSeq(path, 1, e - 1)
  BY DEF Paths

\* One character more.
LEMMA NextJoins ==
  ASSUME NEW path \in Paths, NEW q \in 1 .. Len(path)
  PROVE  SubSeq(path, 1, q - 1) \o <<path[q]>> = SubSeq(path, 1, q)
  BY DEF Paths

\* No pattern that server.get and its kind were given names a parameter twice.
NamedOnce(pattern) ==
  \A j, k \in 1 .. Len(pattern) :
    pattern[j].param /\ pattern[k].param /\ pattern[j].text = pattern[k].text => j = k

\* A path, up to a slash at the end.
Like(filled, path) ==
  \/ filled = path
  \/ filled = Append(path, "/")
  \/ Append(filled, "/") = path

\* values has the parameters of set, and maybe others.
Extends(values, set) == \A n \in DOMAIN set : values[n] = set[n]

\* A loop that matches, from places up to which the pattern filled in is the
\* path, finds the rest of the pattern filled in to be the rest of the path.
Finds(pattern, path, from, values, filled, p) ==
  \A q \in 1 .. Len(path) + 1 :
    /\ from[p][q].matched
    /\ Extends(values, from[p][q].params)
    /\ filled[p - 1] = SubSeq(path, 1, q - 1)
    => Like(filled[Len(pattern)], path)

\* At the end of the pattern.
LEMMA FindsEnd ==
  ASSUME NEW pattern \in Patterns, NEW path \in Paths, NEW from, NEW values, NEW filled,
         Loop(pattern, path, from), Filling(pattern, values, filled)
  PROVE  Finds(pattern, path, from, values, filled, Len(pattern) + 1)
  <1> DEFINE L == Len(pattern)
             M == Len(path)
  <1>1. L \in Nat /\ M \in Nat
    BY DEF Patterns, Paths
  <1> SUFFICES ASSUME NEW q \in 1 .. M + 1, from[L + 1][q].matched, filled[L] = SubSeq(path, 1, q - 1)
               PROVE  Like(filled[L], path)
    <2>1. (L + 1) - 1 = L
      BY <1>1
    <2>2. QED
      BY <2>1 DEF Finds
  <1>2. BothConsumed(pattern, L + 1, path, q)
    <2>1. from[L + 1][q] = AtEnd(pattern, L + 1, path, q)
      BY LoopEnd
    <2>2. QED
      BY <2>1 DEF AtEnd
  <1>3. q > M \/ (q = M /\ path[q] = "/")
    BY <1>1, <1>2 DEF BothConsumed
  <1>4. CASE q > M
    <2>1. q - 1 = M /\ SubSeq(path, 1, M) = path
      BY <1>1, <1>4 DEF Paths
    <2>2. QED
      BY <2>1 DEF Like
  <1>5. CASE q = M /\ path[q] = "/"
    <2>1. SubSeq(path, 1, M - 1) \o <<path[M]>> = SubSeq(path, 1, M) /\ SubSeq(path, 1, M) = path
      BY <1>1, <1>5, NextJoins DEF Paths
    <2>2. Append(SubSeq(path, 1, M - 1), "/") = path
      BY <1>1, <1>5, <2>1 DEF Paths
    <2>3. QED
      BY <1>5, <2>2 DEF Like
  <1>6. QED
    BY <1>3, <1>4, <1>5

\* Before it, from the next place.
LEMMA FindsStep ==
  ASSUME NEW pattern \in Patterns, NEW path \in Paths, NEW from, NEW values, NEW filled,
         Loop(pattern, path, from), Filling(pattern, values, filled), NamedOnce(pattern),
         NEW p \in 1 .. Len(pattern), Finds(pattern, path, from, values, filled, p + 1)
  PROVE  Finds(pattern, path, from, values, filled, p)
  <1> DEFINE L == Len(pattern)
             M == Len(path)
  <1>1. L \in Nat /\ M \in Nat /\ p \in Nat
    BY DEF Patterns, Paths
  <1> SUFFICES ASSUME NEW q \in 1 .. M + 1, from[p][q].matched, Extends(values, from[p][q].params),
                      filled[p - 1] = SubSeq(path, 1, q - 1)
               PROVE  Like(filled[L], path)
    BY DEF Finds
  <1>2. Iteration(pattern, path, from, p, q)
    BY LoopStep
  <1>3. filled[p] = filled[p - 1] \o (IF pattern[p].param THEN values[pattern[p].text]
                                      ELSE <<pattern[p].text>>)
    BY DEF Filling
  <1>4. \A r \in 1 .. M + 1 :
          /\ from[p + 1][r].matched
          /\ Extends(values, from[p + 1][r].params)
          /\ filled[p] = SubSeq(path, 1, r - 1)
          => Like(filled[L], path)
    <2>1. (p + 1) - 1 = p
      BY <1>1
    <2>2. QED
      BY <2>1 DEF Finds
  <1>5. CASE q > M
    <2>1. from[p][q] = AtEnd(pattern, p, path, q)
      BY <1>2, <1>5 DEF Iteration
    <2>2. BothConsumed(pattern, p, path, q)
      BY <2>1 DEF AtEnd
    <2>3. p = L /\ pattern[p] = Char("/")
      BY <1>1, <1>5, <2>2 DEF BothConsumed
    <2>4. ~pattern[p].param /\ pattern[p].text = "/"
      BY <2>3 DEF Char
    <2>5. filled[p] = filled[p - 1] \o <<"/">>
      BY <1>3, <2>4
    <2>6. q - 1 = M /\ SubSeq(path, 1, M) = path
      BY <1>1, <1>5 DEF Paths
    <2>7. path \o <<"/">> = Append(path, "/")
      BY DEF Paths
    <2>8. QED
      BY <2>3, <2>5, <2>6, <2>7 DEF Like
  <1>6. CASE q <= M /\ pattern[p].param
    <2>1. q \in 1 .. M
      BY <1>1, <1>6
    <2>2. PICK e : e = SegmentEnd(path, q)
      OBVIOUS
    <2>3. e \in q .. M + 1
      BY <2>1, <2>2, SegmentEnds
    <2>4. e \in 1 .. M + 1
      BY <1>1, <2>3
    <2>5. PICK n, value, rest : /\ n = pattern[p].text /\ value = SubSeq(path, q, e - 1)
                                /\ rest = from[p + 1][e].params
      OBVIOUS
    <2>6. /\ from[p][q].matched = from[p + 1][e].matched
          /\ from[p][q].params = Override([x \in {n} |-> value], rest)
      BY <1>2, <1>6, <2>2, <2>5 DEF Iteration
    <2>7. n \notin DOMAIN rest
      <3> SUFFICES ASSUME n \in DOMAIN rest PROVE FALSE
        OBVIOUS
      <3>1. p + 1 \in 1 .. L + 1
        BY <1>1
      <3>2. \A r \in 1 .. M + 1 : \A x \in DOMAIN from[p + 1][r].params :
              \E j \in p + 1 .. L : pattern[j].param /\ pattern[j].text = x
        BY <3>1, NamesAhead
      <3>3. PICK j \in p + 1 .. L : pattern[j].param /\ pattern[j].text = n
        BY <2>4, <2>5, <3>2
      <3>4. j \in 1 .. L /\ j # p
        BY <1>1, <3>3
      <3>5. QED
        BY <1>6, <2>5, <3>3, <3>4 DEF NamedOnce
    <2>8. /\ DOMAIN Override([x \in {n} |-> value], rest) = {n} \cup DOMAIN rest
          /\ \A x \in DOMAIN rest : Override([y \in {n} |-> value], rest)[x] = rest[x]
          /\ Override([x \in {n} |-> value], rest)[n] = value
      BY <2>7 DEF Override
    <2>9. values[n] = value /\ Extends(values, rest)
      BY <2>6, <2>8 DEF Extends
    <2>10. filled[p] = SubSeq(path, 1, q - 1) \o value
      BY <1>3, <1>6, <2>5, <2>9
    <2>11. filled[p] = SubSeq(path, 1, e - 1)
      BY <2>1, <2>3, <2>5, <2>10, PartsJoin
    <2>12. QED
      BY <1>4, <2>4, <2>5, <2>6, <2>9, <2>11
  <1>7. CASE q <= M /\ ~pattern[p].param /\ pattern[p].text = path[q]
    <2>1. q \in 1 .. M /\ q + 1 \in 1 .. M + 1 /\ (q + 1) - 1 = q
      BY <1>1, <1>7
    <2>2. from[p][q] = from[p + 1][q + 1]
      BY <1>2, <1>7 DEF Iteration
    <2>3. filled[p] = SubSeq(path, 1, q - 1) \o <<path[q]>>
      BY <1>3, <1>7
    <2>4. filled[p] = SubSeq(path, 1, (q + 1) - 1)
      BY <2>1, <2>3, NextJoins
    <2>5. QED
      BY <1>4, <2>1, <2>2, <2>4
  <1>8. CASE q <= M /\ ~pattern[p].param /\ pattern[p].text # path[q]
    <2>1. from[p][q] = [matched |-> FALSE, params |-> NoParams]
      BY <1>2, <1>8 DEF Iteration
    <2>2. QED
      BY <2>1
  <1>9. QED
    BY <1>1, <1>5, <1>6, <1>7, <1>8

\* A route that matches is the path when the parameters that match_route sets
\* are filled in, whatever other parameters there are.
LEMMA MatchFills ==
  ASSUME NEW pattern \in Patterns, NEW path \in Paths, NEW values, NamedOnce(pattern),
         match_route(pattern, path).matched, Extends(values, match_route(pattern, path).params)
  PROVE  Like(Filled(pattern, values), path)
  <1> DEFINE L == Len(pattern)
  <1>1. PICK from : Loop(pattern, path, from) /\ match_route(pattern, path) = from[1][1]
    BY MatchIs
  <1>2. PICK filled : Filling(pattern, values, filled) /\ Filled(pattern, values) = filled[L]
    BY FilledIs
  <1>3. L \in Nat /\ Len(path) \in Nat
    BY DEF Patterns, Paths
  <1> DEFINE There(p) == Finds(pattern, path, from, values, filled, p)
             Bad == {m \in 0 .. L : ~There(L + 1 - m)}
  <1>4. There(L + 1)
    BY <1>1, <1>2, FindsEnd
  <1>5. \A p \in 1 .. L : There(p + 1) => There(p)
    BY <1>1, <1>2, FindsStep
  <1> HIDE DEF There, L
  <1>6. Bad = {}
    <2> SUFFICES ASSUME Bad # {} PROVE FALSE
      OBVIOUS
    <2>1. Bad \in SUBSET Nat
      OBVIOUS
    <2>2. PICK m \in Bad : \A k \in Nat : k < m => k \notin Bad
      <3> HIDE DEF Bad
      <3>1. QED
        BY <2>1, LeastOf
    <2>3. m \in 0 .. L /\ ~There(L + 1 - m)
      OBVIOUS
    <2>4. m # 0
      BY <1>3, <1>4, <2>3
    <2>5. m - 1 \in Nat /\ m - 1 < m /\ m - 1 \in 0 .. L
      BY <1>3, <2>3, <2>4
    <2>6. There(L + 1 - (m - 1))
      BY <2>2, <2>5
    <2>7. L + 1 - (m - 1) = (L + 1 - m) + 1 /\ L + 1 - m \in 1 .. L
      BY <1>3, <2>3, <2>4
    <2>8. There((L + 1 - m) + 1)
      BY <2>6, <2>7
    <2>9. QED
      BY <1>5, <2>3, <2>7, <2>8
  <1>7. There(1)
    <2>1. L \in 0 .. L /\ L + 1 - L = 1
      BY <1>3
    <2>2. QED
      BY <1>6, <2>1
  <1>8. 1 \in 1 .. Len(path) + 1 /\ filled[1 - 1] = SubSeq(path, 1, 1 - 1)
    <2>1. filled[0] = <<>>
      BY <1>2 DEF Filling
    <2>2. SubSeq(path, 1, 0) = <<>>
      BY DEF Paths
    <2>3. 1 - 1 = 0 /\ 1 \in 1 .. Len(path) + 1
      BY <1>3
    <2>4. QED
      BY <2>1, <2>2, <2>3
  <1>9. QED
    BY <1>1, <1>2, <1>7, <1>8 DEF There, L, Finds

\* The parameters that a route which has been tried sets are set as it set them.
LEMMA ParamsLast ==
  ASSUME NEW c, NEW i \in Candidates(c)
  PROVE  Extends(ParamsAfter(c, i), match_route(Routes[i].pattern, request[c].path).params)
  <1> DEFINE N == Len(Routes)
             tried == Candidates(c)
             SetBy(j) == match_route(Routes[j].pattern, request[c].path).params
             Try(j, before) == IF j \in tried THEN Override(before, SetBy(j)) ELSE before
             Is(b, f) == f = [j \in 0 .. b |-> IF j = 0 THEN NoParams ELSE Try(j, f[j - 1])]
             None == {b \in Nat : ~(\E f : Is(b, f))}
  <1>1. N \in Nat /\ i \in 1 .. N /\ i \in tried
    BY RouterAssumption DEF Candidates
  <1>2. None = {}
    <2> HIDE DEF Try
    <2> SUFFICES ASSUME None # {} PROVE FALSE
      OBVIOUS
    <2>1. None \in SUBSET Nat
      OBVIOUS
    <2>2. PICK m \in None : \A k \in Nat : k < m => k \notin None
      <3> HIDE DEF None
      <3>1. QED
        BY <2>1, LeastOf
    <2>3. m \in Nat /\ ~(\E f : Is(m, f))
      OBVIOUS
    <2>4. CASE m = 0
      <3> DEFINE f == [j \in 0 .. 0 |-> NoParams]
      <3>1. f = [j \in 0 .. m |-> IF j = 0 THEN NoParams ELSE Try(j, f[j - 1])]
        BY <2>4
      <3>2. QED
        BY <2>3, <3>1
    <2>5. CASE m # 0
      <3>1. m - 1 \in Nat /\ m - 1 < m
        BY <2>3, <2>5
      <3>2. PICK g : g = [j \in 0 .. m - 1 |-> IF j = 0 THEN NoParams ELSE Try(j, g[j - 1])]
        BY <2>2, <3>1
      <3> DEFINE f == [j \in 0 .. m |-> IF j = 0 THEN NoParams ELSE Try(j, g[j - 1])]
      <3>3. \A j \in 0 .. m : j # 0 => j - 1 \in 0 .. m - 1 /\ j - 1 \in 0 .. m
        BY <2>3
      <3>4. \A j \in 0 .. m - 1 : j \in 0 .. m /\ f[j] = g[j]
        BY <2>3, <3>2
      <3>5. f = [j \in 0 .. m |-> IF j = 0 THEN NoParams ELSE Try(j, f[j - 1])]
        BY <3>3, <3>4
      <3>6. QED
        BY <2>3, <3>5
    <2>6. QED
      BY <2>4, <2>5
  <1> DEFINE upto == CHOOSE f : Is(N, f)
  <1>3. Is(N, upto)
    <2>1. \E f : Is(N, f)
      BY <1>1, <1>2
    <2> HIDE DEF Is
    <2>2. QED
      BY <2>1, Zenon
  <1>4. ParamsAfter(c, i) = upto[i]
    BY Zenon DEF ParamsAfter
  <1>5. upto[i] = Override(upto[i - 1], SetBy(i))
    <2> HIDE DEF upto, SetBy
    <2>1. i \in 0 .. N /\ i # 0
      BY <1>1
    <2>2. upto[i] = Try(i, upto[i - 1])
      <3> HIDE DEF Try
      <3>1. QED
        BY <1>3, <2>1
    <2>3. QED
      BY <1>1, <2>2
  <1>6. PICK before, set : before = upto[i - 1] /\ set = SetBy(i)
    OBVIOUS
  <1>7. Extends(Override(before, set), set)
    BY DEF Extends, Override
  <1>8. QED
    BY <1>4, <1>5, <1>6, <1>7

\* The route that is found is one that matches.
LEMMA RouteFound ==
  ASSUME NEW c, RouteOf(c) # 0
  PROVE  RouteOf(c) \in Candidates(c) /\ Matched(c, RouteOf(c))
  <1> DEFINE T == {i \in Candidates(c) : Matched(c, i)}
  <1>1. T # {}
    BY DEF RouteOf
  <1>2. Candidates(c) \subseteq Nat
    BY DEF Candidates
  <1>3. PICK i \in T : \A j \in Nat : j < i => j \notin T
    <2>1. T \in SUBSET Nat
      BY <1>2
    <2> HIDE DEF T
    <2>2. QED
      BY <1>1, <2>1, LeastOf
  <1>4. \E k \in Candidates(c) : Matched(c, k) /\ \A j \in Candidates(c) : j < k => ~Matched(c, j)
    BY <1>2, <1>3
  <1>5. RouteOf(c) = CHOOSE k \in Candidates(c) :
                       Matched(c, k) /\ \A j \in Candidates(c) : j < k => ~Matched(c, j)
    BY <1>1, Zenon DEF RouteOf
  <1>6. QED
    BY <1>4, <1>5

\* No route of the router names a parameter twice.
RoutesNamedOnce == \A i \in 1 .. Len(Routes) : NamedOnce(Routes[i].pattern)

\* The handler that Dispatch goes to is one for the path.
LEMMA RouteFits ==
  ASSUME RoutesNamedOnce, NEW c \in Connections, request[c] \in Requests[c], RouteOf(c) # 0
  PROVE  Like(Filled(Routes[RouteOf(c)].pattern, ParamsAfter(c, RouteOf(c))), request[c].path)
  <1>1. PICK i : i = RouteOf(c)
    OBVIOUS
  <1>2. i \in Candidates(c) /\ Matched(c, i)
    BY <1>1, RouteFound
  <1>3. i \in 1 .. Len(Routes)
    BY <1>2 DEF Candidates
  <1>4. PICK pattern, path, values :
          pattern = Routes[i].pattern /\ path = request[c].path /\ values = ParamsAfter(c, i)
    OBVIOUS
  <1>5. pattern \in Patterns
    <2>1. PICK records : records = [method : STRING, pattern : Patterns]
      OBVIOUS
    <2>2. Routes \in Seq(records)
      BY <2>1, RouterAssumption
    <2>3. Routes[i] \in records
      BY <1>3, <2>2
    <2>4. QED
      BY <1>4, <2>1, <2>3
  <1>6. path \in Paths
    BY <1>4, RouterAssumption
  <1>7. NamedOnce(pattern)
    BY <1>3, <1>4 DEF RoutesNamedOnce
  <1>8. match_route(pattern, path).matched
    BY <1>2, <1>4, Zenon DEF Matched
  <1>9. Extends(values, match_route(pattern, path).params)
    BY <1>2, <1>4, ParamsLast
  <1>10. QED
    BY <1>1, <1>4, <1>5, <1>6, <1>7, <1>8, <1>9, MatchFills

\* The handler of c is one for its path.
HandlerFits(c) ==
  stage[c] = "handler" => Like(Filled(Routes[route[c]].pattern, params[c]), request[c].path)

RoutingInv ==
  /\ DOMAIN route = Connections /\ DOMAIN params = Connections
  /\ \A c \in Connections : HandlerFits(c)

\* Nothing of the request or the route of d changes.
RouteLeft(d) ==
  stage[d] = "handler" /\ request'[d] = request[d] /\ route'[d] = route[d] /\ params'[d] = params[d]

\* Dispatch has found a route for d.
RouteTaken(d) ==
  /\ stage[d] = "received" /\ RouteOf(d) # 0 /\ request'[d] = request[d]
  /\ route'[d] = RouteOf(d) /\ params'[d] = ParamsAfter(d, RouteOf(d))

\* How a connection comes to be in its handler, or stays there.
LEMMA RoutingSteps ==
  ASSUME ReceiveInv, DOMAIN route = Connections, DOMAIN params = Connections, [Next]_vars
  PROVE  /\ DOMAIN route' = Connections /\ DOMAIN params' = Connections
         /\ \A d \in Connections : stage'[d] = "handler" => RouteLeft(d) \/ RouteTaken(d)
  <1> USE DEF RouteLeft, RouteTaken, Goes, Set, routing, receiving
  <1>0. DOMAIN stage = Connections /\ DOMAIN request = Connections
    BY DEF ReceiveInv
  <1> DEFINE Goal == /\ DOMAIN route' = Connections /\ DOMAIN params' = Connections
                     /\ \A d \in Connections : stage'[d] = "handler" => RouteLeft(d) \/ RouteTaken(d)
  <1>1. ASSUME NEW c \in Connections, NEW to, to # "handler", stage' = Set(stage, c, to),
               UNCHANGED <<request, routing>>
        PROVE  Goal
    BY <1>0, <1>1
  <1>2. ASSUME NEW c \in Connections, peer(c) PROVE Goal
    <2>1. UNCHANGED <<request, routing>>
      BY <1>2 DEF peer, Receive, PeerCloses, RecvFails
    <2>2. \E to : to # "handler" /\ stage' = Set(stage, c, to)
      BY <1>2 DEF peer, Receive, PeerCloses, RecvFails
    <2>3. QED
      BY <1>1, <2>1, <2>2
  <1>3. ASSUME NEW c \in Connections,
               \/ TimesOut(c) \/ Reject(c) \/ HandlerReturns(c) \/ MiddlewareReturns(c)
               \/ Respond(c) \/ Uncount(c)
        PROVE  Goal
    <2>1. UNCHANGED <<request, routing>>
      BY <1>3 DEF TimesOut, Reject, HandlerReturns, MiddlewareReturns, Respond, Uncount
    <2>2. \E to : to # "handler" /\ stage' = Set(stage, c, to)
      BY <1>3 DEF TimesOut, Reject, HandlerReturns, MiddlewareReturns, Respond, Uncount
    <2>3. QED
      BY <1>1, <2>1, <2>2
  <1>4. ASSUME NEW c \in Connections, Dispatch(c) PROVE Goal
    <2>1. CASE stage' = Set(stage, c, "respond") \/ stage' = Set(stage, c, "cleanup")
      <3>1. \/ UNCHANGED <<request, routing>>
            \/ stage' = Set(stage, c, IF RouteOf(c) = 0 THEN "middleware" ELSE "handler")
        BY <1>4 DEF Dispatch
      <3>2. stage'[c] # "handler" /\ stage'[c] # "middleware"
        BY <1>0, <2>1
      <3>3. UNCHANGED <<request, routing>>
        BY <1>0, <3>1, <3>2
      <3>4. QED
        BY <1>1, <2>1, <3>3
    <2>2. CASE /\ stage' = Set(stage, c, IF RouteOf(c) = 0 THEN "middleware" ELSE "handler")
               /\ route' = Set(route, c, RouteOf(c))
               /\ params' = Set(params, c, ParamsAfter(c, IF RouteOf(c) = 0 THEN Len(Routes)
                                                          ELSE RouteOf(c)))
      <3>1. stage[c] = "received" /\ UNCHANGED request
        BY <1>4 DEF Dispatch
      <3>2. QED
        BY <1>0, <2>2, <3>1
    <2>3. QED
      BY <1>4, <2>1, <2>2 DEF Dispatch
  <1>5. ASSUME NEW c \in Connections, Cleanup(c) PROVE Goal
    <2>1. /\ stage' = Set(stage, c, "uncount") /\ request' = Set(request, c, NULL)
          /\ route' = Set(route, c, 0) /\ params' = Set(params, c, NoParams)
      BY <1>5 DEF Cleanup, Forget
    <2>2. QED
      BY <1>0, <2>1
  <1>6. ASSUME NEW c \in Connections, NEW l \in Listeners, Accept(l, c) \/ Count(l, c) \/ GiveUp(l, c)
        PROVE  Goal
    <2>1. UNCHANGED <<request, routing>>
      BY <1>6 DEF Accept, Count, GiveUp
    <2>2. \E to : to # "handler" /\ stage' = Set(stage, c, to)
      BY <1>6 DEF Accept, Count, GiveUp
    <2>3. QED
      BY <1>1, <2>1, <2>2
  <1>7. ASSUME NEW c \in Connections, NEW l \in Listeners, StartThread(l, c) PROVE Goal
    <2>1. /\ stage' = Set(stage, c, "receiving") /\ UNCHANGED routing
          /\ \E r \in Requests[c] : request' = Set(request, c, r)
      BY <1>7 DEF StartThread
    <2>2. QED
      BY <1>0, <2>1
  <1>8. ASSUME (\E c \in Connections : Panics(c)) \/ Tick \/ UNCHANGED vars PROVE Goal
    <2>1. UNCHANGED <<stage, request, routing>>
      BY <1>8 DEF Panics, Tick, vars
    <2>2. QED
      BY <2>1
  <1> HIDE DEF Goal
  <1>9. Goal
    BY <1>2, <1>3, <1>4, <1>5, <1>6, <1>7, <1>8 DEF Next, handle_connection, listen
  <1>10. QED
    BY <1>9 DEF Goal

\* Every step keeps handlers to their paths.
LEMMA RoutingKept ==
  ASSUME RoutesNamedOnce, ReceiveInv, RoutingInv, [Next]_vars
  PROVE  RoutingInv'
  <1>1. /\ DOMAIN route' = Connections /\ DOMAIN params' = Connections
        /\ \A d \in Connections : stage'[d] = "handler" => RouteLeft(d) \/ RouteTaken(d)
    BY RoutingSteps DEF RoutingInv
  <1>2. ASSUME NEW d \in Connections, stage'[d] = "handler"
        PROVE  Like(Filled(Routes[route'[d]].pattern, params'[d]), request'[d].path)
    <2>1. CASE RouteLeft(d)
      <3>1. Like(Filled(Routes[route[d]].pattern, params[d]), request[d].path)
        BY <2>1 DEF RoutingInv, HandlerFits, RouteLeft
      <3>2. QED
        BY <2>1, <3>1, Zenon DEF RouteLeft
    <2>2. CASE RouteTaken(d)
      <3>1. request[d] \in Requests[d]
        BY <2>2 DEF RouteTaken, ReceiveInv, ConnInv, Working
      <3>2. Like(Filled(Routes[RouteOf(d)].pattern, ParamsAfter(d, RouteOf(d))), request[d].path)
        BY <2>2, <3>1, RouteFits DEF RouteTaken
      <3>3. QED
        BY <2>2, <3>2, Zenon DEF RouteTaken
    <2>3. QED
      BY <1>1, <1>2, <2>1, <2>2
  <1>3. \A d \in Connections : HandlerFits(d)'
    BY <1>2, Zenon DEF HandlerFits
  <1>4. QED
    BY <1>1, <1>3 DEF RoutingInv

-----------------------------------------------------------------------------
(* The theorems.                                                           *)

\* No connection is there yet.
LEMMA Initially ==
  ASSUME Init
  PROVE  ReceiveInv /\ SlotInv
  <1>1. ReceiveInv
    BY ServerAssumption DEF Init, All, ReceiveInv, ConnInv, Stages, Outside, Working
  <1>2. With(Counted) = {} /\ With(Holding) = {}
    BY DEF Init, All, With, Counted, Holding, Working
  <1>3. SlotsAccounted
    BY <1>2, FS_EmptySet DEF Init, All, SlotsAccounted, With
  <1>4. Cardinality({c \in Connections : stage[c] \in Holding}) <= MaxConnections
    BY <1>2, FS_EmptySet, ServerAssumption DEF With
  <1>5. QED
    BY <1>1, <1>3, <1>4 DEF SlotInv, Init, All

\* Both invariants hold in every behaviour.
LEMMA Always == Spec => [](ReceiveInv /\ SlotInv)
  <1>1. ReceiveInv /\ SlotInv /\ [Next]_vars => (ReceiveInv /\ SlotInv)'
    BY ReceiveKept, SlotKept DEF ReceiveInv
  <1>2. QED
    BY <1>1, Initially, PTL DEF Spec

\* However a connection ends, its descriptor is closed once and its slot given
\* back once (server.c 257-270, 396-423, 502-523).
THEOREM SlotsAlwaysAccounted == Spec => []SlotsAccounted
  <1>1. SlotInv => SlotsAccounted
    BY DEF SlotInv
  <1>2. QED
    BY <1>1, Always, PTL

\* However many listeners accept at once, no more than
\* GRAY_SERVER_MAX_CONNECTIONS connections are served (server.c 499-505).
THEOREM ConnectionLimitKept == Spec => []ConnectionLimit
  <1>1. SlotInv => ConnectionLimit
    <2> SUFFICES ASSUME SlotInv PROVE ConnectionLimit
      OBVIOUS
    <2>1. IsFiniteSet(With(Holding)) /\ With(Working) \subseteq With(Holding)
      BY ServerAssumption, FS_Subset DEF With, Holding
    <2>2. /\ Cardinality(With(Working)) \in Nat /\ Cardinality(With(Holding)) \in Nat
          /\ Cardinality(With(Working)) <= Cardinality(With(Holding))
      BY <2>1, FS_Subset, FS_CardinalityType
    <2>3. QED
      BY <2>2, ServerAssumption DEF SlotInv, With, ConnectionLimit
  <1>2. QED
    BY <1>1, Always, PTL

\* Whatever pieces a request comes in and whenever they come, receive_request
\* stays inside its buffer and ends at its deadline (server.c 343-376).
THEOREM ReceiveAlwaysBounded == Spec => []ReceiveBounded
  <1>1. ReceiveInv => ReceiveBounded
    BY ServerAssumption DEF ReceiveInv, ReceiveBounded
  <1>2. QED
    BY <1>1, Always, PTL

\* No handler runs on a body that was cut short (server.c 361-378), for every
\* request whose header block came and whose length is an int64_t: by ConnInv
\* needed is that length from the piece on that completes the header block.
THEOREM BodyAlwaysComplete == Spec => []BodyComplete
  <1>1. ReceiveInv => BodyComplete
    BY DEF ReceiveInv, ConnInv, BodyComplete, Served, Representable
  <1>2. QED
    BY <1>1, Always, PTL

\* The handler that runs is one for the path (server.c 128-160, 436-443), for
\* every router and every request: its pattern, with the parameters it is given
\* filled in, is the path up to a slash at the end, whatever the routes tried
\* before it have set.  A pattern that names a parameter twice is left out: it
\* is filled in with the last value alone.
THEOREM HandlersFit == RoutesNamedOnce => (Spec => []HandlerFitsPath)
  <1> SUFFICES ASSUME RoutesNamedOnce PROVE Spec => []HandlerFitsPath
    OBVIOUS
  <1>1. Init => RoutingInv
    BY DEF Init, All, RoutingInv, HandlerFits
  <1>2. ReceiveInv /\ RoutingInv /\ [Next]_vars => RoutingInv'
    BY RoutingKept
  <1>3. RoutingInv => HandlerFitsPath
    BY Zenon DEF RoutingInv, HandlerFits, HandlerFitsPath, Like
  <1>4. QED
    BY <1>1, <1>2, <1>3, Always, PTL DEF Spec
=============================================================================
