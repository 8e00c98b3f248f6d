------------------------------- MODULE Server -------------------------------
(***************************************************************************)
(* stdlib/server.c: the listeners, the limit on connections they share,    *)
(* and the thread of each connection from the first byte to the cleanup.   *)
(*                                                                         *)
(* A request is what its peer means to send: the length of its header      *)
(* block, the length it declares for the body (as strtoll returns it, 0    *)
(* for a negative one), how many bytes really come and the path it asks    *)
(* for.  Lengths are small numbers; the bytes arrive in pieces of any size.*)
(***************************************************************************)
EXTENDS Routing, Integers, FiniteSets

CONSTANTS
  Connections,     \* the connections there will be
  Listeners,       \* the threads in gray_server_listen_host
  Requests,        \* Requests[c]: what the peer of c may ask for
  Routes,          \* the router: a sequence of [method, pattern]
  RequestLine,     \* bytes up to the second space of the request line
  MaxConnections,  \* GRAY_SERVER_MAX_CONNECTIONS
  Capacity,        \* GRAY_SERVER_BUFFER_SIZE - 1
  Int64Max,        \* INT64_MAX
  ReadTimeout,     \* GRAY_SERVER_READ_TIMEOUT_MILLISECONDS, in units of time
  NULL             \* no connection

ASSUME ServerAssumption ==
  /\ IsFiniteSet(Connections) /\ NULL \notin Connections
  /\ MaxConnections \in Nat \ {0} /\ Capacity \in Nat \ {0}
  /\ RequestLine \in Nat \ {0} /\ ReadTimeout \in Nat \ {0}
  /\ Int64Max \in Nat /\ Capacity <= Int64Max
  /\ \A c \in Connections : \A r \in Requests[c] :
       /\ r.header \in Nat /\ RequestLine <= r.header
       /\ r.declared \in 0 .. Int64Max
       /\ r.sends \in Nat

ASSUME RouterAssumption ==
  /\ Routes \in Seq([method : STRING, pattern : Patterns])
  /\ \A c \in Connections : \A r \in Requests[c] : r.path \in Paths

VARIABLES
  up,                  \* the process runs: no handler has panicked
  accepted,            \* accepted[l]: the connection l is busy with
  active_connections,
  stage,               \* stage[c]: where connection c is
  request,             \* request[c]: what its peer means to send, NULL before and after
  total, needed,       \* of receive_request
  age,                 \* the time since receive_request was called
  deadline,            \* when it gives up
  route, params,       \* the route whose handler runs, and request.params
  published,           \* connections whose handler left a pointer from new() in a global
  heap_arena,          \* heap_arena[c]: "none", "live" or "freed"
  closes               \* history: times the descriptor has been closed

receiving == <<total, needed, age, deadline>>
routing == <<route, params>>
heap == <<published, heap_arena>>
vars == <<up, accepted, active_connections, stage, request, receiving, routing, heap, closes>>

All(x) == [c \in Connections |-> x]

Init ==
  /\ up = TRUE
  /\ accepted = [l \in Listeners |-> NULL]
  /\ active_connections = 0
  /\ stage = All("none")
  /\ request = All(NULL)
  /\ total = All(0) /\ needed = All(-1) /\ age = All(0) /\ deadline = All(0)
  /\ route = All(0) /\ params = All(NoParams)
  /\ published = {} /\ heap_arena = All("none")
  /\ closes = All(0)

Set(f, c, x) == [f EXCEPT ![c] = x]

\* The frame of c's receive_request and handle_connection is gone.
Forget(c) ==
  /\ request' = Set(request, c, NULL)
  /\ total' = Set(total, c, 0) /\ needed' = Set(needed, c, -1)
  /\ age' = Set(age, c, 0) /\ deadline' = Set(deadline, c, 0)
  /\ route' = Set(route, c, 0) /\ params' = Set(params, c, NoParams)

\* Connection c goes from one stage to another.
Goes(c, from, to) == up /\ stage[c] = from /\ stage' = Set(stage, c, to)

-----------------------------------------------------------------------------
(* gray_server_listen_host, one iteration of the loop in steps.            *)

Accept(l, c) ==
  /\ accepted[l] = NULL
  /\ Goes(c, "none", "accepted")
  /\ accepted' = [accepted EXCEPT ![l] = c]
  /\ UNCHANGED <<up, active_connections, request, receiving, routing, heap, closes>>

\* Bug: the limit itself is let in.
CountOneMore(l, c) ==
  /\ accepted[l] = c
  /\ Goes(c, "accepted", IF active_connections > MaxConnections THEN "refused" ELSE "admitted")
  /\ active_connections' = active_connections + 1
  /\ UNCHANGED <<up, accepted, request, receiving, routing, heap, closes>>

\* gray_atomic_add32, and the comparison with what it returned.
Count(l, c) ==
  /\ accepted[l] = c
  /\ Goes(c, "accepted", IF active_connections >= MaxConnections THEN "refused" ELSE "admitted")
  /\ active_connections' = active_connections + 1
  /\ UNCHANGED <<up, accepted, request, receiving, routing, heap, closes>>

\* The counter is taken back and the connection closed: with 503 when the
\* server is full, without a word when malloc or pthread_create fails.
GiveUp(l, c) ==
  /\ accepted[l] = c
  /\ Goes(c, "refused", "closed") \/ Goes(c, "admitted", "closed")
  /\ active_connections' = active_connections - 1
  /\ closes' = Set(closes, c, closes[c] + 1)
  /\ accepted' = [accepted EXCEPT ![l] = NULL]
  /\ UNCHANGED <<up, request, receiving, routing, heap>>

\* pthread_create succeeds: handle_connection runs, and has its arenas.
StartThread(l, c) ==
  /\ accepted[l] = c
  /\ Goes(c, "admitted", "receiving")
  /\ \E r \in Requests[c] : request' = Set(request, c, r)
  /\ heap_arena' = Set(heap_arena, c, "live")
  /\ deadline' = Set(deadline, c, ReadTimeout)
  /\ accepted' = [accepted EXCEPT ![l] = NULL]
  /\ UNCHANGED <<up, active_connections, total, needed, age, routing, published, closes>>

-----------------------------------------------------------------------------
(* receive_request.                                                        *)

\* The header block has come to its end within n bytes.
HeaderWithin(c, n) == n >= request[c].header

Whole(c) == request[c].header + request[c].declared

\* What needed is after n bytes.  A sum that is no int64_t is undefined in C: it
\* wraps to a negative number, or is taken for the number it should be.
NeededAt(c, n) ==
  IF needed[c] >= 0 \/ ~HeaderWithin(c, n) THEN {needed[c]}
  ELSE IF Whole(c) <= Int64Max THEN {Whole(c)}
  ELSE {Whole(c), Whole(c) - 2 * (Int64Max + 1)}

\* recv is asked for no more than the buffer has room for.
Fits(c, sum) == sum <= Capacity /\ sum <= request[c].sends

\* Bug: every piece that arrives restarts the timeout.
ReceiveRestarts(c, n) ==
  LET sum == total[c] + n IN
  /\ stage[c] = "receiving" /\ age[c] < deadline[c]
  /\ Fits(c, sum)
  /\ \E need \in NeededAt(c, sum) :
       /\ Goes(c, "receiving",
            IF need > Capacity THEN "too_large"
            ELSE IF (HeaderWithin(c, sum) /\ sum >= need) \/ sum = Capacity THEN "received"
            ELSE "receiving")
       /\ needed' = Set(needed, c, need)
  /\ total' = Set(total, c, sum)
  /\ deadline' = Set(deadline, c, age[c] + ReadTimeout)
  /\ UNCHANGED <<up, accepted, active_connections, request, age, routing, heap, closes>>

\* recv returns n bytes: the request is too large, complete, has filled the
\* buffer, or the loop goes on.
Receive(c, n) ==
  LET sum == total[c] + n IN
  /\ stage[c] = "receiving" /\ age[c] < deadline[c]
  /\ Fits(c, sum)
  /\ \E need \in NeededAt(c, sum) :
       /\ Goes(c, "receiving",
            IF need > Capacity THEN "too_large"
            ELSE IF (HeaderWithin(c, sum) /\ sum >= need) \/ sum = Capacity THEN "received"
            ELSE "receiving")
       /\ needed' = Set(needed, c, need)
  /\ total' = Set(total, c, sum)
  /\ UNCHANGED <<up, accepted, active_connections, request, age, deadline, routing, heap, closes>>

\* Bug: whatever has come is taken for the request.
PeerClosesUnchecked(c) ==
  /\ stage[c] = "receiving" /\ total[c] = request[c].sends
  /\ Goes(c, "receiving", IF total[c] = 0 THEN "dropped" ELSE "received")
  /\ UNCHANGED <<up, accepted, active_connections, request, receiving, routing, heap, closes>>

\* recv returns 0.
PeerCloses(c) ==
  /\ stage[c] = "receiving" /\ total[c] = request[c].sends
  /\ Goes(c, "receiving",
       IF needed[c] >= 0 /\ total[c] < needed[c] THEN "incomplete"
       ELSE IF total[c] = 0 THEN "dropped"
       ELSE "received")
  /\ UNCHANGED <<up, accepted, active_connections, request, receiving, routing, heap, closes>>

\* recv fails.
RecvFails(c) ==
  /\ Goes(c, "receiving", "dropped")
  /\ UNCHANGED <<up, accepted, active_connections, request, receiving, routing, heap, closes>>

Overdue(c) == stage[c] = "receiving" /\ age[c] >= deadline[c]

\* Bug: the first recv waits without a timeout.
TimesOutOnceBegun(c) ==
  /\ Overdue(c) /\ total[c] > 0
  /\ Goes(c, "receiving", "dropped")
  /\ UNCHANGED <<up, accepted, active_connections, request, receiving, routing, heap, closes>>

\* The deadline has passed: recv times out, or remaining is no longer positive.
TimesOut(c) ==
  /\ Overdue(c)
  /\ Goes(c, "receiving", "dropped")
  /\ UNCHANGED <<up, accepted, active_connections, request, receiving, routing, heap, closes>>

\* Time passes for the connections that wait; a thread whose deadline has come
\* runs before it goes on.
Tick ==
  /\ up
  /\ \E c \in Connections : stage[c] = "receiving"
  /\ \A c \in Connections : ~Overdue(c)
  /\ age' = [c \in Connections |-> IF stage[c] = "receiving" THEN age[c] + 1 ELSE age[c]]
  /\ UNCHANGED <<up, accepted, active_connections, stage, request, total, needed, deadline,
                 routing, heap, closes>>

-----------------------------------------------------------------------------
(* handle_connection.                                                      *)

\* 400 or 413, or nothing when the request was dropped.
Reject(c) ==
  /\ \E end \in {"incomplete", "too_large", "dropped"} : Goes(c, end, "cleanup")
  /\ UNCHANGED <<up, accepted, active_connections, request, receiving, routing, heap, closes>>

\* parse_request finds a method and a path in what has come.
parse_request(c) == total[c] >= RequestLine

\* The routes of the request's method, in order.
Candidates(c) == {i \in 1 .. Len(Routes) : Routes[i].method = request[c].method}

Matched(c, i) == match_route(Routes[i].pattern, request[c].path).matched

\* The first route that matches, 0 if none does.
RouteOf(c) ==
  IF \E i \in Candidates(c) : Matched(c, i)
  THEN CHOOSE i \in Candidates(c) :
         Matched(c, i) /\ \A j \in Candidates(c) : j < i => ~Matched(c, j)
  ELSE 0

\* Bug: a parameter that is set is not set again.
ParamsKept(c, last) ==
  LET upto[i \in 0 .. Len(Routes)] ==
        IF i = 0 THEN NoParams
        ELSE IF i \in Candidates(c)
        THEN Override(match_route(Routes[i].pattern, request[c].path).params, upto[i - 1])
        ELSE upto[i - 1]
  IN upto[last]

\* request.params after the routes up to last have been tried: those that did
\* not match have left theirs.
ParamsAfter(c, last) ==
  LET upto[i \in 0 .. Len(Routes)] ==
        IF i = 0 THEN NoParams
        ELSE IF i \in Candidates(c)
        THEN Override(upto[i - 1], match_route(Routes[i].pattern, request[c].path).params)
        ELSE upto[i - 1]
  IN upto[last]

\* Parse and route.  A method or path that is too long, or holds a NUL, gets
\* 400; what cannot be parsed gets 404, as a path without a route does.
Dispatch(c) ==
  LET i == RouteOf(c) IN
  /\ up /\ stage[c] = "received"
  /\ \/ /\ ~parse_request(c)
        /\ stage' = Set(stage, c, "respond")
        /\ UNCHANGED routing
     \/ /\ parse_request(c) /\ request[c].oversized
        /\ stage' = Set(stage, c, "cleanup")
        /\ UNCHANGED routing
     \/ /\ parse_request(c) /\ ~request[c].oversized
        /\ stage' = Set(stage, c, IF i = 0 THEN "middleware" ELSE "handler")
        /\ route' = Set(route, c, i)
        /\ params' = Set(params, c, ParamsAfter(c, IF i = 0 THEN Len(Routes) ELSE i))
  /\ UNCHANGED <<up, accepted, active_connections, request, receiving, heap, closes>>

\* The handler returns; it has stored a pointer from new() in a global.
HandlerReturns(c) ==
  /\ Goes(c, "handler", "middleware")
  /\ published' = published \cup {c}
  /\ UNCHANGED <<up, accepted, active_connections, request, receiving, routing, heap_arena, closes>>

\* The middleware has run, and may have changed the response.
MiddlewareReturns(c) ==
  /\ Goes(c, "middleware", "respond")
  /\ UNCHANGED <<up, accepted, active_connections, request, receiving, routing, heap, closes>>

\* A panic in a handler, in middleware, or over a line break in a response
\* header (P0132) ends the process.
Panics(c) ==
  /\ up /\ stage[c] \in {"handler", "middleware", "respond"}
  /\ up' = FALSE
  /\ UNCHANGED <<accepted, active_connections, stage, request, receiving, routing, heap, closes>>

\* send_all of the head and the body has ended, or failed.
Respond(c) ==
  /\ Goes(c, "respond", "cleanup")
  /\ UNCHANGED <<up, accepted, active_connections, request, receiving, routing, heap, closes>>

\* cleanup_connection, up to the close of the descriptor ...
Cleanup(c) ==
  /\ Goes(c, "cleanup", "uncount")
  /\ heap_arena' = Set(heap_arena, c, "freed")
  /\ closes' = Set(closes, c, closes[c] + 1)
  /\ Forget(c)
  /\ UNCHANGED <<up, accepted, active_connections, published>>

\* Bug: the slot is not given back.
UncountForgets(c) ==
  /\ Goes(c, "uncount", "closed")
  /\ UNCHANGED <<up, accepted, active_connections, request, receiving, routing, heap, closes>>

\* ... and the counter.
Uncount(c) ==
  /\ Goes(c, "uncount", "closed")
  /\ active_connections' = active_connections - 1
  /\ UNCHANGED <<up, accepted, request, receiving, routing, heap, closes>>

-----------------------------------------------------------------------------
\* What the peer does, or its network.
peer(c) ==
  \/ \E n \in 1 .. Capacity : Receive(c, n)
  \/ PeerCloses(c) \/ RecvFails(c)

handle_connection(c) ==
  \/ TimesOut(c) \/ Reject(c) \/ Dispatch(c)
  \/ HandlerReturns(c) \/ MiddlewareReturns(c)
  \/ Respond(c) \/ Cleanup(c) \/ Uncount(c)

listen(l, c) == Count(l, c) \/ GiveUp(l, c) \/ StartThread(l, c)

Next ==
  \/ \E c \in Connections : peer(c) \/ handle_connection(c) \/ Panics(c)
  \/ \E l \in Listeners, c \in Connections : Accept(l, c) \/ listen(l, c)
  \/ Tick

Spec == Init /\ [][Next]_vars

\* The scheduler runs the threads, and time goes on.  A handler returns and the
\* peer takes the response or goes away (send has no timeout), but nothing is
\* assumed about whether and when a peer sends.
FairSpec ==
  Spec /\ WF_vars(\/ Tick
                  \/ \E c \in Connections : handle_connection(c)
                  \/ \E l \in Listeners, c \in Connections : listen(l, c))

-----------------------------------------------------------------------------
(* Properties.                                                             *)

Working == {"receiving", "incomplete", "too_large", "dropped", "received", "handler",
            "middleware", "respond", "cleanup"}
Counted == Working \cup {"refused", "admitted", "uncount"}

\* However many listeners accept at once (server.c 499-505), no more than
\* GRAY_SERVER_MAX_CONNECTIONS connections are being served.
ConnectionLimit == Cardinality({c \in Connections : stage[c] \in Working}) <= MaxConnections

\* On each of the ways a connection can end (502-523, 257-270, and the returns
\* of 396-423) its descriptor is closed once and its slot given back once: with
\* nothing in progress the counter is back to zero.
SlotsAccounted ==
  /\ active_connections = Cardinality({c \in Connections : stage[c] \in Counted})
  /\ \A c \in Connections : closes[c] = IF stage[c] \in {"uncount", "closed"} THEN 1 ELSE 0

\* A peer that sends a byte now and then does not get more time for its request
\* than one that sends nothing, and however its request is cut into pieces, none
\* goes past the end of the buffer (343-376).
ReceiveBounded == \A c \in Connections : age[c] <= ReadTimeout /\ total[c] <= Capacity

\* A handler or middleware runs on c, and the header block has come.
Served(c) == stage[c] \in {"handler", "middleware"} /\ HeaderWithin(c, total[c])

\* No handler and no middleware runs on a request whose body was cut short
\* (361-378), in whatever pieces it came.  Except for one declared so long that
\* its sum with the header is no int64_t (373): if that wraps, a handler gets what
\* came of it, against the comment of receive_request (349-351).
BodyComplete ==
  \A c \in Connections : Served(c) /\ Whole(c) <= Int64Max => total[c] >= Whole(c)

\* The handler that runs is one for the path (128-160, 436-443): its pattern,
\* with the parameters the handler is given, is the path up to a slash at the
\* end, also when the routes tried before it set the same parameters.
HandlerFitsPath ==
  \A c \in Connections :
    stage[c] = "handler" =>
      LET filled == Filled(Routes[route[c]].pattern, params[c])
      IN  \/ filled = request[c].path
          \/ filled = Append(request[c].path, "/")
          \/ Append(filled, "/") = request[c].path

\* Every connection that has been accepted ends, and gives its slot back,
\* whatever its peer sends or does not send: there are finitely many, so again
\* and again none is in progress.
ConnectionsEnd == []<>(~up \/ \A c \in Connections : stage[c] \in {"none", "closed"})

\* STANDARD.md 5284: "pointers returned by `new()` are always valid until the
\* program exits."
NewLivesOn == \A c \in published : heap_arena[c] = "live"
=============================================================================
