------------------------------ MODULE MCServer ------------------------------
(* Requests and routes for the runs of Server.                             *)
EXTENDS Server

CONSTANT c1

Asks(header, declared, sends, path) ==
  [header |-> header, declared |-> declared, sends |-> sends, method |-> "GET",
   path |-> path, oversized |-> FALSE]

Complete == Asks(2, 1, 3, <<"/", "a", "/", "b">>)

\* With a buffer of 3 bytes, a request line of 2 and 5 for INT64_MAX.
AllRequests == {
  Complete,
  Asks(2, 1, 2, <<"/", "a">>),             \* its body never comes
  Asks(2, 0, 3, <<"/", "b", "/">>),        \* more than it declares
  Asks(2, 2, 3, <<"/", "a">>),             \* larger than the buffer
  Asks(2, 5, 2, <<"/", "a">>),             \* of a length that is no int64_t
  Asks(4, 0, 4, <<"/", "a", "/">>),        \* its header larger than the buffer
  Asks(2, 0, 1, <<"/">>),                  \* no whole request line
  [Asks(2, 0, 2, <<"/">>) EXCEPT !.oversized = TRUE]}

\* One connection sends anything, the others keep the slots busy.
MCRequests == [c \in Connections |-> IF c = c1 THEN AllRequests ELSE {Complete}]

MCRoutes == <<
  [method |-> "POST", pattern |-> <<Char("/"), Param("x")>>],
  [method |-> "GET", pattern |-> <<Char("/"), Param("x"), Char("/"), Char("c")>>],
  [method |-> "GET", pattern |-> <<Char("/"), Char("a")>>],
  [method |-> "GET", pattern |-> <<Char("/"), Char("a"), Char("/"), Param("x")>>],
  [method |-> "GET", pattern |-> <<Char("/"), Param("y"), Char("/")>>]>>
=============================================================================
