------------------------------ MODULE Routing ------------------------------
(***************************************************************************)
(* The routes of stdlib/server.c: how a path is matched against a pattern, *)
(* and what that leaves in the parameters of the request.                  *)
(*                                                                         *)
(* A path is a sequence of characters, "/" among them.  A pattern is a     *)
(* sequence of Char(c) and, for ":name", Param(name).                      *)
(***************************************************************************)
EXTENDS Naturals, Sequences

Char(c) == [param |-> FALSE, text |-> c]
Param(n) == [param |-> TRUE, text |-> n]

Patterns == Seq([param : BOOLEAN, text : STRING])
Paths == Seq(STRING)

NoParams == [name \in {} |-> <<>>]

\* The parameters of f and g, those of g where both have one (GRAY_MAP_SET).
Override(f, g) == [n \in DOMAIN f \cup DOMAIN g |-> IF n \in DOMAIN g THEN g[n] ELSE f[n]]

\* The end of the path segment that begins at q.
SegmentEnd(path, q) ==
  CHOOSE j \in q .. Len(path) + 1 :
    /\ j = Len(path) + 1 \/ path[j] = "/"
    /\ \A k \in q .. j - 1 : path[k] # "/"

\* Bug: the pattern is a prefix.
PrefixConsumed(pattern, p, path, q) == p > Len(pattern)

\* A trailing slash may be missing on either side.
BothConsumed(pattern, p, path, q) ==
  \/ p > Len(pattern) /\ q > Len(path)
  \/ p > Len(pattern) /\ q = Len(path) /\ path[q] = "/"
  \/ q > Len(path) /\ p = Len(pattern) /\ pattern[p] = Char("/")

AtEnd(pattern, p, path, q) ==
  [matched |-> BothConsumed(pattern, p, path, q), params |-> NoParams]

\* The loop with the cursors at p, which is not at the end, and at q, for every
\* q, when rest is the loop from p + 1 on.
LoopFrom(pattern, p, path, rest) ==
  [q \in 1 .. Len(path) + 1 |->
     IF q > Len(path) THEN AtEnd(pattern, p, path, q)
     ELSE IF pattern[p].param
     THEN LET end == SegmentEnd(path, q)
              value == SubSeq(path, q, end - 1)
          IN  [matched |-> rest[end].matched,
               params |-> Override([n \in {pattern[p].text} |-> value], rest[end].params)]
     ELSE IF pattern[p].text = path[q] THEN rest[q + 1]
     ELSE [matched |-> FALSE, params |-> NoParams]]

\* Whether pattern matches path, and the parameters set on the way, which are
\* set whether it does or not.
match_route(pattern, path) ==
  LET from[p \in 1 .. Len(pattern) + 1] ==
        IF p > Len(pattern) THEN [q \in 1 .. Len(path) + 1 |-> AtEnd(pattern, p, path, q)]
        ELSE LoopFrom(pattern, p, path, from[p + 1])
  IN  from[1][1]

\* The path a pattern stands for when its parameters have these values.
Filled(pattern, params) ==
  LET filled[n \in 0 .. Len(pattern)] ==
        IF n = 0 THEN <<>>
        ELSE filled[n - 1] \o (IF pattern[n].param THEN params[pattern[n].text]
                               ELSE <<pattern[n].text>>)
  IN filled[Len(pattern)]
=============================================================================
