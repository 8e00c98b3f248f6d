------------------------------- MODULE MCSync -------------------------------
(* The programs for the run of Sync.                                       *)
EXTENDS Sync

\* Bound: a program that makes a mutex does not test, join, detach or use new().
Apart ==
  \/ created = {}
  \/ ~testing /\ \A t \in Threads : releases[t] = 0 /\ heap_usage[t] = 0

MCNext == Next /\ Apart'

MCSpec == Init /\ [][MCNext]_vars /\ WF_vars(\E t \in Threads : Library(t) /\ UNCHANGED sync)
=============================================================================
