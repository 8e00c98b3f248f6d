----------------------------- MODULE MCChannel -----------------------------
(* Channel for TLC: the constants of the runs.                              *)
EXTENDS Channel

MCValues == {1, 2}
MCJunk == 9
=============================================================================
