------------------------------ MODULE MCArena ------------------------------
(* Arena for TLC.                                                          *)
EXTENDS Arena

MCUserSizes == {-1, 20, 40}
=============================================================================
