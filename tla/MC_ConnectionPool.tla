------------------------- MODULE MC_ConnectionPool --------------------------
(* Small instances of ConnectionPool.                                      *)
EXTENDS ConnectionPool

CONSTANTS c1, c2, c3, c4, c5
=============================================================================
