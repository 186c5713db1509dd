------------------------------- MODULE MCArena -------------------------------
(* A pool of a few units, the base not aligned.                            *)
EXTENDS Arena

MCRequests == {0, 2, 4}
=============================================================================
