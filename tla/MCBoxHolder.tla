----------------------------- MODULE MCBoxHolder -----------------------------
(* A small instance of BoxHolder for TLC.                                  *)
EXTENDS BoxHolder

CONSTANTS t1, t2, n1, n2

=============================================================================
