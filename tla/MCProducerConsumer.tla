------------------------- MODULE MCProducerConsumer -------------------------
(* A small instance of ProducerConsumer for TLC.                           *)
EXTENDS ProducerConsumer

CONSTANTS p1, p2, c1, c2, v1, v2, v3

=============================================================================
