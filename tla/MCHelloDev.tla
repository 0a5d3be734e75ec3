----------------------------- MODULE MCHelloDev -----------------------------
(* HelloDev with two values to write that differ from each other, and from   *)
(* what a fault leaves, in every byte.                                       *)
EXTENDS HelloDev

MCWritten == {[i \in 1..N |-> b] : b \in Byte \ {0}}
=============================================================================
