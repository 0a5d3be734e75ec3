------------------------------ MODULE MCCharFile ------------------------------
(* Offsets that are negative, inside, and past the 32 and the 64 bits. *)
EXTENDS CharFile

MCOffsets == {-1, 1, 5}
=============================================================================
