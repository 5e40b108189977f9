--------------------------- MODULE MCCommandQueue ---------------------------
(***************************************************************************)
(* A script's commands for one device: a change without a condition, one   *)
(* that waits until the bit is clear and one to be made while it is set.   *)
(***************************************************************************)
EXTENDS CommandQueue

MCBits == {"move"}

MCBitsOf == [n \in Blocking \cup While |-> {"move"}]
=============================================================================
